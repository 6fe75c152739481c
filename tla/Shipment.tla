------------------------------ MODULE Shipment ------------------------------
(* One issue after its pull request has merged: the steps of ship._shipped    *)
(* and mirror_shipped, with a crash possible between any two; the evidence    *)
(* poll of sync.py that completes a shipment, quietly or on a comment; and    *)
(* what undoes it: adverse evidence in the fourteen days after the merge, a   *)
(* reopened issue, a completion whose pull request never merged.              *)
(* A stamped event takes the next value of a counter for its time; the window *)
(* of a shipment ends at a stamp of its own.                                  *)
EXTENDS Naturals, FiniteSets

CONSTANTS MaxPrs,      \* bound: pull requests of the issue
          MaxBuilds,   \* bound: builds that end with work to ship
          MaxTime,     \* bound: stamped events
          MaxFaults    \* bound: crashes and failed calls

ShipmentAssumption ==
  /\ MaxPrs \in Nat \ {0} /\ MaxBuilds \in Nat \ {0} /\ MaxTime \in Nat /\ MaxFaults \in Nat

VARIABLES item,      \* the items row; snap: its branch is a snapshot still to be pushed
          uat,       \* the uat row: which shipment the ledger is observing
          proof,     \* completion_evidence
          kv,        \* shipped_closed, source_reopened, reopen_mirror, shipped counted
          adverse,   \* times of what adverse_evidence finds in the ledger
          reopened,  \* shipment_reopened recorded since the last shipment_superseded
          hub,       \* GitHub: the issue and its comments, bugs that name it
          prs,       \* GitHub: its pull requests, when each merged, the build it has
          built,     \* builds so far
          step,      \* the handler that is running
          now,       \* the last stamp
          end,       \* the stamp that ended the observation window, 0 while it is open
          faults,    \* what remains of MaxFaults
          seen       \* history: the reopenings of each merge; the merges whose
                     \* uat row could not be written and was not there since

ledger == <<item, uat, proof, kv, adverse, reopened>>
world == <<hub, prs, built, now, end>>
vars == <<ledger, world, step, faults, seen>>

Prs == 1..MaxPrs

NoUat == [pr |-> 0, at |-> 0, verdict |-> "none", failed |-> 0, bug |-> FALSE]
NoProof == [kind |-> "none", at |-> 0]
NoPr == [status |-> "none", at |-> 0, work |-> 0]
Idle == [at |-> "idle", pr |-> 0, open |-> FALSE, fetched |-> 0]

Init ==
  /\ item = [state |-> "ready", pr |-> 0, snap |-> FALSE, mirror |-> "other"]
  /\ uat = NoUat /\ proof = NoProof
  /\ kv = [closed |-> FALSE, noted |-> FALSE, relabel |-> FALSE, counted |-> 0]
  /\ adverse = {} /\ reopened = FALSE
  /\ hub = [open |-> TRUE, reopens |-> {}, notes |-> {}, bugs |-> {}]
  /\ prs = [p \in Prs |-> NoPr]
  /\ built = 0 /\ now = 0 /\ end = 0
  /\ step = Idle
  /\ faults = MaxFaults
  /\ seen = [reopenings |-> [p \in Prs |-> 0], lost |-> {}]

Stamp == now' = now + 1

(* What people do, and could do for ever. *)
Says == now < MaxTime /\ Stamp

Fault == faults > 0 /\ faults' = faults - 1

Go(at) == step' = [step EXCEPT !.at = at]
Done == step' = Idle

pr_merged(p) == p # 0 /\ prs[p].status = "merged"

------------------------------------------------------------------------------
(* The build, its pull request and the merge, as far as a shipment needs them *)
(* (Delivery has the rest of the pipeline).                                   *)

Build ==
  /\ step = Idle /\ item.state = "ready" /\ built < MaxBuilds
  /\ built' = built + 1
  /\ item' = [item EXCEPT !.state = "verifying", !.snap = TRUE]
  /\ UNCHANGED <<uat, proof, kv, adverse, reopened, hub, prs, now, end, step, faults, seen>>

(* _open_pr: the pull request on record, when it has merged, is the shipment. *)
_open_pr ==
  /\ step = Idle /\ item.state = "verifying" /\ (item.pr = 0 \/ item.snap)
  /\ IF pr_merged(item.pr)
     THEN step' = [step EXCEPT !.at = "uat", !.pr = item.pr] /\ UNCHANGED <<item, prs>>
     ELSE \E p \in Prs :
       /\ prs[p].status \in {"none", "open"}
       /\ \A q \in Prs : q < p => prs[q].status \notin {"none", "open"}
       /\ prs' = [prs EXCEPT ![p] = [status |-> "open", at |-> 0, work |-> built]]
       /\ item' = [item EXCEPT !.pr = p, !.snap = FALSE]
       /\ UNCHANGED step
  /\ UNCHANGED <<uat, proof, kv, adverse, reopened, hub, built, now, end, faults, seen>>

(* The conductor, the owner or the merge queue; "Fixes #n" closes the issue,  *)
(* and a session's pull request may not say so.                               *)
Merge ==
  /\ step = Idle /\ Stamp
  /\ item.pr # 0 /\ prs[item.pr].status = "open" /\ item.state = "verifying"
  /\ prs' = [prs EXCEPT ![item.pr].status = "merged", ![item.pr].at = now']
  /\ \E closes \in BOOLEAN : hub' = [hub EXCEPT !.open = @ /\ ~closes]
  /\ UNCHANGED <<ledger, built, end, step, faults, seen>>

(* cmd_claim takes an item in any state; cmd_ship hands over a pull request   *)
(* of the session's own, in the place of the one on record.                   *)
SessionShips ==
  /\ step = Idle /\ built < MaxBuilds
  /\ built' = built + 1
  /\ \E p \in Prs :
       /\ prs[p].status = "none" /\ \A q \in Prs : q < p => prs[q].status # "none"
       /\ prs' = [prs EXCEPT ![p] = [status |-> "open", at |-> 0, work |-> built']]
       /\ item' = [item EXCEPT !.state = "verifying", !.pr = p, !.snap = FALSE]
  /\ UNCHANGED <<uat, proof, kv, adverse, reopened, hub, now, end, step, faults, seen>>

(* _watch_pr sees the merge. *)
Watch ==
  /\ step = Idle /\ item.state = "verifying" /\ ~item.snap /\ pr_merged(item.pr)
  /\ step' = [step EXCEPT !.at = "uat", !.pr = item.pr]
  /\ UNCHANGED <<ledger, world, faults, seen>>

------------------------------------------------------------------------------
(* _shipped, one step per write or call.                                      *)

(* Mutant: the keys of the shipment before it stay.                           *)
add_uat_Keeps(p) ==
  IF uat.pr = p THEN UNCHANGED <<uat, proof, kv, reopened, end>>
  ELSE /\ uat' = [NoUat EXCEPT !.pr = p, !.at = prs[p].at] /\ end' = 0
       /\ UNCHANGED <<proof, kv, reopened>>

(* Supersedes the shipment before it, evidence and reopening keys included.   *)
add_uat(p) ==
  IF uat.pr = p THEN UNCHANGED <<uat, proof, kv, reopened, end>>
  ELSE /\ uat' = [NoUat EXCEPT !.pr = p, !.at = prs[p].at] /\ end' = 0
       /\ proof' = NoProof
       /\ kv' = IF uat = NoUat THEN kv
                ELSE [kv EXCEPT !.closed = FALSE, !.noted = FALSE, !.relabel = FALSE]
       /\ reopened' = IF uat = NoUat THEN reopened ELSE FALSE

Found(p) == seen' = [seen EXCEPT !.lost = @ \ {p}]
Lost(p) == seen' = [seen EXCEPT !.lost = IF uat.pr = p THEN @ ELSE @ \cup {p}]

(* record_uat_if_needed: a write that fails is only logged, and the shipment  *)
(* goes on. The row of an earlier shipment then stays where it is.            *)
RecordUat ==
  /\ step.at = "uat"
  /\ Go("state")
  /\ \/ add_uat(step.pr) /\ Found(step.pr) /\ UNCHANGED faults
     \/ Lost(step.pr) /\ Fault /\ UNCHANGED <<uat, proof, kv, reopened, end>>
  /\ UNCHANGED <<item, adverse, hub, prs, built, now>>

SetShipped ==
  /\ step.at = "state"
  /\ item' = [item EXCEPT !.state = "shipped"]
  /\ Go("count")
  /\ UNCHANGED <<uat, proof, kv, adverse, reopened, world, faults, seen>>

(* event("shipped") with record_shipped; the lease and the registration of    *)
(* the post-merge check are PostMerge's and Lease's.                          *)
CountShipped ==
  /\ step.at = "count"
  /\ kv' = [kv EXCEPT !.counted = step.pr]
  /\ Go("close")
  /\ UNCHANGED <<item, uat, proof, adverse, reopened, world, faults, seen>>

(* mirror_shipped: a call that fails leaves the rest to mirror_labels.        *)
CloseIssue ==
  /\ step.at = "close"
  /\ \/ hub' = [hub EXCEPT !.open = FALSE] /\ Go("closed") /\ UNCHANGED faults
     \/ Fault /\ Done /\ UNCHANGED hub
  /\ UNCHANGED <<ledger, prs, built, now, end, seen>>

NoteClosed ==
  /\ step.at = "closed"
  /\ kv' = [kv EXCEPT !.closed = TRUE]
  /\ Go("label")
  /\ UNCHANGED <<item, uat, proof, adverse, reopened, world, faults, seen>>

LabelShipped ==
  /\ step.at = "label"
  /\ Done
  /\ \/ item' = [item EXCEPT !.mirror = "shipped"] /\ UNCHANGED faults
     \/ Fault /\ UNCHANGED item
  /\ UNCHANGED <<uat, proof, kv, adverse, reopened, world, seen>>

Crash ==
  /\ step # Idle /\ Fault /\ Done
  /\ UNCHANGED <<ledger, world, seen>>

(* mirror_labels at the end of a tick. *)
MirrorLabels ==
  /\ step = Idle
  /\ \/ /\ item.state = "shipped" /\ item.mirror # "shipped"
        /\ step' = [step EXCEPT !.at = "close", !.pr = item.pr]
        /\ UNCHANGED item
     \/ /\ item.state \in {"ready", "verifying"} /\ item.mirror = "shipped" /\ hub.open
        /\ item' = [item EXCEPT !.mirror = "other"]
        /\ UNCHANGED step
  /\ UNCHANGED <<uat, proof, kv, adverse, reopened, world, faults, seen>>

------------------------------------------------------------------------------
(* The sync pass: what the poll fetched, its ingestion, then the evidence.    *)

(* open_issues, with linked bugs; a failed fetch ends the pass before it.     *)
SyncFetch ==
  /\ step = Idle
  /\ step' = [Idle EXCEPT !.at = IF hub.open THEN "open" ELSE "shut", !.open = hub.open,
                       !.fetched = now]
  /\ adverse' = adverse \cup hub.bugs
  /\ Found(uat.pr)
  /\ UNCHANGED <<item, uat, proof, kv, reopened, world, faults>>

(* _reconcile_open_completion: an open, completed issue of a pull request     *)
(* that was closed without merging, and no other that merged.                 *)
Unmerged ==
  /\ item.state \in {"done", "shipped"}
  /\ item.pr # 0 /\ prs[item.pr].status = "closed"
  /\ \A p \in Prs : prs[p].status # "merged"

(* Closure is confirmed, so an open issue has been reopened.                  *)
ToNote ==
  /\ item.mirror = "shipped" \/ kv.closed
  /\ item.state = "shipped" \/ (item.state = "done" /\ proof.kind = "smoke")
  /\ ~kv.noted /\ uat # NoUat

Reopens == {at \in hub.reopens : at >= uat.at}

(* Without an event to show for it, _note_source_reopen raises: the pass ends *)
(* and nothing completes on a poll that is not whole.                         *)
SyncOpen ==
  /\ step.at = "open"
  /\ IF Unmerged
     THEN /\ item' = [item EXCEPT !.state = "ready", !.pr = 0, !.snap = FALSE, !.mirror = "other"]
          /\ Go("poll") /\ UNCHANGED <<kv, adverse>>
     ELSE /\ UNCHANGED item
          /\ CASE ToNote /\ Reopens # {} ->
                    adverse' = adverse \cup Reopens /\ kv' = [kv EXCEPT !.noted = TRUE] /\ Go("poll")
               [] ToNote /\ Reopens = {} -> Done /\ UNCHANGED <<kv, adverse>>
               [] ~ToNote -> Go("poll") /\ UNCHANGED <<kv, adverse>>
  /\ UNCHANGED <<uat, proof, reopened, world, faults, seen>>

(* An issue that is not in the list and not completed: closed on GitHub, by a *)
(* merge that nobody here has seen, or by hand.                               *)
SyncShut ==
  /\ step.at = "shut"
  /\ IF hub.open \/ item.state \in {"done", "shipped"}
     THEN Go("poll") /\ UNCHANGED item
     ELSE IF pr_merged(item.pr)
          THEN step' = [step EXCEPT !.at = "uat", !.pr = item.pr] /\ UNCHANGED item
          ELSE item' = [item EXCEPT !.state = "done"] /\ Go("poll")
  /\ UNCHANGED <<uat, proof, kv, adverse, reopened, world, faults, seen>>

Inside(at) == uat.at <= at /\ (end = 0 \/ at <= end)

(* adverse_evidence: events and bugs, and a verdict of this shipment's row. *)
Against ==
  \/ \E at \in adverse : Inside(at)
  \/ uat.verdict = "fail" /\ Inside(uat.failed)

(* completion_evidence: only what was said after the merge counts.            *)
Proofs == {note \in hub.notes : note.at > uat.at}

First(notes) == CHOOSE note \in notes : \A other \in notes : note.at <= other.at

(* accept_evidence: INSERT OR IGNORE keeps evidence that is there already.    *)
accept_evidence(evidence) ==
  /\ proof' = IF proof = NoProof THEN evidence ELSE proof
  /\ uat' = [uat EXCEPT !.verdict = "pass"]
  /\ item' = [item EXCEPT !.state = "done", !.mirror = "shipped"]

(* Mutant: what was heard of an earlier shipment, or too late, counts too.    *)
Quiet_Grudge == end # 0 /\ adverse = {} /\ uat.verdict # "fail"

Quiet == end # 0 /\ ~Against

(* reconcile_shipped for a shipped item, whose uat row it makes up for when   *)
(* there is none at all; its cooldown and batches only say how soon.          *)
PollShipped ==
  /\ step.at = "poll"
  /\ \/ /\ item.state # "shipped" \/ (uat = NoUat /\ ~pr_merged(item.pr))
        /\ Go("undo") /\ UNCHANGED <<item, uat, proof, kv, reopened, end, faults>>
     \/ /\ item.state = "shipped" /\ uat = NoUat /\ pr_merged(item.pr)
        /\ add_uat(item.pr)
        /\ UNCHANGED <<item, step, faults>>
     \/ /\ item.state = "shipped" /\ uat # NoUat
        /\ Go("undo")
        /\ UNCHANGED <<kv, reopened, end, faults>>
        /\ CASE Proofs # {} -> accept_evidence(First(Proofs))
             [] Proofs = {} /\ Quiet -> accept_evidence([kind |-> "quiet", at |-> end])
             [] Proofs = {} /\ ~Quiet -> UNCHANGED <<item, uat, proof>>
     \/ /\ item.state = "shipped" /\ Fault
        /\ Go("undo") /\ UNCHANGED <<item, uat, proof, kv, reopened, end>>
  /\ UNCHANGED <<adverse, hub, prs, built, now, seen>>

(* Once a shipment: a reopening since the last supersession is enough.        *)
reopen_shipment == item.state = "done" /\ ~reopened

(* An early, automated completion is undone by adverse evidence.              *)
Undo ==
  /\ step.at = "undo"
  /\ IF uat # NoUat /\ proof.kind = "smoke" /\ Against /\ reopen_shipment
     THEN /\ item' = [item EXCEPT !.state = "ready", !.mirror = "other"]
          /\ kv' = [kv EXCEPT !.relabel = TRUE]
          /\ reopened' = TRUE
          /\ seen' = [seen EXCEPT !.reopenings[uat.pr] = @ + 1]
     ELSE UNCHANGED <<item, kv, reopened, seen>>
  /\ Go("relabel")
  /\ UNCHANGED <<uat, proof, adverse, world, faults>>

(* mirror_reopen, while its key is pending. *)
Relabel ==
  /\ step.at = "relabel"
  /\ Done
  /\ \/ ~kv.relabel /\ UNCHANGED <<item, kv, hub, now, faults>>
     \/ /\ kv.relabel /\ ~hub.open /\ Stamp
        /\ hub' = [hub EXCEPT !.open = TRUE, !.reopens = @ \cup {now'}]
        /\ item' = [item EXCEPT !.mirror = "other"]
        /\ kv' = [kv EXCEPT !.relabel = FALSE]
        /\ UNCHANGED faults
     \/ /\ kv.relabel /\ hub.open
        /\ item' = [item EXCEPT !.mirror = "other"]
        /\ kv' = [kv EXCEPT !.relabel = FALSE]
        /\ UNCHANGED <<hub, now, faults>>
     \/ kv.relabel /\ Fault /\ UNCHANGED <<item, kv, hub, now>>
  /\ UNCHANGED <<uat, proof, adverse, reopened, prs, built, end, seen>>

------------------------------------------------------------------------------
(* People, and the project's own smoke check.                                 *)

(* A comment of completion_evidence's grammar: the owner's, the console's, or *)
(* post_merge._deliver's on the shipment the ledger is observing.             *)
Comment(kind) ==
  /\ Says
  /\ kind = "smoke" => uat # NoUat /\ item.state = "shipped"
  /\ hub' = [hub EXCEPT !.notes = @ \cup {[kind |-> kind, at |-> now']}]
  /\ UNCHANGED <<ledger, prs, built, end, step, faults, seen>>

(* A bug that names the issue or its pull request. *)
FileBug ==
  /\ Says /\ uat # NoUat
  /\ hub' = [hub EXCEPT !.bugs = @ \cup {now'}]
  /\ UNCHANGED <<ledger, prs, built, end, step, faults, seen>>

(* outbox.uat_fail with report_shipment_failure, drained between passes: the  *)
(* bug it files is linked once a poll has fetched it.                         *)
FailUat ==
  /\ step = Idle /\ Says
  /\ uat # NoUat /\ ~uat.bug /\ uat.verdict # "fail"
  /\ hub' = [hub EXCEPT !.bugs = @ \cup {now'}]
  /\ uat' = IF uat.verdict = "pass" THEN [uat EXCEPT !.bug = TRUE]
            ELSE [uat EXCEPT !.bug = TRUE, !.verdict = "fail", !.failed = now']
  /\ UNCHANGED <<item, proof, kv, adverse, reopened, prs, built, end, step, faults, seen>>

(* outbox.revert, as far as this shipment: revert_requested. *)
AskRevert ==
  /\ step = Idle /\ Says /\ uat # NoUat
  /\ adverse' = adverse \cup {now'}
  /\ UNCHANGED <<item, uat, proof, kv, reopened, hub, prs, built, end, step, faults, seen>>

OwnerReopens ==
  /\ ~hub.open /\ Says
  /\ hub' = [hub EXCEPT !.open = TRUE, !.reopens = @ \cup {now'}]
  /\ UNCHANGED <<ledger, prs, built, end, step, faults, seen>>

OwnerCloses ==
  /\ hub.open /\ Says
  /\ hub' = [hub EXCEPT !.open = FALSE]
  /\ UNCHANGED <<ledger, prs, built, end, step, faults, seen>>

(* The pull request of an issue that somebody had closed is closed too.       *)
OwnerClosesPr ==
  /\ item.pr # 0 /\ prs[item.pr].status = "open" /\ item.state = "done"
  /\ prs' = [prs EXCEPT ![item.pr].status = "closed"]
  /\ UNCHANGED <<ledger, hub, built, now, end, step, faults, seen>>

(* Fourteen days have passed since the merge that is being observed.          *)
WindowEnds ==
  /\ uat # NoUat /\ end = 0 /\ Stamp
  /\ end' = now'
  /\ UNCHANGED <<ledger, hub, prs, built, step, faults, seen>>

Pipeline == Build \/ _open_pr \/ Merge \/ Watch \/ SessionShips
Shipping == RecordUat \/ SetShipped \/ CountShipped \/ CloseIssue \/ NoteClosed \/ LabelShipped
Syncing == SyncFetch \/ SyncOpen \/ SyncShut \/ PollShipped \/ Undo \/ Relabel
People ==
  \/ \E kind \in {"smoke", "owner"} : Comment(kind)
  \/ FileBug \/ FailUat \/ AskRevert \/ OwnerReopens \/ OwnerCloses \/ OwnerClosesPr

Next == Pipeline \/ Shipping \/ MirrorLabels \/ Syncing \/ People \/ Crash \/ WindowEnds

(* Every tick runs its passes to the end or dies, and ticks go on; days pass. *)
Fairness ==
  /\ WF_vars(Shipping) /\ WF_vars(MirrorLabels) /\ WF_vars(_open_pr \/ Watch)
  /\ WF_vars(SyncOpen) /\ WF_vars(SyncShut) /\ WF_vars(PollShipped) /\ WF_vars(Undo)
  /\ WF_vars(Relabel) /\ SF_vars(SyncFetch) /\ WF_vars(WindowEnds)

Spec == Init /\ [][Next]_vars /\ Fairness

------------------------------------------------------------------------------
(* Properties.                                                                *)

(* A shipment is completed on evidence of its own merge: never on what was    *)
(* said, or accepted, of the shipment before it (add_uat supersedes it,       *)
(* completion_evidence asks for a comment after the merge). The exception is  *)
(* a merge whose row could not be written over that of the shipment before    *)
(* it: the poll makes up for a row only where there is none.                  *)
CompletedOnItsOwn ==
  [][item.state = "shipped" /\ item'.state = "done" =>
       /\ uat'.pr = item.pr \/ item.pr \in seen.lost
       /\ proof'.at > prs[uat'.pr].at]_vars

(* Nothing completes quietly that the poll could have known to be disputed: a *)
(* linked bug, a revert, a failed check, or a reopening of an issue whose     *)
(* closure was confirmed, made before the poll fetched and inside the window; *)
(* but not of a shipment whose row the very pass had to make up for.          *)
QuietIsClean ==
  [][item.state = "shipped" /\ item'.state = "done" /\ proof'.kind = "quiet" /\ Proofs = {} =>
       /\ ~Against
       /\ \A at \in hub.bugs : at <= step.fetched => ~Inside(at)
       /\ step.open /\ kv.closed /\ item.pr \notin seen.lost =>
            \A at \in hub.reopens : at <= step.fetched => ~Inside(at)]_vars

(* However often a shipment is written down again, completed again and        *)
(* disputed again, it is reopened at most once.                               *)
ReopenedOnce == \A p \in Prs : seen.reopenings[p] <= 1

(* The three together: what becomes of one shipment owes nothing to another.   *)
ShipmentsAreSound == CompletedOnItsOwn /\ QuietIsClean /\ []ReopenedOnce

(* Every shipment settles: it is completed, or something adverse is known of  *)
(* it, or somebody takes it up again, whatever crashed on the way. The one    *)
(* exception: an issue open since before its merge whose mirror label is left *)
(* over from an earlier shipment counts as confirmed closed, and each pass    *)
(* waits for a reopening that never happened.                                 *)
Settles ==
  item.state = "shipped" ~> item.state # "shipped" \/ Against \/ (ToNote /\ Reopens = {})
=============================================================================
