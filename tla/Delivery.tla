------------------------------ MODULE Delivery ------------------------------
(* The merge pipeline of src/mahler/ship.py for one item: from a finished     *)
(* build to a merged pull request.  The ship pass takes the conductor's lease *)
(* and moves the item one step per visit: open the PR, look at it, follow     *)
(* its base, rerun or fix red CI, have it reviewed, ask GitHub to merge it.   *)
(* Between its ledger writes and its calls GitHub, sessions and a crash can   *)
(* come; run endings (finalize.py), waits and the owner's orders (sync.py)    *)
(* are passes of the same process and come between visits.                    *)
(* The lease is reduced to who has it (Lease and Fence take it apart).        *)
EXTENDS Naturals, FiniteSets

CONSTANTS MaxAttempts,  \* projects.<name>.max_attempts
          MaxCommits,   \* bound: heads the PR's branch ever has
          MaxPrs,       \* bound: pull requests opened for the item
          MaxUpsets     \* bound: failures, crashes, moves, claims and orders in all

ASSUME DeliveryAssumption ==
  /\ MaxAttempts \in Nat \ {0}
  /\ MaxCommits \in Nat \ {0}
  /\ MaxPrs \in Nat \ {0}
  /\ MaxUpsets \in Nat

VARIABLES item,    \* the items row; snap: the saved commit still to be pushed
          owner,   \* who has the live lease
          run,     \* the run that holds the item
          ghost,   \* a run a session displaced, which has not ended yet
          review,  \* kv review:<item>: the review launched last and its verdict
          kv,      \* other ledger keys of the pipeline
          cycle,   \* kv red:<head> and reviewfix:<head> with their suffixes
          rerun,   \* kv ci-rerun:<head>
          hub,     \* the pull request as GitHub has it
          step,    \* what the visit is in the middle of
          view,    \* what the visit read: its copy of the row, the PR
          risky,   \* _review_required
          left,    \* what remains of MaxUpsets
          hist     \* history: what really happened

ledger == <<item, review, kv, cycle, rerun>>
runs == <<run, ghost>>
visit == <<step, view>>
vars == <<ledger, owner, runs, hub, visit, risky, left, hist>>

Heads == 1..MaxCommits
Prs == 1..MaxPrs
Kinds == {"red", "rev"}

NoRun == [role |-> "none", head |-> 0, kind |-> "none", counts |-> {}, after |-> 0]
NoReview == [head |-> 0, pr |-> 0, run |-> "none", verdict |-> "none", old |-> FALSE]
NoCycle(h) == [head |-> h, open |-> FALSE, charged |-> FALSE, before |-> 0,
               worked |-> FALSE, own |-> FALSE, again |-> "no"]
NoView == [pr |-> 0, snap |-> 0, status |-> "none", head |-> 0, checks |-> "pending", drift |-> "no",
           attempts |-> 0, kind |-> "none", conflict |-> FALSE, passed |-> FALSE,
           unchanged |-> FALSE, old |-> FALSE]

States == {"ready", "working", "verifying", "waiting", "needs_you", "parked",
           "failed", "shipped"}
Steps == {"idle", "open", "opened", "look", "decide", "rerun", "post", "checks", "count", "cut",
          "launch", "charge", "gate", "bind", "fresh", "request", "note", "update",
          "updated", "close", "finish"}

(* Types. *)
DeliveryTypeOK ==
  /\ item \in [state : States, attempts : Nat, pr : {0} \cup Prs,
               snap : {0} \cup Heads,
               cause : {"none", "ci_stalled", "merge_queue", "capacity",
                        "ci_repo_wide", "review_nonconvergent", "review_inconclusive"}]
  /\ owner \in {"nobody", "conductor", "run", "session"}
  /\ \A r \in {run, ghost} :
        r \in [role : {"none", "build", "fix", "review"}, head : {0} \cup Heads,
               kind : Kinds \cup {"none"}, counts : SUBSET Kinds, after : Nat]
  /\ review \in [head : {0} \cup Heads, pr : {0} \cup Prs,
                 run : {"none", "this", "earlier"}, verdict : {"none", "pass", "fail", "protected"},
                 old : BOOLEAN]
  /\ kv \in [retained : {0} \cup Prs, queue : {0} \cup Heads, rebuilt : BOOLEAN,
             closing : {0} \cup Prs, followups : {0} \cup Prs, waived : {0} \cup Heads]
  /\ \A k \in Kinds :
        cycle[k] \in [head : {0} \cup Heads, open : BOOLEAN, charged : BOOLEAN,
                      before : Nat, worked : BOOLEAN, own : BOOLEAN,
                      again : {"no", "ready", "used"}]
  /\ rerun \in [head : {0} \cup Heads, at : {"none", "selected", "requested", "done"}]
  /\ hub \in [pr : {0} \cup Prs, status : {"none", "OPEN", "MERGED", "CLOSED"},
              head : {0} \cup Heads, commits : Heads, queued : BOOLEAN,
              checks : {"pending", "red", "green"}, drift : {"no", "behind", "conflict"}]
  /\ step \in Steps
  /\ hist \in [vouched : SUBSET Heads, passed : SUBSET Heads, billed : SUBSET (Kinds \X Heads),
               closed : SUBSET Prs, posts : [Heads -> 0..2]]

(* A build has ended DONE: its work is saved, and no PR is open yet.          *)
Init ==
  /\ item = [state |-> "verifying", attempts |-> 0, pr |-> 0, snap |-> 1, cause |-> "none"]
  /\ owner = "conductor"
  /\ run = NoRun /\ ghost = NoRun /\ review = NoReview
  /\ kv = [retained |-> 0, queue |-> 0, rebuilt |-> FALSE, closing |-> 0, followups |-> 0,
           waived |-> 0]
  /\ cycle = [k \in Kinds |-> NoCycle(0)]
  /\ rerun = [head |-> 0, at |-> "none"]
  /\ hub = [pr |-> 0, status |-> "none", head |-> 0, commits |-> 1, queued |-> FALSE,
            checks |-> "pending", drift |-> "no"]
  /\ step = "idle" /\ view = NoView
  /\ risky \in BOOLEAN
  /\ left = MaxUpsets
  /\ hist = [vouched |-> {}, passed |-> {}, billed |-> {}, closed |-> {},
             posts |-> [h \in Heads |-> 0]]

(* What need not happen, and could for ever: bounded in all.                  *)
Upset ==
  /\ left > 0
  /\ left' = left - 1

------------------------------------------------------------------------------
(* What the handlers share.                                                   *)

(* _ship_lease would be granted. *)
Mine == owner \in {"nobody", "conductor"}

(* release(holder=CONDUCTOR). *)
Released == IF owner = "conductor" THEN "nobody" ELSE owner

Leave == step' = "idle" /\ view' = NoView

(* waits.hold, and the lease given back. *)
Hold(cause) ==
  /\ item' = [item EXCEPT !.state = "waiting", !.cause = cause]
  /\ owner' = Released

(* _ci_pending: the timer of its key has run out, or not. *)
Pending ==
  /\ Leave
  /\ \/ owner' = "conductor" /\ UNCHANGED item
     \/ Hold("ci_stalled")

(* retry_or_fail, from the attempts of the row it was handed. *)
Retried(attempts) ==
  [item EXCEPT !.attempts = attempts + 1,
               !.state = IF attempts + 1 >= MaxAttempts THEN "failed" ELSE "ready"]

(* A commit put on the PR's branch: CI starts over and a queued merge is off. *)
Commit(h, drift) ==
  [hub EXCEPT !.head = h, !.checks = "pending", !.drift = drift, !.queued = FALSE]

Another == hub.commits + 1
CanCommit == hub.commits < MaxCommits

(* review.effective: a verdict counts only for its own PR and head. *)
Verdict(h) == IF review.head = h /\ review.pr = view.pr THEN review.verdict ELSE "none"

(* A review found blockers; "protected" ones are never let through as follow-ups *)
(* without the owner.                                                         *)
Failed(verdict) == verdict \in {"fail", "protected"}

(* The rerun allowance of a head. *)
RerunAt(h) == IF rerun.head = h THEN rerun.at ELSE "none"
CycleAt(k, h) == IF cycle[k].head = h THEN cycle[k] ELSE NoCycle(h)

(* _clear_charged_if_fix_completed: a fix that really ran has ended on this   *)
(* unchanged head, so its next failure is a new one.                          *)
Cleared(k, h) ==
  LET c == CycleAt(k, h) IN
  IF c.open /\ c.worked THEN [c EXCEPT !.open = FALSE, !.charged = FALSE, !.worked = FALSE]
                        ELSE c

(* Run r is the fix an open cycle waits for: a review cycle knows the run it  *)
(* launched, any other takes every fix started since it was opened.           *)
Answers(r, k) ==
  cycle[k].open /\ k \in r.counts /\ (k = "rev" /\ cycle[k].own => r.kind = "rev")

(* What the end of fix run r means for the open cycles.                       *)
Worked(r, ran, done) ==
  [k \in Kinds |->
     IF ran /\ Answers(r, k)
     THEN [cycle[k] EXCEPT !.worked = TRUE,
                           !.again = IF done /\ k = "rev" /\ cycle[k].own /\ @ = "no"
                                     THEN "ready" ELSE @]
     ELSE cycle[k]]

(* hist.billed once the cycles that worked are over. *)
StillBilled(c) == hist.billed \ {<<k, c[k].head>> : k \in {k \in Kinds : c[k].worked}}

(* reset_review_cycle, and the other keys in ks: what was found before does   *)
(* not count, and neither does what a visit already under way finds ("old").  *)
ResetReview(ks) ==
  /\ review' = NoReview
  /\ cycle' = [k \in Kinds |-> IF k \in ks THEN [NoCycle(cycle[k].head) EXCEPT !.again = cycle[k].again]
                                          ELSE cycle[k]]
  /\ ghost' = [ghost EXCEPT !.counts = @ \ ks]
  /\ view' = [view EXCEPT !.old = step # "idle"]
  /\ hist' = [hist EXCEPT !.vouched = {}, !.passed = {}, !.billed = {c \in @ : c[1] \notin ks}]

------------------------------------------------------------------------------
(* The visit.                                                                 *)

(* _ship_item *)
Visit ==
  /\ step = "idle" /\ item.state = "verifying" /\ Mine
  /\ owner' = "conductor"
  /\ step' = IF item.pr # 0 /\ item.snap = 0 THEN "look" ELSE "open"
  /\ view' = [NoView EXCEPT !.pr = item.pr, !.snap = item.snap, !.attempts = item.attempts]
  /\ UNCHANGED <<ledger, runs, hub, risky, left, hist>>

(* _ship_lease refused, wherever it is asked: the visit ends.                 *)
HandsOver ==
  /\ \/ step = "idle" /\ item.state = "verifying"
     \/ step \in {"decide", "rerun", "checks", "fresh", "update", "updated"}
  /\ ~Mine
  /\ item' = [item EXCEPT !.state = "working"]
  /\ Leave
  /\ UNCHANGED <<owner, runs, review, kv, cycle, rerun, hub, risky, left, hist>>

(* _shipped, up to its release; what it books elsewhere is left out.          *)
Ship ==
  /\ item' = [item EXCEPT !.state = "shipped"]
  /\ owner' = Released
  /\ Leave

(* What a look at PR p shows: hub has the latest one, and an earlier one of    *)
(* the branch is merged or closed (which of the two is not kept).             *)
Shows(p) == IF p = hub.pr THEN {hub.status} ELSE {"MERGED", "CLOSED"}

(* _open_pr: the lookup or the push failed, or the saved ref is gone.         *)
OpenFails ==
  /\ step = "open"
  /\ \/ UNCHANGED item
     \/ item' = IF hub.pr = view.pr /\ hub.status = "OPEN"
                THEN [item EXCEPT !.snap = 0]
                ELSE [item EXCEPT !.state = "ready", !.pr = 0, !.snap = 0]
  /\ owner' = Released
  /\ Leave
  /\ Upset
  /\ UNCHANGED <<runs, review, kv, cycle, rerun, hub, risky, hist>>

OpenFindsMerged ==
  /\ step = "open" /\ view.pr # 0 /\ "MERGED" \in Shows(view.pr)
  /\ Ship
  /\ UNCHANGED <<runs, review, kv, cycle, rerun, hub, risky, left, hist>>

(* push_branch forces the saved commit onto the branch, over whatever is      *)
(* there; an open PR of the branch is adopted, or a new one created.  The     *)
(* ledger's keys name PR and head; here the head is enough, as a head that    *)
(* was on a closed PR is not put on another.                                  *)
Pushes ==
  /\ step = "open" /\ (view.pr = 0 \/ Shows(view.pr) # {"MERGED"})
  /\ \/ hub.status = "OPEN" /\ hub.head = view.snap /\ UNCHANGED hub
     \/ /\ hub.status = "OPEN" /\ hub.head # view.snap
        /\ \E d \in {"no", hub.drift} : hub' = Commit(view.snap, d)
     \/ /\ hub.status # "OPEN" /\ hub.pr < MaxPrs /\ hub.head # view.snap
        /\ \E d \in {"no", "behind"} :
              hub' = [Commit(view.snap, d) EXCEPT !.pr = @ + 1, !.status = "OPEN"]
  /\ step' = "opened"
  /\ UNCHANGED <<ledger, owner, runs, view, risky, left, hist>>

Records ==
  /\ step = "opened"
  /\ item' = [item EXCEPT !.pr = hub.pr, !.snap = 0,
                          !.attempts = IF view.pr = hub.pr THEN @ ELSE 0]
  /\ Leave
  /\ UNCHANGED <<owner, runs, review, kv, cycle, rerun, hub, risky, left, hist>>

(* _watch_pr: pr_view. *)
Looks ==
  /\ step = "look"
  /\ \E status \in Shows(view.pr) :
       view' = [view EXCEPT !.status = status, !.head = hub.head,
                            !.checks = hub.checks, !.drift = hub.drift]
  /\ step' = "decide"
  /\ UNCHANGED <<ledger, owner, runs, hub, risky, left, hist>>

LookFails ==
  /\ step = "look" /\ Mine
  /\ Pending
  /\ UNCHANGED <<runs, review, kv, cycle, rerun, hub, risky, left, hist>>

(* The lease is checked again after each call to GitHub, and the lines below  *)
(* act on the view that call returned.                                        *)
Decides == step = "decide" /\ Mine
Watching == Decides /\ view.status = "OPEN" /\ view.drift # "conflict"

DecidesMerged ==
  /\ Decides /\ view.status = "MERGED"
  /\ Ship
  /\ UNCHANGED <<runs, review, kv, cycle, rerun, hub, risky, left, hist>>

(* The marker _review_exhausted left before it closed the PR. *)
ClosedByUs == kv.closing = view.pr

(* _closed_pr; looking for a replacement PR may fail, and finds none here.    *)
DecidesClosed ==
  /\ Decides /\ view.status = "CLOSED"
  /\ \/ /\ ClosedByUs
        /\ owner' = "conductor" /\ step' = "finish"
        /\ UNCHANGED <<item, view>>
     \/ /\ ~ClosedByUs
        /\ owner' = Released /\ Leave
        /\ \/ UNCHANGED item
           \/ item' = [Retried(view.attempts) EXCEPT !.pr = 0]
  /\ UNCHANGED <<runs, review, kv, cycle, rerun, hub, risky, left, hist>>

(* Mutant: only a PR updated before is kept.                                  *)
Keeps_Retained == kv.retained = view.pr

(* Reviewed work stays on its PR. *)
Keeps == Verdict(view.head) = "pass" \/ kv.retained = view.pr

(* _update_reviewed_pr, or else _rebuild_on_base, which drops the PR open.     *)
FollowBase ==
  /\ \/ /\ Keeps
        /\ kv' = [kv EXCEPT !.retained = view.pr]
        /\ view' = [view EXCEPT !.passed = Verdict(view.head) = "pass", !.old = @ \/ review.old]
        /\ step' = "update"
        /\ UNCHANGED <<item, owner>>
     \/ /\ ~Keeps
        /\ item' = [item EXCEPT !.state = "ready", !.pr = 0]
        /\ owner' = Released
        /\ Leave
        /\ UNCHANGED kv
  /\ UNCHANGED <<runs, review, cycle, rerun, hub, risky, left, hist>>

DecidesConflict ==
  /\ Decides /\ view.status = "OPEN" /\ view.drift = "conflict"
  /\ FollowBase

(* _stale_red_behind_base, where the base turned out to be green.             *)
DecidesStaleRed ==
  /\ Watching /\ view.checks = "red" /\ view.drift = "behind"
  /\ kv' = [kv EXCEPT !.retained = view.pr]
  /\ view' = [view EXCEPT !.passed = Verdict(view.head) = "pass", !.old = @ \/ review.old]
  /\ step' = "update"
  /\ UNCHANGED <<item, owner, runs, review, cycle, rerun, hub, risky, left, hist>>

------------------------------------------------------------------------------
(* _ci_rerun: one rerun of the failed jobs for each head.                     *)
Rerun(at) == rerun' = [head |-> view.head, at |-> at]

SelectRerun ==
  /\ Watching /\ RerunAt(view.head) = "none" /\ view.checks = "red"
  /\ Rerun("selected") /\ step' = "rerun"
  /\ UNCHANGED <<item, owner, runs, review, kv, cycle, hub, view, risky, left, hist>>

ResumeRerun ==
  /\ Watching /\ RerunAt(view.head) = "selected"
  /\ step' = "rerun"
  /\ UNCHANGED <<ledger, owner, runs, hub, view, risky, left, hist>>

(* Still running, or a lookup failed; a permanent error ends the allowance.   *)
AwaitRerun ==
  /\ Watching
  /\ \/ RerunAt(view.head) = "requested"
     \/ RerunAt(view.head) = "none" /\ view.checks = "red"
  /\ Pending
  /\ (Rerun("done") \/ UNCHANGED rerun)
  /\ UNCHANGED <<runs, review, kv, cycle, hub, risky, left, hist>>

(* Nothing to rerun, or the rerun was seen to its end (or never started).      *)
PassesRerun ==
  /\ Watching
  /\ \/ RerunAt(view.head) \in {"none", "done"} /\ UNCHANGED rerun
     \/ RerunAt(view.head) = "requested" /\ Rerun("done")
  /\ step' = "checks"
  /\ UNCHANGED <<item, owner, runs, review, kv, cycle, hub, view, risky, left, hist>>

(* "Reserve before POST": a fresh look, then the request is noted.             *)
Reserves ==
  /\ step = "rerun" /\ Mine
  /\ IF hub.status = "OPEN" /\ hub.head = view.head
     THEN Rerun("requested") /\ step' = "post" /\ UNCHANGED view
     ELSE Leave /\ UNCHANGED rerun
  /\ UNCHANGED <<item, owner, runs, review, kv, cycle, hub, risky, left, hist>>

(* rerun_failed_jobs, on the runs of the head that was looked at.             *)
Posts ==
  /\ step = "post" /\ Mine
  /\ Pending
  /\ hub' = IF hub.head = view.head THEN [hub EXCEPT !.checks = "pending"] ELSE hub
  /\ hist' = [hist EXCEPT !.posts[view.head] = @ + 1]
  /\ UNCHANGED <<runs, review, kv, cycle, rerun, risky, left>>

PostFails ==
  /\ step = "post" /\ Mine
  /\ Pending
  /\ (Rerun("done") \/ UNCHANGED rerun)
  /\ hist' = [hist EXCEPT !.posts[view.head] = @ + 1]
  /\ Upset
  /\ UNCHANGED <<runs, review, kv, cycle, hub, risky>>

Checks == step = "checks" /\ Mine

DecidesPending ==
  /\ Checks /\ view.checks = "pending"
  /\ Pending
  /\ UNCHANGED <<runs, review, kv, cycle, rerun, hub, risky, left, hist>>

DecidesRed ==
  /\ Checks /\ view.checks = "red"
  /\ step' = "count" /\ view' = [view EXCEPT !.kind = "red"]
  /\ UNCHANGED <<ledger, owner, runs, hub, risky, left, hist>>

(* GitHub may not know yet whether the PR can be merged.                       *)
DecidesGreen ==
  /\ Checks /\ view.checks = "green"
  /\ \/ (step' = "gate" /\ UNCHANGED view)
     \/ Leave
  /\ UNCHANGED <<ledger, owner, runs, hub, risky, left, hist>>

------------------------------------------------------------------------------
(* A fix: _red_ci (view.kind "red") and _review_triggered_fix ("rev", where   *)
(* view.conflict is the fix of a base conflict).  Each failure of a head is   *)
(* counted once, when its cycle is opened, and charged at the fix's launch.   *)
(* What ran before a cycle was opened again does not answer it.               *)
Cycle(c) == cycle' = [cycle EXCEPT ![view.kind] = c]

Counts ==
  /\ step = "count"
  /\ view.kind = "red" \/ ghost.role # "fix"
  /\ LET c == Cleared(view.kind, view.head) IN
     /\ IF c.open THEN Cycle(c) /\ UNCHANGED ghost
        ELSE /\ Cycle([c EXCEPT !.open = TRUE, !.worked = FALSE, !.before = view.attempts])
             /\ ghost' = [ghost EXCEPT !.counts = @ \ {view.kind}]
     /\ step' = IF c.open \/ view.conflict THEN "launch" ELSE "cut"
  /\ UNCHANGED <<item, review, kv, rerun, owner, run, hub, view, risky, left, hist>>

CountWaits ==
  /\ step = "count" /\ view.kind = "rev" /\ ghost.role = "fix"
  /\ Leave
  /\ UNCHANGED <<ledger, owner, runs, hub, risky, left, hist>>

(* Mutant: every launch costs an attempt.                                     *)
Fee_Always(c) == IF view.conflict THEN 0 ELSE 1

(* A failure is paid once, and a base conflict is nobody's failure.           *)
Fee(c) == IF view.conflict \/ c.charged THEN 0 ELSE 1

(* The attempts the item would have with this failure. *)
Due == view.attempts + Fee(cycle[view.kind])

Cut == step = "cut" /\ Due >= MaxAttempts

CutPasses ==
  /\ step = "cut" /\ Due < MaxAttempts
  /\ step' = "launch"
  /\ UNCHANGED <<ledger, owner, runs, hub, view, risky, left, hist>>

(* hold_repo_wide: the same check fails on the base.                          *)
CutRepoWide ==
  /\ Cut /\ view.kind = "red"
  /\ item' = [item EXCEPT !.attempts = cycle["red"].before, !.state = "waiting",
                          !.cause = "ci_repo_wide"]
  /\ Cycle(NoCycle(view.head))
  /\ owner' = Released
  /\ Leave
  /\ UNCHANGED <<runs, review, kv, rerun, hub, risky, left, hist>>

CutFails ==
  /\ Cut /\ view.kind = "red"
  /\ item' = [item EXCEPT !.attempts = Due, !.state = "failed"]
  /\ owner' = Released
  /\ Leave
  /\ UNCHANGED <<runs, review, kv, cycle, rerun, hub, risky, left, hist>>

(* _review_exhausted *)
Exhausted == Cut /\ view.kind = "rev"

(* The review was reset under it: the gate decides again. *)
CutAgain ==
  /\ Exhausted /\ ~Failed(Verdict(view.head))
  /\ step' = "gate"
  /\ UNCHANGED <<ledger, owner, runs, hub, view, risky, left, hist>>

(* No blocker left is a protected one: merge, with follow-up issues.          *)
CutWaives ==
  /\ Exhausted /\ Verdict(view.head) = "fail" /\ view.checks = "green"
  /\ kv' = [kv EXCEPT !.waived = view.head]
  /\ hist' = [hist EXCEPT !.vouched = @ \cup {view.head}]
  /\ step' = "fresh"
  /\ UNCHANGED <<item, owner, runs, review, cycle, rerun, hub, view, risky, left>>

Unconverged ==
  /\ Exhausted
  /\ Verdict(view.head) = "protected" \/ (Verdict(view.head) = "fail" /\ view.checks # "green")

(* Give the PR up for a build from the base, once.                            *)
CutRebuilds ==
  /\ Unconverged /\ ~kv.rebuilt
  /\ kv' = [kv EXCEPT !.closing = view.pr]
  /\ step' = "close"
  /\ UNCHANGED <<item, owner, runs, review, cycle, rerun, hub, view, risky, left, hist>>

CutAsks ==
  /\ Unconverged /\ kv.rebuilt
  /\ item' = [item EXCEPT !.state = "needs_you"]
  /\ owner' = Released
  /\ Leave
  /\ UNCHANGED <<runs, review, kv, cycle, rerun, hub, risky, left, hist>>

Closes ==
  /\ step = "close"
  /\ hub' = IF hub.status = "OPEN" THEN [hub EXCEPT !.status = "CLOSED", !.queued = FALSE] ELSE hub
  /\ hist' = IF hub.status = "OPEN" THEN [hist EXCEPT !.closed = @ \cup {hub.pr}] ELSE hist
  /\ step' = "finish"
  /\ UNCHANGED <<ledger, owner, runs, view, risky, left>>

CloseFails ==
  /\ step = "close" /\ hub.status = "OPEN"
  /\ kv' = [kv EXCEPT !.closing = 0]
  /\ Cycle([cycle["rev"] EXCEPT !.open = FALSE])
  /\ Leave
  /\ Upset
  /\ UNCHANGED <<item, owner, runs, review, rerun, hub, risky, hist>>

(* _finish_fresh_rebuild *)
Finishes ==
  /\ step = "finish"
  /\ item' = [item EXCEPT !.pr = 0, !.attempts = 0, !.snap = 0, !.state = "waiting",
                          !.cause = "review_nonconvergent"]
  /\ kv' = [kv EXCEPT !.rebuilt = TRUE, !.closing = 0]
  /\ owner' = Released
  /\ Leave
  /\ UNCHANGED <<runs, review, cycle, rerun, hub, risky, left, hist>>

(* The branch could not be deleted; _closed_pr comes back to it.              *)
FinishFails ==
  /\ step = "finish"
  /\ cycle' = IF view.kind = "rev" THEN [cycle EXCEPT !["rev"].open = FALSE] ELSE cycle
  /\ Leave
  /\ Upset
  /\ UNCHANGED <<item, owner, runs, review, kv, rerun, hub, risky, hist>>

(* _fix_wait: no slot, no platform. *)
FixWaits ==
  /\ step = "launch"
  /\ \/ (owner' = Released /\ UNCHANGED item)
     \/ Hold("capacity")
  /\ Leave
  /\ UNCHANGED <<runs, review, kv, cycle, rerun, hub, risky, left, hist>>

(* start: refused, or the launch failed and the lease was handed back.        *)
NotStarted ==
  /\ step \in {"launch", "gate"}
  /\ Leave
  /\ \/ Upset
     \/ (~Mine /\ UNCHANGED left)
  /\ UNCHANGED <<ledger, owner, runs, hub, risky, hist>>

Starts ==
  /\ step = "launch" /\ Mine /\ run.role = "none"
  /\ run' = [NoRun EXCEPT !.role = "fix", !.head = hub.head,
                          !.counts = {k \in Kinds : cycle[k].open}]
  /\ item' = [item EXCEPT !.state = "working"]
  /\ owner' = "run"
  /\ step' = "charge"
  /\ UNCHANGED <<ghost, review, kv, cycle, rerun, hub, view, risky, left, hist>>

(* What follows start(): the fix is charged, and its run attributed.          *)
Charges ==
  /\ step = "charge"
  /\ LET c == cycle[view.kind]
         after == view.attempts + Fee(c)
         Attributed(r) == IF view.conflict THEN r ELSE [r EXCEPT !.kind = view.kind, !.after = after]
     IN /\ item' = [item EXCEPT !.attempts = after]
        /\ Cycle([c EXCEPT !.charged = TRUE, !.own = @ \/ (view.kind = "rev" /\ ~view.conflict)])
        /\ run' = IF run.role = "fix" THEN Attributed(run) ELSE run
        /\ ghost' = IF run.role # "fix" /\ ghost.role = "fix" THEN Attributed(ghost) ELSE ghost
        /\ hist' = IF Fee(c) = 0 THEN hist
                   ELSE [hist EXCEPT !.billed = @ \cup {<<view.kind, view.head>>}]
  /\ Leave
  /\ UNCHANGED <<review, kv, rerun, owner, hub, risky, left>>

------------------------------------------------------------------------------
(* _review_gate.                                                              *)
Gate == step = "gate" /\ (risky \/ kv.retained = view.pr)

GateSkipped ==
  /\ step = "gate" /\ ~risky /\ kv.retained # view.pr
  /\ step' = "fresh"
  /\ UNCHANGED <<ledger, owner, runs, hub, view, risky, left, hist>>

(* Dependency vetting blocks the merge, here or just before it is asked for.  *)
VetBlocks ==
  /\ \/ Gate
     \/ step = "fresh" /\ kv.queue # view.head
  /\ item' = [item EXCEPT !.state = "parked"]
  /\ owner' = Released
  /\ Leave
  /\ Upset
  /\ UNCHANGED <<runs, review, kv, cycle, rerun, hub, risky, hist>>

(* Mutant: a verdict carried over a reset still counts.                       *)
InCycle_Always == TRUE

(* _review_in_cycle *)
InCycle == ~review.old

(* What was found before the cycle was reset is forgotten. *)
GateForgets ==
  /\ Gate /\ ~InCycle
  /\ review' = NoReview
  /\ UNCHANGED <<item, kv, cycle, rerun, owner, runs, hub, visit, risky, left, hist>>

Judged(verdict) == Gate /\ InCycle /\ Verdict(view.head) = verdict

(* Follow-up issues are filed first; that may have to be tried again.         *)
GatePasses ==
  /\ Judged("pass")
  /\ \/ (step' = "fresh" /\ UNCHANGED view)
     \/ Leave
  /\ UNCHANGED <<ledger, owner, runs, hub, risky, left, hist>>

(* The owner, or an earlier exhausted review, lets the findings through.      *)
GateWaives ==
  /\ \/ Judged("fail") /\ (kv.followups = view.pr \/ kv.waived = view.head)
     \/ Judged("protected") /\ kv.followups = view.pr
  /\ hist' = [hist EXCEPT !.vouched = @ \cup {view.head}]
  /\ \/ (step' = "fresh" /\ UNCHANGED view)
     \/ Leave
  /\ UNCHANGED <<ledger, owner, runs, hub, risky, left>>

Refused ==
  \/ Judged("fail") /\ kv.followups # view.pr /\ kv.waived # view.head
  \/ Judged("protected")

(* _unchanged_done_review: the fix said there is nothing to change; one more  *)
(* review of the head.                                                        *)
GateReviewsAgain ==
  /\ Refused /\ CycleAt("rev", view.head).again = "ready"
  /\ cycle' = [cycle EXCEPT !["rev"].again = "used"]
  /\ review' = NoReview
  /\ UNCHANGED <<item, kv, rerun, owner, runs, hub, visit, risky, left, hist>>

GateFails ==
  /\ Refused /\ CycleAt("rev", view.head).again # "ready"
  /\ step' = "count" /\ view' = [view EXCEPT !.kind = "rev"]
  /\ UNCHANGED <<ledger, owner, runs, hub, risky, left, hist>>

(* A run is still there, or no reviewer is: the lease is kept.                *)
GateWaits ==
  /\ Judged("none")
  /\ \/ UNCHANGED item
     \/ item' = [item EXCEPT !.state = "waiting", !.cause = "capacity"]
  /\ Leave
  /\ UNCHANGED <<owner, runs, review, kv, cycle, rerun, hub, risky, left, hist>>

(* _start_review_run: the item stays verifying while its run has the lease.   *)
StartsReview ==
  /\ Judged("none") /\ Mine /\ run.role = "none" /\ ghost.role = "none"
  /\ run' = [NoRun EXCEPT !.role = "review", !.head = hub.head]
  /\ review' = [review EXCEPT !.run = IF @ = "this" THEN "earlier" ELSE @]
  /\ owner' = "run"
  /\ step' = "bind"
  /\ UNCHANGED <<ghost, item, kv, cycle, rerun, hub, view, risky, left, hist>>

(* The verdict will be kept for this PR and head. *)
Binds ==
  /\ step = "bind"
  /\ review' = [NoReview EXCEPT !.head = view.head, !.pr = view.pr, !.run = "this"]
  /\ Leave
  /\ UNCHANGED <<item, kv, cycle, rerun, owner, runs, hub, risky, left, hist>>

------------------------------------------------------------------------------
(* _merge_queued.                                                             *)
QueueWaits ==
  /\ step = "fresh" /\ kv.queue = view.head
  /\ Leave
  /\ \/ UNCHANGED <<item, owner>>
     \/ Hold("merge_queue")
  /\ UNCHANGED <<runs, review, kv, cycle, rerun, hub, risky, left, hist>>

Fresh == step = "fresh" /\ Mine /\ kv.queue # view.head
Unmoved == hub.status = "OPEN" /\ hub.head = view.head

FreshPending ==
  /\ Fresh
  /\ Unmoved => (hub.drift = "conflict" \/ hub.checks # "green")
  /\ Pending
  /\ UNCHANGED <<runs, review, kv, cycle, rerun, hub, risky, left, hist>>

FreshFollowsBase ==
  /\ Fresh /\ Unmoved /\ hub.drift = "behind" /\ hub.checks = "green"
  /\ FollowBase

FreshPasses ==
  /\ Fresh /\ Unmoved /\ hub.drift = "no" /\ hub.checks = "green"
  /\ step' = "request"
  /\ UNCHANGED <<ledger, owner, runs, hub, view, risky, left, hist>>

(* pr_merge, for this head only. *)
Requests ==
  /\ step = "request"
  /\ IF Unmoved THEN hub' = [hub EXCEPT !.queued = TRUE] /\ step' = "note" /\ UNCHANGED view
                ELSE Leave /\ UNCHANGED hub
  /\ UNCHANGED <<ledger, owner, runs, risky, left, hist>>

(* The call fails, whether or not GitHub took it. *)
RequestLost ==
  /\ step = "request"
  /\ hub' \in {hub} \cup (IF Unmoved THEN {[hub EXCEPT !.queued = TRUE]} ELSE {})
  /\ Leave
  /\ Upset
  /\ UNCHANGED <<ledger, owner, runs, risky, hist>>

Notes ==
  /\ step = "note"
  /\ kv' = [kv EXCEPT !.queue = view.head]
  /\ \/ hub.status = "MERGED" /\ Ship
     \/ /\ hub.status = "CLOSED"
        /\ step' = "decide" /\ view' = [view EXCEPT !.status = "CLOSED"]
        /\ UNCHANGED <<item, owner>>
     \/ hub.status = "OPEN" /\ Leave /\ UNCHANGED <<item, owner>>
  /\ UNCHANGED <<runs, review, cycle, rerun, hub, risky, left, hist>>

------------------------------------------------------------------------------
(* update_reviewed_branch: the base is merged into the head, if the PR is     *)
(* still what was looked at and the lease still ours.                         *)
Update == step = "update" /\ Mine

UpdateConflicts ==
  /\ Update /\ Unmoved /\ hub.drift = "conflict"
  /\ step' = "count" /\ view' = [view EXCEPT !.kind = "rev", !.conflict = TRUE]
  /\ UNCHANGED <<ledger, owner, runs, hub, risky, left, hist>>

UpdateMerges ==
  /\ Update /\ Unmoved /\ hub.drift = "behind" /\ CanCommit
  /\ hub' = [Commit(Another, "no") EXCEPT !.commits = Another]
  /\ \E unchanged \in BOOLEAN :
       /\ view' = [view EXCEPT !.head = Another, !.unchanged = unchanged]
       /\ hist' = IF unchanged /\ view.head \in hist.vouched
                  THEN [hist EXCEPT !.vouched = @ \cup {Another}] ELSE hist
  /\ step' = "updated"
  /\ UNCHANGED <<ledger, owner, runs, risky, left>>

UpdateFails ==
  /\ Update
  /\ IF Unmoved THEN Upset ELSE UNCHANGED left
  /\ Pending
  /\ UNCHANGED <<runs, review, kv, cycle, rerun, hub, risky, hist>>

(* The verdict goes on to the new head if the patch is the same, and else a   *)
(* new one is required.                                                       *)
Updates ==
  /\ step = "updated" /\ Mine
  /\ review' = IF view.unchanged /\ view.passed
               THEN [head |-> view.head, pr |-> view.pr, run |-> "this",
                     verdict |-> "pass", old |-> view.old]
               ELSE [NoReview EXCEPT !.head = view.head]
  /\ Pending
  /\ UNCHANGED <<runs, kv, cycle, rerun, hub, risky, left, hist>>

(* The visit is cut off: an exception, or the process dies.                   *)
Crash ==
  /\ step # "idle"
  /\ Leave
  /\ Upset
  /\ UNCHANGED <<ledger, owner, runs, hub, risky, hist>>

------------------------------------------------------------------------------
(* finalize: the run that holds the item ends; verifying goes to the          *)
(* conductor, anything else is let go of.                                     *)
Ends(role) == step = "idle" /\ run.role = role

Becomes(row) ==
  /\ item' = [row EXCEPT !.state = IF @ = "working" THEN "ready" ELSE @]
  /\ owner' = IF row.state = "verifying" THEN "conductor" ELSE "nobody"
  /\ run' = NoRun

At(state) == [item EXCEPT !.state = state, !.cause = "none"]

(* _save_work: what the run committed is kept, to be pushed by the next visit. *)
Saved(row) ==
  \/ Becomes(row) /\ UNCHANGED hub
  \/ /\ CanCommit
     /\ hub' = [hub EXCEPT !.commits = Another]
     /\ Becomes([row EXCEPT !.snap = Another])

(* "A late finalization must not overwrite a newer review." *)
Late == review.run = "earlier" \/ review.pr \notin {0, item.pr}

ReviewVerdicts(verdict) ==
  /\ Ends("review")
  /\ IF Late THEN Becomes(item) /\ UNCHANGED <<review, hist>>
     ELSE /\ Becomes(At("verifying"))
          /\ review' = [review EXCEPT !.run = "this", !.verdict = verdict]
          /\ hist' = IF verdict = "pass"
                     THEN [hist EXCEPT !.vouched = @ \cup {run.head},
                                       !.passed = @ \cup ({review.head} \cap Heads)]
                     ELSE hist
  /\ UNCHANGED <<ghost, kv, cycle, rerun, hub, visit, risky, left>>

(* _review_inconclusive: no verdict; or NEEDS-YOU, which leaves the review.    *)
ReviewFades ==
  /\ Ends("review")
  /\ \/ Late /\ Becomes(item) /\ UNCHANGED review
     \/ /\ ~Late /\ review' = NoReview
        /\ \/ Becomes(At("verifying"))
           \/ Becomes([At("waiting") EXCEPT !.cause = "review_inconclusive"])
     \/ Becomes(At("needs_you")) /\ UNCHANGED review
  /\ Upset
  /\ UNCHANGED <<ghost, kv, cycle, rerun, hub, visit, risky, hist>>

FixWorked(r, done) ==
  /\ cycle' = Worked(r, r.role = "fix", done)
  /\ hist' = [hist EXCEPT !.billed = StillBilled(cycle')]

(* _ended_done, with or without a new commit. *)
FixDone ==
  /\ Ends("fix")
  /\ Saved(At("verifying"))
  /\ FixWorked(run, TRUE)
  /\ UNCHANGED <<ghost, review, kv, rerun, visit, risky, left>>

(* Out of quota: nothing is charged, and the cycle stays as it is.            *)
FixStops ==
  /\ Ends("fix")
  /\ Saved(At("verifying"))
  /\ cycle' = Worked(run, FALSE, FALSE)
  /\ Upset
  /\ UNCHANGED <<ghost, review, kv, rerun, visit, risky, hist>>

(* _retry, on top of what its launch was charged. *)
FixFails ==
  /\ Ends("fix")
  /\ Saved(Retried(item.attempts))
  /\ FixWorked(run, FALSE)
  /\ Upset
  /\ UNCHANGED <<ghost, review, kv, rerun, visit, risky>>

(* _apply_ci_retry: the fix found that CI, not the code, was at fault.  Its   *)
(* charge is undone, and the head's one rerun selected.                       *)
FixBlamesCI ==
  /\ Ends("fix") /\ run.kind = "red" /\ item.attempts = run.after
  /\ LET c == cycle["red"] IN
     /\ c.open /\ c.charged /\ c.head = hub.head /\ hub.status = "OPEN"
     /\ RerunAt(c.head) = "none"
     /\ rerun' = [head |-> c.head, at |-> "selected"]
     /\ cycle' = [cycle EXCEPT !["red"].open = FALSE, !["red"].charged = FALSE]
     /\ Becomes([At("verifying") EXCEPT !.attempts = c.before])
     /\ hist' = [hist EXCEPT !.billed = @ \ {<<"red", c.head>>}]
  /\ Upset
  /\ UNCHANGED <<ghost, review, kv, hub, visit, risky>>

Builds ==
  /\ step = "idle" /\ item.state = "ready" /\ owner = "nobody"
  /\ run.role = "none" /\ CanCommit
  /\ run' = [NoRun EXCEPT !.role = "build"]
  /\ item' = At("working")
  /\ owner' = "run"
  /\ UNCHANGED <<ghost, review, kv, cycle, rerun, hub, visit, risky, left, hist>>

BuildDone ==
  /\ Ends("build")
  /\ Saved(At("verifying"))
  /\ item'.snap # 0 \/ item'.pr # 0
  /\ UNCHANGED <<ghost, review, kv, cycle, rerun, visit, risky, left, hist>>

BuildFails ==
  /\ Ends("build")
  /\ Becomes(Retried(item.attempts))
  /\ Upset
  /\ UNCHANGED <<ghost, review, kv, cycle, rerun, hub, visit, risky, hist>>

(* A run whose item was taken over ends: only its row says so.                *)
GhostEnds ==
  /\ step = "idle" /\ ghost.role # "none"
  /\ ghost' = NoRun
  /\ FixWorked(ghost, FALSE)
  /\ UNCHANGED <<item, run, owner, review, kv, rerun, hub, visit, risky, left>>

------------------------------------------------------------------------------
(* waits.recheck; a wait nothing else ends is the owner's after a while.      *)
Wakes ==
  /\ step = "idle" /\ item.state = "waiting"
  /\ item.cause = "capacity" => Mine /\ run.role = "none" /\ ghost.role = "none"
  /\ item' = At(IF item.cause = "review_nonconvergent" THEN "ready" ELSE "verifying")
  /\ UNCHANGED <<owner, runs, review, kv, cycle, rerun, hub, visit, risky, left, hist>>

GivesUp ==
  /\ step = "idle" /\ item.state = "waiting" /\ item.cause \in {"capacity", "ci_repo_wide"}
  /\ item' = At("needs_you")
  /\ UNCHANGED <<owner, runs, review, kv, cycle, rerun, hub, visit, risky, left, hist>>

(* resume_item: "/mahler go". *)
Go ==
  /\ step = "idle" /\ item.state \in {"needs_you", "parked", "failed", "waiting"}
  /\ item' = [At(IF item.pr # 0 THEN "verifying" ELSE "ready") EXCEPT !.attempts = 0]
  /\ ResetReview({"rev"})
  /\ Upset
  /\ UNCHANGED <<owner, run, kv, rerun, hub, step, risky>>

(* The owner's answer "merge with follow-ups". *)
FollowUps ==
  /\ step = "idle" /\ item.state = "needs_you" /\ item.pr # 0 /\ kv.rebuilt
  /\ kv' = [kv EXCEPT !.followups = item.pr]
  /\ item' = At("verifying")
  /\ Upset
  /\ UNCHANGED <<owner, runs, review, cycle, rerun, hub, visit, risky, hist>>

(* A session takes the item from whoever has it (Lifecycle takes the steps    *)
(* of its commands apart).                                                    *)
SessionClaims ==
  /\ owner # "session" /\ item.state # "shipped"
  /\ run.role # "none" => ghost.role = "none"
  /\ owner' = "session"
  /\ item' = At("working")
  /\ ghost' = (IF run.role # "none" THEN run ELSE ghost) /\ run' = NoRun
  /\ Upset
  /\ UNCHANGED <<review, kv, cycle, rerun, hub, visit, risky, hist>>

(* cmd_ship, on an open PR, of an item it holds or that nobody does.          *)
SessionShips ==
  /\ hub.status = "OPEN"
  /\ \/ owner = "session" /\ UNCHANGED left
     \/ owner = "nobody" /\ Upset
  /\ owner' = "nobody"
  /\ LET stuck == item.state \in {"failed", "needs_you", "parked"} IN
     /\ item' = [At("verifying") EXCEPT !.pr = hub.pr, !.snap = 0,
                                        !.attempts = IF stuck THEN 0 ELSE @]
     /\ ResetReview(IF stuck THEN Kinds ELSE {"rev"})
  /\ UNCHANGED <<run, kv, rerun, hub, step, risky>>

SessionReleases ==
  /\ owner = "session"
  /\ owner' = "nobody"
  /\ item' = IF item.state = "working" THEN At("ready") ELSE item
  /\ UNCHANGED <<runs, review, kv, cycle, rerun, hub, visit, risky, left, hist>>

------------------------------------------------------------------------------
(* GitHub, and others at work there.                                          *)
OnHub == UNCHANGED <<ledger, owner, runs, visit, risky, hist>>

ChecksEnd ==
  /\ hub.status = "OPEN" /\ hub.checks = "pending"
  /\ \E c \in {"red", "green"} : hub' = [hub EXCEPT !.checks = c]
  /\ OnHub /\ UNCHANGED left

BaseMoves ==
  /\ hub.status = "OPEN" /\ hub.drift # "conflict"
  /\ \E d \in {"behind", "conflict"} : hub' = [hub EXCEPT !.drift = d]
  /\ OnHub /\ Upset

Pushed ==
  /\ hub.status = "OPEN" /\ CanCommit
  /\ \E d \in {"no", hub.drift} : hub' = [Commit(Another, d) EXCEPT !.commits = Another]
  /\ OnHub /\ Upset

OwnerCloses ==
  /\ hub.status = "OPEN"
  /\ hub' = [hub EXCEPT !.status = "CLOSED", !.queued = FALSE]
  /\ OnHub /\ Upset

(* The merge asked for lands at once or from the merge queue, or is kicked out. *)
Lands ==
  /\ hub.status = "OPEN" /\ hub.queued
  /\ hub' = [hub EXCEPT !.status = "MERGED", !.queued = FALSE]
  /\ OnHub /\ UNCHANGED left

Kicked ==
  /\ hub.status = "OPEN" /\ hub.queued
  /\ hub' = [hub EXCEPT !.queued = FALSE]
  /\ OnHub /\ Upset

Watches ==
  \/ Visit \/ HandsOver \/ OpenFails \/ OpenFindsMerged \/ Pushes \/ Records
  \/ Looks \/ LookFails \/ DecidesMerged \/ DecidesClosed \/ DecidesConflict \/ DecidesStaleRed
  \/ SelectRerun \/ ResumeRerun \/ AwaitRerun \/ PassesRerun \/ Reserves \/ Posts \/ PostFails
  \/ DecidesPending \/ DecidesRed \/ DecidesGreen

Fixes ==
  \/ Counts \/ CountWaits \/ CutPasses \/ CutRepoWide \/ CutFails \/ CutAgain \/ CutWaives
  \/ CutRebuilds \/ CutAsks \/ Closes \/ CloseFails \/ Finishes \/ FinishFails
  \/ FixWaits \/ NotStarted \/ Starts \/ Charges

Merges ==
  \/ GateSkipped \/ VetBlocks \/ GateForgets \/ GatePasses \/ GateWaives \/ GateReviewsAgain
  \/ GateFails \/ GateWaits \/ StartsReview \/ Binds
  \/ QueueWaits \/ FreshPending \/ FreshFollowsBase \/ FreshPasses \/ Requests \/ RequestLost
  \/ Notes \/ UpdateConflicts \/ UpdateMerges \/ UpdateFails \/ Updates

Endings ==
  \/ \E v \in {"pass", "fail", "protected"} : ReviewVerdicts(v)
  \/ ReviewFades \/ FixDone \/ FixStops \/ FixFails \/ FixBlamesCI
  \/ BuildDone \/ BuildFails \/ GhostEnds

Daemon == Watches \/ Fixes \/ Merges \/ Endings \/ Builds \/ Wakes \/ GivesUp

World ==
  \/ Go \/ FollowUps \/ SessionClaims \/ SessionShips \/ SessionReleases
  \/ ChecksEnd \/ BaseMoves \/ Pushed \/ OwnerCloses \/ Lands \/ Kicked

Next == Daemon \/ Crash \/ World

Spec == Init /\ [][Next]_vars

------------------------------------------------------------------------------
(* A merge is asked for only when the very head that is to be merged passed   *)
(* its review (or had its findings let through) since the last reset, if the  *)
(* item needs a review or its PR was kept for having had one.  Verdicts are   *)
(* carried over base merges, and heads move under runs and visits.  A reset   *)
(* in the middle of the visit is too late for it.                             *)
MergesAreVouched ==
  [][step = "request" /\ hub'.queued /\ ~hub.queued /\ ~view.old
          /\ (risky \/ kv.retained = view.pr)
       => view.head \in hist.vouched]_vars

(* _red_ci: "the counting above must fire once per CI cycle, not once per     *)
(* tick", and likewise for reviews: the same failure of the same head is      *)
(* charged once, however often a fix is started, stopped or lost over it.     *)
ChargeOnce ==
  [][step = "charge" /\ item'.attempts > view.attempts
       => <<view.kind, view.head>> \notin hist.billed]_vars

(* _ci_rerun: "one durable allowance; uncertain POSTs are reconciled, never   *)
(* replayed": no head's failed jobs are asked for twice, through crashes.     *)
RerunPostedOnce == \A h \in Heads : hist.posts[h] <= 1

(* A PR the conductor closed itself, for its one fresh rebuild, is not taken  *)
(* for a failure of the item, wherever the rebuild was cut off.               *)
OwnCloseIsFree ==
  [][step = "decide" /\ view.pr \in hist.closed => item'.attempts <= item.attempts]_vars

(* What a cycle may cost, charges and reruns together.                        *)
ChargesAreFair == [](DeliveryTypeOK /\ RerunPostedOnce) /\ ChargeOnce /\ OwnCloseIsFree

(* _update_reviewed_pr: "Keep reviewed work on its PR": an open PR whose head *)
(* a passing verdict was ever recorded for, or that was kept for one before,  *)
(* is never dropped for a rebuild, whatever moved, crashed or was reported    *)
(* late since.                                                                *)
ReviewedWorkIsKept ==
  [][item.pr # 0 /\ item'.pr = 0 /\ hub.status = "OPEN" /\ item.pr = hub.pr
       => kv.retained # item.pr /\ hub.head \notin hist.passed]_vars
==============================================================================
