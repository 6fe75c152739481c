----------------------------- MODULE Convergence -----------------------------
(* How reviews of one pull request come to an end (review.py, ship.py): the    *)
(* evidence of each green round, the blockers demoted to follow-ups, the       *)
(* second opinion on a repeated finding, the one design pass, the exhausted    *)
(* review, and the follow-up issues filed before the merge.  Delivery has the  *)
(* rest of the visit (CI, leases, the base); here CI is green, and a visit is  *)
(* cut off only where it talks to GitHub.                                      *)
EXTENDS Naturals, FiniteSets, Sequences

CONSTANTS Threshold,    \* review_green_rounds
          MaxAttempts,  \* max_attempts
          MaxHeads,     \* bound: heads of the PR
          MaxRuns,      \* bound: reviews with a verdict
          InconclusiveCap, \* REVIEW_INCONCLUSIVE_CAP
          MaxUpsets,    \* bound: crashes, lost answers, pushes, orders, runs that have to
                        \*        wait for capacity or are stopped by it, in all
          Reports(_)    \* what a review of a head may find: sets of findings

Places == {"here", "there", "elsewhere"}

(* A finding, as far as anything here depends on it.  kind: "spec" stands for  *)
(* scope/spec with its exact Done-when line, "plain" for a blocker nothing     *)
(* protects, "gate" for one about missing gate evidence.  claim: the           *)
(* reviewer's attestation that this is a new edge case of a blocker fixed.     *)
Findings ==
  [severity : {"blocking", "follow-up"}, kind : {"spec", "security", "plain", "gate"},
   place : Places, scenario : Nat, claim : [head : Nat, scenario : Nat]]

ConvergenceAssumption ==
  /\ Threshold \in Nat \ {0} /\ MaxAttempts \in Nat \ {0}
  /\ MaxHeads \in Nat \ {0} /\ MaxRuns \in Nat \ {0} /\ MaxUpsets \in Nat
  /\ InconclusiveCap \in Nat
  /\ \A h \in 1..MaxHeads : Reports(h) \subseteq SUBSET Findings

VARIABLES state,     \* the item's state; "waiting": a wait that resumes verifying (D52);
                     \* "merged" and "rebuilding" where it leaves the PR
          attempts,  \* its attempts column
          head,      \* the PR's head on GitHub; touched: the places each head changed
          touched,
          run,       \* the run that works on the item
          binding,   \* kv review: the verdict the gate goes by
          rounds,    \* kv reviewrounds: the green heads and what their reviews found
          failed,    \* kv reviewfindings: the last two failed reviews, newest last
          archive,   \* kv reviewresults: for each run the follow-ups to file
          design,    \* kv design: for each head the disposition it got
          once,      \* kv reviewdup, reviewdone, fresh-rebuild, owner-followups; design runs;
                     \* kv reviewfix of a head with its :charged (cycle), how the fix ended
                     \* (fixed), kv reviewinconclusive: reviews without a verdict (seen)
          issues,    \* follow-up issues on GitHub by marker
          visit,     \* what the ship pass is in the middle of
          left,      \* what remains of MaxUpsets
          hist       \* history: heads that had a verdict, second opinions, how it merged

record == <<binding, rounds, failed, archive, design, once>>
reviewVars == <<state, attempts, head, touched, run, record, issues, visit, left, hist>>

Heads == 1..MaxHeads

NoClaim == [head |-> 0, scenario |-> 0]
Finding(severity, kind, place, scenario, claim) ==
  [severity |-> severity, kind |-> kind, place |-> place, scenario |-> scenario, claim |-> claim]

Blocking(findings) == {f \in findings : f.severity = "blocking"}

NoRun == [role |-> "none", id |-> 0]
NoReview == [head |-> 0, id |-> 0, verdict |-> "none", findings |-> {}]
NoDesign == [disposition |-> "none", findings |-> {}, consumed |-> FALSE]
NoCycle == [head |-> 0, charged |-> FALSE]
NoVisit == [at |-> "idle", head |-> 0, blockers |-> {}, basis |-> "none"]

ReviewInit ==
  /\ state = "verifying" /\ attempts = 0
  /\ head = 1 /\ touched = [h \in Heads |-> {}]
  /\ run = NoRun /\ binding = NoReview
  /\ rounds = <<>> /\ failed = <<>>
  /\ archive = {}
  /\ design = [h \in Heads |-> NoDesign]
  /\ \E rebuilt \in BOOLEAN :
       once = [dup |-> 0, done |-> {}, designed |-> {}, rebuilt |-> rebuilt, owner |-> FALSE,
                cycle |-> NoCycle, fixed |-> "none", seen |-> [h \in Heads |-> 0]]
  /\ issues = [m \in {} |-> 0]
  /\ visit = NoVisit
  /\ left = MaxUpsets
  /\ hist = [runs |-> 0, heads |-> {}, merged |-> NoVisit]

Upset == left > 0 /\ left' = left - 1
Leave == visit' = NoVisit
Rests == visit.at = "idle" /\ run.role = "none" /\ state = "verifying"

------------------------------------------------------------------------------
(* Rounds and dispositions.                                                   *)

(* What of a verdict later rounds look back to: its spec blockers, and the     *)
(* places of its last one.                                                     *)
SpecOf(findings) == {<<f.place, f.scenario>> : f \in {g \in Blocking(findings) : g.kind = "spec"}}
PlacesOf(findings) == {f.place : f \in findings}
Round(h, findings) == [head |-> h, found |-> SpecOf(findings), last |-> PlacesOf(findings)]

(* record_green: one round for each head, with all that its verdicts found.   *)
record_green(r, h, findings) ==
  IF \E i \in DOMAIN r : r[i].head = h
  THEN [i \in DOMAIN r |->
          IF r[i].head # h THEN r[i]
          ELSE [Round(h, findings) EXCEPT !.found = @ \cup r[i].found]]
  ELSE Append(r, Round(h, findings))

(* round_number: of a head that has had none, the next. *)
round_number(r, h) ==
  IF \E i \in DOMAIN r : r[i].head = h
  THEN CHOOSE i \in DOMAIN r : r[i].head = h /\ \A j \in DOMAIN r : r[j].head = h => i <= j
  ELSE Len(r) + 1

(* effective_dispositions: f is let go as a follow-up of an earlier round's    *)
(* blocker of the same criterion and file, which the claim says is fixed.      *)
Demoted(r, h, f) ==
  /\ \E i \in DOMAIN r : r[i].head = h
  /\ round_number(r, h) >= Threshold
  /\ f.severity = "blocking" /\ f.kind = "spec"
  /\ f.claim # NoClaim /\ f.scenario # f.claim.scenario
  /\ \E i \in 1..(round_number(r, h) - 1) :
       /\ r[i].head = f.claim.head
       /\ <<f.place, f.claim.scenario>> \in r[i].found

Row(f, severity) ==
  [finding |-> f, marked |-> f.severity, effective |-> severity, url |-> FALSE, linked |-> FALSE]
Marker(row) == <<row.finding, row.marked>>

(* apply_dispositions, kept in the archive beside the reviewer's own words.    *)
apply_dispositions(r, h) ==
  {IF rec.id = <<"run", binding.id>> /\ rec.head = h
   THEN [rec EXCEPT !.rows = {IF Demoted(r, h, row.finding)
                              THEN [row EXCEPT !.effective = "follow-up"] ELSE row : row \in @}]
   ELSE rec : rec \in archive}

(* The gate, on a verdict for the very head it looks at.                       *)
Judge ==
  /\ Rests /\ binding.head = head /\ binding.verdict # "none"
  /\ LET r == record_green(rounds, head, binding.findings)
         blockers == {f \in Blocking(binding.findings) : ~Demoted(r, head, f)}
     IN /\ rounds' = r
        /\ archive' = apply_dispositions(r, head)
        /\ visit' = [at |-> IF blockers = {} THEN "file" ELSE "refused", head |-> head,
                     blockers |-> blockers, basis |-> IF blockers = {} THEN "review" ELSE "none"]
  /\ UNCHANGED <<state, attempts, head, touched, run, binding, failed, design, once, issues,
                 left, hist>>

------------------------------------------------------------------------------
(* file_followups, one finding at a time: the issue first, then its link.      *)
Pending == {p \in {<<rec, row>> : rec \in archive, row \in UNION {q.rows : q \in archive}} :
              /\ p[2] \in p[1].rows
              /\ p[2].effective = "follow-up" /\ ~p[2].linked}

Marked(rec, row, new) ==
  archive' = (archive \ {rec}) \cup {[rec EXCEPT !.rows = (@ \ {row}) \cup {new}]}

issue_by_marker(m) == m \in DOMAIN issues

create_issue(m) ==
  issues' = [x \in DOMAIN issues \cup {m} |->
               (IF x \in DOMAIN issues THEN issues[x] ELSE 0) + (IF x = m THEN 1 ELSE 0)]

Filing == visit.at = "file"

Files ==
  /\ Filing
  /\ \E p \in Pending :
       /\ ~p[2].url
       /\ IF issue_by_marker(Marker(p[2])) THEN UNCHANGED issues ELSE create_issue(Marker(p[2]))
       /\ Marked(p[1], p[2], [p[2] EXCEPT !.url = TRUE])
  /\ UNCHANGED <<state, attempts, head, touched, run, binding, rounds, failed, design, once,
                 visit, left, hist>>

(* A comment whose answer is lost is posted again, which is not told apart.    *)
Links ==
  /\ Filing
  /\ \E p \in Pending :
       /\ p[2].url
       /\ Marked(p[1], p[2], [p[2] EXCEPT !.linked = TRUE])
  /\ UNCHANGED <<state, attempts, head, touched, run, binding, rounds, failed, design, once,
                 issues, visit, left, hist>>

(* GitHub fails, or the process dies after GitHub did it; a later visit        *)
(* begins anew.                                                               *)
FilingFails ==
  /\ Filing /\ Pending # {}
  /\ \/ UNCHANGED issues
     \/ \E p \in Pending :
          /\ ~p[2].url /\ ~issue_by_marker(Marker(p[2]))
          /\ create_issue(Marker(p[2]))
  /\ Leave
  /\ Upset
  /\ UNCHANGED <<state, attempts, head, touched, run, record, hist>>

(* _merge_queued: this head is merged, or not yet.                            *)
Merges ==
  /\ Filing /\ Pending = {} /\ head = visit.head
  /\ state' = "merged"
  /\ hist' = [hist EXCEPT !.merged = visit]
  /\ Leave
  /\ UNCHANGED <<attempts, head, touched, run, record, issues, left>>

MergeWaits ==
  /\ Filing /\ Pending = {}
  /\ \/ head = visit.head /\ state' = "waiting" /\ Upset
     \/ head # visit.head /\ UNCHANGED <<state, left>>
  /\ Leave
  /\ UNCHANGED <<attempts, head, touched, run, record, issues, hist>>

(* A wait for other reviewers starts its head's count anew                      *)
(* (_wake_review_inconclusive).                                                *)
Wakes ==
  /\ state = "waiting"
  /\ state' = "verifying"
  /\ once' = [once EXCEPT !.seen = [h \in Heads |-> IF @[h] > InconclusiveCap THEN 0 ELSE @[h]]]
  /\ UNCHANGED <<attempts, head, touched, run, binding, rounds, failed, archive, design, issues,
                 visit, left, hist>>

------------------------------------------------------------------------------
(* The reviews.                                                               *)

(* _start_review_run: no verdict for this head, and no run at work.           *)
StartsReview ==
  /\ Rests /\ ~(binding.head = head /\ binding.verdict # "none")
  /\ hist.runs < MaxRuns
  /\ LET id == hist.runs + 1 IN
     /\ run' = [role |-> "review", id |-> id]
     /\ binding' = [NoReview EXCEPT !.head = head, !.id = id]
  /\ UNCHANGED <<state, attempts, head, touched, rounds, failed, archive, design, once, issues,
                 visit, left, hist>>

(* Records of earlier runs with nothing left to file play no part any more.    *)
Unfiled == {rec \in archive : rec.id[1] # "run" \/ \E p \in Pending : p[1] = rec}

(* _review_passed and _review_failed; remember archives what was found.       *)
Decides ==
  /\ \E findings \in Reports(binding.head) :
       LET verdict == IF Blocking(findings) = {} THEN "pass" ELSE "fail" IN
       /\ binding' = [binding EXCEPT !.verdict = verdict, !.findings = findings]
       /\ archive' = Unfiled \cup {[id |-> <<"run", run.id>>, head |-> binding.head,
                                    rows |-> {Row(f, f.severity) : f \in findings}]}
       /\ failed' = IF verdict = "pass" THEN failed
                    ELSE Append(IF failed = <<>> THEN <<>> ELSE <<failed[Len(failed)]>>,
                                [head |-> binding.head, findings |-> findings])
       /\ hist' = [hist EXCEPT !.runs = run.id, !.heads = @ \cup {binding.head}]
  /\ UNCHANGED <<state, once, left>>

(* A run without a verdict is on no record, and the next one takes its number.  *)
Undecided == UNCHANGED <<failed, archive, hist>>

(* _review_inconclusive: no verdict of this run on its head. Stopped for        *)
(* capacity, silent or a report nobody can parse: it does not count.            *)
Inconclusive ==
  /\ Undecided /\ binding' = NoReview
  /\ \/ UNCHANGED <<state, once>> /\ Upset
     \/ /\ once.seen[binding.head] < InconclusiveCap
        /\ once' = [once EXCEPT !.seen[binding.head] = @ + 1]
        /\ UNCHANGED <<state, left>>
     \/ /\ once.seen[binding.head] >= InconclusiveCap
        /\ once' = [once EXCEPT !.seen[binding.head] = InconclusiveCap + 1]
        /\ state' = "waiting"
        /\ Upset

(* The reviewer asks the owner. *)
ReviewerAsks == Undecided /\ state' = "needs_you" /\ Upset /\ UNCHANGED <<binding, once>>

ReviewEnds ==
  /\ run.role = "review"
  /\ Decides \/ Inconclusive \/ ReviewerAsks
  /\ run' = NoRun
  /\ UNCHANGED <<attempts, head, touched, rounds, design, issues, visit>>

------------------------------------------------------------------------------
(* A failed review.                                                           *)
Refused == visit.at = "refused"
looked == visit.head

(* _is_protected_blocker: an unsatisfied Done-when line is one. *)
Protected(findings) == \E f \in Blocking(findings) : f.kind \in {"spec", "security"}

(* Mutant: only what the record lists is looked at.                           *)
Waivable_Listed(d) == ~Protected(d.findings)

(* _handle_design_followups, its refusals: what the record lists, and what    *)
(* the verdict of today still blocks on.                                      *)
Waivable(d) == ~Protected(d.findings) /\ ~Protected(visit.blockers)

(* ... its intake: a record of that name is not written twice.                *)
Waive(name, findings, basis) ==
  /\ archive' = IF \E rec \in archive : rec.id = <<name, looked>> THEN archive
                ELSE archive \cup {[id |-> <<name, looked>>, head |-> looked,
                       rows |-> {[Row(f, "follow-up") EXCEPT !.marked = "follow-up"] : f \in findings}]}
  /\ visit' = [visit EXCEPT !.at = "file", !.basis = basis]

LastFailed == failed[Len(failed)]

OwnerWaives ==
  /\ Refused /\ once.owner /\ failed # <<>>
  /\ Waive("owner", Blocking(LastFailed.findings), "owner")
  /\ UNCHANGED <<state, attempts, head, touched, run, binding, rounds, failed, design, once, issues,
                 left, hist>>

DesignWaives ==
  /\ Refused /\ ~once.owner
  /\ design[looked].disposition = "followups" /\ Waivable(design[looked])
  /\ Waive("design", design[looked].findings, "waiver")
  /\ UNCHANGED <<state, attempts, head, touched, run, binding, rounds, failed, design, once, issues,
                 left, hist>>

(* _review_not_converging: the last two rounds each were about other places    *)
(* than all rounds before.                                                     *)
Diverges(i) ==
  LET before == UNION {rounds[j].last : j \in 1..(i - 1)} IN
  before # {} /\ rounds[i].last # {} /\ rounds[i].last \cap before = {}
Drifts ==
  LET n == Len(rounds) IN
  n >= 3 /\ rounds[n].head = looked /\ Diverges(n) /\ Diverges(n - 1)

Exhausts(cycle) ==
  attempts + (IF cycle.head = looked /\ cycle.charged THEN 0 ELSE 1) >= MaxAttempts

(* _maybe_start_design: one design pass for the PR.                           *)
MayDesign(cycle) ==
  /\ \A g \in Heads : design[g] = NoDesign
  /\ looked \notin once.designed
  /\ round_number(rounds, looked) >= Threshold
  /\ Drifts \/ Exhausts(cycle)

Plan == design[looked].disposition = "fix" /\ ~design[looked].consumed
Planned == Refused /\ ~once.owner /\ Plan
Undesigned ==
  /\ Refused /\ ~once.owner /\ ~Plan
  /\ design[looked].disposition = "followups" => ~Waivable(design[looked])

(* _unchanged_done_review: the fix this verdict had charged was done and left   *)
(* the head as it was. It is reviewed once more.                               *)
Unchanged ==
  /\ looked \notin once.done
  /\ once.cycle = [head |-> looked, charged |-> TRUE] /\ once.fixed = "done"

ReReviews ==
  /\ Undesigned /\ ~MayDesign(once.cycle) /\ Unchanged
  /\ once' = [once EXCEPT !.done = @ \cup {looked}]
  /\ binding' = NoReview
  /\ Leave
  /\ UNCHANGED <<state, attempts, head, touched, run, rounds, failed, archive, design, issues, left, hist>>

(* _review_triggered_fix, with a plan or without.                             *)
Fixing == Undesigned /\ ~MayDesign(once.cycle) /\ ~Unchanged

(* _all_missing_gate_evidence *)
GateEvidence ==
  Blocking(binding.findings) # {} /\ \A f \in Blocking(binding.findings) : f.kind = "gate"

Parks ==
  /\ Fixing /\ GateEvidence
  /\ state' = "parked"
  /\ Leave
  /\ UNCHANGED <<attempts, head, touched, run, record, issues, left, hist>>

(* same_findings: the identity of blockers, whatever evidence comes with them. *)
Signatures(findings) == {<<f.kind, f.place, f.scenario>> : f \in Blocking(findings)}

(* _repeat_finding: on the next head, the same blockers on unchanged lines.    *)
_repeat_finding ==
  /\ Len(failed) = 2 /\ failed[2].head = looked /\ failed[1].head # looked
  /\ Signatures(failed[2].findings) \subseteq Signatures(failed[1].findings)
  /\ \A f \in Blocking(failed[2].findings) :
       \A g \in (failed[1].head + 1)..looked : f.place \notin touched[g]

Unparked == Planned \/ (Fixing /\ ~GateEvidence)
Asks == once.dup # looked /\ looked \notin once.done /\ _repeat_finding

(* A second opinion, from another platform (which one is left to the router);  *)
(* a plan stays for after it.                                                  *)
SecondOpinion ==
  /\ Unparked /\ Asks
  /\ once' = [once EXCEPT !.dup = looked]
  /\ binding' = NoReview
  /\ Leave
  /\ UNCHANGED <<state, attempts, head, touched, run, rounds, failed, archive, design, issues, left, hist>>

(* The lines to compare could not be read: no repeat.                          *)
Normally == Unparked /\ (IF Asks THEN Upset ELSE UNCHANGED left)

(* _clear_charged_if_fix_completed: a fix cut short leaves its charge standing, *)
(* one that ran to an end has used it up.                                      *)
Cleared ==
  IF once.cycle.head # looked \/ (once.cycle.charged /\ once.fixed # "cut")
  THEN NoCycle ELSE once.cycle

(* The budget is looked at when a cycle opens, and not for a plan.             *)
Spent == ~Plan /\ Cleared = NoCycle /\ Exhausts(NoCycle)

Opened == [once EXCEPT !.cycle = [head |-> looked, charged |-> Cleared.charged]]

Designs(then) ==
  /\ run' = [NoRun EXCEPT !.role = "design"]
  /\ once' = [then EXCEPT !.designed = @ \cup {looked}]
  /\ Leave
  /\ UNCHANGED <<state, attempts, head, touched, binding, rounds, failed, archive, design, issues,
                 hist>>

(* At first sight of the verdict, or when the budget turns out to be spent.    *)
StartsDesign ==
  \/ Undesigned /\ MayDesign(once.cycle) /\ Designs(once) /\ UNCHANGED left
  \/ Normally /\ Spent /\ MayDesign(NoCycle) /\ Designs(Opened)

(* _design_result: kept only while the head is what the plan was made for; its *)
(* follow-ups name no protected finding.                                       *)
DesignEnds ==
  /\ run.role = "design"
  /\ \/ UNCHANGED design
     \/ /\ head = binding.head
        /\ design' = [design EXCEPT ![head].disposition = "fix"]
     \/ /\ head = binding.head
        /\ \E findings \in SUBSET {f \in binding.findings : f.kind = "plain"} :
             /\ findings # {}
             /\ design' = [design EXCEPT ![head].disposition = "followups", ![head].findings = findings]
  /\ run' = NoRun
  /\ UNCHANGED <<state, attempts, head, touched, binding, rounds, failed, archive, once, issues,
                 visit, left, hist>>


Charge == IF Cleared.charged THEN 0 ELSE 1

Fix ==
  /\ run' = [NoRun EXCEPT !.role = "fix"]
  /\ attempts' = attempts + Charge
  /\ once' = [once EXCEPT !.cycle = [head |-> looked, charged |-> TRUE], !.fixed = "none"]
  /\ Leave

(* The plan gets its fix even at the ceiling. *)
StartsPlannedFix ==
  /\ Normally /\ Plan
  /\ Fix
  /\ design' = [design EXCEPT ![looked].consumed = TRUE]
  /\ UNCHANGED <<state, head, touched, binding, rounds, failed, archive, issues, hist>>

StartsFix ==
  /\ Normally /\ ~Plan /\ ~Spent
  /\ Fix
  /\ UNCHANGED <<state, head, touched, binding, rounds, failed, archive, design, issues, hist>>

(* No slot or no route for the run a visit wants: the item waits for capacity. *)
RunWaits ==
  /\ \/ Rests /\ ~(binding.head = head /\ binding.verdict # "none") /\ UNCHANGED once
     \/ Undesigned /\ MayDesign(once.cycle) /\ UNCHANGED once
     \/ Unparked /\ ~Asks /\ (Spent => MayDesign(NoCycle)) /\ once' = Opened
  /\ state' = "waiting"
  /\ Leave
  /\ Upset
  /\ UNCHANGED <<attempts, head, touched, run, binding, rounds, failed, archive, design, issues, hist>>

Exhausted == Normally /\ Spent /\ ~MayDesign(NoCycle) /\ once' = Opened

(* _review_exhausted: nothing protected blocks, so it merges with follow-ups.  *)
ExhaustedWaives ==
  /\ Exhausted
  /\ LET d == [disposition |-> "followups", findings |-> Blocking(LastFailed.findings),
               consumed |-> FALSE]
     IN /\ Waivable(d)
        /\ design' = [design EXCEPT ![looked] = d]
        /\ Waive("exhausted", d.findings, "waiver")
  /\ UNCHANGED <<state, attempts, head, touched, run, binding, rounds, failed, issues, hist>>

(* Else one rebuild from the base, on another PR; else the owner is asked.     *)
ExhaustedGivesUp ==
  /\ Exhausted /\ Protected(LastFailed.findings \cup visit.blockers)
  /\ state' = IF once.rebuilt THEN "needs_you" ELSE "rebuilding"
  /\ Leave
  /\ UNCHANGED <<attempts, head, touched, run, binding, rounds, failed, archive, design, issues, hist>>

------------------------------------------------------------------------------
(* The ends of a fix, and of a build the item is given in its place.           *)
SameHead == UNCHANGED <<head, touched>>

(* It leaves a new head, or none: DONE, or only timed out with its tests green. *)
Finishes ==
  /\ \/ /\ head < MaxHeads
        /\ head' = head + 1
        /\ \E places \in {{}, Places} : touched' = [touched EXCEPT ![head + 1] = places]
        /\ once' = [once EXCEPT !.fixed = "ended"]
     \/ /\ SameHead
        /\ \E how \in {"ended"} \cup (IF run.role = "fix" THEN {"done"} ELSE {}) :
             once' = [once EXCEPT !.fixed = how]
  /\ state' = "verifying"
  /\ UNCHANGED <<attempts, left>>

(* _ended_out_of_reach: the platform has no capacity for it.                   *)
CutShort ==
  /\ once' = [once EXCEPT !.fixed = IF run.role = "fix" THEN "cut" ELSE "ended"]
  /\ state' = IF run.role = "fix" THEN "verifying" ELSE "ready"
  /\ SameHead /\ Upset /\ UNCHANGED attempts

(* Its lease is lost, or a session takes the item: handed on as a build.        *)
HandsOn ==
  /\ once' = [once EXCEPT !.fixed = "ended"]
  /\ state' = "ready"
  /\ SameHead /\ Upset /\ UNCHANGED attempts

(* retry_or_fail: no usable outcome, an attempt more.                          *)
Fails ==
  /\ once' = [once EXCEPT !.fixed = "ended"]
  /\ attempts' = attempts + 1
  /\ state' = IF attempts + 1 >= MaxAttempts THEN "failed" ELSE "ready"
  /\ SameHead /\ UNCHANGED left

(* It asks the owner, or is blocked. *)
Stuck ==
  /\ once' = [once EXCEPT !.fixed = "ended"]
  /\ state' \in {"needs_you", "parked"}
  /\ SameHead /\ UNCHANGED <<attempts, left>>

FixEnds ==
  /\ run.role \in {"fix", "build"}
  /\ Finishes \/ CutShort \/ HandsOn \/ Fails \/ Stuck
  /\ run' = NoRun
  /\ UNCHANGED <<binding, rounds, failed, archive, design, issues, visit, hist>>

StartsBuild ==
  /\ state = "ready" /\ run.role = "none"
  /\ run' = [NoRun EXCEPT !.role = "build"]
  /\ UNCHANGED <<state, attempts, head, touched, record, issues, visit, left, hist>>

------------------------------------------------------------------------------
(* Others.                                                                    *)

(* Somebody pushes to the branch. *)
Push ==
  /\ head < MaxHeads /\ state \in {"verifying", "waiting"} /\ run.role # "fix"
  /\ head' = head + 1
  /\ UNCHANGED touched
  /\ Upset
  /\ UNCHANGED <<state, attempts, run, record, issues, visit, hist>>

(* "/mahler go": reset_review_cycle. *)
OwnerGoes ==
  /\ visit.at = "idle" /\ run.role = "none"
  /\ state \in {"parked", "needs_you", "waiting", "failed"}
  /\ state' = "verifying" /\ attempts' = 0
  /\ binding' = NoReview
  /\ once' = [once EXCEPT !.cycle = NoCycle]
  /\ Upset
  /\ UNCHANGED <<head, touched, run, rounds, failed, archive, design, issues, visit, hist>>

(* The owner answers "merge with follow-ups".                                 *)
FollowUps ==
  /\ state = "needs_you" /\ once.rebuilt
  /\ once' = [once EXCEPT !.owner = TRUE]
  /\ state' = "verifying"
  /\ UNCHANGED <<attempts, head, touched, run, binding, rounds, failed, archive, design, issues,
                 visit, left, hist>>

Visits == \/ Judge \/ StartsReview \/ Files \/ Links \/ Merges
          \/ OwnerWaives \/ DesignWaives \/ StartsDesign \/ StartsPlannedFix \/ Parks
          \/ ReReviews \/ SecondOpinion \/ StartsFix \/ StartsBuild \/ ExhaustedWaives \/ ExhaustedGivesUp

Runs == ReviewEnds \/ DesignEnds \/ FixEnds

ReviewNext == Visits \/ Runs \/ FilingFails \/ MergeWaits \/ RunWaits \/ Wakes \/ Push \/ OwnerGoes \/ FollowUps

ReviewSpec == ReviewInit /\ [][ReviewNext]_reviewVars

(* The ship pass comes round, runs end, waits wake up; nothing makes the owner *)
(* act.                                                                        *)
ReviewFairSpec ==
  /\ ReviewSpec
  /\ WF_reviewVars(Visits \/ MergeWaits) /\ WF_reviewVars(Runs) /\ WF_reviewVars(Wakes)

------------------------------------------------------------------------------
RecordOf(id) == {rec \in archive : rec.id = id}

(* No blocker is merged away: each one of the verdict merged on was demoted,    *)
(* and its issue exists and is linked, or is of a kind the design pass may      *)
(* waive, or the owner let it through (apply_dispositions, file_followups,      *)
(* _handle_design_followups; DESIGN.md D11).                                    *)
BlockersAccounted ==
  state = "merged" =>
    \A f \in Blocking(binding.findings) :
      \/ \E rec \in RecordOf(<<"run", binding.id>>) : \E row \in rec.rows :
           /\ row.finding = f /\ row.effective = "follow-up"
           /\ row.linked /\ Marker(row) \in DOMAIN issues
      \/ hist.merged.basis = "waiver" /\ f.kind \in {"plain", "gate"}
      \/ hist.merged.basis = "owner"

(* A finding has one issue, however often filing it was cut off.               *)
FollowUpFiledOnce == \A m \in DOMAIN issues : issues[m] = 1

(* A blocker is demoted only once as many different heads had a verdict as the *)
(* policy asks for: more reviews of one head bring it no nearer ("alternate     *)
(* reviewers on the same head do not increment it").                           *)
RoundsAreHeads ==
  \A rec \in archive : \A row \in rec.rows :
    row.finding.severity = "blocking" /\ row.marked = "blocking" /\ row.effective = "follow-up" =>
      Cardinality({g \in hist.heads : g <= rec.head}) >= Threshold

(* The three together: what a demotion or a waiver let through is known, filed  *)
(* once and come by through rounds on different heads.                         *)
DemotionsAreSound == BlockersAccounted /\ FollowUpFiledOnce /\ RoundsAreHeads

(* The review of a PR ends: merged, rebuilt, failed or with the owner, whatever *)
(* the reviewers find and however fixes end. What the loop itself counts (the   *)
(* attempts, the re-review, the second opinion, the design pass, the reviews    *)
(* without a verdict) bounds it; what others do to it is bounded by MaxUpsets.   *)
ReviewsEnd == <>[](state \in {"merged", "rebuilding", "parked", "needs_you", "failed"})
=============================================================================
