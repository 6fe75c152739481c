------------------------------- MODULE Parents -------------------------------
(* sync.py: a parent issue closes when its children are closed and the boxes of *)
(* its checklist are ticked. The conductor ticks the boxes merged children      *)
(* answer for, has a verification item collect evidence for the others, applies *)
(* the evidence of accepted runs, and lets criteria only a person can meet      *)
(* stand for a quiet period. One parent; the owner, the children, the verifying *)
(* runs, linked merges and crashes come in between any two calls.               *)
EXTENDS Integers, FiniteSets, FiniteSetsExt

CONSTANTS Kids, Free, Human,  \* child issues; criteria to verify; "manual check" criteria
          QuietDays,
          MaxFixes, MaxRuns, MaxUpsets  \* bounds

ParentsAssumption ==
  /\ Kids \cap (Free \cup Human) = {} /\ Free \cap Human = {}
  /\ QuietDays \in Nat \ {0} /\ {MaxFixes, MaxRuns, MaxUpsets} \subseteq Nat

VARIABLES kid,        \* GitHub: Kids -> open, merged, disposed (not planned), unmerged
          checked,    \* GitHub: the ticked boxes; criterion k of a child is "#k merged"
          issue, parent,
          verifies,   \* GitHub: the verification items: marked (the marker is in the body), kept
                      \* (the follow-up's key in kv, or the retry's mark, records it)
          fixes,      \* GitHub: linked merges so far, numbered in order
          watermark,  \* kv parent_verify_diag: [of: blockers, at: a linked merge]
          newest,     \* GitHub: the number of the latest issue filed
          diagnosed,  \* blockers with a diagnostic comment
          evidence,   \* kv parent_evidence: [run, met, unmet, done]
          claim,      \* no_change record of the verification item: [run, phase]
          followups,  \* issues filed for unmet criteria: [run, of, number, marked, kept (in kv)]
          posted,     \* evidence comments [run, copy]
          quiet,      \* kv parent_human: [is, of, age]
          ending, complete,
          step, cur, seen,  \* the pass: its step, its evidence record, what it has read
          vouched,    \* history: boxes the owner, a merge or accepted evidence answers for
          upsets

parentVars == <<kid, checked, issue, parent, verifies, fixes, watermark, newest, diagnosed, evidence,
          claim, followups, posted, quiet, ending, complete, step, cur, seen, vouched, upsets>>
parentHub == <<kid, issue, fixes>>
chain == <<verifies, watermark, diagnosed, newest>>
papers == <<evidence, claim, followups, posted>>
state == <<parent, quiet, ending, complete>>

Criteria == Kids \cup Free \cup Human
NoClaim == [run |-> 0, phase |-> "none"]
NotQuiet == [is |-> FALSE, of |-> [unchecked |-> {}, unproved |-> {}], age |-> 0]
ParentsInit ==
  /\ kid = [k \in Kids |-> "open"] /\ checked = {} /\ issue = "OPEN" /\ parent = "parent"
  /\ verifies = {} /\ fixes = 0 /\ watermark = {} /\ diagnosed = {} /\ newest = 0
  /\ evidence = {} /\ claim = NoClaim /\ followups = {} /\ posted = {}
  /\ quiet = NotQuiet /\ ending = FALSE /\ complete = FALSE
  /\ step = "idle" /\ cur = 0 /\ seen = {} /\ vouched = {} /\ upsets = 0

(* bound: nothing is looked at after the completion *)
Lives == ~complete
Upsets == Lives /\ upsets < MaxUpsets /\ upsets' = upsets + 1
StepTo(where) == step' = where /\ UNCHANGED <<cur, seen>>
Stop == step' = "idle" /\ cur' = 0 /\ seen' = {}

------------------------------------------------------------------------------
(* post_parent_evidence: the run the no-change review accepted; no record of a  *)
(* review counts as accepted                                                    *)
Accepted(r) == claim.run = 0 \/ (claim.phase = "done" /\ claim.run = r.run)
Applicable == {r \in evidence : ~r.done /\ Accepted(r)}
Current == CHOOSE r \in evidence : r.run = cur

post_parent_evidence ==
  /\ step = "idle"
  /\ \E r \in Applicable : cur' = r.run
  /\ step' = "evidence" /\ seen' = checked
  /\ UNCHANGED <<parentHub, checked, chain, papers, state, vouched, upsets>>
(* edit_issue_body writes back the body that was read, with the boxes ticked *)
TickMet ==
  /\ step = "evidence" /\ StepTo("followups")
  /\ checked' = IF Current.met \subseteq seen THEN checked ELSE seen \cup Current.met
  /\ vouched' = vouched \cup Current.met
  /\ UNCHANGED <<parentHub, chain, papers, state, upsets>>
Filed(r, c) == {f \in followups : f.run = r.run /\ f.of = c /\ f.marked}
NextUnmet == {c \in Current.unmet : ~\E f \in followups : f.run = cur /\ f.of = c /\ f.kept}
(* one that is found by its marker is recorded; one that is not is created, and *)
(* a crash leaves it without a record                                           *)
FileFollowup ==
  /\ step = "followups"
  /\ \E c \in NextUnmet :
       \/ /\ Filed(Current, c) # {}
          /\ followups' = {[f EXCEPT !.kept = @ \/ f \in Filed(Current, c)] : f \in followups}
          /\ UNCHANGED <<step, cur, seen, upsets, newest>>
       \/ /\ Filed(Current, c) = {} /\ newest' = newest + 1
          /\ \E kept \in BOOLEAN :
               /\ followups' = followups \cup {[run |-> cur, of |-> c, number |-> newest + 1,
                                                marked |-> TRUE, kept |-> kept]}
               /\ IF kept THEN UNCHANGED <<step, cur, seen, upsets>> ELSE Upsets /\ Stop
  /\ UNCHANGED <<parentHub, checked, verifies, watermark, diagnosed, evidence, claim, posted, state, vouched>>
PostEvidence ==
  /\ step = "followups" /\ NextUnmet = {} /\ StepTo("record")
  /\ posted' = IF \E p \in posted : p.run = cur THEN posted
               ELSE posted \cup {[run |-> cur, copy |-> Cardinality(posted)]}
  /\ UNCHANGED <<parentHub, checked, chain, evidence, claim, followups, state, vouched, upsets>>
RecordDone ==
  /\ step = "record" /\ Stop
  /\ evidence' = (evidence \ {Current}) \cup {[Current EXCEPT !.done = TRUE]}
  /\ UNCHANGED <<parentHub, checked, chain, claim, followups, posted, state, vouched, upsets>>

------------------------------------------------------------------------------
(* _close_finished_parents_project                                              *)
Tracked == parent = "parent" \/ ending
Scan ==
  /\ step = "idle" /\ Tracked
  /\ IF Applicable = {} THEN UNCHANGED upsets ELSE Upsets  \* a record that failed waits
  /\ step' = "scanned" /\ cur' = 0 /\ seen' = checked
  /\ UNCHANGED <<parentHub, checked, chain, papers, state, vouched>>

(* a child that was disposed of without a merge never ticks its box *)
Completed(k) == kid[k] = "merged"
TickMerged ==
  /\ step = "scanned" /\ StepTo("ticked")
  /\ LET done == {k \in Kids : Completed(k)} IN
       /\ checked' = IF done \subseteq seen THEN checked ELSE seen \cup done
       /\ vouched' = vouched \cup {k \in Kids : kid[k] = "merged"}
  /\ UNCHANGED <<parentHub, chain, papers, state, upsets>>

_parent_checklist == Criteria \ checked
Blockers == [unchecked |-> _parent_checklist, unproved |-> {k \in Kids : kid[k] = "unmerged"}]
IsBlocked(b) == b.unchecked # {} \/ b.unproved # {}
Waiting == \E k \in Kids : kid[k] = "open"
HumanOnly(b) == b.unproved = {} /\ b.unchecked \subseteq Human

Waits ==
  /\ step = "ticked" /\ Waiting /\ Stop
  /\ UNCHANGED <<parentHub, checked, chain, papers, state, vouched, upsets>>

(* criteria only a person can meet: the owner has QuietDays, counted from when  *)
(* this set of blockers was first seen                                          *)
Restarted(b) == ~quiet.is \/ quiet.of # b
HumanWaits ==
  /\ step = "ticked" /\ ~Waiting /\ IsBlocked(Blockers) /\ HumanOnly(Blockers)
  /\ LET q == IF Restarted(Blockers) THEN [is |-> TRUE, of |-> Blockers, age |-> 0] ELSE quiet IN
       /\ q.age < QuietDays /\ quiet' = q
  /\ Stop
  /\ UNCHANGED <<parentHub, checked, chain, papers, parent, ending, complete, vouched, upsets>>
QuietPassed ==
  /\ step = "ticked" /\ ~Waiting /\ IsBlocked(Blockers) /\ HumanOnly(Blockers)
  /\ ~Restarted(Blockers) /\ quiet.age >= QuietDays
  /\ StepTo("close")
  /\ UNCHANGED <<parentHub, checked, chain, papers, parent, quiet, ending, complete, vouched, upsets>>
AllDone ==
  /\ step = "ticked" /\ ~Waiting /\ ~IsBlocked(Blockers) /\ StepTo("close")
  /\ UNCHANGED <<parentHub, checked, chain, papers, parent, quiet, ending, complete, vouched, upsets>>
(* the completion is marked pending before the first write, so that a pass cut  *)
(* off after closing the issue is taken up again                                *)
Announce == ending' = TRUE
CloseIssue ==
  /\ step = "close" /\ Announce /\ issue' = "CLOSED" /\ StepTo("closed")
  /\ UNCHANGED <<kid, fixes, checked, chain, papers, parent, quiet, complete, vouched, upsets>>
Complete ==
  /\ step = "closed" /\ Stop
  /\ complete' = TRUE /\ parent' = "done" /\ ending' = FALSE /\ quiet' = NotQuiet
  /\ UNCHANGED <<parentHub, checked, chain, papers, vouched, upsets>>
(* sync: a closed issue is done *)
SyncClosed ==
  /\ step = "idle" /\ issue = "CLOSED" /\ parent # "done" /\ parent' = "done"
  /\ UNCHANGED <<parentHub, checked, chain, papers, quiet, ending, complete, step, cur, seen, vouched, upsets>>

------------------------------------------------------------------------------
(* Mutant: a verifier closed with a question to the owner is over.            *)
_verify_reusable_Open(v) == v.open

(* _parent_verify: one verifier at a time, one follow-up for the same blockers, *)
(* then a diagnostic, and after that a new attempt only for a new linked merge  *)
_verify_reusable(v) == v.open \/ v.asks
Reusable == {v \in verifies : _verify_reusable(v)}
create(kind, b, merge, kept) ==
  /\ newest' = newest + 1
  /\ verifies' = verifies \cup {[kind |-> kind, of |-> b, merge |-> merge, number |-> newest + 1,
                                 marked |-> TRUE, kept |-> kept,
                                 open |-> TRUE, asks |-> FALSE, closedAt |-> 0]}
Keep(found) == /\ verifies' = {[v EXCEPT !.kept = @ \/ v \in found] : v \in verifies}
               /\ UNCHANGED newest
Verifying ==
  /\ step = "ticked" /\ ~Waiting /\ IsBlocked(Blockers) /\ ~HumanOnly(Blockers)
  /\ quiet' = NotQuiet
NotVerifying == UNCHANGED <<parentHub, checked, papers, parent, ending, complete, vouched>>
(* the follow-up for these blockers, by its marker or by its key               *)
Follow == {v \in verifies : v.kind = "follow" /\ v.of = Blockers /\ (v.marked \/ v.kept)}

ReuseVerify ==
  /\ Verifying /\ Reusable # {}
  /\ Stop /\ NotVerifying /\ UNCHANGED <<chain, upsets>>
FirstVerify ==
  /\ Verifying /\ verifies = {} /\ create("first", Blockers, 0, TRUE)
  /\ Stop /\ NotVerifying /\ UNCHANGED <<watermark, diagnosed, upsets>>
(* the issue is filed, then its key is written: a crash leaves it without       *)
FollowVerify ==
  /\ Verifying /\ verifies # {} /\ Reusable = {} /\ Follow = {}
  /\ \E kept \in BOOLEAN : /\ create("follow", Blockers, 0, kept)
                           /\ IF kept THEN UNCHANGED upsets ELSE Upsets
  /\ Stop /\ NotVerifying /\ UNCHANGED <<watermark, diagnosed>>

Marks == {w.at : w \in {x \in watermark : x.of = Blockers}}
Since == IF Marks # {} THEN Max(Marks) ELSE (CHOOSE v \in Follow : TRUE).closedAt
Mark(merge) == watermark' = {w \in watermark : w.of # Blockers} \cup {[of |-> Blockers, at |-> merge]}
Exhausted == Verifying /\ Reusable = {} /\ Follow # {}
FollowKept == \A v \in Follow : v.kept
KeepFollow ==
  /\ Exhausted /\ ~FollowKept /\ Keep(Follow)
  /\ NotVerifying /\ UNCHANGED <<watermark, diagnosed, upsets, step, cur, seen>>
Retries == {v \in verifies : v.kind = "retry" /\ v.of = Blockers /\ v.merge = fixes}
Retried == {v \in Retries : v.marked}
(* the marker of the attempt names the merges; a crash leaves the mark unset *)
RetryVerify ==
  /\ Exhausted /\ FollowKept /\ fixes > Since
  /\ \/ /\ Mark(fixes) /\ UNCHANGED upsets
        /\ IF Retried # {} THEN Keep(Retried) ELSE create("retry", Blockers, fixes, TRUE)
     \/ /\ Upsets /\ UNCHANGED watermark
        /\ Retried = {} /\ create("retry", Blockers, fixes, FALSE)
  /\ Stop /\ NotVerifying /\ UNCHANGED diagnosed
Diagnosed == Blockers \in diagnosed /\ Marks # {}
Diagnose ==
  /\ Exhausted /\ FollowKept /\ fixes <= Since
  /\ IF Diagnosed THEN UNCHANGED <<diagnosed, watermark>>
     ELSE /\ diagnosed' = diagnosed \cup {Blockers}
          /\ Mark(Since)
  /\ Stop /\ NotVerifying /\ UNCHANGED <<verifies, newest, upsets>>

------------------------------------------------------------------------------
(* The environment *)
idle == UNCHANGED <<chain, state, step, cur, seen>>
KidMoves ==
  /\ Lives
  /\ \E k \in Kids :
       \/ /\ kid[k] = "open" /\ UNCHANGED upsets
          /\ \E s \in {"merged", "disposed", "unmerged"} : kid' = [kid EXCEPT ![k] = s]
       \/ kid[k] # "open" /\ Upsets /\ kid' = [kid EXCEPT ![k] = "open"]
  /\ UNCHANGED <<checked, issue, fixes, papers, vouched>> /\ idle
OwnerTicks ==
  /\ Upsets
  /\ \E c \in Criteria :
       \/ c \notin checked /\ checked' = checked \cup {c} /\ vouched' = vouched \cup {c}
       \/ c \in checked /\ checked' = checked \ {c} /\ UNCHANGED vouched
  /\ UNCHANGED <<parentHub, papers>> /\ idle
FixMerges ==
  /\ Lives /\ fixes < MaxFixes /\ (\E v \in verifies : v.kind = "follow") /\ fixes' = fixes + 1
  /\ UNCHANGED <<kid, checked, issue, papers, vouched, upsets>> /\ idle
Day ==
  /\ quiet.is /\ quiet.age < QuietDays /\ quiet' = [quiet EXCEPT !.age = @ + 1]
  /\ UNCHANGED <<parentHub, checked, chain, papers, parent, ending, complete, step, cur, seen, vouched, upsets>>

(* The verification item: a run reports what it met and what not, on a clean    *)
(* worktree (a claim, reviewed) or with work of its own (which drops the claim) *)
At(v, w) == (verifies \ {v}) \cup {w}
Closed(v) == [v EXCEPT !.open = FALSE, !.closedAt = IF v.kind = "follow" THEN fixes ELSE 0]
Runs == Cardinality(evidence)
_parent_evidence_recorded ==
  /\ Lives /\ Runs < MaxRuns /\ claim.phase # "waiting" /\ \E v \in verifies : v.open
  /\ \E met \in SUBSET Free, clean \in BOOLEAN :
       /\ evidence' = evidence \cup {[run |-> Runs + 1, met |-> met, unmet |-> Free \ met, done |-> FALSE]}
       /\ claim' = IF clean THEN [run |-> Runs + 1, phase |-> "waiting"] ELSE NoClaim
  /\ UNCHANGED <<parentHub, checked, followups, posted, vouched, upsets>> /\ idle
(* a later run of it that saved work drops the record of the review *)
RunSavesWork ==
  /\ Lives /\ claim.phase = "rejected" /\ (\E v \in verifies : v.open) /\ claim' = NoClaim
  /\ UNCHANGED <<parentHub, checked, evidence, followups, posted, vouched, upsets>> /\ idle
ReviewClaim ==
  /\ Lives /\ claim.phase = "waiting"
  /\ \/ claim' = [claim EXCEPT !.phase = "rejected"] /\ UNCHANGED verifies
     \/ /\ claim' = [claim EXCEPT !.phase = "done"]
        /\ verifies' = {IF v.open THEN Closed(v) ELSE v : v \in verifies}
  /\ UNCHANGED <<parentHub, checked, watermark, diagnosed, newest, evidence, followups, posted,
                 state, step, cur, seen, vouched, upsets>>
(* it ships, or is given up; it may leave a question that stands though closed *)
VerifyCloses ==
  /\ Lives /\ claim.phase # "waiting"
  /\ \E v \in verifies : v.open /\ \E asks \in BOOLEAN :
       /\ verifies' = At(v, [Closed(v) EXCEPT !.asks = asks])
       /\ IF asks THEN Upsets ELSE UNCHANGED upsets
  /\ UNCHANGED <<parentHub, checked, watermark, diagnosed, newest, papers, state, step, cur, seen, vouched>>
OwnerSettles ==
  /\ Lives /\ \E v \in verifies : v.asks /\ verifies' = At(v, [v EXCEPT !.asks = FALSE])
  /\ UNCHANGED <<parentHub, checked, watermark, diagnosed, newest, papers, state, step, cur, seen, vouched, upsets>>
(* a sort of an open item rewrites its body and strips the marker; of an item   *)
(* that is recorded the marker is not read any more (reduction: not stripped)   *)
Sorted ==
  /\ Lives
  /\ \/ /\ \E v \in verifies : v.open /\ v.marked /\ ~v.kept /\ verifies' = At(v, [v EXCEPT !.marked = FALSE])
        /\ UNCHANGED followups
     \/ /\ \E f \in followups : f.marked /\ ~f.kept /\ followups' = (followups \ {f}) \cup {[f EXCEPT !.marked = FALSE]}
        /\ UNCHANGED verifies
  /\ UNCHANGED <<parentHub, checked, watermark, diagnosed, newest, evidence, claim, posted, state,
                 step, cur, seen, vouched, upsets>>
PassCut ==
  /\ step # "idle" /\ Upsets /\ Stop
  /\ UNCHANGED <<parentHub, checked, chain, papers, state, vouched>>

ParentsPass == \/ post_parent_evidence \/ TickMet \/ FileFollowup \/ PostEvidence \/ RecordDone
        \/ Scan \/ TickMerged \/ Waits \/ HumanWaits \/ QuietPassed \/ AllDone \/ CloseIssue \/ Complete
        \/ ReuseVerify \/ FirstVerify \/ FollowVerify \/ KeepFollow \/ RetryVerify \/ Diagnose
ParentsNext == \/ ParentsPass \/ SyncClosed \/ KidMoves \/ OwnerTicks \/ FixMerges \/ Day
        \/ _parent_evidence_recorded \/ RunSavesWork \/ ReviewClaim \/ VerifyCloses \/ OwnerSettles \/ Sorted \/ PassCut
(* the tick runs and days go by *)
ParentsFairness == WF_parentVars(ParentsPass) /\ WF_parentVars(SyncClosed) /\ WF_parentVars(Day)
ParentsSpec == ParentsInit /\ [][ParentsNext]_parentVars /\ ParentsFairness

------------------------------------------------------------------------------
(* A parent has one unresolved verification item at a time: open, or closed     *)
(* with a question to the owner.                                                *)
OneVerifierAtATime == Cardinality({v \in verifies : v.open \/ v.asks}) <= 1

(* The chain of attempts on the same blockers ends: one follow-up, and one      *)
(* further attempt per new linked merge. One is repeated only when nothing is   *)
(* left to tell of it: a crash came between the issue and its record, and a     *)
(* sort then stripped its marker.                                               *)
Forgotten(v) == ~v.marked /\ ~v.kept
RetryNeedsNewMerge ==
  \A v, w \in verifies :
    v.of = w.of /\ v.kind = w.kind /\ v.merge = w.merge /\ v.number < w.number => Forgotten(v)

(* The evidence of a run is posted once: never two comments, two follow-ups for *)
(* one criterion only when the first was forgotten as above, and none missing   *)
(* once the record is done.                                                     *)
EvidencePostedOnce ==
  /\ \A f, g \in followups : f.run = g.run /\ f.of = g.of /\ f.number < g.number => Forgotten(f)
  /\ \A p, q \in posted : p.run = q.run => p = q
  /\ \A r \in evidence : r.done =>
       /\ \E p \in posted : p.run = r.run
       /\ \A c \in r.unmet : \E f \in followups : f.run = r.run /\ f.of = c

(* A ticked box has somebody to answer for it: the owner, a merge of the child  *)
(* it names, or the evidence of a run; a child disposed of is none.             *)
TicksAreVouched == checked \subseteq vouched

(* The four together: one verifier at a time, no retry without a merge,         *)
(* evidence posted once and in full, and ticks somebody answers for.           *)
VerificationIsSound ==
  OneVerifierAtATime /\ RetryNeedsNewMerge /\ EvidencePostedOnce /\ TicksAreVouched

(* A parent whose children are closed and accounted for, and which lacks at     *)
(* most what only a person can check, ends done with its completion recorded.   *)
Finished == ~Waiting /\ HumanOnly(Blockers)
FinishedParentsComplete == <>[]Finished => <>[](parent = "done" /\ complete)

(* Criteria nobody met are never forgotten: again and again somebody is on      *)
(* them, or the owner has been told that attempts closed without resolving them.*)
UnresolvedIsTold ==
  []<>(\/ ~(~Waiting /\ IsBlocked(Blockers) /\ ~HumanOnly(Blockers)) \/ parent = "done"
       \/ Reusable # {} \/ Blockers \in diagnosed)
==============================================================================
