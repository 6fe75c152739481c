----------------------------- MODULE UpkeepProofs -----------------------------
(* Proofs about the conductor's handling of dependency bots (Bots), for any     *)
(* number of pull requests, any tables, caps and timeouts, about the passes     *)
(* Mahler files for its own upkeep (Audits), for any maintenance passes and     *)
(* checks, and about parents and the verification of their criteria (Parents),  *)
(* for any children and criteria; without a bound on days, pushes, merges,      *)
(* runs, failures and crashes.                                                *)
EXTENDS Bots, Parents, Audits, FiniteSetTheorems, TLAPS

PrType == [state : {"OPEN", "MERGED", "CLOSED"}, head : Nat, table : Tables \cup {NoTable},
           red : BOOLEAN, based : BOOLEAN, day : Nat]
Requests == [pr : Prs, sha : Nat, age : Nat]
Asked == [sha : Nat, age : Nat,
          outcome : {"none", "uncertain", "accepted", "failed", "resolved", "alerted"}]

(* Where the pass has a PR in hand; where it has judged it and read it again.   *)
Handling == {"judge", "issue", "key", "fresh", "rebase", "ask", "asked", "reserve", "merge", "confirm"}
Reread == {"rebase", "ask", "asked", "reserve", "merge"}

TypeOK ==
  /\ prs \in [Prs -> PrType] /\ queue \subseteq [pr : Prs, sha : Nat] /\ day \in Nat
  /\ pending \in {None} \cup Requests /\ rebase \in [Prs -> Asked]
  /\ adopted \subseteq [pr : Prs, day : Nat] /\ IsFiniteSet(adopted)
  /\ pc \in {"idle", "pending", "next", "close"} \cup Handling
  /\ view \in PrType /\ left \subseteq Prs /\ (pc \in Handling => pr \in Prs)
  /\ filed \in [Prs -> Nat] /\ asked \in [Prs -> [1..(MaxNews + 1) -> Nat]]

(* Nothing is dated ahead.                                                     *)
NothingAhead == (\A n \in Prs : prs[n].day <= day) /\ \A a \in adopted : a.day <= day

(* What was read of a PR is what it is, until its head moves; a request for a   *)
(* head that is still there is for a low-risk update.                          *)
ViewHolds ==
  pc \in Handling =>
    view.head <= prs[pr].head /\ (view.head = prs[pr].head => view.table = prs[pr].table)
ViewIsLowRisk == pc \in {"fresh"} \cup Reread => LowRisk(view.table)
QueueIsLowRisk ==
  \A q \in queue : /\ q.sha <= prs[q.pr].head
                   /\ q.sha = prs[q.pr].head => LowRisk(prs[q.pr].table)

(* The record of the newest asked head is never ahead of the PR, no head after  *)
(* it was asked for, and the one that is about to be was not.                  *)
AsksOnRecord ==
  /\ \A n \in Prs : rebase[n].sha <= prs[n].head
  /\ \A n \in Prs : \A h \in 1..(MaxNews + 1) : asked[n][h] > 0 => h <= rebase[n].sha
  /\ pc = "rebase" => rebase[pr].sha <= view.head
  /\ pc \in {"ask", "asked"} => rebase[pr].sha = view.head
  /\ pc = "ask" => \A h \in 1..(MaxNews + 1) : asked[pr][h] > 0 => h < view.head

(* One request is out, and the day it will count for has room for it: the day   *)
(* it was merged, or any from today while it is not.                           *)
Count(d) == Cardinality({a \in adopted : a.day = d})
RoomFrom(d) == \A e \in Nat : e >= d => Count(e) < DailyCap
Room(n) == IF prs[n].state = "MERGED" THEN Count(prs[n].day) < DailyCap ELSE RoomFrom(day)
OneRequest ==
  /\ pc \in Handling \ {"merge", "confirm"} => pending = None
  /\ pc = "next" => pending = None
  /\ pc \in {"merge", "confirm"} => pending # None
CapKept ==
  /\ \A d \in Nat : Count(d) <= DailyCap
  /\ pending # None => Room(pending.pr)
  /\ pc = "fresh" => RoomFrom(day)
  /\ pc = "reserve" => Room(pr)

IInv ==
  /\ TypeOK /\ NothingAhead /\ ViewHolds /\ ViewIsLowRisk /\ QueueIsLowRisk
  /\ AsksOnRecord /\ OneRequest /\ CapKept /\ OneIssuePerPr /\ RebaseAskedOnce

------------------------------------------------------------------------------
(* What an update is.                                                         *)

(* _dependency_update answers with one of its five words.                      *)
LEMMA UpdateKinds ==
  ASSUME NEW t
  PROVE  _dependency_update(t) \in {"unclear", "major", "minor", "patch", "github-actions"}
<1> DEFINE kinds == {RowKind(r) : r \in Counted(t)}
           Wins(k) == \/ k = "major"
                      \/ k = "minor" /\ "major" \notin kinds
                      \/ k = "patch" /\ kinds \cap {"major", "minor"} = {}
                      \/ kinds = {"github-actions"}
<1>1. kinds \subseteq {"major", "minor", "patch", "github-actions"}
  BY DEF RowKind
<1>2. ASSUME kinds # {} PROVE \E k \in kinds : Wins(k)
  BY <1>1, <1>2
<1>3. CASE kinds = {}
  BY <1>3 DEF _dependency_update
<1>4. CASE kinds # {}
  <2>1. (CHOOSE k \in kinds : Wins(k)) \in {"major", "minor", "patch", "github-actions"}
    BY <1>1, <1>2, <1>4
  <2> QED BY <1>4, <2>1 DEF _dependency_update
<1> QED BY <1>3, <1>4

(* What judge lets pass to the merge is low-risk.                              *)
LEMMA JudgedLowRisk ==
  ASSUME NEW v \in PrType, ~Unclear(v), ~NeedsIssue(v) PROVE LowRisk(v.table)
BY UpdateKinds DEF Unclear, NeedsIssue, LowRisk, PrType

------------------------------------------------------------------------------
(* What each step leaves alone.                                               *)

Env == \/ QueueLands \/ QueueEjects \/ BotPushes \/ BaseMoves \/ ChecksTurnRed
       \/ OwnerCloses \/ ItemShips \/ OtherWork
PassKept == UNCHANGED <<day, pending, rebase, adopted, pc, pr, view, left, filed, asked>>

LEMMA EnvFrame == ASSUME Env PROVE PassKept
BY DEF Env, PassKept, QueueLands, QueueEjects, BotPushes, BaseMoves, ChecksTurnRed, OwnerCloses,
       ItemShips, OtherWork, ledger

(* What may become of a PR in one step: its head only grows, and its table      *)
(* changes with it; merged is for good, and dated today.                       *)
PrStep(n) ==
  /\ prs'[n].head >= prs[n].head
  /\ prs'[n].head = prs[n].head => prs'[n].table = prs[n].table
  /\ prs[n].state = "MERGED" => prs'[n].state = "MERGED" /\ prs'[n].day = prs[n].day
  /\ prs'[n].state = "MERGED" /\ prs[n].state # "MERGED" => prs'[n].day = day
  /\ prs'[n].day \in {prs[n].day, day}

LEMMA MergedStep ==
  ASSUME TypeOK, NEW n \in Prs, prs[n].state = "OPEN", prs' = Merged(n)
  PROVE  prs' \in [Prs -> PrType] /\ \A m \in Prs : PrStep(m)
<1> DEFINE new == [prs[n] EXCEPT !.state = "MERGED", !.day = day]
<1>1. prs[n] \in PrType /\ day \in Nat
  BY DEF TypeOK
<1>2. new \in PrType
  BY <1>1 DEF PrType
<1>3. new.head = prs[n].head /\ new.table = prs[n].table /\ new.state = "MERGED" /\ new.day = day
  BY <1>1 DEF PrType
<1>4. prs' = [prs EXCEPT ![n] = new]
  BY DEF Merged
<1> HIDE DEF new
<1>5. prs' \in [Prs -> PrType] /\ prs'[n] = new /\ \A m \in Prs : m # n => prs'[m] = prs[m]
  BY <1>2, <1>4 DEF TypeOK
<1>6. PrStep(n)
  BY <1>1, <1>3, <1>5 DEF PrStep, PrType
<1>7. ASSUME NEW m \in Prs, m # n PROVE PrStep(m)
  <2>1. prs'[m] = prs[m] /\ prs[m] \in PrType
    BY <1>5, <1>7 DEF TypeOK
  <2> QED BY <2>1 DEF PrStep, PrType
<1> QED BY <1>5, <1>6, <1>7

LEMMA PrSteps ==
  ASSUME BotsAssumption, TypeOK, Next
  PROVE  prs' \in [Prs -> PrType] /\ \A n \in Prs : PrStep(n)
<1>1. CASE prs' = prs
  BY <1>1 DEF TypeOK, PrType, PrStep
<1>2. CASE pr_merge
  <2>1. pr \in Prs
    BY <1>2 DEF pr_merge, TypeOK, Handling
  <2>2. CASE Matches(pr, view.head) /\ prs' = Merged(pr)
    BY <2>1, <2>2, MergedStep DEF Matches
  <2> QED BY <1>1, <1>2, <2>2 DEF pr_merge
<1>3. CASE QueueLands
  <2>1. PICK q \in queue : prs' = IF Matches(q.pr, q.sha) THEN Merged(q.pr) ELSE prs
    BY <1>3 DEF QueueLands
  <2>2. q.pr \in Prs
    BY DEF TypeOK
  <2>3. CASE Matches(q.pr, q.sha)
    BY <2>1, <2>2, <2>3, MergedStep DEF Matches
  <2> QED BY <1>1, <2>1, <2>3
<1>4. CASE BotPushes
  <2>1. PICK n \in Prs, t \in Tables :
          prs' = [prs EXCEPT ![n] = [prs[n] EXCEPT !.head = @ + 1, !.table = t, !.red = FALSE,
                                                  !.based = TRUE]]
    BY <1>4 DEF BotPushes
  <2> DEFINE h == prs[n].head + 1
             new == [prs[n] EXCEPT !.head = h, !.table = t, !.red = FALSE, !.based = TRUE]
  <2>2. prs[n] \in PrType
    BY DEF TypeOK
  <2>3. h \in Nat /\ h > prs[n].head
    BY <2>2 DEF PrType
  <2>4. prs' = [prs EXCEPT ![n] = new]
    BY <2>1
  <2> HIDE DEF h
  <2>5. new \in PrType
    BY <2>2, <2>3 DEF PrType
  <2>6. new.head = h /\ new.state = prs[n].state /\ new.day = prs[n].day
    BY <2>2, <2>3 DEF PrType
  <2> HIDE DEF new
  <2>7. prs' \in [Prs -> PrType] /\ prs'[n] = new /\ \A m \in Prs : m # n => prs'[m] = prs[m]
    BY <2>4, <2>5 DEF TypeOK
  <2>8. PrStep(n)
    BY <2>2, <2>3, <2>6, <2>7 DEF PrStep, PrType
  <2>9. ASSUME NEW m \in Prs, m # n PROVE PrStep(m)
    <3>1. prs'[m] = prs[m] /\ prs[m] \in PrType
      BY <2>7, <2>9 DEF TypeOK
    <3> QED BY <3>1 DEF PrStep, PrType
  <2> QED BY <2>7, <2>8, <2>9
<1>5. CASE BaseMoves
  <2>1. \A n \in Prs : prs'[n] = [prs[n] EXCEPT !.based = FALSE] /\ prs[n] \in PrType
    BY <1>5 DEF BaseMoves, TypeOK
  <2>2. prs' \in [Prs -> PrType]
    BY <1>5 DEF BaseMoves, TypeOK, PrType
  <2> QED BY <2>1, <2>2 DEF PrType, PrStep
<1>6. CASE ChecksTurnRed
  <2>1. PICK n \in Prs : prs' = [prs EXCEPT ![n].red = TRUE]
    BY <1>6 DEF ChecksTurnRed
  <2>2. prs' \in [Prs -> PrType]
    BY <2>1 DEF TypeOK, PrType
  <2>3. ASSUME NEW m \in Prs PROVE PrStep(m)
    BY <2>1 DEF TypeOK, PrType, PrStep
  <2> QED BY <2>2, <2>3
<1>7. CASE OwnerCloses
  <2>1. PICK n \in Prs : prs[n].state = "OPEN" /\ prs' = [prs EXCEPT ![n].state = "CLOSED"]
    BY <1>7 DEF OwnerCloses
  <2>2. prs' \in [Prs -> PrType]
    BY <2>1, ZenonT(60) DEF TypeOK, PrType
  <2>3. ASSUME NEW m \in Prs PROVE PrStep(m)
    BY <2>1 DEF TypeOK, PrType, PrStep
  <2> QED BY <2>2, <2>3
<1>8. CASE _close_superseded_bot_prs
  <2>1. prs' = [n \in Prs |-> IF Superseded(n) /\ prs[n].state = "OPEN"
                               THEN [prs[n] EXCEPT !.state = "CLOSED"] ELSE prs[n]]
    BY <1>8 DEF _close_superseded_bot_prs
  <2>2. \A n \in Prs : prs[n] \in PrType /\ [prs[n] EXCEPT !.state = "CLOSED"] \in PrType
    BY DEF TypeOK, PrType
  <2>3. prs' \in [Prs -> PrType]
    BY <2>1, <2>2
  <2>4. ASSUME NEW m \in Prs PROVE PrStep(m)
    <3>1. CASE prs'[m] = prs[m]
      <4>1. prs[m] \in PrType
        BY <2>2
      <4> QED BY <3>1, <4>1 DEF PrType, PrStep
    <3>2. CASE prs[m].state = "OPEN" /\ prs'[m] = [prs[m] EXCEPT !.state = "CLOSED"]
      <4>1. prs[m] \in PrType
        BY <2>2
      <4>2. /\ prs'[m].head = prs[m].head /\ prs'[m].table = prs[m].table
            /\ prs'[m].day = prs[m].day /\ prs'[m].state = "CLOSED"
        BY <4>1, <3>2 DEF PrType
      <4> QED BY <3>2, <4>1, <4>2 DEF PrType, PrStep
    <3> QED BY <2>1, <3>1, <3>2
  <2> QED BY <2>3, <2>4
<1>9. \/ prs' = prs \/ pr_merge \/ QueueLands \/ BotPushes \/ BaseMoves \/ ChecksTurnRed
      \/ OwnerCloses \/ _close_superseded_bot_prs
  BY DEF Next, Pass, _dependency_rebase_waits, CheckPending, Next_pr, NoneLeft, judge, FileIssue,
         KeyIssue, fresh, _request_dependency_rebase, AskBot, NoteAsked, Reserve, Confirm,
         QueueEjects, ItemShips, OtherWork, Clock, Crash, github
<1> QED BY <1>1, <1>2, <1>3, <1>4, <1>5, <1>6, <1>7, <1>8, <1>9

(* No step but a merge that GitHub makes turns a PR to merged.                 *)
LEMMA OtherSteps ==
  ASSUME TypeOK, Next, ~pr_merge, ~QueueLands, NEW n \in Prs
  PROVE  prs'[n].state \in {prs[n].state, "CLOSED"}
<1>0. prs \in [Prs -> PrType] /\ prs[n] \in PrType
  BY DEF TypeOK
<1>1. CASE prs' = prs
  BY <1>1
<1>2. CASE BotPushes
  <2>1. PICK m \in Prs, t \in Tables :
          prs' = [prs EXCEPT ![m] = [prs[m] EXCEPT !.head = @ + 1, !.table = t, !.red = FALSE,
                                                  !.based = TRUE]]
    BY <1>2 DEF BotPushes
  <2>2. prs[m] \in PrType
    BY <1>0
  <2>3. CASE n = m
    BY <1>0, <2>1, <2>2, <2>3 DEF PrType
  <2>4. CASE n # m
    BY <1>0, <2>1, <2>4
  <2> QED BY <2>3, <2>4
<1>3. CASE BaseMoves \/ ChecksTurnRed
  BY <1>0, <1>3 DEF BaseMoves, ChecksTurnRed, PrType
<1>4. CASE OwnerCloses
  BY <1>0, <1>4 DEF OwnerCloses, PrType
<1>5. CASE _close_superseded_bot_prs
  BY <1>0, <1>5 DEF _close_superseded_bot_prs, PrType
<1>6. prs' = prs \/ BotPushes \/ BaseMoves \/ ChecksTurnRed \/ OwnerCloses \/ _close_superseded_bot_prs
  BY DEF Next, Pass, _dependency_rebase_waits, CheckPending, Next_pr, NoneLeft, judge, FileIssue,
         KeyIssue, fresh, _request_dependency_rebase, AskBot, NoteAsked, Reserve, Confirm,
         QueueEjects, ItemShips, OtherWork, Clock, Crash, github
<1> QED BY <1>1, <1>2, <1>3, <1>4, <1>5, <1>6

(* Which steps write what.                                                     *)
LEMMA Frame ==
  ASSUME Next
  PROVE  /\ queue' = queue \/ pr_merge \/ QueueLands \/ QueueEjects
         /\ day' = day \/ Clock
         /\ pending' = pending \/ CheckPending \/ Reserve \/ Confirm \/ Clock
         /\ \/ rebase' = rebase \/ _dependency_rebase_waits \/ _request_dependency_rebase
            \/ NoteAsked \/ Clock
         /\ adopted' = adopted \/ CheckPending \/ Confirm
         /\ filed' = filed \/ FileIssue
         /\ asked' = asked \/ AskBot
         /\ (view' = view /\ pr' = pr) \/ Next_pr \/ fresh \/ pc' \in {"idle", "close"}
         /\ left' = left \/ _dependency_rebase_waits \/ Next_pr \/ left' = {}
<1>1. CASE Env \/ Clock \/ Crash
  BY <1>1, EnvFrame DEF PassKept, Env, QueueLands, QueueEjects, BotPushes, BaseMoves, ChecksTurnRed,
     OwnerCloses, ItemShips, OtherWork, Clock, Crash, github, ledger, Goto, Forget
<1>2. CASE _dependency_rebase_waits \/ CheckPending \/ Next_pr \/ NoneLeft \/ judge \/ FileIssue
           \/ KeyIssue \/ fresh
  BY <1>2 DEF _dependency_rebase_waits, CheckPending, Next_pr, NoneLeft, judge, FileIssue, KeyIssue,
     fresh, github, ledger, Goto, Forget
<1>3. CASE _request_dependency_rebase \/ AskBot \/ NoteAsked \/ Reserve \/ pr_merge \/ Confirm
           \/ _close_superseded_bot_prs
  BY <1>3 DEF _request_dependency_rebase, AskBot, NoteAsked, Reserve, pr_merge, Confirm,
     _close_superseded_bot_prs, github, ledger, Goto, Forget
<1> QED BY <1>1, <1>2, <1>3 DEF Next, Pass, Env

(* Where the pass goes.                                                        *)
LEMMA PcSteps ==
  ASSUME Next
  PROVE  \/ pc' = pc
         \/ pc' \in {"idle", "close"}
         \/ pc = "idle" /\ pc' = "pending"
         \/ CheckPending /\ pc' = "next"
         \/ Next_pr
         \/ judge /\ pc' \in {"issue", "next", "fresh"}
         \/ FileIssue /\ pc' = "key"
         \/ KeyIssue /\ pc' = "next"
         \/ fresh /\ pc' \in {"next", "rebase", "reserve"}
         \/ _request_dependency_rebase /\ pc' \in {"next", "ask"}
         \/ AskBot /\ pc' = "asked"
         \/ NoteAsked /\ pc' = "next"
         \/ Reserve /\ pc' = "merge"
         \/ pr_merge /\ pc' = "confirm"
<1>1. CASE Env \/ Clock \/ Crash
  BY <1>1, EnvFrame DEF PassKept, Clock, Crash, Goto
<1>2. CASE _dependency_rebase_waits \/ CheckPending \/ Next_pr \/ NoneLeft \/ FileIssue
           \/ KeyIssue \/ fresh
  BY <1>2 DEF _dependency_rebase_waits, CheckPending, NoneLeft, FileIssue, KeyIssue, fresh, Goto
<1>3. CASE judge
  BY <1>3 DEF judge, Goto
<1>4. CASE _request_dependency_rebase \/ AskBot \/ NoteAsked \/ Reserve \/ pr_merge \/ Confirm
           \/ _close_superseded_bot_prs
  BY <1>4 DEF _request_dependency_rebase, AskBot, NoteAsked, Reserve, pr_merge, Confirm,
     _close_superseded_bot_prs, Goto
<1> QED BY <1>1, <1>2, <1>3, <1>4 DEF Next, Pass, Env

------------------------------------------------------------------------------
(* The state keeps its shape.                                                  *)

LEMMA AgedIsNat == ASSUME NEW age \in Nat, NEW limit PROVE Aged(age, limit) \in Nat
BY DEF Aged

LEMMA PendingTyped ==
  ASSUME BotsAssumption, TypeOK, OneRequest, Next
  PROVE  /\ pending' \in {None} \cup Requests /\ adopted' \subseteq [pr : Prs, day : Nat]
         /\ IsFiniteSet(adopted')
<1>1. ASSUME pending \in Requests, ResolvePending
      PROVE  /\ pending' \in {None} \cup Requests /\ adopted' \subseteq [pr : Prs, day : Nat]
             /\ IsFiniteSet(adopted')
  <2> DEFINE a == [pr |-> pending.pr, day |-> prs[pending.pr].day]
  <2>1. a \in [pr : Prs, day : Nat]
    BY <1>1 DEF TypeOK, Requests, PrType
  <2>2. adopted' = adopted \/ adopted' = adopted \cup {a}
    BY <1>1 DEF ResolvePending
  <2> HIDE DEF a
  <2>3. IsFiniteSet(adopted) /\ IsFiniteSet(adopted \cup {a})
    BY FS_AddElement DEF TypeOK
  <2>4. adopted' \subseteq [pr : Prs, day : Nat] /\ IsFiniteSet(adopted')
    BY <2>1, <2>2, <2>3 DEF TypeOK
  <2>5. pending' \in {None, pending}
    BY <1>1 DEF ResolvePending
  <2> QED BY <1>1, <2>4, <2>5
<1>2. CASE CheckPending
  BY <1>1, <1>2 DEF CheckPending, TypeOK
<1>3. CASE Confirm
  BY <1>1, <1>3 DEF Confirm, TypeOK, OneRequest
<1>4. CASE Reserve
  <2>1. pr \in Prs /\ view.head \in Nat
    BY <1>4 DEF Reserve, TypeOK, Handling, PrType
  <2>2. pending' \in Requests
    BY <1>4, <2>1 DEF Reserve, Requests
  <2> QED BY <1>4, <2>2 DEF Reserve, TypeOK
<1>5. CASE Clock
  <2>1. CASE pending = None
    BY <1>5, <2>1 DEF Clock, TypeOK, ledger
  <2>2. CASE pending # None
    <3>1. pending \in Requests
      BY <2>2 DEF TypeOK
    <3> DEFINE age == Aged(pending.age, VerifyTimeout)
    <3>2. age \in Nat /\ pending' = [pending EXCEPT !.age = age]
      BY <1>5, <2>2, <3>1, AgedIsNat DEF Clock, Requests
    <3> HIDE DEF age
    <3>3. pending' \in Requests
      BY <3>1, <3>2 DEF Requests
    <3> QED BY <1>5, <3>3 DEF Clock, TypeOK
  <2> QED BY <2>1, <2>2
<1> QED BY <1>2, <1>3, <1>4, <1>5, Frame DEF TypeOK

LEMMA RebaseTyped ==
  ASSUME BotsAssumption, TypeOK, Next
  PROVE  rebase' \in [Prs -> Asked]
<1>1. CASE _dependency_rebase_waits
  <2>1. \A n \in Prs : Waited(n) \in Asked
    BY DEF Waited, TypeOK, Asked
  <2> QED BY <1>1, <2>1 DEF _dependency_rebase_waits
<1>2. CASE _request_dependency_rebase
  <2>1. pr \in Prs /\ view.head \in Nat
    BY <1>2 DEF _request_dependency_rebase, TypeOK, Handling, PrType
  <2>2. [sha |-> view.head, age |-> 0, outcome |-> "uncertain"] \in Asked
    BY <2>1 DEF Asked
  <2> QED BY <1>2, <2>2 DEF _request_dependency_rebase, TypeOK
<1>3. CASE NoteAsked
  <2>1. pr \in Prs /\ view.head \in Nat /\ rebase[pr].age \in Nat
    BY <1>3 DEF NoteAsked, TypeOK, Handling, PrType, Asked
  <2>2. PICK outcome \in {"accepted", "failed"} :
          rebase' = [rebase EXCEPT ![pr] = [sha |-> view.head, age |-> rebase[pr].age, outcome |-> outcome]]
    BY <1>3 DEF NoteAsked
  <2>3. [sha |-> view.head, age |-> rebase[pr].age, outcome |-> outcome] \in Asked
    BY <2>1 DEF Asked
  <2> QED BY <2>2, <2>3 DEF TypeOK
<1>4. CASE Clock
  <2> DEFINE age(n) == IF rebase[n].outcome \in {"uncertain", "accepted", "failed"}
                       THEN Aged(rebase[n].age, RebaseTimeout) ELSE 0
  <2>1. rebase' = [n \in Prs |-> [rebase[n] EXCEPT !.age = age(n)]]
    BY <1>4 DEF Clock
  <2>2. \A n \in Prs : age(n) \in Nat
    BY AgedIsNat DEF TypeOK, Asked
  <2> HIDE DEF age
  <2>3. \A n \in Prs : [rebase[n] EXCEPT !.age = age(n)] \in Asked
    BY <2>2 DEF TypeOK, Asked
  <2> QED BY <2>1, <2>3
<1> QED BY <1>1, <1>2, <1>3, <1>4, Frame DEF TypeOK

LEMMA TypeKept == ASSUME BotsAssumption, TypeOK, OneRequest, Next PROVE TypeOK'
<1>1. pc' \in {"idle", "pending", "next", "close"} \cup Handling
  BY PcSteps DEF TypeOK, Handling, Next_pr, Goto
<1>2. queue' \subseteq [pr : Prs, sha : Nat]
  <2>1. CASE pr_merge
    <3>1. [pr |-> pr, sha |-> view.head] \in [pr : Prs, sha : Nat]
      BY <2>1 DEF pr_merge, TypeOK, Handling, PrType
    <3> QED BY <2>1, <3>1 DEF pr_merge, TypeOK
  <2> QED BY <2>1, Frame DEF TypeOK, QueueLands, QueueEjects
<1>3. day' \in Nat
  BY Frame DEF TypeOK, Clock
<1>4. view' \in PrType
  <2>1. NewPr(NoTable) \in PrType
    BY DEF NewPr, PrType
  <2>2. view' = view \/ view' = NewPr(NoTable) \/ \E n \in Prs : view' = prs[n]
    <3>1. CASE Env \/ Clock \/ Crash
      BY <3>1, EnvFrame DEF PassKept, Clock, Crash, Forget
    <3>2. CASE Next_pr \/ fresh
      BY <3>2 DEF Next_pr, fresh, TypeOK, Handling
    <3>3. CASE Pass /\ ~Next_pr /\ ~fresh
      BY <3>3 DEF Pass, _dependency_rebase_waits, CheckPending, NoneLeft, judge, FileIssue, KeyIssue,
         _request_dependency_rebase, AskBot, NoteAsked, Reserve, pr_merge, Confirm,
         _close_superseded_bot_prs, Forget
    <3> QED BY <3>1, <3>2, <3>3 DEF Next, Env
  <2> QED BY <2>1, <2>2 DEF TypeOK
<1>5. left' \subseteq Prs
  BY Frame DEF TypeOK, _dependency_rebase_waits, Next_pr
<1>6. pc' \in Handling => pr' \in Prs
  <2>1. CASE Next_pr
    BY <2>1 DEF Next_pr, TypeOK
  <2>2. CASE ~Next_pr /\ pc' \in Handling
    <3>1. pc \in Handling
      BY <2>2, PcSteps DEF Handling, judge, FileIssue, fresh, _request_dependency_rebase, AskBot,
         Reserve, pr_merge
    <3>2. pr' = pr
      BY <2>2, Frame DEF fresh, Handling
    <3> QED BY <3>1, <3>2 DEF TypeOK
  <2> QED BY <2>1, <2>2
<1>7. filed' \in [Prs -> Nat]
  <2>1. CASE FileIssue
    <3>1. pr \in Prs /\ filed[pr] \in Nat
      BY <2>1 DEF FileIssue, TypeOK, Handling
    <3> QED BY <2>1, <3>1 DEF FileIssue, TypeOK
  <2> QED BY <2>1, Frame DEF TypeOK
<1>8. asked' \in [Prs -> [1..(MaxNews + 1) -> Nat]]
  <2>1. CASE AskBot
    <3> DEFINE h == [asked[pr] EXCEPT ![view.head] = @ + 1]
    <3>1. pr \in Prs /\ asked[pr] \in [1..(MaxNews + 1) -> Nat]
      BY <2>1 DEF AskBot, TypeOK, Handling
    <3>2. asked' = [asked EXCEPT ![pr] = h]
      BY <2>1 DEF AskBot
    <3> DEFINE Heads == 1..(MaxNews + 1)
    <3>3. asked \in [Prs -> [Heads -> Nat]]
      BY DEF TypeOK
    <3> HIDE DEF Heads
    <3>4. h \in [Heads -> Nat]
      <4> DEFINE f == asked[pr]
      <4>1. f \in [Heads -> Nat]
        BY <3>1, <3>3
      <4> HIDE DEF f
      <4>2. CASE view.head \in Heads
        <5>1. f[view.head] + 1 \in Nat
          BY <4>1, <4>2
        <5>2. [f EXCEPT ![view.head] = f[view.head] + 1] \in [Heads -> Nat]
          BY <4>1, <5>1
        <5> QED BY <5>2 DEF f
      <4>3. CASE view.head \notin Heads
        <5>1. [f EXCEPT ![view.head] = f[view.head] + 1] \in [Heads -> Nat]
          BY <4>1, <4>3
        <5> QED BY <5>1 DEF f
      <4> QED BY <4>2, <4>3
    <3> HIDE DEF h
    <3>5. asked' \in [Prs -> [Heads -> Nat]]
      BY <3>2, <3>3, <3>4
    <3> QED BY <3>5 DEF Heads
  <2> QED BY <2>1, Frame DEF TypeOK
<1> QED BY <1>1, <1>2, <1>3, <1>4, <1>5, <1>6, <1>7, <1>8, PrSteps, PendingTyped, RebaseTyped DEF TypeOK

------------------------------------------------------------------------------
(* Each part of the invariant is kept.                                         *)

LEMMA OneRequestKept == ASSUME TypeOK, OneRequest, Next PROVE OneRequest'
<1>1. ASSUME pending = None, pending' # None PROVE Reserve
  BY <1>1, Frame DEF CheckPending, Confirm, OneRequest, Clock
<1>2. ASSUME pc' \in (Handling \ {"merge", "confirm"}) \cup {"next"} PROVE pending' = None
  <2>1. CASE CheckPending
    BY <2>1, <1>2 DEF CheckPending, Goto, Handling
  <2>2. CASE ~CheckPending
    <3>1. pc \in (Handling \ {"merge", "confirm"}) \cup {"next"} /\ ~Reserve
      BY <1>2, <2>2, PcSteps DEF Handling, Next_pr, judge, FileIssue, KeyIssue, fresh,
         _request_dependency_rebase, AskBot, NoteAsked, Reserve, pr_merge, Goto
    <3> QED BY <1>1, <3>1 DEF OneRequest
  <2> QED BY <2>1, <2>2
<1>3. ASSUME pc' \in {"merge", "confirm"} PROVE pending' # None
  <2>1. CASE Reserve
    BY <2>1 DEF Reserve, None
  <2>2. CASE ~Reserve
    <3>1. pc \in {"merge", "confirm"} /\ ~CheckPending /\ ~Confirm
      BY <1>3, <2>2, PcSteps DEF CheckPending, Confirm, Next_pr, judge, FileIssue, KeyIssue, fresh,
         _request_dependency_rebase, AskBot, NoteAsked, pr_merge, Goto
    <3>2. pending # None
      BY <3>1 DEF OneRequest
    <3>3. CASE Clock
      <4>1. pending \in Requests
        BY <3>2 DEF TypeOK
      <4>2. pending'.sha = pending.sha /\ pending' \in [pr : Prs, sha : Nat, age : {pending'.age}]
        BY <3>2, <3>3, <4>1 DEF Clock, Requests
      <4> QED BY <4>2 DEF None
    <3> QED BY <2>2, <3>1, <3>2, <3>3, Frame
  <2> QED BY <2>1, <2>2
<1> QED BY <1>2, <1>3 DEF OneRequest

(* A view that was kept holds still, for the PR only moved on.                 *)
LEMMA ViewKept ==
  ASSUME BotsAssumption, TypeOK, ViewHolds, ViewIsLowRisk, Next
  PROVE  ViewHolds' /\ ViewIsLowRisk'
<1>1. CASE Next_pr
  BY <1>1 DEF Next_pr, ViewHolds, ViewIsLowRisk, Reread, Goto, github, TypeOK, PrType
<1>2. CASE fresh
  <2>1. /\ pr \in Prs /\ pr' = pr /\ prs' = prs /\ view' = prs[pr] /\ LowRisk(view.table)
    BY <1>2 DEF fresh, github, TypeOK, Handling, ViewIsLowRisk
  <2>2. pc' = "next" \/ (pc' \in {"rebase", "reserve"} /\ prs[pr].table = view.table)
    BY <1>2 DEF fresh, Goto
  <2>3. ViewHolds'
    BY <2>1 DEF ViewHolds, TypeOK, PrType
  <2> QED BY <2>1, <2>2, <2>3 DEF ViewIsLowRisk, Reread
<1>3. CASE pc' \notin Handling
  BY <1>3 DEF ViewHolds, ViewIsLowRisk, Reread, Handling
<1>4. CASE ~Next_pr /\ ~fresh /\ pc' \in Handling
  <2>1. view' = view /\ pr' = pr
    BY <1>4, Frame DEF Handling
  <2>2. pc \in Handling /\ pr \in Prs
    BY <1>4, PcSteps DEF Handling, judge, FileIssue, _request_dependency_rebase, AskBot,
       Reserve, pr_merge, TypeOK
  <2>3. PrStep(pr) /\ prs[pr] \in PrType /\ prs'[pr] \in PrType /\ view \in PrType
    BY <2>2, PrSteps DEF TypeOK
  <2>4. ViewHolds'
    BY <2>1, <2>2, <2>3 DEF ViewHolds, PrStep, PrType
  <2>5. CASE judge
    <3>1. pc' = "fresh" => ~Unclear(view) /\ ~NeedsIssue(view)
      BY <2>5 DEF judge, Goto
    <3> QED BY <2>1, <2>3, <2>4, <2>5, <3>1, JudgedLowRisk, PcSteps DEF ViewIsLowRisk, Reread, judge, Goto
  <2>6. CASE ~judge
    <3>1. pc' \in {"fresh"} \cup Reread => pc \in {"fresh"} \cup Reread
      BY <1>4, <2>6, PcSteps DEF Reread, FileIssue, KeyIssue, _request_dependency_rebase, AskBot,
         NoteAsked, Reserve, pr_merge
    <3> QED BY <2>1, <2>4, <3>1 DEF ViewIsLowRisk
  <2> QED BY <2>5, <2>6
<1> QED BY <1>1, <1>2, <1>3, <1>4

LEMMA QueueKept ==
  ASSUME BotsAssumption, TypeOK, ViewHolds, ViewIsLowRisk, QueueIsLowRisk, Next
  PROVE  QueueIsLowRisk'
<1> SUFFICES ASSUME NEW q \in queue'
             PROVE  /\ q.sha <= prs'[q.pr].head
                    /\ q.sha = prs'[q.pr].head => LowRisk(prs'[q.pr].table)
  BY DEF QueueIsLowRisk
<1>1. CASE q \in queue
  <2>1. q.pr \in Prs /\ q.sha \in Nat /\ prs[q.pr] \in PrType
    BY <1>1 DEF TypeOK
  <2>2. PrStep(q.pr) /\ prs'[q.pr] \in PrType
    BY <2>1, PrSteps
  <2> QED BY <1>1, <2>1, <2>2 DEF QueueIsLowRisk, PrStep, PrType
<1>2. CASE q \notin queue
  <2>1. /\ q = [pr |-> pr, sha |-> view.head] /\ prs' = prs /\ pc = "merge"
        /\ Matches(pr, view.head)
    BY <1>2, Frame DEF pr_merge, QueueLands, QueueEjects
  <2>2. pr \in Prs /\ prs[pr] \in PrType
    BY <2>1 DEF TypeOK, Handling
  <2> QED BY <2>1, <2>2 DEF Matches, ViewHolds, ViewIsLowRisk, Handling, Reread, PrType
<1> QED BY <1>1, <1>2

LEMMA DaysKept == ASSUME BotsAssumption, TypeOK, OneRequest, NothingAhead, Next PROVE NothingAhead'
<1>1. day' >= day /\ day' \in Nat
  BY Frame DEF Clock, TypeOK
<1>2. ASSUME NEW n \in Prs PROVE prs'[n].day <= day'
  <2>1. PrStep(n) /\ prs[n] \in PrType /\ prs[n].day <= day
    BY PrSteps DEF TypeOK, NothingAhead
  <2>2. prs'[n].day = prs[n].day \/ prs'[n].day = day
    BY <2>1 DEF PrStep
  <2> QED BY <1>1, <2>1, <2>2 DEF TypeOK, PrType
<1>3. ASSUME NEW a \in adopted' PROVE a.day <= day'
  <2>1. CASE a \in adopted
    BY <1>1, <2>1 DEF NothingAhead, TypeOK
  <2>2. CASE a \notin adopted
    <3>1. pending # None /\ ResolvePending
      BY <2>2, Frame DEF CheckPending, Confirm, OneRequest
    <3>2. a = [pr |-> pending.pr, day |-> prs[pending.pr].day] /\ pending.pr \in Prs
      BY <2>2, <3>1 DEF ResolvePending, TypeOK, Requests
    <3>3. a.day = prs[pending.pr].day
      BY <3>2
    <3> QED BY <1>1, <3>2, <3>3 DEF NothingAhead, TypeOK, PrType
  <2> QED BY <2>1, <2>2
<1> QED BY <1>2, <1>3 DEF NothingAhead

LEMMA FiledKept == ASSUME TypeOK, OneIssuePerPr, Next PROVE OneIssuePerPr'
<1>1. CASE FileIssue
  <2>1. pr \in Prs /\ filed[pr] \in Nat
    BY <1>1 DEF FileIssue, TypeOK, Handling
  <2> QED BY <1>1, <2>1 DEF FileIssue, OneIssuePerPr, issue_by_marker, TypeOK
<1> QED BY <1>1, Frame DEF OneIssuePerPr

(* The record of a PR moves to another head only when a request is begun.      *)
LEMMA ShaSteps ==
  ASSUME TypeOK, AsksOnRecord, Next, NEW n \in Prs
  PROVE  \/ rebase'[n].sha = rebase[n].sha
         \/ /\ pc = "rebase" /\ pc' = "ask" /\ n = pr /\ pr' = pr /\ view' = view
            /\ rebase[n].sha # view.head /\ rebase'[n].sha = view.head
<1>1. CASE _dependency_rebase_waits
  <2>1. rebase'[n] = Waited(n) /\ rebase[n] \in Asked
    BY <1>1 DEF _dependency_rebase_waits, TypeOK
  <2> QED BY <2>1 DEF Waited, Asked
<1>2. CASE _request_dependency_rebase
  <2>1. pr \in Prs
    BY <1>2 DEF _request_dependency_rebase, TypeOK, Handling
  <2> QED BY <1>2, <2>1 DEF _request_dependency_rebase, Goto, TypeOK
<1>3. CASE NoteAsked
  <2>1. pr \in Prs /\ rebase[pr].sha = view.head
    BY <1>3 DEF NoteAsked, TypeOK, Handling, AsksOnRecord
  <2>2. PICK outcome \in {"accepted", "failed"} :
          rebase' = [rebase EXCEPT ![pr] = [sha |-> view.head, age |-> rebase[pr].age, outcome |-> outcome]]
    BY <1>3 DEF NoteAsked
  <2> QED BY <2>1, <2>2 DEF TypeOK
<1>4. CASE Clock
  <2> DEFINE age == IF rebase[n].outcome \in {"uncertain", "accepted", "failed"}
                    THEN Aged(rebase[n].age, RebaseTimeout) ELSE 0
  <2>1. rebase'[n] = [rebase[n] EXCEPT !.age = age] /\ rebase[n] \in Asked
    BY <1>4 DEF Clock, TypeOK
  <2> HIDE DEF age
  <2> QED BY <2>1 DEF Asked
<1> QED BY <1>1, <1>2, <1>3, <1>4, Frame

LEMMA AsksKept ==
  ASSUME BotsAssumption, TypeOK, ViewHolds, AsksOnRecord, RebaseAskedOnce, TypeOK', Next
  PROVE  AsksOnRecord' /\ RebaseAskedOnce'
<1> DEFINE Heads == 1..(MaxNews + 1)
           Stays == pc' = pc /\ view' = view /\ pr' = pr /\ rebase'[pr].sha = rebase[pr].sha
<1>0. /\ Heads \subseteq Int
      /\ \A n \in Prs : asked[n] \in [Heads -> Nat] /\ asked'[n] \in [Heads -> Nat]
      /\ \A n \in Prs : rebase[n].sha \in Nat /\ rebase'[n].sha \in Nat
      /\ \A n \in Prs : prs[n].head \in Nat /\ prs'[n].head \in Nat /\ prs[n].head <= prs'[n].head
      /\ view.head \in Nat /\ view'.head \in Nat
  <2>1. Heads \subseteq Int
    BY DEF BotsAssumption
  <2>2. \A n \in Prs : asked[n] \in [Heads -> Nat] /\ asked'[n] \in [Heads -> Nat]
    BY DEF TypeOK
  <2>3. \A n \in Prs : rebase[n].sha \in Nat /\ rebase'[n].sha \in Nat
    BY DEF TypeOK, Asked
  <2>4. view.head \in Nat /\ view'.head \in Nat
    BY DEF TypeOK, PrType
  <2>5. ASSUME NEW n \in Prs
        PROVE  prs[n].head \in Nat /\ prs'[n].head \in Nat /\ prs[n].head <= prs'[n].head
    <3>1. PrStep(n) /\ prs[n] \in PrType /\ prs'[n] \in PrType
      BY PrSteps DEF TypeOK
    <3> QED BY <3>1 DEF PrType, PrStep
  <2> QED BY <2>1, <2>2, <2>3, <2>4, <2>5
<1> HIDE DEF Heads
<1>1. ASSUME pc \in {"rebase", "ask", "asked"}, pc' = pc PROVE Stays
  <2>1. pr \in Prs /\ view' = view /\ pr' = pr
    BY <1>1, Frame DEF TypeOK, Handling, Next_pr, fresh, Goto
  <2> QED BY <1>1, <2>1, ShaSteps
<1>2. ASSUME NEW n \in Prs PROVE rebase'[n].sha <= prs'[n].head
  <2>1. CASE rebase'[n].sha = rebase[n].sha
    BY <1>0, <2>1 DEF AsksOnRecord
  <2>2. CASE pc = "rebase" /\ n = pr /\ rebase'[n].sha = view.head
    BY <1>0, <2>2 DEF ViewHolds, Handling
  <2> QED BY <2>1, <2>2, ShaSteps
<1>3. CASE AskBot
  <2>1. /\ pr \in Prs /\ pc = "ask" /\ pc' = "asked" /\ rebase' = rebase /\ view' = view /\ pr' = pr
        /\ asked' = [asked EXCEPT ![pr][view.head] = @ + 1]
    BY <1>3 DEF AskBot, Goto, ledger, TypeOK, Handling
  <2>2. /\ rebase[pr].sha = view.head
        /\ \A h \in Heads : asked[pr][h] > 0 => h < view.head
    BY <2>1 DEF AsksOnRecord, Heads
  <2>3. \A n \in Prs : n # pr => asked'[n] = asked[n]
    BY <2>1 DEF TypeOK
  <2>4. ASSUME NEW h \in Heads
        PROVE  asked'[pr][h] = IF h = view.head THEN asked[pr][h] + 1 ELSE asked[pr][h]
    BY <1>0, <2>1 DEF TypeOK
  <2>5. ASSUME NEW h \in Heads, asked'[pr][h] > 0 PROVE h <= rebase'[pr].sha
    BY <1>0, <2>1, <2>2, <2>4, <2>5
  <2>6. ASSUME NEW h \in Heads PROVE asked'[pr][h] <= 1
    <3>1. asked[pr][h] \in Nat /\ (h = view.head => ~(asked[pr][h] > 0)) /\ asked[pr][h] <= 1
      BY <1>0, <2>1, <2>2 DEF RebaseAskedOnce
    <3> QED BY <2>4, <3>1
  <2>7. \A n \in Prs : \A h \in Heads : asked'[n][h] > 0 => h <= rebase'[n].sha
    BY <2>1, <2>3, <2>5 DEF AsksOnRecord, Heads
  <2>8. RebaseAskedOnce'
    BY <1>0, <2>3, <2>6 DEF RebaseAskedOnce
  <2> QED BY <1>2, <2>1, <2>2, <2>7, <2>8 DEF AsksOnRecord, Heads
<1>4. CASE ~AskBot
  <2>1. asked' = asked
    BY <1>4, Frame
  <2>2. RebaseAskedOnce'
    BY <2>1 DEF RebaseAskedOnce
  <2>3. ASSUME NEW n \in Prs PROVE rebase[n].sha <= rebase'[n].sha
    BY <1>0, ShaSteps DEF AsksOnRecord
  <2>4. ASSUME NEW n \in Prs, NEW h \in Heads, asked'[n][h] > 0 PROVE h <= rebase'[n].sha
    <3>1. h <= rebase[n].sha /\ h \in Int
      BY <1>0, <2>1, <2>4 DEF AsksOnRecord, Heads
    <3> QED BY <1>0, <2>3, <3>1
  <2>5. ASSUME pc' = "rebase" PROVE rebase'[pr'].sha <= view'.head
    <3>1. CASE pc = "rebase"
      BY <1>1, <2>5, <3>1 DEF AsksOnRecord
    <3>2. CASE fresh
      BY <3>2 DEF fresh, ledger, AsksOnRecord, TypeOK, Handling
    <3> QED BY <2>5, <3>1, <3>2, PcSteps DEF Next_pr, Goto
  <2>6. ASSUME pc' \in {"ask", "asked"} PROVE rebase'[pr'].sha = view'.head
    <3>1. CASE pc \in {"ask", "asked"} /\ pc' = pc
      BY <1>1, <3>1 DEF AsksOnRecord
    <3>2. CASE _request_dependency_rebase
      BY <2>6, <3>2 DEF _request_dependency_rebase, Goto, TypeOK, Handling
    <3> QED BY <1>4, <2>6, <3>1, <3>2, PcSteps DEF Next_pr, Goto
  <2>7. ASSUME pc' = "ask", NEW h \in Heads, asked'[pr'][h] > 0 PROVE h < view'.head
    <3>1. CASE pc = "ask"
      BY <1>1, <2>1, <2>7, <3>1 DEF AsksOnRecord, Heads
    <3>2. CASE _request_dependency_rebase
      <4>1. /\ pr \in Prs /\ pr' = pr /\ view' = view /\ rebase[pr].sha # view.head
            /\ rebase[pr].sha <= view.head
        BY <2>7, <3>2 DEF _request_dependency_rebase, Goto, TypeOK, Handling, AsksOnRecord
      <4>2. h <= rebase[pr].sha /\ h \in Int
        BY <1>0, <2>1, <2>7, <4>1 DEF AsksOnRecord, Heads
      <4> QED BY <1>0, <4>1, <4>2
    <3> QED BY <1>4, <2>7, <3>1, <3>2, PcSteps DEF Next_pr, Goto
  <2> QED BY <1>2, <2>2, <2>4, <2>5, <2>6, <2>7 DEF AsksOnRecord, Heads
<1> QED BY <1>3, <1>4

(* One more adoption counts for its own day only.                              *)
LEMMA CountAdd ==
  ASSUME IsFiniteSet(adopted), adopted \subseteq [pr : Prs, day : Nat],
         NEW a \in [pr : Prs, day : Nat], adopted' = adopted \cup {a}, NEW d
  PROVE  /\ Count(d) \in Nat
         /\ Count(d)' \in {Count(d), Count(d) + 1}
         /\ d # a.day => Count(d)' = Count(d)
<1> DEFINE S == {x \in adopted : x.day = d}
           T == {x \in adopted' : x.day = d}
<1>1. IsFiniteSet(S) /\ Cardinality(S) \in Nat
  BY FS_Subset, FS_CardinalityType
<1>2. Count(d) = Cardinality(S) /\ Count(d)' = Cardinality(T)
  BY DEF Count
<1>3. T = IF a.day = d THEN S \cup {a} ELSE S
  OBVIOUS
<1>4. Cardinality(S \cup {a}) \in {Cardinality(S), Cardinality(S) + 1}
  BY <1>1, FS_AddElement
<1> QED BY <1>1, <1>2, <1>3, <1>4

(* Room stays while nothing is adopted.                                        *)
LEMMA RoomStays ==
  ASSUME BotsAssumption, TypeOK, TypeOK', Next, NEW n \in Prs, Room(n), adopted' = adopted
  PROVE  Room(n)'
<1>1. \A d : Count(d)' = Count(d)
  BY DEF Count
<1>2. day \in Nat /\ day' \in Nat /\ day <= day'
  BY Frame DEF Clock, TypeOK
<1>3. PrStep(n)
  BY PrSteps
<1>4. CASE prs[n].state = "MERGED"
  BY <1>1, <1>3, <1>4 DEF Room, PrStep
<1>5. CASE prs[n].state # "MERGED" /\ prs'[n].state = "MERGED"
  BY <1>1, <1>2, <1>3, <1>5 DEF Room, RoomFrom, PrStep
<1>6. CASE prs[n].state # "MERGED" /\ prs'[n].state # "MERGED"
  <2>1. RoomFrom(day)
    BY <1>6 DEF Room
  <2>2. ASSUME NEW e \in Nat, e >= day' PROVE Count(e)' < DailyCap
    BY <1>1, <1>2, <2>1, <2>2 DEF RoomFrom
  <2>3. RoomFrom(day)'
    BY <2>2 DEF RoomFrom
  <2> QED BY <1>6, <2>3 DEF Room
<1> QED BY <1>4, <1>5, <1>6

LEMMA TodayIsNat == ASSUME TypeOK PROVE AdoptedToday \in Nat
BY FS_Subset, FS_CardinalityType DEF AdoptedToday, TypeOK

LEMMA CapStep ==
  ASSUME BotsAssumption, TypeOK, TypeOK', NothingAhead, OneRequest, OneRequest', CapKept, Next
  PROVE  CapKept'
<1>1. CASE adopted' # adopted
  <2>1. pending # None /\ ResolvePending /\ pc' \in {"next", "close"} /\ pending \in Requests
    BY <1>1, Frame DEF CheckPending, Confirm, OneRequest, Goto, TypeOK
  <2> DEFINE p == pending.pr
             a == [pr |-> p, day |-> prs[p].day]
  <2>2. /\ adopted' = adopted \cup {a} /\ pending' = None /\ prs[p].state = "MERGED"
    BY <1>1, <2>1 DEF ResolvePending, Landed
  <2>3. p \in Prs /\ a \in [pr : Prs, day : Nat] /\ a.day = prs[p].day
    BY <2>1 DEF Requests, TypeOK, PrType
  <2>4. Count(a.day) < DailyCap
    BY <2>1, <2>2, <2>3 DEF CapKept, Room
  <2>5. ASSUME NEW d \in Nat PROVE Count(d)' <= DailyCap
    <3>1. /\ Count(d) \in Nat /\ Count(d)' \in {Count(d), Count(d) + 1}
          /\ d # a.day => Count(d)' = Count(d)
      BY <2>2, <2>3, CountAdd DEF TypeOK
    <3>2. Count(d) <= DailyCap
      BY DEF CapKept
    <3> QED BY <2>4, <3>1, <3>2 DEF BotsAssumption
  <2> QED BY <2>1, <2>2, <2>5 DEF CapKept
<1>2. CASE adopted' = adopted
  <2>1. \A d : Count(d)' = Count(d)
    BY <1>2 DEF Count
  <2>2. \A d \in Nat : Count(d)' <= DailyCap
    BY <2>1 DEF CapKept
  <2>3. day \in Nat /\ day' \in Nat /\ day <= day'
    BY Frame DEF Clock, TypeOK
  <2>4. ASSUME RoomFrom(day) PROVE RoomFrom(day)'
    <3>1. ASSUME NEW e \in Nat, e >= day' PROVE Count(e)' < DailyCap
      BY <2>1, <2>3, <2>4, <3>1 DEF RoomFrom
    <3> QED BY <3>1 DEF RoomFrom
  <2>5. ASSUME NEW n \in Prs, Room(n) PROVE Room(n)'
    BY <1>2, <2>5, RoomStays
  <2>6. ASSUME NEW n \in Prs, pending' # None, n = pending'.pr PROVE Room(n)'
    <3>1. CASE Reserve
      <4>1. pending' = [pr |-> pr, sha |-> view.head, age |-> 0] /\ pc = "reserve"
        BY <3>1 DEF Reserve
      <4>2. n = pr
        BY <2>6, <4>1
      <4>3. Room(n)
        BY <4>1, <4>2 DEF CapKept
      <4> QED BY <2>5, <4>3
    <3>2. CASE ~Reserve
      <4>1. pending # None /\ n = pending.pr
        <5>1. CASE Clock
          <6>1. pending # None /\ pending \in Requests
            BY <2>6, <5>1 DEF Clock, TypeOK
          <6> QED BY <2>6, <5>1, <6>1 DEF Clock, Requests
        <5>2. CASE ~Clock
          <6>1. pending' = pending
            BY <2>6, <3>2, <5>2, Frame DEF CheckPending, Confirm, ResolvePending
          <6> QED BY <2>6, <6>1
        <5> QED BY <5>1, <5>2
      <4>2. Room(n)
        BY <4>1 DEF CapKept
      <4> QED BY <2>5, <4>2
    <3> QED BY <3>1, <3>2
  <2>7. ASSUME pc' = "fresh" PROVE RoomFrom(day)'
    <3>1. CASE pc = "fresh"
      BY <2>4, <3>1 DEF CapKept
    <3>2. CASE judge
      <4>1. AdoptedToday < DailyCap
        <5>1. ~(AdoptedToday >= DailyCap)
          BY <2>7, <3>2 DEF judge, Goto
        <5> QED BY <5>1, TodayIsNat DEF BotsAssumption
      <4>2. Count(day) < DailyCap
        BY <4>1 DEF Count, AdoptedToday
      <4>3. ASSUME NEW e \in Nat, e >= day PROVE Count(e) < DailyCap
        <5>1. CASE e = day
          BY <4>2, <5>1
        <5>2. CASE e > day
          <6>1. {a \in adopted : a.day = e} = {}
            BY <2>3, <5>2 DEF NothingAhead, TypeOK
          <6>2. Count(e) = 0
            BY <6>1, FS_EmptySet DEF Count
          <6> QED BY <4>2, <6>2, TodayIsNat DEF BotsAssumption, Count, AdoptedToday
        <5> QED BY <2>3, <4>3, <5>1, <5>2
      <4>4. RoomFrom(day)
        BY <4>3 DEF RoomFrom
      <4> QED BY <2>4, <4>4
    <3> QED BY <2>7, <3>1, <3>2, PcSteps DEF Next_pr, fresh, Goto
  <2>8. ASSUME NEW n \in Prs, pc' = "reserve", n = pr' PROVE Room(n)'
    <3>1. CASE pc = "reserve"
      <4>1. n = pr
        BY <2>8, <3>1, Frame DEF Next_pr, fresh, Goto
      <4> QED BY <2>5, <3>1, <4>1 DEF CapKept
    <3>2. CASE fresh
      <4>1. n = pr /\ prs[pr].state = "OPEN" /\ RoomFrom(day)
        BY <2>8, <3>2 DEF fresh, Goto, _dependency_ready, CapKept
      <4>2. Room(n)
        BY <4>1 DEF Room
      <4> QED BY <2>5, <4>2
    <3> QED BY <2>8, <3>1, <3>2, PcSteps DEF Next_pr, Goto
  <2>9. pending' # None => Room(pending.pr)'
    <3>1. SUFFICES ASSUME pending' # None PROVE Room(pending.pr)'
      OBVIOUS
    <3>2. PICK n \in Prs : n = pending'.pr
      BY <3>1 DEF TypeOK, Requests
    <3> QED BY <2>6, <3>1, <3>2 DEF Room, RoomFrom, Count
  <2>10. pc' = "reserve" => Room(pr)'
    <3>1. SUFFICES ASSUME pc' = "reserve" PROVE Room(pr)'
      OBVIOUS
    <3>2. PICK n \in Prs : n = pr'
      BY <3>1 DEF TypeOK, Handling
    <3> QED BY <2>8, <3>1, <3>2 DEF Room, RoomFrom, Count
  <2> QED BY <2>2, <2>7, <2>9, <2>10 DEF CapKept
<1> QED BY <1>1, <1>2

------------------------------------------------------------------------------
(* The invariant.                                                              *)

LEMMA InitIInv == ASSUME BotsAssumption, Init PROVE IInv
<1>1. TypeOK
  <2>1. \A n \in Prs : prs[n] = NewPr(Opening[n]) /\ NewPr(Opening[n]) \in PrType
    BY DEF Init, BotsAssumption, NewPr, PrType
  <2>2. prs \in [Prs -> PrType]
    BY <2>1 DEF Init
  <2>3. view \in PrType
    BY DEF Init, NewPr, PrType
  <2>4. rebase \in [Prs -> Asked]
    BY DEF Init, NoRebase, Asked
  <2>5. adopted = {} /\ IsFiniteSet(adopted)
    BY FS_EmptySet DEF Init
  <2> QED BY <2>2, <2>3, <2>4, <2>5 DEF Init, TypeOK, Handling
<1>2. NothingAhead
  BY DEF Init, NothingAhead, NewPr
<1>3. ViewHolds /\ ViewIsLowRisk /\ QueueIsLowRisk /\ OneRequest
  BY DEF Init, ViewHolds, ViewIsLowRisk, QueueIsLowRisk, OneRequest, Handling, Reread
<1>4. AsksOnRecord
  BY DEF Init, AsksOnRecord, NewPr, NoRebase
<1>5. CapKept
  <2>1. \A d : {a \in adopted : a.day = d} = {}
    BY DEF Init
  <2>2. \A d \in Nat : Count(d) = 0
    BY <2>1, FS_EmptySet DEF Count
  <2> QED BY <2>2 DEF Init, CapKept, BotsAssumption
<1>6. OneIssuePerPr /\ RebaseAskedOnce
  BY DEF Init, OneIssuePerPr, RebaseAskedOnce
<1> QED BY <1>1, <1>2, <1>3, <1>4, <1>5, <1>6 DEF IInv

LEMMA StutterKeeps == ASSUME IInv, UNCHANGED vars PROVE IInv'
BY ZenonT(60) DEF IInv, vars, TypeOK, NothingAhead, ViewHolds, ViewIsLowRisk, QueueIsLowRisk, AsksOnRecord,
       OneRequest, CapKept, Room, RoomFrom, Count, OneIssuePerPr, RebaseAskedOnce

LEMMA IndIInv == ASSUME BotsAssumption, IInv, [Next]_vars PROVE IInv'
<1>1. CASE Next
  <2>1. TypeOK' /\ OneRequest'
    BY <1>1, TypeKept, OneRequestKept DEF IInv
  <2>2. NothingAhead' /\ QueueIsLowRisk' /\ ViewHolds' /\ ViewIsLowRisk'
    BY <1>1, DaysKept, QueueKept, ViewKept DEF IInv
  <2>3. AsksOnRecord' /\ RebaseAskedOnce' /\ OneIssuePerPr'
    BY <1>1, <2>1, AsksKept, FiledKept DEF IInv
  <2>4. CapKept'
    BY <1>1, <2>1, CapStep DEF IInv
  <2> QED BY <2>1, <2>2, <2>3, <2>4 DEF IInv
<1> QED BY <1>1, StutterKeeps

THEOREM Invariance == ASSUME BotsAssumption PROVE Spec => []IInv
<1>1. Init => IInv
  BY InitIInv
<1>2. IInv /\ [Next]_vars => IInv'
  BY IndIInv
<1> QED BY <1>1, <1>2, PTL DEF Spec

(* Over crashes, pushes and midnight, the conductor files one issue for a PR,   *)
(* asks for one rebase of a head, and adopts no more in a day than the cap.      *)
THEOREM ActsOnce == ASSUME BotsAssumption PROVE Spec => []BotsActOnce
<1>1. IInv => BotsActOnce
  <2> SUFFICES ASSUME IInv PROVE WithinDailyCap
    BY DEF IInv, BotsActOnce
  <2>1. \A d \in Nat : Count(d) <= DailyCap
    BY DEF IInv, CapKept
  <2>2. \A d \in 1..MaxDay : Count(d) <= DailyCap
    BY <2>1
  <2> QED BY <2>2 DEF WithinDailyCap, Count
<1> QED BY <1>1, Invariance, PTL

(* Whatever the bot pushes between the reads and the request, or while the      *)
(* request waits in GitHub's queue, only a low-risk update gets merged.         *)
THEOREM OnlyLowRisk == ASSUME BotsAssumption PROVE Spec => MergesOnlyLowRisk
<1> DEFINE Kept == \A n \in Prs :
             prs[n].state = "OPEN" /\ prs'[n].state = "MERGED" => LowRisk(prs[n].table)
<1>1. ASSUME IInv, Next, NEW n \in Prs, prs[n].state = "OPEN", prs'[n].state = "MERGED"
      PROVE  LowRisk(prs[n].table)
  <2>1. prs[n] \in PrType /\ prs \in [Prs -> PrType]
    BY <1>1 DEF IInv, TypeOK
  <2>2. CASE pr_merge
    <3>1. Matches(pr, view.head) /\ prs' = Merged(pr) /\ pr \in Prs /\ pc = "merge"
      BY <1>1, <2>2 DEF pr_merge, IInv, TypeOK, Handling
    <3>2. n = pr
      BY <1>1, <2>1, <3>1 DEF Merged
    <3> QED BY <1>1, <3>1, <3>2 DEF IInv, Matches, ViewHolds, ViewIsLowRisk, Handling, Reread
  <2>3. CASE QueueLands
    <3>1. PICK q \in queue : prs' = IF Matches(q.pr, q.sha) THEN Merged(q.pr) ELSE prs
      BY <2>3 DEF QueueLands
    <3>2. Matches(q.pr, q.sha) /\ prs' = Merged(q.pr) /\ q.pr \in Prs
      BY <1>1, <3>1 DEF IInv, TypeOK
    <3>3. n = q.pr
      BY <1>1, <2>1, <3>2 DEF Merged
    <3> QED BY <1>1, <3>2, <3>3 DEF IInv, Matches, QueueIsLowRisk
  <2>4. CASE ~pr_merge /\ ~QueueLands
    <3>1. prs'[n].state \in {prs[n].state, "CLOSED"}
      BY <1>1, <2>1, <2>4, OtherSteps DEF IInv
    <3> QED BY <1>1, <3>1
  <2> QED BY <2>2, <2>3, <2>4
<1>2. IInv /\ [Next]_vars => [Kept]_vars
  BY <1>1
<1>3. Spec => [][Kept]_vars
  BY <1>2, Invariance, PTL DEF Spec
<1> QED BY <1>3 DEF MergesOnlyLowRisk

------------------------------------------------------------------------------
(* The passes Mahler files about its own upkeep (Audits).                     *)

Filings == [pass : Kinds, id : Nat, open : BOOLEAN, since : Nat, from : Nat, to : Nat]
Walking == {"maintenance", "checkpoint", "platform", "filed", "practices", "report", "proposals", "conclude",
            "clear"}

AuditsTypeOK ==
  /\ date \in Nat /\ now \in Nat /\ at \in Nat /\ noted \in BOOLEAN /\ upset \in BOOLEAN
  /\ issues \subseteq Filings /\ IsFiniteSet(issues)
  /\ filedAt \in [Kinds -> Nat]
  /\ walk \in {"idle"} \cup Walking /\ (walk = "maintenance" => at > 0)
  /\ marker \in Nat /\ audits \in Nat /\ rest \subseteq Checks
  /\ proposals \subseteq [check : Checks, copy : Nat, open : BOOLEAN] /\ IsFiniteSet(proposals)

(* Issues are numbered in the order they are filed.                            *)
NumberedInOrder ==
  /\ \A i \in issues : i.id <= Cardinality(issues)
  /\ \A i, j \in issues : i.id = j.id => i = j

(* The next interval starts where one that was filed ends, also while the       *)
(* checkpoint of the newest is still to be written.                            *)
Ends(to) == \E j \in issues : j.pass = "escapes" /\ j.to >= to
NextIsCovered ==
  /\ "escapes" \in Kinds => filedAt["escapes"] = 0 \/ Ends(filedAt["escapes"])
  /\ walk = "checkpoint" /\ ThisPass = "escapes" => Ends(now)

(* While syncs work and no answer is lost, a tick that has filed nothing knows  *)
(* every open pass.                                                           *)
OpenPasses == {i \in issues : i.open /\ i.pass # Report}
Alone == ~upset => \A i, j \in OpenPasses : i = j
KnownToTick == ~upset /\ walk \in {"maintenance", "platform"} /\ ~noted => OpenPasses \subseteq books

AuditsInv ==
  /\ AuditsTypeOK /\ NumberedInOrder /\ EscapesCovered /\ NextIsCovered
  /\ Alone /\ KnownToTick /\ AuditFiledOnce

(* A pass that is filed and the pass it is of.                                 *)
LEMMA PassesAreKinds ==
  ASSUME AuditsAssumption, AuditsTypeOK, walk = "maintenance", at <= Len(Maintenance)
  PROVE  ThisPass \in Kinds /\ ThisPass # Report
BY DEF AuditsAssumption, AuditsTypeOK, ThisPass, Kinds, Report

(* Filing one more issue.                                                     *)
Files(i) == issues' = issues \cup {i}
LEMMA IssueIsNew ==
  ASSUME AuditsTypeOK, NumberedInOrder, NEW p \in Kinds, NEW t \in Nat
  PROVE  /\ Issue(p, t) \in Filings /\ Issue(p, t).id > Cardinality(issues)
         /\ Issue(p, t).pass = p /\ Issue(p, t).from = t /\ Issue(p, t).to = now /\ Issue(p, t).open
         /\ Cardinality(issues) \in Nat
BY FS_CardinalityType DEF AuditsTypeOK, Issue, Filings

LEMMA FilingKeeps ==
  ASSUME AuditsTypeOK, NumberedInOrder, EscapesCovered, NEW p \in Kinds, NEW t \in Nat,
         Files(Issue(p, t)), p = "escapes" => t = 0 \/ Ends(t)
  PROVE  /\ issues' \subseteq Filings /\ IsFiniteSet(issues') /\ NumberedInOrder' /\ EscapesCovered'
         /\ \A e : Ends(e) => Ends(e)'
<1> DEFINE new == Issue(p, t)
           n == Cardinality(issues)
<1>1. /\ new \in Filings /\ new.id > n /\ new.id = n + 1 /\ n \in Nat
      /\ new.pass = p /\ new.from = t /\ new.to = now
  BY IssueIsNew DEF Issue
<1>2. issues' = issues \cup {new}
  BY DEF Files
<1> HIDE DEF new
<1>3. new \notin issues
  BY <1>1 DEF NumberedInOrder, AuditsTypeOK, Filings
<1>4. IsFiniteSet(issues') /\ Cardinality(issues') = n + 1
  BY <1>2, <1>3, FS_AddElement DEF AuditsTypeOK
<1>5. \A i \in issues : i.id \in Nat /\ i.id <= n
  BY DEF NumberedInOrder, AuditsTypeOK, Filings
<1> HIDE DEF n
<1>6. NumberedInOrder'
  <2>1. \A i \in issues' : i.id <= Cardinality(issues')
    BY <1>1, <1>2, <1>4, <1>5
  <2>2. \A i, j \in issues' : i.id = j.id => i = j
    BY <1>1, <1>2, <1>5 DEF NumberedInOrder
  <2> QED BY <2>1, <2>2 DEF NumberedInOrder
<1>7. \A e : Ends(e) => Ends(e)'
  BY <1>2 DEF Ends
<1>8. EscapesCovered'
  <2> SUFFICES ASSUME NEW i \in issues', i.pass = "escapes", i.from # 0
               PROVE  \E j \in issues' : j.pass = "escapes" /\ j.id < i.id /\ j.to >= i.from
    BY DEF EscapesCovered
  <2>1. CASE i \in issues
    BY <1>2, <2>1 DEF EscapesCovered
  <2>2. CASE i = new
    <3>1. Ends(t)
      BY <1>1, <2>2
    <3>2. PICK j \in issues : j.pass = "escapes" /\ j.to >= t
      BY <3>1 DEF Ends
    <3>3. j.id \in Nat /\ j.id < new.id
      BY <1>1, <1>5
    <3> QED BY <1>1, <1>2, <2>2, <3>2, <3>3
  <2> QED BY <1>2, <2>1, <2>2
<1> QED BY <1>1, <1>2, <1>4, <1>6, <1>7, <1>8 DEF AuditsTypeOK

(* Closing one changes nothing that counts but that it is open.                *)
LEMMA ClosingKeeps ==
  ASSUME AuditsTypeOK, NumberedInOrder, EscapesCovered, PassDone
  PROVE  /\ issues' \subseteq Filings /\ IsFiniteSet(issues') /\ NumberedInOrder' /\ EscapesCovered'
         /\ \A e : Ends(e) => Ends(e)'
         /\ \A j \in issues' : \E i \in issues :
              /\ j.id = i.id /\ j.pass = i.pass /\ j.from = i.from /\ (j.open => j = i)
<1>1. PICK i \in issues : i.open /\ issues' = (issues \ {i}) \cup {[i EXCEPT !.open = FALSE, !.since = date]}
  BY DEF PassDone
<1> DEFINE new == [i EXCEPT !.open = FALSE, !.since = date]
<1>2. /\ new \in Filings /\ new.id = i.id /\ new.pass = i.pass /\ new.from = i.from /\ new.to = i.to
      /\ ~new.open /\ i \in Filings
  BY <1>1 DEF AuditsTypeOK, Filings
<1>3. issues' = (issues \ {i}) \cup {new}
  BY <1>1
<1> HIDE DEF new
<1>4. new \notin issues \ {i}
  BY <1>2 DEF NumberedInOrder
<1>5. IsFiniteSet(issues \ {i}) /\ Cardinality(issues \ {i}) = Cardinality(issues) - 1
  BY FS_RemoveElement DEF AuditsTypeOK
<1>6. IsFiniteSet(issues') /\ Cardinality(issues') = Cardinality(issues)
  <2>1. Cardinality(issues) \in Nat
    BY FS_CardinalityType DEF AuditsTypeOK
  <2>2. IsFiniteSet(issues') /\ Cardinality(issues') = Cardinality(issues \ {i}) + 1
    BY <1>3, <1>4, <1>5, FS_AddElement
  <2> QED BY <1>5, <2>1, <2>2
<1>7. NumberedInOrder'
  BY <1>2, <1>3, <1>6 DEF NumberedInOrder
<1>8. \A e : Ends(e) => Ends(e)'
  BY <1>2, <1>3 DEF Ends
<1>9. EscapesCovered'
  <2> SUFFICES ASSUME NEW k \in issues', k.pass = "escapes", k.from # 0
               PROVE  \E j \in issues' : j.pass = "escapes" /\ j.id < k.id /\ j.to >= k.from
    BY DEF EscapesCovered
  <2>1. PICK m \in issues : m.pass = "escapes" /\ m.from = k.from /\ m.id = k.id
    BY <1>2, <1>3
  <2>2. PICK j \in issues : j.pass = "escapes" /\ j.id < m.id /\ j.to >= m.from
    BY <2>1 DEF EscapesCovered
  <2> QED BY <1>2, <1>3, <2>1, <2>2
<1>10. \A j \in issues' : \E k \in issues :
         j.id = k.id /\ j.pass = k.pass /\ j.from = k.from /\ (j.open => j = k)
  BY <1>2, <1>3
<1> QED BY <1>2, <1>3, <1>6, <1>7, <1>8, <1>9, <1>10 DEF AuditsTypeOK

(* What a step does to the issues: nothing, or one closes, or one is filed.     *)
LEMMA IssueSteps ==
  ASSUME AuditsAssumption, AuditsInv, AuditsNext
  PROVE  \/ issues' = issues
         \/ PassDone
         \/ \E p \in Kinds, t \in Nat : Files(Issue(p, t)) /\ (p = "escapes" => t = 0 \/ Ends(t))
<1> USE DEF AuditsInv
<1>1. ASSUME Fileable
      PROVE  \E p \in Kinds, t \in Nat : PassIssue = Issue(p, t) /\ (p = "escapes" => t = 0 \/ Ends(t))
  <2> DEFINE t == IF ThisPass = "escapes" THEN filedAt[ThisPass] ELSE now
  <2>1. ThisPass \in Kinds
    BY <1>1, PassesAreKinds DEF Fileable
  <2>2. t \in Nat
    BY <2>1 DEF AuditsTypeOK
  <2>3. ThisPass = "escapes" => t = 0 \/ Ends(t)
    BY <2>1 DEF NextIsCovered
  <2>4. PassIssue = Issue(ThisPass, t)
    BY DEF PassIssue
  <2> QED BY <2>1, <2>2, <2>3, <2>4
<1>2. "platform" \in Kinds /\ Report \in Kinds /\ now \in Nat /\ marker \in Nat
      /\ Report # "escapes"
  BY DEF Kinds, Report, AuditsTypeOK
<1>3. CASE queue_maintenance \/ RequestFails
  BY <1>1, <1>3 DEF queue_maintenance, RequestFails, Files
<1>4. CASE queue_platform
  <2>1. issues' = issues \/ Files(Issue("platform", now))
    BY <1>4 DEF queue_platform, Files
  <2> QED BY <1>2, <2>1
<1>5. CASE FileReport \/ ReportFails
  <2>1. issues' = issues \/ Files(Issue(Report, marker))
    BY <1>5 DEF FileReport, ReportFails, Files, ReportIssue
  <2> QED BY <1>2, <2>1
<1>6. CASE ~(queue_maintenance \/ RequestFails \/ queue_platform \/ FileReport \/ ReportFails \/ PassDone)
  BY <1>6 DEF AuditsNext, Tick, sync, SkipPass, Checkpoint, reset_platform, _queue, file_audit,
     Conclude, SetCheckpoint, Clear, TickDies, DatePasses, record_shipped, GapChanges
<1> QED BY <1>3, <1>4, <1>5, <1>6

LEMMA IssuesKept ==
  ASSUME AuditsAssumption, AuditsInv, AuditsNext
  PROVE  /\ issues' \subseteq Filings /\ IsFiniteSet(issues') /\ NumberedInOrder' /\ EscapesCovered'
         /\ \A e : Ends(e) => Ends(e)'
<1> USE DEF AuditsInv
<1>1. CASE issues' = issues
  BY <1>1 DEF AuditsTypeOK, NumberedInOrder, EscapesCovered, Ends
<1>2. CASE PassDone
  BY <1>2, ClosingKeeps
<1>3. ASSUME NEW p \in Kinds, NEW t \in Nat, Files(Issue(p, t)), p = "escapes" => t = 0 \/ Ends(t)
      PROVE  /\ issues' \subseteq Filings /\ IsFiniteSet(issues') /\ NumberedInOrder' /\ EscapesCovered'
             /\ \A e : Ends(e) => Ends(e)'
  BY <1>3, FilingKeeps
<1> QED BY <1>1, <1>2, <1>3, IssueSteps

(* The proposals: a step closes some or adds one for a check that has none.     *)
LEMMA ProposalsKept ==
  ASSUME AuditsTypeOK, AuditFiledOnce, AuditsNext
  PROVE  /\ proposals' \subseteq [check : Checks, copy : Nat, open : BOOLEAN] /\ IsFiniteSet(proposals')
         /\ \A p, q \in proposals' : p.check = q.check => p = q
<1> DEFINE Types == [check : Checks, copy : Nat, open : BOOLEAN]
           Good(S) == /\ S \subseteq Types /\ IsFiniteSet(S)
                      /\ \A p, q \in S : p.check = q.check => p = q
<1>1. Good(proposals)
  BY DEF AuditsTypeOK, AuditFiledOnce
<1>2. ASSUME NEW c \in Checks, c \notin gap PROVE Good(Proposed(c))
  <2> DEFINE Shut(p) == IF p.check = c THEN [p EXCEPT !.open = FALSE] ELSE p
             shut == [p \in proposals |-> Shut(p)]
  <2>1. \A p \in proposals : Shut(p) \in Types /\ Shut(p).check = p.check
    BY <1>1
  <2>2. Proposed(c) = {Shut(p) : p \in proposals}
    BY <1>2 DEF Proposed
  <2> HIDE DEF Shut
  <2>3. shut \in Surjection(proposals, Proposed(c))
    BY <2>2 DEF Surjection
  <2>4. IsFiniteSet(Proposed(c))
    BY <1>1, <2>3, FS_Surjection
  <2> QED BY <1>1, <2>1, <2>2, <2>4
<1>3. ASSUME NEW c \in Checks, c \in gap PROVE Good(Proposed(c))
  <2>1. CASE proposals_of(c) # {}
    BY <1>1, <1>3, <2>1 DEF Proposed
  <2>2. CASE proposals_of(c) = {}
    <3> DEFINE new == [check |-> c, copy |-> Cardinality(proposals), open |-> TRUE]
    <3>1. new \in Types /\ new.check = c
      BY <1>1, FS_CardinalityType
    <3>2. Proposed(c) = proposals \cup {new}
      BY <1>3, <2>2 DEF Proposed
    <3> HIDE DEF new
    <3>3. IsFiniteSet(Proposed(c))
      BY <1>1, <3>2, FS_AddElement
    <3> QED BY <1>1, <2>2, <3>1, <3>2, <3>3 DEF proposals_of
  <2> QED BY <2>1, <2>2
<1> HIDE DEF Good
<1>4. CASE file_audit
  <2>1. PICK c \in rest : proposals' = Proposed(c) \/ proposals' = proposals
    BY <1>4 DEF file_audit
  <2>2. c \in Checks
    BY <2>1 DEF AuditsTypeOK
  <2> QED BY <1>1, <1>2, <1>3, <2>1, <2>2 DEF Good
<1>5. CASE ~file_audit
  <2>1. proposals' = proposals
    BY <1>5 DEF AuditsNext, Tick, sync, SkipPass, queue_maintenance, Checkpoint, queue_platform, reset_platform, _queue,
       FileReport, Conclude, SetCheckpoint, Clear, RequestFails, ReportFails, TickDies, DatePasses,
       record_shipped, PassDone, GapChanges, practices
  <2> QED BY <1>1, <2>1 DEF Good
<1> QED BY <1>4, <1>5

LEMMA CheckpointsTyped ==
  ASSUME AuditsTypeOK, AuditsNext PROVE filedAt' \in [Kinds -> Nat]
<1>1. CASE Checkpoint \/ reset_platform \/ SetCheckpoint
  <2>1. CheckpointTime \in Nat /\ date \in Nat
    BY DEF CheckpointTime, AuditsTypeOK
  <2> QED BY <1>1, <2>1 DEF Checkpoint, reset_platform, SetCheckpoint, set_maintenance_checkpoint,
         checkpoints, AuditsTypeOK
<1>2. CASE ~(Checkpoint \/ reset_platform \/ SetCheckpoint)
  BY <1>2 DEF AuditsNext, Tick, sync, SkipPass, queue_maintenance, queue_platform, _queue, FileReport,
     file_audit, Conclude, Clear, RequestFails, ReportFails, TickDies, DatePasses, record_shipped, PassDone,
     GapChanges, checkpoints, AuditsTypeOK
<1> QED BY <1>1, <1>2

LEMMA AuditsTyped == ASSUME AuditsAssumption, AuditsInv, AuditsNext PROVE AuditsTypeOK'
<1> DEFINE Flags == /\ date \in Nat /\ now \in Nat /\ noted \in BOOLEAN /\ upset \in BOOLEAN
                    /\ marker \in Nat /\ audits \in Nat /\ rest \subseteq Checks
           Place == at \in Nat /\ walk \in {"idle"} \cup Walking /\ (walk = "maintenance" => at > 0)
<1>1. Flags /\ Place
  BY DEF AuditsInv, AuditsTypeOK
<1>20. ASSUME sync PROVE Flags' /\ Place'
  <2>1. walk' = "maintenance" /\ at' = 1 /\ now' = date /\ UNCHANGED <<noted, rest, date, marker, audits>>
    BY <1>20 DEF sync, practices, world
  <2>2. upset' \in BOOLEAN
    BY <1>1, <1>20, Zenon DEF sync
  <2> QED BY <1>1, <2>1, <2>2 DEF Walking
<1>21. ASSUME SkipPass PROVE Flags' /\ Place'
  BY <1>1, <1>21 DEF SkipPass, WalkTo, practices, world, Walking
<1>22. ASSUME queue_maintenance PROVE Flags' /\ Place'
  BY <1>1, <1>22 DEF queue_maintenance, WalkTo, practices, world, Walking
<1>23. ASSUME RequestFails PROVE Flags' /\ Place'
  <2>1. walk' = "maintenance" /\ at' = at + 1 /\ UNCHANGED <<now, noted, rest, date, marker, audits>>
    BY <1>23 DEF RequestFails, Fileable, practices, world
  <2>2. upset' \in BOOLEAN
    BY <1>1, <1>23, Zenon DEF RequestFails
  <2> QED BY <1>1, <2>1, <2>2 DEF Walking
<1>24. ASSUME ReportFails PROVE Flags' /\ Place'
  BY <1>1, <1>24 DEF ReportFails, EndTick, practices, world, Walking
<1>25. ASSUME TickDies PROVE Flags' /\ Place'
  BY <1>1, <1>25 DEF TickDies, EndTick, practices, world, Walking
<1>26. ASSUME DatePasses PROVE Flags' /\ Place'
  BY <1>1, <1>26 DEF DatePasses, ticking, practices, Walking
<1>27. ASSUME record_shipped PROVE Flags' /\ Place'
  BY <1>1, <1>27 DEF record_shipped, ticking, practices, Walking
<1>28. ASSUME PassDone PROVE Flags' /\ Place'
  BY <1>1, <1>28 DEF PassDone, ticking, practices, world, Walking
<1>29. ASSUME GapChanges PROVE Flags' /\ Place'
  BY <1>1, <1>29 DEF GapChanges, ticking, practices, Walking
<1>30. ASSUME FileReport PROVE Flags' /\ Place'
  BY <1>1, <1>30 DEF FileReport, practices, world, Walking
<1>31. ASSUME Conclude PROVE Flags' /\ Place'
  <2>1. UNCHANGED <<date, marker, audits, upset>>
    BY <1>31 DEF Conclude, world
  <2>2. CASE NothingFailed
    BY <1>1, <1>31, <2>1, <2>2 DEF Conclude, WalkTo, Walking
  <2>3. CASE ~NothingFailed
    <3>1. walk' = "idle" /\ at' = 0 /\ now' = 0 /\ noted' = FALSE /\ rest' = {}
      BY <1>31, <2>3, Zenon DEF Conclude, EndTick
    <3> QED BY <1>1, <2>1, <3>1 DEF Walking
  <2> QED BY <2>2, <2>3
<1>32. ASSUME SetCheckpoint PROVE Flags' /\ Place'
  BY <1>1, <1>32 DEF SetCheckpoint, WalkTo, practices, world, Walking
<1>33. ASSUME Clear PROVE Flags' /\ Place'
  BY <1>1, <1>33 DEF Clear, EndTick, ClearKeys, world, Walking
<1>3. ASSUME Checkpoint \/ queue_platform \/ file_audit PROVE Flags' /\ Place'
  BY <1>1, <1>3 DEF Checkpoint, queue_platform, file_audit, NotePass, practices, world, Walking
<1>34. ASSUME reset_platform PROVE Flags' /\ Place'
  BY <1>1, <1>34 DEF reset_platform, WalkTo, practices, world, Walking
<1>4. ASSUME _queue PROVE Flags' /\ Place'
  <2>1. /\ UNCHANGED <<now, date, upset>> \/ (EndTick /\ UNCHANGED <<date, upset>>)
        /\ noted' \in BOOLEAN /\ (rest' = rest \/ rest' = {}) /\ (at' = at \/ at' = 0)
        /\ walk' \in {"idle", "report"}
    BY <1>4 DEF _queue, EndTick, NotePass, world
  <2>2. (marker' = marker \/ marker' = audits + 1) /\ (audits' = audits \/ audits' = audits + 1)
    BY <1>4 DEF _queue
  <2> QED BY <1>1, <2>1, <2>2 DEF EndTick, Walking
<1>9. Flags' /\ Place'
  BY <1>3, <1>4, <1>20, <1>21, <1>22, <1>23, <1>24, <1>25, <1>26, <1>27, <1>28, <1>29, <1>30, <1>31, <1>32, <1>33,
     <1>34 DEF AuditsNext, Tick
<1> QED BY <1>9, IssuesKept, ProposalsKept, CheckpointsTyped DEF AuditsInv, AuditsTypeOK

(* The next interval.                                                         *)
LEMMA NextCoveredKept == ASSUME AuditsAssumption, AuditsInv, AuditsNext PROVE NextIsCovered'
<1> DEFINE Settled == "escapes" \in Kinds => filedAt["escapes"] = 0 \/ Ends(filedAt["escapes"])
<1>1. /\ \A e : Ends(e) => Ends(e)'
      /\ filedAt \in [Kinds -> Nat] /\ Settled
      /\ walk = "checkpoint" /\ ThisPass = "escapes" => Ends(now)
  BY IssuesKept DEF AuditsInv, NextIsCovered, AuditsTypeOK
<1>2. CASE Checkpoint
  <2>1. walk' # "checkpoint"
    BY <1>2 DEF Checkpoint
  <2>2. CASE ThisPass = "escapes"
    <3>1. "escapes" \in Kinds => filedAt'["escapes"] = now
      BY <1>1, <1>2, <2>2 DEF Checkpoint, set_maintenance_checkpoint, CheckpointTime
    <3>2. Ends(now)'
      BY <1>1, <1>2, <2>2 DEF Checkpoint, Ends
    <3>3. now' = now
      BY <1>2 DEF Checkpoint
    <3> QED BY <2>1, <3>1, <3>2, <3>3 DEF NextIsCovered, Ends
  <2>3. CASE ThisPass # "escapes"
    <3>1. "escapes" \in Kinds => filedAt'["escapes"] = filedAt["escapes"]
      BY <1>1, <1>2, <2>3 DEF Checkpoint, set_maintenance_checkpoint
    <3> QED BY <1>1, <2>1, <3>1 DEF NextIsCovered, Ends
  <2> QED BY <2>2, <2>3
<1>3. CASE ~Checkpoint
  <2>1. "escapes" \in Kinds => filedAt'["escapes"] = filedAt["escapes"]
    BY <1>1, <1>3 DEF AuditsNext, Tick, sync, SkipPass, queue_maintenance, queue_platform, reset_platform, _queue,
       FileReport, file_audit, Conclude, SetCheckpoint, Clear, RequestFails, ReportFails, TickDies,
       DatePasses, record_shipped, PassDone, GapChanges, checkpoints, set_maintenance_checkpoint, Report
  <2>2. Settled'
    BY <1>1, <2>1 DEF Ends
  <2>3. ASSUME walk' = "checkpoint", ThisPass' = "escapes" PROVE Ends(now)'
    <3>1. CASE queue_maintenance
      <4>1. ThisPass = "escapes" /\ now' = now
        BY <2>3, <3>1 DEF queue_maintenance, WalkTo, ThisPass
      <4>2. PassIssue \in issues' /\ PassIssue.pass = "escapes" /\ PassIssue.to = now
        BY <3>1, <4>1 DEF queue_maintenance, PassIssue, Issue
      <4>3. now \in Nat
        BY DEF AuditsInv, AuditsTypeOK
      <4> QED BY <4>1, <4>2, <4>3 DEF Ends
    <3>2. CASE ~queue_maintenance
      <4>1. walk = "checkpoint" /\ UNCHANGED <<at, now>>
        BY <1>3, <2>3, <3>2 DEF AuditsNext, Tick, sync, SkipPass, queue_platform, reset_platform, _queue, FileReport,
           file_audit, Conclude, SetCheckpoint, Clear, RequestFails, ReportFails, TickDies, DatePasses,
           record_shipped, PassDone, GapChanges, WalkTo, EndTick, ticking, Fileable
      <4> QED BY <1>1, <2>3, <4>1 DEF ThisPass, Ends
    <3> QED BY <3>1, <3>2
  <2> QED BY <2>2, <2>3 DEF NextIsCovered
<1> QED BY <1>2, <1>3

(* One pass in flight.                                                        *)
LEMMA AloneKept == ASSUME AuditsAssumption, AuditsInv, AuditsNext PROVE Alone' /\ KnownToTick'
<1> SUFFICES ASSUME ~upset'
             PROVE  /\ \A i, j \in OpenPasses' : i = j
                    /\ walk' \in {"maintenance", "platform"} /\ ~noted' => OpenPasses' \subseteq books'
  BY DEF Alone, KnownToTick
<1>1. ~upset
  BY DEF AuditsNext, Tick, sync, SkipPass, queue_maintenance, Checkpoint, queue_platform, reset_platform, _queue,
     FileReport, file_audit, Conclude, SetCheckpoint, Clear, RequestFails, ReportFails, TickDies,
     DatePasses, record_shipped, PassDone, GapChanges, AuditsInv, AuditsTypeOK
<1>2. /\ \A i, j \in OpenPasses : i = j
      /\ walk \in {"maintenance", "platform"} /\ ~noted => OpenPasses \subseteq books
  BY <1>1 DEF AuditsInv, Alone, KnownToTick
<1>3. ASSUME walk \in {"maintenance", "platform"}, ~noted, ~_has_open_pass PROVE OpenPasses = {}
  BY <1>2, <1>3 DEF OpenPasses, _has_open_pass
<1>4. CASE sync
  BY <1>1, <1>2, <1>4 DEF sync, OpenPasses, AuditsInv, AuditsTypeOK
<1>5. CASE queue_maintenance
  <2>1. OpenPasses = {} /\ issues' = issues \cup {PassIssue} /\ walk' = "checkpoint"
    BY <1>3, <1>5 DEF queue_maintenance, Fileable, WalkTo
  <2> QED BY <2>1 DEF OpenPasses
<1>6. CASE queue_platform
  <2>1. walk' \in {"practices", "filed"}
    BY <1>6 DEF queue_platform
  <2>2. CASE issues' = issues
    BY <1>2, <2>1, <2>2 DEF OpenPasses
  <2>3. CASE issues' # issues
    <3>1. OpenPasses = {} /\ issues' = issues \cup {Issue("platform", now)}
      BY <1>3, <1>6, <2>3 DEF queue_platform
    <3> QED BY <2>1, <3>1 DEF OpenPasses
  <2> QED BY <2>2, <2>3
<1>7. CASE FileReport \/ ReportFails
  <2>1. walk' \notin {"maintenance", "platform"}
    BY <1>7 DEF FileReport, ReportFails, EndTick
  <2>2. issues' = issues \/ issues' = issues \cup {ReportIssue}
    BY <1>7 DEF FileReport, ReportFails
  <2>3. ReportIssue.pass = Report
    BY DEF ReportIssue, Issue
  <2>4. OpenPasses' = OpenPasses
    BY <2>2, <2>3 DEF OpenPasses
  <2> QED BY <1>2, <2>1, <2>4
<1>8. CASE PassDone
  <2>1. walk' = "idle"
    BY <1>8 DEF PassDone, ticking
  <2>2. OpenPasses' \subseteq OpenPasses
    BY <1>8, ClosingKeeps DEF OpenPasses, AuditsInv
  <2> QED BY <1>2, <2>1, <2>2
<1>9. CASE RequestFails \/ SkipPass \/ Checkpoint
  <2>1. issues' = issues /\ books' = books
    BY <1>1, <1>9 DEF RequestFails, SkipPass, Checkpoint, AuditsInv, AuditsTypeOK
  <2>2. walk' \in {"maintenance", "platform"} /\ ~noted' => walk \in {"maintenance", "platform"} /\ ~noted
    BY <1>9 DEF RequestFails, SkipPass, Checkpoint, WalkTo, NotePass, Fileable
  <2> QED BY <1>2, <2>1, <2>2 DEF OpenPasses
<1>10. CASE reset_platform \/ _queue \/ file_audit \/ Conclude \/ SetCheckpoint \/ Clear \/ TickDies
  <2>1. issues' = issues /\ walk' \notin {"maintenance", "platform"}
    BY <1>10 DEF reset_platform, _queue, file_audit, Conclude, SetCheckpoint, Clear, TickDies, WalkTo, EndTick
  <2> QED BY <1>2, <2>1 DEF OpenPasses
<1>11. CASE DatePasses \/ record_shipped \/ GapChanges
  <2>1. UNCHANGED <<issues, books, walk, noted>>
    BY <1>11 DEF DatePasses, record_shipped, GapChanges, ticking
  <2> QED BY <1>2, <2>1 DEF OpenPasses
<1> QED BY <1>4, <1>5, <1>6, <1>7, <1>8, <1>9, <1>10, <1>11 DEF AuditsNext, Tick

(* One report for a marker.                                                   *)
LEMMA ReportedOnceKept == ASSUME AuditsAssumption, AuditsInv, AuditsNext PROVE AuditFiledOnce'
<1> DEFINE Unique(S) == \A i, j \in S : i.pass = Report /\ j.pass = Report /\ i.from = j.from => i = j
<1>1. Unique(issues) /\ \A p, q \in proposals' : p.check = q.check => p = q
  BY ProposalsKept DEF AuditsInv, AuditFiledOnce
<1>2. CASE FileReport \/ ReportFails
  <2>1. issues' = issues \/ (Reports = {} /\ issues' = issues \cup {ReportIssue})
    BY <1>2 DEF FileReport, ReportFails
  <2>2. ReportIssue.pass = Report /\ ReportIssue.from = marker
    BY DEF ReportIssue, Issue
  <2>3. Unique(issues')
    BY <1>1, <2>1, <2>2 DEF Reports
  <2> QED BY <1>1, <2>3 DEF AuditFiledOnce
<1>3. CASE PassDone
  <2>1. PICK i \in issues :
          i.open /\ issues' = (issues \ {i}) \cup {[i EXCEPT !.open = FALSE, !.since = date]}
    BY <1>3 DEF PassDone
  <2> DEFINE new == [i EXCEPT !.open = FALSE, !.since = date]
  <2>2. new.pass = i.pass /\ new.from = i.from
    BY <2>1 DEF AuditsInv, AuditsTypeOK, Filings
  <2>3. issues' = (issues \ {i}) \cup {new}
    BY <2>1
  <2> HIDE DEF new
  <2>4. Unique(issues')
    BY <1>1, <2>2, <2>3
  <2> QED BY <1>1, <2>4 DEF AuditFiledOnce
<1>4. CASE queue_maintenance \/ RequestFails
  <2>1. ThisPass # Report
    BY <1>4, PassesAreKinds DEF queue_maintenance, RequestFails, Fileable, AuditsInv
  <2>2. PassIssue.pass = ThisPass
    BY DEF PassIssue, Issue
  <2>3. issues' = issues \/ issues' = issues \cup {PassIssue}
    BY <1>4 DEF queue_maintenance, RequestFails
  <2>4. Unique(issues')
    BY <1>1, <2>1, <2>2, <2>3
  <2> QED BY <1>1, <2>4 DEF AuditFiledOnce
<1>5. CASE queue_platform
  <2>1. issues' = issues \/ issues' = issues \cup {Issue("platform", now)}
    BY <1>5 DEF queue_platform
  <2>2. Issue("platform", now).pass # Report
    BY DEF Issue, Report
  <2>3. Unique(issues')
    BY <1>1, <2>1, <2>2
  <2> QED BY <1>1, <2>3 DEF AuditFiledOnce
<1>6. CASE ~(FileReport \/ ReportFails \/ PassDone \/ queue_maintenance \/ RequestFails \/ queue_platform)
  <2>1. issues' = issues
    BY <1>6 DEF AuditsNext, Tick, sync, SkipPass, Checkpoint, reset_platform, _queue, file_audit,
       Conclude, SetCheckpoint, Clear, TickDies, DatePasses, record_shipped, GapChanges
  <2> QED BY <1>1, <2>1 DEF AuditFiledOnce
<1> QED BY <1>2, <1>3, <1>4, <1>5, <1>6

LEMMA InitAuditsInv == ASSUME AuditsAssumption, AuditsInit PROVE AuditsInv
<1>1. AuditsTypeOK
  BY FS_EmptySet DEF AuditsInit, AuditsTypeOK
<1> QED BY <1>1 DEF AuditsInit, AuditsInv, NumberedInOrder, EscapesCovered, NextIsCovered, Alone,
       KnownToTick, OpenPasses, AuditFiledOnce

LEMMA IndAuditsInv == ASSUME AuditsAssumption, AuditsInv, [AuditsNext]_auditVars PROVE AuditsInv'
<1>1. CASE AuditsNext
  BY <1>1, AuditsTyped, IssuesKept, NextCoveredKept, AloneKept, ReportedOnceKept DEF AuditsInv
<1>2. CASE UNCHANGED auditVars
  BY <1>2 DEF auditVars, AuditsInv, AuditsTypeOK, NumberedInOrder, EscapesCovered, NextIsCovered, Ends,
     ThisPass, Alone, KnownToTick, OpenPasses, AuditFiledOnce
<1> QED BY <1>1, <1>2

THEOREM AuditsInvariance == ASSUME AuditsAssumption PROVE AuditsSpec => []AuditsInv
<1>1. AuditsInit => AuditsInv
  BY InitAuditsInv
<1>2. AuditsInv /\ [AuditsNext]_auditVars => AuditsInv'
  BY IndAuditsInv
<1> QED BY <1>1, <1>2, PTL DEF AuditsSpec

(* The escapes passes leave no gap, one pass is in flight while syncs and       *)
(* answers arrive, an audit has one report and a check one proposal.           *)
THEOREM AuditsLeaveNoGap == ASSUME AuditsAssumption PROVE AuditsSpec => []AuditsAreWhole
<1>1. AuditsInv => AuditsAreWhole
  <2> SUFFICES ASSUME AuditsInv, ~upset PROVE Cardinality(OpenPasses) <= 1
    BY DEF AuditsAreWhole, AuditsInv, OnePassInFlight, OpenPasses
  <2>1. \A i, j \in OpenPasses : i = j
    BY DEF AuditsInv, Alone
  <2>2. OpenPasses = {} \/ \E i : OpenPasses = {i}
    BY <2>1
  <2>3. \A i : Cardinality({i}) = 1
    BY FS_Singleton
  <2>4. Cardinality({}) = 0
    BY FS_EmptySet
  <2>5. CASE OpenPasses = {}
    BY <2>4, <2>5
  <2>6. ASSUME NEW i, OpenPasses = {i} PROVE Cardinality(OpenPasses) = 1
    BY <2>3, <2>6
  <2> QED BY <2>2, <2>5, <2>6
<1> QED BY <1>1, AuditsInvariance, PTL

------------------------------------------------------------------------------
(* Parents and the verification of their criteria (Parents).                   *)

BlockersType == [unchecked : SUBSET Criteria, unproved : SUBSET Kids]
Verifiers == [kind : {"first", "follow", "retry"}, of : BlockersType, merge : Nat, number : Nat,
              marked : BOOLEAN, kept : BOOLEAN, open : BOOLEAN, asks : BOOLEAN, closedAt : Nat]
FollowUps == [run : Nat, of : Free, number : Nat, marked : BOOLEAN, kept : BOOLEAN]
Records == [run : Nat, met : SUBSET Free, unmet : SUBSET Free, done : BOOLEAN]
Applying == {"evidence", "followups", "record"}

ParentsTypeOK ==
  /\ fixes \in Nat /\ newest \in Nat /\ verifies \subseteq Verifiers /\ followups \subseteq FollowUps
  /\ watermark \subseteq [of : BlockersType, at : Nat]
  /\ evidence \subseteq Records /\ IsFiniteSet(evidence)

(* At most one verifier is open or waits for an answer of the owner.            *)
Pending(v) == v.open \/ v.asks
OneVerifier == \A v, w \in verifies : Pending(v) /\ Pending(w) => v = w

(* Runs are numbered in the order of their records.                            *)
RunsNumbered ==
  /\ \A r \in evidence : r.run <= Cardinality(evidence)
  /\ \A r, s \in evidence : r.run = s.run => r = s

(* Issues are numbered as they are filed; the merges that verifiers are for      *)
(* happened, blockers have one mark, and it reaches every retry that it records. *)
VerifiersNumbered == /\ \A v \in verifies : v.number <= newest
                     /\ \A v, w \in verifies : v.number = w.number => v = w
FollowUpsNumbered == /\ \A f \in followups : f.number <= newest
                     /\ \A f, g \in followups : f.number = g.number => f = g
Numbered == VerifiersNumbered /\ FollowUpsNumbered
MergesHappened == \A v \in verifies : v.merge <= fixes
OneMark == \A w, x \in watermark : w.of = x.of => w = x
RetriesAreMarked ==
  \A v \in verifies : v.kind = "retry" /\ v.kept => \E w \in watermark : w.of = v.of /\ w.at >= v.merge
ChainInv == OneVerifier /\ RetryNeedsNewMerge /\ MergesHappened /\ OneMark /\ RetriesAreMarked

(* The pass applies the evidence of a run that is there, and records it as done *)
(* when everything of it is posted.                                            *)
IsFiled(run, c) == \E f \in followups : f.run = run /\ f.of = c
RunInHand == step \in Applying => \E r \in evidence : r.run = cur
AllPosted == step = "record" => /\ \E p \in posted : p.run = cur
                                /\ \A r \in evidence : r.run = cur => \A c \in r.unmet : IsFiled(cur, c)

(* What the pass read was vouched for, as is what is ticked now.                *)
ReadIsVouched == seen \subseteq vouched

ParentsInv ==
  /\ ParentsTypeOK /\ Numbered /\ ChainInv
  /\ RunsNumbered /\ RunInHand /\ AllPosted /\ EvidencePostedOnce
  /\ TicksAreVouched /\ ReadIsVouched

LEMMA CurrentInHand ==
  ASSUME ParentsInv, step \in Applying
  PROVE  Current \in evidence /\ Current.run = cur /\ Current \in Records
BY DEF ParentsInv, ParentsTypeOK, RunInHand, Current

(* What the steps say of the blockers they create a verifier for.               *)
LEMMA BlockersTyped == Blockers \in BlockersType
BY DEF Blockers, BlockersType, _parent_checklist

(* A verifier more, none being open or asking and those of its kind forgotten.  *)
LEMMA CreatingKeeps ==
  ASSUME ParentsTypeOK, VerifiersNumbered, OneVerifier, RetryNeedsNewMerge, MergesHappened, Reusable = {},
         NEW kind \in {"first", "follow", "retry"}, NEW b \in BlockersType, NEW merge \in Nat,
         NEW kept \in BOOLEAN, create(kind, b, merge, kept), merge <= fixes, fixes' = fixes,
         \A v \in verifies : v.kind = kind /\ v.of = b /\ v.merge = merge => Forgotten(v)
  PROVE  /\ verifies' \subseteq Verifiers /\ newest' \in Nat /\ VerifiersNumbered'
         /\ OneVerifier' /\ RetryNeedsNewMerge' /\ MergesHappened'
         /\ \A v \in verifies' : v \in verifies \/ (v.kind = kind /\ v.of = b /\ v.kept = kept)
<1> DEFINE new == [kind |-> kind, of |-> b, merge |-> merge, number |-> newest + 1, marked |-> TRUE,
                   kept |-> kept, open |-> TRUE, asks |-> FALSE, closedAt |-> 0]
<1>1. verifies' = verifies \cup {new} /\ newest' = newest + 1
  BY DEF create
<1>2. /\ new \in Verifiers /\ new.kind = kind /\ new.of = b /\ new.merge = merge /\ new.kept = kept
      /\ new.number = newest + 1
  BY DEF Verifiers, ParentsTypeOK
<1> HIDE DEF new
<1>3. \A v \in verifies : ~Pending(v)
  BY DEF Reusable, _verify_reusable, Pending
<1>4. OneVerifier'
  BY <1>1, <1>3 DEF OneVerifier, Pending
<1>5. newest \in Nat /\ \A v \in verifies : v.number \in Nat /\ v.number <= newest
  BY DEF ParentsTypeOK, VerifiersNumbered, Verifiers
<1>6. VerifiersNumbered'
  BY <1>1, <1>2, <1>5 DEF VerifiersNumbered
<1>7. RetryNeedsNewMerge'
  <2> SUFFICES ASSUME NEW v \in verifies', NEW w \in verifies', v.of = w.of, v.kind = w.kind,
                      v.merge = w.merge, v.number < w.number
               PROVE  Forgotten(v)
    BY DEF RetryNeedsNewMerge, Forgotten
  <2>1. v \in verifies
    BY <1>1, <1>2, <1>5
  <2>2. CASE w \in verifies
    BY <2>1, <2>2 DEF RetryNeedsNewMerge
  <2>3. CASE w = new
    BY <1>2, <2>1, <2>3
  <2> QED BY <1>1, <2>2, <2>3
<1>8. MergesHappened'
  BY <1>1, <1>2 DEF MergesHappened
<1>9. verifies' \subseteq Verifiers /\ newest' \in Nat
  BY <1>1, <1>2, <1>5 DEF ParentsTypeOK
<1> QED BY <1>1, <1>2, <1>4, <1>6, <1>7, <1>8, <1>9

(* Verifiers that change keep what they are of; none comes to be pending, and   *)
(* what is forgotten of them stays so.                                         *)
Same(v, w) == v.kind = w.kind /\ v.of = w.of /\ v.merge = w.merge /\ v.number = w.number
LEMMA ChangingKeeps ==
  ASSUME ParentsTypeOK, VerifiersNumbered, OneVerifier, RetryNeedsNewMerge, MergesHappened,
         newest' = newest, fixes' = fixes,
         NEW Was, Was \in [verifies' -> verifies],
         \A v \in verifies' : /\ Same(v, Was[v]) /\ (Pending(v) => Pending(Was[v]))
                              /\ (Forgotten(Was[v]) => Forgotten(v)),
         \A v, w \in verifies' : Was[v] = Was[w] => v = w
  PROVE  VerifiersNumbered' /\ OneVerifier' /\ RetryNeedsNewMerge' /\ MergesHappened'
<1>1. OneVerifier'
  <2> SUFFICES ASSUME NEW v \in verifies', NEW w \in verifies', Pending(v), Pending(w)
               PROVE  v = w
    BY DEF OneVerifier, Pending
  <2> QED BY DEF OneVerifier
<1>2. RetryNeedsNewMerge'
  <2> SUFFICES ASSUME NEW v \in verifies', NEW w \in verifies', v.of = w.of, v.kind = w.kind,
                      v.merge = w.merge, v.number < w.number
               PROVE  Forgotten(v)
    BY DEF RetryNeedsNewMerge, Forgotten
  <2>1. Was[v] \in verifies /\ Was[w] \in verifies
    OBVIOUS
  <2>2. /\ Was[v].of = Was[w].of /\ Was[v].kind = Was[w].kind /\ Was[v].merge = Was[w].merge
        /\ Was[v].number < Was[w].number
    BY DEF Same
  <2>3. Forgotten(Was[v])
    BY <2>1, <2>2 DEF RetryNeedsNewMerge
  <2> QED BY <2>3
<1>3. VerifiersNumbered'
  <2>1. \A v \in verifies' : v.number <= newest
    BY DEF VerifiersNumbered, Same
  <2>2. ASSUME NEW v \in verifies', NEW w \in verifies', v.number = w.number PROVE v = w
    <3>1. Was[v] \in verifies /\ Was[w] \in verifies /\ Was[v].number = Was[w].number
      BY <2>2 DEF Same
    <3> QED BY <3>1 DEF VerifiersNumbered
  <2> QED BY <2>1, <2>2 DEF VerifiersNumbered
<1>4. MergesHappened'
  BY DEF MergesHappened, Same
<1> QED BY <1>1, <1>2, <1>3, <1>4

(* Each verifier changed, or left, on its own.                                 *)
LEMMA EachKeeps ==
  ASSUME ParentsTypeOK, VerifiersNumbered, OneVerifier, RetryNeedsNewMerge, MergesHappened,
         newest' = newest, fixes' = fixes,
         NEW Then, Then \in [verifies -> Verifiers], verifies' = {Then[v] : v \in verifies},
         \A v \in verifies : /\ Same(Then[v], v) /\ (Pending(Then[v]) => Pending(v))
                             /\ (Forgotten(v) => Forgotten(Then[v]))
  PROVE  /\ verifies' \subseteq Verifiers
         /\ VerifiersNumbered' /\ OneVerifier' /\ RetryNeedsNewMerge' /\ MergesHappened'
<1> DEFINE Was == [x \in verifies' |-> CHOOSE v \in verifies : Then[v] = x]
<1>1. \A x \in verifies' : Was[x] \in verifies /\ Then[Was[x]] = x
  OBVIOUS
<1>2. Was \in [verifies' -> verifies]
  BY <1>1
<1> HIDE DEF Was
<1>3. \A x, y \in verifies' : Was[x] = Was[y] => x = y
  BY <1>1
<1>4. \A x \in verifies' : /\ Same(x, Was[x]) /\ (Pending(x) => Pending(Was[x]))
                           /\ (Forgotten(Was[x]) => Forgotten(x))
  BY <1>1
<1>5. VerifiersNumbered' /\ OneVerifier' /\ RetryNeedsNewMerge' /\ MergesHappened'
  BY <1>2, <1>3, <1>4, ChangingKeeps
<1>6. verifies' \subseteq Verifiers
  OBVIOUS
<1> QED BY <1>5, <1>6

LEMMA ReplacingKeeps ==
  ASSUME ParentsTypeOK, VerifiersNumbered, OneVerifier, RetryNeedsNewMerge, MergesHappened,
         newest' = newest, fixes' = fixes, NEW v \in verifies, NEW w \in Verifiers,
         verifies' = At(v, w), Same(w, v), Pending(w) => Pending(v), Forgotten(v) => Forgotten(w)
  PROVE  /\ verifies' \subseteq Verifiers
         /\ VerifiersNumbered' /\ OneVerifier' /\ RetryNeedsNewMerge' /\ MergesHappened'
<1> DEFINE Then == [x \in verifies |-> IF x = v THEN w ELSE x]
<1>1. verifies' = {Then[x] : x \in verifies}
  BY DEF At
<1>2. Then \in [verifies -> Verifiers]
  BY DEF ParentsTypeOK
<1>3. \A x \in verifies : Then[x] = IF x = v THEN w ELSE x
  OBVIOUS
<1> HIDE DEF Then
<1>4. \A x \in verifies : /\ Same(Then[x], x) /\ (Pending(Then[x]) => Pending(x))
                          /\ (Forgotten(x) => Forgotten(Then[x]))
  BY <1>3 DEF Same
<1> QED BY <1>1, <1>2, <1>4, EachKeeps

(* What is found is recorded: it was not forgotten.                            *)
LEMMA KeepingKeeps ==
  ASSUME ParentsTypeOK, VerifiersNumbered, OneVerifier, RetryNeedsNewMerge, MergesHappened,
         fixes' = fixes, NEW found, Keep(found), \A v \in found : ~Forgotten(v)
  PROVE  /\ verifies' \subseteq Verifiers /\ newest' = newest
         /\ VerifiersNumbered' /\ OneVerifier' /\ RetryNeedsNewMerge' /\ MergesHappened'
         /\ \A x \in verifies' : \E v \in verifies : Same(x, v) /\ (x.kept => v.kept \/ v \in found)
<1> DEFINE Then == [v \in verifies |-> [v EXCEPT !.kept = @ \/ v \in found]]
<1>1. verifies' = {Then[v] : v \in verifies} /\ newest' = newest
  BY DEF Keep
<1>2. \A v \in verifies : Then[v] = [v EXCEPT !.kept = v.kept \/ v \in found]
  OBVIOUS
<1>3. \A v \in verifies : Then[v] \in Verifiers
  <2> SUFFICES ASSUME NEW v \in verifies PROVE Then[v] \in Verifiers
    OBVIOUS
  <2>1. v \in Verifiers /\ (v.kept \/ v \in found) \in BOOLEAN
    BY DEF ParentsTypeOK
  <2> QED BY <1>2, <2>1 DEF Verifiers
<1>4. Then \in [verifies -> Verifiers]
  BY <1>3
<1>5. \A v \in verifies :
        /\ Then[v].kind = v.kind /\ Then[v].of = v.of /\ Then[v].merge = v.merge
        /\ Then[v].number = v.number /\ Then[v].marked = v.marked /\ Then[v].open = v.open
        /\ Then[v].asks = v.asks /\ Then[v].kept = (v.kept \/ v \in found)
  BY <1>2 DEF ParentsTypeOK, Verifiers
<1> HIDE DEF Then
<1>6. \A v \in verifies : /\ Same(Then[v], v) /\ (Pending(Then[v]) => Pending(v))
                          /\ (Forgotten(v) => Forgotten(Then[v]))
  BY <1>5 DEF Same, Pending, Forgotten
<1>7. /\ verifies' \subseteq Verifiers
      /\ VerifiersNumbered' /\ OneVerifier' /\ RetryNeedsNewMerge' /\ MergesHappened'
  BY <1>1, <1>4, <1>6, EachKeeps
<1>8. ASSUME NEW x \in verifies'
      PROVE  \E v \in verifies : Same(x, v) /\ (x.kept => v.kept \/ v \in found)
  <2>1. PICK v \in verifies : x = Then[v]
    BY <1>1
  <2>2. Same(x, v) /\ x.kept = (v.kept \/ v \in found)
    BY <1>5, <1>6, <2>1
  <2> QED BY <2>2
<1> QED BY <1>1, <1>7, <1>8

LEMMA ClosedIs ==
  ASSUME ParentsTypeOK, NEW v \in verifies
  PROVE  /\ Closed(v) \in Verifiers /\ Same(Closed(v), v) /\ ~Closed(v).open /\ Closed(v).asks = v.asks
         /\ Closed(v).marked = v.marked /\ Closed(v).kept = v.kept
BY DEF ParentsTypeOK, Closed, Verifiers, Same

(* The mark of the blockers at hand, and a mark that is set.                    *)
LEMMA SinceIs ==
  ASSUME ParentsTypeOK, OneMark, NEW w \in watermark, w.of = Blockers
  PROVE  Marks # {} /\ Since = w.at
<1>1. Marks = {w.at}
  BY DEF Marks, OneMark
<1>2. w.at \in Nat
  BY DEF ParentsTypeOK
<1>3. Max(Marks) = w.at
  BY <1>1, <1>2 DEF Max
<1> QED BY <1>1, <1>3 DEF Since

LEMMA SinceTyped == ASSUME ParentsTypeOK, OneMark, Exhausted PROVE Since \in Nat
<1>1. CASE Marks # {}
  <2>1. PICK w \in watermark : w.of = Blockers
    BY <1>1 DEF Marks
  <2> QED BY <2>1, SinceIs DEF ParentsTypeOK
<1>2. CASE Marks = {}
  <2>1. (CHOOSE v \in Follow : TRUE) \in verifies
    BY DEF Exhausted, Follow
  <2> QED BY <1>2, <2>1 DEF Since, ParentsTypeOK, Verifiers
<1> QED BY <1>1, <1>2

LEMMA MarkingKeeps ==
  ASSUME ParentsTypeOK, OneMark, NEW n \in Nat, Mark(n)
  PROVE  /\ watermark' \subseteq [of : BlockersType, at : Nat] /\ OneMark'
         /\ \A w \in watermark : w.of # Blockers => w \in watermark'
         /\ \E w \in watermark' : w.of = Blockers /\ w.at = n
<1> DEFINE new == [of |-> Blockers, at |-> n]
<1>1. watermark' = {w \in watermark : w.of # Blockers} \cup {new}
  BY DEF Mark
<1>2. new \in [of : BlockersType, at : Nat] /\ new.of = Blockers /\ new.at = n
  BY BlockersTyped
<1> HIDE DEF new
<1> QED BY <1>1, <1>2 DEF OneMark, ParentsTypeOK

Chained == /\ verifies \subseteq Verifiers /\ newest \in Nat
           /\ watermark \subseteq [of : BlockersType, at : Nat]
           /\ VerifiersNumbered /\ ChainInv

(* No attempt for the same merge but a forgotten one: the mark of a recorded    *)
(* one has reached the merge, and the marker of one that has it is found.       *)
LEMMA RetryVerifyKeeps == ASSUME ParentsInv, RetryVerify PROVE Chained'
<1>0. /\ ParentsTypeOK /\ ChainInv /\ VerifiersNumbered /\ fixes \in Nat /\ fixes' = fixes
      /\ Exhausted /\ Reusable = {}
  BY DEF ParentsInv, ParentsTypeOK, Numbered, RetryVerify, Exhausted, NotVerifying, parentHub
<1> USE <1>0 DEF ChainInv
<1>1. ASSUME NEW v \in Retries PROVE ~v.kept
  <2> SUFFICES ASSUME v.kept PROVE FALSE
    OBVIOUS
  <2>1. v \in verifies /\ v.kind = "retry" /\ v.of = Blockers /\ v.merge = fixes
    BY DEF Retries
  <2>2. PICK w \in watermark : w.of = Blockers /\ w.at >= fixes
    BY <2>1 DEF RetriesAreMarked
  <2>3. Since = w.at /\ w.at \in Nat
    BY <2>2, SinceIs DEF ParentsTypeOK
  <2>4. fixes > Since
    BY DEF RetryVerify
  <2> QED BY <2>2, <2>3, <2>4
<1>2. Retried = {} =>
        \A v \in verifies : v.kind = "retry" /\ v.of = Blockers /\ v.merge = fixes => Forgotten(v)
  BY <1>1 DEF Retried, Retries, Forgotten
<1>3. ASSUME Retried = {}, NEW kept \in BOOLEAN, create("retry", Blockers, fixes, kept)
      PROVE  /\ verifies' \subseteq Verifiers /\ newest' \in Nat /\ VerifiersNumbered'
             /\ OneVerifier' /\ RetryNeedsNewMerge' /\ MergesHappened'
             /\ \A v \in verifies' : v \in verifies \/ (v.kind = "retry" /\ v.of = Blockers /\ v.kept = kept)
  <2>1. fixes <= fixes
    OBVIOUS
  <2> QED BY <1>2, <1>3, <2>1, BlockersTyped, CreatingKeeps
<1>4. CASE Mark(fixes)
  <2>1. /\ verifies' \subseteq Verifiers /\ newest' \in Nat /\ VerifiersNumbered'
        /\ OneVerifier' /\ RetryNeedsNewMerge' /\ MergesHappened'
        /\ \A x \in verifies' : x.kind = "retry" /\ x.kept =>
             \/ x.of = Blockers
             \/ \E v \in verifies : v.kind = "retry" /\ v.kept /\ x.of = v.of /\ x.merge = v.merge
    <3>1. CASE Retried = {} /\ create("retry", Blockers, fixes, TRUE)
      BY <1>3, <3>1
    <3>2. CASE Retried = {} /\ create("retry", Blockers, fixes, FALSE)
      BY <1>3, <3>2
    <3>3. CASE Keep(Retried)
      <4>1. \A v \in Retried : ~Forgotten(v) /\ v.of = Blockers
        BY DEF Retried, Retries, Forgotten
      <4>2. /\ verifies' \subseteq Verifiers /\ newest' = newest
            /\ VerifiersNumbered' /\ OneVerifier' /\ RetryNeedsNewMerge' /\ MergesHappened'
            /\ \A x \in verifies' : \E v \in verifies : Same(x, v) /\ (x.kept => v.kept \/ v \in Retried)
        BY <3>3, <4>1, KeepingKeeps
      <4> QED BY <4>1, <4>2 DEF Same, ParentsTypeOK
    <3> QED BY <3>1, <3>2, <3>3 DEF RetryVerify
  <2>2. /\ watermark' \subseteq [of : BlockersType, at : Nat] /\ OneMark'
        /\ \A w \in watermark : w.of # Blockers => w \in watermark'
        /\ \E w \in watermark' : w.of = Blockers /\ w.at = fixes
    BY <1>4, MarkingKeeps
  <2>3. RetriesAreMarked'
    <3> SUFFICES ASSUME NEW x \in verifies', x.kind = "retry", x.kept
                 PROVE  \E w \in watermark' : w.of = x.of /\ w.at >= x.merge
      BY DEF RetriesAreMarked
    <3>1. x.merge <= fixes /\ x.merge \in Nat
      BY <2>1 DEF MergesHappened, Verifiers
    <3>2. CASE x.of = Blockers
      BY <2>2, <3>1, <3>2
    <3>3. CASE x.of # Blockers
      <4>1. PICK v \in verifies : v.kind = "retry" /\ v.kept /\ x.of = v.of /\ x.merge = v.merge
        BY <2>1, <3>3
      <4>2. PICK w \in watermark : w.of = v.of /\ w.at >= v.merge
        BY <4>1 DEF RetriesAreMarked
      <4> QED BY <2>2, <3>3, <4>1, <4>2
    <3> QED BY <3>2, <3>3
  <2> QED BY <2>1, <2>2, <2>3 DEF Chained
<1>5. CASE Retried = {} /\ create("retry", Blockers, fixes, FALSE) /\ watermark' = watermark
  <2>1. /\ verifies' \subseteq Verifiers /\ newest' \in Nat /\ VerifiersNumbered'
        /\ OneVerifier' /\ RetryNeedsNewMerge' /\ MergesHappened'
        /\ \A v \in verifies' : v \in verifies \/ ~v.kept
    BY <1>3, <1>5
  <2>2. RetriesAreMarked'
    BY <1>5, <2>1 DEF RetriesAreMarked
  <2> QED BY <1>5, <2>1, <2>2 DEF Chained, ParentsTypeOK, OneMark
<1> QED BY <1>4, <1>5 DEF RetryVerify

LEMMA DiagnoseKeeps == ASSUME ParentsInv, Diagnose PROVE Chained'
<1>0. /\ ParentsTypeOK /\ ChainInv /\ VerifiersNumbered /\ Exhausted
      /\ UNCHANGED <<verifies, newest, fixes>>
  BY DEF ParentsInv, ParentsTypeOK, Numbered, Diagnose, Exhausted, NotVerifying, parentHub
<1>1. VerifiersNumbered' /\ OneVerifier' /\ RetryNeedsNewMerge' /\ MergesHappened'
      /\ verifies' \subseteq Verifiers /\ newest' \in Nat
  BY <1>0 DEF ChainInv, ParentsTypeOK, VerifiersNumbered, OneVerifier, Pending, RetryNeedsNewMerge,
     Forgotten, MergesHappened
<1>2. CASE watermark' = watermark
  BY <1>0, <1>1, <1>2 DEF Chained, ChainInv, ParentsTypeOK, OneMark, RetriesAreMarked
<1>3. CASE Mark(Since)
  <2>1. /\ watermark' \subseteq [of : BlockersType, at : Nat] /\ OneMark'
        /\ \A w \in watermark : w.of # Blockers => w \in watermark'
        /\ \E w \in watermark' : w.of = Blockers /\ w.at = Since
    BY <1>0, <1>3, SinceTyped, MarkingKeeps DEF ChainInv
  <2>2. RetriesAreMarked'
    <3> SUFFICES ASSUME NEW v \in verifies, v.kind = "retry", v.kept
                 PROVE  \E w \in watermark' : w.of = v.of /\ w.at >= v.merge
      BY <1>0 DEF RetriesAreMarked
    <3>1. PICK w \in watermark : w.of = v.of /\ w.at >= v.merge
      BY <1>0 DEF ChainInv, RetriesAreMarked
    <3>2. w.of = Blockers => Since = w.at
      BY <1>0, SinceIs DEF ChainInv
    <3> QED BY <2>1, <3>1, <3>2
  <2> QED BY <1>1, <2>1, <2>2 DEF Chained, ChainInv
<1> QED BY <1>2, <1>3 DEF Diagnose

(* A step that changes verifiers but makes none recorded leaves retries marked. *)
LEMMA UnmarkedKeeps ==
  ASSUME ParentsTypeOK, ChainInv, watermark' = watermark,
         \A x \in verifies' : x.kind = "retry" /\ x.kept =>
            \E v \in verifies : v.kind = "retry" /\ v.kept /\ x.of = v.of /\ x.merge = v.merge
  PROVE  watermark' \subseteq [of : BlockersType, at : Nat] /\ OneMark' /\ RetriesAreMarked'
<1>1. RetriesAreMarked'
  <2> SUFFICES ASSUME NEW x \in verifies', x.kind = "retry", x.kept
               PROVE  \E w \in watermark : w.of = x.of /\ w.at >= x.merge
    BY DEF RetriesAreMarked
  <2>1. PICK v \in verifies : v.kind = "retry" /\ v.kept /\ x.of = v.of /\ x.merge = v.merge
    OBVIOUS
  <2> QED BY <2>1 DEF ChainInv, RetriesAreMarked
<1> QED BY <1>1 DEF ParentsTypeOK, ChainInv, OneMark

LEMMA VerifiersKept == ASSUME ParentsInv, ParentsNext PROVE Chained'
<1>0. /\ ParentsTypeOK /\ VerifiersNumbered /\ ChainInv /\ fixes \in Nat /\ newest \in Nat
      /\ OneVerifier /\ RetryNeedsNewMerge /\ MergesHappened
  BY DEF ParentsInv, ParentsTypeOK, Numbered, ChainInv
<1>1. CASE FirstVerify
  <2>1. /\ create("first", Blockers, 0, TRUE) /\ verifies = {} /\ Reusable = {}
        /\ fixes' = fixes /\ watermark' = watermark
    BY <1>1 DEF FirstVerify, Reusable, NotVerifying, parentHub
  <2>2. 0 <= fixes /\ 0 \in Nat /\ TRUE \in BOOLEAN
    BY <1>0
  <2>3. /\ verifies' \subseteq Verifiers /\ newest' \in Nat /\ VerifiersNumbered'
        /\ OneVerifier' /\ RetryNeedsNewMerge' /\ MergesHappened'
        /\ \A v \in verifies' : v \in verifies \/ v.kind = "first"
    BY <1>0, <2>1, <2>2, BlockersTyped, CreatingKeeps
  <2> QED BY <1>0, <2>1, <2>3, UnmarkedKeeps DEF Chained, ChainInv
<1>2. CASE FollowVerify
  <2>1. PICK kept \in BOOLEAN : create("follow", Blockers, 0, kept)
    BY <1>2 DEF FollowVerify
  <2>2. Reusable = {} /\ Follow = {} /\ fixes' = fixes /\ watermark' = watermark
    BY <1>2 DEF FollowVerify, NotVerifying, parentHub
  <2>3. \A v \in verifies : v.kind = "follow" /\ v.of = Blockers /\ v.merge = 0 => Forgotten(v)
    BY <2>2 DEF Follow, Forgotten
  <2>4. 0 <= fixes /\ 0 \in Nat
    BY <1>0
  <2>5. /\ verifies' \subseteq Verifiers /\ newest' \in Nat /\ VerifiersNumbered'
        /\ OneVerifier' /\ RetryNeedsNewMerge' /\ MergesHappened'
        /\ \A v \in verifies' : v \in verifies \/ v.kind = "follow"
    BY <1>0, <2>1, <2>2, <2>3, <2>4, BlockersTyped, CreatingKeeps
  <2> QED BY <1>0, <2>2, <2>5, UnmarkedKeeps DEF Chained, ChainInv
<1>3. CASE KeepFollow
  <2>1. Keep(Follow) /\ fixes' = fixes /\ watermark' = watermark
    BY <1>3 DEF KeepFollow, NotVerifying, parentHub
  <2>2. \A v \in Follow : ~Forgotten(v) /\ v.kind = "follow"
    BY DEF Follow, Forgotten
  <2>3. /\ verifies' \subseteq Verifiers /\ newest' = newest
        /\ VerifiersNumbered' /\ OneVerifier' /\ RetryNeedsNewMerge' /\ MergesHappened'
        /\ \A x \in verifies' : \E v \in verifies : Same(x, v) /\ (x.kept => v.kept \/ v \in Follow)
    BY <1>0, <2>1, <2>2, KeepingKeeps
  <2>4. \A x \in verifies' : x.kind = "retry" /\ x.kept =>
            \E v \in verifies : v.kind = "retry" /\ v.kept /\ x.of = v.of /\ x.merge = v.merge
    BY <2>2, <2>3 DEF Same
  <2> QED BY <1>0, <2>1, <2>3, <2>4, UnmarkedKeeps DEF Chained, ChainInv
<1>4. CASE RetryVerify
  BY <1>4, RetryVerifyKeeps
<1>5. CASE Diagnose
  BY <1>5, DiagnoseKeeps
<1>6. CASE ReviewClaim /\ verifies' # verifies
  <2> DEFINE Then == [v \in verifies |-> IF v.open THEN Closed(v) ELSE v]
  <2>1. verifies' = {Then[v] : v \in verifies} /\ UNCHANGED <<newest, fixes, watermark>>
    BY <1>6 DEF ReviewClaim, parentHub
  <2>2. \A v \in verifies : Then[v] = IF v.open THEN Closed(v) ELSE v
    OBVIOUS
  <2> HIDE DEF Then
  <2>3. \A v \in verifies :
          /\ Then[v] \in Verifiers /\ Same(Then[v], v) /\ (Pending(Then[v]) => Pending(v))
          /\ Then[v].marked = v.marked /\ Then[v].kept = v.kept
    BY <1>0, <2>2, ClosedIs DEF ParentsTypeOK, Pending, Same
  <2>4. Then \in [verifies -> Verifiers]
    <3>1. \A v \in verifies : (IF v.open THEN Closed(v) ELSE v) \in Verifiers
      BY <2>2, <2>3
    <3> QED BY <3>1 DEF Then
  <2>5. /\ verifies' \subseteq Verifiers
        /\ VerifiersNumbered' /\ OneVerifier' /\ RetryNeedsNewMerge' /\ MergesHappened'
    BY <1>0, <2>1, <2>3, <2>4, EachKeeps DEF Forgotten
  <2>6. \A x \in verifies' : x.kind = "retry" /\ x.kept =>
            \E v \in verifies : v.kind = "retry" /\ v.kept /\ x.of = v.of /\ x.merge = v.merge
    BY <2>1, <2>3 DEF Same
  <2> QED BY <1>0, <2>1, <2>5, <2>6, UnmarkedKeeps DEF Chained, ChainInv
<1>7. ASSUME NEW v \in verifies, NEW w \in Verifiers, verifies' = At(v, w), Same(w, v),
             Pending(w) => Pending(v), ~w.marked \/ v.marked, w.kept = v.kept,
             UNCHANGED <<newest, fixes, watermark>>
      PROVE  Chained'
  <2>1. Forgotten(v) => Forgotten(w)
    BY <1>7 DEF Forgotten
  <2>2. /\ verifies' \subseteq Verifiers
        /\ VerifiersNumbered' /\ OneVerifier' /\ RetryNeedsNewMerge' /\ MergesHappened'
    BY <1>0, <1>7, <2>1, ReplacingKeeps
  <2>3. \A x \in verifies' : x.kind = "retry" /\ x.kept =>
            \E y \in verifies : y.kind = "retry" /\ y.kept /\ x.of = y.of /\ x.merge = y.merge
    BY <1>7 DEF At, Same
  <2> QED BY <1>0, <1>7, <2>2, <2>3, UnmarkedKeeps DEF Chained, ChainInv
<1>8. CASE VerifyCloses
  <2>1. PICK v \in verifies, asks \in BOOLEAN :
          v.open /\ verifies' = At(v, [Closed(v) EXCEPT !.asks = asks])
    BY <1>8 DEF VerifyCloses
  <2> DEFINE w == [Closed(v) EXCEPT !.asks = asks]
  <2>2. w \in Verifiers /\ Same(w, v) /\ w.marked = v.marked /\ w.kept = v.kept
    BY <1>0, ClosedIs DEF Verifiers, Same
  <2>3. verifies' = At(v, w) /\ Pending(v) /\ UNCHANGED <<newest, fixes, watermark>>
    BY <1>8, <2>1 DEF Pending, VerifyCloses, parentHub
  <2> HIDE DEF w
  <2> QED BY <1>7, <2>2, <2>3
<1>9. CASE OwnerSettles
  <2>1. PICK v \in verifies : v.asks /\ verifies' = At(v, [v EXCEPT !.asks = FALSE])
    BY <1>9 DEF OwnerSettles
  <2> DEFINE w == [v EXCEPT !.asks = FALSE]
  <2>2. w \in Verifiers /\ Same(w, v) /\ w.marked = v.marked /\ w.kept = v.kept
    BY <1>0 DEF Verifiers, ParentsTypeOK, Same
  <2>3. verifies' = At(v, w) /\ Pending(v) /\ UNCHANGED <<newest, fixes, watermark>>
    BY <1>9, <2>1 DEF Pending, OwnerSettles, parentHub
  <2> HIDE DEF w
  <2> QED BY <1>7, <2>2, <2>3
<1>10. CASE Sorted /\ verifies' # verifies
  <2>1. PICK v \in verifies : v.open /\ verifies' = At(v, [v EXCEPT !.marked = FALSE])
    BY <1>10 DEF Sorted
  <2> DEFINE w == [v EXCEPT !.marked = FALSE]
  <2>2. w \in Verifiers /\ Same(w, v) /\ ~w.marked /\ w.kept = v.kept
    BY <1>0 DEF Verifiers, ParentsTypeOK, Same
  <2>3. verifies' = At(v, w) /\ Pending(v) /\ UNCHANGED <<newest, fixes, watermark>>
    BY <1>10, <2>1 DEF Pending, Sorted, parentHub
  <2> HIDE DEF w
  <2> QED BY <1>7, <2>2, <2>3
<1>11. CASE UNCHANGED <<verifies, watermark>> /\ newest' \in {newest, newest + 1} /\ fixes' \in {fixes, fixes + 1}
  <2>1. \A v \in verifies : v.number \in Nat /\ v.merge \in Nat
    BY <1>0 DEF ParentsTypeOK, Verifiers
  <2>2. newest' \in Nat /\ VerifiersNumbered' /\ MergesHappened'
    BY <1>0, <1>11, <2>1 DEF VerifiersNumbered, MergesHappened
  <2> QED BY <1>0, <1>11, <2>2 DEF Chained, ChainInv, ParentsTypeOK, OneVerifier, Pending, OneMark,
          RetriesAreMarked, RetryNeedsNewMerge, Forgotten
<1>12. CASE ~(FirstVerify \/ FollowVerify \/ KeepFollow \/ RetryVerify \/ Diagnose \/ VerifyCloses \/ OwnerSettles)
            /\ verifies' = verifies
  <2>1. UNCHANGED watermark /\ newest' \in {newest, newest + 1} /\ fixes' \in {fixes, fixes + 1}
    BY <1>12 DEF ParentsNext, ParentsPass, post_parent_evidence, TickMet, FileFollowup, PostEvidence,
       RecordDone, Scan, TickMerged, Waits, HumanWaits, QuietPassed, AllDone, CloseIssue, Complete,
       ReuseVerify, SyncClosed, KidMoves, OwnerTicks, FixMerges, Day, ReviewClaim, Sorted,
       _parent_evidence_recorded, RunSavesWork, PassCut, NotVerifying, parentHub, chain, idle
  <2> QED BY <1>11, <1>12, <2>1
<1>13. CASE ~(FirstVerify \/ FollowVerify \/ KeepFollow \/ RetryVerify \/ Diagnose \/ ReviewClaim
              \/ VerifyCloses \/ OwnerSettles \/ Sorted)
  <2>1. verifies' = verifies
    BY <1>13 DEF ParentsNext, ParentsPass, post_parent_evidence, TickMet, FileFollowup, PostEvidence,
       RecordDone, Scan, TickMerged, Waits, HumanWaits, QuietPassed, AllDone, CloseIssue, Complete,
       ReuseVerify, SyncClosed, KidMoves, OwnerTicks, FixMerges, Day,
       _parent_evidence_recorded, RunSavesWork, PassCut, chain, idle
  <2> QED BY <1>12, <1>13, <2>1
<1> QED BY <1>1, <1>2, <1>3, <1>4, <1>5, <1>6, <1>8, <1>9, <1>10, <1>12, <1>13

(* The records of evidence: a run adds one, a pass marks one done.              *)
LEMMA EvidenceKept ==
  ASSUME ParentsInv, ParentsNext
  PROVE  evidence' \subseteq Records /\ IsFiniteSet(evidence') /\ RunsNumbered'
<1>0. /\ evidence \subseteq Records /\ IsFiniteSet(evidence) /\ RunsNumbered
      /\ Cardinality(evidence) \in Nat
  BY FS_CardinalityType DEF ParentsInv, ParentsTypeOK
<1>1. CASE _parent_evidence_recorded
  <2>1. PICK met \in SUBSET Free :
          evidence' = evidence \cup {[run |-> Runs + 1, met |-> met, unmet |-> Free \ met, done |-> FALSE]}
    BY <1>1 DEF _parent_evidence_recorded
  <2> DEFINE new == [run |-> Runs + 1, met |-> met, unmet |-> Free \ met, done |-> FALSE]
             n == Cardinality(evidence)
  <2>2. new \in Records /\ new.run = n + 1 /\ n \in Nat
    BY <1>0 DEF Runs, Records
  <2>3. evidence' = evidence \cup {new}
    BY <2>1
  <2> HIDE DEF new
  <2>4. \A r \in evidence : r.run \in Nat /\ r.run <= n
    BY <1>0 DEF RunsNumbered, Records
  <2> HIDE DEF n
  <2>5. new \notin evidence
    BY <2>2, <2>4
  <2>6. IsFiniteSet(evidence') /\ Cardinality(evidence') = n + 1
    BY <1>0, <2>3, <2>5, FS_AddElement DEF n
  <2>7. \A r \in evidence' : r.run <= Cardinality(evidence')
    BY <2>2, <2>3, <2>4, <2>6
  <2>8. \A r, s \in evidence' : r.run = s.run => r = s
    BY <1>0, <2>2, <2>3, <2>4 DEF RunsNumbered
  <2> QED BY <1>0, <2>2, <2>3, <2>6, <2>7, <2>8 DEF RunsNumbered
<1>2. CASE RecordDone
  <2> DEFINE r == Current
             new == [r EXCEPT !.done = TRUE]
  <2>1. r \in evidence /\ r \in Records /\ evidence' = (evidence \ {r}) \cup {new}
    BY <1>2, CurrentInHand DEF RecordDone, Applying
  <2> HIDE DEF r
  <2>2. new \in Records /\ new.run = r.run
    BY <2>1 DEF Records
  <2> HIDE DEF new
  <2>3. new \notin evidence \ {r}
    BY <1>0, <2>1, <2>2 DEF RunsNumbered
  <2>4. IsFiniteSet(evidence \ {r}) /\ Cardinality(evidence \ {r}) = Cardinality(evidence) - 1
    BY <1>0, <2>1, FS_RemoveElement
  <2>5. IsFiniteSet(evidence') /\ Cardinality(evidence') = Cardinality(evidence \ {r}) + 1
    BY <2>1, <2>3, <2>4, FS_AddElement
  <2>6. Cardinality(evidence') = Cardinality(evidence)
    BY <1>0, <2>4, <2>5
  <2>7. RunsNumbered'
    BY <1>0, <2>1, <2>2, <2>6 DEF RunsNumbered
  <2> QED BY <1>0, <2>1, <2>2, <2>5, <2>7
<1>3. CASE ~(_parent_evidence_recorded \/ RecordDone)
  <2>1. evidence' = evidence
    BY <1>3 DEF ParentsNext, ParentsPass, post_parent_evidence, TickMet, FileFollowup, PostEvidence,
       Scan, TickMerged, Waits, HumanWaits, QuietPassed, AllDone, CloseIssue, Complete, ReuseVerify,
       FirstVerify, FollowVerify, KeepFollow, RetryVerify, Diagnose, NotVerifying, SyncClosed, KidMoves, OwnerTicks,
       FixMerges, Day, RunSavesWork, ReviewClaim, VerifyCloses, OwnerSettles, Sorted, PassCut, papers
  <2> QED BY <1>0, <2>1 DEF RunsNumbered
<1> QED BY <1>1, <1>2, <1>3

LEMMA EvidenceSteps ==
  ASSUME ParentsInv, ParentsNext
  PROVE  /\ \A r \in evidence : \E s \in evidence' : s.run = r.run
         /\ \A s \in evidence' :
              \/ \E r \in evidence : /\ s.run = r.run /\ s.unmet = r.unmet
                                     /\ (s.done => r.done \/ (step = "record" /\ s.run = cur))
              \/ ~s.done /\ \A r \in evidence : r.run # s.run
<1>1. CASE _parent_evidence_recorded
  <2>1. PICK met \in SUBSET Free :
          evidence' = evidence \cup {[run |-> Runs + 1, met |-> met, unmet |-> Free \ met, done |-> FALSE]}
    BY <1>1 DEF _parent_evidence_recorded
  <2> DEFINE new == [run |-> Runs + 1, met |-> met, unmet |-> Free \ met, done |-> FALSE]
  <2>2. new.run = Cardinality(evidence) + 1 /\ ~new.done /\ Cardinality(evidence) \in Nat
    BY FS_CardinalityType DEF Runs, ParentsInv, ParentsTypeOK
  <2>3. evidence' = evidence \cup {new}
    BY <2>1
  <2> HIDE DEF new
  <2>4. \A r \in evidence : r.run \in Nat /\ r.run <= Cardinality(evidence)
    BY DEF ParentsInv, ParentsTypeOK, RunsNumbered, Records
  <2>5. \A r \in evidence : r.run # new.run
    BY <2>2, <2>4
  <2> QED BY <2>2, <2>3, <2>5
<1>2. CASE RecordDone
  <2> DEFINE r == Current
             new == [r EXCEPT !.done = TRUE]
  <2>1. /\ r \in evidence /\ r \in Records /\ evidence' = (evidence \ {r}) \cup {new} /\ r.run = cur
        /\ step = "record"
    BY <1>2, CurrentInHand DEF RecordDone, Applying
  <2> HIDE DEF r
  <2>2. new.run = r.run /\ new.unmet = r.unmet
    BY <2>1 DEF Records
  <2> HIDE DEF new
  <2> QED BY <2>1, <2>2
<1>3. CASE ~(_parent_evidence_recorded \/ RecordDone)
  <2>1. evidence' = evidence
    BY <1>3 DEF ParentsNext, ParentsPass, post_parent_evidence, TickMet, FileFollowup, PostEvidence,
       Scan, TickMerged, Waits, HumanWaits, QuietPassed, AllDone, CloseIssue, Complete, ReuseVerify,
       FirstVerify, FollowVerify, KeepFollow, RetryVerify, Diagnose, SyncClosed, KidMoves, OwnerTicks, FixMerges, Day,
       RunSavesWork, ReviewClaim, VerifyCloses, OwnerSettles, Sorted, PassCut, NotVerifying, papers
  <2> QED BY <2>1
<1> QED BY <1>1, <1>2, <1>3

(* Follow-ups and comments are added, one of a kind but for those forgotten.    *)
FollowUpsOnce == \A f, g \in followups : f.run = g.run /\ f.of = g.of /\ f.number < g.number => Forgotten(f)

(* Follow-ups that change keep what they are of, and stay forgotten.            *)
LEMMA FollowUpsChange ==
  ASSUME ParentsTypeOK, FollowUpsNumbered, FollowUpsOnce, newest' = newest,
         NEW Then, Then \in [followups -> FollowUps], followups' = {Then[f] : f \in followups},
         \A f \in followups : /\ Then[f].run = f.run /\ Then[f].of = f.of /\ Then[f].number = f.number
                              /\ (Forgotten(f) => Forgotten(Then[f]))
  PROVE  /\ followups' \subseteq FollowUps /\ FollowUpsNumbered' /\ FollowUpsOnce'
         /\ \A run, c : IsFiled(run, c) => IsFiled(run, c)'
<1>1. \A x \in followups' : \E f \in followups : x = Then[f]
  OBVIOUS
<1>2. FollowUpsNumbered'
  <2>1. \A x \in followups' : x.number <= newest
    BY <1>1 DEF FollowUpsNumbered
  <2>2. ASSUME NEW x \in followups', NEW y \in followups', x.number = y.number PROVE x = y
    <3>1. PICK f \in followups, g \in followups : x = Then[f] /\ y = Then[g]
      BY <1>1
    <3>2. f.number = g.number
      BY <2>2, <3>1
    <3> QED BY <3>1, <3>2 DEF FollowUpsNumbered
  <2> QED BY <2>1, <2>2 DEF FollowUpsNumbered
<1>3. FollowUpsOnce'
  <2> SUFFICES ASSUME NEW x \in followups', NEW y \in followups', x.run = y.run, x.of = y.of,
                      x.number < y.number
               PROVE  Forgotten(x)
    BY DEF FollowUpsOnce, Forgotten
  <2>1. PICK f \in followups, g \in followups : x = Then[f] /\ y = Then[g]
    BY <1>1
  <2>2. f.run = g.run /\ f.of = g.of /\ f.number < g.number
    BY <2>1
  <2>3. Forgotten(f)
    BY <2>2 DEF FollowUpsOnce
  <2> QED BY <2>1, <2>3
<1>4. \A run, c : IsFiled(run, c) => IsFiled(run, c)'
  BY DEF IsFiled
<1>5. followups' \subseteq FollowUps
  OBVIOUS
<1> QED BY <1>2, <1>3, <1>4, <1>5

LEMMA FollowUpsKept ==
  ASSUME ParentsInv, ParentsNext
  PROVE  /\ followups' \subseteq FollowUps /\ FollowUpsNumbered' /\ FollowUpsOnce'
         /\ \A run, c : IsFiled(run, c) => IsFiled(run, c)'
<1>0. ParentsTypeOK /\ FollowUpsNumbered /\ FollowUpsOnce /\ newest \in Nat
  BY DEF ParentsInv, ParentsTypeOK, Numbered, EvidencePostedOnce, FollowUpsOnce
<1>1. CASE FileFollowup
  <2>1. PICK c \in NextUnmet :
          \/ /\ Filed(Current, c) # {} /\ newest' = newest
             /\ followups' = {[f EXCEPT !.kept = @ \/ f \in Filed(Current, c)] : f \in followups}
          \/ /\ Filed(Current, c) = {} /\ newest' = newest + 1
             /\ \E kept \in BOOLEAN :
                  followups' = followups \cup {[run |-> cur, of |-> c, number |-> newest + 1,
                                                marked |-> TRUE, kept |-> kept]}
    BY <1>1 DEF FileFollowup
  <2>2. Current.run = cur /\ cur \in Nat /\ c \in Free
    <3>1. Current.run = cur /\ Current \in Records
      BY <1>1, CurrentInHand DEF FileFollowup, Applying
    <3> QED BY <3>1 DEF Records, NextUnmet
  <2>3. CASE /\ newest' = newest
             /\ followups' = {[f EXCEPT !.kept = @ \/ f \in Filed(Current, c)] : f \in followups}
    <3> DEFINE Then == [f \in followups |-> [f EXCEPT !.kept = @ \/ f \in Filed(Current, c)]]
    <3>1. followups' = {Then[f] : f \in followups}
      BY <2>3
    <3>2. \A f \in followups : Then[f] = [f EXCEPT !.kept = f.kept \/ f \in Filed(Current, c)]
      OBVIOUS
    <3>3. \A f \in followups : f \in FollowUps /\ Then[f] \in FollowUps
      BY <1>0, <3>2 DEF ParentsTypeOK, FollowUps
    <3>4. Then \in [followups -> FollowUps]
      BY <3>3
    <3>5. \A f \in followups :
            /\ Then[f].run = f.run /\ Then[f].of = f.of /\ Then[f].number = f.number
            /\ Then[f].marked = f.marked /\ Then[f].kept = (f.kept \/ f \in Filed(Current, c))
      BY <3>2, <3>3 DEF FollowUps
    <3> HIDE DEF Then
    <3>6. \A f \in followups : Forgotten(f) => Forgotten(Then[f])
      BY <3>5 DEF Forgotten, Filed
    <3> QED BY <1>0, <2>3, <3>1, <3>4, <3>5, <3>6, FollowUpsChange
  <2>4. ASSUME Filed(Current, c) = {}, newest' = newest + 1, NEW kept \in BOOLEAN,
               followups' = followups \cup {[run |-> cur, of |-> c, number |-> newest + 1,
                                             marked |-> TRUE, kept |-> kept]}
        PROVE  /\ followups' \subseteq FollowUps /\ FollowUpsNumbered' /\ FollowUpsOnce'
               /\ \A run, d : IsFiled(run, d) => IsFiled(run, d)'
    <3> DEFINE new == [run |-> cur, of |-> c, number |-> newest + 1, marked |-> TRUE, kept |-> kept]
    <3>1. new \in FollowUps /\ new.run = cur /\ new.of = c /\ new.number = newest + 1
      BY <1>0, <2>2 DEF FollowUps
    <3>2. followups' = followups \cup {new}
      BY <2>4
    <3> HIDE DEF new
    <3>3. \A f \in followups : f.number \in Nat /\ f.number <= newest
      BY <1>0 DEF ParentsTypeOK, FollowUpsNumbered, FollowUps
    <3>4. FollowUpsNumbered'
      BY <1>0, <2>4, <3>1, <3>2, <3>3 DEF FollowUpsNumbered
    <3>5. \A f \in followups : f.run = cur /\ f.of = c => Forgotten(f)
      <4> SUFFICES ASSUME NEW f \in followups, f.run = cur, f.of = c PROVE ~f.marked /\ ~f.kept
        BY DEF Forgotten
      <4>1. ~f.marked
        BY <2>2, <2>4 DEF Filed
      <4>2. ~f.kept
        BY DEF NextUnmet
      <4> QED BY <4>1, <4>2
    <3>6. FollowUpsOnce'
      <4> SUFFICES ASSUME NEW f \in followups', NEW g \in followups', f.run = g.run, f.of = g.of,
                          f.number < g.number
                   PROVE  Forgotten(f)
        BY DEF FollowUpsOnce, Forgotten
      <4>1. f \in followups
        BY <1>0, <3>1, <3>2, <3>3
      <4>2. CASE g \in followups
        BY <1>0, <4>1, <4>2 DEF FollowUpsOnce
      <4>3. CASE g = new
        BY <3>1, <3>5, <4>1, <4>3
      <4> QED BY <3>2, <4>2, <4>3
    <3> QED BY <1>0, <3>1, <3>2, <3>4, <3>6 DEF ParentsTypeOK, IsFiled
  <2> QED BY <2>1, <2>3, <2>4
<1>2. CASE Sorted /\ followups' # followups
  <2>1. PICK f \in followups : followups' = (followups \ {f}) \cup {[f EXCEPT !.marked = FALSE]}
    BY <1>2 DEF Sorted
  <2>2. newest' = newest
    BY <1>2 DEF Sorted
  <2> DEFINE new == [f EXCEPT !.marked = FALSE]
             Then == [x \in followups |-> IF x = f THEN new ELSE x]
  <2>3. new \in FollowUps /\ new.run = f.run /\ new.of = f.of /\ new.number = f.number
        /\ ~new.marked /\ new.kept = f.kept
    BY <1>0 DEF ParentsTypeOK, FollowUps
  <2>4. followups' = {Then[x] : x \in followups}
    BY <2>1
  <2> HIDE DEF new
  <2>5. Then \in [followups -> FollowUps]
    BY <1>0, <2>3 DEF ParentsTypeOK
  <2>6. \A x \in followups : Then[x] = IF x = f THEN new ELSE x
    OBVIOUS
  <2> HIDE DEF Then
  <2>7. \A x \in followups : /\ Then[x].run = x.run /\ Then[x].of = x.of /\ Then[x].number = x.number
                             /\ (Forgotten(x) => Forgotten(Then[x]))
    BY <2>3, <2>6 DEF Forgotten
  <2> QED BY <1>0, <2>2, <2>4, <2>5, <2>7, FollowUpsChange
<1>3. CASE followups' = followups
  <2>1. newest' \in {newest, newest + 1}
    BY DEF ParentsNext, ParentsPass, post_parent_evidence, TickMet, FileFollowup, PostEvidence, RecordDone,
       Scan, TickMerged, Waits, HumanWaits, QuietPassed, AllDone, CloseIssue, Complete, ReuseVerify,
       FirstVerify, FollowVerify, KeepFollow, RetryVerify, Diagnose, create, Keep, SyncClosed, KidMoves,
       OwnerTicks, FixMerges, Day, _parent_evidence_recorded, RunSavesWork, ReviewClaim, VerifyCloses,
       OwnerSettles, Sorted, PassCut, chain, idle
  <2>2. \A f \in followups : f.number \in Nat
    BY <1>0 DEF ParentsTypeOK, FollowUps
  <2>3. FollowUpsNumbered'
    BY <1>0, <1>3, <2>1, <2>2 DEF FollowUpsNumbered
  <2> QED BY <1>0, <1>3, <2>3 DEF ParentsTypeOK, FollowUpsOnce, Forgotten, IsFiled
<1>4. CASE ~(FileFollowup \/ Sorted)
  <2>1. followups' = followups
    BY <1>4 DEF ParentsNext, ParentsPass, post_parent_evidence, TickMet, PostEvidence, RecordDone, Scan,
       TickMerged, Waits, HumanWaits, QuietPassed, AllDone, CloseIssue, Complete, ReuseVerify, FirstVerify,
       FollowVerify, KeepFollow, RetryVerify, Diagnose, SyncClosed, KidMoves, OwnerTicks, FixMerges, Day,
       _parent_evidence_recorded, RunSavesWork, ReviewClaim, VerifyCloses, OwnerSettles, PassCut,
       NotVerifying, papers
  <2> QED BY <1>3, <2>1
<1> QED BY <1>1, <1>2, <1>3, <1>4

LEMMA PapersGrow ==
  ASSUME ParentsInv, ParentsNext
  PROVE  /\ \A run, c : IsFiled(run, c) => IsFiled(run, c)'
         /\ posted \subseteq posted' /\ FollowUpsOnce'
         /\ \A p, q \in posted' : p.run = q.run => p = q
<1>0. \A p, q \in posted : p.run = q.run => p = q
  BY DEF ParentsInv, EvidencePostedOnce
<1>1. CASE PostEvidence
  <2> DEFINE new == [run |-> cur, copy |-> Cardinality(posted)]
  <2>1. posted' = posted \/ ((~\E p \in posted : p.run = cur) /\ posted' = posted \cup {new})
    BY <1>1 DEF PostEvidence
  <2>2. new.run = cur
    OBVIOUS
  <2> HIDE DEF new
  <2> QED BY <1>0, <2>1, <2>2, FollowUpsKept
<1>2. CASE ~PostEvidence
  <2>1. UNCHANGED posted
    BY <1>2 DEF ParentsNext, ParentsPass, post_parent_evidence, TickMet, FileFollowup, RecordDone, Scan,
       TickMerged, Waits, HumanWaits, QuietPassed, AllDone, CloseIssue, Complete, ReuseVerify, FirstVerify,
       FollowVerify, KeepFollow, RetryVerify, Diagnose, SyncClosed, KidMoves, OwnerTicks, FixMerges, Day,
       _parent_evidence_recorded, RunSavesWork, ReviewClaim, VerifyCloses, OwnerSettles, Sorted, PassCut,
       NotVerifying, papers
  <2> QED BY <1>0, <2>1, FollowUpsKept
<1> QED BY <1>1, <1>2

LEMMA EvidenceInHand == ASSUME ParentsInv, ParentsNext PROVE RunInHand' /\ AllPosted'
<1>1. CASE post_parent_evidence
  <2>1. step' = "evidence" /\ evidence' = evidence /\ \E r \in evidence : cur' = r.run
    BY <1>1 DEF post_parent_evidence, papers, Applicable
  <2> QED BY <2>1 DEF RunInHand, AllPosted
<1>2. CASE PostEvidence
  <2> DEFINE new == [run |-> cur, copy |-> Cardinality(posted)]
  <2>0. /\ step = "followups" /\ step' = "record" /\ cur' = cur /\ NextUnmet = {}
        /\ UNCHANGED <<evidence, followups>>
        /\ ((\E p \in posted : p.run = cur) /\ posted' = posted) \/ posted' = posted \cup {new}
    BY <1>2 DEF PostEvidence, StepTo
  <2>1. /\ step = "followups" /\ step' = "record" /\ cur' = cur /\ NextUnmet = {}
        /\ UNCHANGED <<evidence, followups>> /\ \E p \in posted' : p.run = cur
    <3>1. new.run = cur
      OBVIOUS
    <3> HIDE DEF new
    <3> QED BY <2>0, <3>1
  <2>2. Current \in evidence /\ Current.run = cur
    BY <2>1, CurrentInHand DEF Applying
  <2>3. \A r \in evidence : r.run = cur => r = Current
    BY <2>2 DEF ParentsInv, RunsNumbered
  <2>4. \A c \in Current.unmet : IsFiled(cur, c)
    <3> SUFFICES ASSUME NEW c \in Current.unmet PROVE IsFiled(cur, c)
      OBVIOUS
    <3> QED BY <2>1 DEF NextUnmet, IsFiled
  <2> QED BY <2>1, <2>2, <2>3, <2>4 DEF RunInHand, AllPosted, IsFiled
<1>3. CASE ~(post_parent_evidence \/ PostEvidence)
  <2>1. step' \in Applying => step \in Applying /\ cur' = cur /\ (step' = "record" => step = "record")
    BY <1>3 DEF ParentsNext, ParentsPass, TickMet, FileFollowup, RecordDone, Scan, TickMerged, Waits,
       HumanWaits, QuietPassed, AllDone, CloseIssue, Complete, ReuseVerify, FirstVerify, FollowVerify, KeepFollow,
       RetryVerify, Diagnose, SyncClosed, KidMoves, OwnerTicks, FixMerges, Day, _parent_evidence_recorded,
       RunSavesWork, ReviewClaim, VerifyCloses, OwnerSettles, Sorted, PassCut, NotVerifying, Verifying, idle,
       state, StepTo, Stop, Applying
  <2>2. RunInHand /\ AllPosted
    BY DEF ParentsInv
  <2>3. RunInHand'
    BY <2>1, <2>2, EvidenceSteps DEF RunInHand
  <2>4. AllPosted'
    <3> SUFFICES ASSUME step' = "record"
                 PROVE  /\ \E p \in posted' : p.run = cur
                        /\ \A s \in evidence' : s.run = cur => \A c \in s.unmet : IsFiled(cur, c)'
      BY <2>1 DEF AllPosted, Applying, IsFiled
    <3>1. step = "record" /\ \E r \in evidence : r.run = cur
      BY <2>1, <2>2 DEF RunInHand, Applying
    <3>2. \E p \in posted' : p.run = cur
      BY <2>2, <3>1, PapersGrow DEF AllPosted
    <3>3. ASSUME NEW s \in evidence', s.run = cur, NEW c \in s.unmet PROVE IsFiled(cur, c)'
      <4>1. PICK r \in evidence : s.run = r.run /\ s.unmet = r.unmet
        BY <3>1, <3>3, EvidenceSteps
      <4>2. IsFiled(cur, c)
        BY <2>2, <3>1, <3>3, <4>1 DEF AllPosted
      <4>3. cur' = cur
        BY <2>1 DEF Applying
      <4> QED BY <4>2, <4>3, PapersGrow
    <3> QED BY <3>2, <3>3
  <2> QED BY <2>3, <2>4
<1> QED BY <1>1, <1>2, <1>3

LEMMA PostedOnceKept == ASSUME ParentsInv, ParentsNext PROVE EvidencePostedOnce'
<1>1. ASSUME NEW s \in evidence', s.done
      PROVE  (\E p \in posted' : p.run = s.run) /\ \A c \in s.unmet : IsFiled(s.run, c)'
  <2>1. PICK r \in evidence : /\ s.run = r.run /\ s.unmet = r.unmet
                              /\ r.done \/ (step = "record" /\ s.run = cur)
    BY <1>1, EvidenceSteps
  <2>2. (\E p \in posted : p.run = s.run) /\ \A c \in s.unmet : IsFiled(s.run, c)
    BY <2>1 DEF ParentsInv, AllPosted, EvidencePostedOnce, IsFiled
  <2> QED BY <2>2, PapersGrow
<1> QED BY <1>1, PapersGrow DEF EvidencePostedOnce, FollowUpsOnce, Forgotten, IsFiled

(* Ticks: what a pass adds is vouched for in the same step, and what it read    *)
(* was when it read it.                                                       *)
LEMMA TicksKept == ASSUME ParentsInv, ParentsNext PROVE TicksAreVouched' /\ ReadIsVouched'
<1>1. checked \subseteq vouched /\ seen \subseteq vouched
  BY DEF ParentsInv, TicksAreVouched, ReadIsVouched
<1>2. CASE TickMet
  BY <1>1, <1>2 DEF TickMet, StepTo, TicksAreVouched, ReadIsVouched
<1>3. CASE TickMerged
  BY <1>1, <1>3 DEF TickMerged, StepTo, Completed, TicksAreVouched, ReadIsVouched
<1>4. CASE OwnerTicks
  BY <1>1, <1>4 DEF OwnerTicks, idle, TicksAreVouched, ReadIsVouched
<1>5. CASE ~(TickMet \/ TickMerged \/ OwnerTicks)
  <2>1. UNCHANGED <<checked, vouched>>
    BY <1>5 DEF ParentsNext, ParentsPass, post_parent_evidence, FileFollowup, PostEvidence, RecordDone,
       Scan, Waits, HumanWaits, QuietPassed, AllDone, CloseIssue, Complete, ReuseVerify, FirstVerify,
       FollowVerify, KeepFollow, RetryVerify, Diagnose, SyncClosed, KidMoves, FixMerges, Day,
       _parent_evidence_recorded, RunSavesWork, ReviewClaim, VerifyCloses, OwnerSettles, Sorted, PassCut,
       NotVerifying
  <2>2. seen' \in {seen, checked, {}}
    BY <1>5 DEF ParentsNext, ParentsPass, post_parent_evidence, FileFollowup, PostEvidence, RecordDone,
       Scan, Waits, HumanWaits, QuietPassed, AllDone, CloseIssue, Complete, ReuseVerify, FirstVerify,
       FollowVerify, KeepFollow, RetryVerify, Diagnose, SyncClosed, KidMoves, FixMerges, Day,
       _parent_evidence_recorded, RunSavesWork, ReviewClaim, VerifyCloses, OwnerSettles, Sorted, PassCut,
       NotVerifying, idle, StepTo, Stop
  <2> QED BY <1>1, <2>1, <2>2 DEF TicksAreVouched, ReadIsVouched
<1> QED BY <1>2, <1>3, <1>4, <1>5

LEMMA FixesCounted == ASSUME ParentsTypeOK, ParentsNext PROVE fixes' \in Nat
<1>1. fixes' \in {fixes, fixes + 1}
  BY DEF ParentsNext, ParentsPass, post_parent_evidence, TickMet, FileFollowup, PostEvidence,
     RecordDone, Scan, TickMerged, Waits, HumanWaits, QuietPassed, AllDone, CloseIssue, Complete,
     ReuseVerify, FirstVerify, FollowVerify, KeepFollow, RetryVerify, Diagnose, SyncClosed, KidMoves,
     OwnerTicks, FixMerges, Day, _parent_evidence_recorded, RunSavesWork, ReviewClaim, VerifyCloses,
     OwnerSettles, Sorted, PassCut, NotVerifying, parentHub
<1> QED BY <1>1 DEF ParentsTypeOK

LEMMA InitParentsInv == ASSUME ParentsInit PROVE ParentsInv
<1>1. ParentsTypeOK /\ RunsNumbered
  BY FS_EmptySet DEF ParentsInit, ParentsTypeOK, RunsNumbered
<1>2. Numbered /\ ChainInv
  BY DEF ParentsInit, Numbered, VerifiersNumbered, FollowUpsNumbered, ChainInv, OneVerifier,
     RetryNeedsNewMerge, MergesHappened, OneMark, RetriesAreMarked
<1> QED BY <1>1, <1>2 DEF ParentsInit, ParentsInv, RunInHand, Applying, AllPosted, EvidencePostedOnce,
        TicksAreVouched, ReadIsVouched

LEMMA IndParentsInv == ASSUME ParentsInv, [ParentsNext]_parentVars PROVE ParentsInv'
<1>1. CASE ParentsNext
  <2>1. ParentsTypeOK'
    BY <1>1, VerifiersKept, EvidenceKept, FollowUpsKept, FixesCounted DEF Chained, ParentsInv, ParentsTypeOK
  <2>2. Numbered' /\ ChainInv'
    BY <1>1, VerifiersKept, FollowUpsKept DEF Chained, Numbered
  <2> QED BY <1>1, <2>1, <2>2, EvidenceKept, EvidenceInHand, PostedOnceKept, TicksKept DEF ParentsInv
<1>2. CASE UNCHANGED parentVars
  <2>1. ParentsTypeOK' /\ Numbered' /\ ChainInv'
    BY <1>2 DEF parentVars, ParentsInv, ParentsTypeOK, Numbered, VerifiersNumbered, FollowUpsNumbered,
       ChainInv, OneVerifier, Pending, RetryNeedsNewMerge, Forgotten, MergesHappened, OneMark,
       RetriesAreMarked
  <2>2. RunsNumbered' /\ RunInHand' /\ AllPosted' /\ EvidencePostedOnce'
    BY <1>2 DEF parentVars, ParentsInv, RunsNumbered, IsFiled, RunInHand, AllPosted, EvidencePostedOnce,
       Forgotten
  <2> QED BY <1>2, <2>1, <2>2 DEF parentVars, ParentsInv, TicksAreVouched, ReadIsVouched
<1> QED BY <1>1, <1>2

(* What the records say of one another, at every step of the pass.             *)
THEOREM ParentsInvariance == ParentsSpec => []ParentsInv
<1>1. ParentsInit => ParentsInv
  BY InitParentsInv
<1>2. ParentsInv /\ [ParentsNext]_parentVars => ParentsInv'
  BY IndParentsInv
<1> QED BY <1>1, <1>2, PTL DEF ParentsSpec

(* One verifier of a parent at a time and no retry without a new merge, the     *)
(* evidence of a run posted once and in full, every ticked box answered for,    *)
(* wherever a pass is cut off and whatever the owner does in between.           *)
THEOREM VerificationHolds == ParentsSpec => []VerificationIsSound
<1>1. ParentsInv => VerificationIsSound
  <2> SUFFICES ASSUME ParentsInv PROVE OneVerifierAtATime
    BY DEF ParentsInv, ChainInv, VerificationIsSound
  <2> DEFINE waiting == {v \in verifies : v.open \/ v.asks}
  <2>1. \A v, w \in waiting : v = w
    BY DEF ParentsInv, ChainInv, OneVerifier, Pending
  <2>2. waiting = {} \/ \E v : waiting = {v}
    BY <2>1
  <2> HIDE DEF waiting
  <2>3. ASSUME waiting = {} PROVE Cardinality(waiting) = 0
    BY <2>3, FS_EmptySet
  <2>4. ASSUME NEW v, waiting = {v} PROVE Cardinality(waiting) = 1
    <3>1. Cardinality({v}) = 1
      BY FS_Singleton
    <3> QED BY <2>4, <3>1
  <2>5. Cardinality(waiting) <= 1
    BY <2>2, <2>3, <2>4
  <2> QED BY <2>5 DEF OneVerifierAtATime, waiting
<1> QED BY <1>1, ParentsInvariance, PTL
===============================================================================
