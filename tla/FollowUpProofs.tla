---------------------------- MODULE FollowUpProofs ----------------------------
(* Proofs about what the daemon comes back to: PostMerge, for every finite set  *)
(* of merges, any issues they ship, every policy and any number of faults; and  *)
(* Waits, for every set of causes, every backoff and limit, any number of       *)
(* changes and cut-off passes, and for all time.                               *)
EXTENDS PostMerge, Waits, FiniteSetTheorems, SequenceTheorems, TLAPS

RowType == {NoCheck} \cup [phase : Phases, status : {"pending", "PASS", "FAIL"},
                          cause : Causes \cup {"none", "paused_expired"}]
Stages == {"idle", "row", "deliver", "advance", "remediate", "note", "file", "save", "open", "streak",
           "revert", "done"}
JobType == [at : Stages, m : Merges \cup {0}, row : RowType, bug : Nat, saved : BOOLEAN, repeated : BOOLEAN]
KeyType == {<<>>} \cup Phases \X (Causes \cup {"none", "paused_expired"})
KvType ==
  [rem : SUBSET Merges, bugOf : [Merges -> Nat], open : [Phases \X Causes -> Nat], counted : SUBSET Merges,
   streak : [count : Nat, key : KeyType], paused : BOOLEAN, alert : {"none", "pending", "sent"},
   revert : SUBSET Nat, posted : SUBSET Merges]
BugType == [merge : Merges, key : KeyType, open : BOOLEAN, notes : SUBSET Merges]
HubType == [bugs : Seq(BugType), reverts : Seq(Nat), evidence : [Merges -> {0, 1}]]

(* What a job names, what the ledger counts, what GitHub was told.            *)
JobOK(j) == j \in JobType /\ (j.at # "idle" => j.m \in Merges /\ j.row.phase \in Phases)
KvOK(k) == k \in KvType /\ k.streak.count <= Cardinality(k.counted)
HubOK(h) == h \in HubType /\ \A b, c \in DOMAIN h.bugs : h.bugs[b].merge = h.bugs[c].merge => b = c

(* A bug is filed by a job that found none for its merge, and nobody else      *)
(* files one meanwhile.                                                       *)
FilingOK == job.at = "file" => Marked(job.m) = {}

(* A failure has a phase and a cause that the open bugs are kept under, unless  *)
(* a resume settled it: then it is remediated, and stays so.                   *)
Reportable(row, m, remediated) == m \in remediated \/ (row.phase \in Phases /\ row.cause \in Causes)
Failed(j) == j.row.status = "FAIL" \/ j.at = "remediate"
CausesOK ==
  /\ \A m \in Merges : check[m].status = "FAIL" => Reportable(check[m], m, kv.rem)
  /\ Failed(job) => Reportable(job.row, job.m, kv.rem)

IInv ==
  /\ JobOK(job) /\ KvOK(kv) /\ HubOK(hub)
  /\ check \in [Merges -> RowType] /\ uat \in [Issues -> Nat]
  /\ FilingOK /\ CausesOK

------------------------------------------------------------------------------
(* What most steps do: nothing is filed and nobody begins to file.            *)
HubStays ==
  /\ HubOK(hub')
  /\ DOMAIN hub'.bugs = DOMAIN hub.bugs
  /\ \A b \in DOMAIN hub.bugs : hub'.bugs[b].merge = hub.bugs[b].merge
RowsStay ==
  /\ check' \in [Merges -> RowType] /\ uat' \in [Issues -> Nat]
  /\ kv.rem \subseteq kv'.rem
  /\ \A m \in Merges : check'[m].status = "FAIL" => check'[m] = check[m] \/ Reportable(check'[m], m, kv'.rem)
JobMoves ==
  /\ JobOK(job')
  /\ job'.at # "file" \/ job' = job
  /\ Failed(job') => \/ Failed(job) /\ job'.row = job.row /\ job'.m = job.m
                     \/ Reportable(job'.row, job'.m, kv.rem)
Ordinary == JobMoves /\ KvOK(kv') /\ HubStays /\ RowsStay

LEMMA OrdinaryKeeps == ASSUME IInv, Ordinary PROVE IInv'
<1> USE DEF IInv, Ordinary, HubStays, RowsStay, JobMoves
<1>1. FilingOK'
  BY DEF FilingOK, Marked, Bugs
<1>2. JobOK(job)' /\ KvOK(kv)' /\ HubOK(hub)'
  BY DEF JobOK, KvOK, HubOK
<1>3. CausesOK'
  <2>1. ASSUME NEW m \in Merges, check'[m].status = "FAIL" PROVE Reportable(check'[m], m, kv'.rem)
    <3>1. CASE check'[m] = check[m]
      BY <2>1, <3>1 DEF CausesOK, Reportable
    <3> QED BY <2>1, <3>1
  <2>2. ASSUME Failed(job') PROVE Reportable(job'.row, job'.m, kv'.rem)
    BY <2>2 DEF CausesOK, Reportable
  <2> QED BY <2>1, <2>2 DEF CausesOK, Reportable, Failed
<1> QED BY <1>1, <1>2, <1>3

(* The job.                                                                   *)
LEMMA Idles == ASSUME Done PROVE JobMoves
BY DEF Done, JobMoves, JobOK, NoJob, NoCheck, JobType, Stages, RowType, Failed

LEMMA JobStays == ASSUME IInv, UNCHANGED job PROVE JobMoves
BY DEF IInv, JobMoves, Failed

LEMMA JobGoes ==
  ASSUME IInv, job.at # "idle", NEW at \in Stages \ {"file"}, Go(at), at = "remediate" => job.row.status = "FAIL"
  PROVE  JobMoves
BY DEF IInv, Go, JobMoves, JobOK, JobType, Failed

LEMMA Fails ==
  ASSUME IInv, NEW m \in Merges, m = job.m, job.at # "idle", NEW c \in Causes, FailWith(m, job.row, c), UNCHANGED uat
  PROVE  JobMoves /\ RowsStay
<1>1. UNCHANGED kv
  BY DEF FailWith
<1>2. /\ check' \in [Merges -> RowType]
      /\ \A n \in Merges : check'[n].status = "FAIL" => check'[n] = check[n] \/ Reportable(check'[n], n, kv.rem)
  <2>1. CASE UNCHANGED check
    BY <2>1 DEF IInv
  <2>2. CASE Pending(m) /\ check' = [check EXCEPT ![m].status = "FAIL", ![m].cause = c]
    <3>1. check[m].phase \in Phases /\ check[m] \in RowType
      BY <2>2 DEF Pending, IInv, RowType, NoCheck
    <3> DEFINE r == [check[m] EXCEPT !.status = "FAIL", !.cause = c]
    <3>2. r \in RowType /\ r.phase \in Phases /\ r.cause \in Causes
      BY <3>1 DEF RowType, NoCheck
    <3>3. check' = [check EXCEPT ![m] = r]
      BY <2>2
    <3> HIDE DEF r
    <3> QED BY <3>2, <3>3 DEF IInv, Reportable
  <2> QED BY <2>1, <2>2 DEF FailWith, Current
<1>3. RowsStay
  BY <1>1, <1>2 DEF RowsStay, IInv
<1>4. PICK r \in RowType : /\ job' = [job EXCEPT !.at = "remediate", !.row = r]
                           /\ r.phase \in Phases /\ Reportable(r, m, kv.rem)
  <2>1. CASE check'[m].status = "FAIL"
    <3>1. check'[m] \in RowType /\ check'[m].phase \in Phases
      BY <1>2, <2>1 DEF RowType, NoCheck
    <3>2. Reportable(check'[m], m, kv.rem)
      BY <1>2, <2>1 DEF IInv, CausesOK
    <3> QED BY <2>1, <3>1, <3>2 DEF FailWith
  <2>2. CASE check'[m].status # "FAIL"
    <3>1. job.row \in RowType /\ job.row.phase \in Phases
      BY DEF IInv, JobOK, JobType
    <3>2. /\ [job.row EXCEPT !.cause = c] \in RowType
          /\ [job.row EXCEPT !.cause = c].phase \in Phases
          /\ [job.row EXCEPT !.cause = c].cause = c
      BY <3>1 DEF RowType, NoCheck, Phases, Causes
    <3> QED BY <2>2, <3>2 DEF FailWith, Reportable
  <2> QED BY <2>1, <2>2
<1>5. "remediate" \in Stages
  BY DEF Stages
<1>6. JobMoves
  <2>1. job' \in JobType /\ job'.at = "remediate" /\ job'.row = r /\ job'.m = m
    BY <1>4, <1>5 DEF IInv, JobOK, JobType
  <2> QED BY <1>4, <2>1 DEF JobMoves, JobOK, Failed
<1> QED BY <1>3, <1>6

(* The ledger's keys.                                                         *)
LEMMA KvStays == ASSUME IInv, UNCHANGED kv PROVE KvOK(kv')
BY DEF IInv

LEMMA StreakEnds == ASSUME IInv, kv' = [kv EXCEPT !.streak = NoStreak] PROVE KvOK(kv')
<1>1. IsFiniteSet(kv.counted)
  BY PostMergeAssumption, FS_Subset DEF IInv, KvOK, KvType
<1>2. Cardinality(kv.counted) \in Nat
  BY <1>1, FS_CardinalityType
<1>3. kv' \in KvType /\ kv'.counted = kv.counted /\ kv'.streak.count = 0
  BY DEF IInv, KvOK, KvType, NoStreak, KeyType
<1> QED BY <1>2, <1>3 DEF KvOK

(* The ledger's rows and GitHub's side.                                       *)
LEMMA RowsSame == ASSUME IInv, UNCHANGED <<check, uat>>, kv.rem \subseteq kv'.rem PROVE RowsStay
BY DEF IInv, RowsStay

LEMMA HubSame == ASSUME IInv, UNCHANGED hub PROVE HubStays
BY DEF IInv, HubStays

LEMMA BugEdited ==
  ASSUME IInv, NEW b \in DOMAIN hub.bugs, NEW e \in BugType, e.merge = hub.bugs[b].merge,
         hub' = [hub EXCEPT !.bugs = [hub.bugs EXCEPT ![b] = e]]
  PROVE  HubStays
<1> USE DEF IInv
<1>1. hub.bugs \in Seq(BugType)
  BY DEF HubOK, HubType
<1>2. b \in 1..Len(hub.bugs)
  BY <1>1
<1>3. /\ [hub.bugs EXCEPT ![b] = e] \in Seq(BugType)
      /\ DOMAIN [hub.bugs EXCEPT ![b] = e] = DOMAIN hub.bugs
      /\ \A c \in DOMAIN hub.bugs : [hub.bugs EXCEPT ![b] = e][c] = IF c = b THEN e ELSE hub.bugs[c]
  BY <1>1, <1>2, ExceptSeq
<1>4. hub' \in HubType /\ hub'.bugs = [hub.bugs EXCEPT ![b] = e]
  BY <1>3 DEF HubOK, HubType
<1> QED BY <1>3, <1>4 DEF HubStays, HubOK

------------------------------------------------------------------------------
(* Shipping, the environment, the deadlines, the owner.                       *)
LEMMA WorldKeeps ==
  ASSUME IInv, NEW m \in Merges,
         Ships(m) \/ Deployed(m) \/ DeadlinePasses(m) \/ WorkerEnds(m) \/ RegisterAgain(m)
  PROVE  IInv'
<1>1. UNCHANGED <<job, kv, hub>>
  BY DEF Ships, Deployed, DeadlinePasses, WorkerEnds, RegisterAgain
<1>2. RowsStay
  <2>1. CASE UNCHANGED <<check, uat>>
    BY <1>1, <2>1, RowsSame
  <2>2. CASE create_post_merge_check(m) \/ UNCHANGED check
    <3> DEFINE r == [phase |-> "deploy", status |-> "pending", cause |-> "none"]
    <3>1. r \in RowType /\ r.status # "FAIL"
      BY DEF RowType, Phases, Causes
    <3>2. UNCHANGED check \/ check' = [check EXCEPT ![m] = r]
      BY <2>2 DEF create_post_merge_check
    <3> HIDE DEF r
    <3>3. uat' \in [Issues -> Nat]
      <4>1. m \in Nat
        BY PostMergeAssumption DEF PostMergeAssumption
      <4> QED BY <4>1 DEF IInv, Ships, Deployed, DeadlinePasses, WorkerEnds, RegisterAgain
    <3> QED BY <1>1, <3>1, <3>2, <3>3 DEF IInv, RowsStay
  <2> QED BY <2>1, <2>2 DEF Ships, Deployed, DeadlinePasses, WorkerEnds, RegisterAgain
<1> QED BY <1>1, <1>2, JobStays, KvStays, HubSame, OrdinaryKeeps DEF Ordinary

LEMMA OwnerKeeps == ASSUME IInv, NEW b \in Bugs, OwnerCloses(b) PROVE IInv'
<1>1. hub.bugs[b] \in BugType /\ b \in DOMAIN hub.bugs
  BY DEF IInv, HubOK, HubType, Bugs
<1> DEFINE e == [hub.bugs[b] EXCEPT !.open = FALSE]
<1>2. e \in BugType /\ e.merge = hub.bugs[b].merge
  BY <1>1 DEF BugType
<1>3. hub' = [hub EXCEPT !.bugs = [hub.bugs EXCEPT ![b] = e]]
  BY DEF OwnerCloses
<1>4. HubStays
  BY <1>1, <1>2, <1>3, BugEdited
<1> QED BY <1>4, JobStays, KvStays, RowsSame, OrdinaryKeeps DEF OwnerCloses, Ordinary

(* The pause: a resume settles overdue rows and forgets the streak.            *)
LEMMA ResumeKeeps == ASSUME IInv, ManualResume \/ Reprobe PROVE IInv'
<1>1. resume /\ UNCHANGED <<uat, hub, job>>
  BY DEF ManualResume, Reprobe
<1>2. /\ Overdue \subseteq Merges
      /\ \A m \in Overdue : check[m] \in RowType /\ check[m].phase \in Phases
  BY DEF Overdue, Pending, IInv, RowType, NoCheck
<1>3. kv' = [kv EXCEPT !.paused = FALSE, !.alert = "none", !.streak = NoStreak, !.rem = kv.rem \cup Overdue]
  BY <1>1 DEF resume
<1>4. \A m \in Merges : check'[m] = IF m \in Overdue
                                    THEN [check[m] EXCEPT !.status = "FAIL", !.cause = "paused_expired"]
                                    ELSE check[m]
  BY <1>1 DEF resume
<1>5. check' = [m \in Merges |-> check'[m]]
  BY <1>1 DEF resume
<1> HIDE DEF Overdue
<1>6. KvOK(kv') /\ kv'.rem = kv.rem \cup Overdue
  <2>1. IsFiniteSet(kv.counted) /\ Cardinality(kv.counted) \in Nat
    BY PostMergeAssumption, FS_Subset, FS_CardinalityType DEF IInv, KvOK, KvType
  <2>2. kv' \in KvType /\ kv'.counted = kv.counted /\ kv'.streak.count = 0 /\ kv'.rem = kv.rem \cup Overdue
    BY <1>2, <1>3 DEF IInv, KvOK, KvType, NoStreak, KeyType
  <2> QED BY <2>1, <2>2 DEF KvOK
<1>7. \A m \in Merges : check'[m] \in RowType
  <2>1. ASSUME NEW m \in Overdue PROVE [check[m] EXCEPT !.status = "FAIL", !.cause = "paused_expired"] \in RowType
    <3>1. PICK r : r = check[m] /\ r \in RowType /\ r.phase \in Phases
      BY <1>2
    <3>2. [r EXCEPT !.status = "FAIL", !.cause = "paused_expired"] \in RowType
      BY <3>1 DEF RowType, NoCheck, Phases, Causes
    <3> QED BY <3>1, <3>2
  <2> QED BY <1>4, <2>1 DEF IInv
<1>8. RowsStay
  <2>1. check' \in [Merges -> RowType]
    BY <1>5, <1>7
  <2>2. \A m \in Merges : check'[m] = check[m] \/ Reportable(check'[m], m, kv'.rem)
    BY <1>4, <1>6 DEF Reportable
  <2> QED BY <1>1, <1>6, <2>1, <2>2 DEF RowsStay, IInv
<1> QED BY <1>1, <1>6, <1>8, JobStays, HubSame, OrdinaryKeeps DEF Ordinary

LEMMA AlertKeeps == ASSUME IInv, Alert PROVE IInv'
<1>1. KvOK(kv') /\ kv'.rem = kv.rem
  BY DEF Alert, IInv, KvOK, KvType
<1> QED BY <1>1, JobStays, HubSame, RowsSame, OrdinaryKeeps DEF Alert, Ordinary

LEMMA CrashKeeps == ASSUME IInv, Crash PROVE IInv'
BY Idles, KvStays, HubSame, RowsSame, OrdinaryKeeps DEF Crash, Ordinary

------------------------------------------------------------------------------
(* The tick takes a row and advances it.                                      *)
LEMMA TakesRowKeeps == ASSUME IInv, NEW m \in Merges, TakesRow(m) PROVE IInv'
<1>1. JobMoves
  <2>1. check[m] \in RowType /\ check[m].phase \in Phases
    BY DEF IInv, TakesRow, Pending, RowType, NoCheck
  <2>2. job' = [at |-> "row", m |-> m, row |-> check[m], bug |-> 0, saved |-> FALSE, repeated |-> FALSE]
    BY DEF TakesRow, NoJob
  <2>3. check[m].status = "FAIL" => Reportable(check[m], m, kv.rem)
    BY DEF IInv, CausesOK
  <2> QED BY <2>1, <2>2, <2>3 DEF JobMoves, JobOK, JobType, Stages, Failed
<1> QED BY <1>1, KvStays, HubSame, RowsSame, OrdinaryKeeps DEF TakesRow, Ordinary

LEMMA AtWork == ASSUME IInv, job.at # "idle" PROVE job.m \in Merges
BY DEF IInv, JobOK

LEMMA RowKeeps == ASSUME IInv, Row PROVE IInv'
<1>1. JobMoves
  <2>1. Dispatch \in Stages \ {"file"} /\ (Dispatch = "remediate" => job.row.status = "FAIL")
    BY DEF Dispatch, Stages
  <2> QED BY <2>1, Idles, JobGoes DEF Row
<1> QED BY <1>1, KvStays, HubSame, RowsSame, OrdinaryKeeps DEF Row, Ordinary

(* A row that is not failed is written over in place.                         *)
LEMMA PhaseSet ==
  ASSUME IInv, NEW m \in Merges, NEW row, NEW phase \in Phases, ToPhase(m, row, phase), UNCHANGED uat
  PROVE  RowsStay /\ KvOK(kv')
<1>1. UNCHANGED kv
  BY DEF ToPhase
<1>2. CASE UNCHANGED check
  BY <1>1, <1>2, KvStays, RowsSame
<1>3. CASE Pending(m) /\ check' = [check EXCEPT ![m].phase = phase]
  <2> DEFINE r == [check[m] EXCEPT !.phase = phase]
  <2>1. check[m] \in RowType /\ check[m].status = "pending"
    BY <1>3 DEF IInv, Pending
  <2>2. r \in RowType /\ r.status # "FAIL"
    BY <2>1 DEF RowType, NoCheck
  <2>3. check' = [check EXCEPT ![m] = r]
    BY <1>3
  <2> HIDE DEF r
  <2> QED BY <1>1, <2>2, <2>3, KvStays DEF IInv, RowsStay
<1> QED BY <1>2, <1>3 DEF ToPhase, Current

LEMMA Passes ==
  ASSUME IInv, NEW m \in Merges, NEW row, Pass(m, row), UNCHANGED uat
  PROVE  RowsStay /\ KvOK(kv')
<1>1. CASE UNCHANGED <<check, kv>>
  BY <1>1, KvStays, RowsSame
<1>2. CASE Pending(m) /\ check' = [check EXCEPT ![m].status = "PASS"] /\ kv' = [kv EXCEPT !.streak = NoStreak]
  <2> DEFINE r == [check[m] EXCEPT !.status = "PASS"]
  <2>1. check[m] \in RowType /\ check[m].status = "pending"
    BY <1>2 DEF IInv, Pending
  <2>2. r \in RowType /\ r.status # "FAIL"
    BY <2>1 DEF RowType, NoCheck
  <2>3. check' = [check EXCEPT ![m] = r]
    BY <1>2
  <2>4. kv'.rem = kv.rem
    BY <1>2 DEF IInv, KvOK, KvType
  <2> HIDE DEF r
  <2> QED BY <1>2, <2>2, <2>3, <2>4, StreakEnds DEF IInv, RowsStay
<1> QED BY <1>1, <1>2 DEF Pass, Current

LEMMA FailKeeps ==
  ASSUME IInv, NEW c \in Causes, job.at = "advance", FailWith(job.m, job.row, c), UNCHANGED <<uat, hub>>
  PROVE  IInv'
<1>1. JobMoves /\ RowsStay
  BY AtWork, Fails
<1>2. UNCHANGED kv
  BY DEF FailWith
<1> QED BY <1>1, <1>2, KvStays, HubSame, OrdinaryKeeps DEF Ordinary

LEMMA AdvanceKeeps ==
  ASSUME IInv, Timeout \/ Watch \/ Observe \/ Prove \/ Launch \/ SmokeDisabled \/ Poll
  PROVE  IInv'
<1>1. job.at = "advance" /\ job.m \in Merges /\ UNCHANGED <<uat, hub>>
  BY AtWork DEF Timeout, Watch, Observe, Prove, Launch, SmokeDisabled, Poll
<1>2. CASE \E c \in Causes : FailWith(job.m, job.row, c)
  BY <1>1, <1>2, FailKeeps
<1>3. CASE Done /\ (UNCHANGED <<check, kv>> \/ Pass(job.m, job.row)
                    \/ \E phase \in Phases : ToPhase(job.m, job.row, phase))
  <2>1. RowsStay /\ KvOK(kv')
    BY <1>1, <1>3, PhaseSet, Passes, KvStays, RowsSame
  <2> QED BY <1>1, <1>3, <2>1, Idles, HubSame, OrdinaryKeeps DEF Ordinary
<1>4. CASE Timeout \/ SmokeDisabled
  BY <1>2, <1>4 DEF Timeout, SmokeDisabled, Causes
<1>5. CASE Watch \/ Observe \/ Prove
  BY <1>3, <1>5 DEF Watch, Observe, Prove, Phases
<1>6. CASE Launch
  BY <1>2, <1>3, <1>6 DEF Launch, Causes
<1>7. CASE Poll
  <2>1. CASE dir[job.m] \in {"running", "lost"} /\ Done /\ UNCHANGED <<check, dir, kv>>
    BY <1>3, <2>1
  <2>2. CASE FailWith(job.m, job.row, "failed")
    BY <1>2, <2>2 DEF Causes
  <2>3. CASE Done /\ ToPhase(job.m, job.row, "live")
    BY <1>3, <2>3 DEF Phases
  <2>4. CASE Done /\ ToPhase(job.m, job.row, "smoke")
    BY <1>3, <2>4 DEF Phases
  <2>5. CASE Done /\ Pass(job.m, job.row)
    BY <1>3, <2>5
  <2> QED BY <1>7, <2>1, <2>2, <2>3, <2>4, <2>5 DEF Poll
<1> QED BY <1>4, <1>5, <1>6, <1>7

(* Evidence goes from none to one, for a merge that has none posted.          *)
LEMMA DeliverKeeps == ASSUME IInv, Deliver PROVE IInv'
<1> DEFINE m == job.m
<1>1. m \in Merges /\ Done /\ UNCHANGED <<uat, check>>
  BY AtWork DEF Deliver
<1>2. HubStays
  <2>1. CASE UNCHANGED hub
    BY <2>1, HubSame
  <2>2. CASE ~Posted(m) /\ hub' = [hub EXCEPT !.evidence = [hub.evidence EXCEPT ![m] = hub.evidence[m] + 1]]
    <3>1. hub.evidence[m] = 0
      BY <1>1, <2>2 DEF Posted, IInv, HubOK, HubType
    <3>2. hub.evidence[m] + 1 = 1 /\ [hub.evidence EXCEPT ![m] = 1] \in [Merges -> {0, 1}]
      BY <1>1, <3>1 DEF IInv, HubOK, HubType
    <3>3. hub' \in HubType /\ hub'.bugs = hub.bugs
      BY <2>2, <3>2 DEF IInv, HubOK, HubType
    <3> QED BY <3>3 DEF HubStays, IInv, HubOK
  <2> QED BY <2>1, <2>2 DEF Deliver
<1>3. KvOK(kv') /\ kv'.rem = kv.rem
  <2>1. CASE kv' = [kv EXCEPT !.posted = kv.posted \cup {m}]
    BY <1>1, <2>1 DEF IInv, KvOK, KvType
  <2> QED BY <2>1, KvStays DEF Deliver
<1> QED BY <1>1, <1>2, <1>3, Idles, RowsSame, OrdinaryKeeps DEF Ordinary

------------------------------------------------------------------------------
(* The report of a failure, step by step.                                     *)
LEMMA KeyTyped == ASSUME IInv, job.at # "idle" PROVE Key \in KeyType
BY DEF Key, KeyType, IInv, JobOK, JobType, RowType, NoCheck, Phases

(* A bug is filed only after no bug of the merge was found.                   *)
LEMMA FindKeeps == ASSUME IInv, Find PROVE IInv'
<1> DEFINE m == job.m
<1>1. m \in Merges /\ UNCHANGED <<uat, check, hub>>
  BY AtWork DEF Find
<1>2. Bugs \subseteq Nat
  BY DEF Bugs, IInv, HubOK, HubType
<1>3. CASE m \in kv.rem
  BY <1>1, <1>3, Idles, KvStays, HubSame, RowsSame, OrdinaryKeeps DEF Find, Ordinary
<1>4. CASE m \notin kv.rem /\ kv.bugOf[m] # 0
  <2>1. kv.bugOf[m] \in Nat
    BY <1>1 DEF IInv, KvOK, KvType
  <2>2. JobMoves
    BY <1>1, <1>4, <2>1, ZenonT(60) DEF Find, IInv, JobMoves, JobOK, JobType, Stages, Failed
  <2> QED BY <1>1, <1>4, <2>2, KvStays, HubSame, RowsSame, OrdinaryKeeps DEF Find, Ordinary
<1>5. CASE m \notin kv.rem /\ kv.bugOf[m] = 0 /\ Marked(m) # {}
  <2>1. PICK b \in Marked(m) : /\ kv' = [kv EXCEPT !.bugOf = [kv.bugOf EXCEPT ![m] = b]]
                               /\ job' = [job EXCEPT !.at = "open", !.bug = b]
    BY <1>5 DEF Find
  <2>2. b \in Nat
    BY <1>2 DEF Marked
  <2>3. JobMoves
    BY <1>1, <2>1, <2>2 DEF Find, IInv, JobMoves, JobOK, JobType, Stages, Failed
  <2>4. KvOK(kv') /\ kv'.rem = kv.rem
    BY <1>1, <2>1, <2>2 DEF IInv, KvOK, KvType
  <2> QED BY <1>1, <2>3, <2>4, HubSame, RowsSame, OrdinaryKeeps DEF Ordinary
<1>6. CASE m \notin kv.rem /\ kv.bugOf[m] = 0 /\ Marked(m) = {}
  <2>1. UNCHANGED kv
    BY <1>6 DEF Find
  <2>2. CASE Go("file")
    <3>1. JobOK(job')
      BY <1>1, <2>2 DEF Find, Go, IInv, JobOK, JobType, Stages
    <3>2. job'.m = m
      BY <2>2 DEF Go, IInv, JobOK, JobType
    <3>3. FilingOK'
      BY <1>1, <1>6, <3>2 DEF FilingOK, Marked, Bugs
    <3>4. CausesOK'
      BY <1>1, <2>1, <2>2 DEF CausesOK, Reportable, Failed, Go, IInv, JobOK, JobType
    <3> QED BY <1>1, <2>1, <3>1, <3>3, <3>4 DEF IInv, JobOK, KvOK, HubOK
  <2>3. CASE \E b \in Candidates : job' = [job EXCEPT !.at = "note", !.bug = b, !.repeated = TRUE]
    <3>1. PICK b \in Candidates : job' = [job EXCEPT !.at = "note", !.bug = b, !.repeated = TRUE]
      BY <2>3
    <3>2. b \in Nat
      <4>1. Key \in Phases \X Causes
        BY <1>6 DEF Find, Key, IInv, CausesOK, Failed, Reportable
      <4>2. kv.open[Key] \in Nat
        BY <4>1 DEF IInv, KvOK, KvType
      <4> QED BY <1>2, <3>1, <4>2 DEF Candidates
    <3>3. JobMoves
      BY <1>1, <3>1, <3>2 DEF Find, IInv, JobMoves, JobOK, JobType, Stages, Failed
    <3> QED BY <1>1, <2>1, <3>3, KvStays, HubSame, RowsSame, OrdinaryKeeps DEF Ordinary
  <2> QED BY <1>6, <2>2, <2>3 DEF Find
<1> QED BY <1>3, <1>4, <1>5, <1>6

LEMMA FileKeeps == ASSUME IInv, File PROVE IInv'
<1>1. job.m \in Merges /\ job.at = "file" /\ UNCHANGED <<uat, check, kv>>
  BY AtWork DEF File
<1> DEFINE bug == [merge |-> job.m, key |-> Key, open |-> TRUE, notes |-> {}]
<1>2. bug \in BugType /\ bug.merge = job.m
  BY <1>1, KeyTyped DEF BugType
<1>3. hub' = [hub EXCEPT !.bugs = Append(hub.bugs, bug)] /\ hub.bugs \in Seq(BugType)
  BY DEF File, IInv, HubOK, HubType
<1>4. \A b \in DOMAIN hub.bugs : hub.bugs[b].merge # job.m
  BY <1>1 DEF IInv, FilingOK, Marked, Bugs
<1> HIDE DEF bug
<1> DEFINE new == Append(hub.bugs, bug)
<1>5. /\ new \in Seq(BugType) /\ Len(new) = Len(hub.bugs) + 1 /\ new[Len(new)] = bug
      /\ \A b \in DOMAIN hub.bugs : new[b] = hub.bugs[b]
      /\ \A b \in DOMAIN new : b \in DOMAIN hub.bugs \/ b = Len(new)
      /\ Len(new) \in Nat
  BY <1>2, <1>3, AppendProperties
<1> HIDE DEF new
<1>6. hub' \in HubType /\ hub'.bugs = new
  BY <1>3, <1>5 DEF IInv, HubOK, HubType, new
<1>7. HubOK(hub')
  <2>1. \A b, c \in DOMAIN new : new[b].merge = new[c].merge => b = c
    BY <1>2, <1>4, <1>5 DEF IInv, HubOK
  <2> QED BY <1>6, <2>1 DEF HubOK
<1>8. JobMoves
  <2>1. CASE job' = [job EXCEPT !.at = "save", !.bug = Len(hub'.bugs)]
    BY <1>1, <1>5, <1>6, <2>1 DEF IInv, JobMoves, JobOK, JobType, Stages, Failed
  <2> QED BY <2>1, Idles DEF File
<1>9. JobOK(job') /\ job'.at # "file"
  <2>1. CASE job' = [job EXCEPT !.at = "save", !.bug = Len(hub'.bugs)]
    BY <2>1, <1>8 DEF JobMoves, IInv, JobOK, JobType
  <2>2. CASE Done
    BY <2>2, <1>8 DEF JobMoves, Done, NoJob
  <2> QED BY <2>1, <2>2 DEF File
<1>10. FilingOK' /\ CausesOK'
  BY <1>1, <1>8, <1>9 DEF FilingOK, CausesOK, IInv, JobMoves, Reportable, Failed
<1> QED BY <1>1, <1>7, <1>9, <1>10 DEF IInv, JobOK, KvOK, HubOK

LEMMA NoteKeeps == ASSUME IInv, Note PROVE IInv'
<1>1. job.m \in Merges /\ UNCHANGED <<uat, check, kv>>
  BY AtWork DEF Note
<1> DEFINE e == [hub.bugs[job.bug] EXCEPT !.notes = hub.bugs[job.bug].notes \cup {job.m}]
<1>2. hub' = [hub EXCEPT !.bugs = [hub.bugs EXCEPT ![job.bug] = e]]
  BY DEF Note
<1>3. HubStays
  <2>1. CASE job.bug \in DOMAIN hub.bugs
    <3>1. hub.bugs[job.bug] \in BugType
      BY <2>1 DEF IInv, HubOK, HubType
    <3>2. e \in BugType /\ e.merge = hub.bugs[job.bug].merge
      BY <1>1, <3>1 DEF BugType
    <3> HIDE DEF e
    <3> QED BY <1>2, <2>1, <3>2, BugEdited
  <2>2. CASE job.bug \notin DOMAIN hub.bugs
    <3> HIDE DEF e
    <3>1. [hub.bugs EXCEPT ![job.bug] = e] = hub.bugs
      <4>1. hub.bugs = [b \in DOMAIN hub.bugs |-> hub.bugs[b]]
        BY DEF IInv, HubOK, HubType
      <4> QED BY <2>2, <4>1
    <3>2. hub' = hub
      BY <1>2, <3>1 DEF IInv, HubOK, HubType
    <3> QED BY <3>2, HubSame
  <2> QED BY <2>1, <2>2
<1>4. JobMoves
  <2>1. "save" \in Stages \ {"file"}
    BY DEF Stages
  <2> QED BY <2>1, JobGoes DEF Note
<1> QED BY <1>1, <1>3, <1>4, KvStays, RowsSame, OrdinaryKeeps DEF Ordinary

LEMMA SaveKeeps == ASSUME IInv, Save PROVE IInv'
<1>1. job.m \in Merges /\ job.bug \in Nat /\ UNCHANGED <<uat, check, hub>>
  BY AtWork DEF Save, IInv, JobOK, JobType
<1>2. KvOK(kv') /\ kv'.rem = kv.rem
  BY <1>1 DEF Save, IInv, KvOK, KvType
<1>3. JobMoves
  <2>1. "open" \in Stages \ {"file"}
    BY DEF Stages
  <2> QED BY <2>1, JobGoes DEF Save
<1> QED BY <1>1, <1>2, <1>3, HubSame, RowsSame, OrdinaryKeeps DEF Ordinary

LEMMA RecordOpenKeeps == ASSUME IInv, RecordOpen PROVE IInv'
<1>1. job.bug \in Nat /\ UNCHANGED <<uat, check, hub>>
  BY DEF RecordOpen, IInv, JobOK, JobType
<1>2. KvOK(kv') /\ kv'.rem = kv.rem
  <2> DEFINE n == IF ~job.saved \/ kv.open[Key] = 0 THEN job.bug ELSE kv.open[Key]
             open == [kv.open EXCEPT ![Key] = n]
  <2>1. kv' = [kv EXCEPT !.open = open]
    BY DEF RecordOpen
  <2>2. open \in [Phases \X Causes -> Nat]
    <3>1. kv.open \in [Phases \X Causes -> Nat]
      BY DEF IInv, KvOK, KvType
    <3> QED BY <1>1, <3>1
  <2> HIDE DEF open
  <2> QED BY <2>1, <2>2 DEF IInv, KvOK, KvType
<1>3. JobMoves
  <2>1. "streak" \in Stages \ {"file"}
    BY DEF Stages
  <2> QED BY <2>1, JobGoes DEF RecordOpen
<1> QED BY <1>1, <1>2, <1>3, HubSame, RowsSame, OrdinaryKeeps DEF Ordinary

(* A failure that is counted is one more member of the counted ones.          *)
LEMMA StreakKeeps == ASSUME IInv, Streak PROVE IInv'
<1>1. job.m \in Merges /\ Key \in KeyType /\ UNCHANGED <<uat, check, hub>>
  BY AtWork, KeyTyped DEF Streak
<1>2. KvOK(kv') /\ kv'.rem = kv.rem
  <2>1. CASE Counted
    BY <2>1 DEF Streak, IInv
  <2>2. CASE ~Counted
    <3> DEFINE count == IF kv.streak.key = Key THEN kv.streak.count + 1 ELSE 1
               trips == count >= policy.pause /\ ~kv.paused
               streak == [count |-> count, key |-> Key]
    <3>1. kv' = [kv EXCEPT !.counted = kv.counted \cup {job.m}, !.streak = streak,
                           !.paused = kv.paused \/ trips, !.alert = IF trips THEN "pending" ELSE kv.alert]
      BY <2>2 DEF Streak
    <3>2. kv.streak.count \in Nat /\ kv.streak.count <= Cardinality(kv.counted) /\ kv.counted \subseteq Merges
      BY DEF IInv, KvOK, KvType
    <3>3. IsFiniteSet(kv.counted)
      BY <3>2, PostMergeAssumption, FS_Subset DEF PostMergeAssumption
    <3>4. /\ Cardinality(kv.counted) \in Nat
          /\ Cardinality(kv.counted \cup {job.m}) = Cardinality(kv.counted) + 1
      BY <2>2, <3>3, FS_CardinalityType, FS_AddElement DEF Counted
    <3>5. count \in Nat /\ count <= Cardinality(kv.counted \cup {job.m})
      BY <3>2, <3>4
    <3>6. trips \in BOOLEAN
      OBVIOUS
    <3> HIDE DEF count, trips
    <3>7. streak \in [count : Nat, key : KeyType] /\ streak.count = count
      BY <1>1, <3>5
    <3> HIDE DEF streak
    <3>8. /\ kv' \in KvType /\ kv'.rem = kv.rem
          /\ kv'.streak = streak /\ kv'.counted = kv.counted \cup {job.m}
      BY <1>1, <3>1, <3>6, <3>7 DEF IInv, KvOK, KvType
    <3> QED BY <3>5, <3>7, <3>8 DEF KvOK
  <2> QED BY <2>1, <2>2
<1>3. JobMoves
  <2>1. "revert" \in Stages \ {"file"}
    BY DEF Stages
  <2> QED BY <2>1, JobGoes DEF Streak
<1> QED BY <1>1, <1>2, <1>3, HubSame, RowsSame, OrdinaryKeeps DEF Ordinary

(* The pull request to revert is in the row of the issue.                     *)
LEMMA RevertKeeps == ASSUME IInv, Revert PROVE IInv'
<1>1. job.m \in Merges /\ UNCHANGED <<uat, check>>
  BY AtWork DEF Revert
<1> DEFINE pr == Suspect(job.m)
<1>2. pr \in Nat
  BY <1>1 DEF Suspect, IInv, Issues
<1>3. HubStays
  <2>1. CASE hub' = [hub EXCEPT !.reverts = Append(hub.reverts, pr)]
    <3>1. Append(hub.reverts, pr) \in Seq(Nat)
      BY <1>2, AppendProperties DEF IInv, HubOK, HubType
    <3>2. hub' \in HubType /\ hub'.bugs = hub.bugs
      BY <2>1, <3>1 DEF IInv, HubOK, HubType
    <3> QED BY <3>2 DEF HubStays, IInv, HubOK
  <2> QED BY <2>1, HubSame DEF Revert
<1>4. KvOK(kv') /\ kv'.rem = kv.rem
  <2>1. CASE kv' = [kv EXCEPT !.revert = kv.revert \cup {pr}]
    BY <1>2, <2>1 DEF IInv, KvOK, KvType
  <2> QED BY <2>1, KvStays DEF Revert
<1>5. JobMoves
  <2>1. "done" \in Stages \ {"file"}
    BY DEF Stages
  <2> QED BY <2>1, JobGoes, Idles DEF Revert
<1> QED BY <1>1, <1>3, <1>4, <1>5, RowsSame, OrdinaryKeeps DEF Ordinary

LEMMA RemediatedKeeps == ASSUME IInv, Remediated PROVE IInv'
<1>1. job.m \in Merges /\ Done /\ UNCHANGED <<uat, check, hub>>
  BY AtWork DEF Remediated
<1>2. KvOK(kv') /\ kv.rem \subseteq kv'.rem
  BY <1>1 DEF Remediated, IInv, KvOK, KvType
<1> QED BY <1>1, <1>2, Idles, HubSame, RowsSame, OrdinaryKeeps DEF Ordinary

------------------------------------------------------------------------------
LEMMA InitHolds == Init => IInv
<1> SUFFICES ASSUME Init PROVE IInv
  OBVIOUS
<1> USE PostMergeAssumption DEF Init
<1>1. JobOK(job)
  BY DEF JobOK, JobType, NoJob, NoCheck, Stages, RowType
<1>2. KvOK(kv)
  <2>1. Cardinality(kv.counted) = 0
    BY FS_EmptySet
  <2>2. kv \in KvType /\ kv.streak.count = 0
    BY DEF KvType, NoStreak, KeyType
  <2> QED BY <2>1, <2>2 DEF KvOK
<1>3. HubOK(hub)
  BY DEF HubOK, HubType
<1>4. check \in [Merges -> RowType] /\ uat \in [Issues -> Nat]
  BY DEF NoCheck, RowType
<1>5. FilingOK /\ CausesOK
  BY DEF FilingOK, CausesOK, NoJob, NoCheck, Failed
<1> QED BY <1>1, <1>2, <1>3, <1>4, <1>5 DEF IInv

LEMMA StutterKeeps == ASSUME IInv, UNCHANGED vars PROVE IInv'
BY JobStays, KvStays, HubSame, RowsSame, OrdinaryKeeps DEF vars, Ordinary

LEMMA NextKeeps == ASSUME IInv, Next PROVE IInv'
<1>1. CASE \E m \in Merges :
             Ships(m) \/ Deployed(m) \/ DeadlinePasses(m) \/ WorkerEnds(m) \/ RegisterAgain(m) \/ TakesRow(m)
  BY <1>1, WorldKeeps, TakesRowKeeps
<1>2. CASE \E b \in Bugs : OwnerCloses(b)
  BY <1>2, OwnerKeeps
<1>3. CASE Tick
  BY <1>3, RowKeeps, AdvanceKeeps, DeliverKeeps, FindKeeps, FileKeeps, NoteKeeps, SaveKeeps, RecordOpenKeeps,
     StreakKeeps, RevertKeeps, RemediatedKeeps
  DEF Tick, Advance, Remediate
<1>4. CASE Crash \/ ManualResume \/ Reprobe \/ Alert
  BY <1>4, CrashKeeps, ResumeKeeps, AlertKeeps
<1> QED BY <1>1, <1>2, <1>3, <1>4 DEF Next

(* Everything has its type, a job that is about to file knows that GitHub has  *)
(* no bug of its merge, and a failed row names a phase and a cause unless a    *)
(* resume settled it.                                                         *)
THEOREM Invariance == Spec => []IInv
<1>1. Init => IInv
  BY InitHolds
<1>2. IInv /\ [Next]_vars => IInv'
  BY NextKeeps, StutterKeeps
<1> QED BY <1>1, <1>2, PTL DEF Spec

(* One bug at most for each failed merge, one count for each failure, one      *)
(* post of each merge's evidence: report_post_merge, _post_merge_streak and    *)
(* _deliver of post_merge.py, under any crashes, lost answers and retries.     *)
THEOREM ReportsOnce == Spec => []ReportedOnce
<1>1. IInv => ReportedOnce
  <2> SUFFICES ASSUME IInv PROVE ReportedOnce
    OBVIOUS
  <2>1. OneBugPerMerge
    BY DEF OneBugPerMerge, Bugs, IInv, HubOK
  <2>2. CountedOnce
    BY DEF CountedOnce, IInv, KvOK
  <2>3. EvidenceOnce
    <3>1. \A m \in Merges : hub.evidence[m] \in {0, 1}
      BY DEF IInv, HubOK, HubType
    <3>2. 0 <= 1 /\ 1 <= 1
      OBVIOUS
    <3> QED BY <3>1, <3>2 DEF EvidenceOnce
  <2> QED BY <2>1, <2>2, <2>3 DEF ReportedOnce
<1> QED BY <1>1, Invariance, PTL

------------------------------------------------------------------------------
(* Waits.                                                                     *)

States == {"inbox", "ready", "working", "verifying", "waiting", "needs_you", "parked"}
Resumable == {"inbox", "ready", "verifying"}   \* where a wait may end
AllCauses == WaitCauses \cup {"other", "owner", "launch", "setup", "worktree_conflict", "review_nonconvergent",
                          "ci_stalled", "capacity", "review_inconclusive", "ci_repo_wide"}
ItemType == [state : States, stamp : Nat, at : Nat, pr : BOOLEAN, sorted : BOOLEAN, text : AllCauses]
RecordType == [cause : AllCauses, resume : Resumable, since : Nat, bound : Nat, checks : Nat, next : Nat]
StepType ==
  [do : {"idle", "tune", "gate", "clear", "go"}]
  \cup [do : {"hold", "record"}, cause : AllCauses, resume : Resumable, then : {"idle", "tune", "gate"}]
  \cup [do : {"look", "ask", "wake", "resume"}, row : ItemType]

TypeOK ==
  /\ now \in Nat /\ crashes \in Nat
  /\ item \in ItemType
  /\ session \in BOOLEAN /\ gate \in BOOLEAN
  /\ record \in {NoRecord} \cup RecordType
  /\ step \in StepType
  /\ asked \in [resume : Resumable \cup {"none"}, kept : BOOLEAN]

Recorded == record # NoRecord

(* The item's last change, and what a record knows of it: which change it is    *)
(* bound to, and, if that is the last, when it was. A pass holds no time.       *)
ClockOK == item.at <= now /\ (step.do = "record" => item.at = now)
BoundOK == Recorded => record.bound <= item.stamp /\ (record.bound = item.stamp => record.since = item.at)

(* Steps that write a record over one they know to be there.                  *)
RecordThere == step.do \in {"tune", "ask", "wake", "resume"} => Recorded

(* The newest hold's record is there, bound to the wait if it still lasts. When *)
(* it is not, a record bound to this wait is the fresh one of a look.           *)
KeptOK == asked.kept => /\ Recorded /\ record.resume = asked.resume
                        /\ item.state = "waiting" => record.bound = item.stamp
LostOK == ~asked.kept /\ Recorded /\ item.state = "waiting" /\ record.bound = item.stamp
            => record.resume = "ready"

(* The same for the row a look was listed with, however the item moved since.   *)
RowOK ==
  step.do = "look" =>
    /\ step.row.stamp <= item.stamp
    /\ step.row.stamp = item.stamp => step.row.at = item.at
    /\ Recorded /\ record.bound = step.row.stamp => record.since = step.row.at
    /\ asked.kept => record.bound = step.row.stamp
    /\ ~asked.kept /\ Recorded /\ record.bound = step.row.stamp => record.resume = "ready"

(* Between the two writes of a hold, what it asked for is what it will record.  *)
HoldOK == step.do = "record" => asked.resume = step.resume /\ ~asked.kept

(* What a look found to end the wait with.                                    *)
Due == record.resume = IF asked.kept THEN asked.resume ELSE "ready"
DueOK == step.do \in {"ask", "wake", "resume"} => Due

WaitsInv == TypeOK /\ ClockOK /\ BoundOK /\ RecordThere /\ KeptOK /\ LostOK /\ RowOK /\ HoldOK /\ DueOK

------------------------------------------------------------------------------
(* The module's operators.                                                    *)
LEMMA MovedItem ==
  ASSUME now \in Nat, NEW i \in ItemType, NEW s \in States
  PROVE  /\ Moved(i, s) \in ItemType
         /\ Moved(i, s).state = s /\ Moved(i, s).stamp = i.stamp + 1 /\ Moved(i, s).at = now
<1> DEFINE n == i.stamp + 1
<1>1. "owner" \in AllCauses /\ n \in Nat
  BY DEF AllCauses, ItemType
<1>2. Moved(i, s) = [i EXCEPT !.state = s, !.stamp = n, !.at = now, !.text = "owner"]
  BY DEF Moved
<1>3. n = i.stamp + 1
  OBVIOUS
<1> HIDE DEF n
<1> QED BY <1>1, <1>2, <1>3 DEF ItemType

LEMMA BackoffNat == ASSUME WaitsAssumption, NEW n \in Nat PROVE backoff(n) \in Nat
<1>1. Least(Most(n, 1), Len(BACKOFF)) \in 1..Len(BACKOFF)
  BY DEF WaitsAssumption, Least, Most
<1> QED BY <1>1 DEF WaitsAssumption, backoff

LEMMA NewRecord ==
  ASSUME WaitsAssumption, now \in Nat, NEW c \in AllCauses, NEW s \in Resumable, NEW n \in Nat
  PROVE  /\ Record(c, s, n) \in RecordType
         /\ Record(c, s, n).resume = s /\ Record(c, s, n).since = now /\ Record(c, s, n).bound = n
<1>1. First(c) \in Nat
  BY BackoffNat DEF First, Most, WaitsAssumption
<1> QED BY <1>1 DEF Record, RecordType

LEMMA RecordsDiffer == ASSUME NEW r \in RecordType PROVE r # NoRecord
<1>1. DOMAIN r = {"cause", "resume", "since", "bound", "checks", "next"}
  BY DEF RecordType
<1>2. DOMAIN NoRecord = {"cause"}
  BY DEF NoRecord
<1> QED BY <1>1, <1>2

LEMMA Shapes ==
  ASSUME NEW s \in StepType
  PROVE  /\ s.do \in {"hold", "record"} =>
              s \in [do : {"hold", "record"}, cause : AllCauses, resume : Resumable, then : {"idle", "tune", "gate"}]
         /\ s.do \in {"look", "ask", "wake", "resume"} =>
              s \in [do : {"look", "ask", "wake", "resume"}, row : ItemType]
BY DEF StepType

------------------------------------------------------------------------------
(* Most steps leave the record and what was asked alone, move the item to       *)
(* somewhere that is no wait, and leave the daemon where it is or at a step     *)
(* that looks at no record.                                                   *)
ItemMoves ==
  /\ item' \in ItemType
  /\ \/ item'.stamp = item.stamp /\ item'.at = item.at /\ item'.state = item.state
     \/ item'.stamp > item.stamp /\ item'.at = now /\ item'.state # "waiting"

Calm ==
  /\ UNCHANGED <<now, record, asked>>
  /\ ItemMoves
  /\ session' \in BOOLEAN /\ gate' \in BOOLEAN /\ crashes' \in Nat
  /\ step' \in StepType
  /\ step' = step \/ step'.do \in {"idle", "gate", "clear", "go", "hold"}

LEMMA CalmKeeps == ASSUME WaitsInv, Calm PROVE WaitsInv'
<1> USE DEF WaitsInv, Calm, ItemMoves
<1>1. TypeOK'
  BY DEF TypeOK
<1>2. ClockOK' /\ BoundOK'
  BY DEF TypeOK, ClockOK, BoundOK, Recorded, ItemType, RecordType
<1>3. RecordThere' /\ HoldOK' /\ DueOK'
  BY DEF RecordThere, HoldOK, DueOK, Due, Recorded
<1>4. KeptOK' /\ LostOK'
  BY DEF TypeOK, KeptOK, LostOK, BoundOK, Recorded, ItemType, RecordType
<1>5. RowOK'
  <2>1. CASE step' = step /\ step.do = "look"
    <3>1. step.row \in ItemType
      BY <2>1, Shapes DEF TypeOK
    <3> QED BY <2>1, <3>1 DEF TypeOK, RowOK, Recorded, ItemType
  <2>2. CASE step'.do # "look"
    BY <2>2 DEF RowOK
  <2> QED BY <2>1, <2>2
<1> QED BY <1>1, <1>2, <1>3, <1>4, <1>5

LEMMA ItemStays == ASSUME TypeOK, UNCHANGED item PROVE ItemMoves
BY DEF TypeOK, ItemMoves

LEMMA ItemSet ==
  ASSUME TypeOK, NEW s \in States \ {"waiting"}, item' = Moved(item, s) \/ set_state(s) PROVE ItemMoves
BY MovedItem DEF TypeOK, ItemMoves, set_state, ItemType

(* A hold begins with what its caller knows.                                  *)
LEMMA BeginIsCalm ==
  ASSUME TypeOK, NEW c \in AllCauses, NEW r \in Resumable, NEW t \in {"idle", "tune", "gate"}, Begin(c, r, t)
  PROVE  Calm
<1>1. step' \in StepType /\ step'.do = "hold"
  BY DEF Begin, StepType
<1> QED BY <1>1, ItemStays DEF Begin, Calm, TypeOK

LEMMA HoldersAreCalm ==
  ASSUME TypeOK, ShipHolds \/ LaunchFails \/ Conflicts \/ Migrates PROVE Calm
<1>1. CASE ShipHolds
  BY <1>1, BeginIsCalm DEF ShipHolds, AllCauses, Resumable
<1>2. CASE LaunchFails
  BY <1>2, BeginIsCalm DEF LaunchFails, AllCauses, Resumable
<1>3. CASE Conflicts
  <2>1. "worktree_conflict" \in AllCauses /\ "ready" \in Resumable /\ "verifying" \in Resumable
    BY DEF AllCauses, Resumable
  <2> QED BY <1>3, <2>1, BeginIsCalm DEF Conflicts
<1>4. CASE Migrates
  <2>1. Back \subseteq Resumable /\ item.text \in AllCauses
    BY DEF Back, Queue, Resumable, TypeOK, ItemType
  <2> QED BY <1>4, <2>1, BeginIsCalm DEF Migrates
<1> QED BY <1>1, <1>2, <1>3, <1>4

LEMMA DaemonIsCalm ==
  ASSUME TypeOK,
         MigratesNothing \/ Gates \/ _backstop \/ WakeRaises \/ Goes \/ Parks \/ Answers
         \/ Sorted \/ Starts \/ Delivers \/ PassDies
  PROVE  Calm
<1> DEFINE sorted(i, b) == [i EXCEPT !.sorted = b]
<1>1. step' \in StepType /\ (step' = step \/ step'.do \in {"idle", "gate", "clear", "go", "hold"})
  BY DEF MigratesNothing, Gates, _backstop, WakeRaises, Goes, Parks, Answers, Sorted, Starts, Delivers, PassDies,
         TypeOK, Idle, StepType
<1>2. /\ UNCHANGED <<now, record, asked>>
      /\ session' \in BOOLEAN /\ gate' \in BOOLEAN /\ crashes' \in Nat
  <2>1. CASE MigratesNothing \/ Gates \/ _backstop \/ WakeRaises \/ Goes
    BY <2>1 DEF MigratesNothing, Gates, _backstop, WakeRaises, Goes, TypeOK
  <2>2. CASE Parks \/ Answers \/ Sorted \/ Starts \/ Delivers \/ PassDies
    BY <2>2 DEF Parks, Answers, Sorted, Starts, Delivers, PassDies, TypeOK
  <2> QED BY <2>1, <2>2
<1>3. ItemMoves
  <2> USE DEF TypeOK
  <2>1. CASE UNCHANGED item
    BY <2>1, ItemStays
  <2>2. CASE _backstop \/ Parks \/ Starts
    BY <2>2, ItemSet DEF _backstop, Parks, Starts, States
  <2>3. \A s \in States \ {"waiting"}, b \in BOOLEAN :
           item' = [Moved(item, s) EXCEPT !.sorted = b] \/ item' = [Moved(item, s) EXCEPT !.pr = b] => ItemMoves
    BY MovedItem DEF ItemMoves, ItemType
  <2>4. CASE Goes \/ Answers \/ Sorted \/ Delivers
    BY <2>3, <2>4 DEF Goes, Answers, Sorted, Delivers, States
  <2> QED BY <2>1, <2>2, <2>4 DEF MigratesNothing, Gates, WakeRaises, PassDies
<1> QED BY <1>1, <1>2, <1>3 DEF Calm

LEMMA SessionsAreCalm ==
  ASSUME TypeOK, SessionClaims \/ SessionReleases \/ SessionShips PROVE Calm
<1>1. /\ UNCHANGED <<now, record, asked, step>>
      /\ session' \in BOOLEAN /\ gate' \in BOOLEAN /\ crashes' \in Nat
  BY DEF SessionClaims, SessionReleases, SessionShips, TypeOK
<1>2. ItemMoves
  <2>1. CASE SessionClaims \/ SessionReleases
    BY <2>1, ItemSet DEF SessionClaims, SessionReleases, States
  <2>2. CASE SessionShips
    <3> DEFINE was == IF item.state = "verifying" THEN item ELSE Moved(item, "verifying")
    <3>1. /\ was \in ItemType
          /\ \/ was = item
             \/ was.stamp = item.stamp + 1 /\ was.at = now /\ was.state = "verifying"
      BY MovedItem DEF States, TypeOK
    <3>2. item' = [was EXCEPT !.pr = TRUE]
      BY <2>2 DEF SessionShips
    <3>3. item.stamp \in Nat
      BY DEF TypeOK, ItemType
    <3> HIDE DEF was
    <3>4. was \in ItemType => /\ item' \in ItemType
                              /\ item'.stamp = was.stamp /\ item'.at = was.at /\ item'.state = was.state
      BY ONLY <3>2 DEF ItemType
    <3> QED BY <3>1, <3>3, <3>4 DEF ItemMoves
  <2> QED BY <2>1, <2>2
<1> QED BY <1>1, <1>2 DEF Calm, TypeOK

------------------------------------------------------------------------------
(* The steps of a hold: the item moves to a wait no record is bound to yet, and *)
(* then the record of it is written.                                          *)
LEMMA HoldKeeps == ASSUME WaitsInv, hold PROVE WaitsInv'
<1> USE DEF WaitsInv, hold
<1>1. step \in [do : {"hold", "record"}, cause : AllCauses, resume : Resumable, then : {"idle", "tune", "gate"}]
  BY Shapes DEF TypeOK
<1>2. step' \in StepType /\ step'.do = "record" /\ step'.resume = step.resume
  BY <1>1 DEF StepType
<1>3. item' \in ItemType /\ item'.stamp = item.stamp + 1 /\ item'.at = now /\ item'.state = "waiting"
  BY MovedItem DEF TypeOK, States
<1>4. asked' = [resume |-> step.resume, kept |-> FALSE] /\ UNCHANGED <<now, session, record, gate, crashes>>
  OBVIOUS
<1> HIDE DEF hold
<1>5. TypeOK'
  BY <1>1, <1>2, <1>3, <1>4 DEF TypeOK
<1>6. BoundOK' /\ LostOK'
  BY <1>3, <1>4 DEF TypeOK, BoundOK, LostOK, Recorded, ItemType, RecordType
<1>7. ClockOK' /\ RecordThere' /\ KeptOK' /\ RowOK' /\ HoldOK' /\ DueOK'
  BY <1>1, <1>2, <1>3, <1>4
     DEF TypeOK, ClockOK, RecordThere, KeptOK, RowOK, HoldOK, DueOK
<1> QED BY <1>5, <1>6, <1>7

LEMMA RecordsKeeps == ASSUME WaitsAssumption, WaitsInv, Records PROVE WaitsInv'
<1> USE DEF WaitsInv, Records
<1>1. step \in [do : {"hold", "record"}, cause : AllCauses, resume : Resumable, then : {"idle", "tune", "gate"}]
  BY Shapes DEF TypeOK
<1>2. step' \in StepType /\ step'.do \in {"idle", "tune", "gate"}
  BY <1>1 DEF StepType, Idle
<1>3. /\ record' \in RecordType
      /\ record'.resume = step.resume /\ record'.since = now /\ record'.bound = item.stamp
  BY <1>1, NewRecord DEF TypeOK, ItemType
<1>4. asked' = [asked EXCEPT !.kept = TRUE] /\ UNCHANGED <<now, item, session, gate, crashes>>
  OBVIOUS
<1>5. asked.resume = step.resume
  BY DEF HoldOK
<1> HIDE DEF Records
<1>6. TypeOK'
  BY <1>2, <1>3, <1>4 DEF TypeOK
<1>7. record' # NoRecord
  BY <1>3, RecordsDiffer
<1>8. ClockOK' /\ BoundOK' /\ RecordThere'
  BY <1>2, <1>3, <1>4, <1>7 DEF Records, TypeOK, ClockOK, BoundOK, RecordThere, Recorded, ItemType
<1>9. KeptOK' /\ LostOK' /\ RowOK' /\ DueOK' /\ HoldOK'
  BY <1>2, <1>3, <1>4, <1>5, <1>7 DEF TypeOK, KeptOK, LostOK, RowOK, DueOK, HoldOK, Recorded
<1> QED BY <1>6, <1>8, <1>9

(* Both writes in one transaction.                                            *)
LEMMA TogetherKeeps ==
  ASSUME WaitsAssumption, WaitsInv, NEW row \in ItemType, row.stamp = item.stamp,
         NEW c \in AllCauses, NEW r \in Resumable, NEW n \in Nat, Together(row, c, r, n)
  PROVE  WaitsInv'
<1> USE DEF WaitsInv, Together
<1>1. item' \in ItemType /\ item'.stamp = item.stamp + 1 /\ item'.at = now /\ item'.state = "waiting"
  BY MovedItem DEF TypeOK, States
<1>2. record' \in RecordType /\ record'.resume = r /\ record'.since = now /\ record'.bound = item'.stamp
  <2>1. item'.stamp \in Nat
    BY <1>1 DEF ItemType
  <2> DEFINE new == Record(c, r, item'.stamp)
  <2>2. new \in RecordType /\ new.resume = r /\ new.since = now /\ new.bound = item'.stamp
    BY <2>1, NewRecord DEF TypeOK
  <2>3. record' = [new EXCEPT !.next = n]
    OBVIOUS
  <2> HIDE DEF new
  <2> QED BY <2>2, <2>3 DEF RecordType
<1>3. asked' = [resume |-> r, kept |-> TRUE] /\ UNCHANGED <<now, session, gate, step, crashes>>
  OBVIOUS
<1>4. record' # NoRecord /\ step.do = "idle"
  BY <1>2, RecordsDiffer DEF Idle
<1> HIDE DEF Together
<1>5. TypeOK'
  BY <1>1, <1>2, <1>3 DEF TypeOK
<1>6. ClockOK' /\ BoundOK' /\ RecordThere' /\ HoldOK'
  BY <1>1, <1>2, <1>3, <1>4 DEF TypeOK, ClockOK, BoundOK, RecordThere, HoldOK, Recorded, ItemType
<1>7. KeptOK' /\ LostOK' /\ RowOK' /\ DueOK'
  BY <1>1, <1>2, <1>3, <1>4 DEF KeptOK, LostOK, RowOK, DueOK, Recorded
<1> QED BY <1>5, <1>6, <1>7

LEMMA TogethersKeep == ASSUME WaitsAssumption, WaitsInv, _setup_failure \/ Rebuilds PROVE WaitsInv'
<1>1. CASE _setup_failure
  <2>1. Queue \in Resumable /\ "setup" \in AllCauses
    BY DEF Queue, Resumable, AllCauses
  <2>2. now + backoff(1) \in Nat
    BY BackoffNat DEF WaitsInv, TypeOK
  <2> QED BY <1>1, <2>1, <2>2, TogetherKeeps DEF _setup_failure, WaitsInv, TypeOK
<1>2. CASE Rebuilds
  <2>1. "ready" \in Resumable /\ "review_nonconvergent" \in AllCauses /\ now + RebuildDelay \in Nat
    BY DEF Resumable, AllCauses, WaitsInv, TypeOK, WaitsAssumption
  <2>2. [item EXCEPT !.pr = FALSE] \in ItemType /\ [item EXCEPT !.pr = FALSE].stamp = item.stamp
    BY DEF WaitsInv, TypeOK, ItemType
  <2> QED BY <1>2, <2>1, <2>2, TogetherKeeps DEF Rebuilds
<1> QED BY <1>1, <1>2

(* Writes that leave the record's wait as it is: when to look again.          *)
LEMMA Retimed ==
  ASSUME WaitsInv, NEW c \in Nat, NEW n \in Nat, Recorded, record' = [record EXCEPT !.checks = c, !.next = n]
  PROVE  /\ record' \in RecordType /\ record' # NoRecord
         /\ record'.resume = record.resume /\ record'.bound = record.bound /\ record'.since = record.since
<1>1. record \in RecordType
  BY DEF WaitsInv, TypeOK, Recorded
<1>2. /\ record' \in RecordType
      /\ record'.resume = record.resume /\ record'.bound = record.bound /\ record'.since = record.since
  BY <1>1 DEF RecordType
<1> QED BY <1>2, RecordsDiffer

LEMMA RetimeKeeps ==
  ASSUME WaitsAssumption, WaitsInv, Tunes \/ WakeUnmet
  PROVE  WaitsInv'
<1> USE DEF WaitsInv
<1>1. Recorded /\ step'.do = "idle" /\ step' \in StepType
  BY DEF Tunes, WakeUnmet, RecordThere, Idle, StepType
<1>2. record \in RecordType
  BY <1>1 DEF TypeOK, Recorded
<1>3. PICK c \in Nat, n \in Nat : record' = [record EXCEPT !.checks = c, !.next = n]
  <2>1. CASE Tunes
    <3>1. PICK count \in 1..2 : record' = [record EXCEPT !.checks = count - 1, !.next = now + backoff(count)]
      BY <2>1 DEF Tunes
    <3>2. count - 1 \in Nat /\ now + backoff(count) \in Nat
      BY BackoffNat DEF TypeOK
    <3> QED BY <3>1, <3>2
  <2>2. CASE WakeUnmet
    <3>1. record.checks + 1 \in Nat
      BY <1>2 DEF RecordType
    <3>2. record.checks + 1 + 1 \in Nat
      BY <3>1
    <3>3. now + backoff(record.checks + 1 + 1) \in Nat
      BY <3>2, BackoffNat DEF TypeOK
    <3> QED BY <2>2, <3>1, <3>3 DEF WakeUnmet
  <2> QED BY <2>1, <2>2
<1>4. /\ record' \in RecordType /\ record' # NoRecord
      /\ record'.resume = record.resume /\ record'.bound = record.bound /\ record'.since = record.since
  BY <1>1, <1>3, Retimed
<1>5. UNCHANGED <<now, item, session, gate, crashes, asked>>
  BY DEF Tunes, WakeUnmet
<1>6. TypeOK'
  BY <1>1, <1>4, <1>5 DEF TypeOK
<1>7. ClockOK' /\ BoundOK' /\ RecordThere' /\ HoldOK' /\ RowOK' /\ DueOK'
  BY <1>1, <1>4, <1>5 DEF ClockOK, BoundOK, RecordThere, HoldOK, RowOK, DueOK, Recorded
<1>8. KeptOK' /\ LostOK'
  BY <1>1, <1>4, <1>5 DEF KeptOK, LostOK, Recorded
<1> QED BY <1>6, <1>7, <1>8

(* The record goes, and with it what it asked for.                            *)
LEMMA ClearKeeps == ASSUME WaitsInv, clear \/ resume_item PROVE WaitsInv'
<1> USE DEF WaitsInv
<1>1. /\ record' = NoRecord /\ asked' = [asked EXCEPT !.kept = FALSE]
      /\ step' \in StepType /\ step'.do \in {"idle", "go"}
      /\ UNCHANGED <<now, item, session, gate, crashes>>
  BY DEF clear, resume_item, StepType, Idle
<1>2. TypeOK'
  BY <1>1 DEF TypeOK
<1>3. ClockOK' /\ BoundOK' /\ RecordThere' /\ HoldOK' /\ RowOK' /\ DueOK'
  BY <1>1 DEF ClockOK, BoundOK, RecordThere, HoldOK, RowOK, DueOK, Recorded
<1>4. KeptOK' /\ LostOK'
  BY <1>1 DEF KeptOK, LostOK, Recorded, TypeOK
<1> QED BY <1>2, <1>3, <1>4

------------------------------------------------------------------------------
(* The steps of a look.                                                       *)
LEMMA ListsKeeps == ASSUME WaitsInv, Lists PROVE WaitsInv'
<1> USE DEF WaitsInv
<1>1. step' = [do |-> "look", row |-> item] /\ item.state = "waiting"
      /\ UNCHANGED <<now, item, session, record, gate, crashes, asked>>
  BY DEF Lists
<1>2. TypeOK'
  BY <1>1 DEF TypeOK, StepType
<1>3. ClockOK' /\ BoundOK' /\ RecordThere' /\ HoldOK' /\ DueOK' /\ KeptOK' /\ LostOK'
  BY <1>1 DEF ClockOK, BoundOK, RecordThere, HoldOK, DueOK, KeptOK, LostOK, Recorded
<1>4. RowOK'
  BY <1>1 DEF RowOK, BoundOK, KeptOK, LostOK, Recorded, TypeOK, ItemType
<1> QED BY <1>2, <1>3, <1>4

LEMMA RecheckKeeps == ASSUME WaitsAssumption, WaitsInv, _recheck_item PROVE WaitsInv'
<1> USE DEF WaitsInv
<1>1. step \in [do : {"look", "ask", "wake", "resume"}, row : ItemType] /\ step.do = "look"
  BY Shapes DEF TypeOK, _recheck_item
<1>2. step' \in StepType /\ step'.do \in {"ask", "idle", "wake"}
  BY <1>1 DEF _recheck_item, StepType, Idle
<1>3. UNCHANGED <<now, item, session, gate, crashes, asked>>
  BY DEF _recheck_item
<1>4. /\ record' \in RecordType /\ record' # NoRecord
      /\ record'.bound = step.row.stamp /\ record'.since = step.row.at
      /\ record'.resume = IF asked.kept THEN asked.resume ELSE "ready"
  <2>1. CASE Stale(step.row)
    <3>1. ~asked.kept
      BY <1>1, <2>1 DEF Stale, RowOK, KeptOK, Recorded
    <3>2. record' = _fresh_record(step.row) /\ step.row \in ItemType
      BY <1>1, <2>1 DEF _recheck_item
    <3>3. now + backoff(1) \in Nat /\ "other" \in AllCauses /\ "ready" \in Resumable
      BY BackoffNat DEF TypeOK, AllCauses, Resumable
    <3>4. /\ record' \in RecordType /\ record'.resume = "ready"
          /\ record'.bound = step.row.stamp /\ record'.since = step.row.at
      BY <3>2, <3>3 DEF _fresh_record, RecordType, ItemType
    <3> QED BY <3>1, <3>4, RecordsDiffer
  <2>2. CASE ~Stale(step.row)
    <3>1. record' = record /\ Recorded /\ record.bound = step.row.stamp
      BY <2>2 DEF _recheck_item, Stale, Recorded
    <3> QED BY <1>1, <3>1 DEF RowOK, KeptOK, Recorded, TypeOK
  <2> QED BY <2>1, <2>2
<1>5. TypeOK'
  BY <1>2, <1>3, <1>4 DEF TypeOK
<1>6. ClockOK' /\ BoundOK' /\ RecordThere' /\ HoldOK' /\ RowOK' /\ DueOK'
  BY <1>1, <1>2, <1>3, <1>4 DEF ClockOK, BoundOK, RecordThere, HoldOK, RowOK, DueOK, Due, Recorded
<1>7. KeptOK' /\ LostOK'
  BY <1>1, <1>3, <1>4 DEF KeptOK, LostOK, RowOK, Recorded
<1> QED BY <1>5, <1>6, <1>7

LEMMA WakeMetKeeps == ASSUME WaitsInv, WakeMet PROVE WaitsInv'
<1> USE DEF WaitsInv
<1>1. step \in [do : {"look", "ask", "wake", "resume"}, row : ItemType] /\ step.do = "wake"
  BY Shapes DEF TypeOK, WakeMet
<1>2. step' \in StepType /\ step'.do = "resume" /\ UNCHANGED <<now, item, session, record, gate, crashes, asked>>
  BY <1>1 DEF WakeMet, StepType
<1>3. TypeOK' /\ ClockOK' /\ BoundOK' /\ RecordThere' /\ HoldOK'
  BY <1>1, <1>2 DEF TypeOK, ClockOK, BoundOK, RecordThere, HoldOK, Recorded
<1>4. KeptOK' /\ LostOK' /\ RowOK' /\ DueOK'
  BY <1>1, <1>2 DEF KeptOK, LostOK, RowOK, DueOK, Due, Recorded
<1> QED BY <1>3, <1>4

LEMMA ResumesIsCalm ==
  ASSUME WaitsInv, Resumes
  PROVE  Calm /\ item'.state = record.resume
<1>1. record.resume \in States \ {"waiting"}
  BY DEF Resumes, WaitsInv, RecordThere, Recorded, TypeOK, RecordType, Resumable, States
<1>2. ItemMoves
  BY <1>1, ItemSet DEF Resumes, WaitsInv
<1>3. item'.state = record.resume
  BY <1>1, MovedItem DEF Resumes, set_state, WaitsInv, TypeOK
<1>4. step' \in StepType /\ step'.do = "clear"
  BY DEF Resumes, StepType
<1> QED BY <1>2, <1>3, <1>4 DEF Resumes, Calm, WaitsInv, TypeOK

LEMMA ClockKeeps == ASSUME WaitsInv, Clock PROVE WaitsInv'
<1> USE DEF WaitsInv
<1>1. /\ now' = now + 1 /\ step.do = "idle"
      /\ UNCHANGED <<item, session, record, gate, step, crashes, asked>>
  BY DEF Clock, Idle
<1>2. TypeOK' /\ ClockOK' /\ BoundOK' /\ RecordThere' /\ HoldOK'
  BY <1>1 DEF TypeOK, ClockOK, BoundOK, RecordThere, HoldOK, Recorded, ItemType
<1>3. KeptOK' /\ LostOK' /\ RowOK' /\ DueOK'
  BY <1>1 DEF KeptOK, LostOK, RowOK, DueOK, Recorded
<1> QED BY <1>2, <1>3

------------------------------------------------------------------------------
LEMMA WaitsInitHolds == ASSUME WaitsInit PROVE WaitsInv
<1> USE DEF WaitsInit
<1>1. TypeOK
  <2>1. item \in ItemType
    BY DEF ItemType, States, AllCauses, Legacy
  <2> QED BY <2>1 DEF TypeOK, StepType, Idle
<1>2. ClockOK /\ BoundOK /\ RecordThere /\ HoldOK /\ RowOK /\ DueOK /\ KeptOK /\ LostOK
  BY DEF ClockOK, BoundOK, RecordThere, HoldOK, RowOK, DueOK, KeptOK, LostOK, Recorded, Idle
<1> QED BY <1>1, <1>2 DEF WaitsInv

LEMMA WaitsNextKeeps == ASSUME WaitsAssumption, WaitsInv, WaitsNext PROVE WaitsInv'
<1>0. TypeOK
  BY DEF WaitsInv
<1>1. CASE ShipHolds \/ LaunchFails \/ Conflicts \/ Migrates
  BY <1>0, <1>1, HoldersAreCalm, CalmKeeps
<1>2. CASE MigratesNothing \/ Gates \/ _backstop \/ WakeRaises \/ Goes \/ Parks \/ Answers
           \/ Sorted \/ Starts \/ Delivers \/ PassDies
  BY <1>0, <1>2, DaemonIsCalm, CalmKeeps
<1>3. CASE SessionClaims \/ SessionReleases \/ SessionShips
  BY <1>0, <1>3, SessionsAreCalm, CalmKeeps
<1>4. CASE hold \/ Records \/ _setup_failure \/ Rebuilds \/ Tunes \/ WakeUnmet
  BY <1>4, HoldKeeps, RecordsKeeps, TogethersKeep, RetimeKeeps
<1>5. CASE Lists \/ _recheck_item \/ WakeMet \/ Resumes \/ clear \/ resume_item \/ Clock
  BY <1>5, ListsKeeps, RecheckKeeps, WakeMetKeeps, ResumesIsCalm, CalmKeeps, ClearKeeps, ClockKeeps
<1> QED BY <1>1, <1>2, <1>3, <1>4, <1>5 DEF WaitsNext

LEMMA WaitsStutterKeeps == ASSUME WaitsInv, UNCHANGED waitsVars PROVE WaitsInv'
<1>1. Calm
  BY ItemStays DEF WaitsInv, TypeOK, waitsVars, Calm
<1> QED BY <1>1, CalmKeeps

(* The record of a wait, its absence, and the row a look works from always      *)
(* agree with what the newest hold asked for: the inductive invariant above.   *)
THEOREM WaitsInvariance == ASSUME WaitsAssumption PROVE WaitsSpec => []WaitsInv
<1>1. WaitsInv /\ [WaitsNext]_waitsVars => WaitsInv'
  BY WaitsAssumption, WaitsNextKeeps, WaitsStutterKeeps
<1> QED BY <1>1, WaitsInitHolds, PTL DEF WaitsSpec

------------------------------------------------------------------------------
(* Only one step ends a wait that is over, and one decides on a look.         *)
LEMMA ResumesAlone ==
  ASSUME WaitsInv, [WaitsNext]_waitsVars, step.do = "resume", step'.do = "clear" PROVE Resumes
<1>1. step # Idle /\ step' # step
  BY DEF Idle
<1>2. ~(ShipHolds \/ LaunchFails \/ Conflicts \/ Migrates \/ _setup_failure \/ Rebuilds)
  BY <1>1 DEF ShipHolds, LaunchFails, Conflicts, Migrates, _setup_failure, Rebuilds, Begin, Together
<1>3. ~(hold \/ Records \/ Tunes \/ Gates \/ _backstop \/ _recheck_item \/ WakeMet \/ WakeUnmet \/ WakeRaises
        \/ clear \/ Goes)
  BY DEF hold, Records, Tunes, Gates, _backstop, _recheck_item, WakeMet, WakeUnmet, WakeRaises, clear, Goes
<1>4. ~(MigratesNothing \/ Lists \/ resume_item \/ Parks \/ Answers \/ Sorted \/ Starts \/ Delivers \/ Clock)
  BY <1>1 DEF MigratesNothing, Lists, resume_item, Parks, Answers, Sorted, Starts, Delivers, Clock
<1>5. ~(SessionClaims \/ SessionReleases \/ SessionShips \/ PassDies \/ UNCHANGED waitsVars)
  BY <1>1 DEF SessionClaims, SessionReleases, SessionShips, PassDies, Idle, waitsVars
<1> QED BY <1>2, <1>3, <1>4, <1>5 DEF WaitsNext

LEMMA RecheckAlone ==
  ASSUME WaitsInv, [WaitsNext]_waitsVars, step.do = "look", step'.do \in {"ask", "wake", "idle"}, crashes' = crashes
  PROVE  _recheck_item
<1>1. step # Idle /\ step' # step
  BY DEF Idle
<1>2. ~(ShipHolds \/ LaunchFails \/ Conflicts \/ Migrates \/ _setup_failure \/ Rebuilds)
  BY <1>1 DEF ShipHolds, LaunchFails, Conflicts, Migrates, _setup_failure, Rebuilds, Begin, Together
<1>3. ~(hold \/ Records \/ Tunes \/ Gates \/ _backstop \/ Resumes \/ WakeMet \/ WakeUnmet \/ WakeRaises
        \/ clear \/ Goes)
  BY DEF hold, Records, Tunes, Gates, _backstop, Resumes, WakeMet, WakeUnmet, WakeRaises, clear, Goes
<1>4. ~(MigratesNothing \/ Lists \/ resume_item \/ Parks \/ Answers \/ Sorted \/ Starts \/ Delivers \/ Clock)
  BY <1>1 DEF MigratesNothing, Lists, resume_item, Parks, Answers, Sorted, Starts, Delivers, Clock
<1>5. ~(SessionClaims \/ SessionReleases \/ SessionShips \/ PassDies \/ UNCHANGED waitsVars)
  BY <1>1 DEF SessionClaims, SessionReleases, SessionShips, PassDies, waitsVars, WaitsInv, TypeOK
<1> QED BY <1>2, <1>3, <1>4, <1>5 DEF WaitsNext

LEMMA AsksInTime ==
  ASSUME WaitsAssumption, WaitsInv, [WaitsNext]_waitsVars,
         step.do = "look", step'.do \in {"ask", "wake", "idle"}, crashes' = crashes
  PROVE  step'.do = "ask" <=> now - step.row.at >= Limit
<1>1. _recheck_item
  BY RecheckAlone
<1>2. step \in [do : {"look", "ask", "wake", "resume"}, row : ItemType]
  BY Shapes DEF WaitsInv, TypeOK
<1>3. record'.since = step.row.at
  <2>1. CASE Stale(step.row)
    BY <1>1, <2>1 DEF _recheck_item, _fresh_record
  <2>2. CASE ~Stale(step.row)
    BY <1>1, <2>2 DEF _recheck_item, Stale, WaitsInv, RowOK, Recorded
  <2> QED BY <2>1, <2>2
<1>4. step'.do = "ask" <=> now - record'.since >= Limit
  BY <1>1, <1>2 DEF _recheck_item, Idle
<1> QED BY <1>3, <1>4

(* A wait ends where the hold that began it asked, or in the build queue when   *)
(* that was lost; and the owner is asked at the first look after the limit.    *)
THEOREM WaitsEndAsAsked == ASSUME WaitsAssumption PROVE WaitsSpec => WaitsAreTrue
<1>1. WaitsInv /\ [WaitsNext]_waitsVars =>
        [step.do = "resume" /\ step'.do = "clear" =>
           item'.state = IF asked.kept THEN asked.resume ELSE "ready"]_waitsVars
  <2> SUFFICES ASSUME WaitsInv, [WaitsNext]_waitsVars, step.do = "resume", step'.do = "clear"
               PROVE  item'.state = IF asked.kept THEN asked.resume ELSE "ready"
    OBVIOUS
  <2>1. item'.state = record.resume
    BY ResumesAlone, ResumesIsCalm
  <2> QED BY <2>1 DEF WaitsInv, DueOK, Due
<1>2. WaitsInv /\ [WaitsNext]_waitsVars =>
        [step.do = "look" /\ step'.do \in {"ask", "wake", "idle"} /\ crashes' = crashes =>
           (step'.do = "ask" <=> now - step.row.at >= Limit)]_waitsVars
  BY WaitsAssumption, AsksInTime
<1> QED BY <1>1, <1>2, WaitsInvariance, WaitsAssumption, PTL DEF WaitsSpec, WaitsAreTrue, ResumedAsAsked, AskedInTime
===============================================================================
