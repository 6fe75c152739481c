---------------------------- MODULE LifecycleProofs ----------------------------
(* Proofs about Lifecycle, for every set of items, runs and sessions, every     *)
(* limit and any allowance of cut-off passes, lapses, orders and commands.     *)
EXTENDS Lifecycle, TLAPS

ItemType == [state : States, attempts : Nat, pr : BOOLEAN, fails : Nat]
RunType == [row : {"none", "running", "stopping", "ended"}, i : Items \cup {Nobody}, epoch : Nat,
            pid : BOOLEAN, reason : Reasons, yielding : BOOLEAN]
RowType == [i : Items, h : Holders \cup {Nobody}, e : Nat]

(* Where the daemon may be, with what it carries from one transaction to the   *)
(* next; and where a session's command may be.                                 *)
Handling == {"closed", "drop_any", "refused", "watch", "drop"}
StepType ==
  {Idle}
  \cup [at : {"claim"}, i : Items, r : Runs]
  \cup [at : {"launch", "record", "working", "backoff"}, i : Items, r : Runs, epoch : Nat]
  \cup [at : {"outcome"}, r : Runs, attempts : Nat, closed : BOOLEAN]
  \cup [at : {"books", "end"}, r : Runs]
  \cup [at : Handling, i : Items]

SessionType ==
  {Idle} \cup [at : {"claimed"}, i : Items]
  \cup [at : {"shipping", "handing"}, i : Items, cur : BOOLEAN, retry : BOOLEAN]

TypeOK ==
  /\ LifecycleTypeOK
  /\ step \in StepType
  /\ session \in [Sessions -> SessionType]

TodoOK ==
  /\ pass = "watchdog" => todo \subseteq {r \in Runs : run[r].row # "none"}
  /\ pass \in {"sync", "sweep_items", "schedule", "recheck", "ship"} => todo \subseteq Items
  /\ pass \in {"expire", "sweep_leases"} => todo \subseteq RowType

(* A run has its item from the start, and no token before it is recorded.      *)
RunsOK == \A r \in Runs : IF run[r].row = "none" THEN run[r].epoch = 0 ELSE run[r].i \in Items

(* What it means that e was the token of a grant of i to r: no newer than the   *)
(* item's epoch, and r still holds the item exactly when it is the newest.      *)
Token(i, r, e) == e <= epoch[i] /\ (Held(i) => (holder[i] = r <=> epoch[i] = e))

HoldsLive(r) == Live(run[r].i) /\ holder[run[r].i] = r

(* A lease was granted; a run only ever holds its own item; the epoch in its    *)
(* row is the token of its grant.                                             *)
HeldIsGranted == \A i \in Items : Held(i) => epoch[i] > 0
HoldersHaveRows ==
  \A i \in Items, r \in Runs : Held(i) /\ holder[i] = r => run[r].row # "none" /\ run[r].i = i
RecordsAreTokens ==
  \A r \in Runs : run[r].epoch # 0 => Token(run[r].i, r, run[r].epoch)

LeasesOK == HeldIsGranted /\ HoldersHaveRows /\ RecordsAreTokens /\ EndedRunHoldsNothing

(* The daemon between two transactions: the run it starts is its own and has    *)
(* no token on record yet; the run it finalizes exists, and past the books it   *)
(* has let go.                                                                *)
StepOK ==
  /\ step.at \in {"claim", "launch", "record", "working"} =>
       run[step.r].row = "running" /\ run[step.r].i = step.i
  /\ step.at \in {"claim", "launch", "record"} => run[step.r].epoch = 0
  /\ step.at \in {"launch", "record"} => Token(step.i, step.r, step.epoch)
  /\ step.at \in {"outcome", "books", "end"} => run[step.r].row # "none"
  /\ step.at = "end" => run[step.r].epoch = 0 \/ ~HoldsLive(step.r)

IInv == TypeOK /\ TodoOK /\ RunsOK /\ LeasesOK /\ StepOK

------------------------------------------------------------------------------
(* What most steps do to the ledger.  A lease stays, ends, or is granted to     *)
(* somebody who is no run; no run's lease comes back to life, but for the       *)
(* watchdog's heartbeat of a running run, between two handlers.                *)
Kept(i) == epoch'[i] = epoch[i] /\ (Held(i)' => Held(i) /\ holder'[i] = holder[i])
Granted(i) == epoch'[i] = epoch[i] + 1 /\ holder'[i] \notin Runs

FencesMove == FenceTypeOK' /\ \A i \in Items : Kept(i) \/ Granted(i)
Unrevived == \A i \in Items : Live(i)' /\ holder'[i] \in Runs => Live(i)
HeartBeat ==
  /\ step = Idle /\ step' = Idle
  /\ \A i \in Items : Live(i)' /\ holder'[i] \in Runs => Live(i) \/ run[holder'[i]].row = "running"

ItemsMove == item' \in [Items -> ItemType]

(* A row keeps its item and its epoch; it ends here only before a token was     *)
(* recorded in it, or when the run has let go.                                *)
RowMoves(r) ==
  \/ run'[r].row = run[r].row
  \/ step = Idle /\ step' = Idle /\ run[r].row = "running" /\ run'[r].row = "stopping"
  \/ /\ step # Idle /\ step'.at \in {"idle", "backoff"}
     /\ run[r].row # "none" /\ run'[r].row = "ended"
     /\ run[r].epoch = 0 \/ ~HoldsLive(r)

RunsMove ==
  /\ run' \in [Runs -> RunType]
  /\ \A r \in Runs : run'[r].i = run[r].i /\ run'[r].epoch = run[r].epoch /\ RowMoves(r)

RestMoves ==
  /\ proc' \in [Runs -> {"none", "alive", "gone"}]
  /\ closed' \subseteq Items
  /\ charges' \in [Runs -> Nat]
  /\ session' \in [Sessions -> SessionType]

Moves ==
  /\ FencesMove /\ (Unrevived \/ HeartBeat)
  /\ ItemsMove /\ RunsMove /\ RestMoves
  /\ step' \in StepType

TodoMoves == pass' = pass /\ todo' \subseteq todo
StepMoves == step' = step \/ step'.at \in Handling \cup {"idle", "backoff"}

LEMMA TokensLast ==
  ASSUME TypeOK, FencesMove
  PROVE  \A i \in Items, r \in Runs, e \in Nat :
           /\ Token(i, r, e) => Token(i, r, e)'
           /\ Held(i)' /\ holder'[i] = r => Held(i) /\ holder[i] = r
BY DEF FencesMove, Kept, Granted, Token, TypeOK, LifecycleTypeOK, FenceTypeOK

(* Such a step keeps what is said of the rows and the leases.                 *)
LEMMA LedgerKeeps ==
  ASSUME IInv, Moves, pass' \in DOMAIN After
  PROVE  (TypeOK /\ RunsOK /\ LeasesOK)'
<1> USE DEF IInv, Moves
<1>1. TypeOK'
  BY DEF TypeOK, LifecycleTypeOK, ItemsMove, RunsMove, FencesMove, RestMoves, ItemType, RunType
<1>2. RunsOK'
  BY DEF RunsOK, RunsMove, RowMoves
<1>3. HeldIsGranted'
  BY DEF LeasesOK, HeldIsGranted, FencesMove, Kept, Granted, TypeOK, LifecycleTypeOK, FenceTypeOK
<1>4. HoldersHaveRows'
  BY TokensLast DEF LeasesOK, HoldersHaveRows, RunsMove, RowMoves
<1>5. RecordsAreTokens'
  BY TokensLast DEF LeasesOK, RecordsAreTokens, RunsMove, RowMoves, RunsOK, TypeOK, LifecycleTypeOK
<1>6. EndedRunHoldsNothing'
  BY TokensLast DEF LeasesOK, EndedRunHoldsNothing, HoldersHaveRows, HoldsLive, RunsMove, RowMoves, RunsOK,
                    Unrevived, HeartBeat, Held, Live, TypeOK, LifecycleTypeOK, Idle
<1> QED BY <1>1, <1>2, <1>3, <1>4, <1>5, <1>6 DEF LeasesOK

LEMMA TodoKeeps == ASSUME IInv, Moves, TodoMoves PROVE TodoOK'
BY DEF IInv, Moves, TodoOK, TodoMoves, RunsMove, RowMoves

(* And the whole invariant, if the daemon does not begin or end anything.     *)
LEMMA MovesKeep ==
  ASSUME IInv, Moves, TodoMoves, StepMoves
  PROVE  IInv'
<1> USE DEF IInv
<1>1. (TypeOK /\ RunsOK /\ LeasesOK)' /\ TodoOK'
  <2>1. pass' \in DOMAIN After
    BY DEF TypeOK, LifecycleTypeOK, TodoMoves
  <2> QED BY <2>1, LedgerKeeps, TodoKeeps
<1>2. StepOK'
  <2> USE DEF Moves
  <2>1. CASE step'.at \in Handling \cup {"idle", "backoff"}
    BY <2>1 DEF StepOK, Handling
  <2>2. CASE step' = step /\ step'.at \notin Handling \cup {"idle", "backoff"}
    BY <2>2, TokensLast DEF StepOK, RunsMove, RowMoves, StepType, Handling, Idle, RunsOK, Unrevived,
                            HeartBeat, HoldsLive, Held, Live, TypeOK, LifecycleTypeOK
  <2> QED BY <2>1, <2>2 DEF StepMoves
<1> QED BY <1>1, <1>2

------------------------------------------------------------------------------
(* The ledger's operations are such moves.                                    *)
FenceQuiet == FencesMove /\ Unrevived

LEMMA FenceStays == ASSUME TypeOK, UNCHANGED fenceVars PROVE FenceQuiet
BY DEF FenceQuiet, FencesMove, Kept, Unrevived, TypeOK, LifecycleTypeOK, FenceTypeOK, fenceVars, Held, Live

LEMMA GivesUp == ASSUME TypeOK, NEW i \in Items, GiveUp(i) PROVE FenceQuiet
BY DEF GiveUp, FenceQuiet, FencesMove, Kept, Unrevived, TypeOK, LifecycleTypeOK, FenceTypeOK, Held, Live

LEMMA Lapses == ASSUME TypeOK, NEW S, Lapse(S) PROVE FenceQuiet
BY DEF Lapse, FenceQuiet, FencesMove, Kept, Unrevived, TypeOK, LifecycleTypeOK, FenceTypeOK, Held, Live

(* A claim by the conductor or a session.                                     *)
LEMMA OthersClaim ==
  ASSUME TypeOK, NEW i \in Items, NEW h \in Holders \ Runs, NEW steal, NEW from, claim(i, h, steal, from)
  PROVE  FenceQuiet
<1>1. CASE UNCHANGED fenceVars
  BY <1>1, FenceStays
<1>2. CASE Grant(i, h, steal, from)
  BY <1>2 DEF Grant, FenceQuiet, FencesMove, Kept, Granted, Unrevived, TypeOK, LifecycleTypeOK, FenceTypeOK,
              Held, Live
<1> QED BY <1>1, <1>2 DEF claim

LEMMA ItemsStay == ASSUME TypeOK, UNCHANGED item PROVE ItemsMove
BY DEF ItemsMove, ItemType, TypeOK, LifecycleTypeOK

LEMMA StatesSet == ASSUME TypeOK, NEW i, NEW s \in States, set_state(i, s) PROVE ItemsMove
BY ZenonT(60) DEF set_state, ItemsMove, ItemType, TypeOK, LifecycleTypeOK

LEMMA Releases == ASSUME TypeOK, NEW i \in Items, NEW h, NEW e, release(i, h, e) PROVE FenceQuiet /\ ItemsMove
<1>1. FenceQuiet
  BY GivesUp, FenceStays DEF release, fenceVars
<1>2. ItemsMove
  <2>1. CASE UNCHANGED item
    BY <2>1, ItemsStay
  <2> DEFINE s == IF item[i].state = "working" THEN "ready" ELSE item[i].state
  <2>2. CASE set_state(i, s)
    <3>1. s \in States
      BY DEF States, TypeOK, LifecycleTypeOK
    <3> QED BY <2>2, <3>1, StatesSet
  <2> QED BY <2>1, <2>2 DEF release, set_state
<1> QED BY <1>1, <1>2

LEMMA LeaseReleases == ASSUME TypeOK, NEW i \in Items, NEW h, NEW e, release_lease(i, h, e) PROVE FenceQuiet
BY GivesUp, FenceStays DEF release_lease

LEMMA RunsStay == ASSUME TypeOK, UNCHANGED run PROVE RunsMove
BY DEF RunsMove, RowMoves, RunType, TypeOK, LifecycleTypeOK

LEMMA StopsAsked == ASSUME TypeOK, NEW rs, NEW why \in Reasons, request_stop(rs, why) PROVE RunsMove
BY ZenonT(60) DEF request_stop, RunsMove, RowMoves, RunType, TypeOK, LifecycleTypeOK

(* What the daemon carries, by where it is.                                   *)
LEMMA Shapes ==
  ASSUME NEW s \in StepType
  PROVE  /\ s.at = "claim" => s \in [at : {"claim"}, i : Items, r : Runs]
         /\ s.at \in {"launch", "record", "working", "backoff"} =>
              s \in [at : {"launch", "record", "working", "backoff"}, i : Items, r : Runs, epoch : Nat]
         /\ s.at = "outcome" => s \in [at : {"outcome"}, r : Runs, attempts : Nat, closed : BOOLEAN]
         /\ s.at \in {"books", "end"} => s \in [at : {"books", "end"}, r : Runs]
         /\ s.at \in Handling => s \in [at : Handling, i : Items]
BY DEF StepType, Idle, Handling

LEMMA SessionShapes ==
  ASSUME NEW s \in SessionType
  PROVE  /\ s.at = "claimed" => s \in [at : {"claimed"}, i : Items]
         /\ s.at \in {"shipping", "handing"} =>
              s \in [at : {"shipping", "handing"}, i : Items, cur : BOOLEAN, retry : BOOLEAN]
BY DEF SessionType, Idle

------------------------------------------------------------------------------
(* Scheduling and starting.                                                   *)
LEMMA SchedulesMove ==
  ASSUME IInv,
         \/ \E i \in Items : Skip(i)
         \/ Launch \/ LaunchFails \/ Backoff \/ MarkWorking
  PROVE  Moves /\ TodoMoves /\ (StepMoves \/ Launch)
<1> USE DEF IInv, Quiet, Resume, Visit, Finish
<1>0. RestMoves \/ Launch
  BY DEF Skip, LaunchFails, Backoff, MarkWorking, RestMoves, TypeOK, LifecycleTypeOK, dataVars
<1>1. ASSUME NEW i \in Items, Skip(i) PROVE Moves /\ TodoMoves /\ StepMoves
  BY <1>1, <1>0, FenceStays, ItemsStay, RunsStay
     DEF Skip, Launch, Moves, TodoMoves, StepMoves, FenceQuiet, dataVars, TypeOK, Idle, RestMoves, LifecycleTypeOK
<1>2. CASE Launch
  <2>1. step \in [at : {"launch", "record", "working", "backoff"}, i : Items, r : Runs, epoch : Nat]
    BY <1>2, Shapes DEF Launch, TypeOK
  <2>2. step' \in StepType
    BY <1>2, <2>1 DEF Launch, StepType
  <2>3. RestMoves
    BY <1>2, <2>1 DEF Launch, RestMoves, TypeOK, LifecycleTypeOK
  <2> QED BY <1>2, <2>2, <2>3, FenceStays, ItemsStay, RunsStay DEF Launch, Moves, TodoMoves, FenceQuiet
<1>3. CASE LaunchFails
  <2>1. step \in [at : {"launch", "record", "working", "backoff"}, i : Items, r : Runs, epoch : Nat]
    BY <1>3, Shapes DEF LaunchFails, TypeOK
  <2>2. step' \in StepType /\ step'.at = "backoff"
    BY <1>3, <2>1 DEF LaunchFails, StepType
  <2>3. RunsMove
    BY <1>3, <2>1, <2>2, SMTT(30) DEF LaunchFails, RunsMove, RowMoves, RunType, StepOK, Idle, TypeOK, LifecycleTypeOK
  <2>4. FenceQuiet /\ ItemsMove
    BY <1>3, <2>1, Releases DEF LaunchFails
  <2>5. RestMoves
    BY <1>3 DEF LaunchFails, RestMoves, TypeOK, LifecycleTypeOK
  <2> QED BY <1>3, <2>2, <2>3, <2>4, <2>5 DEF LaunchFails, Moves, TodoMoves, StepMoves, FenceQuiet
<1>4. CASE Backoff
  <2>1. step \in [at : {"launch", "record", "working", "backoff"}, i : Items, r : Runs, epoch : Nat]
    BY <1>4, Shapes DEF Backoff, TypeOK
  <2>2. ItemsMove
    <3> DEFINE was == item[step.i].state
               s(n) == IF was \notin {"ready", "waiting", "verifying", "working"} THEN was
                       ELSE IF n >= LaunchFailLimit THEN "parked"
                       ELSE IF was \in {"ready", "waiting"} THEN "waiting"
                       ELSE was
    <3>1. PICK n \in {1, item[step.i].fails + 1} :
            item' = [item EXCEPT ![step.i].fails = n, ![step.i].state = s(n)]
      BY <1>4 DEF Backoff
    <3>2. item[step.i] \in ItemType
      BY <2>1 DEF TypeOK, LifecycleTypeOK, ItemType
    <3>3. s(n) \in States /\ n \in Nat
      BY <3>2 DEF States, ItemType
    <3> HIDE DEF s
    <3> QED BY <2>1, <3>1, <3>3 DEF ItemsMove, ItemType, TypeOK, LifecycleTypeOK
  <2>3. RestMoves /\ step' \in StepType /\ step'.at = "idle"
    BY <1>4 DEF Backoff, RestMoves, StepType, Idle, TypeOK, LifecycleTypeOK
  <2> QED BY <1>4, <2>2, <2>3, FenceStays, RunsStay DEF Backoff, Moves, TodoMoves, StepMoves, FenceQuiet
<1>5. CASE MarkWorking
  <2>1. step \in [at : {"launch", "record", "working", "backoff"}, i : Items, r : Runs, epoch : Nat]
    BY <1>5, Shapes DEF MarkWorking, TypeOK
  <2>2. ItemsMove
    BY <1>5, <2>1 DEF MarkWorking, ItemsMove, ItemType, States, TypeOK, LifecycleTypeOK
  <2>3. RestMoves /\ step' \in StepType /\ step'.at = "idle"
    BY <1>5 DEF MarkWorking, RestMoves, StepType, Idle, TypeOK, LifecycleTypeOK
  <2> QED BY <1>5, <2>2, <2>3, FenceStays, RunsStay DEF MarkWorking, Moves, TodoMoves, StepMoves, FenceQuiet
<1> QED BY <1>1, <1>2, <1>3, <1>4, <1>5

------------------------------------------------------------------------------
(* The watchdog's visits, and the end of a run.                               *)
LEMMA BeatMoves ==
  ASSUME IInv, NEW r \in Runs, Beat(r), Healthy(r), step = Idle, step' = Idle
  PROVE  FencesMove /\ (Unrevived \/ HeartBeat)
<1> USE DEF IInv
<1>1. CASE UNCHANGED fenceVars
  BY <1>1, FenceStays DEF FenceQuiet
<1>2. CASE StillOurs(r) /\ Revive(run[r].i)
  <2>1. run[r].i \in Items
    BY DEF Healthy, RunsOK
  <2>2. FencesMove
    BY <1>2, <2>1 DEF Revive, StillOurs, FencesMove, Kept, TypeOK, LifecycleTypeOK, FenceTypeOK, Held
  <2>3. HeartBeat
    BY <1>2, <2>1 DEF Revive, StillOurs, HeartBeat, Healthy, TypeOK, LifecycleTypeOK, FenceTypeOK, Live, Held
  <2> QED BY <2>2, <2>3
<1> QED BY <1>1, <1>2 DEF Beat

LEMMA WatchesMove ==
  ASSUME IInv, NEW r \in Runs,
         WatchInGrace(r) \/ WatchKill(r) \/ WatchBeat(r) \/ WatchStop(r)
  PROVE  Moves /\ TodoMoves /\ StepMoves
<1> USE DEF IInv, Quiet, Visit, dataVars
<1>1. step = Idle /\ step' = Idle /\ step' \in StepType /\ TodoMoves /\ StepMoves
  BY DEF WatchInGrace, WatchKill, WatchBeat, WatchStop, StepType, TodoMoves, StepMoves
<1>2. RestMoves /\ ItemsMove
  BY ItemsStay DEF WatchInGrace, WatchKill, WatchBeat, WatchStop, RestMoves, TypeOK, LifecycleTypeOK
<1>3. FencesMove /\ (Unrevived \/ HeartBeat)
  <2>1. CASE UNCHANGED fenceVars
    BY <2>1, FenceStays DEF FenceQuiet
  <2>2. CASE Healthy(r) /\ Beat(r)
    BY <2>2, <1>1, BeatMoves
  <2> QED BY <2>1, <2>2 DEF WatchInGrace, WatchKill, WatchBeat, WatchStop
<1>4. RunsMove
  <2>1. CASE UNCHANGED run
    BY <2>1, RunsStay
  <2>2. CASE WatchStop(r)
    <3>1. PICK why \in Reasons : run' = [run EXCEPT ![r].row = "stopping", ![r].reason = why]
      BY <2>2 DEF WatchStop, Reasons, TypeOK, LifecycleTypeOK
    <3>2. run[r].row = "running"
      BY <2>2 DEF WatchStop, Healthy
    <3> QED BY <1>1, <3>1, <3>2, ZenonT(60) DEF RunsMove, RowMoves, RunType, TypeOK, LifecycleTypeOK
  <2> QED BY <2>1, <2>2 DEF WatchInGrace, WatchKill, WatchBeat
<1> QED BY <1>1, <1>2, <1>3, <1>4 DEF Moves

LEMMA EndRowMoves == ASSUME IInv, EndRow PROVE Moves /\ TodoMoves /\ StepMoves
<1> USE DEF IInv, Quiet, Resume, Finish, EndRow
<1>1. step \in [at : {"books", "end"}, r : Runs]
  BY Shapes DEF TypeOK
<1>2. step' \in StepType /\ StepMoves /\ TodoMoves /\ step # Idle /\ step'.at = "idle"
  BY DEF StepType, StepMoves, TodoMoves, Idle
<1>3. RunsMove
  BY <1>1, <1>2 DEF RunsMove, RowMoves, RunType, StepOK, TypeOK, LifecycleTypeOK
<1>4. RestMoves
  BY DEF RestMoves, TypeOK, LifecycleTypeOK
<1> QED BY <1>1, <1>2, <1>3, <1>4, FenceStays, ItemsStay DEF Moves, FenceQuiet

------------------------------------------------------------------------------
(* Sync, expiry, the sweeps, the conductor.                                   *)
LEMMA SyncsMove == ASSUME IInv, Syncs PROVE Moves /\ TodoMoves /\ StepMoves
<1> USE DEF IInv, Quiet, Visit, Resume, Finish, dataVars
<1>1. RestMoves
  BY DEF Syncs, SyncNothing, SyncClosedStops, SyncClosedReleases, SyncMergedShips, OwnerGo, OwnerPark,
         MarkClosed, DropAny, RestMoves, TypeOK, LifecycleTypeOK
<1>2. ASSUME NEW i \in Items, SyncNothing(i) \/ SyncClosedStops(i) PROVE Moves /\ TodoMoves /\ StepMoves
  <2>1. RunsMove
    BY <1>2, RunsStay, StopsAsked DEF SyncNothing, SyncClosedStops, Reasons
  <2> QED BY <1>1, <1>2, <2>1, FenceStays, ItemsStay
          DEF SyncNothing, SyncClosedStops, Moves, TodoMoves, StepMoves, FenceQuiet, TypeOK
<1>3. ASSUME NEW i \in Items, SyncClosedReleases(i) PROVE Moves /\ TodoMoves /\ StepMoves
  <2>1. step' \in StepType /\ step'.at \in Handling
    BY <1>3 DEF SyncClosedReleases, StepType, Handling
  <2> QED BY <1>1, <1>3, <2>1, Releases, RunsStay
          DEF SyncClosedReleases, Moves, TodoMoves, StepMoves, FenceQuiet
<1>4. ASSUME NEW i \in Items, SyncMergedShips(i) PROVE Moves /\ TodoMoves /\ StepMoves
  <2>1. step' \in StepType /\ step'.at \in Handling
    BY <1>4 DEF SyncMergedShips, StepType, Handling
  <2>2. ItemsMove
    BY <1>4, StatesSet DEF SyncMergedShips, States
  <2> QED BY <1>1, <1>4, <2>1, <2>2, FenceStays, RunsStay
          DEF SyncMergedShips, Moves, TodoMoves, StepMoves, FenceQuiet
<1>5. ASSUME NEW i \in Items, OwnerGo(i) PROVE Moves /\ TodoMoves /\ StepMoves
  <2> DEFINE s == IF item[i].pr THEN "verifying" ELSE "ready"
  <2>0. s \in States
    BY DEF States
  <2>1. ItemsMove
    <3>1. item' = [item EXCEPT ![i].state = s, ![i].attempts = 0, ![i].fails = 0]
      BY <1>5 DEF OwnerGo
    <3>2. \A j \in Items : item[j] \in ItemType
      BY DEF ItemType, TypeOK, LifecycleTypeOK
    <3> HIDE DEF s
    <3>3. [item[i] EXCEPT !.state = s, !.attempts = 0, !.fails = 0] \in ItemType
      BY <2>0, <3>2 DEF ItemType
    <3>4. item' = [item EXCEPT ![i] = [item[i] EXCEPT !.state = s, !.attempts = 0, !.fails = 0]]
      BY <3>1, <3>2 DEF ItemType, TypeOK, LifecycleTypeOK
    <3> QED BY <3>2, <3>3, <3>4 DEF ItemsMove, ItemType, TypeOK, LifecycleTypeOK
  <2> QED BY <1>1, <1>5, <2>1, FenceStays, RunsStay DEF OwnerGo, Moves, TodoMoves, StepMoves, FenceQuiet, TypeOK
<1>6. ASSUME NEW i \in Items, OwnerPark(i) PROVE Moves /\ TodoMoves /\ StepMoves
  <2>1. ItemsMove /\ RunsMove
    BY <1>6, StatesSet, StopsAsked DEF OwnerPark, States, Reasons
  <2> QED BY <1>1, <1>6, <2>1, FenceStays DEF OwnerPark, Moves, TodoMoves, StepMoves, FenceQuiet, TypeOK
<1>7. CASE MarkClosed \/ DropAny
  <2>1. step.i \in Items
    BY <1>7, Shapes DEF MarkClosed, DropAny, TypeOK, Handling
  <2>2. FenceQuiet /\ ItemsMove
    BY <1>7, <2>1, Releases, StatesSet, FenceStays DEF MarkClosed, DropAny, States
  <2>3. step' \in StepType /\ step'.at = "idle"
    BY <1>7 DEF MarkClosed, DropAny, StepType, Idle
  <2> QED BY <1>1, <1>7, <2>2, <2>3, RunsStay DEF MarkClosed, DropAny, Moves, TodoMoves, StepMoves, FenceQuiet
<1> QED BY <1>2, <1>3, <1>4, <1>5, <1>6, <1>7 DEF Syncs

LEMMA ExpiresMove == ASSUME IInv, Expires PROVE Moves /\ TodoMoves /\ StepMoves
<1> USE DEF IInv, Quiet, Visit, dataVars
<1>1. PICK x \in todo : \/ ExpireSkips(x) \/ ExpireRevives(x) \/ ExpireReleases(x)
                       \/ SweepItem(x) \/ SweepLease(x) \/ RecheckWaits(x) \/ RecheckResumes(x)
  BY DEF Expires
<1>2. TodoMoves /\ StepMoves /\ step' \in StepType /\ RestMoves /\ RunsMove
  BY <1>1, RunsStay DEF ExpireSkips, ExpireRevives, ExpireReleases, SweepItem, SweepLease, RecheckWaits,
     RecheckResumes, TodoMoves, StepMoves, RestMoves, TypeOK, LifecycleTypeOK
<1>3. CASE ExpireSkips(x) \/ RecheckWaits(x)
  BY <1>2, <1>3, FenceStays, ItemsStay DEF ExpireSkips, RecheckWaits, Moves, FenceQuiet
<1>4. CASE ExpireRevives(x) \/ SweepLease(x) \/ ExpireReleases(x)
  <2>1. x.i \in Items
    BY <1>4 DEF ExpireRevives, SweepLease, ExpireReleases, TodoOK, RowType
  <2>2. FenceQuiet /\ ItemsMove
    <3>1. CASE ExpireReleases(x)
      BY <2>1, <3>1, Releases DEF ExpireReleases
    <3>2. CASE SweepLease(x)
      BY <2>1, <3>2, LeaseReleases, ItemsStay DEF SweepLease
    <3>3. CASE ExpireRevives(x) /\ UNCHANGED fenceVars
      BY <3>3, FenceStays, ItemsStay DEF ExpireRevives
    <3>4. CASE ExpireRevives(x) /\ holder[x.i] \in Sessions /\ Revive(x.i)
      <4>1. FenceQuiet
        BY <2>1, <3>4, HoldersAssumption
           DEF Revive, FenceQuiet, FencesMove, Kept, Unrevived, TypeOK, LifecycleTypeOK, FenceTypeOK, Held, Live
      <4> QED BY <4>1, <3>4, ItemsStay DEF ExpireRevives
    <3> QED BY <1>4, <3>1, <3>2, <3>3, <3>4 DEF ExpireRevives, Row
  <2> QED BY <1>2, <2>2 DEF Moves, FenceQuiet
<1>5. CASE SweepItem(x) \/ RecheckResumes(x)
  <2>1. ItemsMove
    BY <1>5, StatesSet DEF SweepItem, RecheckResumes, States
  <2> QED BY <1>2, <1>5, <2>1, FenceStays DEF SweepItem, RecheckResumes, Moves, FenceQuiet
<1> QED BY <1>1, <1>3, <1>4, <1>5

LEMMA ShipsMove == ASSUME IInv, Ships PROVE Moves /\ TodoMoves /\ StepMoves
<1> USE DEF IInv, Quiet, Visit, Resume, Finish, dataVars
<1>1. RestMoves /\ TodoMoves /\ RunsMove
  BY RunsStay DEF Ships, ShipRefused, ShipClaims, HandBack, ShipOpens, ShipMerged, ShipRebuilds, DropConductor,
     RestMoves, TodoMoves, TypeOK, LifecycleTypeOK
<1>2. ASSUME NEW i \in Items, ShipRefused(i) \/ ShipClaims(i) PROVE Moves /\ StepMoves
  <2>1. step' \in StepType /\ step'.at \in Handling
    <3>1. step' = [at |-> "refused", i |-> i] \/ step' = [at |-> "watch", i |-> i]
      BY <1>2 DEF ShipRefused, ShipClaims
    <3> QED BY <3>1 DEF StepType, Handling
  <2>2. Conductor \in Holders \ Runs
    BY HoldersAssumption DEF Holders, Autos
  <2>3. FenceQuiet /\ ItemsMove
    BY <1>2, <2>2, OthersClaim, FenceStays, ItemsStay DEF ShipRefused, ShipClaims
  <2> QED BY <1>1, <2>1, <2>3 DEF Moves, StepMoves, FenceQuiet
<1>3. CASE HandBack \/ ShipOpens \/ ShipMerged \/ ShipRebuilds \/ DropConductor
  <2>1. step \in [at : Handling, i : Items]
    BY <1>3, Shapes DEF HandBack, ShipOpens, ShipMerged, ShipRebuilds, DropConductor, TypeOK, Handling
  <2>2. step' \in StepType /\ step'.at \in Handling \cup {"idle"}
    BY <1>3, <2>1 DEF HandBack, ShipOpens, ShipMerged, ShipRebuilds, DropConductor, StepType, Idle, Handling
  <2>3. FenceQuiet
    BY <1>3, <2>1, Releases, FenceStays DEF HandBack, ShipOpens, ShipMerged, ShipRebuilds, DropConductor
  <2>4. ItemsMove
    <3>1. CASE HandBack \/ ShipMerged
      BY <3>1, StatesSet DEF HandBack, ShipMerged, States
    <3>2. CASE DropConductor
      BY <2>1, <3>2, Releases DEF DropConductor
    <3>3. CASE ShipOpens
      BY <2>1, <3>3, ZenonT(60) DEF ShipOpens, ItemsMove, ItemType, TypeOK, LifecycleTypeOK
    <3>4. CASE ShipRebuilds
      <4>1. "ready" \in States
        BY DEF States
      <4> QED BY <2>1, <3>4, <4>1 DEF ShipRebuilds, ItemsMove, ItemType, TypeOK, LifecycleTypeOK
    <3> QED BY <1>3, <3>1, <3>2, <3>3, <3>4
  <2> QED BY <1>1, <2>2, <2>3, <2>4 DEF Moves, StepMoves, FenceQuiet
<1> QED BY <1>1, <1>2, <1>3 DEF Ships

------------------------------------------------------------------------------
(* Everybody else.                                                            *)
LEMMA SessionsMove == ASSUME IInv, SessionActs PROVE Moves /\ TodoMoves /\ StepMoves
<1> USE DEF IInv, SessionUnchanged, daemonVars
<1>1. TodoMoves /\ StepMoves /\ step' \in StepType
  BY DEF SessionActs, SessionWorks, SessionHandsOver, SessionLetsGo, SessionClaims, SessionShips, SessionReleases,
         TodoMoves, StepMoves, TypeOK
<1>2. PICK s \in Sessions : \/ SessionWorks(s) \/ SessionHandsOver(s) \/ SessionLetsGo(s)
                           \/ \E i \in Items : SessionClaims(s, i) \/ SessionShips(s, i) \/ SessionReleases(s, i)
  BY DEF SessionActs
<1>3. proc' \in [Runs -> {"none", "alive", "gone"}] /\ closed' \subseteq Items /\ charges' \in [Runs -> Nat]
  BY <1>2 DEF SessionWorks, SessionHandsOver, SessionLetsGo, SessionClaims, SessionShips, SessionReleases,
              TypeOK, LifecycleTypeOK
<1>4. ASSUME NEW i \in Items, SessionClaims(s, i) PROVE Moves
  <2>1. s \in Holders \ Runs
    BY HoldersAssumption DEF Holders
  <2>2. FenceQuiet
    BY <1>4, <2>1, OthersClaim DEF SessionClaims
  <2>3. RunsMove
    BY <1>4, ZenonT(60) DEF SessionClaims, RunsMove, RowMoves, RunType, TypeOK, LifecycleTypeOK
  <2>4. session' \in [Sessions -> SessionType]
    <3>1. session' = [session EXCEPT ![s] = [at |-> "claimed", i |-> i]]
      BY <1>4 DEF SessionClaims
    <3>2. [at |-> "claimed", i |-> i] \in SessionType
      BY DEF SessionType
    <3> QED BY <3>1, <3>2 DEF TypeOK
  <2> QED BY <1>1, <1>3, <1>4, <2>2, <2>3, <2>4, ItemsStay DEF SessionClaims, Moves, RestMoves, FenceQuiet
<1>5. ASSUME NEW i \in Items, SessionShips(s, i) PROVE Moves
  <2>1. session' \in [Sessions -> SessionType]
    <3> DEFINE cmd == [at |-> "shipping", i |-> i, cur |-> Live(i),
                       retry |-> item[i].state \in {"failed", "needs_you", "parked"}]
    <3>1. session' = [session EXCEPT ![s] = cmd]
      BY <1>5 DEF SessionShips
    <3>2. cmd \in SessionType
      BY DEF SessionType, Live
    <3> QED BY <3>1, <3>2 DEF TypeOK
  <2> QED BY <1>1, <1>3, <1>5, <2>1, FenceStays, ItemsStay, RunsStay DEF SessionShips, Moves, RestMoves, FenceQuiet
<1>6. ASSUME NEW i \in Items, SessionReleases(s, i) PROVE Moves
  BY <1>1, <1>3, <1>6, Releases, RunsStay DEF SessionReleases, Moves, RestMoves, FenceQuiet, TypeOK
<1>7. CASE SessionWorks(s)
  <2>1. ItemsMove
    BY <1>7, StatesSet DEF SessionWorks, States
  <2>2. session' \in [Sessions -> SessionType]
    BY <1>7 DEF SessionWorks, SessionType, TypeOK
  <2> QED BY <1>1, <1>3, <1>7, <2>1, <2>2, FenceStays, RunsStay DEF SessionWorks, Moves, RestMoves, FenceQuiet
<1>8. CASE SessionHandsOver(s)
  <2>1. session[s] \in [at : {"shipping", "handing"}, i : Items, cur : BOOLEAN, retry : BOOLEAN]
    BY <1>8, SessionShapes DEF SessionHandsOver, TypeOK
  <2>2. session' \in [Sessions -> SessionType]
    BY <1>8, <2>1 DEF SessionHandsOver, SessionType, TypeOK
  <2>3. ItemsMove
    BY <1>8, <2>1 DEF SessionHandsOver, ItemsMove, ItemType, States, TypeOK, LifecycleTypeOK
  <2> QED BY <1>1, <1>3, <1>8, <2>2, <2>3, FenceStays, RunsStay DEF SessionHandsOver, Moves, RestMoves, FenceQuiet
<1>9. CASE SessionLetsGo(s)
  <2>1. session[s].i \in Items
    BY <1>9, SessionShapes DEF SessionLetsGo, TypeOK
  <2>2. session' \in [Sessions -> SessionType]
    BY <1>9 DEF SessionLetsGo, SessionType, TypeOK
  <2>3. FenceQuiet
    BY <1>9, <2>1, LeaseReleases, FenceStays DEF SessionLetsGo
  <2> QED BY <1>1, <1>3, <1>9, <2>2, <2>3, ItemsStay, RunsStay DEF SessionLetsGo, Moves, RestMoves, FenceQuiet
<1> QED BY <1>1, <1>2, <1>4, <1>5, <1>6, <1>7, <1>8, <1>9

LEMMA WorldMoves == ASSUME IInv, World PROVE Moves /\ TodoMoves /\ StepMoves
<1> USE DEF IInv, daemonVars, dataVars
<1>1. TodoMoves /\ StepMoves /\ step' \in StepType
  BY DEF World, ProcExits, IssueCloses, LeaseLapses, TodoMoves, StepMoves, TypeOK
<1>2. RestMoves
  BY DEF World, ProcExits, IssueCloses, LeaseLapses, RestMoves, TypeOK, LifecycleTypeOK
<1>3. ItemsMove /\ RunsMove
  BY ItemsStay, RunsStay DEF World, ProcExits, IssueCloses, LeaseLapses
<1>4. FenceQuiet
  BY FenceStays, Lapses DEF World, ProcExits, IssueCloses, LeaseLapses
<1> QED BY <1>1, <1>2, <1>3, <1>4 DEF Moves, FenceQuiet

------------------------------------------------------------------------------
(* The steps that begin or end something, one by one.                         *)
LEMMA NextPassKeeps == ASSUME IInv, NextPass PROVE IInv'
<1> USE DEF IInv, NextPass, dataVars
<1>1. pass' \in DOMAIN After
  BY DEF After, TypeOK, LifecycleTypeOK
<1>2. Moves
  BY FenceStays, ItemsStay, RunsStay DEF Moves, RestMoves, FenceQuiet, TypeOK, LifecycleTypeOK
<1>3. TodoOK'
  <2>1. \A i \in Items : Row(i) \in RowType
    BY DEF Row, RowType, TypeOK, LifecycleTypeOK, FenceTypeOK
  <2> QED BY <2>1 DEF TodoOK, Listed, Active, In, expired_leases, orphan_working_items, orphan_lease_rows
<1>4. StepOK'
  BY DEF StepOK, Idle
<1> QED BY <1>1, <1>2, <1>3, <1>4, LedgerKeeps

LEMMA AbortKeeps == ASSUME IInv, Abort PROVE IInv'
<1> USE DEF IInv, Abort, dataVars
<1>1. Moves
  BY FenceStays, ItemsStay, RunsStay DEF Moves, RestMoves, FenceQuiet, StepType, TypeOK, LifecycleTypeOK
<1>2. pass' \in DOMAIN After /\ TodoOK' /\ StepOK'
  BY DEF TodoOK, StepOK, Idle, TypeOK, LifecycleTypeOK
<1> QED BY <1>1, <1>2, LedgerKeeps

(* A step of the same kind, after which the daemon is somewhere new.          *)
LEMMA StepKeeps == ASSUME IInv, Moves, TodoMoves, StepOK' PROVE IInv'
<1>1. pass' \in DOMAIN After
  BY DEF IInv, TypeOK, LifecycleTypeOK, TodoMoves
<1> QED BY <1>1, LedgerKeeps, TodoKeeps DEF IInv

LEMMA LaunchKeeps == ASSUME IInv, Launch PROVE IInv'
<1>1. Moves /\ TodoMoves
  BY SchedulesMove
<1>2. StepOK'
  <2>1. step \in [at : {"launch", "record", "working", "backoff"}, i : Items, r : Runs, epoch : Nat]
    BY Shapes DEF IInv, TypeOK, Launch, Resume
  <2> QED BY <2>1 DEF IInv, Launch, Resume, StepOK, Token, Held, fenceVars
<1> QED BY <1>1, <1>2, StepKeeps

LEMMA BeginFinalizeKeeps == ASSUME IInv, NEW r \in Runs, WatchIncomplete(r) \/ WatchDead(r) PROVE IInv'
<1> USE DEF IInv
<1>1. BeginFinalize(r) /\ Visit("watchdog", r) /\ UNCHANGED proc
  BY DEF WatchIncomplete, WatchDead
<1>2. run[r].row # "none" /\ run[r].i \in Items
  BY <1>1 DEF Visit, TodoOK, RunsOK
<1>3. PICK isClosed \in BOOLEAN :
        step' = [at |-> "outcome", r |-> r, attempts |-> item[run[r].i].attempts, closed |-> isClosed]
  BY <1>1 DEF BeginFinalize
<1>4. step' \in StepType
  <2>1. item[run[r].i].attempts \in Nat
    BY <1>2 DEF TypeOK, LifecycleTypeOK
  <2> QED BY <1>3, <2>1 DEF StepType
<1>5. Moves /\ TodoMoves
  BY <1>1, <1>4, FenceStays, ItemsStay, RunsStay
     DEF BeginFinalize, Visit, Quiet, Moves, TodoMoves, RestMoves, FenceQuiet, TypeOK, LifecycleTypeOK
<1>6. StepOK'
  BY <1>1, <1>2, <1>3 DEF BeginFinalize, StepOK
<1> QED BY <1>5, <1>6, StepKeeps

(* What an ending may do to the item.                                         *)
LEMMA OutcomeMoves ==
  ASSUME IInv, NEW r \in Runs, run[r].i \in Items, step.attempts \in Nat, ApplyOutcome(r, run[r].i)
  PROVE  ItemsMove /\ charges' \in [Runs -> Nat]
<1> DEFINE i == run[r].i
<1> USE DEF IInv
<1>1. CASE \E s \in States : set_state(i, s) /\ UNCHANGED charges
  BY <1>1, StatesSet DEF TypeOK, LifecycleTypeOK
<1>2. CASE \E why \in Reasons : retry_or_fail(i, r, why, step.attempts)
  <2>1. PICK why \in Reasons : retry_or_fail(i, r, why, step.attempts)
    BY <1>2
  <2>2. CASE set_state(i, "ready") /\ UNCHANGED charges
    BY <2>2, <1>1 DEF States
  <2> DEFINE s == IF step.attempts + 1 >= MaxAttempts THEN "failed" ELSE "ready"
  <2>3. CASE /\ item' = [item EXCEPT ![i].attempts = step.attempts + 1, ![i].state = s]
             /\ charges' = [charges EXCEPT ![r] = @ + 1]
    <3> DEFINE n == step.attempts + 1
    <3>1. s \in States /\ n \in Nat /\ i \in Items
      BY DEF States
    <3>2. item' = [item EXCEPT ![i].attempts = n, ![i].state = s]
      BY <2>3
    <3> HIDE DEF s, i, n
    <3>3. ItemsMove
      BY <3>1, <3>2, ZenonT(60) DEF ItemsMove, ItemType, TypeOK, LifecycleTypeOK
    <3> QED BY <2>3, <3>3 DEF TypeOK, LifecycleTypeOK
  <2> QED BY <2>1, <2>2, <2>3 DEF retry_or_fail
<1>3. \A verb, why, pr : Endings(verb, why, pr) \subseteq States \cup {"retry"}
  BY DEF Endings, States
<1>4. "done" \in States /\ Whys(r) \subseteq Reasons
  BY DEF States, Whys, Reasons, TypeOK, LifecycleTypeOK
<1> QED BY <1>1, <1>2, <1>3, <1>4 DEF ApplyOutcome

LEMMA FinalizeOutcomeKeeps == ASSUME IInv, FinalizeOutcome PROVE IInv'
<1> USE DEF IInv, FinalizeOutcome, Resume
<1>1. step \in [at : {"outcome"}, r : Runs, attempts : Nat, closed : BOOLEAN]
  BY Shapes DEF TypeOK
<1>2. run[step.r].row # "none" /\ run[step.r].i \in Items
  BY <1>1 DEF StepOK, RunsOK
<1>3. ItemsMove /\ charges' \in [Runs -> Nat]
  BY <1>1, <1>2, OutcomeMoves, ItemsStay DEF TypeOK, LifecycleTypeOK
<1>4. step' \in StepType
  BY <1>1 DEF StepType
<1>5. Moves /\ TodoMoves
  BY <1>3, <1>4, FenceStays, RunsStay DEF Moves, TodoMoves, RestMoves, FenceQuiet, TypeOK, LifecycleTypeOK
<1>6. StepOK'
  BY <1>2 DEF StepOK
<1> QED BY <1>5, <1>6, StepKeeps

(* Past the books the run holds nothing live: either its token is not the       *)
(* newest, or the lease went to the conductor, or it was given up.             *)
LEMMA CloseBooksKeeps == ASSUME IInv, CloseBooks PROVE IInv'
<1> USE DEF IInv, CloseBooks, Resume, Quiet
<1>1. step \in [at : {"books", "end"}, r : Runs]
  BY Shapes DEF TypeOK
<1>2. PICK r \in Runs : r = step.r
  BY <1>1
<1>3. run[r].row # "none" /\ run[r].i \in Items
  BY <1>2 DEF StepOK, RunsOK
<1>4. PICK i \in Items : i = run[r].i
  BY <1>3
<1>5. step' \in StepType /\ step'.at = "end" /\ step'.r = r
  BY <1>1, <1>2 DEF StepType
<1>6. Conductor \in Holders \ Runs
  BY HoldersAssumption DEF Holders, Autos
<1>7. \/ Superseded(r) /\ UNCHANGED <<fenceVars, item>>
      \/ UNCHANGED item /\ CanClaim(i, Conductor, FALSE, r) /\ claim(i, Conductor, FALSE, r)
      \/ UNCHANGED item /\ ~CanClaim(i, Conductor, FALSE, r) /\ UNCHANGED fenceVars
      \/ release(i, r, run[r].epoch)
  BY <1>2, <1>4
<1>8. FenceQuiet /\ ItemsMove
  BY <1>6, <1>7, FenceStays, ItemsStay, OthersClaim, Releases
<1>9. RunsMove /\ RestMoves /\ TodoMoves
  BY RunsStay DEF RestMoves, TodoMoves, TypeOK, LifecycleTypeOK
<1>10. ASSUME run[r].epoch # 0 PROVE ~(Live(i)' /\ holder'[i] = r)
  <2>1. Token(i, r, run[r].epoch) /\ run[r].epoch \in Nat
    BY <1>4, <1>10 DEF LeasesOK, RecordsAreTokens, TypeOK, LifecycleTypeOK
  <2>2. CASE Superseded(r) /\ UNCHANGED <<fenceVars, item>>
    BY <1>4, <2>1, <2>2 DEF Superseded, Token, Held, Live, fenceVars, TypeOK, LifecycleTypeOK, FenceTypeOK
  <2>3. CASE CanClaim(i, Conductor, FALSE, r) /\ claim(i, Conductor, FALSE, r)
    BY <1>6, <2>3 DEF claim, Grant, Live, TypeOK, LifecycleTypeOK, FenceTypeOK, fenceVars
  <2>4. CASE ~CanClaim(i, Conductor, FALSE, r) /\ UNCHANGED fenceVars
    BY <2>4 DEF CanClaim, MayDisplace, Live, fenceVars
  <2>5. CASE release(i, r, run[r].epoch) /\ Held(i) /\ holder[i] = r /\ epoch[i] = run[r].epoch
    BY <2>5 DEF release, GiveUp, Live, TypeOK, LifecycleTypeOK, FenceTypeOK
  <2>6. CASE release(i, r, run[r].epoch) /\ ~(Held(i) /\ holder[i] = r /\ epoch[i] = run[r].epoch)
    BY <2>1, <2>6 DEF release, Token, Held, Live, fenceVars
  <2> QED BY <1>7, <2>2, <2>3, <2>4, <2>5, <2>6
<1>11. StepOK'
  <2>1. run' = run
    OBVIOUS
  <2>2. run'[r].row # "none" /\ (run'[r].epoch = 0 \/ ~HoldsLive(r)')
    BY <1>3, <1>4, <1>10, <2>1 DEF HoldsLive, Live
  <2> QED BY <1>5, <2>2 DEF StepOK, HoldsLive, Live
<1> QED BY <1>5, <1>8, <1>9, <1>11, StepKeeps DEF Moves, FenceQuiet

(* A new row: no lease is anybody's yet, so its run holds none.               *)
LEMMA CreateRunKeeps == ASSUME IInv, NEW i \in Items, CreateRun(i) PROVE IInv'
<1> USE DEF IInv, CreateRun, Visit, Quiet
<1>1. PICK r \in Runs : /\ run[r].row = "none"
                       /\ run' = [run EXCEPT ![r].row = "running", ![r].i = i]
                       /\ step' = [at |-> "claim", i |-> i, r |-> r]
  BY DEF CreateRun
<1>2. run \in [Runs -> RunType] /\ run' \in [Runs -> RunType]
  <2>1. run \in [Runs -> RunType]
    BY DEF RunType, TypeOK, LifecycleTypeOK
  <2>2. [run[r] EXCEPT !.row = "running", !.i = i] \in RunType
    <3>1. run[r] \in RunType
      BY <2>1
    <3> QED BY ONLY <3>1, i \in Items DEF RunType
  <2>3. run' = [run EXCEPT ![r] = [run[r] EXCEPT !.row = "running", !.i = i]]
    BY <1>1, <2>1 DEF RunType
  <2> QED BY <2>1, <2>2, <2>3
<1>3. /\ run'[r].row = "running" /\ run'[r].i = i /\ run'[r].epoch = run[r].epoch
      /\ \A q \in Runs \ {r} : run'[q] = run[q]
  BY <1>1, <1>2 DEF RunType
<1>4. TypeOK'
  <2>1. step' \in StepType
    BY <1>1 DEF StepType
  <2>2. LifecycleTypeOK'
    BY <1>2 DEF RunType, TypeOK, LifecycleTypeOK, FenceTypeOK, fenceVars
  <2> QED BY <2>1, <2>2 DEF TypeOK
<1>5. TodoOK' /\ RunsOK' /\ StepOK'
  BY <1>1, <1>3, ZenonT(60) DEF TodoOK, RunsOK, StepOK
<1>6. LeasesOK'
  <2>1. run[r].epoch = 0 /\ \A j \in Items : ~(Held(j) /\ holder[j] = r)
    BY <1>1 DEF RunsOK, LeasesOK, HoldersHaveRows
  <2>2. UNCHANGED <<epoch, holder, standing>>
    BY DEF fenceVars
  <2>3. \A j \in Items : Held(j)' = Held(j) /\ Live(j)' = Live(j)
    BY <2>2 DEF Held, Live
  <2> HIDE DEF CreateRun, Visit, Quiet
  <2>4. HeldIsGranted' /\ HoldersHaveRows'
    BY <1>3, <2>1, <2>2, <2>3 DEF LeasesOK, HeldIsGranted, HoldersHaveRows
  <2>5. RecordsAreTokens' /\ EndedRunHoldsNothing'
    BY <1>3, <2>1, <2>2 DEF LeasesOK, RecordsAreTokens, Token, EndedRunHoldsNothing, Held, Live
  <2> QED BY <2>4, <2>5 DEF LeasesOK
<1> QED BY <1>4, <1>5, <1>6

(* The grant makes every older token stale, and its own the newest.           *)
LEMMA StartClaimsKeeps == ASSUME IInv, StartClaims PROVE IInv'
<1> USE DEF IInv, StartClaims, Resume, Quiet
<1>1. step \in [at : {"claim"}, i : Items, r : Runs]
  BY Shapes DEF TypeOK
<1>2. PICK r \in Runs, i \in Items : r = step.r /\ i = step.i
  BY <1>1
<1>3. run[r].row = "running" /\ run[r].i = i /\ run[r].epoch = 0
  BY <1>2 DEF StepOK
<1>4. CASE run' = [run EXCEPT ![r].row = "ended"] /\ Finish /\ UNCHANGED fenceVars
  <2>1. step' \in StepType /\ step'.at = "idle" /\ step # Idle
    BY <1>4 DEF Finish, StepType, Idle
  <2>2. RunsMove
    BY <1>3, <1>4, <2>1 DEF RunsMove, RowMoves, RunType, TypeOK, LifecycleTypeOK
  <2>3. TodoMoves /\ StepMoves /\ RestMoves
    BY <2>1 DEF TodoMoves, StepMoves, RestMoves, TypeOK, LifecycleTypeOK
  <2> QED BY <1>4, <2>1, <2>2, <2>3, FenceStays, ItemsStay, MovesKeep DEF Moves, FenceQuiet
<1>5. CASE /\ claim(i, r, FALSE, Nobody) /\ UNCHANGED run
           /\ step' = [at |-> "launch", i |-> i, r |-> r, epoch |-> epoch'[i]]
  <2> HIDE DEF StartClaims, Resume
  <2>1. /\ FenceTypeOK' /\ holder'[i] = r /\ Held(i)'
        /\ \A j \in Items \ {i} : epoch'[j] = epoch[j] /\ holder'[j] = holder[j] /\ standing'[j] = standing[j]
        /\ \/ epoch'[i] = epoch[i] + 1
           \/ epoch'[i] = epoch[i] /\ holder[i] = r /\ standing'[i] = standing[i] /\ Held(i)
    <3>1. CASE Live(i) /\ holder[i] = r /\ UNCHANGED fenceVars
      BY <3>1 DEF Held, Live, fenceVars, TypeOK, LifecycleTypeOK, FenceTypeOK
    <3>2. CASE Grant(i, r, FALSE, Nobody)
      BY <3>2 DEF Grant, Held, TypeOK, LifecycleTypeOK, FenceTypeOK, Holders, Autos
    <3> QED BY <1>5, <3>1, <3>2 DEF claim
  <2>2. TypeOK'
    <3>1. step' \in StepType
      BY <1>5, <2>1 DEF StepType, FenceTypeOK
    <3>2. UNCHANGED <<item, run, proc, pass, closed, session, charges>>
      BY <1>5 DEF StartClaims, Resume
    <3> QED BY <2>1, <3>1, <3>2 DEF TypeOK, LifecycleTypeOK
  <2>3. TodoOK' /\ RunsOK'
    BY <1>5 DEF StartClaims, Resume, TodoOK, RunsOK
  <2> HIDE DEF Quiet
  <2>4. HeldIsGranted' /\ HoldersHaveRows'
    <3>1. ASSUME NEW j \in Items, Held(j)' PROVE epoch'[j] > 0
      BY <2>1, <3>1 DEF LeasesOK, HeldIsGranted, Held, TypeOK, LifecycleTypeOK, FenceTypeOK
    <3>2. ASSUME NEW j \in Items, NEW q \in Runs, Held(j)', holder'[j] = q
          PROVE  run'[q].row # "none" /\ run'[q].i = j
      BY <1>3, <1>5, <2>1, <3>2 DEF LeasesOK, HoldersHaveRows, Held
    <3> QED BY <3>1, <3>2 DEF HeldIsGranted, HoldersHaveRows
  <2>5. RecordsAreTokens'
    <3> SUFFICES ASSUME NEW q \in Runs, run[q].epoch # 0 PROVE Token(run[q].i, q, run[q].epoch)'
      BY <1>5 DEF RecordsAreTokens
    <3>1. q # r /\ run[q].i \in Items /\ run[q].epoch \in Nat /\ Token(run[q].i, q, run[q].epoch)
      BY <1>3 DEF LeasesOK, RecordsAreTokens, RunsOK, TypeOK, LifecycleTypeOK
    <3>2. CASE run[q].i = i
      BY <1>5, <2>1, <3>1, <3>2 DEF Token, Held, TypeOK, LifecycleTypeOK, FenceTypeOK
    <3>3. CASE run[q].i # i
      BY <1>5, <2>1, <3>1, <3>3 DEF Token, Held
    <3> QED BY <3>2, <3>3
  <2>6. EndedRunHoldsNothing'
    BY <1>3, <1>5, <2>1 DEF LeasesOK, EndedRunHoldsNothing, RunsOK, Live
  <2>7. StepOK'
    BY <1>3, <1>5, <2>1 DEF StepOK, Token, Held, FenceTypeOK
  <2> QED BY <2>2, <2>3, <2>4, <2>5, <2>6, <2>7 DEF LeasesOK
<1> QED BY <1>2, <1>4, <1>5

(* The row gets the token the grant returned.                                 *)
LEMMA RecordRunKeeps == ASSUME IInv, RecordRun PROVE IInv'
<1> USE DEF IInv, RecordRun, Resume, Quiet
<1>1. step \in [at : {"launch", "record", "working", "backoff"}, i : Items, r : Runs, epoch : Nat]
  BY Shapes DEF TypeOK
<1>2. PICK r \in Runs, i \in Items, e \in Nat : r = step.r /\ i = step.i /\ e = step.epoch
  BY <1>1
<1>3. run[r].row = "running" /\ run[r].i = i /\ Token(i, r, e)
  BY <1>2 DEF StepOK
<1>4. step' \in StepType /\ step'.at = "working" /\ step'.r = r /\ step'.i = i
  BY <1>1, <1>2 DEF StepType
<1>5. run \in [Runs -> RunType]
  BY DEF RunType, TypeOK, LifecycleTypeOK
<1>6. run' = [run EXCEPT ![r] = [run[r] EXCEPT !.epoch = e, !.pid = TRUE]]
  BY <1>2, <1>5 DEF RunType
<1>7. [run[r] EXCEPT !.epoch = e, !.pid = TRUE] \in RunType
  <2>1. run[r] \in RunType
    BY <1>5
  <2> QED BY ONLY <2>1, e \in Nat DEF RunType
<1>8. run' \in [Runs -> RunType]
  BY <1>5, <1>6, <1>7
<1>9. /\ run'[r].row = "running" /\ run'[r].i = i /\ run'[r].epoch = e
      /\ \A q \in Runs \ {r} : run'[q] = run[q]
  <2>1. run[r] \in RunType /\ run'[r] = [run[r] EXCEPT !.epoch = e, !.pid = TRUE]
    BY ONLY <1>5, <1>6, r \in Runs
  <2>2. run'[r].row = run[r].row /\ run'[r].i = run[r].i /\ run'[r].epoch = e
    BY ONLY <2>1 DEF RunType
  <2>3. \A q \in Runs \ {r} : run'[q] = run[q]
    BY ONLY <1>5, <1>6, r \in Runs
  <2> QED BY <1>3, <2>2, <2>3
<1>10. TypeOK'
  BY <1>4, <1>8 DEF RunType, TypeOK, LifecycleTypeOK, FenceTypeOK, fenceVars
<1>11. TodoOK' /\ RunsOK' /\ StepOK'
  BY <1>4, <1>9 DEF TodoOK, RunsOK, StepOK
<1>12. LeasesOK'
  <2> HIDE DEF RecordRun, Resume, Quiet
  <2>1. UNCHANGED <<epoch, holder, standing>>
    BY DEF RecordRun, fenceVars
  <2>2. HeldIsGranted' /\ HoldersHaveRows'
    BY <1>3, <1>9, <2>1 DEF LeasesOK, HeldIsGranted, HoldersHaveRows, Held
  <2>3. RecordsAreTokens' /\ EndedRunHoldsNothing'
    BY <1>3, <1>9, <2>1 DEF LeasesOK, RecordsAreTokens, Token, EndedRunHoldsNothing, Held, Live
  <2> QED BY <2>2, <2>3 DEF LeasesOK
<1> QED BY <1>10, <1>11, <1>12

------------------------------------------------------------------------------
LEMMA InitHolds == ASSUME Init PROVE IInv
<1> USE DEF Init, FenceInit
<1>1. TypeOK
  BY DEF TypeOK, LifecycleTypeOK, FenceTypeOK, States, Reasons, NoRun, After, StepType, SessionType
<1>2. TodoOK /\ RunsOK /\ StepOK
  BY DEF TodoOK, RunsOK, StepOK, NoRun, Idle
<1>3. LeasesOK
  BY DEF LeasesOK, HeldIsGranted, HoldersHaveRows, RecordsAreTokens, EndedRunHoldsNothing, NoRun, Held, Live
<1> QED BY <1>1, <1>2, <1>3 DEF IInv

LEMMA NextKeeps == ASSUME IInv, Next PROVE IInv'
<1>1. CASE Schedules
  <2>1. CASE \/ \E i \in Items : Skip(i)
             \/ Launch \/ LaunchFails \/ Backoff \/ MarkWorking
    BY <2>1, SchedulesMove, LaunchKeeps, MovesKeep
  <2> QED BY <1>1, <2>1, CreateRunKeeps, StartClaimsKeeps, RecordRunKeeps DEF Schedules
<1>2. ASSUME NEW r \in Runs, Watches(r) PROVE IInv'
  BY <1>2, WatchesMove, BeginFinalizeKeeps, MovesKeep DEF Watches
<1>3. CASE Finalizes
  BY <1>3, FinalizeOutcomeKeeps, CloseBooksKeeps, EndRowMoves, MovesKeep DEF Finalizes
<1>4. CASE Syncs \/ Expires \/ Ships
  BY <1>4, SyncsMove, ExpiresMove, ShipsMove, MovesKeep
<1>5. CASE SessionActs \/ World
  BY <1>5, SessionsMove, WorldMoves, MovesKeep
<1>6. CASE NextPass \/ Abort
  BY <1>6, NextPassKeeps, AbortKeeps
<1> QED BY <1>1, <1>2, <1>3, <1>4, <1>5, <1>6 DEF Next, Daemon

LEMMA StutterKeeps == ASSUME IInv, UNCHANGED vars PROVE IInv'
<1> USE DEF IInv, vars, dataVars, daemonVars
<1>1. Moves /\ TodoMoves /\ StepMoves
  BY FenceStays, ItemsStay, RunsStay DEF Moves, TodoMoves, StepMoves, RestMoves, FenceQuiet, TypeOK, LifecycleTypeOK
<1> QED BY <1>1, MovesKeep

(* The bookkeeping of the tick is sound whatever is cut off, and whoever        *)
(* interferes: the inductive invariant above.                                 *)
THEOREM Invariance == Spec => []IInv
<1>1. IInv /\ [Next]_vars => IInv'
  BY NextKeeps, StutterKeeps
<1> QED BY <1>1, InitHolds, PTL DEF Spec

------------------------------------------------------------------------------
(* Only three steps leave a run's ending: it is decided, its books are closed, *)
(* or the pass is cut off.                                                    *)
LEMMA EndingsByThree ==
  ASSUME IInv, [Next]_vars, step.at \in {"outcome", "books"}, step' # step
  PROVE  FinalizeOutcome \/ CloseBooks \/ Abort
<1>1. step # Idle
  BY DEF Idle
<1>2. ~NextPass /\ ~(\E r \in Runs : Watches(r)) /\ ~Expires
  BY <1>1 DEF NextPass, Watches, WatchInGrace, WatchIncomplete, WatchDead, WatchKill, WatchBeat, WatchStop, Visit,
              Expires, ExpireSkips, ExpireRevives, ExpireReleases, SweepItem, SweepLease, RecheckWaits,
              RecheckResumes
<1>3. ~Schedules /\ ~EndRow
  BY <1>1 DEF Schedules, Skip, CreateRun, StartClaims, Launch, LaunchFails, Backoff, RecordRun, MarkWorking,
              EndRow, Visit, Resume
<1>4. ~Syncs /\ ~Ships
  BY <1>1 DEF Syncs, SyncNothing, SyncClosedStops, SyncClosedReleases, SyncMergedShips, OwnerGo, OwnerPark,
              MarkClosed, DropAny, Ships, ShipRefused, ShipClaims, HandBack, ShipOpens, ShipMerged, ShipRebuilds,
              DropConductor, Visit, Resume
<1>5. ~SessionActs
  BY DEF SessionActs, SessionWorks, SessionHandsOver, SessionLetsGo, SessionClaims, SessionShips, SessionReleases,
         SessionUnchanged, daemonVars
<1>6. ~World /\ ~UNCHANGED vars
  BY DEF World, ProcExits, IssueCloses, LeaseLapses, daemonVars, vars
<1> QED BY <1>2, <1>3, <1>4, <1>5, <1>6 DEF Next, Daemon, Finalizes

(* While somebody else holds its item live, a run's own token is stale: it was  *)
(* never recorded, or it is not the newest.                                   *)
LEMMA AnotherSupersedes ==
  ASSUME IInv, NEW r \in Runs, run[r].i \in Items, Live(run[r].i), holder[run[r].i] # r
  PROVE  Superseded(r)
<1> USE DEF IInv, LeasesOK
<1>1. Held(run[r].i) /\ epoch[run[r].i] \in Nat /\ run[r].epoch \in Nat /\ epoch[run[r].i] > 0
  BY DEF HeldIsGranted, Held, Live, TypeOK, LifecycleTypeOK, FenceTypeOK
<1>2. CASE run[r].epoch = 0
  BY <1>1, <1>2 DEF Superseded
<1>3. CASE run[r].epoch # 0
  BY <1>1, <1>3 DEF Superseded, RecordsAreTokens, Token
<1> QED BY <1>2, <1>3

LEMMA HoldersUntouched ==
  ASSUME IInv, [Next]_vars, step.at \in {"outcome", "books"}, step' # step,
         Live(run[step.r].i), holder[run[step.r].i] # step.r
  PROVE  UNCHANGED <<item, fenceVars>>
<1>1. step.r \in Runs
  BY Shapes DEF IInv, TypeOK
<1>2. run[step.r].i \in Items
  BY <1>1 DEF IInv, StepOK, RunsOK
<1>3. Superseded(step.r)
  BY <1>1, <1>2, AnotherSupersedes
<1>4. CASE FinalizeOutcome
  BY <1>3, <1>4 DEF FinalizeOutcome
<1>5. CASE CloseBooks
  BY <1>3, <1>5 DEF CloseBooks
<1>6. CASE Abort
  BY <1>6 DEF Abort, dataVars
<1> QED BY <1>4, <1>5, <1>6, EndingsByThree

(* An attempt is charged by one transaction, to the run it ends.              *)
LEMMA ChargesByOne ==
  ASSUME IInv, [Next]_vars, charges' # charges
  PROVE  FinalizeOutcome
<1>1. ~NextPass /\ ~Abort /\ ~(\E r \in Runs : Watches(r)) /\ ~Expires
  BY DEF NextPass, Abort, Watches, WatchInGrace, WatchIncomplete, WatchDead, WatchKill, WatchBeat, WatchStop,
         BeginFinalize, Expires, ExpireSkips, ExpireRevives, ExpireReleases, SweepItem, SweepLease, RecheckWaits,
         RecheckResumes, Quiet
<1>2. ~Schedules /\ ~EndRow /\ ~CloseBooks
  BY DEF Schedules, Skip, CreateRun, StartClaims, Launch, LaunchFails, Backoff, RecordRun, MarkWorking,
         EndRow, CloseBooks, Quiet
<1>3. ~Syncs /\ ~Ships
  BY DEF Syncs, SyncNothing, SyncClosedStops, SyncClosedReleases, SyncMergedShips, OwnerGo, OwnerPark,
         MarkClosed, DropAny, Ships, ShipRefused, ShipClaims, HandBack, ShipOpens, ShipMerged, ShipRebuilds,
         DropConductor, Quiet
<1>4. ~SessionActs
  BY DEF SessionActs, SessionWorks, SessionHandsOver, SessionLetsGo, SessionClaims, SessionShips, SessionReleases,
         SessionUnchanged
<1>5. ~World /\ ~UNCHANGED vars
  BY DEF World, ProcExits, IssueCloses, LeaseLapses, vars
<1> QED BY <1>1, <1>2, <1>3, <1>4, <1>5 DEF Next, Daemon, Finalizes

LEMMA StopsAreFree ==
  ASSUME IInv, [Next]_vars, NEW r \in Runs, charges'[r] # charges[r]
  PROVE  run[r].reason \in {"none", "timeout", "hung"}
<1>1. FinalizeOutcome
  BY ChargesByOne
<1>2. step.r \in Runs
  BY <1>1, Shapes DEF IInv, TypeOK, FinalizeOutcome, Resume
<1>3. PICK why \in Whys(step.r) : retry_or_fail(run[step.r].i, step.r, why, step.attempts)
  BY <1>1 DEF FinalizeOutcome, ApplyOutcome
<1>4. why \notin NO_ATTEMPT /\ r = step.r
  BY <1>2, <1>3 DEF retry_or_fail, IInv, TypeOK, LifecycleTypeOK
<1>5. run[r].reason \in Reasons
  BY DEF IInv, TypeOK, LifecycleTypeOK
<1> QED BY <1>4, <1>5 DEF Whys, NO_ATTEMPT, Reasons

(* Finalizing a run never touches a later holder's item, leaves nothing leased *)
(* to an ended run, and charges no attempt for a stop that was not its own.    *)
THEOREM EndingsAreClean == Spec => CleanEndings
<1>1. IInv => LifecycleTypeOK /\ EndedRunHoldsNothing
  BY DEF IInv, TypeOK, LeasesOK
<1>2. IInv /\ [Next]_vars =>
        [step.at \in {"outcome", "books"} /\ step' # step
           => LET i == run[step.r].i IN
              Live(i) /\ holder[i] # step.r => UNCHANGED <<item, fenceVars>>]_vars
  BY HoldersUntouched
<1>3. IInv /\ [Next]_vars =>
        [\A r \in Runs : charges'[r] # charges[r]
                            => run[r].reason \in {"none", "timeout", "hung"}]_vars
  BY StopsAreFree
<1> QED BY <1>1, <1>2, <1>3, Invariance, PTL DEF Spec, CleanEndings, NewHolderUntouched, NoChargeForAStop
===============================================================================
