---------------------------- MODULE ReadingsProofs ----------------------------
(* Proofs about the conclusions the program draws from what it reads: Warmup,  *)
(* for every window, guard and backoff, any number of crashes and for all      *)
(* time; Vetting, for all directories, lock files, contents and registries;    *)
(* Protection, for all protections and rulesets; Dispatch, where a pass reads  *)
(* everything once and then hands out slots on its own counts, for any items,  *)
(* platforms, limits and budgets; Capacity, for any keys, causes, retention and *)
(* settings of the gap.                                                       *)
EXTENDS Warmup, Vetting, Protection, Dispatch, Capacity, WellFoundedInduction,
        FiniteSetTheorems, TLAPS

------------------------------------------------------------------------------
(* Warmup.                                                                    *)

Times == Nat \cup {Never}
Passing == {"read", "persist", "nudge", "reread", "putback", "forgone", "raised"}
Turn == [at : Nat, how : {"kept", "failed", "lost"}]

TypeOK ==
  /\ now \in Nat /\ at \in Nat
  /\ opened \in Times /\ last \in Times /\ failed \in Times /\ prior \in Times
  /\ row \in [reset : Times, used : BOOLEAN] /\ used \in BOOLEAN
  /\ pc \in {"idle"} \cup Passing
  /\ turns \in Seq(Turn)

(* No time passes while a pass runs.                                          *)
PassIsShort == pc # "idle" => at = now

NothingAhead == \A i \in DOMAIN turns : turns[i].at <= now

(* `last` is never older than a turn not seen to fail: it is saved before the   *)
(* turn is spent. Until then the pass still has the one it read, and so it has *)
(* while it puts it back: its own turn is the only one `prior` is older than.  *)
LastCovers ==
  \A i \in DOMAIN turns : turns[i].how = "kept" => last # Never /\ turns[i].at <= last
Prior(n) == \A i \in 1..n : turns[i].how = "kept" => prior # Never /\ turns[i].at <= prior
PriorCovers ==
  /\ pc \in {"read", "persist", "nudge"} => Prior(Len(turns))
  /\ pc = "putback" => Prior(Len(turns) - 1)
SavedFirst == pc = "nudge" => last = at
OwnTurn == pc \in {"putback", "forgone"} => turns # <<>> /\ turns[Len(turns)].at = now

(* A pass goes on only when the last turn not seen to fail is four hours back.  *)
GuardPassed ==
  pc \in {"persist", "nudge"} =>
    \A i \in DOMAIN turns : turns[i].how = "kept" => at >= turns[i].at + Guard

(* A failed turn is on record until the backoff is over: `failed` is forgotten  *)
(* only by a pass that began after it.                                         *)
FailureKept ==
  \A i \in DOMAIN turns : turns[i].how = "failed" =>
    \/ failed # Never /\ turns[i].at <= failed
    \/ turns[i].at + Backoff <= now
BackoffPassed ==
  pc # "idle" => \A i \in DOMAIN turns : turns[i].how = "failed" => turns[i].at + Backoff <= now

IInv ==
  /\ TypeOK /\ PassIsShort /\ NothingAhead
  /\ LastCovers /\ PriorCovers /\ SavedFirst /\ OwnTurn /\ GuardPassed
  /\ FailureKept /\ BackoffPassed
  /\ SpacedTurns

------------------------------------------------------------------------------
(* The facts a reading gives: it is of the login's window or the old row.      *)
LEMMA ReadingsAreRows ==
  ASSUME WarmupAssumption, TypeOK
  PROVE  Readings \subseteq [reset : Times, used : BOOLEAN]
BY DEF WarmupAssumption, TypeOK, Readings, Truth, Times, Never

(* A window that opened after the last turn and is over now is five hours old.  *)
LEMMA LaterResetIsLate ==
  ASSUME WarmupAssumption, TypeOK, NEW fresh \in [reset : Times, used : BOOLEAN],
         later_reset(fresh)
  PROVE  at >= prior + Guard
BY DEF WarmupAssumption, TypeOK, later_reset, Times, Never

LEMMA TurnsAreTurns ==
  ASSUME TypeOK, NEW i \in DOMAIN turns
  PROVE  turns[i] \in Turn /\ turns[i].at \in Nat
<1>1. turns[i] \in Turn
  BY DEF TypeOK
<1>2. QED
  BY <1>1 DEF Turn

(* A turn spent now, by a pass that came past its guard and its backoff.       *)
LEMMA Spent ==
  ASSUME WarmupAssumption, IInv, pc = "nudge", turns' = Turned("kept")
  PROVE  /\ turns' \in Seq(Turn) /\ Len(turns') = Len(turns) + 1
         /\ \A i \in DOMAIN turns : i \in DOMAIN turns' /\ turns'[i] = turns[i]
         /\ turns'[Len(turns')] = [at |-> now, how |-> "kept"]
         /\ \A i \in DOMAIN turns' : i \in DOMAIN turns \/ i = Len(turns')
         /\ SpacedTurns'
<1>1. [at |-> now, how |-> "kept"] \in Turn /\ turns \in Seq(Turn)
  BY DEF IInv, TypeOK, Turn
<1>2. /\ turns' \in Seq(Turn) /\ Len(turns') = Len(turns) + 1
      /\ \A i \in DOMAIN turns : i \in DOMAIN turns' /\ turns'[i] = turns[i]
      /\ turns'[Len(turns')] = [at |-> now, how |-> "kept"]
      /\ \A i \in DOMAIN turns' : i \in DOMAIN turns \/ i = Len(turns')
  BY <1>1 DEF Turned
<1>3. ASSUME NEW j \in DOMAIN turns', NEW i \in 1..(j - 1)
      PROVE  turns'[j].at >= turns'[i].at + Distance[turns'[i].how]
  <2>1. i \in DOMAIN turns /\ turns'[i] = turns[i] /\ turns[i] \in Turn
    BY <1>1, <1>2, <1>3
  <2>2. CASE j \in DOMAIN turns
    BY <1>2, <1>3, <2>1, <2>2 DEF IInv, SpacedTurns
  <2>3. CASE j = Len(turns')
    <3>1. /\ turns[i].how = "kept" => now >= turns[i].at + Guard
          /\ turns[i].how = "failed" => now >= turns[i].at + Backoff
          /\ now >= turns[i].at
      BY <2>1 DEF IInv, TypeOK, PassIsShort, GuardPassed, BackoffPassed, NothingAhead, Turn,
                  WarmupAssumption
    <3>2. /\ Distance["kept"] = Guard /\ Distance["failed"] = Backoff /\ Distance["lost"] = 0
      BY DEF Distance
    <3>3. CASE turns[i].how = "lost"
      BY <1>2, <2>1, <2>3, <3>1, <3>2, <3>3 DEF Turn, IInv, TypeOK
    <3>4. CASE turns[i].how # "lost"
      BY <1>2, <2>1, <2>3, <3>1, <3>2, <3>4 DEF Turn
    <3>5. QED
      BY <3>3, <3>4
  <2>4. QED
    BY <1>2, <2>2, <2>3
<1>4. QED
  BY <1>2, <1>3 DEF SpacedTurns

(* The pass's own turn is the last one.                                       *)
Own == Len(turns)
LEMMA OwnIsLast ==
  ASSUME TypeOK, turns # <<>>
  PROVE  /\ Own \in Nat /\ Own \in DOMAIN turns /\ DOMAIN turns = 1..Own
         /\ \A i \in DOMAIN turns : i # Own => i \in 1..(Own - 1)
<1>1. Own \in Nat /\ DOMAIN turns = 1..Own /\ Own # 0
  BY DEF TypeOK, Own
<1> HIDE DEF Own
<1>2. QED
  BY <1>1

(* What the pass left of its own turn is known: nothing else changes.          *)
MarkedAs(how) ==
  /\ turns' \in Seq(Turn) /\ DOMAIN turns' = DOMAIN turns /\ Own' = Own
  /\ \A i \in DOMAIN turns : turns'[i].at = turns[i].at
  /\ \A i \in DOMAIN turns : i # Own => turns'[i] = turns[i]
  /\ turns'[Own].how = how
LEMMA Marked ==
  ASSUME WarmupAssumption, IInv, turns # <<>>, NEW how \in {"failed", "lost"},
         turns' = Latest(how)
  PROVE  MarkedAs(how) /\ SpacedTurns'
<1>1. turns \in Seq(Turn) /\ Own \in DOMAIN turns /\ turns[Own] \in Turn
  BY OwnIsLast DEF IInv, TypeOK
<1>2. MarkedAs(how)
  <2> DEFINE t == [turns[Own] EXCEPT !.how = how]
  <2>1. t \in Turn /\ t.at = turns[Own].at /\ t.how = how
    BY <1>1 DEF Turn
  <2>2. turns' = [turns EXCEPT ![Own] = t]
    BY DEF Latest, Own
  <2> HIDE DEF t
  <2>3. turns' \in Seq(Turn)
    BY <1>1, <2>1, <2>2
  <2>4. DOMAIN turns' = DOMAIN turns /\ turns'[Own] = t
    BY <1>1, <2>2
  <2>5. Own' = Own
    BY <1>1, <2>3, <2>4 DEF Own
  <2>6. \A i \in DOMAIN turns : i # Own => turns'[i] = turns[i]
    BY <1>1, <2>2
  <2>7. \A i \in DOMAIN turns : turns'[i].at = turns[i].at
    BY <2>1, <2>4, <2>6
  <2>8. QED
    BY <2>1, <2>3, <2>4, <2>5, <2>6, <2>7 DEF MarkedAs
<1>3. ASSUME NEW j \in DOMAIN turns', NEW i \in 1..(j - 1)
      PROVE  turns'[j].at >= turns'[i].at + Distance[turns'[i].how]
  <2>1. j \in DOMAIN turns /\ Own \in Nat /\ DOMAIN turns = 1..Own
    BY <1>2, <1>3, OwnIsLast DEF MarkedAs, IInv
  <2>2. i \in DOMAIN turns /\ i # Own
    BY <1>3, <2>1
  <2>3. turns'[i] = turns[i] /\ turns'[j].at = turns[j].at
    BY <1>2, <2>1, <2>2 DEF MarkedAs
  <2>4. turns[j].at >= turns[i].at + Distance[turns[i].how]
    BY <1>3, <2>1 DEF IInv, SpacedTurns
  <2>5. QED
    BY <2>3, <2>4
<1>4. QED
  BY <1>2, <1>3 DEF SpacedTurns

LEMMA InitIInv == WarmupInit => IInv
<1> SUFFICES ASSUME WarmupInit PROVE IInv
  OBVIOUS
<1>1. TypeOK
  <2>1. Never \in Times /\ <<>> \in Seq(Turn)
    BY DEF Times
  <2>2. QED
    BY <2>1 DEF WarmupInit, TypeOK, Times
<1>2. turns = <<>> /\ pc = "idle"
  BY DEF WarmupInit
<1>3. PassIsShort /\ NothingAhead /\ LastCovers /\ FailureKept /\ SpacedTurns
  BY <1>2 DEF PassIsShort, NothingAhead, LastCovers, FailureKept, SpacedTurns
<1>4. PriorCovers /\ SavedFirst /\ OwnTurn /\ GuardPassed /\ BackoffPassed
  BY <1>2 DEF PriorCovers, SavedFirst, OwnTurn, GuardPassed, BackoffPassed
<1>5. QED
  BY <1>1, <1>3, <1>4 DEF IInv

LEMMA BeginStep == ASSUME WarmupAssumption, IInv, Begin PROVE IInv'
<1>1. TypeOK' /\ PassIsShort' /\ NothingAhead' /\ LastCovers' /\ SpacedTurns' /\ FailureKept'
  BY DEF IInv, Begin, TypeOK, PassIsShort, NothingAhead, LastCovers, SpacedTurns, FailureKept,
         Passing
<1>2. pc' \in {"idle", "read"}
  BY DEF Begin
<1>3. SavedFirst' /\ OwnTurn' /\ GuardPassed'
  BY <1>2 DEF SavedFirst, OwnTurn, GuardPassed
<1>4. PriorCovers'
  <2>1. UNCHANGED turns /\ prior' = last /\ DOMAIN turns = 1..Len(turns)
    BY DEF Begin, IInv, TypeOK
  <2>2. Prior(Len(turns))'
    BY <2>1 DEF IInv, LastCovers, Prior
  <2>3. QED
    BY <1>2, <2>1, <2>2 DEF PriorCovers
<1>5. BackoffPassed'
  <2> SUFFICES ASSUME pc' # "idle", NEW i \in DOMAIN turns, turns[i].how = "failed"
               PROVE  turns[i].at + Backoff <= now
    BY DEF BackoffPassed, Begin
  <2>1. failed = Never \/ failed + Backoff <= now
    BY DEF Begin, IInv, TypeOK, Times, Never, WarmupAssumption
  <2>2. /\ turns[i].at \in Nat
        /\ (failed # Never /\ turns[i].at <= failed) \/ turns[i].at + Backoff <= now
    BY TurnsAreTurns DEF IInv, FailureKept
  <2>3. QED
    BY <2>1, <2>2 DEF IInv, TypeOK, Times, Never, WarmupAssumption
<1>6. QED
  BY <1>1, <1>3, <1>4, <1>5 DEF IInv

LEMMA ReadStep == ASSUME WarmupAssumption, IInv, read_usage PROVE IInv'
<1>1. PICK fresh \in Readings :
        row' = fresh /\ pc' = IF active(fresh, at) \/ Guarded(fresh) THEN "idle" ELSE "persist"
  BY DEF read_usage
<1>2. fresh \in [reset : Times, used : BOOLEAN]
  BY ReadingsAreRows DEF IInv
<1>3. UNCHANGED <<now, opened, used, last, failed, blocked, prior, at, crashes, turns>> /\ pc = "read"
  BY DEF read_usage
<1>4. TypeOK'
  BY <1>1, <1>2, <1>3 DEF IInv, TypeOK, Passing
<1>5. PassIsShort' /\ NothingAhead' /\ LastCovers' /\ SpacedTurns' /\ FailureKept' /\ BackoffPassed'
  BY <1>3 DEF IInv, PassIsShort, NothingAhead, LastCovers, SpacedTurns, FailureKept, BackoffPassed
<1>6. PriorCovers' /\ SavedFirst' /\ OwnTurn'
  <2>1. UNCHANGED <<turns, prior>> /\ pc = "read" /\ pc' \in {"idle", "persist"}
    BY <1>1, <1>3
  <2>2. QED
    BY <2>1 DEF IInv, PriorCovers, Prior, SavedFirst, OwnTurn
<1>7. GuardPassed'
  <2> SUFFICES ASSUME pc' = "persist", NEW i \in DOMAIN turns, turns[i].how = "kept"
               PROVE  at >= turns[i].at + Guard
    BY <1>1, <1>3 DEF GuardPassed
  <2>1. prior # Never /\ turns[i].at <= prior /\ turns[i].at \in Nat
    <3>1. DOMAIN turns = 1..Len(turns) /\ turns[i] \in Turn
      BY DEF IInv, TypeOK
    <3>2. QED
      BY <1>3, <3>1 DEF IInv, PriorCovers, Prior, Turn
  <2>2. ~(at < prior + Guard) \/ later_reset(fresh)
    BY <1>1, <2>1 DEF Guarded
  <2>3. at >= prior + Guard
    BY <1>2, <2>1, <2>2, LaterResetIsLate DEF IInv, TypeOK, Times, WarmupAssumption
  <2>4. QED
    BY <2>1, <2>3 DEF IInv, TypeOK, Times, Never, WarmupAssumption
<1>8. QED
  BY <1>4, <1>5, <1>6, <1>7 DEF IInv

LEMMA PersistStep == ASSUME WarmupAssumption, IInv, Persist PROVE IInv'
<1>1. TypeOK' /\ PassIsShort' /\ NothingAhead' /\ SpacedTurns' /\ FailureKept' /\ BackoffPassed'
  BY DEF Persist, IInv, TypeOK, PassIsShort, NothingAhead, SpacedTurns, FailureKept,
         BackoffPassed, Passing, Times
<1>2. PriorCovers' /\ SavedFirst' /\ OwnTurn' /\ GuardPassed'
  BY DEF Persist, IInv, PriorCovers, Prior, SavedFirst, OwnTurn, GuardPassed
<1>3. LastCovers'
  BY DEF Persist, IInv, TypeOK, NothingAhead, PassIsShort, LastCovers, Never
<1>4. QED
  BY <1>1, <1>2, <1>3 DEF IInv

(* The turn went through or failed, or the process died in it: `last` stands.   *)
LEMMA TurnStep ==
  ASSUME WarmupAssumption, IInv, pc = "nudge", Opens \/ UNCHANGED <<opened, used>>,
         turns' = Turned("kept"), pc' \in {"idle", "reread", "putback"},
         UNCHANGED <<now, row, last, failed, prior, at>>
  PROVE  IInv'
<1>1. /\ turns' \in Seq(Turn) /\ Len(turns') = Len(turns) + 1
      /\ \A i \in DOMAIN turns : i \in DOMAIN turns' /\ turns'[i] = turns[i]
      /\ turns'[Len(turns')] = [at |-> now, how |-> "kept"]
      /\ \A i \in DOMAIN turns' : i \in DOMAIN turns \/ i = Len(turns')
      /\ SpacedTurns'
  BY Spent
<1>2. TypeOK'
  <2>1. CASE Opens
    BY <1>1, <2>1 DEF IInv, TypeOK, Opens, Times, Passing
  <2>2. CASE UNCHANGED <<opened, used>>
    BY <1>1, <2>2 DEF IInv, TypeOK, Times, Passing
  <2>3. QED
    BY <2>1, <2>2
<1>3. PassIsShort' /\ SavedFirst' /\ GuardPassed'
  BY DEF IInv, PassIsShort, SavedFirst, GuardPassed
<1>4. PriorCovers' /\ OwnTurn'
  <2>1. Prior(Len(turns)) /\ Len(turns) \in Nat /\ DOMAIN turns = 1..Len(turns)
    BY DEF IInv, TypeOK, PriorCovers
  <2>2. Prior(Len(turns) - 1)'
    BY <1>1, <2>1 DEF Prior
  <2>3. turns' # <<>>
    BY <1>1, <2>1
  <2>4. QED
    BY <1>1, <2>2, <2>3 DEF PriorCovers, OwnTurn
<1>5. NothingAhead' /\ LastCovers'
  BY <1>1 DEF IInv, TypeOK, NothingAhead, LastCovers, SavedFirst, PassIsShort, Never
<1>6. FailureKept' /\ BackoffPassed'
  BY <1>1 DEF IInv, FailureKept, BackoffPassed
<1>7. QED
  BY <1>1, <1>2, <1>3, <1>4, <1>5, <1>6 DEF IInv

(* The turn is not counted any more: `last` is the one before it.              *)
LEMMA PutBackStep == ASSUME WarmupAssumption, IInv, PutBack PROVE IInv'
<1>1. turns # <<>> /\ turns[Own].at = now
  BY DEF PutBack, IInv, OwnTurn, Own
<1>2. MarkedAs("lost") /\ SpacedTurns'
  BY <1>1, Marked DEF PutBack
<1>3. Own \in Nat /\ Own \in DOMAIN turns /\ \A i \in DOMAIN turns : i # Own => i \in 1..(Own - 1)
  BY <1>1, OwnIsLast DEF IInv
<1>4. TypeOK'
  BY <1>2 DEF IInv, TypeOK, PutBack, Passing, MarkedAs
<1>5. PassIsShort' /\ PriorCovers' /\ SavedFirst' /\ GuardPassed'
  BY DEF IInv, PutBack, PassIsShort, PriorCovers, SavedFirst, GuardPassed
<1>6. OwnTurn' /\ NothingAhead'
  <2>1. turns' # <<>> /\ turns'[Own'].at = now'
    BY <1>1, <1>2, <1>3 DEF PutBack, MarkedAs
  <2>2. NothingAhead'
    BY <1>2 DEF IInv, PutBack, NothingAhead, MarkedAs
  <2>3. QED
    BY <2>1, <2>2 DEF OwnTurn, Own
<1>7. LastCovers'
  <2> SUFFICES ASSUME NEW i \in DOMAIN turns, turns'[i].how = "kept"
               PROVE  prior # Never /\ turns'[i].at <= prior
    BY <1>2 DEF PutBack, LastCovers, MarkedAs
  <2>1. i # Own /\ turns'[i] = turns[i]
    BY <1>2 DEF MarkedAs
  <2>2. i \in 1..(Own - 1) /\ Prior(Own - 1)
    BY <1>3, <2>1 DEF PutBack, IInv, PriorCovers, Own
  <2>3. QED
    BY <2>1, <2>2 DEF Prior
<1>8. FailureKept' /\ BackoffPassed'
  <2> SUFFICES ASSUME NEW i \in DOMAIN turns, turns'[i].how = "failed"
               PROVE  turns'[i].at + Backoff <= now
    BY <1>2 DEF PutBack, FailureKept, BackoffPassed, MarkedAs
  <2>1. turns'[i] = turns[i]
    BY <1>2 DEF MarkedAs
  <2>2. QED
    BY <2>1 DEF PutBack, IInv, BackoffPassed
<1>9. QED
  BY <1>2, <1>4, <1>5, <1>6, <1>7, <1>8 DEF IInv

(* warmup_pass writes the failure: of the turn, if `last` was put back for it.  *)
LEMMA BacksOffStep == ASSUME WarmupAssumption, IInv, BacksOff PROVE IInv'
<1>1. /\ turns' \in Seq(Turn) /\ DOMAIN turns' = DOMAIN turns /\ SpacedTurns'
      /\ \A i \in DOMAIN turns : turns'[i].at = turns[i].at
      /\ \A i \in DOMAIN turns : turns'[i] = turns[i] \/ turns'[i].how = "failed"
  <2>1. CASE pc = "forgone"
    <3>1. turns # <<>> /\ turns' = Latest("failed")
      BY <2>1 DEF BacksOff, IInv, OwnTurn
    <3>2. MarkedAs("failed") /\ SpacedTurns'
      BY <3>1, Marked
    <3>3. \A i \in DOMAIN turns : turns'[i] = turns[i] \/ turns'[i].how = "failed"
      BY <3>2 DEF MarkedAs
    <3>4. QED
      BY <3>2, <3>3 DEF MarkedAs
  <2>2. CASE pc # "forgone"
    BY <2>2 DEF BacksOff, IInv, TypeOK, SpacedTurns
  <2>3. QED
    BY <2>1, <2>2
<1>2. now \in Nat /\ now # Never
  BY DEF IInv, TypeOK, Never
<1>3. TypeOK'
  BY <1>1, <1>2 DEF IInv, TypeOK, BacksOff, Times
<1>4. PassIsShort' /\ PriorCovers' /\ SavedFirst' /\ OwnTurn' /\ GuardPassed' /\ BackoffPassed'
  BY DEF BacksOff, PassIsShort, PriorCovers, SavedFirst, OwnTurn, GuardPassed, BackoffPassed
<1>5. NothingAhead'
  BY <1>1 DEF IInv, BacksOff, NothingAhead
<1>6. LastCovers'
  <2> SUFFICES ASSUME NEW i \in DOMAIN turns, turns'[i].how = "kept"
               PROVE  last # Never /\ turns'[i].at <= last
    BY <1>1 DEF BacksOff, LastCovers
  <2>1. turns'[i] = turns[i]
    BY <1>1
  <2>2. QED
    BY <2>1 DEF IInv, LastCovers
<1>7. FailureKept'
  <2> SUFFICES ASSUME NEW i \in DOMAIN turns PROVE turns'[i].at <= now
    BY <1>1, <1>2 DEF BacksOff, FailureKept
  <2>1. QED
    BY <1>1 DEF IInv, NothingAhead
<1>8. QED
  BY <1>1, <1>3, <1>4, <1>5, <1>6, <1>7 DEF IInv

(* The pass goes no further, or the second reading is in.                      *)
LEMMA EndStep ==
  ASSUME WarmupAssumption, IInv, pc # "idle", pc' \in {"idle", "raised"},
         failed' = failed \/ (failed' = Never /\ pc = "reread"),
         row' = row \/ row' \in Readings,
         UNCHANGED <<now, opened, used, last, prior, at, turns>>
  PROVE  IInv'
<1>1. TypeOK'
  <2>1. row' \in [reset : Times, used : BOOLEAN]
    BY ReadingsAreRows DEF IInv, TypeOK
  <2>2. QED
    BY <2>1 DEF IInv, TypeOK, Times, Passing
<1>2. PriorCovers' /\ SavedFirst' /\ OwnTurn' /\ GuardPassed'
  BY DEF PriorCovers, SavedFirst, OwnTurn, GuardPassed
<1>3. PassIsShort' /\ NothingAhead' /\ LastCovers' /\ SpacedTurns' /\ BackoffPassed'
  BY DEF IInv, PassIsShort, NothingAhead, LastCovers, SpacedTurns, BackoffPassed
<1>4. FailureKept'
  BY DEF IInv, BackoffPassed, FailureKept
<1>5. QED
  BY <1>1, <1>2, <1>3, <1>4 DEF IInv

(* Between passes: the owner works on the login, switches it, and time passes.  *)
LEMMA BetweenPasses ==
  ASSUME WarmupAssumption, IInv, HumanUse \/ Blocks \/ Clock
  PROVE  IInv'
<1>1. /\ pc = "idle" /\ pc' = "idle" /\ now' \in {now, now + 1}
      /\ UNCHANGED <<row, last, failed, prior, at, turns>>
  BY DEF HumanUse, Blocks, Clock
<1>2. TypeOK'
  <2>1. CASE HumanUse
    BY <1>1, <2>1 DEF IInv, TypeOK, Times, HumanUse, Opens
  <2>2. CASE Blocks \/ Clock
    BY <1>1, <2>2 DEF IInv, TypeOK, Blocks, Clock
  <2>3. QED
    BY <2>1, <2>2
<1>3. PassIsShort' /\ PriorCovers' /\ SavedFirst' /\ OwnTurn' /\ GuardPassed' /\ BackoffPassed'
  BY <1>1 DEF PassIsShort, PriorCovers, SavedFirst, OwnTurn, GuardPassed, BackoffPassed
<1>4. LastCovers' /\ SpacedTurns'
  BY <1>1 DEF IInv, LastCovers, SpacedTurns
<1>5. NothingAhead' /\ FailureKept'
  <2> SUFFICES ASSUME NEW i \in DOMAIN turns
               PROVE  /\ turns[i].at <= now'
                      /\ turns[i].how = "failed" => \/ failed # Never /\ turns[i].at <= failed
                                                   \/ turns[i].at + Backoff <= now'
    BY <1>1 DEF NothingAhead, FailureKept
  <2>1. turns[i].at \in Nat
    BY TurnsAreTurns DEF IInv
  <2>2. QED
    BY <1>1, <2>1 DEF IInv, TypeOK, NothingAhead, FailureKept, WarmupAssumption
<1>6. QED
  BY <1>2, <1>3, <1>4, <1>5 DEF IInv

LEMMA IndIInv == WarmupAssumption /\ IInv /\ [WarmupNext]_warmupVars => IInv'
<1> SUFFICES ASSUME WarmupAssumption, IInv, [WarmupNext]_warmupVars PROVE IInv'
  OBVIOUS
<1>1. CASE nudge \/ NudgeFails
  BY <1>1, TurnStep DEF nudge, NudgeFails
<1>2. CASE ReadFails \/ Reread
  BY <1>2, EndStep DEF ReadFails, Reread
<1>3. CASE Crash
  <2>1. CASE pc = "nudge"
    BY <1>3, <2>1, TurnStep DEF Crash
  <2>2. CASE pc # "nudge"
    BY <1>3, <2>2, EndStep DEF Crash
  <2>3. QED
    BY <2>1, <2>2
<1>4. CASE UNCHANGED warmupVars
  BY <1>4 DEF warmupVars, IInv, TypeOK, PassIsShort, NothingAhead, LastCovers, PriorCovers, Prior,
              SavedFirst, OwnTurn, GuardPassed, FailureKept, BackoffPassed, SpacedTurns
<1>5. QED
  BY <1>1, <1>2, <1>3, <1>4, BeginStep, ReadStep, PersistStep, PutBackStep, BacksOffStep,
     BetweenPasses DEF WarmupNext

------------------------------------------------------------------------------
(* Every reachable state satisfies the strengthened invariant.                *)
THEOREM Invariance == ASSUME WarmupAssumption PROVE WarmupSpec => []IInv
BY InitIInv, IndIInv, PTL DEF WarmupSpec

(* warmup.py run_target, warmup_pass: a paid turn not seen to fail, also one a  *)
(* crash cut off, is the last one for four hours, one that failed for half an   *)
(* hour, whatever the free readings show and whoever uses the login meanwhile;  *)
(* only a failed one whose process dies between the two writes is not counted. *)
THEOREM TurnsKeepTheirDistance == ASSUME WarmupAssumption PROVE WarmupSpec => []SpacedTurns
<1>1. IInv => SpacedTurns
  BY DEF IInv
<1>2. QED
  BY <1>1, Invariance, PTL

------------------------------------------------------------------------------
(* Vetting.                                                                   *)

(* Every directory is read without doubt, each change of it has a version, and *)
(* the changes that were looked up have safe evidence.                         *)
Read == \A d \in Touched : ~Ambiguous(before[d], after[d])
Safe(dep) == dep.version # 0 /\ _metadata(dep) /\ ~Blocked(dep)
LookedUp == changed_dependencies \ todo

Contents == [declares : DOMAIN Satisfies, locks : [Locks -> Versions \cup {0}],
             pins : [Locks -> Pin], catalog : Pin, manifest : Nat, unsupported : Nat]
Evidence == [published : BOOLEAN, revision : Nat, recent : BOOLEAN,
             advisories : SUBSET SUBSET DOMAIN Level]

VettingInv ==
  /\ before \in [Dirs -> Contents] /\ after \in [Dirs -> Contents]
  /\ registry \in [Versions -> Evidence]
  /\ stage \in {"changed", "ask", "done"}
  /\ stage = "changed" => verdict = "none"
  /\ stage = "ask" =>
       Read /\ Unresolved = {} /\ (verdict = "clear" => \A dep \in LookedUp : Safe(dep))
  /\ stage = "done" /\ verdict = "clear" =>
       Read /\ \A dep \in changed_dependencies : Safe(dep)

(* Lock files that do not contradict each other name one version, the one that *)
(* _direct_version takes.                                                     *)
LEMMA LocksAgree ==
  ASSUME VettingAssumption, NEW s \in Contents, ~AmbiguousLocks(s), s.declares # "absent",
         LockedTo(s) # {}
  PROVE  LockedTo(s) = {_direct_version(s)} /\ _direct_version(s) # 0
<1> DEFINE T == {s.locks[l] : l \in Locks}
<1>1. IsFiniteSet(LockedTo(s))
  <2>1. s.locks \in Surjection(Locks, T)
    BY DEF Contents, Surjection
  <2>2. IsFiniteSet(T)
    BY <2>1, FS_Surjection DEF VettingAssumption
  <2> QED BY <2>2, FS_Subset DEF LockedTo
<1>2. _direct_version(s) \in LockedTo(s)
  BY DEF _direct_version
<1>3. ASSUME NEW v \in LockedTo(s) PROVE v = _direct_version(s)
  <2> DEFINE w == _direct_version(s)
  <2> SUFFICES ASSUME v # w PROVE FALSE
    OBVIOUS
  <2>1. Cardinality({w, v}) = 2
    <3>1. IsFiniteSet({w}) /\ Cardinality({w}) = 1
      BY FS_Singleton
    <3>2. Cardinality({w} \cup {v}) = 2
      BY <3>1, FS_AddElement
    <3>3. {w} \cup {v} = {w, v}
      OBVIOUS
    <3> QED BY <3>2, <3>3
  <2>2. {w, v} \in SUBSET LockedTo(s)
    BY <1>2
  <2>3. Cardinality({w, v}) <= Cardinality(LockedTo(s)) /\ Cardinality(LockedTo(s)) \in Nat
    BY <1>1, <2>2, FS_Subset, FS_CardinalityType
  <2> QED BY <2>1, <2>3 DEF AmbiguousLocks
<1> QED BY <1>2, <1>3 DEF LockedTo

(* A direct dependency that has a version is asked for at that version.        *)
LEMMA AskedAt ==
  ASSUME VettingAssumption, NEW s \in Contents, ~AmbiguousLocks(s), s.declares # "absent",
         _direct_version(s) # 0, NEW v,
         v \in IF LockedTo(s) # {} THEN LockedTo(s) ELSE Satisfies[s.declares]
  PROVE  v = _direct_version(s)
<1>1. CASE LockedTo(s) # {}
  BY <1>1, LocksAgree
<1>2. CASE LockedTo(s) = {}
  <2>1. Exact(s.declares) # {} /\ _direct_version(s) \in Exact(s.declares)
    BY <1>2 DEF _direct_version
  <2> QED BY <1>2, <2>1 DEF Exact
<1> QED BY <1>1, <1>2

(* What a change of a directory makes it ask for that it did not ask for       *)
(* before is among the changes that are looked up, unless one of them has no   *)
(* version: however the declaration, the lock files and the catalog moved.     *)
LEMMA NewAsksAreChanges ==
  ASSUME VettingAssumption, NEW old \in Contents, NEW new \in Contents, ~Ambiguous(old, new),
         \A dep \in _changed_project_dependencies(old, new) : dep.version # 0,
         NEW dep \in AsksFor(new) \ AsksFor(old)
  PROVE  dep \in _changed_project_dependencies(old, new)
<1> DEFINE Ways(s) == IF LockedTo(s) # {} THEN LockedTo(s) ELSE Satisfies[s.declares]
<1>1. ~AmbiguousLocks(old) /\ ~AmbiguousLocks(new)
  BY DEF Ambiguous
<1>2. CASE dep \in ({new.pins[l] : l \in Locks} \cup {new.catalog}) \ Nothing
  <2>1. dep \notin ({old.pins[l] : l \in Locks} \cup {old.catalog}) \ Nothing
    BY DEF AsksFor
  <2> QED BY <1>2, <2>1 DEF _changed_project_dependencies, PinChanges, CatalogChanges, Nothing
<1>3. CASE new.declares # "absent" /\ dep \in {Dep(v, 0) : v \in Ways(new)}
  <2>1. PICK v \in Ways(new) : dep = Dep(v, 0)
    BY <1>3
  <2>2. CASE DirectChanged(old, new)
    <3>1. Dep(_direct_version(new), 0) \in _changed_project_dependencies(old, new)
      BY <2>2 DEF _changed_project_dependencies, DirectChanges
    <3>2. _direct_version(new) # 0
      BY <3>1 DEF Dep
    <3> QED BY <1>1, <1>3, <2>1, <3>1, <3>2, AskedAt
  <2>3. CASE ~DirectChanged(old, new)
    <3>1. old.declares = new.declares /\ _direct_version(old) = _direct_version(new)
      BY <1>3, <2>3 DEF DirectChanged
    <3>2. Dep(v, 0) \in {Dep(w, 0) : w \in Ways(old)}
      <4>1. CASE _direct_version(new) = 0
        <5>1. LockedTo(new) = {} /\ LockedTo(old) = {}
          BY <1>1, <1>3, <3>1, <4>1, LocksAgree
        <5> QED BY <2>1, <3>1, <5>1
      <4>2. CASE _direct_version(new) # 0
        <5>1. v = _direct_version(new)
          BY <1>1, <1>3, <2>1, <4>2, AskedAt
        <5>2. _direct_version(old) \in Ways(old)
          BY <3>1, <4>2 DEF _direct_version, Exact
        <5> QED BY <3>1, <5>1, <5>2
      <4> QED BY <4>1, <4>2
    <3>3. dep \in AsksFor(old)
      BY <1>3, <2>1, <3>1, <3>2 DEF AsksFor
    <3> QED BY <3>3
  <2> QED BY <2>2, <2>3
<1> QED BY <1>2, <1>3 DEF AsksFor

(* What changes between two contents has a version of the package, or none.    *)
LEMMA ChangesAreTyped ==
  ASSUME VettingAssumption, NEW old \in Contents, NEW new \in Contents,
         NEW dep \in _changed_project_dependencies(old, new)
  PROVE  dep \in Pin
<1>1. _direct_version(new) \in Versions \cup {0}
  <2>1. LockedTo(new) \subseteq Versions
    BY DEF LockedTo, Contents
  <2>2. Exact(new.declares) \subseteq Versions
    BY DEF Exact
  <2> QED BY <2>1, <2>2 DEF _direct_version
<1>2. DirectChanges(old, new) \subseteq Pin
  BY <1>1 DEF DirectChanges, Dep, Pin
<1>3. PinChanges(old, new) \subseteq Pin /\ CatalogChanges(old, new) \subseteq Pin
  BY DEF PinChanges, CatalogChanges, Contents
<1> QED BY <1>2, <1>3 DEF _changed_project_dependencies

(* The worst level a source gives is below HIGH only if all it says is.        *)
LEMMA MildIsMild ==
  ASSUME NEW says \in SUBSET DOMAIN Level, _severity(says) \notin {"HIGH", "CRITICAL", "UNKNOWN"}
  PROVE  says # {} /\ says \subseteq {"NONE", "LOW", "MODERATE"}
<1> DEFINE Worst(l) == l \in says /\ \A k \in says : Level[k] <= Level[l]
<1>1. says # {}
  BY DEF _severity
<1>2. says \subseteq {"NONE", "LOW", "MODERATE", "HIGH", "CRITICAL", "UNKNOWN"}
  BY DEF Level
<1>3. /\ Level["NONE"] = 0 /\ Level["LOW"] = 1 /\ Level["MODERATE"] = 2
      /\ Level["HIGH"] = 3 /\ Level["CRITICAL"] = 4 /\ Level["UNKNOWN"] = 5
  BY DEF Level
<1>4. \E l \in says : Worst(l)
  <2>1. CASE "UNKNOWN" \in says
    BY <1>2, <1>3, <2>1
  <2>2. CASE "UNKNOWN" \notin says /\ "CRITICAL" \in says
    BY <1>2, <1>3, <2>2
  <2>3. CASE "UNKNOWN" \notin says /\ "CRITICAL" \notin says /\ "HIGH" \in says
    BY <1>2, <1>3, <2>3
  <2>4. CASE says \subseteq {"NONE", "LOW", "MODERATE"} /\ "MODERATE" \in says
    BY <1>2, <1>3, <2>4
  <2>5. CASE says \subseteq {"NONE", "LOW"} /\ "LOW" \in says
    BY <1>2, <1>3, <2>5
  <2>6. CASE says \subseteq {"NONE"}
    BY <1>1, <1>3, <2>6
  <2>7. \/ "UNKNOWN" \in says \/ "CRITICAL" \in says \/ "HIGH" \in says
        \/ says \subseteq {"NONE", "LOW", "MODERATE"}
    BY <1>2
  <2>8. CASE says \subseteq {"NONE", "LOW", "MODERATE"}
    <3>1. \/ "MODERATE" \in says \/ says \subseteq {"NONE", "LOW"}
      BY <2>8
    <3>2. \/ "LOW" \in says \/ says \subseteq {"NONE"} \/ "MODERATE" \in says
      BY <3>1
    <3> QED BY <2>4, <2>5, <2>6, <2>8, <3>1, <3>2
  <2> QED BY <2>1, <2>2, <2>3, <2>7, <2>8
<1>5. Worst(_severity(says))
  BY <1>1, <1>4 DEF _severity
<1>6. _severity(says) \in {"NONE", "LOW", "MODERATE"}
  BY <1>2, <1>5
<1>7. Level[_severity(says)] \in 0..2
  BY <1>3, <1>6
<1>8. "HIGH" \notin says /\ "CRITICAL" \notin says /\ "UNKNOWN" \notin says
  BY <1>3, <1>5, <1>7
<1> QED BY <1>1, <1>2, <1>8

(* A change that was looked up and found safe is sound.                        *)
LEMMA SafeIsSound ==
  ASSUME VettingAssumption, registry \in [Versions -> Evidence], NEW dep \in Pin, Safe(dep)
  PROVE  Sound(dep)
<1>1. registry[dep.version] \in Evidence
  BY DEF Safe, Pin
<1>2. ASSUME NEW says \in registry[dep.version].advisories
      PROVE  says # {} /\ says \subseteq {"NONE", "LOW", "MODERATE"}
  <2>1. says \in SUBSET DOMAIN Level
    BY <1>1 DEF Evidence
  <2>2. _severity(says) \notin {"HIGH", "CRITICAL", "UNKNOWN"}
    BY DEF Safe, Blocked, _advisories
  <2> QED BY <2>1, <2>2, MildIsMild
<1> QED BY <1>2 DEF Sound, Safe, Blocked, Recent, _metadata, _resolved_metadata

LEMMA VettingStarts == ASSUME VettingAssumption, VettingInit PROVE VettingInv
<1>1. before \in [Dirs -> Contents] /\ after \in [Dirs -> Contents]
  BY DEF VettingAssumption, VettingInit, Contents
<1>2. registry \in [Versions -> Evidence]
  BY DEF VettingAssumption, VettingInit, Evidence
<1> QED BY <1>1, <1>2 DEF VettingInit, VettingInv

LEMMA VettingKeeps ==
  ASSUME VettingInv, [VettingNext]_vettingVars PROVE VettingInv'
<1>1. UNCHANGED <<before, after, registry>>
  BY DEF VettingNext, FilesFail, ReadChanges, vet_one, LookupFails, Vetted, Verdict, vettingVars
<1>2. /\ changed_dependencies' = changed_dependencies /\ Read' = Read /\ Unresolved' = Unresolved
      /\ \A dep : Safe(dep)' = Safe(dep)
  BY <1>1 DEF changed_dependencies, Touched, Read, Unresolved, Safe, _metadata,
     _resolved_metadata, Blocked, Recent, _advisories
<1> DEFINE Kept == /\ before' \in [Dirs -> Contents] /\ after' \in [Dirs -> Contents]
                   /\ registry' \in [Versions -> Evidence]
<1>3. Kept
  BY <1>1 DEF VettingInv
<1>4. CASE FilesFail \/ LookupFails
  BY <1>3, <1>4 DEF FilesFail, LookupFails, Verdict, VettingInv
<1>5. CASE ReadChanges
  <2>1. Read
    BY <1>5 DEF ReadChanges, Read
  <2>2. CASE Unresolved # {}
    BY <1>3, <1>5, <2>2 DEF ReadChanges, Verdict, VettingInv
  <2>3. CASE Unresolved = {} /\ changed_dependencies = {}
    BY <1>2, <1>3, <1>5, <2>1, <2>3 DEF ReadChanges, Verdict, VettingInv
  <2>4. CASE Unresolved = {} /\ changed_dependencies # {}
    <3>1. stage' = "ask" /\ todo' = changed_dependencies
      BY <1>5, <2>4 DEF ReadChanges
    <3>2. LookedUp' = {}
      BY <1>2, <3>1 DEF LookedUp
    <3> QED BY <1>2, <1>3, <2>1, <2>4, <3>1, <3>2 DEF VettingInv
  <2> QED BY <2>2, <2>3, <2>4
<1>6. CASE vet_one
  <2>1. PICK dep \in todo :
          IF ~_metadata(dep) THEN Verdict("error")
          ELSE /\ todo' = todo \ {dep}
               /\ verdict' = IF Blocked(dep) THEN "blocked" ELSE verdict
               /\ UNCHANGED <<before, after, registry, stage>>
    BY <1>6 DEF vet_one
  <2>2. stage = "ask" /\ Read /\ Unresolved = {}
    BY <1>6 DEF vet_one, VettingInv
  <2>3. CASE ~_metadata(dep)
    BY <1>3, <2>1, <2>3 DEF Verdict, VettingInv
  <2>4. CASE _metadata(dep)
    <3>1. /\ todo' = todo \ {dep} /\ stage' = "ask"
          /\ verdict' = IF Blocked(dep) THEN "blocked" ELSE verdict
      BY <2>1, <2>2, <2>4
    <3>2. ASSUME verdict' = "clear", NEW other \in LookedUp' PROVE Safe(other)
      <4>1. ~Blocked(dep) /\ verdict = "clear"
        BY <3>1, <3>2
      <4>2. other \in changed_dependencies /\ (other \in LookedUp \/ other = dep)
        BY <1>2, <3>1, <3>2 DEF LookedUp
      <4>3. other.version # 0
        BY <2>2, <4>2 DEF Unresolved
      <4> QED BY <2>2, <2>4, <4>1, <4>2, <4>3 DEF VettingInv, Safe
    <3> QED BY <1>2, <1>3, <2>2, <3>1, <3>2 DEF VettingInv
  <2> QED BY <2>3, <2>4
<1>7. CASE Vetted
  <2>1. stage = "ask" /\ todo = {} /\ stage' = "done" /\ verdict' = verdict
    BY <1>7 DEF Vetted, Verdict
  <2>2. LookedUp = changed_dependencies
    BY <2>1 DEF LookedUp
  <2> QED BY <1>2, <1>3, <2>1, <2>2 DEF VettingInv
<1>8. CASE UNCHANGED vettingVars
  <2>1. stage' = stage /\ verdict' = verdict /\ LookedUp' = LookedUp
    BY <1>2, <1>8 DEF vettingVars, LookedUp
  <2> QED BY <1>2, <1>3, <2>1 DEF VettingInv
<1> QED BY <1>4, <1>5, <1>6, <1>7, <1>8 DEF VettingNext

(* From the invariant to the property: an untouched directory asks for what it  *)
(* asked for, and all that a touched one asks for anew was looked up.          *)
LEMMA ClearIsSound == ASSUME VettingAssumption, VettingInv PROVE ClearMeansSound
<1> SUFFICES ASSUME stage = "done", verdict = "clear", NEW d \in Dirs,
                    NEW dep \in AsksFor(after[d]) \ AsksFor(before[d])
             PROVE  Sound(dep)
  BY DEF ClearMeansSound
<1>1. d \in Touched /\ before[d] \in Contents /\ after[d] \in Contents
  BY DEF Touched, VettingInv
<1>2. \A x \in _changed_project_dependencies(before[d], after[d]) : x \in changed_dependencies
  BY <1>1 DEF changed_dependencies
<1>3. ~Ambiguous(before[d], after[d]) /\ \A x \in changed_dependencies : Safe(x)
  BY <1>1 DEF VettingInv, Read
<1>4. dep \in _changed_project_dependencies(before[d], after[d])
  BY <1>1, <1>2, <1>3, NewAsksAreChanges DEF Safe
<1>5. dep \in Pin
  BY <1>1, <1>4, ChangesAreTyped
<1> QED BY <1>2, <1>3, <1>4, <1>5, SafeIsSound DEF VettingInv

(* dependency_vetting.vet: a cleared change makes a project ask for nothing new *)
(* without safe evidence, for all directories, lock files, contents, registries *)
THEOREM ClearedIsSafe == ASSUME VettingAssumption PROVE VettingSpec => []ClearMeansSound
<1>1. VettingInit => VettingInv
  BY VettingStarts
<1>2. VettingInv /\ [VettingNext]_vettingVars => VettingInv'
  BY VettingKeeps
<1>3. VettingInv => ClearMeansSound
  BY ClearIsSound
<1> QED BY <1>1, <1>2, <1>3, PTL DEF VettingSpec

------------------------------------------------------------------------------
(* Protection.                                                                *)

(* A provider that votes safe holds everybody.                                 *)
LEMMA ClassicHolds ==
  ASSUME NEW value, ClassicVote(value) = "safe", NEW a \in Actors
  PROVE  HeldByClassic(a) /\ value
<1>1. {_flag(value, repo.classic.on), Admins} = {"safe"}
  BY DEF ClassicVote, _all
<1>2. _flag(value, repo.classic.on) = "safe" /\ Admins = "safe"
  BY <1>1
<1> QED BY <1>2 DEF _flag, Admins, HeldByClassic

LEMMA RulesetHolds ==
  ASSUME NEW r \in Sets, _ruleset_unbypassable(r) = "safe", NEW a \in Actors
  PROVE  HeldBy(r, a)
BY DEF _ruleset_unbypassable, _flag, HeldBy

(* A safeguard that is safe over all providers keeps everybody from the act.   *)
LEMMA SafeguardHolds ==
  ASSUME NEW classic, NEW kind, Safeguard(classic, kind) = "safe", NEW a \in Actors
  PROVE  ~May(a, classic, kind)
<1>1. \/ ClassicVote(classic) = "safe"
      \/ \E r \in Sets : Supplies(r, kind) /\ _ruleset_unbypassable(r) = "safe"
  BY DEF Safeguard, _alternative
<1>2. CASE ClassicVote(classic) = "safe"
  BY <1>2, ClassicHolds DEF May
<1>3. CASE \E r \in Sets : Supplies(r, kind) /\ _ruleset_unbypassable(r) = "safe"
  BY <1>3, RulesetHolds DEF May
<1> QED BY <1>1, <1>2, <1>3

(* A gate that is safe is one provider that requires the tests, and that the    *)
(* branch is up to date, of everybody.                                         *)
LEMMA GateHolds ==
  ASSUME Gate = "safe", NEW a \in Actors
  PROVE  ~MaySkipTests(a) /\ ~MayMergeStale(a)
<1>1. \/ repo.classic.test /\ ClassicVote(repo.classic.strict) = "safe"
      \/ \E r \in Sets : /\ Supplies(r, "tests")
                          /\ _all({_flag(repo.rulesets[r].strict, TRUE),
                                   _ruleset_unbypassable(r)}) = "safe"
  BY DEF Gate, _alternative
<1>2. CASE repo.classic.test /\ ClassicVote(repo.classic.strict) = "safe"
  BY <1>2, ClassicHolds DEF MaySkipTests, May, MayMergeStale
<1>3. ASSUME NEW r \in Sets, Supplies(r, "tests"),
             _all({_flag(repo.rulesets[r].strict, TRUE), _ruleset_unbypassable(r)}) = "safe"
      PROVE  ~MaySkipTests(a) /\ ~MayMergeStale(a)
  <2>1. {_flag(repo.rulesets[r].strict, TRUE), _ruleset_unbypassable(r)} = {"safe"}
    BY <1>3 DEF _all
  <2>2. repo.rulesets[r].strict /\ _ruleset_unbypassable(r) = "safe"
    BY <2>1 DEF _flag
  <2> QED BY <1>3, <2>2, RulesetHolds DEF MaySkipTests, May, MayMergeStale
<1> QED BY <1>1, <1>2, <1>3

(* No vote is other than these three.                                          *)
LEMMA Votes ==
  /\ Gate \in {"safe", "unsafe", "unknown"}
  /\ \A classic, kind : Safeguard(classic, kind) \in {"safe", "unsafe", "unknown"}
BY DEF Gate, Safeguard, _alternative

LEMMA PassIsProtected == ASSUME finding = "pass" => _protection = "pass" PROVE PassMeansProtected
<1> SUFFICES ASSUME _protection = "pass", NEW a \in Actors
             PROVE  /\ ~MaySkipTests(a) /\ ~MayMergeStale(a)
                    /\ ~May(a, repo.classic.force, "non_fast_forward")
                    /\ ~May(a, repo.classic.deletion, "deletion")
  BY DEF PassMeansProtected
<1>1. "unsafe" \notin _hardening /\ "unknown" \notin _hardening
  BY DEF _protection
<1>2. /\ Gate = "safe" /\ Safeguard(repo.classic.force, "non_fast_forward") = "safe"
      /\ Safeguard(repo.classic.deletion, "deletion") = "safe"
  BY <1>1, Votes DEF _hardening
<1> QED BY <1>2, GateHolds, SafeguardHolds

(* practices_audit: a passing finding holds everybody, administrators and those *)
(* a ruleset names included, whatever is configured and whatever is hidden.    *)
THEOREM PassIsNoGuess == ProtectionSpec => []PassMeansProtected
<1> DEFINE Found == finding = "pass" => _protection = "pass"
<1>1. ProtectionInit => Found
  BY DEF ProtectionInit
<1>2. Found /\ [ProtectionNext]_protectionVars => Found'
  <2> SUFFICES ASSUME Found, [ProtectionNext]_protectionVars PROVE Found'
    OBVIOUS
  <2>1. UNCHANGED <<repo, hidden, jobs>> /\ finding' \in {finding, _protection}
    BY DEF ProtectionNext, Audit, protectionVars
  <2>2. _protection' = _protection
    BY <2>1 DEF _protection, Sets, Contexts, Gated, _hardening, Gate, Safeguard, Supplies,
       ClassicVote, Admins, _ruleset_unbypassable
  <2> QED BY <2>1, <2>2
<1>3. Found => PassMeansProtected
  BY PassIsProtected
<1> QED BY <1>1, <1>2, <1>3, PTL DEF ProtectionSpec

------------------------------------------------------------------------------
(* Dispatch. What a pass counts for itself is what the ledger has, for as long  *)
(* as it runs: nothing ends beside it, and it notes what it starts.            *)
OneLimitPerGroup ==
  \A p, q \in Platforms : Group[p] = Group[q] => MaxRuns[p] = MaxRuns[q]

Roles == {"sort", "build"}
RunRows == [id : Nat, item : Items, role : Roles, platform : Platforms]
Places == {<<Proj[i], Area[i]>> : i \in Items}
PassType ==
  [on : {TRUE}, rs : SUBSET RunRows, busy : SUBSET Platforms, hot : {m.hot : m \in Moods},
   in_project : [Projects -> Nat], in_flight : [Projects -> Nat], busy_areas : SUBSET Places,
   roles : [Items -> Roles], work : SUBSET Items, round : SUBSET Items,
   order : SUBSET (Items \X Items), started : SUBSET Projects,
   go : {NoGo} \cup [item : Items, role : Roles, platform : Platforms],
   starts : [Projects -> Nat]]
ScopeType == [sig : Errors \cup {None}, at : Int]

DispatchTypes ==
  /\ time \in Nat /\ ids \in Nat
  /\ running \subseteq RunRows /\ IsFiniteSet(running)
  /\ pass \in PassType \cup {NoPass}
  /\ broken \in [Scopes -> ScopeType] /\ tried \in [Scopes -> Int]

(* A broken scope is due an interval after it was last tried.                  *)
DueInTime == \A s \in Scopes : broken[s] # Whole => broken[s].at = tried[s] + Canary

(* The counts of a pass are never behind the ledger.                           *)
AtTier(t, rs) == {r \in rs : Tier[r.platform] >= t}
Counted ==
  pass.on =>
    /\ pass.rs = running
    /\ \A p \in Projects : Cardinality(Of(p, ItemsOf(running))) <= pass.in_project[p]
    /\ \A r \in running : r.role = "build" => <<Proj[r.item], Area[r.item]>> \in pass.busy_areas
    /\ \A p \in Platforms \ pass.busy, t \in DOMAIN ByTier :
         Tier[p] >= t => Cardinality(AtTier(t, running)) < ByTier[t]

(* A platform that is not busy has a run left in its group.                    *)
GroupsCounted ==
  pass.on => \A p \in Platforms \ pass.busy :
    Cardinality(InGroup(Group[p], running)) < MaxRuns[p]

(* What was chosen still has what it was chosen for.                           *)
Fits ==
  pass.on /\ pass.go # NoGo =>
    LET go == pass.go
        p == Proj[go.item]
    IN  /\ go.platform \notin pass.busy /\ allowed(go.item) /\ p \notin pass.started
        /\ Cardinality(pass.rs) < Total /\ pass.in_project[p] < MaxParallel
        /\ go.role = "build" => /\ pass.in_project[p] + pass.in_flight[p] < MaxParallel
                                /\ <<p, Area[go.item]>> \notin pass.busy_areas

(* After R rounds a project with work left has started R times, and once more   *)
(* if it had its turn in this round; nobody has started more often.            *)
Turns(R, p) == R + (IF p \in pass.started THEN 1 ELSE 0)
DealtRound ==
  pass.on =>
    /\ pass.round \subseteq pass.work
    /\ \A i \in pass.work \ pass.round :
         Proj[i] \in pass.started \/ (pass.started = {} /\ pass.round = {} /\ pass.go = NoGo)
    /\ \E R \in Nat :
         /\ \A p \in Projects : pass.starts[p] <= Turns(R, p)
         /\ \A i \in pass.work : pass.starts[Proj[i]] = Turns(R, Proj[i])

DispatchInv ==
  DispatchTypes /\ DueInTime /\ Counted /\ Fits /\ DealtRound /\ AreaExclusive

------------------------------------------------------------------------------
LEMMA OneMore ==
  ASSUME NEW S, IsFiniteSet(S), NEW x, NEW T \in SUBSET (S \cup {x})
  PROVE  IsFiniteSet(T) /\ Cardinality(T) <= Cardinality(S) + 1
<1>1. IsFiniteSet(S \cup {x}) /\ Cardinality(S \cup {x}) \in {Cardinality(S), Cardinality(S) + 1}
  BY FS_AddElement
<1>2. IsFiniteSet(T) /\ Cardinality(T) <= Cardinality(S \cup {x})
  BY <1>1, FS_Subset
<1> QED BY <1>1, <1>2, FS_CardinalityType

(* The counts of one more run.                                                *)
LEMMA RunAdded ==
  ASSUME DispatchTypes, NEW r \in RunRows
  PROVE  /\ IsFiniteSet(running \cup {r}) /\ running \cup {r} \subseteq RunRows
         /\ Cardinality(running \cup {r}) <= Cardinality(running) + 1
         /\ \A p \in Projects :
              /\ Cardinality(Of(p, ItemsOf(running))) \in Nat
              /\ Cardinality(Of(p, ItemsOf(running \cup {r}))) <= Cardinality(Of(p, ItemsOf(running))) + 1
              /\ Proj[r.item] # p => Of(p, ItemsOf(running \cup {r})) = Of(p, ItemsOf(running))
         /\ \A g : /\ Cardinality(InGroup(g, running)) \in Nat
                   /\ Cardinality(InGroup(g, running \cup {r})) <= Cardinality(InGroup(g, running)) + 1
                   /\ Group[r.platform] # g => InGroup(g, running \cup {r}) = InGroup(g, running)
         /\ \A t : /\ Cardinality(AtTier(t, running)) \in Nat
                   /\ Cardinality(AtTier(t, running \cup {r})) <= Cardinality(AtTier(t, running)) + 1
<1> USE DispatchAssumption
<1>1. IsFiniteSet(running) /\ running \subseteq RunRows
  BY DEF DispatchTypes
<1>2. IsFiniteSet(running \cup {r}) /\ running \cup {r} \subseteq RunRows
      /\ Cardinality(running \cup {r}) <= Cardinality(running) + 1
  BY <1>1, OneMore
<1>3. ASSUME NEW p \in Projects
      PROVE  /\ Cardinality(Of(p, ItemsOf(running))) \in Nat
             /\ Cardinality(Of(p, ItemsOf(running \cup {r}))) <= Cardinality(Of(p, ItemsOf(running))) + 1
             /\ Proj[r.item] # p => Of(p, ItemsOf(running \cup {r})) = Of(p, ItemsOf(running))
  <2>1. ItemsOf(running) \subseteq Items /\ ItemsOf(running \cup {r}) = ItemsOf(running) \cup {r.item}
    BY <1>1 DEF ItemsOf, RunRows
  <2>2. Of(p, ItemsOf(running)) \subseteq Items
    BY <2>1 DEF Of
  <2>3. IsFiniteSet(Of(p, ItemsOf(running))) /\ Cardinality(Of(p, ItemsOf(running))) \in Nat
    BY <2>2, FS_Subset, FS_CardinalityType
  <2>4. Of(p, ItemsOf(running \cup {r})) \subseteq Of(p, ItemsOf(running)) \cup {r.item}
    BY <2>1 DEF Of
  <2>5. Proj[r.item] # p => Of(p, ItemsOf(running \cup {r})) = Of(p, ItemsOf(running))
    BY <2>1 DEF Of
  <2> QED BY <2>3, <2>4, <2>5, OneMore
<1>4. ASSUME NEW g
      PROVE  /\ Cardinality(InGroup(g, running)) \in Nat
             /\ Cardinality(InGroup(g, running \cup {r})) <= Cardinality(InGroup(g, running)) + 1
             /\ Group[r.platform] # g => InGroup(g, running \cup {r}) = InGroup(g, running)
  <2>1. InGroup(g, running) \subseteq running
    BY DEF InGroup
  <2>2. IsFiniteSet(InGroup(g, running)) /\ Cardinality(InGroup(g, running)) \in Nat
    BY <1>1, <2>1, FS_Subset, FS_CardinalityType
  <2>3. InGroup(g, running \cup {r}) \subseteq InGroup(g, running) \cup {r}
    BY DEF InGroup
  <2>4. Group[r.platform] # g => InGroup(g, running \cup {r}) = InGroup(g, running)
    BY DEF InGroup
  <2> QED BY <2>2, <2>3, <2>4, OneMore
<1>5. ASSUME NEW t
      PROVE  /\ Cardinality(AtTier(t, running)) \in Nat
             /\ Cardinality(AtTier(t, running \cup {r})) <= Cardinality(AtTier(t, running)) + 1
  <2>1. AtTier(t, running) \subseteq running
    BY DEF AtTier
  <2>2. IsFiniteSet(AtTier(t, running)) /\ Cardinality(AtTier(t, running)) \in Nat
    BY <1>1, <2>1, FS_Subset, FS_CardinalityType
  <2>3. AtTier(t, running \cup {r}) \subseteq AtTier(t, running) \cup {r}
    BY DEF AtTier
  <2> QED BY <2>2, <2>3, OneMore
<1> QED BY <1>2, <1>3, <1>4, <1>5

LEMMA InitDispatchInv == DispatchInit => DispatchInv
<1> SUFFICES ASSUME DispatchInit PROVE DispatchInv
  OBVIOUS
<1> USE DispatchAssumption DEF DispatchInit
<1>1. running = {} /\ IsFiniteSet(running) /\ pass = NoPass /\ ~pass.on
  BY FS_EmptySet DEF NoPass
<1>2. broken \in [Scopes -> ScopeType] /\ tried \in [Scopes -> Int]
  BY DEF ScopeType, Whole
<1>3. \A s \in Scopes : broken[s] = Whole
  OBVIOUS
<1> QED BY <1>1, <1>2, <1>3 DEF DispatchInv, DispatchTypes, DueInTime, Counted, Fits, DealtRound,
           AreaExclusive

(* What goes on beside a pass, or between two.                                *)
Beside ==
  /\ UNCHANGED <<pass, broken, tried, ids>>
  /\ \/ ~pass.on /\ \E r \in running : running' = running \ {r} /\ time' = time
     \/ ~pass.on /\ time' = time + 1 /\ UNCHANGED running
     \/ UNCHANGED <<running, time>>

(* What was chosen does not start.                                            *)
Unstarted ==
  /\ pass.on /\ pass.go # NoGo /\ pass' = [pass EXCEPT !.go = NoGo]
  /\ UNCHANGED <<time, running>>

LEMMA StepsOfAPass ==
  ASSUME [DispatchNext]_dispatchVars
  PROVE  Beside \/ BeginPass \/ EndPass \/ NextRound \/ Consider \/ NotClaimed \/ Launches
         \/ LaunchFails \/ Conflict \/ CrashesLaunching
BY DEF DispatchNext, dispatchVars, breaker, Beside, RunEnds, Ships, WaitEnds, SessionTakes,
       SessionLeaves, OwnerParks, Tick

LEMMA NotStarting ==
  ASSUME NotClaimed \/ LaunchFails \/ Conflict PROVE Unstarted
BY DEF NotClaimed, LaunchFails, Conflict, Claims, Unstarted

(* A pass under way is a record of counts, and what was chosen an item.       *)
LEMMA PassFields ==
  ASSUME DispatchTypes, pass.on
  PROVE  /\ pass \in PassType /\ pass.rs \subseteq RunRows /\ pass.busy \subseteq Platforms
         /\ pass.in_project \in [Projects -> Nat] /\ pass.in_flight \in [Projects -> Nat]
         /\ pass.roles \in [Items -> Roles] /\ pass.work \subseteq Items /\ pass.round \subseteq Items
         /\ pass.started \subseteq Projects /\ pass.starts \in [Projects -> Nat]
         /\ pass.go # NoGo => /\ pass.go \in [item : Items, role : Roles, platform : Platforms]
                              /\ Proj[pass.go.item] \in Projects /\ NewRun \in RunRows
                              /\ NewRun.item = pass.go.item /\ NewRun.role = pass.go.role
                              /\ NewRun.platform = pass.go.platform
<1>1. pass \in PassType
  BY DEF DispatchTypes, NoPass
<1>2. ids + 1 \in Nat
  BY DEF DispatchTypes
<1>3. ASSUME pass.go # NoGo
      PROVE  /\ pass.go \in [item : Items, role : Roles, platform : Platforms]
             /\ Proj[pass.go.item] \in Projects /\ NewRun \in RunRows
             /\ NewRun.item = pass.go.item /\ NewRun.role = pass.go.role
             /\ NewRun.platform = pass.go.platform
  <2>1. pass.go \in [item : Items, role : Roles, platform : Platforms]
    BY <1>1, <1>3 DEF PassType
  <2> QED BY <1>2, <2>1 DEF NewRun, RunRows, Projects
<1> QED BY <1>1, <1>3 DEF PassType

(* A try uses up the interval of every broken scope it is in.                 *)
LEMMA ConsumedShape ==
  ASSUME DispatchTypes, NEW i \in Items
  PROVE  /\ Consumed(i) \in [Scopes -> ScopeType]
         /\ \A s \in Scopes : IF s \in {"global", Proj[i]} /\ broken[s] # Whole
                              THEN Consumed(i)[s] = [broken[s] EXCEPT !.at = time + Canary]
                              ELSE Consumed(i)[s] = broken[s]
         /\ \A s \in Scopes : Consumed(i)[s] \in ScopeType /\ broken[s] \in ScopeType
         /\ Proj[i] \in Scopes /\ "global" \in Scopes
BY DispatchAssumption DEF DispatchTypes, Consumed, ScopeType, Scopes, Projects

LEMMA BreakerKeeps ==
  ASSUME DispatchTypes, DueInTime, [DispatchNext]_dispatchVars
  PROVE  broken' \in [Scopes -> ScopeType] /\ tried' \in [Scopes -> Int] /\ DueInTime'
<1> USE DispatchAssumption
<1>0. time \in Nat /\ Canary \in Nat /\ broken \in [Scopes -> ScopeType] /\ tried \in [Scopes -> Int]
  BY DEF DispatchTypes
<1>1. CASE UNCHANGED <<broken, tried>>
  BY <1>0, <1>1 DEF DueInTime
<1>2. ASSUME pass.on, pass.go # NoGo, NEW i \in Items, broken' = Consumed(i),
             tried' = [s \in Scopes |-> IF broken[s] # broken'[s] THEN time ELSE tried[s]]
      PROVE  broken' \in [Scopes -> ScopeType] /\ tried' \in [Scopes -> Int] /\ DueInTime'
  <2>1. broken' \in [Scopes -> ScopeType] /\ tried' \in [Scopes -> Int]
    BY <1>0, <1>2, ConsumedShape
  <2>2. ASSUME NEW s \in Scopes, broken'[s] # Whole PROVE broken'[s].at = tried'[s] + Canary
    <3>1. CASE broken'[s] = broken[s]
      BY <1>2, <2>2, <3>1 DEF DueInTime
    <3>2. CASE broken'[s] # broken[s]
      <4>1. broken'[s] = [broken[s] EXCEPT !.at = time + Canary] /\ broken[s] \in ScopeType
        BY <1>2, <3>2, ConsumedShape
      <4>2. tried'[s] = time
        BY <1>2, <3>2
      <4> QED BY <4>1, <4>2 DEF ScopeType
    <3> QED BY <3>1, <3>2
  <2> QED BY <2>1, <2>2 DEF DueInTime
<1>3. CASE Conflict \/ CrashesLaunching
  <2>1. pass.on /\ pass.go # NoGo /\ pass.go.item \in Items /\ broken' = Consumed(pass.go.item)
        /\ tried' = [s \in Scopes |-> IF broken[s] # broken'[s] THEN time ELSE tried[s]]
    BY <1>3, PassFields DEF Conflict, CrashesLaunching, Claims
  <2> QED BY <2>1, <1>2
<1>4. CASE Launches
  <2> DEFINE i == pass.go.item
  <2>1. /\ broken' = [s \in Scopes |-> IF s \in {"global", Proj[i]} THEN Whole ELSE broken[s]]
        /\ tried' = [s \in Scopes |-> IF s \in {"global", Proj[i]} THEN time ELSE tried[s]]
    BY <1>4 DEF Launches, succeeded
  <2>2. Whole \in ScopeType
    BY DEF Whole, ScopeType
  <2> QED BY <1>0, <2>1, <2>2 DEF DueInTime
<1>5. CASE LaunchFails
  <2> DEFINE i == pass.go.item
             all(sig) == failures \cup {[sig |-> sig, item |-> i, run |-> NewRun.id]}
             Since(sig, s) == {f \in all(sig) : f.sig = sig /\ f.run > successes[s]
                                                /\ (s = "global" \/ Proj[f.item] = s)}
             scope(sig) == IF Cardinality({f.item : f \in Since(sig, "global")}) >= 2 THEN "global"
                           ELSE IF Cardinality(Since(sig, Proj[i])) >= 3 THEN Proj[i] ELSE None
  <2>1. i \in Items
    BY <1>5, PassFields DEF LaunchFails, Claims
  <2>2. PICK sig \in Errors : launch_failed(i, sig, NewRun.id)
    BY <1>5 DEF LaunchFails
  <2>3. PICK sc : /\ sc = scope(sig)
                  /\ LET opens == sc # None /\ Consumed(i)[sc] = Whole
                         Tried(s) == (opens /\ s = sc) \/ (s \in {"global", Proj[i]} /\ broken[s] # Whole)
                     IN  /\ broken' = IF opens
                                      THEN [Consumed(i) EXCEPT ![sc] = [sig |-> sig, at |-> time + Canary]]
                                      ELSE Consumed(i)
                         /\ tried' = [s \in Scopes |-> IF Tried(s) THEN time ELSE tried[s]]
    BY <2>2 DEF launch_failed
  <2>4. sc \in {"global", Proj[i], None}
    BY <2>3
  <2> HIDE DEF scope, all, Since, i
  <2>5. broken' \in [Scopes -> ScopeType] /\ tried' \in [Scopes -> Int]
    BY <1>0, <2>1, <2>3, <2>4, ConsumedShape DEF ScopeType
  <2>6. ASSUME NEW s \in Scopes, broken'[s] # Whole PROVE broken'[s].at = tried'[s] + Canary
    <3>1. CASE sc # None /\ Consumed(i)[sc] = Whole /\ s = sc
      <4>1. broken'[s] = [sig |-> sig, at |-> time + Canary] /\ tried'[s] = time
        BY <2>1, <2>3, <2>4, <3>1, ConsumedShape
      <4> QED BY <4>1
    <3>2. CASE ~(sc # None /\ Consumed(i)[sc] = Whole /\ s = sc)
      <4>1. broken'[s] = Consumed(i)[s]
        BY <2>1, <2>3, <3>2, ConsumedShape
      <4>2. tried'[s] = IF s \in {"global", Proj[i]} /\ broken[s] # Whole THEN time ELSE tried[s]
        BY <2>3, <3>2
      <4>3. CASE s \in {"global", Proj[i]} /\ broken[s] # Whole
        <5>1. Consumed(i)[s] = [broken[s] EXCEPT !.at = time + Canary] /\ broken[s] \in ScopeType
          BY <2>1, <4>3, ConsumedShape
        <5> QED BY <4>1, <4>2, <4>3, <5>1 DEF ScopeType
      <4>4. CASE ~(s \in {"global", Proj[i]} /\ broken[s] # Whole)
        BY <2>1, <2>6, <4>1, <4>2, <4>4, ConsumedShape DEF DueInTime
      <4> QED BY <4>3, <4>4
    <3> QED BY <3>1, <3>2
  <2> QED BY <2>5, <2>6 DEF DueInTime
<1> QED BY <1>1, <1>3, <1>4, <1>5, StepsOfAPass
     DEF Beside, BeginPass, EndPass, NextRound, Consider, NotClaimed, breaker

(* What each step makes of the pass, field by field.                          *)
LEMMA BeginShape ==
  ASSUME DispatchTypes, BeginPass
  PROVE  /\ pass' \in PassType /\ UNCHANGED <<time, running, broken, tried, ids>>
         /\ pass'.rs = running /\ pass'.busy = busy_platforms(running) \cup tier_budget_busy(running)
         /\ pass'.in_project = [p \in Projects |-> Cardinality(Of(p, ItemsOf(running)))]
         /\ pass'.busy_areas = {<<Proj[i], Area[i]>> : i \in Occupied}
         /\ pass'.round = {} /\ pass'.started = {} /\ pass'.go = NoGo
         /\ pass'.starts = [p \in Projects |-> 0]
<1>1. PICK m \in Moods :
        pass' = [_init_schedule_state(m.hot)
                   EXCEPT !.work = _candidates(m.paused),
                          !.order = _order_candidates(_candidates(m.paused), m.boost,
                                                      sorts_wait(_init_schedule_state(m.hot).busy))]
  BY DEF BeginPass
<1> DEFINE st == _init_schedule_state(m.hot)
           work == _candidates(m.paused)
           order == _order_candidates(work, m.boost, sorts_wait(st.busy))
<1>2. work \in SUBSET Items
  BY DEF _candidates
<1>3. order \in SUBSET (Items \X Items)
  <2>1. order \subseteq work \X work
    BY DEF _order_candidates
  <2> QED BY <1>2, <2>1
<1>4. busy_platforms(running) \cup tier_budget_busy(running) \in SUBSET Platforms
  BY DEF busy_platforms, tier_budget_busy
<1>5. running \in SUBSET RunRows /\ ItemsOf(running) \subseteq Items
  BY DEF DispatchTypes, ItemsOf, RunRows
<1>6. {<<Proj[i], Area[i]>> : i \in Occupied} \in SUBSET Places
  BY <1>5 DEF Occupied, Verifying, Places
<1>7. [i \in Items |-> role_of(i)] \in [Items -> Roles]
  BY DEF role_of, Roles
<1>8. /\ [p \in Projects |-> Cardinality(Of(p, ItemsOf(running)))] \in [Projects -> Nat]
      /\ [p \in Projects |-> Cardinality(Of(p, Verifying))] \in [Projects -> Nat]
  <2>1. ASSUME NEW p \in Projects, NEW S \in SUBSET Items PROVE Cardinality(Of(p, S)) \in Nat
    <3>1. Of(p, S) \subseteq Items
      BY DEF Of
    <3> QED BY <3>1, DispatchAssumption, FS_Subset, FS_CardinalityType
  <2> QED BY <1>5, <2>1 DEF Verifying
<1>9. m.hot \in {n.hot : n \in Moods} /\ [p \in Projects |-> 0] \in [Projects -> Nat]
  OBVIOUS
<1>10. st = [on |-> TRUE, rs |-> running, busy |-> busy_platforms(running) \cup tier_budget_busy(running),
             hot |-> m.hot,
             in_project |-> [p \in Projects |-> Cardinality(Of(p, ItemsOf(running)))],
             in_flight |-> [p \in Projects |-> Cardinality(Of(p, Verifying))],
             busy_areas |-> {<<Proj[i], Area[i]>> : i \in Occupied},
             roles |-> [i \in Items |-> role_of(i)], work |-> {}, round |-> {}, order |-> {},
             started |-> {}, go |-> NoGo, starts |-> [p \in Projects |-> 0]]
  BY DEF _init_schedule_state
<1>11. pass' = [st EXCEPT !.work = work, !.order = order]
  BY <1>1
<1> HIDE DEF st, work, order
<1>12. pass' \in PassType
  BY <1>2, <1>3, <1>4, <1>5, <1>6, <1>7, <1>8, <1>9, <1>10, <1>11 DEF PassType
<1> QED BY <1>10, <1>11, <1>12 DEF BeginPass, breaker

LEMMA RoundShape ==
  ASSUME DispatchTypes, NextRound
  PROVE  /\ pass.on /\ pass.go = NoGo /\ pass.round = {}
         /\ pass' \in PassType /\ UNCHANGED <<time, running, broken, tried, ids>>
         /\ pass'.rs = pass.rs /\ pass'.busy = pass.busy /\ pass'.in_project = pass.in_project
         /\ pass'.in_flight = pass.in_flight /\ pass'.busy_areas = pass.busy_areas
         /\ pass'.work = pass.work /\ pass'.go = NoGo /\ pass'.starts = pass.starts
         /\ pass'.round = pass.work /\ pass'.started = {}
<1>1. pass.on /\ pass.go = NoGo /\ pass.round = {} /\ pass' = [pass EXCEPT !.round = pass.work, !.started = {}]
      /\ UNCHANGED <<time, running, broken, tried, ids>>
  BY DEF NextRound, breaker
<1>2. pass \in PassType
  BY <1>1, PassFields
<1> QED BY <1>1, <1>2 DEF PassType

(* One item of the round is looked at: it is struck off the pass, left for the  *)
(* next round as its project has had its turn, or chosen; or the pass is over.  *)
LEMMA ConsiderShape ==
  ASSUME DispatchTypes, Counted, Consider
  PROVE  /\ pass.on /\ pass.go = NoGo
         /\ pass' \in PassType /\ UNCHANGED <<time, running, broken, tried, ids>>
         /\ pass'.rs = pass.rs /\ pass'.busy = pass.busy /\ pass'.in_project = pass.in_project
         /\ pass'.in_flight = pass.in_flight /\ pass'.busy_areas = pass.busy_areas
         /\ pass'.starts = pass.starts /\ pass'.started = pass.started
         /\ \/ pass'.work = {} /\ pass'.round = {} /\ pass'.go = NoGo
            \/ \E i \in pass.round :
                 /\ pass'.round = pass.round \ {i}
                 /\ \/ pass'.work = pass.work /\ Proj[i] \in pass.started /\ pass'.go = NoGo
                    \/ pass'.work = pass.work \ {i} /\ pass'.go = NoGo
                    \/ /\ pass'.work = pass.work \ {i} /\ pass'.go.item = i
                       /\ pass'.go.platform \in Platforms \ pass.busy
                       /\ allowed(i) /\ Proj[i] \notin pass.started
                       /\ Cardinality(pass.rs) < Total
                       /\ _check_eligible(i, pass'.go.role)
<1>1. pass.on /\ pass.go = NoGo /\ UNCHANGED <<time, running, broken, tried, ids>>
  BY DEF Consider, breaker
<1>2. pass \in PassType
  BY <1>1, PassFields
<1>3. PICK i \in pass.round :
        LET role == pass.roles[i]
            on == [pass EXCEPT !.round = @ \ {i}]
            off == [on EXCEPT !.work = @ \ {i}]
        IN  \/ pass' = off
            \/ pass' = on /\ Proj[i] \in pass.started
            \/ pass' = [off EXCEPT !.work = {}, !.round = {}]
            \/ /\ allowed(i) /\ Proj[i] \notin pass.started /\ ~(Cardinality(pass.rs) >= Total)
               /\ _check_eligible(i, role)
               /\ \E p \in _route(i, role) :
                    pass' = [off EXCEPT !.go = [item |-> i, role |-> role, platform |-> p]]
  BY DEF Consider
<1> DEFINE role == pass.roles[i]
<1>4. i \in Items /\ role \in Roles
  BY <1>2 DEF PassType
<1>5. ~(Cardinality(pass.rs) >= Total) => Cardinality(pass.rs) < Total
  <2>1. pass.rs = running /\ IsFiniteSet(running)
    BY <1>1 DEF Counted, DispatchTypes
  <2>2. Cardinality(pass.rs) \in Nat
    BY <2>1, FS_CardinalityType
  <2> QED BY <2>2, DispatchAssumption
<1>6. CASE pass' = [[pass EXCEPT !.round = @ \ {i}] EXCEPT !.work = @ \ {i}]
  BY <1>1, <1>2, <1>6 DEF PassType
<1>7. CASE pass' = [pass EXCEPT !.round = @ \ {i}] /\ Proj[i] \in pass.started
  BY <1>1, <1>2, <1>7 DEF PassType
<1>8. CASE pass' = [[[pass EXCEPT !.round = @ \ {i}] EXCEPT !.work = @ \ {i}] EXCEPT !.work = {}, !.round = {}]
  BY <1>1, <1>2, <1>8 DEF PassType
<1>9. ASSUME allowed(i), Proj[i] \notin pass.started, Cardinality(pass.rs) < Total,
             _check_eligible(i, role), NEW p \in _route(i, role),
             pass' = [[[pass EXCEPT !.round = @ \ {i}] EXCEPT !.work = @ \ {i}]
                        EXCEPT !.go = [item |-> i, role |-> role, platform |-> p]]
      PROVE  /\ pass' \in PassType
             /\ pass'.rs = pass.rs /\ pass'.busy = pass.busy /\ pass'.in_project = pass.in_project
             /\ pass'.in_flight = pass.in_flight /\ pass'.busy_areas = pass.busy_areas
             /\ pass'.starts = pass.starts /\ pass'.started = pass.started
             /\ pass'.round = pass.round \ {i} /\ pass'.work = pass.work \ {i}
             /\ pass'.go.item = i /\ pass'.go.platform \in Platforms \ pass.busy /\ pass'.go.role = role
  <2>1. p \in Platforms \ pass.busy
    BY DEF _route
  <2> HIDE DEF role
  <2>2. [item |-> i, role |-> role, platform |-> p] \in [item : Items, role : Roles, platform : Platforms]
    BY <1>4, <2>1
  <2> QED BY <1>2, <1>9, <2>1, <2>2 DEF PassType
<1> QED BY <1>1, <1>3, <1>5, <1>6, <1>7, <1>8, <1>9

(* A launch notes the run it started.                                         *)
LEMMA StartShape ==
  ASSUME DispatchTypes, Launches
  PROVE  LET p == Proj[pass.go.item]
             rs == pass.rs \cup {NewRun}
         IN  /\ pass.on /\ pass.go # NoGo /\ running' = running \cup {NewRun}
             /\ pass' \in PassType /\ time' = time /\ ids' = ids + 1
             /\ pass'.rs = rs /\ pass'.go = NoGo
             /\ pass'.work = pass.work /\ pass'.round = pass.round
             /\ pass'.in_project = [pass.in_project EXCEPT ![p] = @ + 1]
             /\ pass'.starts = [pass.starts EXCEPT ![p] = @ + 1]
             /\ pass'.started = pass.started \cup {p}
             /\ pass.busy_areas \subseteq pass'.busy_areas
             /\ pass.go.role = "build" => <<p, Area[pass.go.item]>> \in pass'.busy_areas
             /\ pass.busy \cup tier_budget_busy(rs) \subseteq pass'.busy
             /\ Cardinality(InGroup(Group[pass.go.platform], rs)) >= MaxRuns[pass.go.platform]
                  => {q \in Platforms : Group[q] = Group[pass.go.platform]} \subseteq pass'.busy
<1> DEFINE go == pass.go
           p == Proj[go.item]
           rs == pass.rs \cup {NewRun}
           full == IF Cardinality(InGroup(Group[go.platform], rs)) >= MaxRuns[go.platform]
                   THEN {q \in Platforms : Group[q] = Group[go.platform]} ELSE {}
           areas == IF go.role = "build" THEN pass.busy_areas \cup {<<p, Area[go.item]>>}
                    ELSE pass.busy_areas
           busy == pass.busy \cup full \cup tier_budget_busy(rs)
<1>1. pass.on /\ go # NoGo /\ running' = running \cup {NewRun} /\ time' = time /\ ids' = ids + 1
      /\ pass' = _account_start(go, NewRun)
  BY DEF Launches, Claims
<1>2. /\ pass \in PassType /\ go \in [item : Items, role : Roles, platform : Platforms]
      /\ p \in Projects /\ NewRun \in RunRows
  BY <1>1, PassFields
<1>3. pass' = [pass EXCEPT !.go = NoGo, !.rs = rs, !.in_project = [pass.in_project EXCEPT ![p] = @ + 1],
                           !.busy_areas = areas, !.busy = busy, !.started = pass.started \cup {p},
                           !.starts = [pass.starts EXCEPT ![p] = @ + 1]]
  BY <1>1, <1>2 DEF _account_start, Took, PassType
<1>4. /\ areas \in SUBSET Places /\ busy \in SUBSET Platforms /\ rs \in SUBSET RunRows
      /\ pass.started \cup {p} \in SUBSET Projects
      /\ [pass.in_project EXCEPT ![p] = @ + 1] \in [Projects -> Nat]
      /\ [pass.starts EXCEPT ![p] = @ + 1] \in [Projects -> Nat]
  BY <1>2 DEF PassType, Places, tier_budget_busy
<1>5. pass.busy \cup tier_budget_busy(rs) \subseteq busy /\ pass.busy_areas \subseteq areas
      /\ (go.role = "build" => <<p, Area[go.item]>> \in areas)
      /\ (Cardinality(InGroup(Group[go.platform], rs)) >= MaxRuns[go.platform]
            => {q \in Platforms : Group[q] = Group[go.platform]} \subseteq busy)
  OBVIOUS
<1> HIDE DEF areas, busy, rs, full, p
<1>6. pass' \in PassType
  BY <1>2, <1>3, <1>4 DEF PassType
<1>7. /\ pass'.rs = rs /\ pass'.go = NoGo /\ pass'.work = pass.work /\ pass'.round = pass.round
      /\ pass'.in_project = [pass.in_project EXCEPT ![p] = @ + 1]
      /\ pass'.starts = [pass.starts EXCEPT ![p] = @ + 1]
      /\ pass'.started = pass.started \cup {p} /\ pass'.busy_areas = areas /\ pass'.busy = busy
  BY <1>2, <1>3 DEF PassType
<1> QED BY <1>1, <1>5, <1>6, <1>7 DEF rs, p

LEMMA TypesStep ==
  ASSUME DispatchTypes, DueInTime, Counted, [DispatchNext]_dispatchVars PROVE DispatchTypes'
<1>1. broken' \in [Scopes -> ScopeType] /\ tried' \in [Scopes -> Int]
  BY BreakerKeeps
<1>2. time \in Nat /\ ids \in Nat /\ running \subseteq RunRows /\ IsFiniteSet(running)
      /\ pass \in PassType \cup {NoPass}
  BY DEF DispatchTypes
<1>3. CASE Beside
  <2>1. time' \in Nat /\ ids' \in Nat /\ pass' \in PassType \cup {NoPass} /\ running' \subseteq running
    BY <1>2, <1>3 DEF Beside
  <2>2. IsFiniteSet(running')
    BY <1>2, <2>1, FS_Subset
  <2> QED BY <1>1, <1>2, <2>1, <2>2 DEF DispatchTypes
<1>4. CASE BeginPass
  BY <1>1, <1>2, <1>4, BeginShape DEF DispatchTypes
<1>5. CASE EndPass
  BY <1>1, <1>2, <1>5 DEF EndPass, DispatchTypes
<1>6. CASE NextRound
  BY <1>1, <1>2, <1>6, RoundShape DEF DispatchTypes
<1>7. CASE Consider
  BY <1>1, <1>2, <1>7, ConsiderShape DEF DispatchTypes
<1>8. CASE NotClaimed \/ LaunchFails \/ Conflict
  <2>1. Unstarted
    BY <1>8, NotStarting
  <2>2. pass \in PassType
    BY <2>1, PassFields DEF Unstarted
  <2>3. pass' \in PassType
    BY <2>1, <2>2 DEF Unstarted, PassType
  <2>4. ids' \in Nat
    BY <1>2, <1>8 DEF NotClaimed, LaunchFails, Conflict, Claims
  <2> QED BY <1>1, <1>2, <2>1, <2>3, <2>4 DEF Unstarted, DispatchTypes
<1>9. CASE Launches
  <2>1. /\ pass.on /\ pass.go # NoGo /\ running' = running \cup {NewRun} /\ pass' \in PassType
        /\ time' = time /\ ids' = ids + 1
    BY <1>9, StartShape
  <2>2. NewRun \in RunRows
    BY <2>1, PassFields
  <2>3. IsFiniteSet(running') /\ running' \subseteq RunRows
    BY <2>1, <2>2, RunAdded
  <2> QED BY <1>1, <1>2, <2>1, <2>3 DEF DispatchTypes
<1>10. CASE CrashesLaunching
  <2>1. /\ pass.on /\ pass.go # NoGo /\ running' = running \cup {NewRun} /\ pass' = NoPass
        /\ time' = time /\ ids' = ids + 1
    BY <1>10 DEF CrashesLaunching, Claims
  <2>2. NewRun \in RunRows
    BY <2>1, PassFields
  <2>3. IsFiniteSet(running') /\ running' \subseteq RunRows
    BY <2>1, <2>2, RunAdded
  <2> QED BY <1>1, <1>2, <2>1, <2>3 DEF DispatchTypes
<1> QED BY <1>3, <1>4, <1>5, <1>6, <1>7, <1>8, <1>9, <1>10, StepsOfAPass

(* A tier that is not spent has a run left at it.                             *)
LEMMA Unspent ==
  ASSUME NEW rs, IsFiniteSet(rs), NEW p \in Platforms, p \notin tier_budget_busy(rs),
         NEW t \in DOMAIN ByTier, Tier[p] >= t
  PROVE  Cardinality(AtTier(t, rs)) < ByTier[t]
<1>1. AtTier(t, rs) \subseteq rs
  BY DEF AtTier
<1>2. Cardinality(AtTier(t, rs)) \in Nat
  BY <1>1, FS_Subset, FS_CardinalityType
<1>3. ~(Cardinality(AtTier(t, rs)) >= ByTier[t])
  BY DEF tier_budget_busy, AtTier
<1> QED BY <1>2, <1>3, DispatchAssumption

LEMMA CountedStep ==
  ASSUME DispatchTypes, Counted, [DispatchNext]_dispatchVars PROVE Counted'
<1>1. CASE Beside
  <2>1. ASSUME pass.on PROVE UNCHANGED <<pass, running>>
    BY <1>1, <2>1 DEF Beside
  <2>2. pass' = pass
    BY <1>1 DEF Beside
  <2> QED BY <2>1, <2>2 DEF Counted, Of, ItemsOf, AtTier
<1>2. CASE BeginPass
  <2>1. /\ running' = running /\ pass'.rs = running
        /\ pass'.busy = busy_platforms(running) \cup tier_budget_busy(running)
        /\ pass'.in_project = [p \in Projects |-> Cardinality(Of(p, ItemsOf(running)))]
        /\ pass'.busy_areas = {<<Proj[i], Area[i]>> : i \in Occupied}
    BY <1>2, BeginShape
  <2>2. \A r \in running : r.role = "build" => <<Proj[r.item], Area[r.item]>> \in pass'.busy_areas
    BY <2>1 DEF Occupied, ItemsOf
  <2>3. \A p \in Projects : /\ Cardinality(Of(p, ItemsOf(running))) = pass'.in_project[p]
                            /\ pass'.in_project[p] \in Nat
    <3>1. pass' \in PassType
      BY <1>2, BeginShape
    <3> QED BY <2>1, <3>1 DEF PassType
  <2>4. \A p \in Platforms \ pass'.busy, t \in DOMAIN ByTier :
          Tier[p] >= t => Cardinality(AtTier(t, running)) < ByTier[t]
    BY <2>1, Unspent DEF DispatchTypes
  <2> QED BY <2>1, <2>2, <2>3, <2>4 DEF Counted, Of, ItemsOf, AtTier
<1>3. ASSUME pass.on, running' = running, pass'.rs = pass.rs, pass'.in_project = pass.in_project,
             pass'.busy_areas = pass.busy_areas, pass'.busy = pass.busy
      PROVE  Counted'
  BY <1>3 DEF Counted, Of, ItemsOf, AtTier
<1>4. CASE NextRound
  BY <1>3, <1>4, RoundShape
<1>5. CASE Consider
  BY <1>3, <1>5, ConsiderShape
<1>6. CASE NotClaimed \/ LaunchFails \/ Conflict
  <2>1. Unstarted /\ pass \in PassType
    BY <1>6, NotStarting, PassFields DEF Unstarted
  <2> QED BY <1>3, <2>1 DEF Unstarted, PassType
<1>7. CASE EndPass \/ CrashesLaunching
  BY <1>7 DEF EndPass, CrashesLaunching, NoPass, Counted
<1>8. CASE Launches
  <2> DEFINE p == Proj[pass.go.item]
  <2>1. /\ pass.on /\ pass.go # NoGo /\ running' = running \cup {NewRun} /\ pass.rs = running
        /\ pass'.rs = running \cup {NewRun}
        /\ pass'.in_project = [pass.in_project EXCEPT ![p] = @ + 1]
        /\ pass.busy_areas \subseteq pass'.busy_areas
        /\ pass.go.role = "build" => <<p, Area[pass.go.item]>> \in pass'.busy_areas
        /\ tier_budget_busy(running \cup {NewRun}) \subseteq pass'.busy
    BY <1>8, StartShape DEF Counted
  <2>2. /\ NewRun \in RunRows /\ p \in Projects /\ NewRun.item = pass.go.item
        /\ NewRun.role = pass.go.role /\ pass.in_project \in [Projects -> Nat]
    BY <2>1, PassFields
  <2>3. ASSUME NEW q \in Projects PROVE Cardinality(Of(q, ItemsOf(running'))) <= pass'.in_project[q]
    <3>1. Cardinality(Of(q, ItemsOf(running))) <= pass.in_project[q]
      BY <2>1 DEF Counted
    <3>2. Cardinality(Of(q, ItemsOf(running))) \in Nat /\ pass.in_project[q] \in Nat
      BY <2>2, RunAdded
    <3>3. CASE q = p
      <4>1. /\ Cardinality(Of(q, ItemsOf(running'))) <= Cardinality(Of(q, ItemsOf(running))) + 1
            /\ IsFiniteSet(running') /\ running' \subseteq RunRows
        BY <2>1, <2>2, RunAdded
      <4>2. Cardinality(Of(q, ItemsOf(running'))) \in Nat
        <5>1. Of(q, ItemsOf(running')) \subseteq Items
          BY <4>1 DEF Of, ItemsOf, RunRows
        <5> QED BY <5>1, DispatchAssumption, FS_Subset, FS_CardinalityType
      <4>3. pass'.in_project[q] = pass.in_project[q] + 1
        BY <2>1, <2>2, <3>3
      <4> HIDE DEF p
      <4> QED BY <3>1, <3>2, <4>1, <4>2, <4>3
    <3>4. CASE q # p
      <4>1. Of(q, ItemsOf(running')) = Of(q, ItemsOf(running))
        BY <2>1, <2>2, <3>4, RunAdded
      <4> QED BY <2>1, <2>2, <3>1, <3>4, <4>1
    <3> QED BY <3>3, <3>4
  <2>4. ASSUME NEW r \in running', r.role = "build"
        PROVE  <<Proj[r.item], Area[r.item]>> \in pass'.busy_areas
    <3>1. CASE r \in running
      BY <2>1, <2>4, <3>1 DEF Counted
    <3>2. CASE r = NewRun
      BY <2>1, <2>2, <2>4, <3>2
    <3> QED BY <2>1, <3>1, <3>2
  <2>5. ASSUME NEW q \in Platforms \ pass'.busy, NEW t \in DOMAIN ByTier, Tier[q] >= t
        PROVE  Cardinality(AtTier(t, running')) < ByTier[t]
    <3>1. IsFiniteSet(running')
      BY <2>1, <2>2, RunAdded
    <3> QED BY <2>1, <2>5, <3>1, Unspent
  <2> HIDE DEF p
  <2> QED BY <2>1, <2>3, <2>4, <2>5 DEF Counted, Of, ItemsOf, AtTier
<1> QED BY <1>1, <1>2, <1>4, <1>5, <1>6, <1>7, <1>8, StepsOfAPass

LEMMA GroupsCountedStep ==
  ASSUME OneLimitPerGroup, DispatchTypes, Counted, GroupsCounted, [DispatchNext]_dispatchVars
  PROVE  GroupsCounted'
<1>1. CASE Beside
  <2>1. ASSUME pass.on PROVE UNCHANGED <<pass, running>>
    BY <1>1, <2>1 DEF Beside
  <2>2. pass' = pass
    BY <1>1 DEF Beside
  <2> QED BY <2>1, <2>2 DEF GroupsCounted, InGroup
<1>2. CASE BeginPass
  <2>1. running' = running /\ busy_platforms(running) \subseteq pass'.busy /\ IsFiniteSet(running)
    BY <1>2, BeginShape DEF DispatchTypes
  <2>2. ASSUME NEW p \in Platforms \ pass'.busy
        PROVE  Cardinality(InGroup(Group[p], running)) < MaxRuns[p]
    <3>1. InGroup(Group[p], running) \subseteq running
      BY DEF InGroup
    <3>2. Cardinality(InGroup(Group[p], running)) \in Nat
      BY <2>1, <3>1, FS_Subset, FS_CardinalityType
    <3>3. ~(Cardinality(InGroup(Group[p], running)) >= MaxRuns[p])
      BY <2>1 DEF busy_platforms
    <3> QED BY <3>2, <3>3, DispatchAssumption
  <2> QED BY <2>1, <2>2 DEF GroupsCounted, InGroup
<1>3. ASSUME pass.on, running' = running, pass'.busy = pass.busy
      PROVE  GroupsCounted'
  BY <1>3 DEF GroupsCounted, InGroup
<1>4. CASE NextRound
  BY <1>3, <1>4, RoundShape
<1>5. CASE Consider
  BY <1>3, <1>5, ConsiderShape
<1>6. CASE NotClaimed \/ LaunchFails \/ Conflict
  <2>1. Unstarted /\ pass \in PassType
    BY <1>6, NotStarting, PassFields DEF Unstarted
  <2> QED BY <1>3, <2>1 DEF Unstarted, PassType
<1>7. CASE EndPass \/ CrashesLaunching
  BY <1>7 DEF EndPass, CrashesLaunching, NoPass, GroupsCounted
<1>8. CASE Launches
  <2> DEFINE g == Group[pass.go.platform]
  <2>1. /\ pass.on /\ pass.go # NoGo /\ running' = running \cup {NewRun} /\ pass.rs = running
        /\ pass.busy \subseteq pass'.busy
        /\ Cardinality(InGroup(g, running')) >= MaxRuns[pass.go.platform]
             => {q \in Platforms : Group[q] = g} \subseteq pass'.busy
    BY <1>8, StartShape DEF Counted
  <2>2. /\ NewRun \in RunRows /\ NewRun.platform = pass.go.platform
        /\ pass.go.platform \in Platforms
    BY <2>1, PassFields
  <2>3. ASSUME NEW p \in Platforms \ pass'.busy
        PROVE  Cardinality(InGroup(Group[p], running')) < MaxRuns[p]
    <3>1. CASE Group[p] = g
      <4>1. ~(Cardinality(InGroup(g, running')) >= MaxRuns[pass.go.platform])
        BY <2>1, <3>1
      <4>2. MaxRuns[p] = MaxRuns[pass.go.platform]
        BY <2>2, <3>1 DEF OneLimitPerGroup
      <4>3. IsFiniteSet(running') /\ InGroup(g, running') \subseteq running'
        BY <2>1, <2>2, RunAdded DEF InGroup
      <4>4. Cardinality(InGroup(g, running')) \in Nat
        BY <4>3, FS_Subset, FS_CardinalityType
      <4> QED BY <3>1, <4>1, <4>2, <4>4, DispatchAssumption
    <3>2. CASE Group[p] # g
      <4>1. InGroup(Group[p], running') = InGroup(Group[p], running)
        BY <2>1, <2>2, <3>2, RunAdded
      <4> QED BY <2>1, <4>1 DEF GroupsCounted
    <3> QED BY <3>1, <3>2
  <2> HIDE DEF g
  <2> QED BY <2>3 DEF GroupsCounted, InGroup
<1> QED BY <1>1, <1>2, <1>4, <1>5, <1>6, <1>7, <1>8, StepsOfAPass

LEMMA FitsStep ==
  ASSUME DispatchTypes, Counted, Fits, [DispatchNext]_dispatchVars PROVE Fits'
<1>1. CASE Beside
  <2>1. ASSUME pass.on PROVE UNCHANGED <<pass, time, broken>>
    BY <1>1, <2>1 DEF Beside
  <2>2. pass' = pass
    BY <1>1 DEF Beside
  <2> QED BY <2>1, <2>2 DEF Fits, allowed
<1>2. CASE BeginPass
  BY <1>2, BeginShape DEF Fits
<1>3. CASE NextRound
  BY <1>3, RoundShape DEF Fits
<1>4. CASE Consider
  <2>1. ASSUME pass'.go # NoGo PROVE Fits'
    <3>1. PICK i \in pass.round :
            /\ pass'.go.item = i /\ pass'.go.platform \in Platforms \ pass.busy
            /\ allowed(i) /\ Proj[i] \notin pass.started
            /\ Cardinality(pass.rs) < Total /\ _check_eligible(i, pass'.go.role)
      BY <1>4, <2>1, ConsiderShape
    <3>2. /\ UNCHANGED <<time, broken>>
          /\ pass'.rs = pass.rs /\ pass'.busy = pass.busy /\ pass'.in_project = pass.in_project
          /\ pass'.in_flight = pass.in_flight /\ pass'.busy_areas = pass.busy_areas
          /\ pass'.started = pass.started
      BY <1>4, ConsiderShape
    <3>3. allowed(i)' = allowed(i)
      BY <3>2 DEF allowed
    <3> QED BY <3>1, <3>2, <3>3 DEF Fits, _check_eligible, allowed
  <2> QED BY <2>1 DEF Fits
<1>5. CASE NotClaimed \/ LaunchFails \/ Conflict
  <2>1. Unstarted /\ pass \in PassType
    BY <1>5, NotStarting, PassFields DEF Unstarted
  <2>2. pass'.go = NoGo
    BY <2>1 DEF Unstarted, PassType
  <2> QED BY <2>2 DEF Fits
<1>6. CASE EndPass \/ CrashesLaunching
  BY <1>6 DEF EndPass, CrashesLaunching, NoPass, Fits
<1>7. CASE Launches
  BY <1>7, StartShape DEF Fits
<1> QED BY <1>1, <1>2, <1>3, <1>4, <1>5, <1>6, <1>7, StepsOfAPass

(* A round that started nothing leaves the pass without work; one that started  *)
(* something is followed by the next.                                          *)
LEMMA DealtStep ==
  ASSUME DispatchTypes, Counted, Fits, DealtRound, [DispatchNext]_dispatchVars PROVE DealtRound'
<1>1. CASE Beside
  BY <1>1 DEF Beside, DealtRound, Turns
<1>2. CASE BeginPass
  <2>1. /\ pass' \in PassType /\ pass'.round = {} /\ pass'.started = {} /\ pass'.go = NoGo
        /\ pass'.starts = [p \in Projects |-> 0]
    BY <1>2, BeginShape
  <2>2. \A p \in Projects : pass'.starts[p] = 0
    BY <2>1
  <2>3. \A i \in pass'.work : Proj[i] \in Projects
    BY <2>1 DEF PassType, Projects
  <2>4. \E R \in Nat : /\ \A p \in Projects : pass'.starts[p] <= Turns(R, p)'
                       /\ \A i \in pass'.work : pass'.starts[Proj[i]] = Turns(R, Proj[i])'
    <3>1. \A p : Turns(0, p)' = 0
      BY <2>1 DEF Turns
    <3> QED BY <2>2, <2>3, <3>1
  <2> QED BY <2>1, <2>4 DEF DealtRound, Turns
<1>3. CASE NextRound
  <2>1. /\ pass.on /\ pass.go = NoGo /\ pass.round = {}
        /\ pass'.work = pass.work /\ pass'.starts = pass.starts
        /\ pass'.round = pass.work /\ pass'.started = {}
    BY <1>3, RoundShape
  <2>2. /\ pass.starts \in [Projects -> Nat]
        /\ \A i \in pass.work : Proj[i] \in Projects
    BY <2>1, PassFields DEF Projects
  <2>3. PICK R \in Nat : /\ \A p \in Projects : pass.starts[p] <= Turns(R, p)
                         /\ \A i \in pass.work : pass.starts[Proj[i]] = Turns(R, Proj[i])
    BY <2>1 DEF DealtRound
  <2>4. PICK S \in Nat : S = IF pass.started = {} THEN R ELSE R + 1
    BY <2>3
  <2>5. ASSUME NEW p PROVE Turns(S, p)' = S
    <3>1. p \notin pass'.started
      BY <2>1
    <3> QED BY <2>4, <3>1 DEF Turns
  <2>6. ASSUME NEW p \in Projects PROVE pass.starts[p] <= S
    BY <2>2, <2>3, <2>4 DEF Turns
  <2>7. ASSUME NEW i \in pass.work PROVE pass.starts[Proj[i]] = S
    <3>1. Proj[i] \in pass.started \/ pass.started = {}
      BY <2>1 DEF DealtRound
    <3> QED BY <2>3, <2>4, <3>1 DEF Turns
  <2>8. \E T \in Nat : /\ \A p \in Projects : pass'.starts[p] <= Turns(T, p)'
                       /\ \A i \in pass'.work : pass'.starts[Proj[i]] = Turns(T, Proj[i])'
    <3>1. \A p \in Projects : pass'.starts[p] <= Turns(S, p)'
      BY <2>1, <2>5, <2>6
    <3>2. \A i \in pass'.work : pass'.starts[Proj[i]] = Turns(S, Proj[i])'
      BY <2>1, <2>5, <2>7
    <3> QED BY <2>4, <3>1, <3>2
  <2> QED BY <2>1, <2>8 DEF DealtRound, Turns
<1>4. CASE Consider
  <2>1. /\ pass.on /\ pass.go = NoGo
        /\ pass'.starts = pass.starts /\ pass'.started = pass.started
    BY <1>4, ConsiderShape
  <2>2. PICK R \in Nat : /\ \A p \in Projects : pass.starts[p] <= Turns(R, p)
                         /\ \A i \in pass.work : pass.starts[Proj[i]] = Turns(R, Proj[i])
    BY <2>1 DEF DealtRound
  <2>3. \A p : Turns(R, p)' = Turns(R, p)
    BY <2>1 DEF Turns
  <2>4. CASE pass'.work = {} /\ pass'.round = {}
    <3>1. \E T \in Nat : /\ \A p \in Projects : pass'.starts[p] <= Turns(T, p)'
                         /\ \A i \in pass'.work : pass'.starts[Proj[i]] = Turns(T, Proj[i])'
      BY <2>1, <2>2, <2>3, <2>4
    <3> QED BY <2>4, <3>1 DEF DealtRound, Turns
  <2>5. ASSUME NEW i \in pass.round, pass'.round = pass.round \ {i},
               \/ pass'.work = pass.work /\ Proj[i] \in pass.started
               \/ pass'.work = pass.work \ {i}
        PROVE  DealtRound'
    <3>1. pass.round \subseteq pass.work /\ \A j \in pass.work \ pass.round : Proj[j] \in pass.started
      BY <2>1 DEF DealtRound
    <3>2. /\ pass'.round \subseteq pass'.work
          /\ \A j \in pass'.work \ pass'.round : Proj[j] \in pass'.started
      BY <2>1, <2>5, <3>1
    <3>3. pass'.work \subseteq pass.work
      BY <2>5
    <3>4. \E T \in Nat : /\ \A p \in Projects : pass'.starts[p] <= Turns(T, p)'
                         /\ \A j \in pass'.work : pass'.starts[Proj[j]] = Turns(T, Proj[j])'
      BY <2>1, <2>2, <2>3, <3>3
    <3> QED BY <3>2, <3>4 DEF DealtRound, Turns
  <2> QED BY <1>4, <2>4, <2>5, ConsiderShape
<1>5. CASE NotClaimed \/ LaunchFails \/ Conflict
  <2>1. Unstarted /\ pass \in PassType
    BY <1>5, NotStarting, PassFields DEF Unstarted
  <2>2. /\ pass.on /\ pass.go # NoGo /\ pass'.work = pass.work /\ pass'.round = pass.round
        /\ pass'.started = pass.started /\ pass'.starts = pass.starts
    BY <2>1 DEF Unstarted, PassType
  <2> QED BY <2>2 DEF DealtRound, Turns
<1>6. CASE EndPass \/ CrashesLaunching
  BY <1>6 DEF EndPass, CrashesLaunching, NoPass, DealtRound
<1>7. CASE Launches
  <2> DEFINE p == Proj[pass.go.item]
  <2>1. /\ pass.on /\ pass.go # NoGo /\ pass'.work = pass.work /\ pass'.round = pass.round
        /\ pass'.starts = [pass.starts EXCEPT ![p] = @ + 1]
        /\ pass'.started = pass.started \cup {p}
    BY <1>7, StartShape
  <2>2. p \in Projects /\ p \notin pass.started
    BY <2>1, PassFields DEF Fits
  <2>3. pass.starts \in [Projects -> Nat] /\ pass.work \subseteq Items
    BY <2>1, PassFields
  <2>4. PICK R \in Nat : /\ \A q \in Projects : pass.starts[q] <= Turns(R, q)
                         /\ \A i \in pass.work : pass.starts[Proj[i]] = Turns(R, Proj[i])
    BY <2>1 DEF DealtRound
  <2> HIDE DEF p
  <2>5. ASSUME NEW q \in Projects
        PROVE  /\ pass'.starts[q] <= Turns(R, q)'
               /\ pass.starts[q] = Turns(R, q) => pass'.starts[q] = Turns(R, q)'
    <3>1. CASE q = p
      <4>1. Turns(R, q) = R /\ Turns(R, q)' = R + 1 /\ pass'.starts[q] = pass.starts[q] + 1
        BY <2>1, <2>2, <2>3, <3>1 DEF Turns
      <4> QED BY <2>3, <2>4, <4>1
    <3>2. CASE q # p
      <4>1. Turns(R, q)' = Turns(R, q) /\ pass'.starts[q] = pass.starts[q]
        BY <2>1, <2>3, <3>2 DEF Turns
      <4> QED BY <2>4, <4>1
    <3> QED BY <3>1, <3>2
  <2>6. \A i \in pass'.work : Proj[i] \in Projects
    BY <2>1, <2>3 DEF Projects
  <2>7. \E T \in Nat : /\ \A q \in Projects : pass'.starts[q] <= Turns(T, q)'
                       /\ \A i \in pass'.work : pass'.starts[Proj[i]] = Turns(T, Proj[i])'
    BY <2>1, <2>4, <2>5, <2>6
  <2>8. /\ pass'.round \subseteq pass'.work
        /\ \A i \in pass'.work \ pass'.round : Proj[i] \in pass'.started
    BY <2>1 DEF DealtRound
  <2> QED BY <2>7, <2>8 DEF DealtRound, Turns
<1> QED BY <1>1, <1>2, <1>3, <1>4, <1>5, <1>6, <1>7, StepsOfAPass

(* A run that starts is the one that was chosen.                              *)
LEMMA StartsChosen ==
  ASSUME DispatchTypes, Counted, Fits, [DispatchNext]_dispatchVars, NEW r \in Started
  PROVE  /\ pass.on /\ pass.go # NoGo /\ r = NewRun /\ running' = running \cup {r}
         /\ pass.rs = running /\ r \in RunRows /\ r.item = pass.go.item /\ r.role = pass.go.role
         /\ r.platform = pass.go.platform /\ Proj[r.item] \in Projects
<1>1. CASE Launches \/ CrashesLaunching
  <2>1. pass.on /\ pass.go # NoGo /\ running' = running \cup {NewRun}
    BY <1>1 DEF Launches, CrashesLaunching, Claims
  <2>2. r = NewRun
    BY <2>1 DEF Started
  <2> QED BY <2>1, <2>2, PassFields DEF Counted
<1>2. CASE Beside \/ BeginPass \/ EndPass \/ NextRound \/ Consider \/ NotClaimed \/ LaunchFails \/ Conflict
  <2>1. running' \subseteq running
    BY <1>2 DEF Beside, BeginPass, EndPass, NextRound, Consider, NotClaimed, LaunchFails, Conflict
  <2> QED BY <2>1 DEF Started
<1> QED BY <1>1, <1>2, StepsOfAPass

LEMMA AreaStep ==
  ASSUME DispatchTypes, Counted, Fits, AreaExclusive, [DispatchNext]_dispatchVars
  PROVE  AreaExclusive'
<1>1. CASE Started = {}
  BY <1>1 DEF Started, AreaExclusive
<1>2. CASE Started # {}
  <2>1. PICK n \in Started : n.role = "build" => <<Proj[n.item], Area[n.item]>> \notin pass.busy_areas
    <3>1. PICK n : n \in Started
      BY <1>2
    <3> QED BY <3>1, StartsChosen DEF Fits
  <2>2. pass.on /\ running' = running \cup {n}
    BY StartsChosen
  <2>3. \A r \in running : r.role = "build" => <<Proj[r.item], Area[r.item]>> \in pass.busy_areas
    BY <2>2 DEF Counted
  <2>4. ASSUME NEW r \in running', NEW s \in running', r.role = "build", s.role = "build",
               r.item # s.item, Proj[r.item] = Proj[s.item], Area[r.item] = Area[s.item]
        PROVE  FALSE
    <3>1. CASE r \in running /\ s \in running
      BY <2>4, <3>1 DEF AreaExclusive
    <3>2. CASE r \in running /\ s = n
      BY <2>1, <2>3, <2>4, <3>2
    <3>3. CASE r = n /\ s \in running
      BY <2>1, <2>3, <2>4, <3>3
    <3> QED BY <2>2, <2>4, <3>1, <3>2, <3>3
  <2> QED BY <2>4 DEF AreaExclusive
<1> QED BY <1>1, <1>2

(* Every state of the scheduler has counts that are not behind the ledger's,    *)
(* a choice that still fits and slots dealt round.                              *)
THEOREM DispatchInvariance == DispatchSpec => []DispatchInv
<1>1. DispatchInit => DispatchInv
  BY InitDispatchInv
<1>2. DispatchInv /\ [DispatchNext]_dispatchVars => DispatchInv'
  BY TypesStep, BreakerKeeps, CountedStep, FitsStep, DealtStep, AreaStep DEF DispatchInv
<1> QED BY <1>1, <1>2, PTL DEF DispatchSpec

(* Where the variants of a quota group have one limit, a pass knows for every   *)
(* platform it still offers that its group has a run left.                      *)
LEMMA GroupsInvariance == ASSUME OneLimitPerGroup PROVE DispatchSpec => []GroupsCounted
<1>1. DispatchInit => GroupsCounted
  BY DEF DispatchInit, GroupsCounted, NoPass
<1>2. DispatchInv /\ GroupsCounted /\ [DispatchNext]_dispatchVars => GroupsCounted'
  BY GroupsCountedStep DEF DispatchInv
<1> QED BY <1>1, <1>2, DispatchInvariance, PTL DEF DispatchSpec

LEMMA WithinCapsStep ==
  ASSUME DispatchInv, GroupsCounted, [DispatchNext]_dispatchVars, NEW r \in Started
  PROVE  WithinCaps(r)
<1> USE DispatchAssumption
<1> DEFINE p == Proj[r.item]
<1>1. DispatchTypes /\ Counted /\ Fits
  BY DEF DispatchInv
<1>2. /\ pass.on /\ pass.go # NoGo /\ running' = running \cup {r} /\ pass.rs = running
      /\ r \in RunRows /\ r.item = pass.go.item /\ r.role = pass.go.role
      /\ r.platform = pass.go.platform /\ p \in Projects
  BY <1>1, StartsChosen
<1>3. /\ r.platform \in Platforms \ pass.busy /\ Cardinality(running) < Total
      /\ pass.in_project[p] < MaxParallel
      /\ r.role = "build" => pass.in_project[p] + pass.in_flight[p] < MaxParallel
  BY <1>1, <1>2 DEF Fits, RunRows
<1>4. IsFiniteSet(running') /\ running' \subseteq RunRows
      /\ Cardinality(running') <= Cardinality(running) + 1
  BY <1>1, <1>2, RunAdded
<1>5. Cardinality(running') <= Total
  <2>1. Cardinality(running') \in Nat /\ Cardinality(running) \in Nat
    BY <1>1, <1>4, FS_CardinalityType DEF DispatchTypes
  <2> QED BY <1>3, <1>4, <2>1
<1>6. Cardinality(InGroup(Group[r.platform], running)) < MaxRuns[r.platform]
  BY <1>2, <1>3 DEF GroupsCounted
<1>7. ASSUME NEW t \in DOMAIN ByTier, Tier[r.platform] >= t
      PROVE  Cardinality(AtTier(t, running')) <= ByTier[t]
  <2>1. Cardinality(AtTier(t, running)) < ByTier[t]
    BY <1>1, <1>2, <1>3, <1>7 DEF Counted
  <2>2. Cardinality(AtTier(t, running')) <= Cardinality(AtTier(t, running)) + 1
        /\ Cardinality(AtTier(t, running)) \in Nat
    BY <1>1, <1>2, RunAdded
  <2>3. Cardinality(AtTier(t, running')) \in Nat
    <3>1. AtTier(t, running') \subseteq running'
      BY DEF AtTier
    <3> QED BY <1>4, <3>1, FS_Subset, FS_CardinalityType
  <2> QED BY <2>1, <2>2, <2>3
<1>8. LET working == Cardinality(Of(p, ItemsOf(running')))
      IN  working <= MaxParallel /\ (r.role = "build" => working + pass.in_flight[p] <= MaxParallel)
  <2>1. Cardinality(Of(p, ItemsOf(running))) <= pass.in_project[p]
    BY <1>1, <1>2 DEF Counted
  <2>2. Cardinality(Of(p, ItemsOf(running'))) <= Cardinality(Of(p, ItemsOf(running))) + 1
        /\ Cardinality(Of(p, ItemsOf(running))) \in Nat
    BY <1>1, <1>2, RunAdded
  <2>3. Cardinality(Of(p, ItemsOf(running'))) \in Nat
    <3>1. Of(p, ItemsOf(running')) \subseteq Items
      BY <1>4 DEF Of, ItemsOf, RunRows
    <3> QED BY <3>1, FS_Subset, FS_CardinalityType
  <2>4. pass.in_project[p] \in Nat /\ pass.in_flight[p] \in Nat
    BY <1>1, <1>2, PassFields
  <2> QED BY <1>3, <2>1, <2>2, <2>3, <2>4
<1> QED BY <1>5, <1>6, <1>7, <1>8 DEF WithinCaps, AtTier

LEMMA PacedStep ==
  ASSUME DispatchInv, [DispatchNext]_dispatchVars PROVE Paced
<1>1. SUFFICES ASSUME ids' > ids, Claimable(pass.go.item, pass.go.role = "sort"),
                      NEW s \in {"global", Proj[pass.go.item]}, broken[s] # Whole
               PROVE  time - tried[s] >= Canary
  BY DEF Paced
<1>2. DispatchTypes /\ DueInTime /\ Counted /\ Fits
  BY DEF DispatchInv
<1>3. pass.on /\ pass.go # NoGo
  <2>1. ids' # ids
    BY <1>1, <1>2 DEF DispatchTypes
  <2>2. NotClaimed \/ Launches \/ LaunchFails \/ Conflict \/ CrashesLaunching
    <3>1. (Beside \/ BeginPass \/ EndPass \/ NextRound \/ Consider) => ids' = ids
      BY DEF Beside, BeginPass, EndPass, NextRound, Consider
    <3> QED BY <2>1, <3>1, StepsOfAPass
  <2> QED BY <2>2 DEF NotClaimed, Launches, LaunchFails, Conflict, CrashesLaunching, Claims
<1>4. allowed(pass.go.item) /\ pass.go.item \in Items /\ s \in Scopes
  BY <1>2, <1>3, PassFields DEF Fits, Scopes
<1>5. time >= broken[s].at /\ broken[s].at = tried[s] + Canary
  BY <1>1, <1>2, <1>4 DEF allowed, DueInTime
<1>6. time \in Nat /\ tried[s] \in Int /\ Canary \in Nat
  BY <1>2, <1>4, DispatchAssumption DEF DispatchTypes
<1> QED BY <1>5, <1>6

LEMMA DealtIsFair == ASSUME DispatchTypes, DealtRound PROVE NobodyStarves
<1> SUFFICES ASSUME pass.on, NEW p \in Projects, NEW q \in Projects,
                    pass.starts[p] > pass.starts[q] + 1, NEW i \in pass.work, Proj[i] = q
             PROVE  FALSE
  BY DEF NobodyStarves
<1>1. PICK R \in Nat : /\ \A u \in Projects : pass.starts[u] <= Turns(R, u)
                       /\ \A j \in pass.work : pass.starts[Proj[j]] = Turns(R, Proj[j])
  BY DEF DealtRound
<1>2. pass.starts[p] \in Nat /\ pass.starts[q] \in Nat
  BY PassFields
<1>3. pass.starts[p] <= R + 1 /\ pass.starts[q] >= R
  BY <1>1, <1>2 DEF Turns
<1> QED BY <1>1, <1>2, <1>3

(* Every start keeps to the total, the group's slots, the tiers' budgets and    *)
(* the project's slots whatever the pass did before it on its own counts; one   *)
(* canary goes out per interval; two builds never share an area; no project is  *)
(* two starts ahead of one that still has work. The group's slots need the      *)
(* variants of a group to have one limit, as the counts are compared with the   *)
(* limit of the platform at hand.                                               *)
THEOREM StartsMeasured == ASSUME OneLimitPerGroup PROVE DispatchSpec => StartsAreMeasured
<1>1. DispatchInv /\ GroupsCounted /\ [DispatchNext]_dispatchVars
        => [\A r \in Started : WithinCaps(r)]_dispatchVars
  BY WithinCapsStep
<1>2. DispatchInv /\ [DispatchNext]_dispatchVars => [Paced]_dispatchVars
  BY PacedStep
<1>3. DispatchInv => AreaExclusive /\ NobodyStarves
  BY DealtIsFair DEF DispatchInv
<1>4. DispatchSpec => CapsHold
  BY <1>1, GroupsInvariance, DispatchInvariance, PTL DEF DispatchSpec, CapsHold
<1>5. DispatchSpec => CanaryPaced
  BY <1>2, DispatchInvariance, PTL DEF DispatchSpec, CanaryPaced
<1>6. DispatchSpec => [](AreaExclusive /\ NobodyStarves)
  BY <1>3, DispatchInvariance, PTL
<1> QED BY <1>4, <1>5, <1>6 DEF StartsAreMeasured
------------------------------------------------------------------------------
(* Capacity. A row stands for what was seen of its key between its two ends; the *)
(* rows of a key are apart, in an order.                                       *)
Signs == Signatures \cup {"launched"}
Row == [id : Nat, key : Keys, sig : Signs, first : Nat, last : Nat, open : BOOLEAN,
        why : {"none", "gap", "changed", "paused", "launched", "gone"}, run : Nat]
Seen == [at : Nat, sig : Signs, run : Nat]
Widest == Greatest(Gaps)

(* One row ends before another of its key begins, and no row lies between.      *)
Ahead(p, r) == p.key = r.key /\ p.last < r.first
Adjacent(rs, p, r) == Ahead(p, r) /\ ~\E x \in rs : Ahead(p, x) /\ Ahead(x, r)

(* rs: the rows, lg: what was seen, top: the tick to come.                       *)
RowsTyped(rs, top) == \A r \in rs : r \in Row /\ r.first <= r.last /\ r.last < top
LogTyped(lg, top) == lg \in [Keys -> SUBSET Seen] /\ \A k \in Keys : \A o \in lg[k] : o.at < top
Apart(rs) == \A r, s \in rs : r.key = s.key /\ r # s => Ahead(r, s) \/ Ahead(s, r)

(* An open row is the last of its key, and nothing was seen of the key since.    *)
OpenIsLast(rs, lg) ==
  \A r \in rs : r.open =>
    /\ \A s \in rs : s.key = r.key => s.last <= r.last
    /\ \A o \in lg[r.key] : o.at <= r.last
EndsKnown(rs) ==
  \A r \in rs : (r.open <=> r.why = "none") /\ (r.run # 0 => r.why = "launched")

(* Within a row the key was seen waiting for the row's cause, and at its end it   *)
(* was seen so, or launched.                                                   *)
OfItsCause(rs, lg) ==
  \A r \in rs :
    /\ \E o \in lg[r.key] : o.at = r.last /\ o.run = r.run
    /\ \A o \in lg[r.key] : r.first <= o.at /\ o.at <= r.last =>
         IF o.run = 0 THEN o.sig = r.sig ELSE o.run = r.run /\ o.at = r.last

(* At each of its moments the key was to be seen again, within the row, before a *)
(* gap; and had been seen, waiting for the row's cause ever since.              *)
SeenSoon(rs, lg) ==
  \A r \in rs : \A t \in r.first..r.last : \E o \in lg[r.key] :
    t <= o.at /\ o.at <= r.last /\ o.at - t < Widest
SeenWaiting(r, lg, t) ==
  \E o \in lg[r.key] :
    /\ o.at <= t /\ t - o.at < Widest
    /\ \A x \in lg[r.key] : o.at <= x.at /\ x.at <= t => x.sig = r.sig /\ x.run = 0
Waited(rs, lg) == \A r \in rs : \A t \in r.first..(r.last - 1) : SeenWaiting(r, lg, t)

(* A row that is not the first of its key begins with what was seen; and after a *)
(* row, what was seen is in some row.                                           *)
BeginsSeen(rs, lg) ==
  \A p, r \in rs : Ahead(p, r) => \E o \in lg[r.key] : o.at = r.first
Covered(rs, lg) ==
  \A p \in rs : \A o \in lg[p.key] : p.last < o.at =>
    \E x \in rs : x.key = p.key /\ x.first <= o.at /\ o.at <= x.last

(* What a row changed into is not a pause.                                     *)
ChangedInto(rs) ==
  \A p \in rs : p.why = "changed" =>
    /\ \E x \in rs : Ahead(p, x)
    /\ \A x \in rs : Adjacent(rs, p, x) => x.sig # "paused"

Faithful(rs, lg, top) ==
  /\ RowsTyped(rs, top) /\ LogTyped(lg, top) /\ Apart(rs) /\ OpenIsLast(rs, lg) /\ EndsKnown(rs)
  /\ OfItsCause(rs, lg) /\ SeenSoon(rs, lg) /\ Waited(rs, lg) /\ BeginsSeen(rs, lg)
  /\ Covered(rs, lg) /\ ChangedInto(rs)

CapacityInv ==
  /\ clock \in Nat \ {0} /\ gap \in Gaps /\ rowids \in Nat /\ runs \in Nat
  /\ Faithful(rows, log, clock)

------------------------------------------------------------------------------
(* Least and greatest numbers.                                                *)
LEMMA LeastNumber ==
  ASSUME NEW S \in SUBSET Nat, S # {}
  PROVE  \E x \in S : \A y \in S : x <= y
<1>1. PICK m \in S : TRUE
  OBVIOUS
<1> DEFINE T == {0..x : x \in {y \in S : y <= m}}
<1>2. IsWellFoundedOn(StrictSubsetOrdering(0..m), FiniteSubsetsOf(0..m))
  BY FS_Interval, FS_StrictSubsetOrderingWellFounded
<1>3. T \subseteq FiniteSubsetsOf(0..m) /\ T # {}
  <2>1. ASSUME NEW x \in S, x <= m
        PROVE  0..x \in FiniteSubsetsOf(0..m)
    <3>1. 0..x \subseteq 0..m /\ IsFiniteSet(0..x)
      BY <2>1, FS_Interval
    <3> QED BY <3>1 DEF FiniteSubsetsOf
  <2>2. 0..m \in T
    OBVIOUS
  <2> QED BY <2>1, <2>2
<1>4. PICK U \in T : \A V \in T : ~(<<V, U>> \in StrictSubsetOrdering(0..m))
  <2> HIDE DEF T
  <2> QED BY <1>2, <1>3, WFMin
<1>5. PICK x \in S : x <= m /\ U = 0..x
  BY <1>4
<1>6. ASSUME NEW y \in S, y < x
      PROVE  FALSE
  <2>1. 0..y \in T /\ 0..y \in SUBSET (0..m) /\ 0..x \in SUBSET (0..m)
    BY <1>5, <1>6
  <2>2. 0..y \subseteq 0..x /\ 0..y # 0..x
    <3>1. x \in 0..x /\ x \notin 0..y
      BY <1>6
    <3> QED BY <1>6, <3>1
  <2> QED BY <1>4, <1>5, <2>1, <2>2 DEF StrictSubsetOrdering
<1> QED BY <1>6

LEMMA WidestGap == Widest \in Gaps /\ Widest \in Nat \ {0} /\ \A g \in Gaps : g <= Widest
BY CapacityAssumption DEF Widest, Greatest

LEMMA NarrowestGap == Least(Gaps) \in Gaps
<1>1. PICK x \in Gaps : \A y \in Gaps : x <= y
  BY CapacityAssumption, LeastNumber
<1> QED BY <1>1 DEF Least

(* The rows of a key stand in an order, the earliest of any lot first and the    *)
(* latest last.                                                                *)
LEMMA OrderIsAhead ==
  ASSUME RowsTyped(rows, clock), Apart(rows), clock \in Nat
  PROVE  /\ \A p, r \in rows : Precedes(p, r) <=> Ahead(p, r)
         /\ \A p, r \in rows : Follows(p, r) <=> Adjacent(rows, p, r)
<1>1. \A r \in rows : r.first \in Nat /\ r.last \in Nat /\ r.first <= r.last /\ r.id \in Nat
  BY DEF RowsTyped, Row
<1>2. ASSUME NEW p \in rows, NEW r \in rows
      PROVE  Precedes(p, r) <=> Ahead(p, r)
  <2>1. CASE p = r
    BY <1>1, <2>1 DEF Precedes, Ahead
  <2>2. CASE p # r
    BY <1>1, <2>2 DEF Precedes, Ahead, Apart
  <2> QED BY <2>1, <2>2
<1> QED BY <1>2 DEF Follows, Adjacent

LEMMA FirstRow ==
  ASSUME NEW rs, NEW top \in Nat, RowsTyped(rs, top), NEW S \in SUBSET rs, S # {}
  PROVE  \E x \in S : \A y \in S : x.first <= y.first
<1>1. \A r \in S : r.first \in Nat
  BY DEF RowsTyped, Row
<1>2. PICK n \in {r.first : r \in S} : \A m \in {r.first : r \in S} : n <= m
  <2>1. {r.first : r \in S} \in SUBSET Nat /\ {r.first : r \in S} # {}
    BY <1>1
  <2> QED BY <2>1, LeastNumber
<1> QED BY <1>2

LEMMA LastRow ==
  ASSUME NEW rs, NEW top \in Nat, RowsTyped(rs, top), NEW S \in SUBSET rs, S # {}
  PROVE  \E x \in S : \A y \in S : y.last <= x.last
<1>1. \A r \in S : r.last \in Nat /\ top - r.last \in Nat
  BY DEF RowsTyped, Row
<1> DEFINE Left == {top - r.last : r \in S}
<1>2. Left \in SUBSET Nat /\ Left # {}
  BY <1>1
<1>3. PICK n \in Left : \A m \in Left : n <= m
  <2> HIDE DEF Left
  <2> QED BY <1>2, LeastNumber
<1>4. PICK x \in S : n = top - x.last
  BY <1>3
<1>5. \A y \in S : top - x.last <= top - y.last
  BY <1>3, <1>4
<1> QED BY <1>1, <1>5

(* Every row that is not the first after another has one right before it; with   *)
(* rows apart, two of a key are ahead of one another in one way only.           *)
LEMMA AheadOrder ==
  ASSUME NEW rs, NEW top \in Nat, RowsTyped(rs, top), Apart(rs)
  PROVE  /\ \A p \in rs : ~Ahead(p, p)
         /\ \A p, q, r \in rs : Ahead(p, q) /\ Ahead(q, r) => Ahead(p, r)
         /\ \A p, q \in rs : p.key = q.key => p = q \/ Ahead(p, q) \/ Ahead(q, p)
         /\ \A p, q \in rs : Ahead(p, q) => p.first < q.first /\ p.last < q.last /\ ~Ahead(q, p)
<1>1. \A r \in rs : r.first \in Nat /\ r.last \in Nat /\ r.first <= r.last
  BY DEF RowsTyped, Row
<1> QED BY <1>1 DEF Ahead, Apart

------------------------------------------------------------------------------
(* A flush: what becomes of each row, and what is added.                        *)
Sights == Observations \cup {Gone}
SightOf(o) == [at |-> clock, sig |-> o.sig, run |-> o.run]
LogOf(obs) == [k \in Keys |-> IF obs[k] = Gone THEN log[k] ELSE log[k] \cup {SightOf(obs[k])}]

SameSpan(r, y) ==
  y \in Row /\ y.key = r.key /\ y.sig = r.sig /\ y.first = r.first
(* A row that was closed, or is closed where it ended.                          *)
Unmoved(r, y) == SameSpan(r, y) /\ y.last = r.last /\ y.run = r.run /\ ~y.open /\ y.why # "none"
(* An open row that takes the observation in.                                  *)
Grown(r, o, y) ==
  /\ r.open /\ o # Gone /\ Handled(r, o) /\ SameSpan(r, y) /\ y.last = clock /\ y.run = o.run
  /\ (IF o.run = 0 THEN o.sig = r.sig /\ y.why = "none" /\ y.open ELSE y.why = "launched" /\ ~y.open)
Added(k, o, y) ==
  /\ y \in Row /\ o # Gone /\ y.key = k /\ y.sig = o.sig /\ y.first = clock /\ y.last = clock
  /\ y.run = o.run
  /\ (IF o.run = 0 THEN y.why = "none" /\ y.open ELSE y.why = "launched" /\ ~y.open)

LEMMA SightShape ==
  ASSUME runs \in Nat, NEW o \in Sights
  PROVE  /\ o.run \in Nat
         /\ o = Gone => o.run = 0
         /\ o # Gone => o.sig \in Signs
BY DEF Sights, Observations, Gone, Signs

LEMMA ClosedShape ==
  ASSUME NEW r \in Row, NEW why \in {"gap", "changed", "paused", "launched", "gone"},
         NEW seen \in Nat, NEW run \in Nat
  PROVE  LET y == _capacity_close(r, why, seen, run)
         IN  SameSpan(r, y) /\ y.last = seen /\ y.run = run /\ ~y.open /\ y.why = why
BY DEF _capacity_close, SameSpan, Row

LEMMA FoldedShape ==
  ASSUME NEW r \in Row, r.open, r.run = 0, r.why = "none", clock \in Nat, runs \in Nat,
         NEW o \in Sights, NEW y, y = Folded(r, o)
  PROVE  /\ Unmoved(r, y) \/ Grown(r, o, y)
         /\ o # Gone /\ Handled(r, o) <=> Grown(r, o, y)
         /\ y.why = "changed" => o # Gone /\ o.run = 0 /\ o.sig # "paused"
         /\ y.run # 0 => y.why = "launched"
<1>0. r.last \in Nat /\ o.run \in Nat /\ r.run \in Nat
  BY SightShape DEF Row
<1>1. CASE o = Gone
  <2>1. y = _capacity_close(r, "gone", r.last, 0)
    BY <1>1 DEF Folded
  <2>2. SameSpan(r, y) /\ y.last = r.last /\ y.run = 0 /\ ~y.open /\ y.why = "gone"
    BY <1>0, <2>1, ClosedShape
  <2> QED BY <1>1, <2>2 DEF Unmoved, Grown
<1>2. CASE o # Gone /\ o.run # 0 /\ StaleRow(r)
  <2>1. y = _capacity_close(r, "gap", r.last, 0)
    BY <1>2 DEF Folded
  <2>2. SameSpan(r, y) /\ y.last = r.last /\ y.run = 0 /\ ~y.open /\ y.why = "gap"
    BY <1>0, <2>1, ClosedShape
  <2> QED BY <1>2, <2>2 DEF Unmoved, Grown, Handled
<1>3. CASE o # Gone /\ o.run # 0 /\ ~StaleRow(r)
  <2>1. y = _capacity_close(r, "launched", clock, o.run)
    BY <1>3 DEF Folded
  <2>2. SameSpan(r, y) /\ y.last = clock /\ y.run = o.run /\ ~y.open /\ y.why = "launched"
    BY <1>0, <2>1, ClosedShape
  <2> QED BY <1>3, <2>2 DEF Unmoved, Grown, Handled
<1>4. CASE o # Gone /\ o.run = 0 /\ r.sig = o.sig /\ ~StaleRow(r)
  <2>1. y = [r EXCEPT !.last = clock]
    BY <1>4 DEF Folded
  <2>2. SameSpan(r, y) /\ y.last = clock /\ y.run = 0 /\ y.open /\ y.why = "none"
    BY <2>1 DEF SameSpan, Row
  <2> QED BY <1>4, <2>2 DEF Unmoved, Grown, Handled
<1>5. CASE o # Gone /\ o.run = 0 /\ ~(r.sig = o.sig /\ ~StaleRow(r))
  <2>1. PICK why \in {"gap", "changed", "paused"} :
          /\ y = _capacity_close(r, why, r.last, 0)
          /\ why = "changed" => o.sig # "paused"
    BY <1>5 DEF Folded
  <2>2. SameSpan(r, y) /\ y.last = r.last /\ y.run = 0 /\ ~y.open /\ y.why = why
    BY <1>0, <2>1, ClosedShape
  <2> QED BY <1>5, <2>1, <2>2 DEF Unmoved, Grown, Handled
<1> QED BY <1>1, <1>2, <1>3, <1>4, <1>5

LEMMA AddedShape ==
  ASSUME clock \in Nat, runs \in Nat, NEW k \in Keys, NEW o \in Sights, o # Gone, NEW id \in Nat
  PROVE  Added(k, o, NewRow(k, o, id))
<1>1. o.run \in Nat /\ o.sig \in Signs
  BY SightShape
<1> QED BY <1>1 DEF Added, NewRow, Row

(* Ids are numbers.                                                           *)
LEMMA IdsGiven ==
  ASSUME rowids \in Nat, NEW obs, NEW k
  PROVE  /\ rowids + Cardinality({j \in Fresh(obs) : j <= k}) \in Nat
         /\ rowids + Cardinality(Fresh(obs)) \in Nat
<1>1. Fresh(obs) \subseteq Keys /\ IsFiniteSet(Keys)
  BY CapacityAssumption DEF Fresh
<1>2. Cardinality({j \in Fresh(obs) : j <= k}) \in Nat /\ Cardinality(Fresh(obs)) \in Nat
  BY <1>1, FS_Subset, FS_CardinalityType
<1> QED BY <1>2

Image(obs, r) == IF r.open THEN Folded(r, obs[r.key]) ELSE r
New(obs, k) == NewRow(k, obs[k], rowids + Cardinality({j \in Fresh(obs) : j <= k}))

LEMMA RecordParts ==
  ASSUME NEW obs
  PROVE  capacity_record(obs) = {Image(obs, r) : r \in rows} \cup {New(obs, k) : k \in Fresh(obs)}
BY DEF capacity_record, Image, New

LEMMA ImageShape ==
  ASSUME CapacityInv, NEW obs \in [Keys -> Sights], NEW r \in rows, NEW y, y = Image(obs, r)
  PROVE  /\ Unmoved(r, y) \/ Grown(r, obs[r.key], y)
         /\ r.open /\ obs[r.key] # Gone /\ Handled(r, obs[r.key]) => Grown(r, obs[r.key], y)
         /\ y.why = "changed" =>
              \/ r.why = "changed" /\ ~r.open
              \/ /\ r.open /\ obs[r.key] # Gone /\ ~Handled(r, obs[r.key])
                 /\ obs[r.key].run = 0 /\ obs[r.key].sig # "paused"
         /\ y.run # 0 => y.why = "launched"
<1>1. /\ r \in Row /\ (r.open <=> r.why = "none") /\ (r.run # 0 => r.why = "launched")
      /\ clock \in Nat /\ runs \in Nat
  BY DEF CapacityInv, Faithful, RowsTyped, EndsKnown
<1>2. r.key \in Keys /\ obs[r.key] \in Sights
  BY <1>1 DEF Row
<1>3. CASE r.open
  <2>1. y = Folded(r, obs[r.key])
    BY <1>3 DEF Image
  <2>2. r.run = 0 /\ r.why = "none"
    BY <1>1, <1>3
  <2>3. /\ Unmoved(r, y) \/ Grown(r, obs[r.key], y)
        /\ obs[r.key] # Gone /\ Handled(r, obs[r.key]) <=> Grown(r, obs[r.key], y)
        /\ y.why = "changed" => obs[r.key] # Gone /\ obs[r.key].run = 0 /\ obs[r.key].sig # "paused"
        /\ y.run # 0 => y.why = "launched"
    BY <1>1, <1>2, <1>3, <2>1, <2>2, FoldedShape
  <2>4. Grown(r, obs[r.key], y) => y.why # "changed"
    BY DEF Grown
  <2> QED BY <1>3, <2>3, <2>4
<1>4. CASE ~r.open
  <2>1. y = r
    BY <1>4 DEF Image
  <2> QED BY <1>1, <1>4, <2>1 DEF Unmoved, SameSpan
<1> QED BY <1>3, <1>4

LEMMA NewShape ==
  ASSUME CapacityInv, NEW obs \in [Keys -> Sights], NEW k \in Fresh(obs)
  PROVE  /\ k \in Keys /\ Added(k, obs[k], New(obs, k))
         /\ \A r \in rows : r.key = k /\ r.open => ~Handled(r, obs[k])
<1>1. k \in Keys /\ obs[k] # Gone /\ obs[k] \in Sights
  BY DEF Fresh
<1>2. clock \in Nat /\ runs \in Nat /\ rowids \in Nat
  BY DEF CapacityInv
<1>3. Added(k, obs[k], New(obs, k))
  BY <1>1, <1>2, AddedShape, IdsGiven DEF New
<1> QED BY <1>1, <1>3 DEF Fresh

(* What an open row that grows has behind it: it is the only row of its key seen *)
(* now.                                                                       *)
LEMMA OneRowNow ==
  ASSUME CapacityInv, NEW obs \in [Keys -> Sights]
  PROVE  /\ \A r \in rows : Grown(r, obs[r.key], Image(obs, r)) => r.key \notin Fresh(obs)
         /\ \A r, s \in rows : r.key = s.key /\ r.open /\ s.open => r = s
         /\ \A k \in Keys : obs[k] # Gone =>
              \/ k \in Fresh(obs)
              \/ \E r \in rows : r.key = k /\ Grown(r, obs[k], Image(obs, r))
<1>1. ASSUME NEW r \in rows, Grown(r, obs[r.key], Image(obs, r))
      PROVE  r.key \notin Fresh(obs)
  BY <1>1, NewShape DEF Grown
<1>2. ASSUME NEW r \in rows, NEW s \in rows, r.key = s.key, r.open, s.open, r # s
      PROVE  FALSE
  <2>1. /\ r.first \in Nat /\ r.last \in Nat /\ r.first <= r.last
        /\ s.first \in Nat /\ s.last \in Nat /\ s.first <= s.last
        /\ s.last <= r.last /\ r.last <= s.last
        /\ r.last < s.first \/ s.last < r.first
    BY <1>2 DEF CapacityInv, Faithful, RowsTyped, Row, OpenIsLast, Apart, Ahead
  <2> QED BY <2>1
<1>3. ASSUME NEW k \in Keys, obs[k] # Gone, k \notin Fresh(obs)
      PROVE  \E r \in rows : r.key = k /\ Grown(r, obs[k], Image(obs, r))
  <2>1. PICK r \in rows : r.key = k /\ r.open /\ Handled(r, obs[k])
    BY <1>3 DEF Fresh
  <2> QED BY <1>3, <2>1, ImageShape
<1> QED BY <1>1, <1>2, <1>3

LEMMA LogShape ==
  ASSUME CapacityInv, NEW obs \in [Keys -> Sights], NEW lg, lg = LogOf(obs)
  PROVE  /\ LogTyped(lg, clock + 1)
         /\ \A k \in Keys : log[k] \subseteq lg[k]
         /\ \A k \in Keys : \A o \in lg[k] :
              \/ o \in log[k] /\ o.at < clock
              \/ /\ obs[k] # Gone /\ o.at = clock /\ o.sig = obs[k].sig /\ o.run = obs[k].run
         /\ \A k \in Keys : obs[k] # Gone =>
              \E o \in lg[k] : o.at = clock /\ o.sig = obs[k].sig /\ o.run = obs[k].run
<1>1. /\ clock \in Nat /\ runs \in Nat /\ log \in [Keys -> SUBSET Seen]
      /\ \A k \in Keys : \A o \in log[k] : o.at < clock
  BY DEF CapacityInv, Faithful, LogTyped
<1>2. ASSUME NEW k \in Keys, obs[k] # Gone
      PROVE  /\ SightOf(obs[k]) \in Seen
             /\ SightOf(obs[k]).at = clock /\ SightOf(obs[k]).sig = obs[k].sig
             /\ SightOf(obs[k]).run = obs[k].run
             /\ lg[k] = log[k] \cup {SightOf(obs[k])}
  <2>1. obs[k].run \in Nat /\ obs[k].sig \in Signs
    BY <1>1, <1>2, SightShape
  <2> QED BY <1>1, <1>2, <2>1 DEF SightOf, Seen, LogOf
<1>3. ASSUME NEW k \in Keys, obs[k] = Gone
      PROVE  lg[k] = log[k]
  BY <1>3 DEF LogOf
<1>4. lg \in [Keys -> SUBSET Seen]
  <2>1. \A k \in Keys : lg[k] \in SUBSET Seen
    BY <1>1, <1>2, <1>3
  <2> QED BY <2>1 DEF LogOf
<1>5. \A k \in Keys : \A o \in lg[k] :
        \/ o \in log[k] /\ o.at < clock
        \/ /\ obs[k] # Gone /\ o.at = clock /\ o.sig = obs[k].sig /\ o.run = obs[k].run
  BY <1>1, <1>2, <1>3
<1>6. \A k \in Keys : \A o \in lg[k] : o.at < clock + 1
  <2>1. \A k \in Keys : \A o \in lg[k] : o.at \in Nat
    BY <1>4 DEF Seen
  <2> QED BY <1>1, <1>5, <2>1
<1> QED BY <1>1, <1>2, <1>3, <1>4, <1>5, <1>6 DEF LogTyped

LEMMA RecordRows ==
  ASSUME CapacityInv, NEW obs \in [Keys -> Sights], NEW R, R = capacity_record(obs)
  PROVE  /\ \A y \in R :
              \/ \E r \in rows : y = Image(obs, r) /\ (Unmoved(r, y) \/ Grown(r, obs[r.key], y))
              \/ /\ y.key \in Fresh(obs) /\ y = New(obs, y.key) /\ Added(y.key, obs[y.key], y)
         /\ \A r \in rows : Image(obs, r) \in R
         /\ \A k \in Fresh(obs) : New(obs, k) \in R
         /\ RowsTyped(R, clock + 1) /\ EndsKnown(R)
<1>1. ASSUME NEW r \in rows
      PROVE  /\ Unmoved(r, Image(obs, r)) \/ Grown(r, obs[r.key], Image(obs, r))
             /\ Image(obs, r).run # 0 => Image(obs, r).why = "launched"
  BY ImageShape
<1>2. ASSUME NEW k \in Fresh(obs)
      PROVE  k \in Keys /\ New(obs, k).key = k /\ Added(k, obs[k], New(obs, k))
  BY NewShape DEF Added
<1>3. R = {Image(obs, r) : r \in rows} \cup {New(obs, k) : k \in Fresh(obs)}
  BY RecordParts
<1>4. \A r \in rows : r \in Row /\ r.first <= r.last /\ r.last < clock /\ clock \in Nat
  BY DEF CapacityInv, Faithful, RowsTyped
<1>5. ASSUME NEW y \in R
      PROVE  /\ \/ \E r \in rows : y = Image(obs, r) /\ (Unmoved(r, y) \/ Grown(r, obs[r.key], y))
                \/ /\ y.key \in Fresh(obs) /\ y = New(obs, y.key) /\ Added(y.key, obs[y.key], y)
             /\ y \in Row /\ y.first <= y.last /\ y.last < clock + 1
             /\ (y.open <=> y.why = "none") /\ (y.run # 0 => y.why = "launched")
  <2>1. CASE \E r \in rows : y = Image(obs, r)
    <3>1. PICK r \in rows : y = Image(obs, r)
      BY <2>1
    <3>2. /\ r \in Row /\ r.first <= r.last /\ r.last < clock /\ clock \in Nat
          /\ Unmoved(r, y) \/ Grown(r, obs[r.key], y)
          /\ y.run # 0 => y.why = "launched"
      BY <1>1, <1>4, <3>1
    <3>3. y \in Row /\ y.first <= y.last /\ y.last < clock + 1 /\ (y.open <=> y.why = "none")
      BY <3>2 DEF Unmoved, Grown, SameSpan, Row
    <3> QED BY <3>1, <3>2, <3>3
  <2>2. CASE \E k \in Fresh(obs) : y = New(obs, k)
    <3>1. PICK k \in Fresh(obs) : y = New(obs, k)
      BY <2>2
    <3>2. k = y.key /\ Added(k, obs[k], y) /\ clock \in Nat
      BY <1>2, <3>1 DEF CapacityInv
    <3> QED BY <3>1, <3>2 DEF Added, Row
  <2> QED BY <1>3, <2>1, <2>2
<1>6. (\A r \in rows : Image(obs, r) \in R) /\ (\A k \in Fresh(obs) : New(obs, k) \in R)
  BY <1>3
<1> QED BY <1>5, <1>6 DEF RowsTyped, EndsKnown

(* The rows after a flush are apart, and an open one is the last of its key.    *)
LEMMA RecordApart ==
  ASSUME CapacityInv, NEW obs \in [Keys -> Sights], NEW R, R = capacity_record(obs),
         NEW lg, lg = LogOf(obs)
  PROVE  /\ Apart(R) /\ OpenIsLast(R, lg)
         /\ \A y, z \in R : y.key = z.key /\ y.last = clock /\ z.last = clock => y = z
<1>0. clock \in Nat
  BY DEF CapacityInv
<1>1. \A r \in rows : /\ r.key \in Keys /\ r.first \in Nat /\ r.last \in Nat /\ r.first <= r.last
                      /\ r.last < clock
                      /\ r.open => \A s \in rows : s.key = r.key => s.last <= r.last
  BY DEF CapacityInv, Faithful, RowsTyped, Row, OpenIsLast
<1>2. \A r, s \in rows : r.key = s.key /\ r # s => Ahead(r, s) \/ Ahead(s, r)
  BY DEF CapacityInv, Faithful, Apart
<1>3. ASSUME NEW y \in R, NEW z \in R, y.key = z.key, y # z
      PROVE  /\ Ahead(y, z) \/ Ahead(z, y)
             /\ ~(y.last = clock /\ z.last = clock)
  <2>1. CASE \E r, s \in rows : y = Image(obs, r) /\ z = Image(obs, s)
    <3>1. PICK r \in rows, s \in rows : y = Image(obs, r) /\ z = Image(obs, s)
      BY <2>1
    <3>2. /\ Unmoved(r, y) \/ Grown(r, obs[r.key], y)
          /\ Unmoved(s, z) \/ Grown(s, obs[s.key], z)
      BY <3>1, ImageShape
    <3>3. r.key = y.key /\ s.key = z.key /\ r # s
      BY <1>3, <3>1, <3>2 DEF Unmoved, Grown, SameSpan
    <3>4. ~(r.open /\ s.open)
      BY <1>3, <3>3, OneRowNow
    <3> QED BY <1>0, <1>1, <1>2, <1>3, <3>2, <3>3, <3>4 DEF Unmoved, Grown, SameSpan, Ahead
  <2>2. ASSUME NEW r \in rows, NEW u \in R, NEW v \in R, u = Image(obs, r), u.key = v.key,
               v.key \in Fresh(obs), Added(v.key, obs[v.key], v)
        PROVE  Ahead(u, v) /\ u.last # clock
    <3>1. Unmoved(r, u) \/ Grown(r, obs[r.key], u)
      BY <2>2, ImageShape
    <3>2. r.key = u.key
      BY <3>1 DEF Unmoved, Grown, SameSpan
    <3>3. ~Grown(r, obs[r.key], u)
      BY <2>2, <3>2, OneRowNow
    <3> QED BY <1>0, <1>1, <2>2, <3>1, <3>3 DEF Unmoved, SameSpan, Added, Ahead
  <2>3. \A x \in R : \/ \E r \in rows : x = Image(obs, r)
                     \/ x.key \in Fresh(obs) /\ x = New(obs, x.key) /\ Added(x.key, obs[x.key], x)
    BY RecordRows
  <2> QED BY <1>3, <2>1, <2>2, <2>3
<1>4. ASSUME NEW y \in R, y.open
      PROVE  /\ y.last = clock /\ y.key \in Keys
             /\ \A s \in R : s.key = y.key => s.last <= y.last
             /\ \A o \in lg[y.key] : o.at <= y.last
  <2>1. \A s \in R : s.last < clock + 1 /\ s.last \in Nat /\ s.key \in Keys
    BY RecordRows DEF RowsTyped, Row
  <2>2. y.last = clock
    BY <1>4, RecordRows DEF Unmoved, Grown, Added
  <2>3. \A o \in lg[y.key] : o.at < clock + 1 /\ o.at \in Nat
    BY <2>1, LogShape DEF LogTyped, Seen
  <2> QED BY <1>0, <2>1, <2>2, <2>3
<1> QED BY <1>3, <1>4 DEF Apart, OpenIsLast

(* What a row that grows was seen as where it ended: waiting for its cause.     *)
LEMMA OpenEnd ==
  ASSUME CapacityInv, NEW r \in rows, r.open
  PROVE  /\ \E o \in log[r.key] : o.at = r.last
         /\ \A o \in log[r.key] : o.at <= r.last
         /\ \A o \in log[r.key] : r.first <= o.at => o.run = 0 /\ o.sig = r.sig
<1>1. /\ r.key \in Keys /\ r.run = 0 /\ r.last \in Nat
      /\ \A o \in log[r.key] : o.at <= r.last
      /\ \A o \in log[r.key] : r.first <= o.at /\ o.at <= r.last =>
           IF o.run = 0 THEN o.sig = r.sig ELSE o.run = r.run /\ o.at = r.last
      /\ \E o \in log[r.key] : o.at = r.last
  BY DEF CapacityInv, Faithful, RowsTyped, Row, OpenIsLast, EndsKnown, OfItsCause
<1> QED BY <1>1

LEMMA RecordCauses ==
  ASSUME CapacityInv, NEW obs \in [Keys -> Sights], NEW R, R = capacity_record(obs),
         NEW lg, lg = LogOf(obs)
  PROVE  OfItsCause(R, lg) /\ SeenSoon(R, lg)
<1>0. clock \in Nat /\ gap \in Nat /\ gap <= Widest /\ Widest \in Nat \ {0}
  BY CapacityAssumption, WidestGap DEF CapacityInv
<1>1. ASSUME NEW r \in rows
      PROVE  /\ r.key \in Keys /\ r.first \in Nat /\ r.last \in Nat /\ r.first <= r.last
             /\ r.last < clock
             /\ \E o \in log[r.key] : o.at = r.last /\ o.run = r.run
             /\ \A o \in log[r.key] : r.first <= o.at /\ o.at <= r.last =>
                  IF o.run = 0 THEN o.sig = r.sig ELSE o.run = r.run /\ o.at = r.last
             /\ \A t \in r.first..r.last : \E o \in log[r.key] :
                  t <= o.at /\ o.at <= r.last /\ o.at - t < Widest
  BY DEF CapacityInv, Faithful, RowsTyped, Row, OfItsCause, SeenSoon
<1>2. ASSUME NEW k \in Keys
      PROVE  /\ log[k] \subseteq lg[k]
             /\ \A o \in lg[k] : o.at \in Nat /\ (o \in log[k] \/ o.at = clock)
             /\ \A o \in log[k] : o.at < clock
             /\ \A o \in lg[k] : o \in log[k]
                  \/ (obs[k] # Gone /\ o.at = clock /\ o.sig = obs[k].sig /\ o.run = obs[k].run)
             /\ obs[k] # Gone => \E o \in lg[k] : o.at = clock /\ o.sig = obs[k].sig /\ o.run = obs[k].run
  <2>1. \A o \in lg[k] : o.at \in Nat
    BY LogShape DEF LogTyped, Seen
  <2>2. \A o \in log[k] : o.at < clock
    BY DEF CapacityInv, Faithful, LogTyped
  <2> QED BY <2>1, <2>2, LogShape
<1>3. ASSUME NEW y \in R
      PROVE  /\ \E o \in lg[y.key] : o.at = y.last /\ o.run = y.run
             /\ \A o \in lg[y.key] : y.first <= o.at /\ o.at <= y.last =>
                  IF o.run = 0 THEN o.sig = y.sig ELSE o.run = y.run /\ o.at = y.last
             /\ \A t \in y.first..y.last : \E o \in lg[y.key] :
                  t <= o.at /\ o.at <= y.last /\ o.at - t < Widest
  <2>1. ASSUME NEW r \in rows, Unmoved(r, y)
        PROVE  <1>3!2
    <3>1. y.key = r.key /\ y.sig = r.sig /\ y.first = r.first /\ y.last = r.last /\ y.run = r.run
      BY <2>1 DEF Unmoved, SameSpan
    <3>2. \A o \in lg[y.key] : o.at <= y.last => o \in log[r.key]
      BY <1>0, <1>1, <1>2, <3>1
    <3> QED BY <1>1, <1>2, <3>1, <3>2
  <2>2. ASSUME NEW r \in rows, Grown(r, obs[r.key], y)
        PROVE  <1>3!2
    <3>1. /\ y.key = r.key /\ y.sig = r.sig /\ y.first = r.first /\ y.last = clock
          /\ r.open /\ obs[r.key] # Gone /\ y.run = obs[r.key].run
          /\ obs[r.key].run = 0 => obs[r.key].sig = r.sig
          /\ clock - r.last <= gap
      BY <1>0, <1>1, <2>2 DEF Grown, SameSpan, Handled, StaleRow
    <3>2. \A o \in lg[y.key] : y.first <= o.at =>
            IF o.run = 0 THEN o.sig = y.sig ELSE o.run = y.run /\ o.at = y.last
      BY <1>2, <1>1, <3>1, OpenEnd
    <3>3. PICK n \in lg[y.key] : n.at = clock /\ n.run = obs[r.key].run
      BY <1>1, <1>2, <3>1
    <3>4. ASSUME NEW t \in y.first..y.last
          PROVE  \E o \in lg[y.key] : t <= o.at /\ o.at <= y.last /\ o.at - t < Widest
      <4>1. CASE t <= r.last
        <5>1. PICK o \in log[r.key] : t <= o.at /\ o.at <= r.last /\ o.at - t < Widest
          BY <1>1, <3>1, <4>1
        <5> QED BY <1>0, <1>1, <1>2, <3>1, <5>1
      <4>2. CASE t > r.last
        BY <1>0, <1>1, <3>1, <3>3, <4>2
      <4> QED BY <1>0, <1>1, <3>1, <4>1, <4>2
    <3> QED BY <3>1, <3>2, <3>3, <3>4
  <2>3. ASSUME Added(y.key, obs[y.key], y), y.key \in Keys
        PROVE  <1>3!2
    <3>1. y.sig = obs[y.key].sig /\ y.first = clock /\ y.last = clock /\ obs[y.key] # Gone
          /\ y.run = obs[y.key].run
      BY <2>3 DEF Added
    <3>2. \A o \in lg[y.key] : clock <= o.at => o.sig = y.sig /\ o.run = y.run /\ o.at = y.last
      BY <1>0, <1>2, <2>3, <3>1
    <3>3. PICK n \in lg[y.key] : n.at = clock /\ n.run = obs[y.key].run
      BY <1>2, <2>3, <3>1
    <3> QED BY <1>0, <3>1, <3>2, <3>3
  <2> QED BY <2>1, <2>2, <2>3, RecordRows DEF Fresh
<1> QED BY <1>3 DEF OfItsCause, SeenSoon

LEMMA RecordWaited ==
  ASSUME CapacityInv, NEW obs \in [Keys -> Sights], NEW R, R = capacity_record(obs),
         NEW lg, lg = LogOf(obs)
  PROVE  Waited(R, lg)
<1>0. clock \in Nat /\ gap \in Nat /\ gap <= Widest /\ Widest \in Nat \ {0}
  BY CapacityAssumption, WidestGap DEF CapacityInv
<1>1. ASSUME NEW r \in rows
      PROVE  /\ r.key \in Keys /\ r.first \in Nat /\ r.last \in Nat /\ r.first <= r.last
             /\ r.last < clock
             /\ \A t \in r.first..(r.last - 1) : SeenWaiting(r, log, t)
  BY DEF CapacityInv, Faithful, RowsTyped, Row, Waited
<1>2. ASSUME NEW k \in Keys
      PROVE  /\ log[k] \subseteq lg[k]
             /\ \A o \in lg[k] : o.at \in Nat /\ (o \in log[k] \/ o.at = clock)
  BY LogShape DEF LogTyped, Seen
<1>3. ASSUME NEW r \in rows, NEW y, y.key = r.key, y.sig = r.sig, NEW t \in Nat, t < clock,
             SeenWaiting(r, log, t)
      PROVE  SeenWaiting(y, lg, t)
  <2>1. PICK o \in log[r.key] :
          /\ o.at <= t /\ t - o.at < Widest
          /\ \A x \in log[r.key] : o.at <= x.at /\ x.at <= t => x.sig = r.sig /\ x.run = 0
    BY <1>3 DEF SeenWaiting
  <2>2. \A x \in lg[r.key] : x.at <= t => x \in log[r.key]
    BY <1>0, <1>1, <1>2, <1>3
  <2> QED BY <1>1, <1>2, <1>3, <2>1, <2>2 DEF SeenWaiting
<1>4. ASSUME NEW y \in R, NEW t \in y.first..(y.last - 1)
      PROVE  SeenWaiting(y, lg, t)
  <2>1. ASSUME NEW r \in rows, Unmoved(r, y)
        PROVE  SeenWaiting(y, lg, t)
    <3>1. y.key = r.key /\ y.sig = r.sig /\ y.first = r.first /\ y.last = r.last
      BY <2>1 DEF Unmoved, SameSpan
    <3>2. t \in Nat /\ t < clock /\ SeenWaiting(r, log, t)
      BY <1>0, <1>1, <1>4, <3>1
    <3> QED BY <1>3, <3>1, <3>2
  <2>2. ASSUME NEW r \in rows, Grown(r, obs[r.key], y)
        PROVE  SeenWaiting(y, lg, t)
    <3>1. /\ y.key = r.key /\ y.sig = r.sig /\ y.first = r.first /\ y.last = clock /\ r.open
          /\ clock - r.last <= gap
      BY <1>0, <1>1, <2>2 DEF Grown, SameSpan, Handled, StaleRow
    <3>2. CASE t < r.last
      <4>1. t \in Nat /\ t < clock /\ SeenWaiting(r, log, t)
        BY <1>0, <1>1, <1>4, <3>1, <3>2
      <4> QED BY <1>3, <3>1, <4>1
    <3>3. CASE t >= r.last
      <4>1. PICK o \in log[r.key] : o.at = r.last
        BY <3>1, OpenEnd
      <4>2. \A x \in log[r.key] : r.last <= x.at => x.sig = r.sig /\ x.run = 0
        <5>1. \A x \in log[r.key] : x.at \in Nat
          BY <1>1, <1>2
        <5> QED BY <1>1, <3>1, <5>1, OpenEnd
      <4>3. t \in Nat /\ t < clock /\ SeenWaiting(r, log, t)
        BY <1>0, <1>1, <1>4, <3>1, <3>3, <4>1, <4>2 DEF SeenWaiting
      <4> QED BY <1>3, <3>1, <4>3
    <3> QED BY <1>0, <1>1, <1>4, <3>1, <3>2, <3>3
  <2>3. ASSUME Added(y.key, obs[y.key], y)
        PROVE  FALSE
    BY <1>0, <1>4, <2>3 DEF Added
  <2> QED BY <2>1, <2>2, <2>3, RecordRows
<1> QED BY <1>4 DEF Waited

LEMMA RecordRest ==
  ASSUME CapacityInv, NEW obs \in [Keys -> Sights], NEW R, R = capacity_record(obs),
         NEW lg, lg = LogOf(obs)
  PROVE  BeginsSeen(R, lg) /\ Covered(R, lg) /\ ChangedInto(R)
<1>0. clock \in Nat
  BY DEF CapacityInv
<1>1. ASSUME NEW r \in rows
      PROVE  /\ r.key \in Keys /\ r.first \in Nat /\ r.last \in Nat /\ r.first <= r.last
             /\ r.last < clock /\ Image(obs, r) \in R
             /\ Image(obs, r).key = r.key /\ Image(obs, r).sig = r.sig
             /\ Image(obs, r).first = r.first
             /\ \/ Image(obs, r).last = r.last
                \/ Image(obs, r).last = clock /\ r.open /\ r.key \notin Fresh(obs)
  <2>1. r.key \in Keys /\ r.first \in Nat /\ r.last \in Nat /\ r.first <= r.last /\ r.last < clock
    BY DEF CapacityInv, Faithful, RowsTyped, Row
  <2>2. Unmoved(r, Image(obs, r)) \/ Grown(r, obs[r.key], Image(obs, r))
    BY ImageShape
  <2>3. Image(obs, r) \in R
    BY RecordRows
  <2> QED BY <2>1, <2>2, <2>3, OneRowNow DEF Unmoved, Grown, SameSpan
<1>2. ASSUME NEW y \in R
      PROVE  \/ \E r \in rows : y = Image(obs, r)
             \/ /\ y.key \in Fresh(obs) /\ y.first = clock /\ y.last = clock
                /\ y.sig = obs[y.key].sig /\ obs[y.key] # Gone
                /\ y.why # "changed"
  BY RecordRows DEF Added
<1>3. \A k \in Keys : obs[k] # Gone => \E o \in lg[k] : o.at = clock
  BY LogShape
<1>4. \A k \in Fresh(obs) : k \in Keys /\ New(obs, k) \in R /\ New(obs, k).key = k
                            /\ New(obs, k).first = clock /\ New(obs, k).last = clock
                            /\ New(obs, k).sig = obs[k].sig
  BY RecordRows, NewShape DEF Added
<1>5. BeginsSeen(R, lg)
  <2>1. ASSUME NEW y \in R, NEW z \in R, Ahead(y, z)
        PROVE  \E o \in lg[z.key] : o.at = z.first
    <3>1. CASE \E r \in rows : z = Image(obs, r)
      <4>1. PICK r \in rows : z = Image(obs, r)
        BY <3>1
      <4>2. PICK s \in rows : y = Image(obs, s)
        BY <1>0, <1>1, <1>2, <2>1, <4>1 DEF Ahead
      <4>3. Ahead(s, r)
        BY <1>0, <1>1, <2>1, <4>1, <4>2 DEF Ahead
      <4>4. \E o \in log[r.key] : o.at = r.first
        BY <4>3 DEF CapacityInv, Faithful, BeginsSeen
      <4> QED BY <1>1, <4>1, <4>4, LogShape
    <3>2. CASE z.key \in Fresh(obs) /\ z.first = clock /\ obs[z.key] # Gone
      BY <1>3, <1>4, <3>2
    <3> QED BY <1>2, <3>1, <3>2
  <2> QED BY <2>1 DEF BeginsSeen
<1>6. Covered(R, lg)
  <2>1. ASSUME NEW y \in R, NEW o \in lg[y.key], y.last < o.at
        PROVE  \E x \in R : x.key = y.key /\ x.first <= o.at /\ o.at <= x.last
    <3>0. y.key \in Keys
      BY RecordRows DEF RowsTyped, Row
    <3>1. CASE o.at = clock /\ obs[y.key] # Gone
      <4>1. CASE y.key \in Fresh(obs)
        BY <1>0, <1>4, <3>1, <4>1
      <4>2. CASE \E r \in rows : r.key = y.key /\ Grown(r, obs[y.key], Image(obs, r))
        <5>1. PICK r \in rows : r.key = y.key /\ Grown(r, obs[y.key], Image(obs, r))
          BY <4>2
        <5>2. Image(obs, r).last = clock
          BY <5>1 DEF Grown
        <5> QED BY <1>0, <1>1, <3>1, <5>1, <5>2
      <4> QED BY <3>0, <3>1, <4>1, <4>2, OneRowNow
    <3>2. CASE o \in log[y.key] /\ o.at < clock
      <4>1. o.at \in Nat
        BY <3>0, LogShape DEF LogTyped, Seen
      <4>2. PICK r \in rows : y = Image(obs, r)
        BY <1>0, <1>2, <2>1, <3>2, <4>1
      <4>3. r.last < o.at /\ r.key = y.key
        BY <1>0, <1>1, <2>1, <3>2, <4>1, <4>2
      <4>4. PICK x \in rows : x.key = r.key /\ x.first <= o.at /\ o.at <= x.last
        BY <3>2, <4>3 DEF CapacityInv, Faithful, Covered
      <4> QED BY <1>0, <1>1, <3>2, <4>1, <4>3, <4>4
    <3> QED BY <3>0, <3>1, <3>2, LogShape
  <2> QED BY <2>1 DEF Covered
<1>7. ChangedInto(R)
  <2>1. ASSUME NEW y \in R, y.why = "changed"
        PROVE  /\ \E x \in R : Ahead(y, x)
               /\ \A x \in R : Adjacent(R, y, x) => x.sig # "paused"
    <3>1. PICK r \in rows : y = Image(obs, r)
      BY <1>2, <2>1
    <3>2. \/ r.why = "changed" /\ ~r.open
          \/ /\ r.open /\ obs[r.key] # Gone /\ ~Handled(r, obs[r.key])
             /\ obs[r.key].run = 0 /\ obs[r.key].sig # "paused"
      BY <2>1, <3>1, ImageShape
    <3>3. y.key = r.key /\ y.last = r.last
      <4>1. Unmoved(r, y) \/ Grown(r, obs[r.key], y)
        BY <3>1, ImageShape
      <4> QED BY <2>1, <4>1 DEF Unmoved, Grown, SameSpan
    <3>4. CASE r.why = "changed" /\ ~r.open
      <4>1. /\ \E x \in rows : Ahead(r, x)
            /\ \A x \in rows : Adjacent(rows, r, x) => x.sig # "paused"
        BY <3>4 DEF CapacityInv, Faithful, ChangedInto
      <4>2. PICK s \in rows : Ahead(r, s)
        BY <4>1
      <4>3. Ahead(y, Image(obs, s)) /\ Image(obs, s) \in R
        BY <1>1, <3>3, <4>2 DEF Ahead
      <4>4. ASSUME NEW x \in R, Adjacent(R, y, x)
            PROVE  x.sig # "paused"
        <5>1. PICK u \in rows : x = Image(obs, u)
          <6>1. CASE x.key \in Fresh(obs) /\ x.first = clock
            <7>1. Ahead(Image(obs, s), x)
              <8>1. s.key = x.key /\ Image(obs, s).last = s.last
                BY <1>1, <3>3, <4>2, <4>4, <6>1 DEF Adjacent, Ahead
              <8> QED BY <1>0, <1>1, <6>1, <8>1 DEF Ahead
            <7> QED BY <4>3, <4>4, <7>1 DEF Adjacent
          <6> QED BY <1>2, <6>1
        <5>2. Ahead(r, u)
          BY <1>1, <3>3, <4>4, <5>1 DEF Adjacent, Ahead
        <5>3. ASSUME NEW v \in rows, Ahead(r, v), Ahead(v, u)
              PROVE  FALSE
          <6>1. ~v.open
            <7>1. v.open => u.last <= v.last
              BY <5>3 DEF CapacityInv, Faithful, OpenIsLast, Ahead
            <7> QED BY <1>1, <5>3, <7>1 DEF Ahead
          <6>2. Ahead(y, Image(obs, v)) /\ Ahead(Image(obs, v), x) /\ Image(obs, v) \in R
            BY <1>1, <3>3, <5>1, <5>3, <6>1 DEF Ahead
          <6> QED BY <4>4, <6>2 DEF Adjacent
        <5>4. Adjacent(rows, r, u)
          BY <5>2, <5>3 DEF Adjacent
        <5> QED BY <1>1, <4>1, <5>1, <5>4
      <4> QED BY <4>3, <4>4
    <3>5. CASE /\ r.open /\ obs[r.key] # Gone /\ ~Handled(r, obs[r.key])
               /\ obs[r.key].run = 0 /\ obs[r.key].sig # "paused"
      <4>1. r.key \in Fresh(obs)
        BY <1>1, <3>5, OneRowNow DEF Fresh
      <4>2. Ahead(y, New(obs, r.key)) /\ New(obs, r.key) \in R
        BY <1>0, <1>1, <1>4, <3>3, <4>1 DEF Ahead
      <4>3. ASSUME NEW x \in R, Ahead(y, x)
            PROVE  x.sig # "paused"
        <5>1. ASSUME NEW s \in rows, x = Image(obs, s)
              PROVE  FALSE
          <6>1. s.key = r.key /\ r.last < s.first
            BY <1>1, <3>3, <4>3, <5>1 DEF Ahead
          <6>2. s.last <= r.last
            BY <3>5, <6>1 DEF CapacityInv, Faithful, OpenIsLast
          <6> QED BY <1>1, <6>1, <6>2
        <5>2. x.sig = obs[x.key].sig /\ x.key = r.key
          BY <1>2, <3>3, <4>3, <5>1 DEF Ahead
        <5> QED BY <3>5, <5>2
      <4> QED BY <4>2, <4>3 DEF Adjacent
    <3> QED BY <3>2, <3>4, <3>5
  <2> QED BY <2>1 DEF ChangedInto
<1> QED BY <1>5, <1>6, <1>7

LEMMA RecordFaithful ==
  ASSUME CapacityInv, NEW obs \in [Keys -> Sights]
  PROVE  Faithful(capacity_record(obs), LogOf(obs), clock + 1)
BY RecordRows, RecordApart, RecordCauses, RecordWaited, RecordRest, LogShape DEF Faithful

------------------------------------------------------------------------------
(* Pruning: a row that reaches into the time kept is cut to it.                 *)
Cutoff == clock - Retention
Cut(r) == [r EXCEPT !.first = Greatest({r.first, Cutoff})]

LEMMA CutShape ==
  ASSUME clock \in Nat, NEW r \in Row, r.first <= r.last, r.last >= Cutoff
  PROVE  /\ Cut(r) \in Row /\ Cut(r).key = r.key /\ Cut(r).sig = r.sig /\ Cut(r).last = r.last
         /\ Cut(r).open = r.open /\ Cut(r).why = r.why /\ Cut(r).run = r.run
         /\ Cut(r).first \in Nat /\ r.first <= Cut(r).first /\ Cut(r).first <= r.last
         /\ Cut(r).first = r.first \/ (Cut(r).first = Cutoff /\ r.first < Cutoff)
<1>1. r.first \in Nat /\ r.last \in Nat /\ Cutoff \in Int
  BY CapacityAssumption DEF Row, Cutoff
<1>2. CASE r.first >= Cutoff
  <2>1. Greatest({r.first, Cutoff}) = r.first
    <3>1. \A y \in {r.first, Cutoff} : r.first >= y
      BY <1>1, <1>2
    <3>2. \A x \in {r.first, Cutoff} : (\A y \in {r.first, Cutoff} : x >= y) => x = r.first
      BY <1>1, <1>2
    <3> QED BY <3>1, <3>2 DEF Greatest
  <2> QED BY <1>1, <2>1 DEF Cut, Row
<1>3. CASE r.first < Cutoff
  <2>1. Greatest({r.first, Cutoff}) = Cutoff
    <3>1. \A y \in {r.first, Cutoff} : Cutoff >= y
      BY <1>1, <1>3
    <3>2. \A x \in {r.first, Cutoff} : (\A y \in {r.first, Cutoff} : x >= y) => x = Cutoff
      BY <1>1, <1>3
    <3> QED BY <3>1, <3>2 DEF Greatest
  <2>2. Cutoff \in Nat
    BY <1>1, <1>3
  <2> QED BY <1>1, <1>3, <2>1, <2>2 DEF Cut, Row
<1> QED BY <1>1, <1>2, <1>3

LEMMA PruneFaithful ==
  ASSUME clock \in Nat, NEW rs, NEW lg, NEW top \in Nat, Faithful(rs, lg, top),
         NEW Q, Q = capacity_prune(rs)
  PROVE  Faithful(Q, lg, top)
<1>0. Cutoff \in Int
  BY CapacityAssumption DEF Cutoff
<1>1. Q = {Cut(r) : r \in {r \in rs : r.last >= Cutoff}}
  BY DEF capacity_prune, Cut, Cutoff
<1>2. ASSUME NEW r \in rs
      PROVE  /\ r \in Row /\ r.key \in Keys /\ r.first \in Nat /\ r.last \in Nat
             /\ r.first <= r.last /\ r.last < top
             /\ r.last >= Cutoff =>
                  /\ Cut(r) \in Q
                  /\ Cut(r) \in Row /\ Cut(r).key = r.key /\ Cut(r).sig = r.sig
                  /\ Cut(r).last = r.last /\ Cut(r).open = r.open /\ Cut(r).why = r.why
                  /\ Cut(r).run = r.run /\ Cut(r).first \in Nat /\ r.first <= Cut(r).first
                  /\ Cut(r).first <= r.last
                  /\ Cut(r).first = r.first \/ (Cut(r).first = Cutoff /\ r.first < Cutoff)
  <2>1. r \in Row /\ r.first <= r.last /\ r.last < top
    BY DEF Faithful, RowsTyped
  <2> QED BY <1>1, <2>1, CutShape DEF Row
<1>3. ASSUME NEW q \in Q
      PROVE  \E r \in rs : r.last >= Cutoff /\ q = Cut(r)
  BY <1>1
<1>4. ASSUME NEW a \in rs, NEW b \in rs, a.last >= Cutoff, Ahead(a, b)
      PROVE  b.last >= Cutoff /\ Cut(b).first = b.first /\ Ahead(Cut(a), Cut(b))
  BY <1>0, <1>2, <1>4 DEF Ahead
<1>5. ASSUME NEW a \in rs, NEW b \in rs, a.last >= Cutoff, b.last >= Cutoff,
             Ahead(Cut(a), Cut(b))
      PROVE  Ahead(a, b)
  <2>1. a.key = b.key /\ a.last < Cut(b).first
    BY <1>2, <1>5 DEF Ahead
  <2>2. Cut(b).first = b.first
    BY <1>0, <1>2, <1>5, <2>1
  <2> QED BY <2>1, <2>2 DEF Ahead
<1>6. RowsTyped(Q, top) /\ LogTyped(lg, top) /\ EndsKnown(Q)
  <2>1. \A r \in rs : (r.open <=> r.why = "none") /\ (r.run # 0 => r.why = "launched")
    BY DEF Faithful, EndsKnown
  <2> QED BY <1>2, <1>3, <2>1 DEF Faithful, RowsTyped, EndsKnown
<1>7. Apart(Q)
  <2>1. ASSUME NEW y \in Q, NEW z \in Q, y.key = z.key, y # z
        PROVE  Ahead(y, z) \/ Ahead(z, y)
    <3>1. PICK a \in rs, b \in rs : a.last >= Cutoff /\ b.last >= Cutoff /\ y = Cut(a) /\ z = Cut(b)
      BY <1>3
    <3>2. a # b /\ a.key = b.key
      BY <1>2, <2>1, <3>1
    <3>3. Ahead(a, b) \/ Ahead(b, a)
      BY <3>2 DEF Faithful, Apart
    <3> QED BY <1>4, <3>1, <3>3
  <2> QED BY <2>1 DEF Apart
<1>8. OpenIsLast(Q, lg)
  <2>1. ASSUME NEW a \in rs, a.open
        PROVE  /\ \A s \in rs : s.key = a.key => s.last <= a.last
               /\ \A o \in lg[a.key] : o.at <= a.last
    BY <2>1 DEF Faithful, OpenIsLast
  <2>2. ASSUME NEW q \in Q, q.open
        PROVE  /\ \A s \in Q : s.key = q.key => s.last <= q.last
               /\ \A o \in lg[q.key] : o.at <= q.last
    <3>1. PICK a \in rs : a.last >= Cutoff /\ q = Cut(a)
      BY <1>3
    <3>2. a.open /\ a.key = q.key /\ a.last = q.last
      BY <1>2, <2>2, <3>1
    <3> QED BY <1>2, <1>3, <2>1, <3>2
  <2> QED BY <2>2 DEF OpenIsLast
<1>9. OfItsCause(Q, lg) /\ SeenSoon(Q, lg) /\ Waited(Q, lg)
  <2>1. ASSUME NEW q \in Q
        PROVE  /\ \E o \in lg[q.key] : o.at = q.last /\ o.run = q.run
               /\ \A o \in lg[q.key] : q.first <= o.at /\ o.at <= q.last =>
                    IF o.run = 0 THEN o.sig = q.sig ELSE o.run = q.run /\ o.at = q.last
               /\ \A t \in q.first..q.last : \E o \in lg[q.key] :
                    t <= o.at /\ o.at <= q.last /\ o.at - t < Widest
               /\ \A t \in q.first..(q.last - 1) : SeenWaiting(q, lg, t)
    <3>1. PICK r \in rs : r.last >= Cutoff /\ q = Cut(r)
      BY <1>3
    <3>2. /\ q.key = r.key /\ q.sig = r.sig /\ q.last = r.last /\ q.run = r.run
          /\ q.first \in Nat /\ r.first \in Nat /\ r.last \in Nat /\ r.first <= q.first
      BY <1>2, <3>1
    <3>3. /\ \E o \in lg[r.key] : o.at = r.last /\ o.run = r.run
          /\ \A o \in lg[r.key] : r.first <= o.at /\ o.at <= r.last =>
               IF o.run = 0 THEN o.sig = r.sig ELSE o.run = r.run /\ o.at = r.last
          /\ \A t \in r.first..r.last : \E o \in lg[r.key] :
               t <= o.at /\ o.at <= r.last /\ o.at - t < Widest
          /\ \A t \in r.first..(r.last - 1) : SeenWaiting(r, lg, t)
      BY DEF Faithful, OfItsCause, SeenSoon, Waited
    <3>4. \A o \in lg[q.key] : o.at \in Nat
      BY <1>2, <3>2 DEF Faithful, LogTyped, Seen
    <3>5. \A t \in Nat : SeenWaiting(r, lg, t) => SeenWaiting(q, lg, t)
      BY <3>2 DEF SeenWaiting
    <3>6. \A o \in lg[q.key] : q.first <= o.at => r.first <= o.at
      BY <3>2, <3>4
    <3>7. \A t \in q.first..q.last : t \in r.first..r.last
      BY <3>2
    <3>8. \A t \in q.first..(q.last - 1) : t \in r.first..(r.last - 1) /\ t \in Nat
      BY <3>2
    <3>9. /\ \E o \in lg[q.key] : o.at = q.last /\ o.run = q.run
          /\ \A o \in lg[q.key] : q.first <= o.at /\ o.at <= q.last =>
               IF o.run = 0 THEN o.sig = q.sig ELSE o.run = q.run /\ o.at = q.last
      BY <3>2, <3>3, <3>6
    <3>10. \A t \in q.first..q.last : \E o \in lg[q.key] :
             t <= o.at /\ o.at <= q.last /\ o.at - t < Widest
      BY <3>2, <3>3, <3>7
    <3>11. \A t \in q.first..(q.last - 1) : SeenWaiting(q, lg, t)
      BY <3>3, <3>5, <3>8
    <3> QED BY <3>9, <3>10, <3>11
  <2> QED BY <2>1 DEF OfItsCause, SeenSoon, Waited
<1>10. BeginsSeen(Q, lg)
  <2>1. ASSUME NEW y \in Q, NEW z \in Q, Ahead(y, z)
        PROVE  \E o \in lg[z.key] : o.at = z.first
    <3>1. PICK a \in rs, b \in rs : a.last >= Cutoff /\ b.last >= Cutoff /\ y = Cut(a) /\ z = Cut(b)
      BY <1>3
    <3>2. Ahead(a, b)
      BY <1>5, <2>1, <3>1
    <3>3. \E o \in lg[b.key] : o.at = b.first
      BY <3>2 DEF Faithful, BeginsSeen
    <3> QED BY <1>2, <1>4, <3>1, <3>2, <3>3
  <2> QED BY <2>1 DEF BeginsSeen
<1>11. Covered(Q, lg)
  <2>1. ASSUME NEW y \in Q, NEW o \in lg[y.key], y.last < o.at
        PROVE  \E x \in Q : x.key = y.key /\ x.first <= o.at /\ o.at <= x.last
    <3>1. PICK a \in rs : a.last >= Cutoff /\ y = Cut(a)
      BY <1>3
    <3>2. y.key = a.key /\ y.last = a.last
      BY <1>2, <3>1
    <3>3. PICK x \in rs : x.key = a.key /\ x.first <= o.at /\ o.at <= x.last
      BY <2>1, <3>2 DEF Faithful, Covered
    <3>4. o.at \in Nat
      BY <1>2, <3>2 DEF Faithful, LogTyped, Seen
    <3> QED BY <1>0, <1>2, <2>1, <3>1, <3>2, <3>3, <3>4
  <2> QED BY <2>1 DEF Covered
<1>12. ChangedInto(Q)
  <2>1. ASSUME NEW y \in Q, y.why = "changed"
        PROVE  /\ \E x \in Q : Ahead(y, x)
               /\ \A x \in Q : Adjacent(Q, y, x) => x.sig # "paused"
    <3>1. PICK a \in rs : a.last >= Cutoff /\ y = Cut(a)
      BY <1>3
    <3>2. a.why = "changed"
      BY <1>2, <2>1, <3>1
    <3>3. /\ \E x \in rs : Ahead(a, x)
          /\ \A x \in rs : Adjacent(rs, a, x) => x.sig # "paused"
      BY <3>2 DEF Faithful, ChangedInto
    <3>4. \A x \in rs : Ahead(a, x) => Cut(x) \in Q /\ Ahead(y, Cut(x))
      BY <1>2, <1>4, <3>1
    <3>5. ASSUME NEW q \in Q, Adjacent(Q, y, q)
          PROVE  q.sig # "paused"
      <4>1. PICK b \in rs : b.last >= Cutoff /\ q = Cut(b)
        BY <1>3
      <4>2. Ahead(a, b)
        BY <1>5, <3>1, <3>5, <4>1 DEF Adjacent
      <4>3. ASSUME NEW u \in rs, Ahead(a, u), Ahead(u, b)
            PROVE  FALSE
        <5>1. Cut(u) \in Q /\ Ahead(y, Cut(u)) /\ Ahead(Cut(u), q)
          BY <1>4, <3>1, <3>4, <4>1, <4>3
        <5> QED BY <3>5, <5>1 DEF Adjacent
      <4>4. b.sig # "paused"
        BY <3>3, <4>2, <4>3 DEF Adjacent
      <4> QED BY <1>2, <4>1, <4>4
    <3> QED BY <3>3, <3>4, <3>5
  <2> QED BY <2>1 DEF ChangedInto
<1> QED BY <1>6, <1>7, <1>8, <1>9, <1>10, <1>11, <1>12 DEF Faithful

------------------------------------------------------------------------------
(* Compaction: a head, and the rows its own row takes in.                       *)
Tied(p, r) == Follows(p, r) /\ Joins(p, r)
Run(h) ==
  {r \in rows : r = h \/ (/\ Precedes(h, r)
                          /\ \A x \in rows : (Precedes(h, x) /\ (Precedes(x, r) \/ x = r))
                               => \E p \in rows : Tied(p, x))}
Joined(h) == [h EXCEPT !.last = TailOf(h).last, !.open = TailOf(h).open, !.why = TailOf(h).why,
                       !.run = TailOf(h).run]

(* The order of rows, said once for the lemmas below.                           *)
InOrder ==
  /\ \A r \in rows : /\ r \in Row /\ r.key \in Keys /\ r.first \in Nat /\ r.last \in Nat
                     /\ r.first <= r.last /\ r.last < clock
  /\ \A p \in rows : ~Ahead(p, p)
  /\ \A p, q, r \in rows : Ahead(p, q) /\ Ahead(q, r) => Ahead(p, r)
  /\ \A p, q \in rows : p.key = q.key => p = q \/ Ahead(p, q) \/ Ahead(q, p)
  /\ \A p, q \in rows : Ahead(p, q) => p.key = q.key /\ p.first < q.first /\ p.last < q.last
                                       /\ p.last < q.first /\ ~Ahead(q, p)
  /\ \A p, r \in rows : Precedes(p, r) <=> Ahead(p, r)
  /\ \A p, r \in rows : Follows(p, r) <=> Adjacent(rows, p, r)

LEMMA RowsInOrder == ASSUME CapacityInv PROVE InOrder
<1>1. RowsTyped(rows, clock) /\ Apart(rows) /\ clock \in Nat
  BY DEF CapacityInv, Faithful
<1>2. \A r \in rows : /\ r \in Row /\ r.key \in Keys /\ r.first \in Nat /\ r.last \in Nat
                      /\ r.first <= r.last /\ r.last < clock
  BY <1>1 DEF RowsTyped, Row
<1>3. \A p, q \in rows : Ahead(p, q) => p.key = q.key /\ p.last < q.first
  BY DEF Ahead
<1> QED BY <1>1, <1>2, <1>3, AheadOrder, OrderIsAhead DEF InOrder

(* What is known of a row that a tied one comes before.                         *)
LEMMA TiedRows ==
  ASSUME CapacityInv, NEW p \in rows, NEW r \in rows, Tied(p, r)
  PROVE  /\ Adjacent(rows, p, r) /\ p.sig = r.sig /\ p.why = "gap" /\ ~p.open /\ p.run = 0
         /\ r.first - p.last <= gap
         /\ \A q \in rows : Adjacent(rows, q, r) => q = p
<1>1. InOrder
  BY RowsInOrder
<1>2. Adjacent(rows, p, r)
  BY <1>1 DEF InOrder, Tied
<1>3. p.sig = r.sig /\ p.why = "gap" /\ ~p.open /\ r.first - p.last <= gap
  BY DEF Tied, Joins
<1>4. p.run = 0
  BY <1>3 DEF CapacityInv, Faithful, EndsKnown
<1>5. \A q \in rows : Adjacent(rows, q, r) => q = p
  BY <1>1, <1>2 DEF InOrder, Adjacent
<1> QED BY <1>2, <1>3, <1>4, <1>5

LEMMA RunShape ==
  ASSUME CapacityInv, NEW h \in rows
  PROVE  /\ h \in Run(h) /\ Run(h) \subseteq rows
         /\ \A r \in Run(h) : r.key = h.key /\ (r = h \/ Ahead(h, r))
         /\ \A r \in Run(h) : r # h => \E p \in Run(h) : Tied(p, r)
         /\ \A r \in Run(h) : \A x \in rows : Ahead(h, x) /\ Ahead(x, r) => x \in Run(h)
         /\ \A r \in Run(h) : r.sig = h.sig
<1>1. InOrder
  BY RowsInOrder
<1>2. h \in Run(h) /\ Run(h) \subseteq rows
  BY DEF Run
<1>3. ASSUME NEW r \in Run(h)
      PROVE  r.key = h.key /\ (r = h \/ Ahead(h, r))
  BY <1>1, <1>3 DEF Run, InOrder
<1>4. ASSUME NEW r \in Run(h), NEW x \in rows, Ahead(h, x), Ahead(x, r)
      PROVE  x \in Run(h)
  <2>1. r # h /\ r \in rows
    BY <1>1, <1>2, <1>4 DEF InOrder
  <2>2. \A y \in rows : (Ahead(h, y) /\ (Ahead(y, r) \/ y = r)) => \E p \in rows : Tied(p, y)
    BY <1>1, <2>1 DEF Run, InOrder
  <2>3. \A y \in rows : (Ahead(h, y) /\ (Ahead(y, x) \/ y = x)) => \E p \in rows : Tied(p, y)
    BY <1>1, <1>4, <2>1, <2>2 DEF InOrder
  <2> QED BY <1>1, <1>4, <2>3 DEF Run, InOrder
<1>5. ASSUME NEW r \in Run(h), r # h
      PROVE  \E p \in Run(h) : Tied(p, r)
  <2>1. r \in rows /\ Ahead(h, r)
    BY <1>2, <1>3, <1>5
  <2>2. PICK p \in rows : Tied(p, r)
    BY <1>1, <1>5, <2>1 DEF Run, InOrder
  <2>3. Adjacent(rows, p, r)
    BY <2>1, <2>2, TiedRows
  <2>4. p = h \/ Ahead(h, p)
    BY <1>1, <2>1, <2>3 DEF InOrder, Adjacent
  <2>5. p \in Run(h)
    BY <1>2, <1>4, <2>3, <2>4 DEF Adjacent
  <2> QED BY <2>2, <2>5
<1>6. ASSUME NEW r \in Run(h), r.sig # h.sig
      PROVE  FALSE
  <2> DEFINE Odd == {x \in Run(h) : x.sig # h.sig}
  <2>1. RowsTyped(rows, clock) /\ clock \in Nat
    BY DEF CapacityInv, Faithful
  <2>2. Odd \in SUBSET rows /\ Odd # {}
    BY <1>2, <1>6
  <2>3. PICK x \in Odd : \A y \in Odd : x.first <= y.first
    <3> HIDE DEF Odd
    <3> QED BY <2>1, <2>2, FirstRow
  <2>4. PICK p \in Run(h) : Tied(p, x)
    BY <1>5, <2>3
  <2>5. p \in rows /\ x \in rows
    BY <1>2, <2>3
  <2>6. Ahead(p, x) /\ p.sig = x.sig
    BY <2>4, <2>5, TiedRows DEF Adjacent
  <2>7. p \in Odd /\ p.first < x.first /\ p.first \in Nat /\ x.first \in Nat
    BY <1>1, <2>3, <2>5, <2>6 DEF InOrder
  <2> QED BY <2>3, <2>7
<1> QED BY <1>2, <1>3, <1>4, <1>5, <1>6

(* The tail is the last row of the run.                                        *)
LEMMA TailShape ==
  ASSUME CapacityInv, NEW h \in rows
  PROVE  /\ TailOf(h) \in Run(h) /\ TailOf(h) \in rows
         /\ \A x \in Run(h) : x = TailOf(h) \/ Ahead(x, TailOf(h))
<1>1. InOrder /\ RowsTyped(rows, clock) /\ clock \in Nat
  BY RowsInOrder DEF CapacityInv, Faithful
<1>2. h \in Run(h) /\ Run(h) \subseteq rows /\ \A r \in Run(h) : r.key = h.key
  BY RunShape
<1>3. PICK t \in Run(h) : \A y \in Run(h) : y.last <= t.last
  <2>1. Run(h) \in SUBSET rows /\ Run(h) # {}
    BY <1>2
  <2> QED BY <1>1, <2>1, LastRow
<1>4. \A x \in Run(h) : ~Precedes(t, x)
  <2>1. ASSUME NEW x \in Run(h), Precedes(t, x)
        PROVE  FALSE
    <3>1. t \in rows /\ x \in rows /\ Ahead(t, x)
      BY <1>1, <1>2, <2>1 DEF InOrder
    <3>2. t.last < x.last /\ t.last \in Nat /\ x.last \in Nat
      BY <1>1, <3>1 DEF InOrder
    <3> QED BY <1>3, <3>2
  <2> QED BY <2>1
<1>5. TailOf(h) = CHOOSE t_1 \in Run(h) : \A x \in Run(h) : ~Precedes(t_1, x)
  BY DEF TailOf, Run, Tied
<1>6. TailOf(h) \in Run(h) /\ \A x \in Run(h) : ~Precedes(TailOf(h), x)
  BY <1>3, <1>4, <1>5
<1> QED BY <1>1, <1>2, <1>6 DEF InOrder

(* Inside a run: rows that ended in a gap, none longer than the gap allowed.    *)
LEMMA InsideRun ==
  ASSUME CapacityInv, NEW h \in rows, NEW r \in Run(h), r # TailOf(h)
  PROVE  /\ r.run = 0 /\ r.why = "gap"
         /\ \E x \in Run(h) : Adjacent(rows, r, x) /\ x.first - r.last <= gap
<1>1. InOrder /\ RowsTyped(rows, clock) /\ clock \in Nat
  BY RowsInOrder DEF CapacityInv, Faithful
<1>2. /\ TailOf(h) \in Run(h) /\ TailOf(h) \in rows /\ Ahead(r, TailOf(h))
      /\ r \in rows /\ (r = h \/ Ahead(h, r))
  BY TailShape, RunShape
<1> DEFINE After == {x \in rows : Ahead(r, x)}
<1>3. PICK x \in After : \A y \in After : x.first <= y.first
  <2>1. After \in SUBSET rows /\ After # {}
    BY <1>2
  <2> HIDE DEF After
  <2> QED BY <1>1, <2>1, FirstRow
<1>4. Adjacent(rows, r, x)
  <2>1. ASSUME NEW y \in rows, Ahead(r, y), Ahead(y, x)
        PROVE  FALSE
    <3>1. y.first < x.first /\ y.first \in Nat /\ x.first \in Nat
      BY <1>1, <1>3, <2>1 DEF InOrder
    <3> QED BY <1>3, <2>1, <3>1
  <2> QED BY <1>3, <2>1 DEF Adjacent
<1>5. x = TailOf(h) \/ Ahead(x, TailOf(h))
  BY <1>1, <1>2, <1>3, <1>4 DEF InOrder, Adjacent
<1>6. Ahead(h, x) /\ x \in Run(h) /\ x # h
  <2>1. Ahead(h, x)
    BY <1>1, <1>2, <1>3 DEF InOrder
  <2> QED BY <1>1, <1>2, <1>3, <1>5, <2>1, RunShape DEF InOrder
<1>7. PICK p \in Run(h) : Tied(p, x)
  BY <1>6, RunShape
<1>8. p = r
  BY <1>2, <1>3, <1>4, <1>7, RunShape, TiedRows
<1> QED BY <1>2, <1>3, <1>4, <1>6, <1>7, <1>8, TiedRows

(* Every row is in the run of a head, and the runs of two heads are apart.      *)
LEMMA RunOfAHead ==
  ASSUME CapacityInv, NEW r \in rows
  PROVE  \E h \in Heads : r \in Run(h)
<1>1. InOrder /\ RowsTyped(rows, clock) /\ clock \in Nat
  BY RowsInOrder DEF CapacityInv, Faithful
<1> DEFINE Back == {x \in rows : r \in Run(x)}
<1>2. PICK h \in Back : \A y \in Back : h.first <= y.first
  <2>1. Back \in SUBSET rows /\ Back # {}
    BY RunShape
  <2> HIDE DEF Back
  <2> QED BY <1>1, <2>1, FirstRow
<1>3. ASSUME NEW p \in rows, Tied(p, h)
      PROVE  FALSE
  <2>1. Adjacent(rows, p, h) /\ Ahead(p, h)
    BY <1>2, <1>3, TiedRows DEF Adjacent
  <2>2. r = h \/ Ahead(h, r)
    BY <1>2, RunShape
  <2>3. Ahead(p, r)
    BY <1>1, <1>2, <2>1, <2>2 DEF InOrder
  <2>4. ASSUME NEW x \in rows, Ahead(p, x), Ahead(x, r) \/ x = r
        PROVE  \E q \in rows : Tied(q, x)
    <3>1. x.key = h.key
      BY <1>1, <1>2, <2>1, <2>4 DEF InOrder
    <3>2. CASE x = h
      BY <1>3, <3>2
    <3>3. CASE Ahead(x, h)
      BY <2>1, <2>4, <3>3 DEF Adjacent
    <3>4. CASE Ahead(h, x)
      <4>1. r # h
        BY <1>1, <1>2, <2>4, <3>4 DEF InOrder
      <4>2. x \in Run(h) /\ x # h
        BY <1>1, <1>2, <2>4, <3>4, RunShape DEF InOrder
      <4> QED BY <1>2, <4>2, RunShape
    <3> QED BY <1>1, <1>2, <3>1, <3>2, <3>3, <3>4 DEF InOrder
  <2>5. p \in Back
    <3>1. Precedes(p, r)
      BY <1>1, <2>3 DEF InOrder
    <3>2. \A x \in rows : (Precedes(p, x) /\ (Precedes(x, r) \/ x = r)) => \E q \in rows : Tied(q, x)
      BY <1>1, <2>4 DEF InOrder
    <3> QED BY <3>1, <3>2 DEF Run
  <2>6. p.first < h.first /\ p.first \in Nat /\ h.first \in Nat
    BY <1>1, <1>2, <2>1 DEF InOrder
  <2> QED BY <1>2, <2>5, <2>6
<1> QED BY <1>2, <1>3 DEF Heads, Tied

LEMMA RunsApart ==
  ASSUME CapacityInv, NEW g \in Heads, NEW h \in Heads, Ahead(g, h)
  PROVE  TailOf(g).last < h.first /\ TailOf(g).key = h.key
<1>1. InOrder
  BY RowsInOrder
<1>2. g \in rows /\ h \in rows /\ ~\E p \in rows : Tied(p, h)
  BY DEF Heads, Tied
<1>3. /\ TailOf(g) \in Run(g) /\ TailOf(g) \in rows /\ TailOf(g).key = g.key
      /\ TailOf(g) = g \/ Ahead(g, TailOf(g))
  BY <1>2, TailShape, RunShape
<1>4. h \notin Run(g)
  <2>1. h # g
    BY <1>1, <1>2 DEF InOrder
  <2> QED BY <1>2, <2>1, RunShape
<1>5. ~Ahead(h, TailOf(g)) /\ h # TailOf(g)
  BY <1>2, <1>3, <1>4, RunShape
<1>6. Ahead(TailOf(g), h)
  BY <1>1, <1>2, <1>3, <1>5 DEF InOrder
<1> QED BY <1>1, <1>2, <1>3, <1>6 DEF InOrder

(* Every moment of a run lies in a row of it, or between two rows no further     *)
(* apart than the gap allows.                                                 *)
LEMMA MomentOfRun ==
  ASSUME CapacityInv, NEW h \in rows, NEW t \in h.first..TailOf(h).last
  PROVE  \/ \E r \in Run(h) : r.first <= t /\ t <= r.last
         \/ \E r, x \in Run(h) : /\ r # TailOf(h) /\ Adjacent(rows, r, x) /\ x.first - r.last <= gap
                                 /\ r.last < t /\ t < x.first
<1>1. InOrder /\ RowsTyped(rows, clock) /\ clock \in Nat
  BY RowsInOrder DEF CapacityInv, Faithful
<1>2. /\ h \in Run(h) /\ Run(h) \subseteq rows /\ TailOf(h) \in Run(h) /\ TailOf(h) \in rows
  BY TailShape, RunShape
<1>3. ASSUME \A r \in Run(h) : ~(r.first <= t /\ t <= r.last)
      PROVE  \E r, x \in Run(h) : /\ r # TailOf(h) /\ Adjacent(rows, r, x)
                                  /\ x.first - r.last <= gap /\ r.last < t /\ t < x.first
  <2> DEFINE Gone_ == {r \in Run(h) : r.last < t}
  <2>1. h \in Gone_
    BY <1>1, <1>2, <1>3 DEF InOrder
  <2>2. PICK r \in Gone_ : \A y \in Gone_ : y.last <= r.last
    <3>1. Gone_ \in SUBSET rows /\ Gone_ # {}
      BY <1>2, <2>1
    <3> HIDE DEF Gone_
    <3> QED BY <1>1, <3>1, LastRow
  <2>3. r # TailOf(h)
    BY <1>1, <1>2, <2>2 DEF InOrder
  <2>4. PICK x \in Run(h) : Adjacent(rows, r, x) /\ x.first - r.last <= gap
    BY <2>2, <2>3, InsideRun
  <2>5. r.last < x.last /\ r.last \in Nat /\ x.last \in Nat /\ x.first \in Nat /\ t \in Int
    BY <1>1, <1>2, <2>2, <2>4 DEF InOrder, Adjacent
  <2>6. t <= x.last
    BY <2>2, <2>5
  <2>7. t < x.first
    BY <1>3, <2>5, <2>6
  <2> QED BY <2>2, <2>3, <2>4, <2>7
<1> QED BY <1>3

(* What was seen of the key within a run was seen in one of its rows.           *)
LEMMA SeenInRun ==
  ASSUME CapacityInv, NEW h \in rows, NEW o \in log[h.key],
         h.first <= o.at, o.at <= TailOf(h).last
  PROVE  \E x \in Run(h) : x.first <= o.at /\ o.at <= x.last
<1>1. InOrder /\ log \in [Keys -> SUBSET Seen]
  BY RowsInOrder DEF CapacityInv, Faithful, LogTyped
<1>2. /\ h \in Run(h) /\ Run(h) \subseteq rows /\ TailOf(h) \in Run(h) /\ TailOf(h) \in rows
      /\ TailOf(h).key = h.key /\ h.key \in Keys /\ o.at \in Nat
  BY <1>1, TailShape, RunShape DEF InOrder, Seen
<1>3. CASE o.at <= h.last
  BY <1>2, <1>3
<1>4. CASE h.last < o.at
  <2>1. PICK x \in rows : x.key = h.key /\ x.first <= o.at /\ o.at <= x.last
    BY <1>4 DEF CapacityInv, Faithful, Covered
  <2>2. Ahead(h, x)
    BY <1>1, <1>2, <1>4, <2>1 DEF InOrder
  <2>3. ~Ahead(TailOf(h), x)
    BY <1>1, <1>2, <2>1 DEF InOrder
  <2>4. x \in Run(h)
    BY <1>1, <1>2, <2>1, <2>2, <2>3, RunShape DEF InOrder
  <2> QED BY <2>1, <2>4
<1> QED BY <1>1, <1>2, <1>3, <1>4 DEF InOrder

LEMMA RunCauses ==
  ASSUME CapacityInv, NEW h \in rows
  PROVE  /\ \E o \in log[h.key] : o.at = TailOf(h).last /\ o.run = TailOf(h).run
         /\ \A o \in log[h.key] : h.first <= o.at /\ o.at <= TailOf(h).last =>
              IF o.run = 0 THEN o.sig = h.sig ELSE o.run = TailOf(h).run /\ o.at = TailOf(h).last
         /\ \A t \in h.first..TailOf(h).last : \E o \in log[h.key] :
              t <= o.at /\ o.at <= TailOf(h).last /\ o.at - t < Widest
<1>1. InOrder /\ log \in [Keys -> SUBSET Seen] /\ gap \in Nat /\ gap <= Widest /\ Widest \in Nat \ {0}
  BY RowsInOrder, CapacityAssumption, WidestGap DEF CapacityInv, Faithful, LogTyped
<1>2. /\ h \in Run(h) /\ Run(h) \subseteq rows /\ TailOf(h) \in Run(h) /\ TailOf(h) \in rows
      /\ TailOf(h).key = h.key /\ h.key \in Keys
  BY <1>1, TailShape, RunShape DEF InOrder
<1>3. \A o \in log[h.key] : o.at \in Nat /\ o.run \in Nat
  BY <1>1, <1>2 DEF Seen
<1>4. ASSUME NEW x \in Run(h)
      PROVE  /\ x.key = h.key /\ x.sig = h.sig /\ x.last <= TailOf(h).last
             /\ x.first \in Nat /\ x.last \in Nat
             /\ x # TailOf(h) => x.run = 0
             /\ \E o \in log[h.key] : o.at = x.last /\ o.run = x.run
             /\ \A o \in log[h.key] : x.first <= o.at /\ o.at <= x.last =>
                  IF o.run = 0 THEN o.sig = x.sig ELSE o.run = x.run /\ o.at = x.last
             /\ \A t \in x.first..x.last : \E o \in log[h.key] :
                  t <= o.at /\ o.at <= x.last /\ o.at - t < Widest
  <2>1. x \in rows /\ x.key = h.key /\ x.sig = h.sig
    BY <1>2, RunShape
  <2>2. x.last <= TailOf(h).last /\ x.first \in Nat /\ x.last \in Nat
    BY <1>1, <1>2, <2>1, TailShape DEF InOrder
  <2>3. x # TailOf(h) => x.run = 0
    BY InsideRun
  <2> QED BY <2>1, <2>2, <2>3 DEF CapacityInv, Faithful, OfItsCause, SeenSoon
<1>5. ASSUME NEW o \in log[h.key], h.first <= o.at, o.at <= TailOf(h).last
      PROVE  IF o.run = 0 THEN o.sig = h.sig ELSE o.run = TailOf(h).run /\ o.at = TailOf(h).last
  <2>1. PICK x \in Run(h) : x.first <= o.at /\ o.at <= x.last
    BY <1>5, SeenInRun
  <2>2. x.sig = h.sig /\ (x # TailOf(h) => x.run = 0)
    BY <1>4
  <2>3. IF o.run = 0 THEN o.sig = x.sig ELSE o.run = x.run /\ o.at = x.last
    BY <1>4, <2>1
  <2> QED BY <2>2, <2>3
<1>6. ASSUME NEW t \in h.first..TailOf(h).last
      PROVE  \E o \in log[h.key] : t <= o.at /\ o.at <= TailOf(h).last /\ o.at - t < Widest
  <2>1. CASE \E r \in Run(h) : r.first <= t /\ t <= r.last
    <3>1. PICK r \in Run(h) : r.first <= t /\ t <= r.last
      BY <2>1
    <3>2. t \in r.first..r.last
      BY <3>1
    <3>3. PICK o \in log[h.key] : t <= o.at /\ o.at <= r.last /\ o.at - t < Widest
      BY <1>4, <3>2
    <3>4. o.at <= TailOf(h).last
      BY <1>2, <1>3, <1>4, <3>3
    <3> QED BY <3>3, <3>4
  <2>2. CASE \E r, x \in Run(h) : /\ Adjacent(rows, r, x) /\ x.first - r.last <= gap
                                  /\ r.last < t /\ t < x.first
    <3>1. PICK r \in Run(h), x \in Run(h) : /\ Adjacent(rows, r, x) /\ x.first - r.last <= gap
                                            /\ r.last < t /\ t < x.first
      BY <2>2
    <3>2. r \in rows /\ x \in rows /\ Ahead(r, x)
      BY <1>2, <3>1 DEF Adjacent
    <3>3. PICK o \in log[x.key] : o.at = x.first
      BY <3>2 DEF CapacityInv, Faithful, BeginsSeen
    <3>4. x.key = h.key /\ x.first <= x.last /\ x.last <= TailOf(h).last /\ x.first \in Nat
          /\ x.last \in Nat /\ r.last \in Nat /\ TailOf(h).last \in Nat
      BY <1>1, <1>2, <1>4, <3>2 DEF InOrder
    <3> QED BY <1>1, <3>1, <3>3, <3>4
  <2> QED BY <2>1, <2>2, MomentOfRun
<1> QED BY <1>2, <1>4, <1>5, <1>6

LEMMA RunWaited ==
  ASSUME CapacityInv, NEW h \in rows, NEW t \in h.first..(TailOf(h).last - 1)
  PROVE  SeenWaiting(h, log, t)
<1>1. InOrder /\ log \in [Keys -> SUBSET Seen] /\ gap \in Nat /\ gap <= Widest /\ Widest \in Nat \ {0}
  BY RowsInOrder, CapacityAssumption, WidestGap DEF CapacityInv, Faithful, LogTyped
<1>2. /\ h \in Run(h) /\ Run(h) \subseteq rows /\ TailOf(h) \in Run(h) /\ TailOf(h) \in rows
      /\ TailOf(h).key = h.key /\ h.key \in Keys /\ h.first \in Nat /\ TailOf(h).last \in Nat
  BY <1>1, TailShape, RunShape DEF InOrder
<1>3. \A o \in log[h.key] : o.at \in Nat /\ o.run \in Nat
  BY <1>1, <1>2 DEF Seen
<1>4. ASSUME NEW r \in Run(h)
      PROVE  /\ r \in rows /\ r.key = h.key /\ r.sig = h.sig /\ r.first \in Nat /\ r.last \in Nat
             /\ r.first <= r.last
  BY <1>1, <1>2, RunShape DEF InOrder
<1>5. ASSUME NEW r \in Run(h), r # TailOf(h), r.last <= t, t - r.last < Widest,
             \A o \in log[h.key] : r.last < o.at => t < o.at
      PROVE  SeenWaiting(h, log, t)
  <2>1. r.run = 0
    BY <1>5, InsideRun
  <2>2. PICK o \in log[h.key] : o.at = r.last
    BY <1>4 DEF CapacityInv, Faithful, OfItsCause
  <2>3. \A x \in log[h.key] : r.last <= x.at /\ x.at <= t => x.sig = h.sig /\ x.run = 0
    <3>1. ASSUME NEW x \in log[h.key], r.last <= x.at, x.at <= t
          PROVE  x.sig = h.sig /\ x.run = 0
      <4>1. x.at = r.last
        BY <1>2, <1>3, <1>4, <1>5, <3>1
      <4>2. r.first <= x.at /\ x.at <= r.last
        BY <1>4, <4>1
      <4>3. IF x.run = 0 THEN x.sig = r.sig ELSE x.run = r.run /\ x.at = r.last
        BY <1>4, <4>2 DEF CapacityInv, Faithful, OfItsCause
      <4> QED BY <1>4, <2>1, <4>3
    <3> QED BY <3>1
  <2> QED BY <1>5, <2>2, <2>3 DEF SeenWaiting
<1>6. CASE \E r \in Run(h) : r.first <= t /\ t <= r.last
  <2>1. PICK r \in Run(h) : r.first <= t /\ t <= r.last
    BY <1>6
  <2>2. CASE t < r.last
    <3>1. t \in r.first..(r.last - 1)
      BY <1>2, <1>4, <2>1, <2>2
    <3>2. SeenWaiting(r, log, t)
      BY <1>4, <3>1 DEF CapacityInv, Faithful, Waited
    <3> QED BY <1>4, <3>2 DEF SeenWaiting
  <2>3. CASE t = r.last
    <3>1. r # TailOf(h)
      BY <1>2, <2>3
    <3>2. \A o \in log[h.key] : r.last < o.at => t < o.at
      BY <2>3
    <3> QED BY <1>1, <1>4, <1>5, <2>3, <3>1, <3>2
  <2> QED BY <1>2, <1>4, <2>1, <2>2, <2>3
<1>7. CASE \E r, x \in Run(h) : /\ r # TailOf(h) /\ Adjacent(rows, r, x) /\ x.first - r.last <= gap
                                /\ r.last < t /\ t < x.first
  <2>1. PICK r \in Run(h), x \in Run(h) :
          /\ r # TailOf(h) /\ Adjacent(rows, r, x) /\ x.first - r.last <= gap
          /\ r.last < t /\ t < x.first
    BY <1>7
  <2>2. ASSUME NEW o \in log[h.key], r.last < o.at, o.at <= t
        PROVE  FALSE
    <3>1. PICK z \in rows : z.key = r.key /\ z.first <= o.at /\ o.at <= z.last
      BY <1>4, <2>2 DEF CapacityInv, Faithful, Covered
    <3>2. o.at \in Nat /\ z.first \in Nat /\ z.last \in Nat /\ z.first <= z.last
      BY <1>1, <1>3, <3>1 DEF InOrder
    <3>3. Ahead(r, z)
      BY <1>1, <1>4, <2>2, <3>1, <3>2 DEF InOrder
    <3>4. Ahead(z, x)
      BY <1>1, <1>4, <2>1, <2>2, <3>1, <3>2 DEF InOrder
    <3> QED BY <2>1, <3>1, <3>3, <3>4 DEF Adjacent
  <2>3. \A o \in log[h.key] : r.last < o.at => t < o.at
    BY <1>2, <1>3, <2>2
  <2>4. t - r.last < Widest /\ r.last <= t
    BY <1>1, <1>2, <1>4, <2>1
  <2> QED BY <1>5, <2>1, <2>3, <2>4
<1>8. t \in h.first..TailOf(h).last
  BY <1>2
<1> QED BY <1>6, <1>7, <1>8, MomentOfRun

LEMMA JoinedShape ==
  ASSUME CapacityInv, NEW h \in Heads
  PROVE  /\ h \in rows /\ TailOf(h) \in rows /\ TailOf(h).key = h.key
         /\ Joined(h) \in Row /\ Joined(h).key = h.key /\ Joined(h).sig = h.sig
         /\ Joined(h).first = h.first /\ Joined(h).last = TailOf(h).last
         /\ Joined(h).open = TailOf(h).open /\ Joined(h).why = TailOf(h).why
         /\ Joined(h).run = TailOf(h).run
         /\ h.first <= h.last /\ h.last <= TailOf(h).last /\ TailOf(h).last < clock
         /\ h.first \in Nat /\ h.last \in Nat /\ TailOf(h).last \in Nat
<1>1. InOrder
  BY RowsInOrder
<1>2. h \in rows
  BY DEF Heads
<1>3. /\ TailOf(h) \in rows /\ TailOf(h).key = h.key /\ (TailOf(h) = h \/ Ahead(h, TailOf(h)))
  BY <1>2, TailShape, RunShape
<1>4. /\ h \in Row /\ TailOf(h) \in Row /\ h.first <= h.last /\ h.last <= TailOf(h).last
      /\ TailOf(h).last < clock
      /\ h.first \in Nat /\ h.last \in Nat /\ TailOf(h).last \in Nat
  BY <1>1, <1>2, <1>3 DEF InOrder
<1>5. /\ TailOf(h).open \in BOOLEAN /\ TailOf(h).run \in Nat
      /\ TailOf(h).why \in {"none", "gap", "changed", "paused", "launched", "gone"}
  BY <1>4 DEF Row
<1> QED BY <1>2, <1>3, <1>4, <1>5 DEF Joined, Row

LEMMA CompactFaithful ==
  ASSUME CapacityInv, NEW C, C = {Joined(h) : h \in Heads}
  PROVE  Faithful(C, log, clock)
<1>1. InOrder /\ LogTyped(log, clock) /\ clock \in Nat
  BY RowsInOrder DEF CapacityInv, Faithful
<1>2. \A h \in Heads :
        /\ h \in rows /\ TailOf(h) \in rows /\ TailOf(h).key = h.key
        /\ Joined(h) \in Row /\ Joined(h).key = h.key /\ Joined(h).sig = h.sig
        /\ Joined(h).first = h.first /\ Joined(h).last = TailOf(h).last
        /\ Joined(h).open = TailOf(h).open /\ Joined(h).why = TailOf(h).why
        /\ Joined(h).run = TailOf(h).run
        /\ h.first <= h.last /\ h.last <= TailOf(h).last /\ TailOf(h).last < clock
        /\ h.first \in Nat /\ h.last \in Nat /\ TailOf(h).last \in Nat
  BY JoinedShape
<1>3. \A g, h \in Heads : Ahead(g, h) => Ahead(Joined(g), Joined(h))
  BY <1>2, RunsApart DEF Ahead
<1>4. \A g, h \in Heads : g.key = h.key => g = h \/ Ahead(g, h) \/ Ahead(h, g)
  BY <1>1, <1>2 DEF InOrder
<1>5. \A g, h \in Heads : Ahead(Joined(g), Joined(h)) => Ahead(g, h)
  BY <1>2 DEF Ahead
<1>6. RowsTyped(C, clock) /\ Apart(C)
  BY <1>2, <1>3, <1>4 DEF RowsTyped, Apart
<1>7. OpenIsLast(C, log) /\ EndsKnown(C)
  <2>1. \A r \in rows : /\ (r.open <=> r.why = "none") /\ (r.run # 0 => r.why = "launched")
                        /\ r.open => /\ \A s \in rows : s.key = r.key => s.last <= r.last
                                     /\ \A o \in log[r.key] : o.at <= r.last
    BY DEF CapacityInv, Faithful, OpenIsLast, EndsKnown
  <2> QED BY <1>2, <2>1 DEF OpenIsLast, EndsKnown
<1>8. OfItsCause(C, log) /\ SeenSoon(C, log)
  BY <1>2, RunCauses DEF OfItsCause, SeenSoon
<1>9. Waited(C, log)
  <2>1. ASSUME NEW h \in Heads, NEW t \in h.first..(TailOf(h).last - 1)
        PROVE  SeenWaiting(Joined(h), log, t)
    <3>1. SeenWaiting(h, log, t)
      BY <1>2, <2>1, RunWaited
    <3> QED BY <1>2, <3>1 DEF SeenWaiting
  <2> QED BY <1>2, <2>1 DEF Waited
<1>10. BeginsSeen(C, log)
  <2>1. ASSUME NEW g \in Heads, NEW h \in Heads, Ahead(g, h)
        PROVE  \E o \in log[h.key] : o.at = h.first
    BY <1>2, <2>1 DEF CapacityInv, Faithful, BeginsSeen
  <2> QED BY <1>2, <1>5, <2>1 DEF BeginsSeen
<1>11. \A r \in rows : \E h \in Heads : /\ r.key = h.key /\ h.first <= r.first
                                        /\ r.last <= TailOf(h).last
                                        /\ r = TailOf(h) \/ Ahead(r, TailOf(h))
                                        /\ r = h \/ Ahead(h, r)
  <2>1. ASSUME NEW r \in rows, NEW h \in Heads, r \in Run(h)
        PROVE  /\ r.key = h.key /\ h.first <= r.first /\ r.last <= TailOf(h).last
               /\ r = TailOf(h) \/ Ahead(r, TailOf(h))
               /\ r = h \/ Ahead(h, r)
    <3>1. r = TailOf(h) \/ Ahead(r, TailOf(h))
      BY <1>2, <2>1, TailShape
    <3>2. r.key = h.key /\ (r = h \/ Ahead(h, r))
      BY <1>2, <2>1, RunShape
    <3> QED BY <1>1, <1>2, <3>1, <3>2 DEF InOrder
  <2> QED BY <2>1, RunOfAHead
<1>12. Covered(C, log)
  <2>1. ASSUME NEW g \in Heads, NEW o \in log[g.key], TailOf(g).last < o.at
        PROVE  \E h \in Heads : h.key = g.key /\ h.first <= o.at /\ o.at <= TailOf(h).last
    <3>1. PICK x \in rows : x.key = g.key /\ x.first <= o.at /\ o.at <= x.last
      BY <1>2, <2>1 DEF CapacityInv, Faithful, Covered
    <3>2. PICK h \in Heads : x.key = h.key /\ h.first <= x.first /\ x.last <= TailOf(h).last
      BY <1>11
    <3>3. o.at \in Nat /\ x.first \in Nat /\ x.last \in Nat
      BY <1>1, <1>2, <3>1 DEF InOrder, LogTyped, Seen
    <3> QED BY <1>2, <3>1, <3>2, <3>3
  <2> QED BY <1>2, <2>1 DEF Covered
<1>13. ChangedInto(C)
  <2>1. ASSUME NEW h \in Heads, TailOf(h).why = "changed"
        PROVE  /\ \E g \in Heads : Ahead(h, g)
               /\ \A g \in Heads : Adjacent(C, Joined(h), Joined(g)) => g.sig # "paused"
    <3>1. /\ \E x \in rows : Ahead(TailOf(h), x)
          /\ \A x \in rows : Adjacent(rows, TailOf(h), x) => x.sig # "paused"
      BY <1>2, <2>1 DEF CapacityInv, Faithful, ChangedInto
    <3>2. ASSUME NEW x \in rows, Ahead(TailOf(h), x), NEW g \in Heads,
                 x.key = g.key, x.last <= TailOf(g).last
          PROVE  Ahead(h, g)
      <4>1. h.key = g.key /\ TailOf(h).last < x.last
        BY <1>1, <1>2, <3>2 DEF InOrder
      <4>2. g # h
        BY <1>1, <1>2, <3>2, <4>1 DEF InOrder
      <4>3. ~Ahead(g, h)
        <5>1. Ahead(g, h) => TailOf(g).last < h.first
          BY RunsApart
        <5> QED BY <1>1, <1>2, <3>2, <4>1, <5>1 DEF InOrder
      <4> QED BY <1>4, <4>1, <4>2, <4>3
    <3>3. \E g \in Heads : Ahead(h, g)
      BY <1>11, <3>1, <3>2
    <3>4. ASSUME NEW g \in Heads, Adjacent(C, Joined(h), Joined(g))
          PROVE  g.sig # "paused"
      <4>1. Ahead(TailOf(h), g) /\ Ahead(h, g)
        BY <1>2, <1>5, <3>4 DEF Adjacent, Ahead
      <4>2. ASSUME NEW u \in rows, Ahead(TailOf(h), u), Ahead(u, g)
            PROVE  FALSE
        <5>1. PICK f \in Heads : /\ u.key = f.key /\ u.last <= TailOf(f).last
                                 /\ u = f \/ Ahead(f, u)
          BY <1>11
        <5>2. Ahead(h, f)
          BY <3>2, <4>2, <5>1
        <5>3. Ahead(f, g)
          BY <1>1, <1>2, <4>2, <5>1 DEF InOrder
        <5> QED BY <1>3, <3>4, <5>2, <5>3 DEF Adjacent
      <4>3. Adjacent(rows, TailOf(h), g)
        BY <4>1, <4>2 DEF Adjacent
      <4> QED BY <1>2, <3>1, <4>3
    <3> QED BY <3>3, <3>4
  <2> QED BY <1>2, <1>3, <2>1 DEF ChangedInto
<1> QED BY <1>1, <1>6, <1>7, <1>8, <1>9, <1>10, <1>12, <1>13 DEF Faithful

------------------------------------------------------------------------------
LEMMA InitCapacityInv == CapacityInit => CapacityInv
<1> SUFFICES ASSUME CapacityInit PROVE CapacityInv
  OBVIOUS
<1>1. clock = 1 /\ rows = {} /\ gap \in Gaps /\ rowids = 0 /\ runs = 0
      /\ log = [k \in Keys |-> {}]
  BY NarrowestGap DEF CapacityInit
<1>2. LogTyped(log, clock)
  BY <1>1 DEF LogTyped
<1> QED BY <1>1, <1>2 DEF CapacityInv, Faithful, RowsTyped, Apart, OpenIsLast, EndsKnown, OfItsCause,
       SeenSoon, Waited, BeginsSeen, Covered, ChangedInto

LEMMA FlushStep == ASSUME CapacityInv, flush PROVE CapacityInv'
<1>0. clock \in Nat /\ clock' = clock + 1 /\ gap' = gap /\ gap \in Gaps /\ runs \in Nat /\ rowids \in Nat
  BY DEF CapacityInv, flush
<1>1. PICK obs \in [Keys -> Sights] :
        /\ rows' = capacity_prune(capacity_record(obs))
        /\ rowids' = rowids + Cardinality(Fresh(obs))
        /\ runs' = Greatest({runs} \cup {obs[k].run : k \in Keys})
        /\ log' = LogOf(obs)
  BY DEF flush, Sights, LogOf, SightOf
<1>2. Faithful(rows', log', clock')
  <2>1. Faithful(capacity_record(obs), log', clock + 1)
    BY <1>1, RecordFaithful
  <2> QED BY <1>0, <1>1, <2>1, PruneFaithful
<1>3. rowids' \in Nat
  BY <1>0, <1>1, IdsGiven
<1>4. runs' \in Nat
  <2> DEFINE S == {runs} \cup {obs[k].run : k \in Keys}
  <2>1. \A x \in S : x = runs \/ x = 0 \/ x = runs + 1
    BY DEF Sights, Observations, Gone
  <2>2. \E x \in S : \A y \in S : x >= y
    <3>1. CASE runs + 1 \in S
      BY <1>0, <2>1, <3>1
    <3>2. CASE runs + 1 \notin S
      <4>1. \A y \in S : runs >= y
        BY <1>0, <2>1, <3>2
      <4> QED BY <4>1
    <3> QED BY <3>1, <3>2
  <2>3. Greatest(S) \in S
    BY <2>2 DEF Greatest
  <2>4. Greatest(S) \in Nat
    <3> HIDE DEF S
    <3> QED BY <1>0, <2>1, <2>3
  <2> QED BY <1>1, <2>4
<1> QED BY <1>0, <1>2, <1>3, <1>4 DEF CapacityInv

LEMMA UnobservedStep == ASSUME CapacityInv, Unobserved PROVE CapacityInv'
<1>0. clock \in Nat /\ clock' = clock + 1 /\ UNCHANGED <<rows, gap, rowids, runs, log>>
  BY DEF CapacityInv, Unobserved
<1>1. RowsTyped(rows, clock + 1) /\ LogTyped(log, clock + 1)
  <2>1. \A r \in rows : r \in Row /\ r.first <= r.last /\ r.last < clock /\ r.last \in Nat
    BY DEF CapacityInv, Faithful, RowsTyped, Row
  <2>2. \A k \in Keys : \A o \in log[k] : o.at < clock /\ o.at \in Nat
    BY DEF CapacityInv, Faithful, LogTyped, Seen
  <2> QED BY <1>0, <2>1, <2>2 DEF CapacityInv, Faithful, RowsTyped, LogTyped
<1> QED BY <1>0, <1>1 DEF CapacityInv, Faithful

LEMMA CompactStep == ASSUME CapacityInv, compact_capacity_intervals PROVE CapacityInv'
<1>1. rows' = {Joined(h) : h \in Heads} /\ UNCHANGED <<clock, gap, rowids, runs, log>>
  BY DEF compact_capacity_intervals, Joined
<1>2. Faithful(rows', log, clock)
  BY <1>1, CompactFaithful
<1> QED BY <1>1, <1>2 DEF CapacityInv

(* The history of waits is faithful to what the ticks saw, through every gap,    *)
(* every cut and every nightly merge of rows.                                  *)
THEOREM CapacityInvariance == CapacitySpec => []CapacityInv
<1>1. CapacityInit => CapacityInv
  BY InitCapacityInv
<1>2. CapacityInv /\ [CapacityNext]_capacityVars => CapacityInv'
  <2> SUFFICES ASSUME CapacityInv, [CapacityNext]_capacityVars PROVE CapacityInv'
    OBVIOUS
  <2>1. CASE flush
    BY <2>1, FlushStep
  <2>2. CASE Unobserved
    BY <2>2, UnobservedStep
  <2>3. CASE compact_capacity_intervals
    BY <2>3, CompactStep
  <2>4. CASE SetGap
    BY <2>4 DEF SetGap, CapacityInv
  <2>5. CASE UNCHANGED capacityVars
    BY <2>5 DEF capacityVars, CapacityInv
  <2> QED BY <2>1, <2>2, <2>3, <2>4, <2>5 DEF CapacityNext
<1> QED BY <1>1, <1>2, PTL DEF CapacitySpec

------------------------------------------------------------------------------
(* What the history counts, and what the report makes of it.                    *)
LEMMA CountsFaithful == ASSUME CapacityInv PROVE CountsOnlyObserved
<1>1. InOrder
  BY RowsInOrder
<1>2. ASSUME NEW r \in rows
      PROVE  LET seen == {o \in log[r.key] : r.first <= o.at /\ o.at <= r.last}
             IN  /\ \E o \in seen : o.at = r.last
                 /\ \A o \in seen : o.sig = r.sig \/ (o.run # 0 /\ o.run = r.run /\ o.at = r.last)
                 /\ \A t \in r.first..r.last : \E o \in seen : t <= o.at /\ o.at - t < Greatest(Gaps)
                 /\ \A s \in rows : s.key = r.key /\ s # r => s.first > r.last \/ s.last < r.first
                 /\ r.open => \A s \in rows : s.key = r.key /\ s # r => ~s.open
  <2> DEFINE seen == {o \in log[r.key] : r.first <= o.at /\ o.at <= r.last}
  <2>1. r.key \in Keys /\ r.first \in Nat /\ r.last \in Nat /\ r.first <= r.last
        /\ \A o \in log[r.key] : o.at \in Nat
    BY <1>1 DEF InOrder, CapacityInv, Faithful, LogTyped, Seen
  <2>2. /\ \E o \in log[r.key] : o.at = r.last /\ o.run = r.run
        /\ \A o \in log[r.key] : r.first <= o.at /\ o.at <= r.last =>
             IF o.run = 0 THEN o.sig = r.sig ELSE o.run = r.run /\ o.at = r.last
        /\ \A t \in r.first..r.last : \E o \in log[r.key] :
             t <= o.at /\ o.at <= r.last /\ o.at - t < Widest
    BY DEF CapacityInv, Faithful, OfItsCause, SeenSoon
  <2>3. \E o \in seen : o.at = r.last
    BY <2>1, <2>2
  <2>4. \A o \in seen : o.sig = r.sig \/ (o.run # 0 /\ o.run = r.run /\ o.at = r.last)
    BY <2>2
  <2>5. ASSUME NEW t \in r.first..r.last
        PROVE  \E o \in seen : t <= o.at /\ o.at - t < Greatest(Gaps)
    <3>1. PICK o \in log[r.key] : t <= o.at /\ o.at <= r.last /\ o.at - t < Widest
      BY <2>2
    <3>2. r.first <= o.at
      BY <2>1, <3>1
    <3> QED BY <3>1, <3>2 DEF Widest
  <2>6. \A s \in rows : s.key = r.key /\ s # r => s.first > r.last \/ s.last < r.first
    <3>1. \A s \in rows : s.key = r.key /\ s # r => Ahead(r, s) \/ Ahead(s, r)
      BY <1>1 DEF InOrder
    <3>2. \A s \in rows : s.first \in Nat /\ s.last \in Nat
      BY <1>1 DEF InOrder
    <3> QED BY <2>1, <3>1, <3>2 DEF Ahead
  <2>7. ASSUME r.open, NEW s \in rows, s.key = r.key, s # r, s.open
        PROVE  FALSE
    <3>1. s.last <= r.last /\ r.last <= s.last
      BY <2>7 DEF CapacityInv, Faithful, OpenIsLast
    <3>2. Ahead(r, s) \/ Ahead(s, r)
      BY <1>1, <2>7 DEF InOrder
    <3> QED BY <1>1, <2>1, <3>1, <3>2 DEF InOrder
  <2> QED BY <2>3, <2>4, <2>5, <2>6, <2>7
<1> QED BY <1>2 DEF CountsOnlyObserved

(* The start of a stretch that counts: the key had been seen waiting for that    *)
(* cause, and nothing else, ever since.                                        *)
LEMMA HourLived ==
  ASSUME CapacityInv, NEW r \in rows, NEW h \in r.first..(r.last - 1)
  PROVE  \E o \in log[r.key] :
           /\ o.at <= h /\ h - o.at < Widest /\ o.sig = r.sig
           /\ \A x \in log[r.key] : o.at <= x.at /\ x.at <= h => x.sig = r.sig /\ x.run = 0
<1>1. PICK o \in log[r.key] :
        /\ o.at <= h /\ h - o.at < Widest
        /\ \A x \in log[r.key] : o.at <= x.at /\ x.at <= h => x.sig = r.sig /\ x.run = 0
  BY DEF CapacityInv, Faithful, Waited, SeenWaiting
<1>2. o.at \in Nat
  <2>1. r.key \in Keys
    BY RowsInOrder DEF InOrder
  <2> QED BY <2>1 DEF CapacityInv, Faithful, LogTyped, Seen
<1>3. o.sig = r.sig
  BY <1>1, <1>2
<1> QED BY <1>1, <1>3

(* A row linked to the next one.                                               *)
LEMMA LinkedRows ==
  ASSUME CapacityInv, NEW p \in rows, NEW y \in rows, Linked(p, y)
  PROVE  /\ Adjacent(rows, p, y) /\ p.why = "changed" /\ p.run = 0 /\ y.first - p.last <= gap
         /\ y.sig # "paused"
         /\ \A q \in rows : Adjacent(rows, q, y) => q = p
<1>1. InOrder
  BY RowsInOrder
<1>2. Adjacent(rows, p, y) /\ p.why = "changed" /\ y.first - p.last <= gap
  BY <1>1 DEF InOrder, Linked
<1>3. p.run = 0 /\ y.sig # "paused"
  BY <1>2 DEF CapacityInv, Faithful, EndsKnown, ChangedInto
<1>4. \A q \in rows : Adjacent(rows, q, y) => q = p
  BY <1>1, <1>2 DEF InOrder, Adjacent
<1> QED BY <1>2, <1>3, <1>4

(* The next row of a key after one that is not the last.                        *)
LEMMA NextRow ==
  ASSUME CapacityInv, NEW p \in rows, NEW r \in rows, Ahead(p, r)
  PROVE  \E y \in rows : Adjacent(rows, p, y) /\ (y = r \/ Ahead(y, r))
<1>1. InOrder /\ RowsTyped(rows, clock) /\ clock \in Nat
  BY RowsInOrder DEF CapacityInv, Faithful
<1> DEFINE After == {x \in rows : Ahead(p, x)}
<1>2. PICK y \in After : \A z \in After : y.first <= z.first
  <2>1. After \in SUBSET rows /\ After # {}
    OBVIOUS
  <2> HIDE DEF After
  <2> QED BY <1>1, <2>1, FirstRow
<1>3. ASSUME NEW z \in rows, Ahead(p, z), Ahead(z, y)
      PROVE  FALSE
  BY <1>1, <1>2, <1>3 DEF InOrder
<1>4. y.key = r.key /\ ~Ahead(r, y)
  BY <1>1, <1>2, <1>3 DEF InOrder
<1> QED BY <1>1, <1>2, <1>3, <1>4 DEF InOrder, Adjacent

(* The rows of an episode from a wait to its launch: the launch comes last, each *)
(* row before it changed into the next, and no pause came between.             *)
Between(r, x, e) == /\ x \in rows /\ x.key = r.key /\ (x = r \/ Ahead(r, x)) /\ (x = e \/ Ahead(x, e))

LEMMA EpisodeShape ==
  ASSUME CapacityInv, NEW r \in rows, NEW e \in Episode(r), e.run # 0
  PROVE  /\ e \in rows /\ e.key = r.key /\ (e = r \/ Ahead(r, e))
         /\ \A x \in rows : Between(r, x, e) /\ x # e =>
              /\ x.run = 0
              /\ \E y \in rows : Between(r, y, e) /\ Linked(x, y)
         /\ \A x \in rows : Between(r, x, e) /\ x # r => x.sig # "paused"
<1>1. InOrder
  BY RowsInOrder
<1>2. e \in rows /\ e.key = r.key
  BY DEF Episode
<1>3. ASSUME NEW y \in rows, (Ahead(e, y) /\ (Ahead(y, r) \/ y = r))
                             \/ (Ahead(r, y) /\ (Ahead(y, e) \/ y = e))
      PROVE  \E p \in rows : Linked(p, y)
  <2>1. e # r
    BY <1>1, <1>2, <1>3 DEF InOrder
  <2>2. \A z \in rows : (Precedes(e, z) /\ (Precedes(z, r) \/ z = r))
                        \/ (Precedes(r, z) /\ (Precedes(z, e) \/ z = e))
          => \E p \in rows : Linked(p, z)
    BY <2>1 DEF Episode
  <2> QED BY <1>1, <1>2, <1>3, <2>2 DEF InOrder
<1>4. ~Ahead(e, r)
  <2>1. ASSUME Ahead(e, r)
        PROVE  FALSE
    <3>1. PICK y \in rows : Adjacent(rows, e, y) /\ (y = r \/ Ahead(y, r))
      BY <1>2, <2>1, NextRow
    <3>2. PICK p \in rows : Linked(p, y)
      BY <1>3, <3>1 DEF Adjacent
    <3>3. p = e /\ p.run = 0
      BY <1>2, <3>1, <3>2, LinkedRows
    <3> QED BY <3>3
  <2> QED BY <2>1
<1>5. e = r \/ Ahead(r, e)
  BY <1>1, <1>2, <1>4 DEF InOrder
<1>6. ASSUME NEW x \in rows, Between(r, x, e), x # e
      PROVE  /\ x.run = 0
             /\ \E y \in rows : Between(r, y, e) /\ Linked(x, y)
  <2>1. Ahead(x, e)
    BY <1>6 DEF Between
  <2>2. PICK y \in rows : Adjacent(rows, x, y) /\ (y = e \/ Ahead(y, e))
    BY <1>2, <2>1, NextRow
  <2>3. Ahead(r, y) /\ y.key = r.key
    BY <1>1, <1>2, <1>6, <2>2 DEF InOrder, Between, Adjacent
  <2>4. PICK p \in rows : Linked(p, y)
    BY <1>3, <2>2, <2>3
  <2>5. p = x /\ p.run = 0
    BY <2>2, <2>4, LinkedRows
  <2> QED BY <2>2, <2>3, <2>4, <2>5 DEF Between
<1>7. ASSUME NEW x \in rows, Between(r, x, e), x # r
      PROVE  x.sig # "paused"
  <2>1. Ahead(r, x) /\ (Ahead(x, e) \/ x = e)
    BY <1>7 DEF Between
  <2>2. PICK p \in rows : Linked(p, x)
    BY <1>3, <2>1
  <2> QED BY <2>2, LinkedRows
<1> QED BY <1>2, <1>5, <1>6, <1>7

(* From a wait to its launch the key was watched: each moment lies in a row of    *)
(* the episode or right after one.                                             *)
LEMMA WatchedTo ==
  ASSUME CapacityInv, NEW r \in rows, NEW e \in Episode(r), e.run # 0,
         NEW h \in r.first..e.last, h >= r.first, r.last > r.first
  PROVE  \E x \in log[r.key] : x.at <= h /\ h - x.at <= Widest
<1>1. InOrder /\ gap \in Nat /\ gap <= Widest /\ Widest \in Nat \ {0} /\ RowsTyped(rows, clock)
      /\ clock \in Nat
  BY RowsInOrder, CapacityAssumption, WidestGap DEF CapacityInv, Faithful
<1>2. e \in rows /\ e.key = r.key /\ (e = r \/ Ahead(r, e))
  BY EpisodeShape
<1>3. r.first \in Nat /\ r.last \in Nat /\ e.first \in Nat /\ e.last \in Nat /\ h \in Nat
      /\ r.key \in Keys
  BY <1>1, <1>2 DEF InOrder
<1> DEFINE Begun == {x \in rows : Between(r, x, e) /\ x.first <= h}
<1>4. r \in Begun
  BY <1>2, <1>3 DEF Between
<1>5. PICK x \in Begun : \A y \in Begun : y.last <= x.last
  <2>1. Begun \in SUBSET rows /\ Begun # {}
    BY <1>4
  <2> HIDE DEF Begun
  <2> QED BY <1>1, <2>1, LastRow
<1>6. x \in rows /\ x.key = r.key /\ x.first <= h /\ x.first \in Nat /\ x.last \in Nat /\ x.first <= x.last
  BY <1>1, <1>5 DEF InOrder, Between
<1>7. CASE h < x.last
  <2>1. h \in x.first..(x.last - 1)
    BY <1>3, <1>6, <1>7
  <2>2. PICK o \in log[x.key] : o.at <= h /\ h - o.at < Widest
    BY <1>6, <2>1, HourLived
  <2>3. o.at \in Nat
    BY <1>3, <1>6 DEF CapacityInv, Faithful, LogTyped, Seen
  <2> QED BY <1>1, <1>3, <1>6, <2>2, <2>3
<1>8. CASE h >= x.last
  <2>1. PICK o \in log[x.key] : o.at = x.last
    BY <1>6 DEF CapacityInv, Faithful, OfItsCause
  <2>2. h - x.last <= Widest
    <3>1. CASE x = e
      BY <1>1, <1>3, <1>8, <3>1
    <3>2. CASE x # e
      <4>1. PICK y \in rows : Between(r, y, e) /\ Linked(x, y)
        BY <1>5, <3>2, EpisodeShape
      <4>2. Adjacent(rows, x, y) /\ y.first - x.last <= gap
        BY <1>6, <4>1, LinkedRows
      <4>3. x.last < y.last /\ y.last \in Nat /\ y.first \in Nat
        BY <1>1, <1>6, <4>2 DEF InOrder, Adjacent
      <4>4. y \notin Begun
        BY <1>5, <1>6, <4>3
      <4>5. h < y.first
        BY <1>3, <4>1, <4>3, <4>4
      <4> QED BY <1>1, <1>3, <1>6, <4>2, <4>3, <4>5
    <3> QED BY <3>1, <3>2
  <2> QED BY <1>6, <1>8, <2>1, <2>2
<1> QED BY <1>3, <1>6, <1>7, <1>8

LEMMA UnpausedTo ==
  ASSUME CapacityInv, NEW r \in rows, r.sig # "paused", NEW e \in Episode(r), e.run # 0,
         NEW x \in log[r.key], r.first <= x.at, x.at < e.last
  PROVE  x.sig # "paused" /\ x.run = 0
<1>1. InOrder
  BY RowsInOrder
<1>2. e \in rows /\ e.key = r.key /\ (e = r \/ Ahead(r, e))
  BY EpisodeShape
<1>3. r.first \in Nat /\ r.last \in Nat /\ e.first \in Nat /\ e.last \in Nat /\ r.key \in Keys
      /\ x.at \in Nat /\ r.first <= r.last /\ e.first <= e.last
  <2>1. r.first \in Nat /\ r.last \in Nat /\ e.first \in Nat /\ e.last \in Nat /\ r.key \in Keys
        /\ r.first <= r.last /\ e.first <= e.last
    BY <1>1, <1>2 DEF InOrder
  <2> QED BY <2>1 DEF CapacityInv, Faithful, LogTyped, Seen
<1>4. \E z \in rows : z.key = r.key /\ z.first <= x.at /\ x.at <= z.last
  <2>1. CASE x.at <= r.last
    BY <2>1
  <2>2. CASE r.last < x.at
    BY <2>2 DEF CapacityInv, Faithful, Covered
  <2> QED BY <1>3, <2>1, <2>2
<1>5. PICK z \in rows : z.key = r.key /\ z.first <= x.at /\ x.at <= z.last
  BY <1>4
<1>6. z.first \in Nat /\ z.last \in Nat
  BY <1>1 DEF InOrder
<1>7. Between(r, z, e)
  <2>1. ~Ahead(z, r)
    BY <1>3, <1>5, <1>6 DEF Ahead
  <2>2. ~Ahead(e, z)
    BY <1>3, <1>5, <1>6 DEF Ahead
  <2> QED BY <1>1, <1>2, <1>5, <2>1, <2>2 DEF InOrder, Between
<1>8. IF x.run = 0 THEN x.sig = z.sig ELSE x.run = z.run /\ x.at = z.last
  BY <1>5 DEF CapacityInv, Faithful, OfItsCause
<1>9. x.run = 0
  <2>1. ASSUME x.run # 0
        PROVE  FALSE
    <3>1. z = e
      BY <1>7, <1>8, <2>1, EpisodeShape
    <3> QED BY <1>3, <1>8, <2>1, <3>1
  <2> QED BY <2>1
<1>10. z.sig # "paused"
  BY <1>7, EpisodeShape
<1> QED BY <1>8, <1>9, <1>10

LEMMA LaunchLived ==
  ASSUME CapacityInv, NEW r \in rows, NEW t, Qualifies(r, t), NEW e \in Episode(r), e.run # 0
  PROVE  \E o, l \in log[r.key] :
           /\ l.run = e.run /\ o.at < l.at /\ o.sig \in Signatures /\ t \in Exhausted[o.sig]
           /\ \A h \in o.at..l.at : \E x \in log[r.key] : x.at <= h /\ h - x.at <= Widest
           /\ \A x \in log[r.key] : o.at <= x.at /\ x.at < l.at => x.sig # "paused" /\ x.run = 0
<1>1. InOrder /\ Widest \in Nat
  BY RowsInOrder, WidestGap
<1>2. e \in rows /\ e.key = r.key /\ (e = r \/ Ahead(r, e))
  BY EpisodeShape
<1>3. r.first \in Nat /\ r.last \in Nat /\ e.first \in Nat /\ e.last \in Nat /\ r.key \in Keys
      /\ r.last <= e.last
  BY <1>1, <1>2 DEF InOrder
<1>4. r.sig \in Signatures /\ t \in Exhausted[r.sig] /\ r.last > r.first /\ r.sig # "paused"
  BY CapacityAssumption DEF Qualifies
<1>5. PICK o \in log[r.key] :
        /\ o.at <= r.first /\ r.first - o.at < Widest /\ o.sig = r.sig
        /\ \A x \in log[r.key] : o.at <= x.at /\ x.at <= r.first => x.sig = r.sig /\ x.run = 0
  <2>1. r.first \in r.first..(r.last - 1)
    BY <1>3, <1>4
  <2> QED BY <2>1, HourLived
<1>6. PICK l \in log[r.key] : l.at = e.last /\ l.run = e.run
  BY <1>2 DEF CapacityInv, Faithful, OfItsCause
<1>7. \A x \in log[r.key] : x.at \in Nat
  BY <1>3 DEF CapacityInv, Faithful, LogTyped, Seen
<1>8. ASSUME NEW h \in o.at..l.at
      PROVE  \E x \in log[r.key] : x.at <= h /\ h - x.at <= Widest
  <2>1. CASE h < r.first
    BY <1>1, <1>3, <1>5, <1>7, <1>8, <2>1
  <2>2. CASE h >= r.first
    <3>1. h \in r.first..e.last
      BY <1>3, <1>6, <1>7, <1>8, <2>2
    <3> QED BY <1>4, <2>2, <3>1, WatchedTo
  <2> QED BY <1>3, <1>7, <1>8, <2>1, <2>2
<1>9. ASSUME NEW x \in log[r.key], o.at <= x.at, x.at < l.at
      PROVE  x.sig # "paused" /\ x.run = 0
  <2>1. CASE x.at <= r.first
    BY <1>4, <1>5, <1>9, <2>1
  <2>2. CASE r.first <= x.at
    BY <1>4, <1>6, <1>9, <2>2, UnpausedTo
  <2> QED BY <1>3, <1>7, <2>1, <2>2
<1>10. o.at < l.at
  BY <1>3, <1>4, <1>5, <1>6, <1>7
<1> QED BY <1>4, <1>5, <1>6, <1>8, <1>9, <1>10

LEMMA ReportFaithful == ASSUME CapacityInv PROVE ReportCountsRealWaits
<1>1. ASSUME NEW t, NEW h \in capacity_report(t).hours
      PROVE  \E k \in Keys : \E o \in log[k] :
               o.at <= h /\ h - o.at < Greatest(Gaps) /\ o.sig \in Signatures /\ t \in Exhausted[o.sig]
  <2>1. PICK r \in rows : Qualifies(r, t) /\ h \in r.first..(r.last - 1)
    BY <1>1 DEF capacity_report
  <2>2. PICK o \in log[r.key] : o.at <= h /\ h - o.at < Widest /\ o.sig = r.sig
    BY <2>1, HourLived
  <2>3. r.key \in Keys
    BY RowsInOrder DEF InOrder
  <2> QED BY <2>1, <2>2, <2>3 DEF Qualifies, Widest
<1>2. ASSUME NEW t, NEW n \in capacity_report(t).runs
      PROVE  \E k \in Keys : \E o, l \in log[k] :
               /\ l.run = n /\ o.at < l.at /\ o.sig \in Signatures /\ t \in Exhausted[o.sig]
               /\ \A h \in o.at..l.at : \E x \in log[k] : x.at <= h /\ h - x.at <= Greatest(Gaps)
               /\ \A x \in log[k] : o.at <= x.at /\ x.at < l.at => x.sig # "paused" /\ x.run = 0
  <2>1. PICK r \in rows : Qualifies(r, t) /\ n = LaunchOf(Episode(r)) /\ n # 0
    BY <1>2 DEF capacity_report
  <2> DEFINE launches == {x \in Episode(r) : x.run # 0}
  <2>2. launches # {} /\ n = (CHOOSE x \in launches : \A y \in launches : ~Precedes(x, y)).run
    BY <2>1 DEF LaunchOf
  <2>3. \E x \in launches : \A y \in launches : ~Precedes(x, y)
    <3>1. InOrder /\ RowsTyped(rows, clock) /\ clock \in Nat
      BY RowsInOrder DEF CapacityInv, Faithful
    <3>2. launches \in SUBSET rows
      BY DEF Episode
    <3>3. PICK x \in launches : \A y \in launches : y.last <= x.last
      <4> HIDE DEF launches
      <4> QED BY <2>2, <3>1, <3>2, LastRow
    <3>4. \A y \in launches : ~Precedes(x, y)
      <4>1. ASSUME NEW y \in launches, Precedes(x, y)
            PROVE  FALSE
        <5>1. y \in rows /\ x \in rows /\ y.last <= x.last
          BY <3>2, <3>3, <4>1
        <5>2. Ahead(x, y)
          BY <3>1, <4>1, <5>1 DEF InOrder
        <5> QED BY <3>1, <5>1, <5>2 DEF InOrder
      <4> QED BY <4>1
    <3> QED BY <3>4
  <2>4. PICK e \in Episode(r) : e.run # 0 /\ e.run = n
    <3> HIDE DEF launches
    <3>1. PICK e \in launches : n = e.run
      BY <2>2, <2>3
    <3> QED BY <3>1 DEF launches
  <2>5. r.key \in Keys
    BY RowsInOrder DEF InOrder
  <2> QED BY <2>1, <2>4, <2>5, LaunchLived DEF Widest
<1> QED BY <1>1, <1>2 DEF ReportCountsRealWaits

(* What the history and its report say of waiting was lived through, for any      *)
(* causes, gap settings and retention.                                         *)
THEOREM WaitsLivedThrough == CapacitySpec => []WaitsAreReal
<1>1. CapacityInv => WaitsAreReal
  BY CountsFaithful, ReportFaithful DEF WaitsAreReal
<1> QED BY <1>1, CapacityInvariance, PTL
=============================================================================
