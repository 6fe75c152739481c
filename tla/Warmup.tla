-------------------------------- MODULE Warmup --------------------------------
(* warmup.py: one paid turn opens the five-hour window of an idle login early.  *)
(* The tick and `mahler warmup` both run it under the tick lock, so one pass at *)
(* a time; it may die at any step, and the free reading may be out of date.     *)
EXTENDS Integers, Sequences

CONSTANTS Window, Guard, Backoff, \* 5 h, 4 h and 30 min in clock units
          MaxTime, MaxCrashes     \* bounds

WarmupAssumption ==
  /\ Window \in Nat /\ Guard \in Nat /\ Guard <= Window
  /\ Backoff \in Nat /\ Backoff >= 1

Never == -1 \* an unset time

VARIABLES now, opened,  \* when the login's real window was opened, or Never
          used,         \* it has seen use
          row,          \* the ledger's 5h row: [reset, used]
          last, failed, \* warmup:<target>:last and :failed
          blocked,      \* paused, disabled or exhausted: what keeps every nudge back
          pc, prior, at,\* the pass: its step, the `last` it read, its `now`
          crashes,
          turns         \* history: the paid turns [at, how], how being what its pass
                        \* left of it: "kept" (its `last`), "failed" (its failure) or
                        \* "lost" (neither)

warmupVars == <<now, opened, used, row, last, failed, blocked, pc, prior, at, crashes, turns>>

WarmupInit ==
  /\ now = 0 /\ opened = Never /\ used = FALSE /\ row = [reset |-> Never, used |-> FALSE]
  /\ last = Never /\ failed = Never /\ blocked = FALSE
  /\ pc = "idle" /\ prior = Never /\ at = 0 /\ crashes = 0 /\ turns = <<>>

active(r, t) == r.reset # Never /\ r.reset > t /\ r.used

(* run_target, up to the free reading *)
Begin ==
  /\ pc = "idle" /\ at' = now /\ prior' = last
  /\ pc' = IF blocked \/ (failed # Never /\ now < failed + Backoff) \/ active(row, now)
           THEN "idle" ELSE "read"
  /\ UNCHANGED <<now, opened, used, row, last, failed, blocked, crashes, turns>>

Truth == [reset |-> IF opened = Never THEN Never ELSE opened + Window, used |-> used]
(* a reading is true, or does not show yet what happened since the last one *)
Readings == {Truth, row}
later_reset(fresh) == /\ fresh.reset # Never /\ fresh.reset <= at
                      /\ prior # Never /\ fresh.reset - Window > prior
Guarded(fresh) == prior # Never /\ at < prior + Guard /\ ~later_reset(fresh)
read_usage ==
  /\ pc = "read"
  /\ \E fresh \in Readings :
       /\ row' = fresh
       /\ pc' = IF active(fresh, at) \/ Guarded(fresh) THEN "idle" ELSE "persist"
  /\ UNCHANGED <<now, opened, used, last, failed, blocked, prior, at, crashes, turns>>
(* the reading fails, before the turn or after it *)
ReadFails == /\ pc \in {"read", "reread"} /\ pc' = "raised"
             /\ UNCHANGED <<now, opened, used, row, last, failed, blocked, prior, at, crashes, turns>>

(* Mutant: the fire time is saved after the turn.                             *)
Persist_Late == /\ pc = "persist" /\ pc' = "nudge"
                /\ UNCHANGED <<now, opened, used, row, last, failed, blocked, prior, at, crashes, turns>>

(* the fire time is saved before the turn is spent *)
Persist == /\ pc = "persist" /\ pc' = "nudge" /\ last' = at
           /\ UNCHANGED <<now, opened, used, row, failed, blocked, prior, at, crashes, turns>>

Live(t) == opened # Never /\ t < opened + Window
Opens == /\ opened' = (IF Live(now) THEN opened ELSE now) /\ used' = TRUE
Turned(how) == Append(turns, [at |-> now, how |-> how])
nudge ==
  /\ pc = "nudge" /\ pc' = "reread" /\ Opens /\ turns' = Turned("kept")
  /\ UNCHANGED <<now, row, last, failed, blocked, prior, at, crashes>>

(* An exception of the turn, which may have been spent: run_target puts `last`  *)
(* back and raises again, and warmup_pass then writes `failed`.                *)
Latest(how) == [turns EXCEPT ![Len(turns)].how = how]
NudgeFails ==
  /\ pc = "nudge" /\ pc' = "putback"
  /\ \/ Opens
     \/ UNCHANGED <<opened, used>>
  /\ turns' = Turned("kept")
  /\ UNCHANGED <<now, row, last, failed, blocked, prior, at, crashes>>
PutBack ==
  /\ pc = "putback" /\ pc' = "forgone" /\ last' = prior /\ turns' = Latest("lost")
  /\ UNCHANGED <<now, opened, used, row, failed, blocked, prior, at, crashes>>
BacksOff ==
  /\ pc \in {"raised", "forgone"} /\ pc' = "idle" /\ failed' = now
  /\ turns' = IF pc = "forgone" THEN Latest("failed") ELSE turns
  /\ UNCHANGED <<now, opened, used, row, last, blocked, prior, at, crashes>>
Reread ==
  /\ pc = "reread" /\ pc' = "idle" /\ row' \in Readings /\ failed' = Never
  /\ UNCHANGED <<now, opened, used, last, blocked, prior, at, crashes, turns>>

(* the process dies; a turn that was under way is spent *)
Crash ==
  /\ crashes < MaxCrashes /\ crashes' = crashes + 1
  /\ pc # "idle" /\ pc' = "idle"
  /\ IF pc = "nudge" THEN Opens /\ turns' = Turned("kept")
     ELSE UNCHANGED <<opened, used, turns>>
  /\ UNCHANGED <<now, row, last, failed, blocked, prior, at>>

(* the owner works on the login, pauses or disables *)
HumanUse == /\ pc = "idle" /\ ~(Live(now) /\ used) /\ Opens
            /\ UNCHANGED <<now, row, last, failed, blocked, pc, prior, at, crashes, turns>>
Blocks == /\ pc = "idle" /\ blocked' = ~blocked
          /\ UNCHANGED <<now, opened, used, row, last, failed, pc, prior, at, crashes, turns>>
(* a pass is short: time moves between passes *)
Clock == /\ pc = "idle" /\ now < MaxTime /\ now' = now + 1
         /\ UNCHANGED <<opened, used, row, last, failed, blocked, pc, prior, at, crashes, turns>>

WarmupNext ==
  \/ Begin \/ read_usage \/ ReadFails \/ Persist \/ nudge \/ NudgeFails
  \/ PutBack \/ BacksOff \/ Reread \/ Crash \/ HumanUse \/ Blocks \/ Clock
WarmupSpec == WarmupInit /\ [][WarmupNext]_warmupVars

------------------------------------------------------------------------------
(* A turn that was not seen to fail, also one a crash cut off, is not followed  *)
(* by another within four hours, whatever the reading shows and whoever uses    *)
(* the login; one that failed is not followed within thirty minutes. Only a    *)
(* failed turn whose process dies after putting `last` back and before writing *)
(* `failed` leaves nothing, and holds no turn back.                            *)
Distance == [kept |-> Guard, failed |-> Backoff, lost |-> 0]
SpacedTurns ==
  \A j \in DOMAIN turns : \A i \in 1..(j - 1) : turns[j].at >= turns[i].at + Distance[turns[i].how]
==============================================================================
