------------------------------ MODULE MCEndings -------------------------------
(* What holds work up and has to end: the runs, items and leases of a host      *)
(* (Lifecycle), and the repository-wide CI hold over three items (CiHold). They  *)
(* meet only in the item's state, which each keeps for itself, so one of them is *)
(* explored at a time: part names it, and the other stays as it started.        *)
EXTENDS MCLifecycle

VARIABLES part, base, items, bot, hold, stale, ciPass, upsets

CI == INSTANCE CiHold WITH
        Items <- {1, 2, 3}, Unfiled <- {3}, Named <- {3}, MaxHeads <- 2, MaxUpsets <- 1,
        item <- items, pass <- ciPass, left <- upsets

holdVars == <<base, items, bot, hold, stale, ciPass, upsets>>
endingsVars == <<part, vars, holdVars>>

EndingsInit ==
  /\ part \in {"host", "hold"}
  /\ Init /\ CI!Init
  /\ part # "hold" => bot = "none"

OnHost == part = "host" /\ UNCHANGED <<part, holdVars>>
OnHold == part = "hold" /\ UNCHANGED <<part, vars>>

EndingsNext ==
  \/ OnHost /\ Next
  \/ OnHold /\ CI!Next

(* The fairness of the two: the passes of a tick, whose steps exclude each       *)
(* other, and the clocks of a run.                                              *)
Ticks == (OnHost /\ Daemon) \/ (OnHold /\ CI!Pass)
EndingsFairness ==
  /\ WF_endingsVars(Ticks)
  /\ \A r \in Runs :
       SF_endingsVars(OnHost /\ WatchIncomplete(r)) /\ SF_endingsVars(OnHost /\ WatchStop(r))

EndingsSpec == EndingsInit /\ [][EndingsNext]_endingsVars /\ EndingsFairness

------------------------------------------------------------------------------
(* EveryRunEnds and NothingStranded are Lifecycle's own.                        *)

(* Once the base stays green nothing is left held (CiHold).                     *)
NothingIsLeftOver == CI!NothingStaysHeld
===============================================================================
