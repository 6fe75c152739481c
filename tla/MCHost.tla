-------------------------------- MODULE MCHost -------------------------------
(* What a host keeps for all its processes: the lease table of two items of a   *)
(* project with one slot (Lease), and the version of Mahler they run            *)
(* (Launcher). Neither reads the other, so one of them is explored at a time:    *)
(* part names it, the other stays as it started. The properties are theirs.     *)
EXTENDS Lease, Launcher, FiniteSetsExt

CONSTANT MaxGrants   \* grants made, over all items

VARIABLE part

(* Three versions of Mahler, the newer two of any of five kinds.               *)
FiveKinds ==
  {Whole, [Whole EXCEPT !.ticks = FALSE], [Whole EXCEPT !.launches = FALSE],
   [Whole EXCEPT !.green = FALSE], [Whole EXCEPT !.passes = FALSE]}

WithinBounds == MapThenSumSet(LAMBDA i : epoch[i], Items) <= MaxGrants

HostInit ==
  /\ part \in {"leases", "versions"}
  /\ Init /\ LauncherInit
  /\ part = "leases" => \A v \in Versions : kind[v] = Whole

Granting == part = "leases" /\ UNCHANGED <<part, launcherVars>>
Updating == part = "versions" /\ UNCHANGED <<part, leaseVars>>

HostNext ==
  \/ Granting /\ Next
  \/ Updating /\ LauncherNext

HostSpec ==
  HostInit /\ [][HostNext]_<<part, leaseVars, launcherVars>> /\ WF_launcherVars(Updating /\ TickScript)
==============================================================================
