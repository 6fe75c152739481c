-------------------------------- MODULE Fence --------------------------------
(* What Mahler's ledger promises about ownership of an item (DESIGN D6 and    *)
(* the docstring of src/mahler/ledger.py), with no clock and no rows: every   *)
(* grant carries a token one larger than every token before it, and only the  *)
(* newest grant of an item can ever be valid again.                           *)
(* Lease implements this module; Lifecycle is composed on top of it.          *)
EXTENDS Naturals

CONSTANTS Items,      \* backlog items of one project
          Runs,       \* autonomous runs: holders "run:<id>"
          Sessions,   \* interactive sessions: holders "interactive:<name>"
          Conductor,  \* the holder of an item while its PR is shipped
          Nobody

Autos == Runs \cup {Conductor}
Holders == Autos \cup Sessions

ASSUME HoldersAssumption ==
  /\ Runs \cap Sessions = {}
  /\ Conductor \notin Runs \cup Sessions
  /\ Nobody \notin Holders

VARIABLES epoch,      \* items.epoch: the token of the newest grant
          holder,     \* who got the newest grant; Nobody once it is given up
          standing    \* "held", "lapsed" (past its expiry) or "free"

fenceVars == <<epoch, holder, standing>>

FenceTypeOK ==
  /\ epoch \in [Items -> Nat]
  /\ holder \in [Items -> Holders \cup {Nobody}]
  /\ standing \in [Items -> {"held", "lapsed", "free"}]

FenceInit ==
  /\ epoch = [i \in Items |-> 0]
  /\ holder = [i \in Items |-> Nobody]
  /\ standing = [i \in Items |-> "free"]

(* Ledger.lease_check: the token is the live lease's. *)
Passes(i, h, e) ==
  /\ standing[i] = "held"
  /\ holder[i] = h
  /\ epoch[i] = e

(* Who may be given an item that somebody still holds: a human displaces an   *)
(* autonomous holder, or another human when stealing; an autonomous holder    *)
(* only ever receives it from its holder.                                     *)
MayDisplace(i, h, steal, from) ==
  \/ from = holder[i]
  \/ h \in Sessions /\ (holder[i] \in Autos \/ steal)

Grant(i, h, steal, from) ==
  /\ \/ standing[i] # "held"
     \/ holder[i] # h /\ MayDisplace(i, h, steal, from)
  /\ epoch' = [epoch EXCEPT ![i] = @ + 1]
  /\ holder' = [holder EXCEPT ![i] = h]
  /\ standing' = [standing EXCEPT ![i] = "held"]

(* A heartbeat revives the newest grant even after it lapsed. *)
Revive(i) ==
  /\ standing[i] = "lapsed"
  /\ standing' = [standing EXCEPT ![i] = "held"]
  /\ UNCHANGED <<epoch, holder>>

GiveUp(i) ==
  /\ standing[i] # "free"
  /\ holder' = [holder EXCEPT ![i] = Nobody]
  /\ standing' = [standing EXCEPT ![i] = "free"]
  /\ UNCHANGED epoch

(* Time passes: any number of leases lapse at once. *)
Lapse(S) ==
  /\ S \subseteq {i \in Items : standing[i] = "held"}
  /\ standing' = [i \in Items |-> IF i \in S THEN "lapsed" ELSE standing[i]]
  /\ UNCHANGED <<epoch, holder>>

FenceNext ==
  \/ \E i \in Items, h \in Holders, steal \in BOOLEAN, from \in Holders \cup {Nobody} :
        Grant(i, h, steal, from)
  \/ \E i \in Items : Revive(i) \/ GiveUp(i)
  \/ \E S \in SUBSET Items : Lapse(S)

FenceSpec == FenceInit /\ [][FenceNext]_fenceVars
==============================================================================
