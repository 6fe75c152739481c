-------------------------------- MODULE Lease --------------------------------
(* The lease table of src/mahler/ledger.py: one row per item in SQLite, every *)
(* operation one BEGIN IMMEDIATE transaction, expiry against the wall clock   *)
(* (a row carries the time it has left: expires_at minus Ledger.now()).       *)
(* The processes that call it (the tick's passes, the CLI, the MCP server)    *)
(* interleave at the granularity of these operations.                         *)
EXTENDS Naturals, FiniteSets

CONSTANTS Items, Runs, Sessions, Conductor, Nobody,
          MaxParallel,  \* projects.<name>.max_parallel
          Ttl           \* auto_lease_minutes and interactive_lease_minutes

Autos == Runs \cup {Conductor}
Holders == Autos \cup Sessions

ASSUME LeaseAssumption ==
  /\ Runs \cap Sessions = {}
  /\ Conductor \notin Runs \cup Sessions
  /\ Nobody \notin Holders
  /\ IsFiniteSet(Items)
  /\ MaxParallel \in Nat
  /\ Ttl \in Nat \ {0}

VARIABLES epoch,    \* items.epoch
          lease,    \* the leases table; NoRow when an item has no row
          yield,    \* runs whose yield_at is set
          token     \* what each process remembers of its last grant (runs.epoch)

leaseVars == <<epoch, lease, yield, token>>

NoRow == [holder |-> Nobody, epoch |-> 0, left |-> 0, capacity |-> FALSE]

Rows == [holder : Holders \cup {Nobody}, epoch : Nat, left : 0..Ttl, capacity : BOOLEAN]

(* Types: a row never holds more time than one term of its lease.              *)
TypeOK ==
  /\ epoch \in [Items -> Nat]
  /\ lease \in [Items -> Rows]
  /\ yield \in SUBSET Runs
  /\ token \in [Items -> [Holders -> Nat]]

Init ==
  /\ epoch = [i \in Items |-> 0]
  /\ lease = [i \in Items |-> NoRow]
  /\ yield = {}
  /\ token = [i \in Items |-> [h \in Holders |-> 0]]

Held(i) == lease[i].holder # Nobody

Live(i) == Held(i) /\ lease[i].left > 0

lease_check(i, e) == Live(i) /\ lease[i].epoch = e

(* The rows a capacity-taking claim on i counts. *)
Occupied(i) == {j \in Items \ {i} : Live(j) /\ lease[j].capacity}

HandedOff(i, from) == lease[i].holder = from.holder /\ lease[i].epoch = from.epoch

(* Mutant: anybody may pre-empt an autonomous holder.                         *)
Preempts_Anyone(i, h) == lease[i].holder \in Autos

(* The conditions under which a live lease of somebody else gives way. *)
Preempts(i, h) == h \in Sessions /\ lease[i].holder \in Autos
Steals(i, h, steal) == h \in Sessions /\ lease[i].holder \in Sessions /\ steal

GivesWay(i, h, steal, from) ==
  HandedOff(i, from) \/ Preempts(i, h) \/ Steals(i, h, steal)

NewRow(i, h, cap) ==
  [holder |-> h, epoch |-> epoch[i] + 1, left |-> Ttl, capacity |-> cap]

(* Mutant: the displaced run is never told.                                   *)
Flagged_Never(i, h, from) == yield

(* A pre-empted run is flagged to yield, in the same transaction and before   *)
(* the capacity check: a claim refused for capacity leaves the flag behind.   *)
Flagged(i, h, from) ==
  IF Live(i) /\ lease[i].holder # h /\ ~HandedOff(i, from) /\ Preempts(i, h)
  THEN yield \cup ({lease[i].holder} \cap Runs)
  ELSE yield

Renew(i, h, cap) ==
  /\ Live(i)
  /\ lease[i].holder = h
  /\ lease' = [lease EXCEPT ![i].left = Ttl, ![i].capacity = cap]
  /\ token' = [token EXCEPT ![i][h] = lease[i].epoch]
  /\ UNCHANGED <<epoch, yield>>

(* Mutant: off by one.                                                        *)
AtCapacity_OneMore(i, cap) == cap /\ Cardinality(Occupied(i)) > MaxParallel

AtCapacity(i, cap) == cap /\ Cardinality(Occupied(i)) >= MaxParallel

(* Mutant: a re-claim after expiry keeps the token.                           *)
Take_KeepsEpoch(i, h, cap, steal, from) ==
  /\ Live(i) => lease[i].holder # h /\ GivesWay(i, h, steal, from)
  /\ ~AtCapacity(i, cap)
  /\ lease' = [lease EXCEPT ![i] = [NewRow(i, h, cap) EXCEPT !.epoch = epoch[i]]]
  /\ token' = [token EXCEPT ![i][h] = epoch[i]]
  /\ yield' = Flagged(i, h, from)
  /\ UNCHANGED epoch

(* Mutant: a live lease is taken from whoever has it.                         *)
Take_Anyway(i, h, cap, steal, from) ==
  /\ ~AtCapacity(i, cap)
  /\ epoch' = [epoch EXCEPT ![i] = @ + 1]
  /\ lease' = [lease EXCEPT ![i] = NewRow(i, h, cap)]
  /\ token' = [token EXCEPT ![i][h] = epoch[i] + 1]
  /\ yield' = Flagged(i, h, from)

Take(i, h, cap, steal, from) ==
  /\ Live(i) => lease[i].holder # h /\ GivesWay(i, h, steal, from)
  /\ ~AtCapacity(i, cap)
  /\ epoch' = [epoch EXCEPT ![i] = @ + 1]
  /\ lease' = [lease EXCEPT ![i] = NewRow(i, h, cap)]
  /\ token' = [token EXCEPT ![i][h] = epoch[i] + 1]
  /\ yield' = Flagged(i, h, from)

RefusedForCapacity(i, h, cap, steal, from) ==
  /\ Live(i) => lease[i].holder # h /\ GivesWay(i, h, steal, from)
  /\ AtCapacity(i, cap)
  /\ yield' = Flagged(i, h, from)
  /\ UNCHANGED <<epoch, lease, token>>

claim(i, h, cap, steal, from) ==
  \/ Renew(i, h, cap)
  \/ Take(i, h, cap, steal, from)
  \/ RefusedForCapacity(i, h, cap, steal, from)

(* Extends the row of a matching holder and epoch, lapsed or not. *)
heartbeat(i, h, e) ==
  /\ lease[i].holder = h
  /\ lease[i].epoch = e
  /\ lease' = [lease EXCEPT ![i].left = Ttl]
  /\ UNCHANGED <<epoch, yield, token>>

Delete(i) ==
  /\ lease' = [lease EXCEPT ![i] = NoRow]
  /\ UNCHANGED <<epoch, yield, token>>

release(i, h, e) ==
  /\ lease[i].holder = h
  /\ lease[i].epoch = e
  /\ Delete(i)

(* release(project, n) with neither holder nor epoch: a closed issue's path   *)
(* in sync drops whoever holds the item.                                      *)
release_any(i) == Held(i) /\ Delete(i)

Tick ==
  /\ \E i \in Items : Live(i)
  /\ lease' = [i \in Items |-> IF Live(i) THEN [lease[i] EXCEPT !.left = @ - 1] ELSE lease[i]]
  /\ UNCHANGED <<epoch, yield, token>>

------------------------------------------------------------------------------
(* The callers: tick.start claims once for a fresh run; cli.cmd_claim and the MCP  *)
(* server claim for a session; ship takes the conductor's lease, and finalize *)
(* hands a run's lease to the conductor.  Only sort runs take no capacity.    *)
NoHandoff == [holder |-> Nobody, epoch |-> 0]
Handoffs(i) == {NoHandoff} \cup {[holder |-> r, epoch |-> token[i][r]] : r \in Runs}

RunClaims(i, r) ==
  /\ \A j \in Items : token[j][r] = 0
  /\ \E cap \in BOOLEAN,
        from \in {NoHandoff, [holder |-> Conductor, epoch |-> token[i][Conductor]]} :
       claim(i, r, cap, FALSE, from)

SessionClaims(i, s) == \E steal \in BOOLEAN : claim(i, s, TRUE, steal, NoHandoff)

ConductorClaims(i) == \E from \in Handoffs(i) : claim(i, Conductor, FALSE, FALSE, from)

(* watchdog for runs (the remembered epoch), cli and expire for sessions.     *)
Heartbeats(i, h) == heartbeat(i, h, token[i][h])

Releases(i, h) == release(i, h, token[i][h])

(* tick.expire: a lease past its expiry is reaped by holder and epoch.        *)
Reap(i) ==
  /\ Held(i)
  /\ ~Live(i)
  /\ release(i, lease[i].holder, lease[i].epoch)

Next ==
  \/ \E i \in Items, r \in Runs : RunClaims(i, r)
  \/ \E i \in Items, s \in Sessions : SessionClaims(i, s)
  \/ \E i \in Items : ConductorClaims(i)
  \/ \E i \in Items, h \in Holders : Heartbeats(i, h)
  \/ \E i \in Items, h \in Holders : Releases(i, h)
  \/ \E i \in Items : release_any(i)
  \/ \E i \in Items : Reap(i)
  \/ Tick

Spec == Init /\ [][Next]_leaseVars

------------------------------------------------------------------------------
(* ledger.py: "a run holding an old epoch fails lease_check".  The row an     *)
(* item has is always the newest grant ever made of it, through every expiry, *)
(* revival, steal, hand-off and reap.                                         *)
RowIsNewestGrant == \A i \in Items : Held(i) => lease[i].epoch = epoch[i]

(* No two processes that each remember a grant of an item can both pass       *)
(* lease_check with it: the token of whoever was displaced, expired or reaped *)
(* is dead, so two writers never push to one branch.                          *)
OneWriter ==
  \A i \in Items, g, h \in Holders :
    lease_check(i, token[i][g]) /\ lease_check(i, token[i][h]) => g = h

(* ledger.py: "auto vs auto never succeeds (so double assignment is           *)
(* impossible)".  A live lease changes hands only to a human, or from the     *)
(* holder itself in an explicit hand-off of that very grant.                  *)
DisplacedOnlyByHumanOrHandoff ==
  [][\A i \in Items :
       Live(i) /\ lease'[i].holder \notin {lease[i].holder, Nobody}
         => \/ lease'[i].holder \in Sessions
            \/ lease[i].holder \in Runs /\ lease'[i].holder = Conductor
            \/ lease[i].holder = Conductor /\ lease'[i].holder \in Runs]_leaseVars

(* A live run that loses its item to a human is always told to yield: nothing *)
(* but its own heartbeat would otherwise stop it.                             *)
DisplacedRunYields ==
  [][\A i \in Items :
       Live(i) /\ lease[i].holder \in Runs /\ lease'[i].holder \in Sessions
         => lease[i].holder \in yield']_leaseVars

(* A revival never resurrects a grant somebody else has already superseded:   *)
(* if a token passes in the next state without a new grant being made, then   *)
(* it was the row's token in this state too.                                  *)
NoResurrection ==
  [][\A i \in Items, h \in Holders :
       /\ token'[i][h] = token[i][h]
       /\ Live(i)' /\ lease'[i].holder = h /\ lease'[i].epoch = token[i][h]
       => lease[i].holder = h /\ lease[i].epoch = token[i][h]]_leaseVars

(* DESIGN D24: "max_parallel is enforced canonically too".  What the claim    *)
(* enforces: no new grant ever takes live capacity past the limit.  (A        *)
(* revival can: the heartbeat of a lease that lapsed while somebody else took *)
(* its slot does not count.)                                                  *)
GrantsStayWithinCapacity ==
  [][\A i \in Items :
       epoch'[i] # epoch[i] /\ lease'[i].capacity
         => Cardinality({j \in Items : lease'[j].holder # Nobody /\ lease'[j].left > 0
                                        /\ lease'[j].capacity}) <= MaxParallel]_leaseVars

(* Slots are kept: a heartbeat brings back no lease that was taken away, and    *)
(* no grant makes more capacity leases live than the project has slots.        *)
SlotsAreKept == NoResurrection /\ GrantsStayWithinCapacity

------------------------------------------------------------------------------
(* Refinement: the rows and the clock implement the fencing promise.          *)
Standing == [i \in Items |-> IF ~Held(i) THEN "free" ELSE IF Live(i) THEN "held" ELSE "lapsed"]

F == INSTANCE Fence WITH holder <- [i \in Items |-> lease[i].holder], standing <- Standing

ImplementsFence == F!FenceSpec
==============================================================================
