------------------------------ MODULE HostProofs ------------------------------
(* Proofs about what the processes of a host share.                            *)
(* Lease, for every set of items, runs and sessions, every max_parallel and     *)
(* every ttl: a new grant outdates every older memory of the item.              *)
(* Discussion, for every number of sessions, turns, operations, worker deaths   *)
(* and console stops. What a write may still do is bounded by what the ledger   *)
(* says of it (Intent) and what an engine may still do by where its worker is   *)
(* (Lock): a turn gets its result only at points where no engine lives.         *)
(* Launcher, for any number of versions of any kind: all there is to go back to *)
(* was vouched for.                                                           *)
(* Router, for any platforms, projects, routes and requests: the four readings  *)
(* of the gates agree in every state whose values have their types.            *)
EXTENDS Lease, Discussion, Launcher, Router, FiniteSetTheorems, TLAPS

------------------------------------------------------------------------------
(* The lease table.                                                           *)

(* The strengthening that makes OneWriter inductive.  A token never exceeds   *)
(* the item's epoch, a row's holder remembers the newest one, and nobody else *)
(* does: together they say that a new grant outdates every older memory.      *)
TokensBounded == \A i \in Items, h \in Holders : token[i][h] <= epoch[i]

HolderRemembers ==
  \A i \in Items : Held(i) => epoch[i] > 0 /\ token[i][lease[i].holder] = epoch[i]

NewestIsUnique ==
  \A i \in Items, g, h \in Holders :
    epoch[i] > 0 /\ token[i][g] = epoch[i] /\ token[i][h] = epoch[i] => g = h

IInv ==
  /\ TypeOK
  /\ RowIsNewestGrant
  /\ TokensBounded
  /\ HolderRemembers
  /\ NewestIsUnique

Tickets == [holder : Holders \cup {Nobody}, epoch : Nat]

(* A claim made by a caller: who, and which hand-offs that caller may name.   *)
CallerClaim(i, h, cap, steal, from) ==
  /\ claim(i, h, cap, steal, from)
  /\ \/ h \in Runs /\ steal = FALSE /\ from.holder \in {Nobody, Conductor}
     \/ h \in Sessions /\ from.holder = Nobody
     \/ h = Conductor /\ steal = FALSE /\ from.holder \in {Nobody} \cup Runs

(* Next by what its steps do to the tables rather than by who takes them.     *)
TableStep ==
  \/ \E i \in Items, h \in Holders, cap, steal \in BOOLEAN, from \in Tickets :
        CallerClaim(i, h, cap, steal, from)
  \/ \E i \in Items, h \in Holders : heartbeat(i, h, token[i][h])
  \/ \E i \in Items : Held(i) /\ Delete(i)
  \/ Tick

LEMMA NextIsTableStep ==
  ASSUME TypeOK, Next
  PROVE  TableStep
<1> USE DEF Holders, Autos, Tickets
<1>1. ASSUME NEW i \in Items, NEW r \in Runs, RunClaims(i, r)
      PROVE  TableStep
  <2>1. NoHandoff \in Tickets
    BY DEF NoHandoff
  <2>2. [holder |-> Conductor, epoch |-> token[i][Conductor]] \in Tickets
    BY DEF TypeOK
  <2>3. PICK cap \in BOOLEAN,
             from \in {NoHandoff, [holder |-> Conductor, epoch |-> token[i][Conductor]]} :
               claim(i, r, cap, FALSE, from)
    BY <1>1 DEF RunClaims
  <2>4. from.holder \in {Nobody, Conductor}
    BY DEF NoHandoff
  <2>5. CallerClaim(i, r, cap, FALSE, from)
    BY <2>3, <2>4 DEF CallerClaim
  <2>6. QED
    BY <2>1, <2>2, <2>5 DEF TableStep
<1>2. ASSUME NEW i \in Items, NEW s \in Sessions, SessionClaims(i, s)
      PROVE  TableStep
  <2>1. PICK steal \in BOOLEAN : claim(i, s, TRUE, steal, NoHandoff)
    BY <1>2 DEF SessionClaims
  <2>2. NoHandoff \in Tickets /\ NoHandoff.holder = Nobody
    BY DEF NoHandoff
  <2>3. QED
    BY <2>1, <2>2 DEF TableStep, CallerClaim
<1>3. ASSUME NEW i \in Items, ConductorClaims(i)
      PROVE  TableStep
  <2>1. PICK from \in Handoffs(i) : claim(i, Conductor, FALSE, FALSE, from)
    BY <1>3 DEF ConductorClaims
  <2>2. from \in Tickets /\ from.holder \in {Nobody} \cup Runs
    BY DEF Handoffs, NoHandoff, TypeOK
  <2>3. QED
    BY <2>1, <2>2 DEF TableStep, CallerClaim
<1>4. ASSUME NEW i \in Items, NEW h \in Holders, Releases(i, h)
      PROVE  TableStep
  BY <1>4, LeaseAssumption DEF Releases, release, Held, TableStep
<1>5. ASSUME NEW i \in Items, release_any(i) \/ Reap(i)
      PROVE  TableStep
  BY <1>5 DEF release_any, Reap, release, TableStep
<1>6. ASSUME NEW i \in Items, NEW h \in Holders, Heartbeats(i, h)
      PROVE  TableStep
  BY <1>6 DEF Heartbeats, TableStep
<1>7. QED
  BY <1>1, <1>2, <1>3, <1>4, <1>5, <1>6 DEF Next, TableStep

------------------------------------------------------------------------------
(* What each table operation changes, as facts the later proofs cite.         *)

LEMMA RenewKeeps ==
  ASSUME IInv, NEW i \in Items, NEW h \in Holders, NEW cap \in BOOLEAN, Renew(i, h, cap)
  PROVE  /\ epoch' = epoch /\ token' = token /\ yield' = yield
         /\ lease' \in [Items -> Rows]
         /\ \A j \in Items : lease'[j].holder = lease[j].holder /\ lease'[j].epoch = lease[j].epoch
         /\ \A j \in Items : lease'[j].holder # Nobody /\ lease'[j].left > 0 <=> Live(j)
<1>1. lease' = [lease EXCEPT ![i] = [lease[i] EXCEPT !.left = Ttl, !.capacity = cap]]
  BY DEF Renew, IInv, TypeOK
<1>2. lease[i].holder = h /\ Live(i) /\ Held(i)
  BY DEF Renew, Live
<1>3. token[i][h] = lease[i].epoch
  BY <1>2 DEF IInv, HolderRemembers, RowIsNewestGrant
<1>4. token' = token
  BY <1>3 DEF Renew, IInv, TypeOK
<1>5. [lease[i] EXCEPT !.left = Ttl, !.capacity = cap] \in Rows
  <2>1. lease[i] \in Rows
    BY DEF IInv, TypeOK
  <2>2. Ttl \in 0..Ttl
    BY LeaseAssumption
  <2>3. QED
    BY <2>1, <2>2 DEF Rows
<1>6. QED
  BY <1>1, <1>2, <1>4, <1>5, LeaseAssumption DEF Renew, IInv, TypeOK, Rows, Live, Held

LEMMA TakeGives ==
  ASSUME IInv, NEW i \in Items, NEW h \in Holders, NEW cap \in BOOLEAN,
         NEW steal \in BOOLEAN, NEW from \in Tickets, Take(i, h, cap, steal, from)
  PROVE  /\ epoch' = [epoch EXCEPT ![i] = epoch[i] + 1]
         /\ lease' = [lease EXCEPT ![i] = NewRow(i, h, cap)]
         /\ NewRow(i, h, cap) \in Rows
         /\ token' = [token EXCEPT ![i] = [token[i] EXCEPT ![h] = epoch[i] + 1]]
         /\ TypeOK'
<1>1. NewRow(i, h, cap) \in Rows
  BY LeaseAssumption DEF NewRow, Rows, IInv, TypeOK
<1>2. token' = [token EXCEPT ![i] = [token[i] EXCEPT ![h] = epoch[i] + 1]]
  BY DEF Take, IInv, TypeOK
<1>3. yield' \in SUBSET Runs
  BY DEF Take, Flagged, IInv, TypeOK
<1>4. QED
  BY <1>1, <1>2, <1>3 DEF Take, IInv, TypeOK

LEMMA TickKeeps ==
  ASSUME IInv, Tick
  PROVE  /\ epoch' = epoch /\ token' = token /\ yield' = yield
         /\ lease' \in [Items -> Rows]
         /\ \A j \in Items : lease'[j].holder = lease[j].holder /\ lease'[j].epoch = lease[j].epoch
         /\ \A j \in Items : lease'[j].holder # Nobody /\ lease'[j].left > 0 => Live(j)
<1>1. ASSUME NEW j \in Items, Live(j)
      PROVE  [lease[j] EXCEPT !.left = @ - 1] \in Rows
  <2>1. lease[j] \in Rows
    BY DEF IInv, TypeOK
  <2>2. lease[j].left - 1 \in 0..Ttl
    BY <1>1, <2>1, LeaseAssumption DEF Live, Rows
  <2>3. QED
    BY <2>1, <2>2 DEF Rows
<1>2. QED
  BY <1>1 DEF Tick, IInv, TypeOK, Rows, Live, Held

LEMMA HeartbeatKeeps ==
  ASSUME IInv, NEW i \in Items, NEW h \in Holders, NEW e, heartbeat(i, h, e)
  PROVE  /\ epoch' = epoch /\ token' = token /\ yield' = yield
         /\ lease' \in [Items -> Rows]
         /\ \A j \in Items : lease'[j].holder = lease[j].holder /\ lease'[j].epoch = lease[j].epoch
         /\ lease[i].holder = h
         /\ \A j \in Items \ {i} : lease'[j] = lease[j]
         /\ lease'[i].left = Ttl
<1>1. lease' = [lease EXCEPT ![i] = [lease[i] EXCEPT !.left = Ttl]]
  BY DEF heartbeat, IInv, TypeOK
<1>2. [lease[i] EXCEPT !.left = Ttl] \in Rows
  <2>1. lease[i] \in Rows
    BY DEF IInv, TypeOK
  <2>2. Ttl \in 0..Ttl
    BY LeaseAssumption
  <2>3. QED
    BY <2>1, <2>2 DEF Rows
<1>3. QED
  BY <1>1, <1>2 DEF heartbeat, IInv, TypeOK, Rows

------------------------------------------------------------------------------
(* The inductive invariant, one lemma per table operation.                    *)

LEMMA InitIInv == Init => IInv
BY LeaseAssumption
   DEF Init, IInv, TypeOK, RowIsNewestGrant, TokensBounded, HolderRemembers, NewestIsUnique,
       Held, NoRow, Rows

(* A step that leaves the epochs, the tokens and every row's holder and epoch *)
(* alone cannot break the invariant.                                          *)
LEMMA SameGrants ==
  ASSUME IInv, epoch' = epoch, token' = token, yield' \in SUBSET Runs,
         lease' \in [Items -> Rows],
         \A j \in Items : lease'[j].holder = lease[j].holder /\ lease'[j].epoch = lease[j].epoch
  PROVE  IInv'
BY DEF IInv, TypeOK, RowIsNewestGrant, TokensBounded, HolderRemembers, NewestIsUnique, Held

LEMMA TakeIInv ==
  ASSUME IInv, NEW i \in Items, NEW h \in Holders, NEW cap \in BOOLEAN,
         NEW steal \in BOOLEAN, NEW from \in Tickets, Take(i, h, cap, steal, from)
  PROVE  IInv'
<1>1. TypeOK'
  BY TakeGives
<1>0. /\ epoch'[i] = epoch[i] + 1
      /\ lease'[i].holder = h /\ lease'[i].epoch = epoch[i] + 1
      /\ token'[i] = [token[i] EXCEPT ![h] = epoch[i] + 1]
      /\ \A j \in Items \ {i} : epoch'[j] = epoch[j] /\ lease'[j] = lease[j] /\ token'[j] = token[j]
  <2>1. /\ epoch' = [epoch EXCEPT ![i] = epoch[i] + 1]
        /\ lease' = [lease EXCEPT ![i] = NewRow(i, h, cap)]
        /\ token' = [token EXCEPT ![i] = [token[i] EXCEPT ![h] = epoch[i] + 1]]
    BY TakeGives
  <2>2. /\ epoch \in [Items -> Nat]
        /\ lease \in [Items -> Rows]
        /\ token \in [Items -> [Holders -> Nat]]
    BY DEF IInv, TypeOK
  <2>3. NewRow(i, h, cap).holder = h /\ NewRow(i, h, cap).epoch = epoch[i] + 1
    BY DEF NewRow
  <2>4. QED
    BY <2>1, <2>2, <2>3
<1>2. RowIsNewestGrant'
  BY <1>0 DEF IInv, RowIsNewestGrant, Held
<1>3. TokensBounded'
  <2>1. SUFFICES ASSUME NEW j \in Items, NEW g \in Holders
                 PROVE  token'[j][g] <= epoch'[j]
    BY DEF TokensBounded
  <2>2. CASE j # i
    BY <1>0, <2>2 DEF IInv, TokensBounded
  <2>3. CASE j = i
    <3>1. token[i][g] \in Nat /\ epoch[i] \in Nat /\ token[i][g] <= epoch[i]
      BY DEF IInv, TypeOK, TokensBounded
    <3>2. token'[i][g] = IF g = h THEN epoch[i] + 1 ELSE token[i][g]
      <4>1. token[i] \in [Holders -> Nat]
        BY DEF IInv, TypeOK
      <4>2. QED
        BY <1>0, <4>1
    <3>3. token'[i][g] <= epoch'[i]
      <4>1. epoch'[i] = epoch[i] + 1
        BY <1>0
      <4>2. QED
        BY <3>1, <3>2, <4>1
    <3>4. QED
      BY <2>3, <3>3
  <2>4. QED
    BY <2>2, <2>3
<1>4. HolderRemembers'
  <2>1. ASSUME NEW j \in Items, j # i, Held(j)'
        PROVE  epoch'[j] > 0 /\ token'[j][lease'[j].holder] = epoch'[j]
    BY <1>0, <2>1 DEF IInv, TypeOK, HolderRemembers, Held
  <2>2. epoch'[i] > 0 /\ token'[i][lease'[i].holder] = epoch'[i]
    BY <1>0 DEF IInv, TypeOK
  <2>3. QED
    BY <2>1, <2>2 DEF HolderRemembers
<1>5. NewestIsUnique'
  <2>1. SUFFICES ASSUME NEW j \in Items, NEW g \in Holders, NEW k \in Holders,
                        epoch'[j] > 0, token'[j][g] = epoch'[j], token'[j][k] = epoch'[j]
                 PROVE  g = k
    BY DEF NewestIsUnique
  <2>2. CASE j # i
    BY <1>0, <2>1, <2>2 DEF IInv, TypeOK, NewestIsUnique
  <2>3. CASE j = i
    <3>1. \A m \in Holders \ {h} : token'[i][m] <= epoch[i] /\ token'[i][m] \in Nat
      BY <1>0 DEF IInv, TypeOK, TokensBounded
    <3>2. epoch'[i] = epoch[i] + 1 /\ epoch[i] \in Nat
      BY <1>0 DEF IInv, TypeOK
    <3>3. QED
      BY <2>1, <2>3, <3>1, <3>2
  <2>4. QED
    BY <2>2, <2>3
<1>6. QED
  BY <1>1, <1>2, <1>3, <1>4, <1>5 DEF IInv

LEMMA DeleteIInv ==
  ASSUME IInv, NEW i \in Items, Delete(i)
  PROVE  IInv'
<1>1. NoRow \in Rows
  BY LeaseAssumption DEF NoRow, Rows
<1>2. lease' = [lease EXCEPT ![i] = NoRow] /\ epoch' = epoch /\ yield' = yield /\ token' = token
  BY DEF Delete
<1>3. QED
  BY <1>1, <1>2
     DEF IInv, TypeOK, RowIsNewestGrant, TokensBounded, HolderRemembers, NewestIsUnique, Held, NoRow

LEMMA RefusedIInv ==
  ASSUME IInv, NEW i \in Items, NEW h \in Holders, NEW cap \in BOOLEAN,
         NEW steal \in BOOLEAN, NEW from \in Tickets, RefusedForCapacity(i, h, cap, steal, from)
  PROVE  IInv' /\ epoch' = epoch /\ lease' = lease /\ token' = token
<1>1. epoch' = epoch /\ lease' = lease /\ token' = token /\ yield' \in SUBSET Runs
  BY DEF RefusedForCapacity, Flagged, IInv, TypeOK
<1>2. QED
  BY <1>1, SameGrants DEF IInv, TypeOK

LEMMA IndIInv == IInv /\ [Next]_leaseVars => IInv'
<1> SUFFICES ASSUME IInv, [Next]_leaseVars
             PROVE  IInv'
  OBVIOUS
<1>1. CASE UNCHANGED leaseVars
  BY <1>1, SameGrants DEF leaseVars, IInv, TypeOK
<1>2. ASSUME NEW i \in Items, NEW h \in Holders, NEW cap \in BOOLEAN, NEW steal \in BOOLEAN,
             NEW from \in Tickets, CallerClaim(i, h, cap, steal, from)
      PROVE  IInv'
  <2>1. CASE Renew(i, h, cap)
    BY <2>1, RenewKeeps, SameGrants DEF IInv, TypeOK
  <2>2. CASE Take(i, h, cap, steal, from)
    BY <2>2, TakeIInv
  <2>3. CASE RefusedForCapacity(i, h, cap, steal, from)
    BY <2>3, RefusedIInv
  <2>4. QED
    BY <1>2, <2>1, <2>2, <2>3 DEF CallerClaim, claim
<1>3. ASSUME NEW i \in Items, NEW h \in Holders, heartbeat(i, h, token[i][h])
      PROVE  IInv'
  BY <1>3, HeartbeatKeeps, SameGrants DEF IInv, TypeOK
<1>4. ASSUME NEW i \in Items, Delete(i)
      PROVE  IInv'
  BY <1>4, DeleteIInv
<1>5. CASE Tick
  BY <1>5, TickKeeps, SameGrants DEF IInv, TypeOK
<1>6. CASE Next
  <2>1. TableStep
    BY <1>6, NextIsTableStep DEF IInv
  <2>2. QED
    BY <2>1, <1>2, <1>3, <1>4, <1>5 DEF TableStep
<1>7. QED
  BY <1>1, <1>6

(* Every reachable state satisfies the strengthened invariant.                *)
THEOREM Invariance == Spec => []IInv
BY InitIInv, IndIInv, PTL DEF Spec

(* Type correctness of the lease table, the epochs and what callers remember. *)
THEOREM TypeCorrect == Spec => []TypeOK
<1>1. IInv => TypeOK
  BY DEF IInv
<1>2. QED
  BY <1>1, Invariance, PTL

(* The row of an item is always the newest grant ever made of it.             *)
THEOREM RowsAreNewest == Spec => []RowIsNewestGrant
<1>1. IInv => RowIsNewestGrant
  BY DEF IInv
<1>2. QED
  BY <1>1, Invariance, PTL

(* ledger.py's fencing rule: at most one process can pass lease_check with    *)
(* the token it remembers.                                                    *)
THEOREM Fencing == Spec => []OneWriter
<1>1. IInv => OneWriter
  <2> SUFFICES ASSUME IInv, NEW i \in Items, NEW g \in Holders, NEW h \in Holders,
                      lease_check(i, token[i][g]), lease_check(i, token[i][h])
               PROVE  g = h
    BY DEF OneWriter
  <2>1. Held(i) /\ token[i][g] = lease[i].epoch /\ token[i][h] = lease[i].epoch
    BY DEF lease_check, Live
  <2>2. epoch[i] > 0 /\ lease[i].epoch = epoch[i]
    BY <2>1 DEF IInv, HolderRemembers, RowIsNewestGrant
  <2>3. QED
    BY <2>1, <2>2 DEF IInv, NewestIsUnique
<1>2. QED
  BY <1>1, Invariance, PTL

------------------------------------------------------------------------------
(* Who can lose a live lease to whom.  Both action properties speak of an     *)
(* item whose row changes hands, which only Take does.                        *)

LEMMA ChangesHands ==
  ASSUME IInv, [Next]_leaseVars, NEW i \in Items, Live(i),
         lease'[i].holder \notin {lease[i].holder, Nobody}
  PROVE  \E h \in Holders, cap, steal \in BOOLEAN, from \in Tickets :
            /\ CallerClaim(i, h, cap, steal, from)
            /\ Take(i, h, cap, steal, from)
            /\ lease'[i].holder = h
            /\ lease[i].holder # h
            /\ GivesWay(i, h, steal, from)
<1>1. Next
  BY DEF leaseVars
<1>2. TableStep
  BY <1>1, NextIsTableStep DEF IInv
<1>3. ASSUME NEW k \in Items, NEW h \in Holders, NEW cap \in BOOLEAN, NEW steal \in BOOLEAN,
             NEW from \in Tickets, CallerClaim(k, h, cap, steal, from)
      PROVE  /\ k = i
             /\ Take(k, h, cap, steal, from)
             /\ lease'[i].holder = h /\ lease[i].holder # h /\ GivesWay(i, h, steal, from)
  <2>1. ~Renew(k, h, cap)
    BY RenewKeeps
  <2>2. ~RefusedForCapacity(k, h, cap, steal, from)
    BY RefusedIInv
  <2>3. Take(k, h, cap, steal, from)
    BY <1>3, <2>1, <2>2 DEF CallerClaim, claim
  <2>4. lease' = [lease EXCEPT ![k] = NewRow(k, h, cap)]
    BY <2>3 DEF Take
  <2>5. k = i /\ lease'[i].holder = h
    BY <2>4 DEF IInv, TypeOK, NewRow
  <2>6. QED
    BY <2>3, <2>5 DEF Take
<1>4. ASSUME NEW k \in Items, Delete(k)
      PROVE  lease'[i].holder \in {lease[i].holder, Nobody}
  BY <1>4 DEF Delete, IInv, TypeOK, NoRow
<1>5. ~(\E k \in Items, h \in Holders : heartbeat(k, h, token[k][h])) /\ ~Tick
  BY HeartbeatKeeps, TickKeeps
<1>6. QED
  BY <1>2, <1>3, <1>4, <1>5 DEF TableStep

(* ledger.py: "auto vs auto never succeeds": an autonomous holder receives a  *)
(* live item only from its holder, run to conductor or conductor to run, and  *)
(* never one a person holds.                                                  *)
THEOREM NoDoubleAssignment == Spec => DisplacedOnlyByHumanOrHandoff
<1>1. ASSUME IInv, [Next]_leaseVars, NEW i \in Items, Live(i),
             lease'[i].holder \notin {lease[i].holder, Nobody}
      PROVE  \/ lease'[i].holder \in Sessions
             \/ lease[i].holder \in Runs /\ lease'[i].holder = Conductor
             \/ lease[i].holder = Conductor /\ lease'[i].holder \in Runs
  <2>1. PICK h \in Holders, cap \in BOOLEAN, steal \in BOOLEAN, from \in Tickets :
            /\ CallerClaim(i, h, cap, steal, from)
            /\ lease'[i].holder = h
            /\ GivesWay(i, h, steal, from)
    BY <1>1, ChangesHands
  <2>2. CASE h \in Sessions
    BY <2>1, <2>2
  <2>3. CASE h \notin Sessions
    <3>1. lease[i].holder = from.holder
      BY <2>1, <2>3 DEF GivesWay, HandedOff, Preempts, Steals
    <3>2. lease[i].holder # Nobody
      BY <1>1 DEF Live, Held
    <3>3. QED
      BY <2>1, <2>3, <3>1, <3>2 DEF CallerClaim
  <2>4. QED
    BY <2>2, <2>3
<1>2. IInv /\ [Next]_leaseVars =>
        [\A i \in Items :
           Live(i) /\ lease'[i].holder \notin {lease[i].holder, Nobody}
             => \/ lease'[i].holder \in Sessions
                \/ lease[i].holder \in Runs /\ lease'[i].holder = Conductor
                \/ lease[i].holder = Conductor /\ lease'[i].holder \in Runs]_leaseVars
  BY <1>1
<1>3. QED
  BY <1>2, Invariance, PTL DEF Spec, DisplacedOnlyByHumanOrHandoff

(* A live run that a human displaces is always flagged to yield.              *)
THEOREM DisplacedRunsYield == Spec => DisplacedRunYields
<1>1. ASSUME IInv, [Next]_leaseVars, NEW i \in Items, Live(i),
             lease[i].holder \in Runs, lease'[i].holder \in Sessions
      PROVE  lease[i].holder \in yield'
  <2>1. lease'[i].holder \notin {lease[i].holder, Nobody}
    BY <1>1, LeaseAssumption DEF Holders
  <2>2. PICK h \in Holders, cap \in BOOLEAN, steal \in BOOLEAN, from \in Tickets :
            /\ CallerClaim(i, h, cap, steal, from)
            /\ Take(i, h, cap, steal, from)
            /\ lease'[i].holder = h
            /\ lease[i].holder # h
    BY <1>1, <2>1, ChangesHands
  <2>3. h \in Sessions /\ from.holder = Nobody
    BY <1>1, <2>2, LeaseAssumption DEF CallerClaim, Holders, Autos
  <2>4. Preempts(i, h) /\ ~HandedOff(i, from)
    BY <1>1, <2>3 DEF Preempts, HandedOff, Autos, Live, Held
  <2>5. yield' = yield \cup ({lease[i].holder} \cap Runs)
    BY <1>1, <2>2, <2>4 DEF Take, Flagged
  <2>6. QED
    BY <1>1, <2>5
<1>2. IInv /\ [Next]_leaseVars =>
        [\A i \in Items :
           Live(i) /\ lease[i].holder \in Runs /\ lease'[i].holder \in Sessions
             => lease[i].holder \in yield']_leaseVars
  BY <1>1
<1>3. QED
  BY <1>2, Invariance, PTL DEF Spec, DisplacedRunYields

------------------------------------------------------------------------------
(* What a token passes with, and what takes a slot.                           *)

(* Only a grant writes a new holder or epoch into a row: every other step     *)
(* leaves the row's grant as it is, or removes it.                            *)
LEMMA GrantOrSame ==
  ASSUME IInv, [Next]_leaseVars
  PROVE  \/ /\ epoch' = epoch
            /\ \A j \in Items : \/ lease'[j].holder = Nobody
                                \/ lease'[j].holder = lease[j].holder /\ lease'[j].epoch = lease[j].epoch
         \/ \E i \in Items, h \in Holders, cap, steal \in BOOLEAN, from \in Tickets :
               Take(i, h, cap, steal, from)
<1>1. CASE UNCHANGED leaseVars
  BY <1>1 DEF leaseVars
<1>2. ASSUME NEW i \in Items, NEW h \in Holders, NEW cap \in BOOLEAN, NEW steal \in BOOLEAN,
             NEW from \in Tickets, CallerClaim(i, h, cap, steal, from), ~Take(i, h, cap, steal, from)
      PROVE  epoch' = epoch /\ \A j \in Items : lease'[j].holder = lease[j].holder /\ lease'[j].epoch = lease[j].epoch
  <2>1. CASE Renew(i, h, cap)
    BY <2>1, RenewKeeps
  <2>2. CASE RefusedForCapacity(i, h, cap, steal, from)
    BY <2>2, RefusedIInv
  <2>3. QED
    BY <1>2, <2>1, <2>2 DEF CallerClaim, claim
<1>3. ASSUME NEW i \in Items, Delete(i)
      PROVE  epoch' = epoch /\ \A j \in Items : lease'[j].holder = Nobody \/ lease'[j] = lease[j]
  BY <1>3 DEF Delete, IInv, TypeOK, NoRow
<1>4. CASE Next
  BY <1>2, <1>3, <1>4, NextIsTableStep, HeartbeatKeeps, TickKeeps DEF TableStep, IInv
<1>5. QED
  BY <1>1, <1>4

LEMMA NothingComesBack ==
  ASSUME IInv, [Next]_leaseVars, NEW i \in Items, NEW h \in Holders, token'[i][h] = token[i][h],
         lease'[i].holder = h, lease'[i].epoch = token[i][h]
  PROVE  lease[i].holder = h /\ lease[i].epoch = token[i][h]
<1>1. h # Nobody
  BY LeaseAssumption
<1>2. ASSUME NEW k \in Items, NEW g \in Holders, NEW cap \in BOOLEAN, NEW steal \in BOOLEAN,
             NEW from \in Tickets, Take(k, g, cap, steal, from)
      PROVE  lease[i].holder = h /\ lease[i].epoch = token[i][h]
  <2>1. /\ lease' = [lease EXCEPT ![k] = NewRow(k, g, cap)]
        /\ token' = [token EXCEPT ![k] = [token[k] EXCEPT ![g] = epoch[k] + 1]]
    BY <1>2, TakeGives
  <2>2. lease \in [Items -> Rows] /\ token \in [Items -> [Holders -> Nat]] /\ epoch \in [Items -> Nat]
    BY DEF IInv, TypeOK
  <2>3. CASE k # i
    BY <2>1, <2>2, <2>3
  <2>4. CASE k = i
    <3>1. lease'[i].holder = g /\ lease'[i].epoch = epoch[i] + 1
      BY <2>1, <2>2, <2>4 DEF NewRow
    <3>2. token[i][h] <= epoch[i] /\ token[i][h] \in Nat /\ epoch[i] \in Nat
      BY <2>2 DEF IInv, TokensBounded
    <3>3. QED
      BY <3>1, <3>2
  <2>5. QED
    BY <2>3, <2>4
<1>3. QED
  BY <1>1, <1>2, GrantOrSame

(* A grant that takes a slot found one free, and takes only its own.          *)
LEMMA GrantFits ==
  ASSUME IInv, [Next]_leaseVars, NEW i \in Items, epoch'[i] # epoch[i], lease'[i].capacity
  PROVE  Cardinality({j \in Items : lease'[j].holder # Nobody /\ lease'[j].left > 0 /\ lease'[j].capacity})
           <= MaxParallel
<1>1. PICK k \in Items, h \in Holders, cap \in BOOLEAN, steal \in BOOLEAN, from \in Tickets :
         Take(k, h, cap, steal, from)
  BY GrantOrSame
<1>2. /\ epoch' = [epoch EXCEPT ![k] = epoch[k] + 1]
      /\ lease' = [lease EXCEPT ![k] = NewRow(k, h, cap)]
  BY <1>1, TakeGives
<1>3. epoch \in [Items -> Nat] /\ lease \in [Items -> Rows]
  BY DEF IInv, TypeOK
<1>4. k = i /\ cap
  BY <1>2, <1>3 DEF NewRow
<1>5. ~(Cardinality(Occupied(i)) >= MaxParallel)
  BY <1>1, <1>4 DEF Take, AtCapacity
<1> DEFINE Taken == {j \in Items : lease'[j].holder # Nobody /\ lease'[j].left > 0 /\ lease'[j].capacity}
<1>6. Taken \subseteq Occupied(i) \cup {i}
  BY <1>2, <1>3, <1>4 DEF Occupied, Live, Held
<1>7. Occupied(i) \subseteq Items /\ i \notin Occupied(i)
  BY DEF Occupied
<1> HIDE DEF Taken
<1>8. IsFiniteSet(Occupied(i))
  BY <1>7, LeaseAssumption, FS_Subset
<1>9. IsFiniteSet(Occupied(i) \cup {i}) /\ Cardinality(Occupied(i) \cup {i}) = Cardinality(Occupied(i)) + 1
  BY <1>7, <1>8, FS_AddElement
<1>10. Cardinality(Taken) <= Cardinality(Occupied(i) \cup {i}) /\ IsFiniteSet(Taken)
  BY <1>6, <1>9, FS_Subset
<1>11. Cardinality(Taken) \in Nat /\ Cardinality(Occupied(i)) \in Nat /\ MaxParallel \in Nat
  BY <1>8, <1>10, FS_CardinalityType, LeaseAssumption
<1>12. Cardinality(Taken) <= MaxParallel
  BY <1>5, <1>9, <1>10, <1>11
<1>13. QED
  BY <1>12 DEF Taken

(* A heartbeat brings back no lease that was taken away, and no grant takes    *)
(* more slots than max_parallel has (claim's capacity count).                  *)
THEOREM SlotsKept == Spec => SlotsAreKept
<1>1. IInv /\ [Next]_leaseVars =>
        [\A i \in Items, h \in Holders :
           /\ token'[i][h] = token[i][h]
           /\ Live(i)' /\ lease'[i].holder = h /\ lease'[i].epoch = token[i][h]
           => lease[i].holder = h /\ lease[i].epoch = token[i][h]]_leaseVars
  BY NothingComesBack
<1>2. IInv /\ [Next]_leaseVars =>
        [\A i \in Items :
           epoch'[i] # epoch[i] /\ lease'[i].capacity
             => Cardinality({j \in Items : lease'[j].holder # Nobody /\ lease'[j].left > 0
                                            /\ lease'[j].capacity}) <= MaxParallel]_leaseVars
  BY GrantFits
<1>3. QED
  BY <1>1, <1>2, Invariance, PTL DEF Spec, SlotsAreKept, NoResurrection, GrantsStayWithinCapacity

------------------------------------------------------------------------------
(* The rows and the clock implement Fence.                                    *)

HolderBar == [i \in Items |-> lease[i].holder]

LEMMA StepRefines ==
  ASSUME IInv, [Next]_leaseVars
  PROVE  [F!FenceNext]_(F!fenceVars)
<1> USE DEF F!fenceVars
<1>a. \A i \in Items : Standing[i] = IF ~Held(i) THEN "free" ELSE IF Live(i) THEN "held" ELSE "lapsed"
  BY DEF Standing
<1>b. \A i \in Items : Standing'[i] = IF ~Held(i)' THEN "free" ELSE IF Live(i)' THEN "held" ELSE "lapsed"
  BY DEF Standing
<1>c. F!Holders = Holders /\ F!Autos = Autos
  BY DEF F!Holders, F!Autos, Holders, Autos
<1>1. CASE UNCHANGED leaseVars
  BY <1>1 DEF leaseVars, Standing, Held, Live
<1>2. ASSUME NEW i \in Items, NEW h \in Holders, NEW cap \in BOOLEAN, NEW steal \in BOOLEAN,
             NEW from \in Tickets, CallerClaim(i, h, cap, steal, from)
      PROVE  [F!FenceNext]_(F!fenceVars)
  <2>1. CASE Renew(i, h, cap)
    <3>1. HolderBar' = HolderBar /\ epoch' = epoch
      BY <2>1, RenewKeeps DEF HolderBar
    <3>2. Standing' = Standing
      BY <2>1, RenewKeeps DEF Standing, Held, Live
    <3>3. QED
      BY <3>1, <3>2 DEF HolderBar
  <2>2. CASE RefusedForCapacity(i, h, cap, steal, from)
    BY <2>2, RefusedIInv DEF Standing, Held, Live
  <2>3. CASE Take(i, h, cap, steal, from)
    <3>1. /\ epoch' = [epoch EXCEPT ![i] = epoch[i] + 1]
          /\ lease' = [lease EXCEPT ![i] = NewRow(i, h, cap)]
      BY <2>3, TakeGives
    <3>2. HolderBar' = [HolderBar EXCEPT ![i] = h]
      BY <3>1 DEF HolderBar, NewRow, IInv, TypeOK
    <3>3. Standing' = [Standing EXCEPT ![i] = "held"]
      <4>1. \A j \in Items \ {i} : lease'[j] = lease[j]
        BY <3>1 DEF IInv, TypeOK
      <4>2. lease'[i].holder = h /\ lease'[i].left = Ttl
        BY <3>1 DEF NewRow, IInv, TypeOK
      <4>3. Held(i)' /\ Live(i)'
        BY <4>2, LeaseAssumption DEF Held, Live
      <4>4. Standing'[i] = "held" /\ \A j \in Items \ {i} : Standing'[j] = Standing[j]
        BY <1>a, <1>b, <4>1, <4>3 DEF Held, Live
      <4>5. QED
        BY <4>4 DEF Standing
    <3>4. \/ Standing[i] # "held"
          \/ lease[i].holder # h /\ F!MayDisplace(i, h, steal, from.holder)
      BY <2>3, <1>a, <1>c
         DEF Take, GivesWay, HandedOff, Preempts, Steals, F!MayDisplace, Live
    <3>5. F!Grant(i, h, steal, from.holder)
      BY <3>1, <3>2, <3>3, <3>4 DEF F!Grant, HolderBar
    <3>6. from.holder \in Holders \cup {Nobody}
      BY DEF Tickets
    <3>7. QED
      BY <1>c, <3>5, <3>6 DEF F!FenceNext
  <2>4. QED
    BY <1>2, <2>1, <2>2, <2>3 DEF CallerClaim, claim
<1>3. ASSUME NEW i \in Items, NEW h \in Holders, heartbeat(i, h, token[i][h])
      PROVE  [F!FenceNext]_(F!fenceVars)
  <2>1. HolderBar' = HolderBar /\ epoch' = epoch
    BY <1>3, HeartbeatKeeps DEF HolderBar
  <2>2. Held(i) /\ Standing' = [Standing EXCEPT ![i] = "held"]
    <3>1. \A j \in Items \ {i} : lease'[j] = lease[j]
      BY <1>3, HeartbeatKeeps
    <3>2. lease[i].holder = h /\ lease'[i].holder = h /\ lease'[i].left = Ttl
      BY <1>3, HeartbeatKeeps
    <3>3. h # Nobody /\ Held(i) /\ Held(i)' /\ Live(i)'
      BY <3>2, LeaseAssumption DEF Held, Live
    <3>4. Standing'[i] = "held" /\ \A j \in Items \ {i} : Standing'[j] = Standing[j]
      BY <1>a, <1>b, <3>1, <3>3 DEF Held, Live
    <3>5. QED
      BY <3>3, <3>4 DEF Standing
  <2>3. CASE Standing[i] = "lapsed"
    BY <2>1, <2>2, <2>3 DEF F!FenceNext, F!Revive, HolderBar
  <2>4. CASE Standing[i] = "held"
    <3>1. Standing' = Standing
      BY <2>2, <2>4 DEF Standing
    <3>2. QED
      BY <2>1, <3>1 DEF HolderBar
  <2>5. QED
    BY <2>2, <2>3, <2>4, <1>a
<1>4. ASSUME NEW i \in Items, Held(i), Delete(i)
      PROVE  [F!FenceNext]_(F!fenceVars)
  <2>1. lease' = [lease EXCEPT ![i] = NoRow] /\ epoch' = epoch
    BY <1>4 DEF Delete
  <2>2. HolderBar' = [HolderBar EXCEPT ![i] = Nobody]
    BY <2>1 DEF HolderBar, NoRow, IInv, TypeOK
  <2>3. Standing' = [Standing EXCEPT ![i] = "free"]
    BY <2>1 DEF Standing, Held, Live, NoRow, IInv, TypeOK
  <2>4. Standing[i] # "free"
    BY <1>4, <1>a
  <2>5. QED
    BY <2>1, <2>2, <2>3, <2>4 DEF F!FenceNext, F!GiveUp, HolderBar
<1>5. CASE Tick
  <2> DEFINE S == {i \in Items : Standing[i] = "held" /\ Standing'[i] # "held"}
  <2>1. HolderBar' = HolderBar /\ epoch' = epoch
    BY <1>5, TickKeeps DEF HolderBar
  <2>2. Standing' = [i \in Items |-> IF i \in S THEN "lapsed" ELSE Standing[i]]
    <3>1. \A i \in Items : (Held(i)' <=> Held(i)) /\ (Live(i)' => Live(i))
      BY <1>5, TickKeeps DEF Held, Live
    <3>2. \A i \in Items : Standing'[i] = IF i \in S THEN "lapsed" ELSE Standing[i]
      BY <1>a, <1>b, <3>1
    <3>3. QED
      BY <3>2 DEF Standing
  <2>3. F!Lapse(S)
    BY <2>1, <2>2 DEF F!Lapse, HolderBar
  <2>4. QED
    BY <2>3 DEF F!FenceNext
<1>6. CASE Next
  <2>1. TableStep
    BY <1>6, NextIsTableStep DEF IInv
  <2>2. QED
    BY <2>1, <1>2, <1>3, <1>4, <1>5 DEF TableStep
<1>7. QED
  BY <1>1, <1>6

(* The lease table implements the fencing promise: initial states map to      *)
(* initial states, and every step to a step of Fence or to a stutter.         *)
THEOREM Refinement == Spec => ImplementsFence
<1>1. Init => F!FenceInit
  BY DEF Init, F!FenceInit, Standing, Held, NoRow
<1>2. IInv /\ [Next]_leaseVars => [F!FenceNext]_(F!fenceVars)
  BY StepRefines
<1>3. QED
  BY <1>1, <1>2, Invariance, PTL DEF Spec, ImplementsFence, F!FenceSpec

------------------------------------------------------------------------------
(* The discussion.                                                            *)

(* A fresh intent: the call whose write has not been sent.                    *)
Unsent(t) == tool[t].step \in {"intent", "cleared"}

(* A write is sent only from a fresh intent, an intent is fresh once, and one *)
(* engine has it.                                                             *)
Intent ==
  /\ \A k \in Keys : landed[k] + flying[k] <= 1
  /\ \A k \in Keys : op[k] = "none" => landed[k] + flying[k] = 0
  /\ \A t \in Turns : Unsent(t) =>
       op[tool[t].key] # "none" /\ landed[tool[t].key] + flying[tool[t].key] = 0
  /\ \A t, u \in Turns : Unsent(t) /\ Unsent(u) /\ tool[t].key = tool[u].key => t = u

(* Whoever says a write is there has seen it.                                 *)
Seen ==
  /\ \A t \in Turns : tool[t].step = "sure" => landed[tool[t].key] > 0
  /\ NoFalseReceipt

(* An engine that holds the lock lives only beside the worker that watches it *)
(* or after that worker's death, and its turn is running as long as it lives. *)
Lock ==
  /\ worker \in {"claimed", "spawned", "watching"} =>
       on # 0 /\ turn[on].status = "running"
  /\ worker \in {"spawned", "watching"} => engine = on
  /\ worker \in {"idle", "chosen", "claimed", "replied", "failed", "reporting"} => engine = 0
  /\ worker \in {"chosen", "replied", "failed", "reporting"} => on # 0
  /\ worker \in {"idle", "down", "dead", "abandoned", "off"} => on = 0
  /\ engine # 0 => turn[engine].status = "running"

TurnsIInv == DiscussionTypeOK /\ Intent /\ Seen /\ Lock

-----------------------------------------------------------------------------
(* The rows a completion and a recovery write.                                *)
LEMMA ActiveRows ==
  ASSUME DiscussionTypeOK, NEW t \in Turns, Active(t)
  PROVE  /\ turn[t] \in TurnRows \ {NoTurn}
         /\ turn[t].session \in ChatSessions
<1>1. turn[t] \in TurnRows
  BY DEF DiscussionTypeOK
<1>2. turn[t] # NoTurn
  BY DEF Active, NoTurn
<1>3. QED
  BY <1>1, <1>2 DEF TurnRows

LEMMA FinishedIsARow ==
  ASSUME DiscussionTypeOK, NEW t \in Turns, Active(t), NEW status \in {"success", "error"}
  PROVE  /\ Finished(t, status) \in TurnRows
         /\ Finished(t, status).status = status
         /\ Finished(t, status).receipts = chat_receipts(t)
<1>1. turn[t] \in TurnRows \ {NoTurn}
  BY ActiveRows
<1>2. chat_receipts(t) \in SUBSET Keys
  BY DEF chat_receipts
<1>3. QED
  BY <1>1, <1>2 DEF Finished, TurnRows

LEMMA RecoveryKeepsRows ==
  ASSUME DiscussionTypeOK, NEW all \in BOOLEAN, recover_chat_turns(all)
  PROVE  /\ turn' \in [Turns -> TurnRows]
         /\ \A t \in Turns : \/ turn'[t] = turn[t]
                             \/ turn'[t].status = "error" /\ turn'[t].receipts = chat_receipts(t)
<1>1. \A t \in Turns : turn[t] \in TurnRows
  BY DEF DiscussionTypeOK
<1>2. \A t \in Recoverable(all) : Active(t) /\ Finished(t, "error") \in TurnRows
  BY FinishedIsARow DEF Recoverable
<1>3. turn' \in [Turns -> TurnRows]
  BY <1>1, <1>2 DEF recover_chat_turns
<1>4. ASSUME NEW t \in Turns
      PROVE  turn'[t] = turn[t]
             \/ (turn'[t].status = "error" /\ turn'[t].receipts = chat_receipts(t))
  <2>1. turn'[t] = IF t \in Recoverable(all) THEN Finished(t, "error") ELSE turn[t]
    BY DEF recover_chat_turns
  <2>2. QED
    BY <1>2, <2>1, FinishedIsARow
<1>5. QED
  BY <1>3, <1>4

LEMMA OneRowChanges ==
  ASSUME DiscussionTypeOK, NEW t \in Turns, NEW row \in TurnRows, turn' = [turn EXCEPT ![t] = row]
  PROVE  /\ turn' \in [Turns -> TurnRows]
         /\ \A u \in Turns : turn'[u] = IF u = t THEN row ELSE turn[u]
BY DEF DiscussionTypeOK

(* The three ways a turn changes that end no turn.                            *)
LEMMA AcceptanceKeepsTurns ==
  ASSUME DiscussionTypeOK, NEW s \in ChatSessions, NEW r \in Requests, submit_chat_turn(s, r)
  PROVE  /\ turn' \in [Turns -> TurnRows]
         /\ \A t \in Turns : /\ turn'[t].receipts \in {turn[t].receipts, {}}
                             /\ turn[t].status = "running" => turn'[t].status = "running"
<1> DEFINE new == [NoTurn EXCEPT !.status = "queued", !.session = s, !.request = r]
<1>1. new \in TurnRows /\ new.receipts = {}
  BY DEF NoTurn, TurnRows
<1>2. PICK t \in Free : turn' = [turn EXCEPT ![t] = new]
  BY DEF submit_chat_turn
<1>3. t \in Turns /\ turn[t].status = "none"
  BY <1>2 DEF Free
<1> HIDE DEF new
<1>4. QED
  BY <1>1, <1>2, <1>3, OneRowChanges

LEMMA TimeKeepsTurns ==
  ASSUME DiscussionTypeOK, NEW t \in Turns, GoesLate(t) \/ GoesSilent(t)
  PROVE  /\ turn' \in [Turns -> TurnRows]
         /\ \A u \in Turns : /\ turn'[u].receipts = turn[u].receipts
                             /\ turn'[u].status = turn[u].status
<1> DEFINE row == IF GoesLate(t) THEN [turn[t] EXCEPT !.late = TRUE]
                                 ELSE [turn[t] EXCEPT !.silent = TRUE]
<1>1. turn[t] \in TurnRows \ {NoTurn}
  BY ActiveRows DEF GoesLate, GoesSilent, Active
<1>2. /\ row \in TurnRows
      /\ row.receipts = turn[t].receipts
      /\ row.status = turn[t].status
  BY <1>1 DEF TurnRows
<1>3. turn' = [turn EXCEPT ![t] = row]
  BY DEF GoesLate, GoesSilent, DiscussionTypeOK
<1> HIDE DEF row
<1>4. QED
  BY <1>2, <1>3, OneRowChanges

LEMMA ClaimStartsATurn ==
  ASSUME DiscussionTypeOK, on \in Turns, Active(on), turn' = [turn EXCEPT ![on].status = "running"]
  PROVE  /\ turn' \in [Turns -> TurnRows]
         /\ \A u \in Turns : turn'[u].receipts = turn[u].receipts
         /\ turn'[on].status = "running"
<1> DEFINE row == [turn[on] EXCEPT !.status = "running"]
<1>1. turn[on] \in TurnRows \ {NoTurn}
  BY ActiveRows
<1>2. row \in TurnRows /\ row.receipts = turn[on].receipts /\ row.status = "running"
  BY <1>1 DEF TurnRows
<1>3. turn' = [turn EXCEPT ![on] = row]
  BY DEF DiscussionTypeOK
<1> HIDE DEF row
<1>4. QED
  BY <1>2, <1>3, OneRowChanges

LEMMA CompletionEndsATurn ==
  ASSUME DiscussionTypeOK, on \in Turns, Active(on), NEW status \in {"success", "error"}, complete_chat_turn(status)
  PROVE  /\ turn' \in [Turns -> TurnRows]
         /\ \A u \in Turns : turn'[u].receipts \in {turn[u].receipts, chat_receipts(u)}
<1> DEFINE row == Finished(on, status)
<1>1. row \in TurnRows /\ row.receipts = chat_receipts(on)
  BY FinishedIsARow
<1>2. turn' = [turn EXCEPT ![on] = row]
  BY DEF complete_chat_turn
<1> HIDE DEF row
<1>3. QED
  BY <1>1, <1>2, OneRowChanges

(* What any step does to the turns' rows.                                     *)
LEMMA TurnSteps ==
  ASSUME DiscussionTypeOK, Lock, DiscussionNext
  PROVE  /\ turn' \in [Turns -> TurnRows]
         /\ \A t \in Turns :
              turn'[t].receipts \in {turn[t].receipts, {}, chat_receipts(t)}
<1> DEFINE Goal == /\ turn' \in [Turns -> TurnRows]
                   /\ \A t \in Turns :
                        turn'[t].receipts \in {turn[t].receipts, {}, chat_receipts(t)}
<1>1. CASE UNCHANGED turn
  BY <1>1 DEF DiscussionTypeOK
<1>2. CASE recover_chat_turns(TRUE) \/ recover_chat_turns(FALSE)
  BY <1>2, RecoveryKeepsRows
<1>3. CASE \E s \in ChatSessions, r \in Requests : submit_chat_turn(s, r)
  BY <1>3, AcceptanceKeepsTurns
<1>4. CASE \E t \in Turns : GoesLate(t) \/ GoesSilent(t)
  BY <1>4, TimeKeepsTurns
<1>5. CASE claim_chat_turn
  <2>1. on \in Turns
    BY <1>5 DEF claim_chat_turn, At, Lock, DiscussionTypeOK
  <2>2. CASE recover_chat_turns(FALSE)
    BY <2>2, <1>2
  <2>3. CASE Active(on) /\ turn' = [turn EXCEPT ![on].status = "running"]
    BY <2>1, <2>3, ClaimStartsATurn
  <2>4. QED
    BY <1>5, <2>2, <2>3 DEF claim_chat_turn, Active
<1>6. CASE Replies \/ Reports
  <2>1. on \in Turns
    BY <1>6 DEF Replies, Reports, At, Moves, Lock, DiscussionTypeOK
  <2>2. CASE Active(on) /\ (complete_chat_turn("success") \/ complete_chat_turn("error"))
    BY <2>1, <2>2, CompletionEndsATurn
  <2>3. QED
    BY <1>6, <2>2, <1>1 DEF Replies, Reports, check_chat_worker, Active
<1>7. CASE Worker
  BY <1>1, <1>2, <1>5, <1>6, <1>7
     DEF Worker, Polls, EngineStarts, EngineIsNoted, EngineEnds, PreparationFails, Fails, rowVars
<1>8. CASE Supervisor
  BY <1>1, <1>2, <1>8
     DEF Supervisor, WorkerStarts, WorkerIsRefused, Supervises, ConsoleStarts, rowVars
<1>9. CASE _mutate
  BY <1>1, <1>9 DEF _mutate, begin_chat_mutation, _check_binding, Sends, Hears, _reconcile,
                    confirm_chat_mutation, toolUnchanged
<1>10. CASE WorkerDies \/ OrphanEnds \/ ConsoleStops
  BY <1>1, <1>2, <1>10 DEF WorkerDies, OrphanEnds, ConsoleStops, StopsCleanly, StrandsTheEngine,
                           StopsAlone, rowVars
<1>11. CASE \E k \in Keys : Lands(k) \/ IsLost(k)
  BY <1>1, <1>11 DEF Lands, IsLost, rowVars
<1>12. QED
  BY <1>3, <1>4, <1>7, <1>8, <1>9, <1>10, <1>11 DEF DiscussionNext

-----------------------------------------------------------------------------
(* What a step does to the tool calls: nothing, an engine's call goes with it *)
(* or, in a call of its own, moves.                                           *)
CallOf(t) == tool[t] \in ToolCalls /\ tool[t].key \in Keys

LEMMA CallsAreCalls ==
  ASSUME DiscussionTypeOK, NEW t \in Turns, tool[t].step # "idle"
  PROVE  CallOf(t)
BY DEF DiscussionTypeOK, NoCall, ToolCalls, CallOf

LEMMA OneCallChanges ==
  ASSUME DiscussionTypeOK, NEW e \in Turns, NEW call \in ToolCalls \cup {NoCall},
         tool' = [tool EXCEPT ![e] = call]
  PROVE  /\ tool' \in [Turns -> ToolCalls \cup {NoCall}]
         /\ \A t \in Turns : tool'[t] = IF t = e THEN call ELSE tool[t]
BY DEF DiscussionTypeOK

(* A call of a living engine, step by step.                                   *)
Call(place, k) == [step |-> place, key |-> k]

LEMMA MutationSteps ==
  ASSUME DiscussionTypeOK, _mutate
  PROVE  \E e \in Turns \cap Living :
           \/ \E o \in Ops : begin_chat_mutation(e, o)
           \/ _check_binding(e) \/ Sends(e) \/ Hears(e) \/ _reconcile(e) \/ confirm_chat_mutation(e)
<1>1. Living \subseteq Turns
  BY DEF DiscussionTypeOK, Living
<1>2. QED
  BY <1>1 DEF _mutate

LEMMA BeginsOn ==
  ASSUME DiscussionTypeOK, NEW e \in Turns, NEW o \in Ops, begin_chat_mutation(e, o)
  PROVE  \E k \in Keys :
           /\ linked' = linked \cup LinkOf(e, k) /\ LinkOf(e, k) \subseteq Turns \X Keys
           /\ \/ /\ op[k] = "none" /\ op' = [op EXCEPT ![k] = "uncertain"]
                 /\ tool' = [tool EXCEPT ![e] = Call("intent", k)]
              \/ op' = op /\ tool' = [tool EXCEPT ![e] = Call("lookup", k)]
              \/ op' = op /\ tool' = tool
<1> DEFINE k == <<turn[e].session, o>>
<1>1. turn[e].session \in ChatSessions
  BY ActiveRows DEF begin_chat_mutation, check_chat_worker, Active
<1>2. k \in Keys
  BY <1>1 DEF Keys
<1>3. LinkOf(e, k) \subseteq Turns \X Keys
  BY <1>2 DEF LinkOf
<1>4. /\ linked' = linked \cup LinkOf(e, k)
      /\ \/ /\ op[k] = "none" /\ op' = [op EXCEPT ![k] = "uncertain"]
            /\ tool' = [tool EXCEPT ![e] = Call("intent", k)]
         \/ op' = op /\ tool' = [tool EXCEPT ![e] = Call("lookup", k)]
         \/ op' = op /\ tool' = tool
  BY DEF begin_chat_mutation, Tool, Call
<1> HIDE DEF k
<1>5. QED
  BY <1>2, <1>3, <1>4

(* The call that e's engine has after a step of its own, and on what.         *)
LEMMA CallMoves ==
  ASSUME DiscussionTypeOK, NEW e \in Turns,
         _check_binding(e) \/ Sends(e) \/ Hears(e) \/ _reconcile(e) \/ confirm_chat_mutation(e)
  PROVE  /\ CallOf(e)
         /\ \E call \in ToolCalls \cup {NoCall} : tool' = [tool EXCEPT ![e] = call]
<1>1. CallOf(e)
  BY CallsAreCalls DEF _check_binding, Sends, Hears, _reconcile, confirm_chat_mutation
<1>2. \A place \in {"cleared", "asked", "lookup", "sure"} : [step |-> place, key |-> tool[e].key] \in ToolCalls
  BY <1>1 DEF CallOf, ToolCalls
<1>3. QED
  BY <1>1, <1>2 DEF _check_binding, Sends, Hears, _reconcile, confirm_chat_mutation, Tool, CallEnds

LEMMA TypeOKStep ==
  ASSUME DiscussionTypeOK, Lock, DiscussionNext
  PROVE  DiscussionTypeOK'
<1>1. turn' \in [Turns -> TurnRows]
  BY TurnSteps
<1> DEFINE Rest == /\ op \in [Keys -> {"none", "uncertain", "confirmed"}]
                   /\ linked \subseteq Turns \X Keys
                   /\ wrote \subseteq Turns \X Keys
           Procs == /\ worker \in {"down", "idle", "chosen", "claimed", "spawned", "watching",
                                   "replied", "failed", "reporting", "dead", "abandoned", "off"}
                    /\ on \in Turns \cup {0} /\ engine \in Turns \cup {0}
                    /\ noted \in BOOLEAN
                    /\ failures \in Nat
                    /\ deaths \in 0..MaxDeaths /\ stops \in 0..MaxStops
                    /\ strays \subseteq Turns
           Calls == /\ tool \in [Turns -> ToolCalls \cup {NoCall}]
                    /\ \A t \in Turns \ Living : tool[t] = NoCall
           Hub == flying \in [Keys -> Nat] /\ landed \in [Keys -> Nat]
<1>2. Rest /\ Procs /\ Calls /\ Hub
  BY DEF DiscussionTypeOK
<1>3. SUFFICES Rest' /\ Procs' /\ Calls' /\ Hub'
  BY <1>1 DEF DiscussionTypeOK
<1>a. ASSUME UNCHANGED <<tool, engine, strays>>
      PROVE  Calls'
  BY <1>2, <1>a DEF Living
<1>b. ASSUME EngineGone, strays' = strays
      PROVE  Calls'
  <2>1. tool' \in [Turns -> ToolCalls \cup {NoCall}]
    BY <1>2, <1>b DEF EngineGone
  <2>2. \A t \in Turns : tool'[t] = IF t = engine THEN NoCall ELSE tool[t]
    BY <1>b DEF EngineGone
  <2>3. \A t \in Turns \ Living' : t = engine \/ t \notin Living
    BY <1>b DEF EngineGone, Living
  <2>4. QED
    BY <1>2, <2>1, <2>2, <2>3
<1>4. CASE \E s \in ChatSessions, r \in Requests : submit_chat_turn(s, r)
  BY <1>2, <1>4, <1>a DEF submit_chat_turn, procVars, hubVars, boundVars
<1>5. CASE \E t \in Turns : GoesLate(t) \/ GoesSilent(t)
  BY <1>2, <1>5, <1>a DEF GoesLate, GoesSilent, procVars, hubVars, boundVars
<1> HIDE DEF Calls
<1>6. CASE Worker
  <2>1. CASE Polls
    BY <1>2, <1>a, <2>1 DEF Polls, hubVars, boundVars
  <2>2. CASE claim_chat_turn
    BY <1>2, <1>a, <2>2 DEF claim_chat_turn, hubVars, boundVars
  <2>3. CASE EngineStarts
    <3>1. on # 0 /\ engine = 0
      BY <2>3 DEF EngineStarts, Moves, Lock
    <3>2. Calls'
      BY <1>2, <2>3, <3>1 DEF EngineStarts, Living, Calls
    <3>3. QED
      BY <1>2, <2>3, <3>1, <3>2 DEF EngineStarts, Moves, rowVars, hubVars, boundVars
  <2>4. CASE EngineIsNoted
    BY <1>2, <1>a, <2>4 DEF EngineIsNoted, Moves, rowVars, hubVars, boundVars
  <2>5. CASE EngineEnds
    BY <1>2, <1>b, <2>5 DEF EngineEnds, EngineGone, rowVars, hubVars, boundVars
  <2>6. CASE PreparationFails
    BY <1>2, <1>a, <2>6 DEF PreparationFails, Moves, rowVars, hubVars, boundVars
  <2>7. CASE Replies
    BY <1>2, <1>a, <2>7 DEF Replies, hubVars, boundVars
  <2>8. CASE Fails
    BY <1>2, <1>a, <2>8 DEF Fails, hubVars, boundVars
  <2>9. CASE Reports
    BY <1>2, <1>a, <2>9 DEF Reports, Moves, hubVars, boundVars
  <2>10. QED
    BY <1>6, <2>1, <2>2, <2>3, <2>4, <2>5, <2>6, <2>7, <2>8, <2>9 DEF Worker
<1>7. CASE Supervisor
  <2>1. CASE WorkerStarts \/ WorkerIsRefused
    BY <1>2, <1>a, <2>1 DEF WorkerStarts, WorkerIsRefused, Moves, rowVars, hubVars, boundVars
  <2>2. CASE ConsoleStarts
    BY <1>2, <1>a, <2>2 DEF ConsoleStarts, Moves, rowVars, hubVars, boundVars
  <2>4. CASE Supervises
    <3>1. strays' = strays /\ (EngineGone \/ UNCHANGED <<engine, noted, strays, tool>>)
      BY <2>4 DEF Supervises
    <3>2. worker' \in {"abandoned", "down"} /\ failures' = failures + 1
      BY <2>4 DEF Supervises
    <3>3. Calls' /\ engine' \in Turns \cup {0} /\ noted' \in BOOLEAN
      BY <1>2, <1>a, <1>b, <3>1 DEF EngineGone
    <3>4. Rest' /\ Hub' /\ UNCHANGED <<on, deaths, stops>>
      BY <1>2, <2>4 DEF Supervises, rowVars, hubVars, boundVars
    <3>5. QED
      BY <1>2, <3>1, <3>2, <3>3, <3>4
  <2>3. QED
    BY <1>7, <2>1, <2>2, <2>4 DEF Supervisor
<1>8. CASE _mutate
  <2>1. PICK e \in Turns \cap Living :
           \/ \E o \in Ops : begin_chat_mutation(e, o)
           \/ _check_binding(e) \/ Sends(e) \/ Hears(e) \/ _reconcile(e) \/ confirm_chat_mutation(e)
    BY <1>8, MutationSteps
  <2>2. Procs' /\ Living' = Living
    BY <1>2, <2>1 DEF begin_chat_mutation, _check_binding, Sends, Hears, _reconcile,
                      confirm_chat_mutation, toolUnchanged, boundVars, Living
  <2>3. ASSUME NEW call \in ToolCalls \cup {NoCall}, tool' = [tool EXCEPT ![e] = call]
        PROVE  Calls'
    <3>1. /\ tool' \in [Turns -> ToolCalls \cup {NoCall}]
          /\ \A t \in Turns : tool'[t] = IF t = e THEN call ELSE tool[t]
      BY <2>3, OneCallChanges
    <3>2. QED
      BY <1>2, <2>1, <2>2, <3>1 DEF Calls
  <2>4. ASSUME NEW o \in Ops, begin_chat_mutation(e, o)
        PROVE  Rest' /\ Calls' /\ Hub'
    <3>1. PICK k \in Keys :
            /\ linked' = linked \cup LinkOf(e, k) /\ LinkOf(e, k) \subseteq Turns \X Keys
            /\ \/ op' = [op EXCEPT ![k] = "uncertain"] /\ tool' = [tool EXCEPT ![e] = Call("intent", k)]
               \/ op' = op /\ tool' = [tool EXCEPT ![e] = Call("lookup", k)]
               \/ op' = op /\ tool' = tool
      BY <2>4, BeginsOn
    <3>2. UNCHANGED <<flying, landed, wrote, engine, strays>>
      BY <2>4 DEF begin_chat_mutation, toolUnchanged, hubVars
    <3>3. Call("intent", k) \in ToolCalls /\ Call("lookup", k) \in ToolCalls
      BY DEF Call, ToolCalls
    <3>4. Calls'
      BY <1>a, <2>3, <3>1, <3>2, <3>3
    <3>5. Rest'
      BY <1>2, <3>1, <3>2
    <3>6. QED
      BY <1>2, <3>2, <3>4, <3>5
  <2>5. CASE _check_binding(e) \/ Sends(e) \/ Hears(e) \/ _reconcile(e) \/ confirm_chat_mutation(e)
    <3>1. CallOf(e)
      BY <2>1, <2>5, CallMoves
    <3>2. Calls'
      <4>1. \E call \in ToolCalls \cup {NoCall} : tool' = [tool EXCEPT ![e] = call]
        BY <2>1, <2>5, CallMoves
      <4>2. QED
        BY <2>3, <4>1
    <3>3. linked' = linked /\ landed' = landed
      BY <2>5 DEF _check_binding, Sends, Hears, _reconcile, confirm_chat_mutation, hubVars
    <3>4. op' = op \/ op' = [op EXCEPT ![tool[e].key] = "confirmed"]
      BY <2>5 DEF _check_binding, Sends, Hears, _reconcile, confirm_chat_mutation
    <3>5. wrote' = wrote \/ wrote' = wrote \cup {<<e, tool[e].key>>}
      BY <2>5 DEF _check_binding, Sends, Hears, _reconcile, confirm_chat_mutation
    <3>6. flying' = flying \/ flying' = [flying EXCEPT ![tool[e].key] = @ + 1]
      BY <2>5 DEF _check_binding, Sends, Hears, _reconcile, confirm_chat_mutation, hubVars
    <3>7. Rest' /\ Hub'
      BY <1>2, <2>1, <3>1, <3>3, <3>4, <3>5, <3>6 DEF CallOf
    <3>8. QED
      BY <2>2, <3>2, <3>7
  <2>6. QED
    BY <2>1, <2>2, <2>4, <2>5
<1>9. CASE WorkerDies \/ OrphanEnds
  <2>1. CASE WorkerDies
    BY <1>2, <1>a, <2>1, DiscussionAssumption DEF WorkerDies, rowVars, hubVars
  <2>2. CASE OrphanEnds
    BY <1>2, <1>b, <2>2 DEF OrphanEnds, EngineGone, rowVars, hubVars, boundVars
  <2>3. QED
    BY <1>9, <2>1, <2>2
<1>10. CASE ConsoleStops
  <2>1. stops' \in 0..MaxStops /\ worker' = "off" /\ on' = 0
    BY <1>2, <1>10, DiscussionAssumption DEF ConsoleStops
  <2>2. Rest' /\ Hub' /\ UNCHANGED <<failures, deaths>>
    BY <1>2, <1>10 DEF ConsoleStops, hubVars
  <2>3. Calls' /\ engine' \in Turns \cup {0} /\ noted' \in BOOLEAN /\ strays' \subseteq Turns
    <3>1. CASE StopsCleanly
      BY <1>2, <1>b, <3>1 DEF StopsCleanly, EngineGone
    <3>2. CASE StrandsTheEngine
      <4>1. engine = on /\ on \in Turns
        BY <1>2, <3>2 DEF StrandsTheEngine, Lock
      <4>2. \A t \in Turns \ Living' : t \notin Living
        BY <3>2, <4>1 DEF StrandsTheEngine, Living
      <4>3. QED
        BY <1>2, <3>2, <4>1, <4>2 DEF StrandsTheEngine, Calls
    <3>3. CASE StopsAlone
      BY <1>2, <1>a, <3>3 DEF StopsAlone
    <3>4. QED
      BY <1>10, <3>1, <3>2, <3>3 DEF ConsoleStops
  <2>4. QED
    BY <1>2, <2>1, <2>2, <2>3
<1>11. CASE \E k \in Keys : Lands(k) \/ IsLost(k)
  BY <1>2, <1>a, <1>11 DEF Lands, IsLost, rowVars, procVars, boundVars
<1>12. QED
  BY <1>4, <1>5, <1>6, <1>7, <1>8, <1>9, <1>10, <1>11 DEF DiscussionNext

-----------------------------------------------------------------------------
(* Steps that touch neither the ledger of operations nor GitHub nor, but to   *)
(* end it, a tool call.                                                       *)
CallsStand == \A t \in Turns : tool'[t] \in {tool[t], NoCall}

LEMMA OtherSteps ==
  ASSUME DiscussionNext, ~_mutate, ~\E k \in Keys : Lands(k) \/ IsLost(k)
  PROVE  UNCHANGED <<op, flying, landed>> /\ CallsStand
<1> USE DEF CallsStand
<1>0. EngineGone => CallsStand
  BY DEF EngineGone
<1>1. CASE \E s \in ChatSessions, r \in Requests : submit_chat_turn(s, r)
  BY <1>1 DEF submit_chat_turn, procVars, hubVars
<1>2. CASE \E t \in Turns : GoesLate(t) \/ GoesSilent(t)
  BY <1>2 DEF GoesLate, GoesSilent, procVars, hubVars
<1>3. CASE Worker
  BY <1>0, <1>3 DEF Worker, Polls, claim_chat_turn, EngineStarts, EngineIsNoted, EngineEnds,
              PreparationFails, Replies, Fails, Reports, rowVars, hubVars
<1>4. CASE Supervisor
  BY <1>0, <1>4 DEF Supervisor, WorkerStarts, WorkerIsRefused, Supervises, ConsoleStarts,
              rowVars, hubVars
<1>5. CASE WorkerDies \/ OrphanEnds \/ ConsoleStops
  BY <1>0, <1>5 DEF WorkerDies, OrphanEnds, ConsoleStops, StopsCleanly, StrandsTheEngine, StopsAlone,
              rowVars, hubVars
<1>6. QED
  BY <1>1, <1>2, <1>3, <1>4, <1>5 DEF DiscussionNext

(* Intents stay fresh as long as no new one appears, none changes its key and *)
(* nothing is written.                                                        *)
LEMMA IntentStep ==
  ASSUME DiscussionTypeOK, Lock, Intent, DiscussionNext
  PROVE  Intent'
<1>0. /\ op \in [Keys -> {"none", "uncertain", "confirmed"}]
      /\ flying \in [Keys -> Nat] /\ landed \in [Keys -> Nat]
      /\ \A k \in Keys : flying[k] \in Nat /\ landed[k] \in Nat
      /\ \A t \in Turns : Unsent(t) => tool[t].key \in Keys
  BY CallsAreCalls DEF DiscussionTypeOK, Unsent, CallOf
<1>1. ASSUME UNCHANGED <<flying, landed>>,
             \A k \in Keys : op'[k] = "none" => op[k] = "none",
             \A t \in Turns : Unsent(t)' => Unsent(t) /\ tool'[t].key = tool[t].key
      PROVE  Intent'
  <2>1. \A t \in Turns : Unsent(t)' => op'[tool'[t].key] # "none"
    BY <1>0, <1>1 DEF Intent
  <2>2. QED
    BY <1>1, <2>1 DEF Intent
<1>2. CASE ~_mutate /\ ~\E k \in Keys : Lands(k) \/ IsLost(k)
  <2>1. UNCHANGED <<op, flying, landed>> /\ CallsStand
    BY <1>2, OtherSteps
  <2>2. QED
    BY <1>1, <2>1 DEF CallsStand, Unsent, NoCall
<1>3. ASSUME NEW j \in Keys, Lands(j) \/ IsLost(j)
      PROVE  Intent'
  <2>1. flying[j] > 0 /\ flying' = [flying EXCEPT ![j] = @ - 1]
    BY <1>3 DEF Lands, IsLost
  <2>2. landed' = [landed EXCEPT ![j] = @ + 1] \/ landed' = landed
    BY <1>3 DEF Lands, IsLost
  <2>3. \A k \in Keys : flying'[k] = IF k = j THEN flying[k] - 1 ELSE flying[k]
    BY <1>0, <2>1
  <2>4. \A k \in Keys : landed'[k] = landed[k] \/ (k = j /\ landed'[k] = landed[k] + 1)
    BY <1>0, <2>2
  <2>5. \A k \in Keys : landed'[k] + flying'[k] <= landed[k] + flying[k]
    BY <1>0, <2>1, <2>3, <2>4
  <2>6. op' = op /\ tool' = tool
    BY <1>3 DEF Lands, IsLost, rowVars, procVars
  <2>7. \A t \in Turns : Unsent(t)' <=> Unsent(t)
    BY <2>6 DEF Unsent
  <2>8. \A k \in Keys : landed'[k] + flying'[k] \in Nat /\ landed[k] + flying[k] \in Nat
    BY <1>0, <2>1, <2>3, <2>4
  <2>9. \A k \in Keys : landed'[k] + flying'[k] <= 1
    BY <2>5, <2>8 DEF Intent
  <2>10. \A k \in Keys : landed[k] + flying[k] = 0 => landed'[k] + flying'[k] = 0
    BY <2>5, <2>8
  <2>11. QED
    BY <1>0, <2>6, <2>7, <2>9, <2>10 DEF Intent
<1>4. ASSUME NEW e \in Turns, NEW o \in Ops, begin_chat_mutation(e, o)
      PROVE  Intent'
  <2>1. PICK k \in Keys :
           \/ /\ op[k] = "none" /\ op' = [op EXCEPT ![k] = "uncertain"]
              /\ tool' = [tool EXCEPT ![e] = Call("intent", k)]
           \/ op' = op /\ tool' = [tool EXCEPT ![e] = Call("lookup", k)]
           \/ op' = op /\ tool' = tool
    BY <1>4, BeginsOn
  <2>2. UNCHANGED <<flying, landed>>
    BY <1>4 DEF begin_chat_mutation, hubVars
  <2>3. tool \in [Turns -> ToolCalls \cup {NoCall}]
    BY DEF DiscussionTypeOK
  <2>4. CASE /\ op[k] = "none" /\ op' = [op EXCEPT ![k] = "uncertain"]
             /\ tool' = [tool EXCEPT ![e] = Call("intent", k)]
    <3>1. \A j \in Keys : op'[j] = IF j = k THEN "uncertain" ELSE op[j]
      BY <1>0, <2>4
    <3>2. \A t \in Turns : tool'[t] = IF t = e THEN Call("intent", k) ELSE tool[t]
      BY <2>3, <2>4
    <3>3. \A t \in Turns : t # e /\ Unsent(t)' => Unsent(t) /\ tool'[t].key = tool[t].key /\ tool[t].key # k
      BY <2>4, <3>2 DEF Intent, Unsent
    <3>4. tool'[e].key = k /\ landed[k] + flying[k] = 0
      BY <2>4, <3>2 DEF Call, Intent
    <3>5. \A t \in Turns : Unsent(t)' =>
            op'[tool'[t].key] # "none" /\ landed'[tool'[t].key] + flying'[tool'[t].key] = 0
      BY <1>0, <2>2, <3>1, <3>3, <3>4 DEF Intent
    <3>6. \A t, u \in Turns : Unsent(t)' /\ Unsent(u)' /\ tool'[t].key = tool'[u].key => t = u
      BY <3>3, <3>4 DEF Intent
    <3>7. QED
      BY <2>2, <3>1, <3>5, <3>6 DEF Intent
  <2>5. CASE op' = op /\ tool' = [tool EXCEPT ![e] = Call("lookup", k)]
    <3>1. \A t \in Turns : tool'[t] = IF t = e THEN Call("lookup", k) ELSE tool[t]
      BY <2>3, <2>5
    <3>2. QED
      BY <1>1, <2>2, <2>5, <3>1 DEF Unsent, Call
  <2>6. CASE op' = op /\ tool' = tool
    BY <1>1, <2>2, <2>6 DEF Unsent
  <2>7. QED
    BY <2>1, <2>4, <2>5, <2>6
<1>5. ASSUME NEW e \in Turns, Sends(e)
      PROVE  Intent'
  <2> DEFINE k == tool[e].key
  <2>1. Unsent(e) /\ k \in Keys /\ op' = op /\ landed' = landed
    BY <1>0, <1>5 DEF Sends, Unsent
  <2>2. flying' = [flying EXCEPT ![k] = @ + 1] /\ tool' = [tool EXCEPT ![e] = Call("asked", k)]
    BY <1>5 DEF Sends, Tool, Call
  <2> HIDE DEF k
  <2>3. \A t \in Turns : tool'[t] = IF t = e THEN Call("asked", k) ELSE tool[t]
    BY <2>2 DEF DiscussionTypeOK
  <2>4. \A t \in Turns : Unsent(t)' => t # e /\ Unsent(t) /\ tool'[t].key = tool[t].key
    BY <2>3 DEF Unsent, Call
  <2>5. \A t \in Turns : Unsent(t)' => tool[t].key # k
    BY <2>1, <2>4 DEF Intent, k
  <2>6. \A j \in Keys : flying'[j] = IF j = k THEN flying[j] + 1 ELSE flying[j]
    BY <1>0, <2>2
  <2>7. op[k] # "none" /\ landed[k] + flying[k] = 0
    BY <2>1 DEF Intent, k
  <2>8. \A j \in Keys : landed[j] + flying'[j] <= 1
    BY <1>0, <2>1, <2>6, <2>7 DEF Intent
  <2>9. \A j \in Keys : op[j] = "none" => landed[j] + flying'[j] = 0
    BY <1>0, <2>6, <2>7 DEF Intent
  <2>10. \A t \in Turns : Unsent(t)' =>
           op'[tool'[t].key] # "none" /\ landed'[tool'[t].key] + flying'[tool'[t].key] = 0
    BY <1>0, <2>1, <2>4, <2>5, <2>6 DEF Intent
  <2>11. \A t, u \in Turns : Unsent(t)' /\ Unsent(u)' /\ tool'[t].key = tool'[u].key => t = u
    BY <2>4 DEF Intent
  <2>12. QED
    BY <2>1, <2>8, <2>9, <2>10, <2>11 DEF Intent
<1>6. ASSUME NEW e \in Turns, _check_binding(e) \/ Hears(e) \/ _reconcile(e)
      PROVE  Intent'
  <2>1. UNCHANGED <<op, flying, landed>>
    BY <1>6 DEF _check_binding, Hears, _reconcile, hubVars
  <2>2. PICK call : /\ tool' = [tool EXCEPT ![e] = call]
                    /\ call.step \in {"intent", "cleared"} => Unsent(e) /\ call.key = tool[e].key
    BY <1>6 DEF _check_binding, Hears, _reconcile, Tool, CallEnds, NoCall, Unsent
  <2>3. \A t \in Turns : tool'[t] = IF t = e THEN call ELSE tool[t]
    BY <2>2 DEF DiscussionTypeOK
  <2>4. QED
    BY <1>1, <2>1, <2>2, <2>3 DEF Unsent
<1>7. ASSUME NEW e \in Turns, confirm_chat_mutation(e)
      PROVE  Intent'
  <2>1. CallOf(e)
    BY <1>7, CallsAreCalls DEF confirm_chat_mutation
  <2>2. /\ op' = [op EXCEPT ![tool[e].key] = "confirmed"]
        /\ tool' = [tool EXCEPT ![e] = NoCall] /\ UNCHANGED <<flying, landed>>
    BY <1>7 DEF confirm_chat_mutation, CallEnds, hubVars
  <2>3. \A k \in Keys : op'[k] = "none" => op[k] = "none"
    BY <1>0, <2>1, <2>2 DEF CallOf
  <2>4. \A t \in Turns : tool'[t] = IF t = e THEN NoCall ELSE tool[t]
    BY <2>2 DEF DiscussionTypeOK
  <2>5. QED
    BY <1>1, <2>2, <2>3, <2>4 DEF Unsent, NoCall
<1>8. QED
  BY <1>2, <1>3, <1>4, <1>5, <1>6, <1>7, MutationSteps

LEMMA SeenStep ==
  ASSUME DiscussionTypeOK, Lock, Seen, DiscussionNext
  PROVE  Seen'
<1>0. /\ op \in [Keys -> {"none", "uncertain", "confirmed"}]
      /\ landed \in [Keys -> Nat] /\ (\A k \in Keys : landed[k] \in Nat)
      /\ \A t \in Turns : tool[t].step = "sure" => tool[t].key \in Keys
  BY CallsAreCalls DEF DiscussionTypeOK, CallOf
(* What has landed stays landed, a confirmation is of something seen, and     *)
(* nobody is sure of what has not landed.                                     *)
<1> DEFINE Stays == \A k \in Keys : landed[k] > 0 => landed'[k] > 0
           Earned == \A k \in Keys : op'[k] = "confirmed" => op[k] = "confirmed" \/ landed[k] > 0
           Sure == \A t \in Turns : tool'[t].step = "sure" => landed'[tool'[t].key] > 0
<1>1. Stays /\ Earned /\ Sure
  <2>1. CASE ~_mutate /\ ~\E k \in Keys : Lands(k) \/ IsLost(k)
    <3>1. UNCHANGED <<op, flying, landed>> /\ CallsStand
      BY <2>1, OtherSteps
    <3>2. QED
      BY <3>1 DEF Seen, NoCall, CallsStand
  <2>2. ASSUME NEW j \in Keys, Lands(j) \/ IsLost(j)
        PROVE  Stays /\ Earned /\ Sure
    <3>1. landed' = [landed EXCEPT ![j] = @ + 1] \/ landed' = landed
      BY <2>2 DEF Lands, IsLost
    <3>2. \A k \in Keys : landed'[k] = landed[k] \/ landed'[k] = landed[k] + 1
      BY <1>0, <3>1
    <3>3. op' = op /\ tool' = tool
      BY <2>2 DEF Lands, IsLost, rowVars, procVars
    <3>4. \A k \in Keys : landed[k] > 0 => landed'[k] > 0
      BY <1>0, <3>2
    <3>5. QED
      BY <1>0, <3>3, <3>4 DEF Seen
  <2>3. ASSUME NEW e \in Turns, NEW o \in Ops, begin_chat_mutation(e, o)
        PROVE  Stays /\ Earned /\ Sure
    <3>1. landed' = landed
      BY <2>3 DEF begin_chat_mutation, hubVars
    <3>2. PICK k \in Keys : /\ op' = op \/ op' = [op EXCEPT ![k] = "uncertain"]
                            /\ \/ tool' = tool
                               \/ tool' = [tool EXCEPT ![e] = Call("intent", k)]
                               \/ tool' = [tool EXCEPT ![e] = Call("lookup", k)]
      BY <2>3, BeginsOn
    <3>3. \A j \in Keys : op'[j] = "confirmed" => op[j] = "confirmed"
      BY <1>0, <3>2
    <3>4. \A t \in Turns : tool'[t] = tool[t] \/ tool'[t].step # "sure"
      BY <3>2 DEF DiscussionTypeOK, Call
    <3>5. QED
      BY <3>1, <3>3, <3>4 DEF Seen
  <2>4. ASSUME NEW e \in Turns, _check_binding(e) \/ Sends(e) \/ Hears(e) \/ _reconcile(e)
        PROVE  Stays /\ Earned /\ Sure
    <3>1. landed' = landed /\ op' = op
      BY <2>4 DEF _check_binding, Sends, Hears, _reconcile, hubVars
    <3>2. PICK call : /\ tool' = [tool EXCEPT ![e] = call]
                      /\ call.step = "sure" => landed[call.key] > 0
      BY <2>4 DEF _check_binding, Sends, Hears, _reconcile, Tool, CallEnds, NoCall
    <3>3. \A t \in Turns : tool'[t] = IF t = e THEN call ELSE tool[t]
      BY <3>2 DEF DiscussionTypeOK
    <3>4. QED
      BY <3>1, <3>2, <3>3 DEF Seen
  <2>5. ASSUME NEW e \in Turns, confirm_chat_mutation(e)
        PROVE  Stays /\ Earned /\ Sure
    <3>1. /\ op' = [op EXCEPT ![tool[e].key] = "confirmed"] /\ tool' = [tool EXCEPT ![e] = NoCall]
          /\ landed' = landed /\ tool[e].key \in Keys /\ landed[tool[e].key] > 0
      BY <1>0, <2>5 DEF confirm_chat_mutation, CallEnds, hubVars, Seen
    <3>2. \A k \in Keys : op'[k] = IF k = tool[e].key THEN "confirmed" ELSE op[k]
      BY <1>0, <3>1
    <3>3. \A t \in Turns : tool'[t] = IF t = e THEN NoCall ELSE tool[t]
      BY <3>1 DEF DiscussionTypeOK
    <3>4. QED
      BY <3>1, <3>2, <3>3 DEF NoCall, Seen
  <2>6. QED
    BY <2>1, <2>2, <2>3, <2>4, <2>5, MutationSteps
<1>2. \A k \in Keys : op'[k] = "confirmed" => landed'[k] > 0
  BY <1>1 DEF Seen, NoFalseReceipt
<1>3. ASSUME NEW t \in Turns, NEW k \in turn'[t].receipts
      PROVE  landed'[k] > 0
  <2>1. turn'[t].receipts \in {turn[t].receipts, {}, chat_receipts(t)}
    BY TurnSteps
  <2>2. CASE k \in turn[t].receipts
    <3>1. k \in Keys
      BY <2>2 DEF DiscussionTypeOK, TurnRows, NoTurn
    <3>2. QED
      BY <1>1, <2>2, <3>1 DEF Seen, NoFalseReceipt
  <2>3. CASE k \in chat_receipts(t)
    BY <1>1, <2>3 DEF chat_receipts, Seen, NoFalseReceipt
  <2>4. QED
    BY <1>3, <2>1, <2>2, <2>3
<1>4. QED
  BY <1>1, <1>2, <1>3 DEF Seen, NoFalseReceipt

-----------------------------------------------------------------------------
LEMMA LockStep ==
  ASSUME DiscussionTypeOK, Lock, DiscussionNext
  PROVE  Lock'
<1>0. on \in Turns \cup {0} /\ engine \in Turns \cup {0}
  BY DEF DiscussionTypeOK
<1>1. ASSUME NEW s \in ChatSessions, NEW r \in Requests, submit_chat_turn(s, r)
      PROVE  Lock'
  <2>1. \A t \in Turns : turn[t].status = "running" => turn'[t].status = "running"
    BY <1>1, AcceptanceKeepsTurns
  <2>2. UNCHANGED <<worker, on, engine>>
    BY <1>1 DEF submit_chat_turn, procVars
  <2>3. QED
    BY <1>0, <2>1, <2>2 DEF Lock
<1>2. ASSUME NEW t \in Turns, GoesLate(t) \/ GoesSilent(t)
      PROVE  Lock'
  <2>1. \A u \in Turns : turn'[u].status = turn[u].status
    BY <1>2, TimeKeepsTurns
  <2>2. UNCHANGED <<worker, on, engine>>
    BY <1>2 DEF GoesLate, GoesSilent, procVars
  <2>3. QED
    BY <1>0, <2>1, <2>2 DEF Lock
<1>3. CASE Polls
  <2>1. worker = "idle" /\ on = 0 /\ engine = 0 /\ engine' = 0
    BY <1>3 DEF Polls, At, Lock
  <2>2. (worker' = worker /\ on' = on) \/ (worker' = "chosen" /\ on' \in Turns)
    BY <1>3 DEF Polls
  <2>3. 0 \notin Turns
    BY DiscussionAssumption
  <2>4. QED
    BY <2>1, <2>2, <2>3 DEF Lock
<1>4. CASE claim_chat_turn
  <2>1. worker = "chosen" /\ on \in Turns /\ on # 0 /\ engine = 0 /\ engine' = 0
    BY <1>0, <1>4 DEF claim_chat_turn, At, Lock
  <2>2. CASE worker' = "idle" /\ on' = 0
    BY <2>1, <2>2 DEF Lock
  <2>3. CASE /\ Active(on) /\ turn' = [turn EXCEPT ![on].status = "running"]
             /\ worker' = "claimed" /\ on' = on
    <3>1. turn'[on].status = "running"
      BY <2>1, <2>3, ClaimStartsATurn
    <3>2. QED
      BY <2>1, <2>3, <3>1 DEF Lock
  <2>4. QED
    BY <1>4, <2>2, <2>3 DEF claim_chat_turn, Active
<1>5. CASE EngineStarts \/ EngineIsNoted \/ EngineEnds \/ PreparationFails
  BY <1>5 DEF EngineStarts, EngineIsNoted, EngineEnds, PreparationFails, EngineGone,
              At, Moves, rowVars, Lock
<1>6. CASE Replies \/ Fails \/ Reports
  BY <1>6 DEF Replies, Fails, Reports, At, Moves, Lock
<1>7. CASE WorkerStarts
  BY <1>7 DEF WorkerStarts, LockIsFree, Moves, Lock
<1>8. CASE WorkerIsRefused \/ ConsoleStarts
  BY <1>8 DEF WorkerIsRefused, ConsoleStarts, Moves, rowVars, Lock
<1>9. CASE Supervises
  <2>1. worker = "dead" /\ on = 0 /\ on' = 0 /\ worker' \in {"abandoned", "down"} /\ turn' = turn
    BY <1>9 DEF Supervises, At, Lock, rowVars
  <2>2. engine' = 0 \/ engine' = engine
    BY <1>9 DEF Supervises, EngineGone
  <2>3. QED
    BY <2>1, <2>2 DEF Lock
<1>10. CASE _mutate
  BY <1>10 DEF _mutate, begin_chat_mutation, _check_binding, Sends, Hears, _reconcile,
               confirm_chat_mutation, toolUnchanged, Lock
<1>11. CASE WorkerDies
  BY <1>11 DEF WorkerDies, rowVars, Lock
<1>12. CASE OrphanEnds
  BY <1>12 DEF OrphanEnds, EngineGone, rowVars, Lock
<1>13. CASE ConsoleStops
  <2>1. worker' = "off" /\ on' = 0
    BY <1>13 DEF ConsoleStops
  <2>2. engine' = 0 \/ (engine' = engine /\ turn' = turn)
    BY <1>13 DEF ConsoleStops, StopsCleanly, StrandsTheEngine, StopsAlone, EngineGone
  <2>3. QED
    BY <2>1, <2>2 DEF Lock
<1>14. CASE \E k \in Keys : Lands(k) \/ IsLost(k)
  BY <1>14 DEF Lands, IsLost, rowVars, procVars, Lock
<1>15. QED
  BY <1>1, <1>2, <1>3, <1>4, <1>5, <1>6, <1>7, <1>8, <1>9, <1>10, <1>11, <1>12, <1>13, <1>14
     DEF DiscussionNext, Worker, Supervisor

(* All of it at once, from the first state on.                                *)
THEOREM TurnsInvariance == DiscussionSpec => []TurnsIInv
<1>1. DiscussionInit => TurnsIInv
  <2> SUFFICES ASSUME DiscussionInit
               PROVE  TurnsIInv
    OBVIOUS
  <2>1. DiscussionTypeOK
    <3>1. turn \in [Turns -> TurnRows]
      BY DEF DiscussionInit, TurnRows
    <3>2. flying \in [Keys -> Nat] /\ landed \in [Keys -> Nat]
      BY DEF DiscussionInit
    <3>3. deaths \in 0..MaxDeaths /\ stops \in 0..MaxStops
      BY DiscussionAssumption DEF DiscussionInit
    <3>4. tool \in [Turns -> ToolCalls \cup {NoCall}] /\ \A t \in Turns \ Living : tool[t] = NoCall
      BY DEF DiscussionInit
    <3>5. QED
      BY <3>1, <3>2, <3>3, <3>4 DEF DiscussionInit, DiscussionTypeOK
  <2>2. Intent
    BY DEF DiscussionInit, Intent, Unsent, NoCall
  <2>3. Seen
    BY DEF DiscussionInit, Seen, NoFalseReceipt, NoCall, NoTurn
  <2>4. Lock
    BY DEF DiscussionInit, Lock
  <2>5. QED
    BY <2>1, <2>2, <2>3, <2>4 DEF TurnsIInv
<1>2. TurnsIInv /\ [DiscussionNext]_vars => TurnsIInv'
  <2> SUFFICES ASSUME TurnsIInv, [DiscussionNext]_vars
               PROVE  TurnsIInv'
    OBVIOUS
  <2>1. CASE DiscussionNext
    BY <2>1, TypeOKStep, IntentStep, SeenStep, LockStep DEF TurnsIInv
  <2>2. CASE UNCHANGED vars
    BY <2>2 DEF vars, rowVars, procVars, hubVars, boundVars, TurnsIInv, DiscussionTypeOK, Intent, Seen,
                NoFalseReceipt, Lock, Unsent, Living, Answered
  <2>3. QED
    BY <2>1, <2>2
<1>3. QED
  BY <1>1, <1>2, PTL DEF DiscussionSpec

(* However many engines and retries use one operation id, and whatever the    *)
(* network does, GitHub applies its write at most once.                       *)
THEOREM AtMostOneWrite == DiscussionSpec => []WrittenOnce
<1>1. TurnsIInv => WrittenOnce
  <2> SUFFICES ASSUME TurnsIInv, NEW k \in Keys
               PROVE  landed[k] <= 1
    BY DEF WrittenOnce
  <2>1. landed[k] \in Nat /\ flying[k] \in Nat /\ landed[k] + flying[k] <= 1
    BY DEF TurnsIInv, DiscussionTypeOK, Intent
  <2>2. QED
    BY <2>1
<1>2. QED
  BY <1>1, TurnsInvariance, PTL

(* Every confirmed operation and every link in a result is of a write that is *)
(* on GitHub.                                                                 *)
THEOREM ReceiptsAreTrue == DiscussionSpec => []NoFalseReceipt
<1>1. TurnsIInv => NoFalseReceipt
  BY DEF TurnsIInv, Seen
<1>2. QED
  BY <1>1, TurnsInvariance, PTL

(* No engine with the lock lives whose turn has its result; and whatever engine *)
(* a terminated worker left alive, nothing is begun or cleared for that turn.  *)
THEOREM EnginesAreGone == DiscussionSpec => NothingAfterTheResult
<1>1. TurnsIInv => \A t \in Turns : Answered(t) => engine # t
  <2> SUFFICES ASSUME TurnsIInv, NEW t \in Turns, Answered(t), engine = t
               PROVE  FALSE
    OBVIOUS
  <2>1. engine # 0
    BY DiscussionAssumption
  <2>2. turn[t].status = "running"
    BY <2>1 DEF TurnsIInv, Lock
  <2>3. QED
    BY <2>2 DEF Answered
<1>2. ASSUME TurnsIInv, DiscussionNext, NEW t \in Turns, Answered(t),
             tool'[t].step \in {"intent", "cleared"}
      PROVE  tool'[t] = tool[t]
  <2>0. DiscussionTypeOK /\ ~check_chat_worker(t)
    BY <1>2 DEF TurnsIInv, Answered, check_chat_worker
  <2>1. CASE ~_mutate /\ ~\E k \in Keys : Lands(k) \/ IsLost(k)
    BY <1>2, <2>1, OtherSteps DEF CallsStand, NoCall
  <2>2. CASE \E k \in Keys : Lands(k) \/ IsLost(k)
    BY <2>2 DEF Lands, IsLost, procVars
  <2>3. ASSUME NEW e \in Turns,
               \/ \E o \in Ops : begin_chat_mutation(e, o)
               \/ _check_binding(e) \/ Sends(e) \/ Hears(e) \/ _reconcile(e) \/ confirm_chat_mutation(e)
        PROVE  tool'[t] = tool[t]
    <3>1. CASE e # t
      BY <2>0, <2>3, <3>1 DEF begin_chat_mutation, _check_binding, Sends, Hears, _reconcile,
                              confirm_chat_mutation, Tool, CallEnds, DiscussionTypeOK
    <3>2. CASE e = t
      <4>1. \/ _check_binding(t) \/ Sends(t) \/ Hears(t) \/ _reconcile(t) \/ confirm_chat_mutation(t)
        BY <2>0, <2>3, <3>2 DEF begin_chat_mutation
      <4>2. \/ CallEnds(t)
            \/ \E place \in {"asked", "lookup", "sure"} : Tool(t, place, tool[t].key)
        BY <2>0, <4>1 DEF _check_binding, Sends, Hears, _reconcile, confirm_chat_mutation
      <4>3. tool'[t].step \notin {"intent", "cleared"}
        BY <2>0, <4>2 DEF CallEnds, Tool, NoCall, DiscussionTypeOK
      <4>4. QED
        BY <1>2, <4>3
    <3>3. QED
      BY <3>1, <3>2
  <2>4. QED
    BY <2>0, <2>1, <2>2, <2>3, MutationSteps
<1>3. TurnsIInv /\ [DiscussionNext]_vars =>
        [\A t \in Turns : Answered(t) /\ tool'[t].step \in {"intent", "cleared"} => tool'[t] = tool[t]]_vars
  BY <1>2
<1>4. QED
  BY <1>1, <1>3, TurnsInvariance, PTL DEF DiscussionSpec, NothingAfterTheResult

(* A result, once there, is never changed.                                    *)
THEOREM ResultsAreFinal == DiscussionSpec => ResultIsFinal
<1>1. ASSUME TurnsIInv, DiscussionNext, NEW t \in Turns, Answered(t)
      PROVE  turn'[t] = turn[t]
  <2> USE DEF Answered
  <2>0. DiscussionTypeOK /\ Lock
    BY <1>1 DEF TurnsIInv
  <2>1. ASSUME NEW s \in ChatSessions, NEW r \in Requests, submit_chat_turn(s, r)
        PROVE  turn'[t] = turn[t]
    <3>1. t \notin Free
      BY <1>1 DEF Free
    <3>2. QED
      BY <2>0, <2>1, <3>1 DEF submit_chat_turn, DiscussionTypeOK
  <2>2. ASSUME NEW u \in Turns, GoesLate(u) \/ GoesSilent(u)
        PROVE  turn'[t] = turn[t]
    <3>1. u # t
      BY <1>1, <2>2 DEF GoesLate, GoesSilent, Active
    <3>2. QED
      BY <2>0, <2>2, <3>1 DEF GoesLate, GoesSilent, DiscussionTypeOK
  <2>3. ASSUME NEW all \in BOOLEAN, recover_chat_turns(all)
        PROVE  turn'[t] = turn[t]
    <3>1. t \notin Recoverable(all)
      BY <1>1 DEF Recoverable, Active
    <3>2. QED
      BY <2>3, <3>1 DEF recover_chat_turns
  <2>4. CASE UNCHANGED turn
    BY <2>4
  <2>5. CASE claim_chat_turn \/ Replies \/ Reports
    <3>1. CASE on # t /\ (\/ turn' = [turn EXCEPT ![on].status = "running"]
                         \/ complete_chat_turn("success") \/ complete_chat_turn("error"))
      BY <2>0, <3>1 DEF complete_chat_turn, DiscussionTypeOK
    <3>2. QED
      BY <1>1, <2>3, <2>4, <2>5, <3>1
         DEF claim_chat_turn, Replies, Reports, check_chat_worker
  <2>6. CASE Worker
    BY <2>3, <2>4, <2>5, <2>6
       DEF Worker, Polls, EngineStarts, EngineIsNoted, EngineEnds, PreparationFails, Fails, rowVars
  <2>7. CASE Supervisor
    BY <2>3, <2>4, <2>7
       DEF Supervisor, WorkerStarts, WorkerIsRefused, Supervises, ConsoleStarts, rowVars
  <2>8. CASE _mutate
    BY <2>8 DEF _mutate, begin_chat_mutation, _check_binding, Sends, Hears, _reconcile,
                confirm_chat_mutation, toolUnchanged
  <2>9. CASE WorkerDies \/ OrphanEnds \/ ConsoleStops
    BY <2>3, <2>4, <2>9 DEF WorkerDies, OrphanEnds, ConsoleStops, StopsCleanly, StrandsTheEngine,
                            StopsAlone, rowVars
  <2>10. CASE \E k \in Keys : Lands(k) \/ IsLost(k)
    BY <2>10 DEF Lands, IsLost, rowVars
  <2>11. QED
    BY <1>1, <2>1, <2>2, <2>6, <2>7, <2>8, <2>9, <2>10 DEF DiscussionNext
<1>2. TurnsIInv /\ [DiscussionNext]_vars => [\A t \in Turns : Answered(t) => turn'[t] = turn[t]]_vars
  BY <1>1
<1>3. QED
  BY <1>2, TurnsInvariance, PTL DEF DiscussionSpec, ResultIsFinal

------------------------------------------------------------------------------
(* The launcher: what may run is what was vouched for, that is tested here, or  *)
(* being tested when the script was cut off.                                   *)
Vouched == tested \cup excused

Doings == {"tick", "bless", "reset", "count", "roll", "mark", "zero", "fetch", "update", "test"}

(* Whatever is checked out has been vouched for, unless its tests are going on;  *)
(* so has all that the script can go back to: by its files, and by the versions  *)
(* it has in hand between two of its commands.                                 *)
VouchedFor ==
  /\ step \in [do : Doings, rc : Nat, from : Nat, to : Nat]
  /\ kind \in [Versions -> Kinds] /\ main \in Nat /\ head \in Nat
  /\ Vouched \subseteq Nat
  /\ step.do # "test" => head \in Vouched
  /\ {known_good, launch_ok} \subseteq {0} \cup Vouched
  /\ step.do \in {"update", "test"} => step.from \in Vouched
  /\ step.do = "roll" => step.to \in Vouched

LEMMA StepShape ==
  ASSUME NEW what \in Doings
  PROVE  /\ Do(what) \in [do : Doings, rc : Nat, from : Nat, to : Nat]
         /\ Do(what).do = what
BY DEF Do, Doings

LEMMA InitVouchedFor == LauncherInit => VouchedFor
BY StepShape DEF LauncherInit, VouchedFor, Vouched, Idle, Doings

(* The tick itself: a version that starts a run is a version that is ticked.    *)
LEMMA TickStep ==
  ASSUME VouchedFor, Ticks \/ Crashes \/ LockTaken
  PROVE  VouchedFor'
<1>1. /\ step.do = "tick" /\ UNCHANGED <<kind, main, head, known_good, tested, excused>>
      /\ launch_ok' \in {launch_ok, head}
  BY DEF Ticks, Crashes, LockTaken, succeeded, failed, NoLaunch, files, history
<1>2. /\ step' \in [do : Doings, rc : Nat, from : Nat, to : Nat]
      /\ step'.do \in {"bless", "count"}
  <2>1. ASSUME NEW rc \in {0, 1, 3}, Ends(rc)
        PROVE  /\ step' \in [do : Doings, rc : Nat, from : Nat, to : Nat]
               /\ step'.do \in {"bless", "count"}
    BY <2>1 DEF Ends, Do, Doings
  <2>2. Ends(0) \/ Ends(1) \/ Ends(3)
    BY DEF Ticks, Crashes, LockTaken, tick_exit_code
  <2> QED BY <2>1, <2>2
<1> QED BY <1>1, <1>2 DEF VouchedFor, Vouched

(* After the tick: both ways back lead to a version the files name.             *)
LEMMA CountStep ==
  ASSUME VouchedFor, Counts
  PROVE  VouchedFor'
<1> DEFINE good == IF step.rc = 3 THEN launch_ok ELSE known_good
<1>1. /\ step.do = "count"
      /\ UNCHANGED <<kind, main, head, known_good, launch_ok, tested, excused>>
      /\ \/ step' = [Do("roll") EXCEPT !.from = head, !.to = good] /\ good # 0
         \/ step' = Idle
  BY DEF Counts, history
<1>2. good \in {0} \cup Vouched /\ head \in Nat /\ Vouched \subseteq Nat
  BY DEF VouchedFor
<1>3. /\ step' \in [do : Doings, rc : Nat, from : Nat, to : Nat]
      /\ step'.do \in {"roll", "tick"}
      /\ step'.do = "roll" => step'.to \in Vouched
  <2>1. CASE step' = Idle
    BY <2>1, StepShape DEF Idle, Doings
  <2>2. CASE step' = [Do("roll") EXCEPT !.from = head, !.to = good] /\ good # 0
    BY <1>2, <2>2 DEF Do, Doings
  <2> QED BY <1>1, <2>1, <2>2
<1> HIDE DEF good
<1> QED BY <1>1, <1>3 DEF VouchedFor, Vouched

LEMMA VouchedForStep == ASSUME VouchedFor, [LauncherNext]_launcherVars PROVE VouchedFor'
<1>1. CASE UNCHANGED launcherVars
  BY <1>1 DEF launcherVars, files, history, VouchedFor, Vouched
<1>2. CASE Ticks \/ Crashes \/ LockTaken
  BY <1>2, TickStep
<1>3. CASE Counts
  BY <1>3, CountStep
<1>4. CASE Blesses \/ Resets \/ Marks \/ Zeroes
  <2>1. /\ step.do \in {"bless", "reset", "mark", "zero"}
        /\ UNCHANGED <<kind, main, head, launch_ok, tested, excused>>
        /\ known_good' \in {known_good, head}
    BY <1>4 DEF Blesses, Resets, Marks, Zeroes, history
  <2>2. \E what \in {"reset", "fetch", "zero", "tick"} : step' = Do(what)
    BY <1>4 DEF Blesses, Resets, Marks, Zeroes, Idle
  <2>3. /\ step' \in [do : Doings, rc : Nat, from : Nat, to : Nat]
        /\ step'.do \in {"reset", "fetch", "zero", "tick"}
    BY <2>2, StepShape DEF Doings
  <2> QED BY <2>1, <2>3 DEF VouchedFor, Vouched
<1>5. CASE RollsBack
  <2>1. /\ step.do = "roll" /\ head' = step.to /\ step' = [step EXCEPT !.do = "mark"]
        /\ UNCHANGED <<kind, main, known_good, launch_ok, tested, excused>>
    BY <1>5 DEF RollsBack, files, history
  <2>2. step' \in [do : Doings, rc : Nat, from : Nat, to : Nat] /\ step'.do = "mark"
    BY <2>1 DEF VouchedFor, Doings
  <2> QED BY <2>1, <2>2 DEF VouchedFor, Vouched
<1>6. CASE Fetches
  <2>1. /\ step.do = "fetch"
        /\ UNCHANGED <<kind, main, head, known_good, launch_ok, tested, excused>>
        /\ step' \in {Idle, [Do("update") EXCEPT !.from = head, !.to = main]}
    BY <1>6 DEF Fetches, files, history
  <2>2. main \in Nat /\ head \in Nat
    BY DEF VouchedFor
  <2>3. /\ step' \in [do : Doings, rc : Nat, from : Nat, to : Nat]
        /\ step'.do \in {"tick", "update"}
        /\ step'.do = "update" => step'.from = head
    <3>1. CASE step' = Idle
      BY <3>1, StepShape DEF Idle, Doings
    <3>2. CASE step' = [Do("update") EXCEPT !.from = head, !.to = main]
      BY <2>2, <3>2 DEF Do, Doings
    <3> QED BY <2>1, <3>1, <3>2
  <2> QED BY <2>1, <2>3 DEF VouchedFor, Vouched
<1>7. CASE ChecksRed \/ Outage \/ OutageEnds \/ Pushes
  <2>1. /\ UNCHANGED <<kind, head, known_good, launch_ok, tested, excused>>
        /\ main' \in {main, main + 1} /\ step.do # "test"
        /\ step' \in {step, Idle}
    BY <1>7 DEF ChecksRed, Outage, OutageEnds, Pushes, files, history, Idle, Do
  <2>2. Idle \in [do : Doings, rc : Nat, from : Nat, to : Nat] /\ Idle.do = "tick"
    BY StepShape DEF Idle, Doings
  <2> QED BY <2>1, <2>2 DEF VouchedFor, Vouched
<1>8. CASE Updates
  <2>1. /\ step.do = "update" /\ head' = step.to /\ step' = [step EXCEPT !.do = "test"]
        /\ UNCHANGED <<kind, main, known_good, launch_ok, tested, excused>>
    BY <1>8 DEF Updates, files, history
  <2>2. /\ step' \in [do : Doings, rc : Nat, from : Nat, to : Nat]
        /\ step'.do = "test" /\ step'.from = step.from
    BY <2>1 DEF VouchedFor, Doings
  <2> QED BY <2>1, <2>2 DEF VouchedFor, Vouched
<1>9. CASE Accepts \/ Rejects \/ CutOff
  <2>1. /\ step' = Idle /\ UNCHANGED <<kind, main, known_good, launch_ok>>
        /\ head' \in {head, step.from} /\ Vouched \subseteq Vouched'
        /\ Vouched' \subseteq Vouched \cup {head}
        /\ head' \in Vouched'
    BY <1>9 DEF Accepts, Rejects, CutOff, files, history, VouchedFor, Vouched
  <2>2. Idle \in [do : Doings, rc : Nat, from : Nat, to : Nat] /\ Idle.do = "tick"
    BY StepShape DEF Idle, Doings
  <2> QED BY <2>1, <2>2 DEF VouchedFor
<1> QED BY <1>1, <1>2, <1>3, <1>4, <1>5, <1>6, <1>7, <1>8, <1>9 DEF LauncherNext, TickScript

(* Whatever the script goes back to by its files, known_good and launch_ok, was  *)
(* vouched for, and so is every version in hand when it is used.                *)
THEOREM LauncherInvariance == LauncherSpec => []VouchedFor
<1> QED BY InitVouchedFor, VouchedForStep, PTL DEF LauncherSpec

(* Only a version that passed its tests here is ever ticked, but for one whose   *)
(* tests were cut off: over every history of crashes, failed launches, roll     *)
(* backs and updates.                                                          *)
THEOREM TicksTested == LauncherSpec => OnlyTestedTicks
<1>1. VouchedFor' => [step' = Idle => head' \in tested' \cup excused']_launcherVars
  <2>1. step' = Idle => step'.do # "test"
    BY DEF Idle, Do
  <2> QED BY <2>1 DEF VouchedFor, Vouched
<1> QED BY <1>1, LauncherInvariance, PTL DEF OnlyTestedTicks

------------------------------------------------------------------------------
(* The router. First what its operators on sequences return, by least         *)
(* counterexamples: sets of numbers that are not empty have a least member.   *)
LEMMA LeastNumber ==
  ASSUME NEW S \in SUBSET Nat, S # {}
  PROVE  \E x \in S : \A y \in S : x <= y
<1>1. PICK m \in S : TRUE
  OBVIOUS
<1> DEFINE T == {0..x : x \in {y \in S : y <= m}}
<1>2. IsWellFoundedOn(StrictSubsetOrdering(0..m), FiniteSubsetsOf(0..m))
  BY FS_Interval, FS_StrictSubsetOrderingWellFounded
<1>3. T \subseteq FiniteSubsetsOf(0..m) /\ T # {}
  <2>1. ASSUME NEW x \in S, x <= m
        PROVE  0..x \in FiniteSubsetsOf(0..m)
    <3>1. 0..x \subseteq 0..m /\ IsFiniteSet(0..x)
      BY <2>1, FS_Interval
    <3> QED BY <3>1 DEF FiniteSubsetsOf
  <2>2. 0..m \in T
    OBVIOUS
  <2> QED BY <2>1, <2>2
<1>4. PICK U \in T : \A V \in T : ~(<<V, U>> \in StrictSubsetOrdering(0..m))
  <2> HIDE DEF T
  <2> QED BY <1>2, <1>3, WFMin
<1>5. PICK x \in S : x <= m /\ U = 0..x
  BY <1>4
<1>6. ASSUME NEW y \in S, y < x
      PROVE  FALSE
  <2>1. 0..y \in T /\ 0..y \in SUBSET (0..m) /\ 0..x \in SUBSET (0..m)
    BY <1>5, <1>6
  <2>2. 0..y \subseteq 0..x /\ 0..y # 0..x
    <3>1. x \in 0..x /\ x \notin 0..y
      BY <1>6
    <3> QED BY <1>6, <3>1
  <2> QED BY <1>4, <1>5, <2>1, <2>2 DEF StrictSubsetOrdering
<1> QED BY <1>6

(* A concatenation holds what its parts hold.                                 *)
LEMMA Prepended ==
  ASSUME NEW S, NEW a \in Seq(S), NEW b \in Seq(S)
  PROVE  a \o b \in Seq(S) /\ ToSet(a \o b) = ToSet(a) \cup ToSet(b)
<1>1. a \o b \in Seq(S) /\ Len(a \o b) = Len(a) + Len(b)
      /\ \A i \in 1..Len(a) + Len(b) :
           (a \o b)[i] = IF i <= Len(a) THEN a[i] ELSE b[i - Len(a)]
  OBVIOUS
<1>2. ASSUME NEW i \in DOMAIN b
      PROVE  i + Len(a) \in DOMAIN (a \o b) /\ (a \o b)[i + Len(a)] = b[i]
  BY <1>1
<1>3. ASSUME NEW i \in DOMAIN a
      PROVE  i \in DOMAIN (a \o b) /\ (a \o b)[i] = a[i]
  BY <1>1
<1>4. ASSUME NEW i \in DOMAIN (a \o b)
      PROVE  (a \o b)[i] \in ToSet(a) \cup ToSet(b)
  <2>1. CASE i <= Len(a)
    BY <1>1, <2>1 DEF ToSet
  <2>2. CASE i > Len(a)
    BY <1>1, <2>2 DEF ToSet
  <2> QED BY <1>1, <2>1, <2>2
<1>5. ToSet(a \o b) \subseteq ToSet(a) \cup ToSet(b)
  <2> DEFINE c == a \o b
  <2>1. ToSet(c) = {c[i] : i \in DOMAIN c}
    BY DEF ToSet
  <2> QED BY <1>4, <2>1
<1>6. ToSet(a) \subseteq ToSet(a \o b) /\ ToSet(b) \subseteq ToSet(a \o b)
  <2> DEFINE c == a \o b
  <2>1. ToSet(c) = {c[i] : i \in DOMAIN c}
    BY DEF ToSet
  <2>2. ToSet(a) = {a[i] : i \in DOMAIN a} /\ ToSet(b) = {b[i] : i \in DOMAIN b}
    BY DEF ToSet
  <2>3. \A i \in DOMAIN a : a[i] \in ToSet(c)
    BY <1>3, <2>1
  <2>4. \A i \in DOMAIN b : b[i] \in ToSet(c)
    BY <1>2, <2>1
  <2> QED BY <2>2, <2>3, <2>4
<1> QED BY <1>1, <1>5, <1>6

(* FlattenSeq is what its recursive function says: there is such a function.  *)
LEMMA FlattenSteps ==
  ASSUME NEW S, NEW ss \in Seq(Seq(S)), Len(ss) # 0
  PROVE  \E f : /\ f = [i \in 1..Len(ss) |-> IF i = 1 THEN ss[i] ELSE f[i - 1] \o ss[i]]
                /\ FlattenSeq(ss) = f[Len(ss)]
<1> DEFINE Is(f, n) == f = [i \in 1..n |-> IF i = 1 THEN ss[i] ELSE f[i - 1] \o ss[i]]
           Missing == {n \in 1..Len(ss) : ~\E f : Is(f, n)}
<1>0. Len(ss) \in Nat
  OBVIOUS
<1>1. Missing = {}
  <2>1. SUFFICES ASSUME Missing # {} PROVE FALSE
    OBVIOUS
  <2>2. PICK n \in Missing : \A m \in Missing : n <= m
    <3>1. Missing \subseteq Nat
      <4> HIDE DEF Is
      <4> QED BY <1>0
    <3> HIDE DEF Missing
    <3> QED BY <2>1, <3>1, LeastNumber
  <2>3. CASE n = 1
    <3>1. Is([i \in 1..1 |-> ss[i]], 1)
      OBVIOUS
    <3> QED BY <2>3, <3>1
  <2>4. CASE n # 1
    <3>1. n - 1 \in 1..Len(ss) /\ n - 1 \notin Missing
      <4> HIDE DEF Is
      <4>1. n \in 1..Len(ss)
        BY <2>2
      <4>2. n - 1 \in Nat /\ ~(n <= n - 1) /\ n - 1 \in 1..Len(ss)
        BY <1>0, <2>4, <4>1
      <4> QED BY <2>2, <4>2
    <3>2. PICK f : Is(f, n - 1)
      BY <3>1
    <3> DEFINE g == [i \in 1..n |-> IF i = n THEN f[n - 1] \o ss[n] ELSE f[i]]
    <3>0. n \in 1..Len(ss)
      <4> HIDE DEF Is
      <4> QED BY <2>2
    <3>3. ASSUME NEW i \in 1..n
          PROVE  g[i] = IF i = 1 THEN ss[i] ELSE g[i - 1] \o ss[i]
      <4>1. CASE i = n
        <5>1. i # 1 /\ n - 1 \in 1..n /\ n - 1 # n
          <6> HIDE DEF g
          <6> QED BY <1>0, <2>4, <3>0, <4>1
        <5>2. g[n] = f[n - 1] \o ss[n] /\ g[n - 1] = f[n - 1]
          BY <4>1, <5>1
        <5> HIDE DEF g
        <5> QED BY <4>1, <5>1, <5>2
      <4>2. CASE i # n
        <5>1. i \in 1..n - 1 /\ g[i] = f[i]
          BY <1>0, <3>0, <4>2
        <5>2. i # 1 => i - 1 \in 1..n /\ i - 1 # n /\ g[i - 1] = f[i - 1]
          BY <1>0, <3>0, <5>1
        <5> HIDE DEF g
        <5> QED BY <3>2, <5>1, <5>2
      <4> QED BY <4>1, <4>2
    <3>4. Is(g, n)
      <4>1. g = [i \in 1..n |-> g[i]]
        OBVIOUS
      <4> HIDE DEF g
      <4> QED BY <3>3, <4>1
    <3> QED BY <3>4
  <2> QED BY <2>3, <2>4
<1>2. \E f : Is(f, Len(ss))
  <2> HIDE DEF Is
  <2>1. Len(ss) \in 1..Len(ss)
    BY <1>0
  <2>2. Len(ss) \notin Missing
    BY <1>1
  <2> QED BY <2>1, <2>2
<1>3. FlattenSeq(ss) = (CHOOSE f : Is(f, Len(ss)))[Len(ss)]
  BY DEF FlattenSeq
<1>4. Is(CHOOSE f : Is(f, Len(ss)), Len(ss))
  BY <1>2
<1> QED BY <1>3, <1>4

(* A flattened sequence holds what the sequences in it hold.                  *)
LEMMA Flattened ==
  ASSUME NEW S, NEW ss \in Seq(Seq(S))
  PROVE  /\ FlattenSeq(ss) \in Seq(S)
         /\ ToSet(FlattenSeq(ss)) = UNION {ToSet(ss[i]) : i \in 1..Len(ss)}
<1>0. Len(ss) \in Nat
  OBVIOUS
<1>1. CASE Len(ss) = 0
  <2>1. FlattenSeq(ss) = ss /\ ss = << >>
    BY <1>1 DEF FlattenSeq
  <2>2. ToSet(ss) = {} /\ ss \in Seq(S) /\ 1..Len(ss) = {}
    BY <2>1 DEF ToSet
  <2> QED BY <2>1, <2>2
<1>2. CASE Len(ss) # 0
  <2>1. PICK f : /\ f = [i \in 1..Len(ss) |-> IF i = 1 THEN ss[i] ELSE f[i - 1] \o ss[i]]
                 /\ FlattenSeq(ss) = f[Len(ss)]
    BY <1>2, FlattenSteps
  <2> DEFINE Good(n) == f[n] \in Seq(S) /\ ToSet(f[n]) = UNION {ToSet(ss[i]) : i \in 1..n}
             Bad == {n \in 1..Len(ss) : ~Good(n)}
  <2>2. \A i \in 1..Len(ss) : f[i] = IF i = 1 THEN ss[i] ELSE f[i - 1] \o ss[i]
    BY <2>1
  <2>3. Bad = {}
    <3>1. SUFFICES ASSUME Bad # {} PROVE FALSE
      OBVIOUS
    <3>2. PICK n \in Bad : \A m \in Bad : n <= m
      <4>1. Bad \subseteq Nat
        <5> HIDE DEF Good
        <5> QED BY <1>0
      <4> HIDE DEF Bad
      <4> QED BY <3>1, <4>1, LeastNumber
    <3>3. n \in 1..Len(ss) /\ ~Good(n) /\ ss[n] \in Seq(S)
      <4> HIDE DEF Good
      <4> QED BY <3>2
    <3>4. CASE n = 1
      <4>1. f[n] = ss[n]
        BY <2>2, <3>3, <3>4
      <4>2. {ToSet(ss[i]) : i \in 1..n} = {ToSet(ss[n])}
        BY <3>4
      <4> QED BY <3>3, <4>1, <4>2
    <3>5. CASE n # 1
      <4>1. n - 1 \in 1..Len(ss) /\ ~(n <= n - 1) /\ 1..n = (1..n - 1) \cup {n}
        BY <1>0, <3>3, <3>5
      <4>2. Good(n - 1)
        <5> HIDE DEF Good
        <5> QED BY <3>2, <4>1
      <4>3. f[n] = f[n - 1] \o ss[n]
        BY <2>2, <3>3, <3>5
      <4>4. f[n] \in Seq(S) /\ ToSet(f[n]) = ToSet(f[n - 1]) \cup ToSet(ss[n])
        BY <3>3, <4>2, <4>3, Prepended
      <4>5. UNION {ToSet(ss[i]) : i \in 1..n}
              = (UNION {ToSet(ss[i]) : i \in 1..n - 1}) \cup ToSet(ss[n])
        BY <4>1
      <4>6. ToSet(f[n]) = UNION {ToSet(ss[i]) : i \in 1..n}
        BY <4>2, <4>4, <4>5
      <4> QED BY <3>3, <4>4, <4>6
    <3> QED BY <3>4, <3>5
  <2>4. Good(Len(ss))
    <3> HIDE DEF Good
    <3>1. Len(ss) \in 1..Len(ss)
      BY <1>0, <1>2
    <3> QED BY <2>3, <3>1
  <2> QED BY <2>1, <2>4
<1> QED BY <1>1, <1>2

(* A filtered order holds what passed, a reordered one what it did before.    *)
LEMMA OnlyElements ==
  ASSUME NEW S, NEW T, NEW order \in Seq(S)
  PROVE  Only(order, T) \in Seq(S) /\ ToSet(Only(order, T)) = ToSet(order) \cap T
<1> DEFINE ss == [i \in 1..Len(order) |-> IF order[i] \in T THEN <<order[i]>> ELSE << >>]
<1>1. \A i \in 1..Len(order) : order[i] \in S
  OBVIOUS
<1>2. ss \in Seq(Seq(S)) /\ Len(ss) = Len(order)
  BY <1>1
<1>3. \A i \in 1..Len(order) :
        ToSet(ss[i]) = IF order[i] \in T THEN {order[i]} ELSE {}
  <2>1. \A x : ToSet(<<x>>) = {x}
    BY DEF ToSet
  <2>2. ToSet(<< >>) = {}
    BY DEF ToSet
  <2> QED BY <2>1, <2>2
<1>4. UNION {ToSet(ss[i]) : i \in 1..Len(ss)} = ToSet(order) \cap T
  <2>1. ToSet(order) = {order[i] : i \in 1..Len(order)}
    BY DEF ToSet
  <2> HIDE DEF ss
  <2> QED BY <1>2, <1>3, <2>1
<1> HIDE DEF ss
<1> QED BY <1>2, <1>4, Flattened DEF Only, ss

LEMMA FirstElements ==
  ASSUME NEW T, NEW order \in Seq(Platforms)
  PROVE  First(order, T) \in Seq(Platforms) /\ ToSet(First(order, T)) = ToSet(order)
<1>1. ToSet(order) \subseteq Platforms
  BY DEF ToSet
<1>2. /\ Only(order, T) \in Seq(Platforms)
      /\ ToSet(Only(order, T)) = ToSet(order) \cap T
      /\ Only(order, Platforms \ T) \in Seq(Platforms)
      /\ ToSet(Only(order, Platforms \ T)) = ToSet(order) \cap (Platforms \ T)
  BY OnlyElements
<1>3. ToSet(order) = (ToSet(order) \cap T) \cup (ToSet(order) \cap (Platforms \ T))
  BY <1>1
<1> DEFINE a == Only(order, T)
           b == Only(order, Platforms \ T)
<1>4. a \o b \in Seq(Platforms) /\ ToSet(a \o b) = ToSet(a) \cup ToSet(b)
  <2>1. a \in Seq(Platforms) /\ b \in Seq(Platforms)
    BY <1>2
  <2> HIDE DEF a, b
  <2> QED BY <2>1, Prepended
<1> QED BY <1>2, <1>3, <1>4 DEF First

LEMMA BurstElements ==
  ASSUME NEW role, NEW order \in Seq(Platforms)
  PROVE  BurstFirst(order, role) \in Seq(Platforms) /\ ToSet(BurstFirst(order, role)) = ToSet(order)
BY FirstElements DEF BurstFirst

(* pick returns a candidate that passes every gate, and nothing only when none*)
(* does.                                                                      *)
LEMMA ChosenIsFirst ==
  ASSUME NEW r, NEW role, NEW order \in Seq(Platforms), None \notin Platforms
  PROVE  IF pick(r, role, order) = None THEN \A p \in ToSet(order) : ~Passes(r, role, p, FALSE)
         ELSE pick(r, role, order) \in ToSet(order) /\ Passes(r, role, pick(r, role, order), FALSE)
<1> DEFINE T == {p \in ToSet(order) : Passes(r, role, p, FALSE)}
           fit == Only(order, T)
<1>1. fit \in Seq(Platforms) /\ ToSet(fit) = T
  <2> HIDE DEF T
  <2>1. fit \in Seq(Platforms) /\ ToSet(fit) = ToSet(order) \cap T
    BY OnlyElements
  <2> QED BY <2>1 DEF T
<1>2. pick(r, role, order) = IF fit = << >> THEN None ELSE fit[1]
  BY DEF pick, FirstOf
<1>3. CASE fit = << >>
  <2> HIDE DEF fit
  <2>1. ToSet(fit) = {}
    BY <1>3 DEF ToSet
  <2> QED BY <1>1, <1>2, <1>3, <2>1
<1>4. CASE fit # << >>
  <2> HIDE DEF fit
  <2>1. 1 \in DOMAIN fit /\ fit[1] \in Platforms
    BY <1>1, <1>4
  <2>2. fit[1] \in ToSet(fit)
    BY <2>1 DEF ToSet
  <2> QED BY <1>1, <1>2, <1>4, <2>1, <2>2
<1> QED BY <1>3, <1>4

(* Dealing the accounts' candidates in turn (equal mode) loses none of them; a*)
(* pin takes the first account that has it.                                   *)
LEMMA LongestIsLongest ==
  ASSUME NEW S, NEW each \in Seq(Seq(S)), Len(each) # 0
  PROVE  Longest(each) \in Nat /\ \A i \in 1..Len(each) : Len(each[i]) <= Longest(each)
<1> DEFINE Tops == {n \in 1..Len(each) : ~\E m \in 1..n : \A i \in 1..n : Len(each[i]) <= Len(each[m])}
<1>1. /\ Len(each) \in Nat \ {0} /\ DOMAIN each = 1..Len(each)
      /\ \A i \in 1..Len(each) : each[i] \in Seq(S) /\ Len(each[i]) \in Nat
  OBVIOUS
<1>2. Tops = {}
  <2>1. SUFFICES ASSUME Tops # {} PROVE FALSE
    OBVIOUS
  <2>2. PICK n \in Tops : \A m \in Tops : n <= m
    <3>1. Tops \subseteq Nat
      BY <1>1
    <3> HIDE DEF Tops
    <3> QED BY <2>1, <3>1, LeastNumber
  <2>3. n \in 1..Len(each)
    BY <2>2
  <2>4. CASE n = 1
    BY <1>1, <2>2, <2>3, <2>4
  <2>5. CASE n # 1
    <3>1. n - 1 \in 1..Len(each) /\ ~(n <= n - 1) /\ 1..n = (1..n - 1) \cup {n}
      <4> HIDE DEF Tops
      <4> QED BY <1>1, <2>3, <2>5
    <3>2. n - 1 \notin Tops
      <4> HIDE DEF Tops
      <4> QED BY <2>2, <3>1
    <3>3. PICK m \in 1..n - 1 : \A i \in 1..n - 1 : Len(each[i]) <= Len(each[m])
      BY <3>1, <3>2
    <3>4. m \in 1..n /\ n \in 1..n /\ m \in 1..Len(each)
      BY <1>1, <2>3, <3>1
    <3>5. CASE Len(each[n]) <= Len(each[m])
      <4>1. \A i \in 1..n : Len(each[i]) <= Len(each[m])
        BY <3>1, <3>3, <3>5
      <4> QED BY <2>2, <3>4, <4>1
    <3>6. CASE ~(Len(each[n]) <= Len(each[m]))
      <4>1. \A i \in 1..n : Len(each[i]) <= Len(each[n])
        <5>1. Len(each[m]) <= Len(each[n])
          BY <1>1, <2>3, <3>4, <3>6
        <5>2. ASSUME NEW i \in 1..n - 1 PROVE Len(each[i]) <= Len(each[n])
          <6>1. i \in 1..Len(each)
            BY <1>1, <2>3
          <6> QED BY <1>1, <2>3, <3>3, <3>4, <5>1, <6>1
        <5> QED BY <1>1, <2>3, <3>1, <5>2
      <4> QED BY <2>2, <3>4, <4>1
    <3> QED BY <3>5, <3>6
  <2> QED BY <2>4, <2>5
<1>3. Len(each) \in 1..Len(each) /\ Len(each) \notin Tops
  <2> HIDE DEF Tops
  <2> QED BY <1>1, <1>2
<1>4. PICK m \in 1..Len(each) : \A i \in 1..Len(each) : Len(each[i]) <= Len(each[m])
  BY <1>3
<1>5. Len(each[m]) \in {Len(each[i]) : i \in DOMAIN each}
  BY <1>1
<1>6. /\ Longest(each) \in {Len(each[i]) : i \in DOMAIN each}
      /\ \A i \in DOMAIN each : Len(each[i]) <= Longest(each)
  BY <1>1, <1>4, <1>5 DEF Longest
<1> QED BY <1>1, <1>6

LEMMA DealtElements ==
  ASSUME NEW S, NEW each \in Seq(Seq(S)), Len(each) # 0
  PROVE  /\ Dealt(each) \in Seq(S)
         /\ ToSet(Dealt(each)) = UNION {ToSet(each[i]) : i \in 1..Len(each)}
<1> DEFINE L == Longest(each)
           row(n) == [i \in 1..Len(each) |-> IF n <= Len(each[i]) THEN <<each[i][n]>> ELSE << >>]
           rounds == [n \in 1..L |-> FlattenSeq(row(n))]
<1>1. L \in Nat /\ \A i \in 1..Len(each) : Len(each[i]) <= L
  BY LongestIsLongest
<1> HIDE DEF L
<1>2. /\ Len(each) \in Nat
      /\ \A i \in 1..Len(each) : /\ each[i] \in Seq(S) /\ Len(each[i]) \in Nat
                                  /\ ToSet(each[i]) = {each[i][n] : n \in 1..Len(each[i])}
  BY DEF ToSet
<1>3. ASSUME NEW n \in 1..L
      PROVE  /\ FlattenSeq(row(n)) \in Seq(S)
             /\ ToSet(FlattenSeq(row(n)))
                  = {each[i][n] : i \in {i \in 1..Len(each) : n <= Len(each[i])}}
  <2>1. ASSUME NEW i \in 1..Len(each), n <= Len(each[i]) PROVE each[i][n] \in S
    BY <1>1, <1>2, <2>1
  <2>2. row(n) \in Seq(Seq(S)) /\ Len(row(n)) = Len(each)
    BY <1>2, <2>1
  <2>3. ToSet(<< >>) = {} /\ \A x : ToSet(<<x>>) = {x}
    BY DEF ToSet
  <2>4. \A i \in 1..Len(each) :
          ToSet(row(n)[i]) = IF n <= Len(each[i]) THEN {each[i][n]} ELSE {}
    BY <2>3
  <2> HIDE DEF row
  <2>5. UNION {ToSet(row(n)[i]) : i \in 1..Len(each)}
          = {each[i][n] : i \in {i \in 1..Len(each) : n <= Len(each[i])}}
    <3>1. ASSUME NEW x, NEW i \in 1..Len(each), x \in ToSet(row(n)[i])
          PROVE  n <= Len(each[i]) /\ x = each[i][n]
      BY <2>4, <3>1
    <3>2. ASSUME NEW i \in 1..Len(each), n <= Len(each[i])
          PROVE  each[i][n] \in ToSet(row(n)[i])
      BY <2>4, <3>2
    <3>3. ASSUME NEW x \in UNION {ToSet(row(n)[i]) : i \in 1..Len(each)}
          PROVE  x \in {each[i][n] : i \in {i \in 1..Len(each) : n <= Len(each[i])}}
      <4>1. PICK i \in 1..Len(each) : x \in ToSet(row(n)[i])
        OBVIOUS
      <4> QED BY <3>1, <4>1
    <3>4. ASSUME NEW x \in {each[i][n] : i \in {i \in 1..Len(each) : n <= Len(each[i])}}
          PROVE  x \in UNION {ToSet(row(n)[i]) : i \in 1..Len(each)}
      <4>1. PICK i \in 1..Len(each) : n <= Len(each[i]) /\ x = each[i][n]
        OBVIOUS
      <4> QED BY <3>2, <4>1
    <3> QED BY <3>3, <3>4
  <2> QED BY <2>2, <2>5, Flattened
<1> HIDE DEF row
<1>4. rounds \in Seq(Seq(S)) /\ Len(rounds) = L
  <2>1. rounds \in [1..L -> Seq(S)]
    BY <1>3
  <2> HIDE DEF rounds
  <2> QED BY <1>1, <2>1
<1>5. UNION {ToSet(rounds[n]) : n \in 1..Len(rounds)} = UNION {ToSet(each[i]) : i \in 1..Len(each)}
  <2>1. \A n \in 1..L : ToSet(rounds[n])
          = {each[i][n] : i \in {i \in 1..Len(each) : n <= Len(each[i])}}
    BY <1>3
  <2> HIDE DEF rounds
  <2>2. ASSUME NEW n \in 1..L, NEW x \in ToSet(rounds[n])
        PROVE  \E i \in 1..Len(each) : x \in ToSet(each[i])
    <3>1. PICK i \in 1..Len(each) : n <= Len(each[i]) /\ x = each[i][n]
      BY <2>1
    <3>2. n \in 1..Len(each[i])
      BY <1>1, <1>2, <3>1
    <3> QED BY <1>2, <3>1, <3>2
  <2>3. ASSUME NEW i \in 1..Len(each), NEW x \in ToSet(each[i])
        PROVE  \E n \in 1..L : x \in ToSet(rounds[n])
    <3>1. PICK n \in 1..Len(each[i]) : x = each[i][n]
      BY <1>2
    <3>2. n \in 1..L /\ n <= Len(each[i])
      BY <1>1, <1>2
    <3> QED BY <2>1, <3>1, <3>2
  <2>4. ASSUME NEW x \in UNION {ToSet(rounds[n]) : n \in 1..L}
        PROVE  x \in UNION {ToSet(each[i]) : i \in 1..Len(each)}
    <3>1. PICK n \in 1..L : x \in ToSet(rounds[n])
      OBVIOUS
    <3> QED BY <2>2, <3>1
  <2>5. ASSUME NEW x \in UNION {ToSet(each[i]) : i \in 1..Len(each)}
        PROVE  x \in UNION {ToSet(rounds[n]) : n \in 1..L}
    <3>1. PICK i \in 1..Len(each) : x \in ToSet(each[i])
      OBVIOUS
    <3> QED BY <2>3, <3>1
  <2> QED BY <1>4, <2>4, <2>5
<1>6. Dealt(each) = FlattenSeq(rounds)
  BY DEF Dealt, rounds, row, L
<1> HIDE DEF rounds
<1> QED BY <1>4, <1>5, <1>6, Flattened

LEMMA HitElements ==
  ASSUME NEW S, NEW each \in Seq(Seq(S))
  PROVE  \/ FirstHit(each) = << >> /\ \A i \in 1..Len(each) : each[i] = << >>
         \/ \E i \in 1..Len(each) : FirstHit(each) = each[i] /\ each[i] # << >>
<1> DEFINE hits == {i \in DOMAIN each : each[i] # << >>}
<1>1. DOMAIN each = 1..Len(each) /\ Len(each) \in Nat
  OBVIOUS
<1>2. CASE hits = {}
  BY <1>1, <1>2 DEF FirstHit
<1>3. CASE hits # {}
  <2>1. hits \subseteq Nat
    BY <1>1
  <2>2. \E i \in hits : \A j \in hits : i <= j
    <3> HIDE DEF hits
    <3> QED BY <1>3, <2>1, LeastNumber
  <2>3. FirstHit(each) = each[CHOOSE i \in hits : \A j \in hits : i <= j]
    BY <1>3 DEF FirstHit
  <2>4. (CHOOSE i \in hits : \A j \in hits : i <= j) \in hits
    <3> HIDE DEF hits
    <3> QED BY <2>2
  <2> QED BY <1>1, <2>3, <2>4
<1> QED BY <1>2, <1>3

(* measured_order sorts: Before ranks platforms by class, verdict and cost,   *)
(* the places it gives are a permutation, and the order it returns holds what *)
(* it was given.                                                              *)
LEMMA BeforeIsWeak ==
  ASSUME RouterAssumption, NEW p \in Platforms, NEW q \in Platforms, NEW x \in Platforms
  PROVE  /\ ~(Before(p, q) /\ Before(q, p))
         /\ Before(p, q) /\ Before(q, x) => Before(p, x)
         /\ ~Before(p, q) /\ ~Before(q, x) => ~Before(p, x)
<1> DEFINE class(y) == IF PConf[y].paid THEN 1 ELSE 0
           rank(y) == StatusRank[Proof[y].status]
           cost(y) == IF Proof[y].status = "good" THEN Proof[y].cost ELSE 99
<1>1. ASSUME NEW y \in Platforms
      PROVE  class(y) \in Int /\ rank(y) \in Int /\ cost(y) \in Int
  BY DEF RouterAssumption, StatusRank
<1>2. ASSUME NEW y \in Platforms, NEW z \in Platforms
      PROVE  Proof[y].status = Proof[z].status <=> rank(y) = rank(z)
  BY DEF RouterAssumption, StatusRank
<1>3. ASSUME NEW y \in Platforms, NEW z \in Platforms
      PROVE  Before(y, z) <=> \/ class(y) < class(z)
                              \/ class(y) = class(z) /\ rank(y) < rank(z)
                              \/ class(y) = class(z) /\ rank(y) = rank(z) /\ cost(y) < cost(z)
  BY <1>2 DEF Before
<1> HIDE DEF class, rank, cost
<1> QED BY <1>1, <1>3

LEMMA SortedElements ==
  ASSUME RouterAssumption, NEW order \in Seq(Platforms)
  PROVE  Sorted(order) \in Seq(Platforms) /\ ToSet(Sorted(order)) = ToSet(order)
<1> DEFINE N == Len(order)
           Ahead(j, i) == Before(order[j], order[i]) \/ (~Before(order[i], order[j]) /\ j <= i)
           D(i) == {j \in 1..N : Ahead(j, i)}
<1>1. N \in Nat /\ DOMAIN order = 1..N /\ \A i \in 1..N : order[i] \in Platforms
  OBVIOUS
<1>2. \A i \in 1..N : Ahead(i, i)
  BY <1>1, BeforeIsWeak
<1>3. \A i, j \in 1..N : Ahead(i, j) \/ Ahead(j, i)
  BY <1>1, BeforeIsWeak
<1>4. \A i, j \in 1..N : Ahead(i, j) /\ Ahead(j, i) => i = j
  BY <1>1, BeforeIsWeak
<1>5. ASSUME NEW i \in 1..N, NEW j \in 1..N, NEW k \in 1..N, Ahead(i, j), Ahead(j, k)
      PROVE  Ahead(i, k)
  <2> DEFINE p == order[i]
             q == order[j]
             x == order[k]
  <2>1. p \in Platforms /\ q \in Platforms /\ x \in Platforms
    BY <1>1
  <2> HIDE DEF p, q, x
  <2>2. /\ ~(Before(p, q) /\ Before(q, p)) /\ ~(Before(q, x) /\ Before(x, q))
        /\ Before(p, q) /\ Before(q, x) => Before(p, x)
        /\ ~Before(x, q) /\ ~Before(q, p) => ~Before(x, p)
        /\ ~Before(q, p) /\ ~Before(p, x) => ~Before(q, x)
        /\ ~Before(p, x) /\ ~Before(x, q) => ~Before(p, q)
    BY <2>1, BeforeIsWeak
  <2>3. Before(p, q) \/ (~Before(q, p) /\ i <= j)
    BY <1>5 DEF p, q
  <2>4. Before(q, x) \/ (~Before(x, q) /\ j <= k)
    BY <1>5 DEF q, x
  <2>5. Before(p, x) \/ (~Before(x, p) /\ i <= k)
    BY <1>1, <2>2, <2>3, <2>4
  <2> QED BY <2>5 DEF p, x
<1> HIDE DEF Ahead
<1>6. ASSUME NEW i \in 1..N PROVE Cardinality(D(i)) \in 1..N /\ IsFiniteSet(D(i))
  <2>0. IsFiniteSet(1..N) /\ Cardinality(1..N) = IF 1 > N THEN 0 ELSE N - 1 + 1
    <3> HIDE DEF N
    <3> QED BY <1>1, FS_Interval
  <2>1. IsFiniteSet(1..N) /\ Cardinality(1..N) = N /\ D(i) \subseteq 1..N
    <3> HIDE DEF N
    <3> QED BY <1>1, <2>0
  <2>2. IsFiniteSet(D(i)) /\ Cardinality(D(i)) <= N /\ Cardinality(D(i)) \in Nat
    BY <2>1, FS_Subset, FS_CardinalityType
  <2>3. i \in D(i)
    BY <1>2
  <2>4. Cardinality(D(i)) # 0
    BY <2>2, <2>3, FS_EmptySet
  <2> QED BY <1>1, <2>2, <2>4
<1>7. ASSUME NEW i \in 1..N, NEW k \in 1..N, i # k, Ahead(i, k)
      PROVE  Cardinality(D(i)) # Cardinality(D(k))
  <2>1. D(i) \subseteq D(k)
    BY <1>5, <1>7
  <2>2. k \in D(k) /\ k \notin D(i)
    BY <1>2, <1>4, <1>7
  <2> HIDE DEF D
  <2> QED BY <1>6, <2>1, <2>2, FS_Subset
<1> DEFINE f == [i \in 1..N |-> Cardinality(D(i))]
<1>8. f \in Injection(1..N, 1..N)
  <2>1. f \in [1..N -> 1..N]
    BY <1>6
  <2>2. ASSUME NEW i \in 1..N, NEW k \in 1..N, f[i] = f[k] PROVE i = k
    <3>1. Cardinality(D(i)) = Cardinality(D(k))
      BY <2>2
    <3> HIDE DEF D
    <3> QED BY <1>3, <1>7, <3>1
  <2> HIDE DEF f
  <2> QED BY <2>1, <2>2 DEF Injection, IsInjective
<1>9. f \in Surjection(1..N, 1..N)
  <2>1. IsFiniteSet(1..N)
    BY <1>1, FS_Interval
  <2> HIDE DEF f
  <2> QED BY <1>8, <2>1, FS_Injection
<1>10. \A i \in 1..N : Place(order, i) = Cardinality(D(i))
  BY <1>1 DEF Place, Ahead
<1> DEFINE g == [n \in 1..N |-> CHOOSE i \in 1..N : Place(order, i) = n]
<1>11. ASSUME NEW n \in 1..N PROVE g[n] \in 1..N /\ Place(order, g[n]) = n
  <2>1. \E i \in 1..N : f[i] = n
    <3> HIDE DEF f
    <3> QED BY <1>9 DEF Surjection
  <2>2. \E i \in 1..N : Place(order, i) = n
    BY <1>10, <2>1
  <2> QED BY <2>2
<1>12. Sorted(order) = [n \in 1..N |-> order[g[n]]]
  BY <1>1 DEF Sorted
<1>13. Sorted(order) \in Seq(Platforms) /\ Len(Sorted(order)) = N
  <2> HIDE DEF g
  <2> QED BY <1>1, <1>11, <1>12
<1>14. ASSUME NEW i \in 1..N PROVE \E n \in 1..N : g[n] = i
  <2>1. Place(order, i) \in 1..N
    BY <1>6, <1>10
  <2> DEFINE k == g[Place(order, i)]
  <2>2. k \in 1..N /\ Place(order, k) = Place(order, i)
    <3> HIDE DEF g
    <3> QED BY <1>11, <2>1
  <2>3. Cardinality(D(k)) = Cardinality(D(i))
    <3> HIDE DEF k
    <3> QED BY <1>10, <2>2
  <2>4. k = i
    <3> HIDE DEF k, D
    <3> QED BY <1>3, <1>7, <2>2, <2>3
  <2> QED BY <2>1, <2>4
<1>15. ToSet(Sorted(order)) = ToSet(order)
  <2> HIDE DEF g, f, D
  <2>1. ToSet(Sorted(order)) = {order[g[n]] : n \in 1..N}
    BY <1>12 DEF ToSet
  <2>2. ToSet(order) = {order[i] : i \in 1..N}
    BY <1>1 DEF ToSet
  <2>3. ASSUME NEW x \in ToSet(order) PROVE x \in ToSet(Sorted(order))
    <3>1. PICK i \in 1..N : x = order[i]
      BY <2>2
    <3>2. PICK n \in 1..N : g[n] = i
      BY <1>14
    <3> QED BY <2>1, <3>1, <3>2
  <2>4. ASSUME NEW x \in ToSet(Sorted(order)) PROVE x \in ToSet(order)
    <3>1. PICK n \in 1..N : x = order[g[n]]
      BY <2>1
    <3> QED BY <1>11, <2>2, <3>1
  <2> QED BY <2>3, <2>4
<1> QED BY <1>13, <1>15

LEMMA OrderedElements ==
  ASSUME RouterAssumption, NEW r, NEW role, NEW order \in Seq(Platforms)
  PROVE  Ordered(r, role, order) \in Seq(Platforms) /\ ToSet(Ordered(r, role, order)) = ToSet(order)
BY SortedElements, BurstElements DEF Ordered, measured_order

(* The candidates of a request, in each of the three account modes: enabled   *)
(* platforms of the project's accounts, and of the pin when there is one.     *)
LEMMA GivenRoutes ==
  ASSUME NEW table, IsRoutes(table), NEW role
  PROVE  Given(table, role) \in Seq(Platforms) /\ Route(table, role) \in Seq(Platforms)
BY DEF IsRoutes, Given, Route

LEMMA AccountCandidates ==
  ASSUME RouterAssumption, NEW role, NEW pin \in Platforms \cup {None}, NEW a \in DOMAIN Routes
  PROVE  /\ candidates(role, pin, a) \in Seq(Platforms)
         /\ \A p \in ToSet(candidates(role, pin, a)) :
              p \in Platforms /\ Enabled(p) /\ PConf[p].account = a /\ (pin # None => p = pin)
         /\ pin # None /\ Enabled(pin) /\ PConf[pin].account = a
              => pin \in ToSet(candidates(role, pin, a))
<1> DEFINE order == IF pin # None THEN <<pin>> ELSE BurstFirst(Route(Routes[a], role), role)
           own == {p \in Platforms : Enabled(p) /\ PConf[p].account = a}
<1>1. order \in Seq(Platforms) /\ (pin # None => ToSet(order) = {pin})
  <2>1. CASE pin # None
    BY <2>1 DEF ToSet
  <2>2. CASE pin = None
    <3>1. Route(Routes[a], role) \in Seq(Platforms)
      BY GivenRoutes DEF RouterAssumption
    <3> QED BY <2>2, <3>1, BurstElements
  <2> QED BY <2>1, <2>2
<1>2. Only(order, own) \in Seq(Platforms) /\ ToSet(Only(order, own)) = ToSet(order) \cap own
  <2> HIDE DEF order, own
  <2> QED BY <1>1, OnlyElements
<1>3. candidates(role, pin, a) = Only(order, own)
  BY DEF candidates
<1>4. ToSet(candidates(role, pin, a)) = ToSet(order) \cap own
  BY <1>2, <1>3
<1> HIDE DEF order
<1> QED BY <1>1, <1>2, <1>3, <1>4

LEMMA CandidateElements ==
  ASSUME RouterAssumption, NEW r \in Asked, NEW role
  PROVE  /\ CandidatesOf(r, role) \in Seq(Platforms)
         /\ \A p \in ToSet(CandidatesOf(r, role)) :
              /\ p \in Platforms /\ Enabled(p) /\ (r.pin # None => p = r.pin)
              /\ PConf[p].account \in ToSet(Policy[r.project].accounts)
         /\ /\ r.pin # None /\ Enabled(r.pin)
            /\ PConf[r.pin].account \in ToSet(Policy[r.project].accounts)
            => r.pin \in ToSet(CandidatesOf(r, role))
<1> DEFINE pol == Policy[r.project]
           accts == pol.accounts
           each == [i \in 1..Len(accts) |-> candidates(role, r.pin, accts[i])]
           Fine(c) == /\ c \in Seq(Platforms)
                      /\ \A p \in ToSet(c) : /\ p \in Platforms /\ Enabled(p)
                                             /\ r.pin # None => p = r.pin
                                             /\ PConf[p].account \in ToSet(accts)
                      /\ r.pin # None /\ Enabled(r.pin) /\ PConf[r.pin].account \in ToSet(accts)
                           => r.pin \in ToSet(c)
<1>1. /\ r.project \in Projects /\ r.pin \in Platforms \cup {None}
      /\ accts \in Seq(DOMAIN Routes) /\ Len(accts) # 0 /\ Len(accts) \in Nat
      /\ pol.mode \in {"order", "equal", "priority"} /\ IsRoutes(pol.routing)
  <2>1. r.project \in Projects /\ r.pin \in Platforms \cup {None}
    BY DEF RouterAssumption
  <2>2. accts \in Seq(DOMAIN Routes) \ {<< >>} /\ pol.mode \in {"order", "equal", "priority"}
        /\ IsRoutes(pol.routing)
    BY <2>1 DEF RouterAssumption
  <2> QED BY <2>1, <2>2
<1>2. /\ \A i \in 1..Len(accts) : accts[i] \in DOMAIN Routes
      /\ ToSet(accts) = {accts[i] : i \in 1..Len(accts)}
  BY <1>1 DEF ToSet
<1> HIDE DEF accts
<1>3. \A i \in 1..Len(accts) :
        /\ candidates(role, r.pin, accts[i]) \in Seq(Platforms)
        /\ \A p \in ToSet(candidates(role, r.pin, accts[i])) :
             p \in Platforms /\ Enabled(p) /\ PConf[p].account = accts[i] /\ (r.pin # None => p = r.pin)
        /\ r.pin # None /\ Enabled(r.pin) /\ PConf[r.pin].account = accts[i]
             => r.pin \in ToSet(candidates(role, r.pin, accts[i]))
  BY <1>1, <1>2, AccountCandidates
<1>4. /\ each \in Seq(Seq(Platforms)) /\ Len(each) = Len(accts)
      /\ \A i \in 1..Len(accts) : each[i] = candidates(role, r.pin, accts[i])
  BY <1>1, <1>3
<1> HIDE DEF each
<1>5. ASSUME NEW c \in Seq(Platforms), ToSet(c) = UNION {ToSet(each[i]) : i \in 1..Len(each)}
      PROVE  Fine(c)
  <2>1. ASSUME NEW p \in ToSet(c)
        PROVE  /\ p \in Platforms /\ Enabled(p) /\ (r.pin # None => p = r.pin)
               /\ PConf[p].account \in ToSet(accts)
    <3>1. PICK i \in 1..Len(accts) : p \in ToSet(each[i])
      BY <1>4, <1>5
    <3> QED BY <1>2, <1>3, <1>4, <3>1
  <2>2. ASSUME r.pin # None, Enabled(r.pin), PConf[r.pin].account \in ToSet(accts)
        PROVE  r.pin \in ToSet(c)
    <3>1. PICK i \in 1..Len(accts) : PConf[r.pin].account = accts[i]
      BY <1>2, <2>2
    <3>2. r.pin \in ToSet(each[i])
      BY <1>3, <1>4, <2>2, <3>1
    <3> QED BY <1>4, <1>5, <3>2
  <2> QED BY <2>1, <2>2
<1>6. CASE pol.mode = "order"
  <2>1. CandidatesOf(r, role) = FlattenSeq(each)
    BY <1>6 DEF CandidatesOf, each, accts
  <2> HIDE DEF Fine
  <2>2. Fine(FlattenSeq(each))
    BY <1>4, <1>5, Flattened
  <2> QED BY <2>1, <2>2 DEF Fine, accts
<1>7. CASE pol.mode = "equal"
  <2>1. CandidatesOf(r, role) = IF r.pin = None THEN Dealt(each) ELSE FirstHit(each)
    BY <1>7 DEF CandidatesOf, candidates_for_accounts, each, accts
  <2>2. CASE r.pin = None
    <3> HIDE DEF Fine
    <3>1. Fine(Dealt(each))
      BY <1>1, <1>4, <1>5, DealtElements
    <3> QED BY <2>1, <2>2, <3>1 DEF Fine, accts
  <2>3. CASE r.pin # None
    <3>1. Fine(FirstHit(each))
      <4>1. CASE FirstHit(each) = << >> /\ \A i \in 1..Len(each) : each[i] = << >>
        <5>1. ToSet(<< >>) = {} /\ << >> \in Seq(Platforms)
          BY DEF ToSet
        <5>2. \A i \in 1..Len(each) : ToSet(each[i]) = {}
          BY <4>1, <5>1
        <5>3. ToSet(FirstHit(each)) = UNION {ToSet(each[i]) : i \in 1..Len(each)}
          BY <4>1, <5>1, <5>2
        <5> QED BY <1>5, <4>1, <5>1, <5>3
      <4>2. ASSUME NEW i \in 1..Len(each), FirstHit(each) = each[i], each[i] # << >>
            PROVE  Fine(FirstHit(each))
        <5>1. each[i] \in Seq(Platforms)
          BY <1>4
        <5>2. PICK p : p \in ToSet(each[i])
          <6>1. 1 \in DOMAIN each[i]
            BY <4>2, <5>1
          <6> QED BY <6>1 DEF ToSet
        <5>3. r.pin \in ToSet(each[i])
          BY <1>3, <1>4, <2>3, <5>2
        <5>4. \A q \in ToSet(each[i]) : /\ q \in Platforms /\ Enabled(q) /\ (r.pin # None => q = r.pin)
                                        /\ PConf[q].account \in ToSet(accts)
          BY <1>2, <1>3, <1>4
        <5> QED BY <4>2, <5>1, <5>3, <5>4
      <4> HIDE DEF Fine
      <4> QED BY <1>4, <4>1, <4>2, HitElements
    <3> QED BY <2>1, <2>3, <3>1 DEF accts
  <2> QED BY <2>2, <2>3
<1>8. CASE pol.mode = "priority"
  <2> DEFINE own == CASE role = "fix" -> Given(pol.routing, "build")
                      [] role = "review" -> Route(pol.routing, "review")
                      [] OTHER -> Given(pol.routing, role)
             order == IF r.pin # None THEN <<r.pin>> ELSE BurstFirst(own, role)
             allowed == {p \in Platforms : Enabled(p) /\ PConf[p].account \in ToSet(accts)}
  <2>1. CandidatesOf(r, role) = Only(order, allowed)
    BY <1>8 DEF CandidatesOf, candidates_for_priority, accts
  <2>2. own \in Seq(Platforms)
    <3>1. \A x : Given(pol.routing, x) \in Seq(Platforms) /\ Route(pol.routing, x) \in Seq(Platforms)
      BY <1>1, GivenRoutes
    <3> HIDE DEF pol
    <3> QED BY <3>1
  <2>3. order \in Seq(Platforms) /\ (r.pin # None => ToSet(order) = {r.pin})
    <3> HIDE DEF own
    <3>1. CASE r.pin # None
      BY <1>1, <3>1 DEF ToSet
    <3>2. CASE r.pin = None
      BY <2>2, <3>2, BurstElements
    <3> QED BY <3>1, <3>2
  <2> HIDE DEF order
  <2>4. /\ Only(order, allowed) \in Seq(Platforms)
        /\ ToSet(Only(order, allowed)) = ToSet(order) \cap allowed
    <3> HIDE DEF allowed
    <3> QED BY <2>3, OnlyElements
  <2> QED BY <1>1, <2>1, <2>3, <2>4 DEF accts
<1> QED BY <1>1, <1>6, <1>7, <1>8

(* The types of what the router reads.                                        *)
Sample == [pct : Nat, resets : Nat, sampled : Int]
Reasons == {None, "auth", "no_credit", "no_free_models", "silent"}
HoldType == [until : Nat, why : Reasons]
ReportType == [windows : SUBSET Windows, blocked : BOOLEAN, sampled : Int]
RouterTypes ==
  /\ hour \in Nat
  /\ usage \in [Platforms -> [Windows -> Sample]]
  /\ hold \in [Platforms -> HoldType] /\ report \in [Platforms -> ReportType]
  /\ held \in [Projects \X Platforms -> Nat]
  /\ free \in [Platforms -> Nat] /\ credit \in [Platforms -> Nat]

States == {"ok", "soft", "hard", "stale", "blocked", "no_credit"}

(* A platform that may run is neither held nor refused its model.             *)
LEMMA StatesOfUsage ==
  ASSUME NEW p \in Platforms, NEW role
  PROVE  /\ _quota_usage_state(p) \in States /\ usage_state(p, role) \in States
         /\ usage_state(p, role) = "ok" => ~model_blocked(p, role) /\ _quota_usage_state(p) = "ok"
<1>1. _quota_usage_state(p) \in States
  BY DEF _quota_usage_state, Worst, States
<1> QED BY <1>1 DEF usage_state, Refused, States

LEMMA PickedIsACandidate ==
  ASSUME RouterAssumption, NEW r \in Asked
  PROVE  LET role == route_role(r.role)
             C == ToSet(CandidatesOf(r, role))
         IN  IF pick_for_project(r) = None THEN \A p \in C : ~Passes(r, role, p, FALSE)
             ELSE pick_for_project(r) \in C /\ Passes(r, role, pick_for_project(r), FALSE)
<1> DEFINE role == route_role(r.role)
           c == CandidatesOf(r, role)
           o == Ordered(r, role, c)
<1>1. c \in Seq(Platforms)
  BY CandidateElements
<1> HIDE DEF c
<1>2. o \in Seq(Platforms) /\ ToSet(o) = ToSet(c)
  BY <1>1, OrderedElements
<1>3. None \notin Platforms
  BY DEF RouterAssumption
<1>4. pick_for_project(r) = pick(r, role, o)
  BY DEF pick_for_project, c
<1> HIDE DEF o, role
<1>5. IF pick(r, role, o) = None THEN \A p \in ToSet(o) : ~Passes(r, role, p, FALSE)
      ELSE pick(r, role, o) \in ToSet(o) /\ Passes(r, role, pick(r, role, o), FALSE)
  BY <1>2, <1>3, ChosenIsFirst
<1> QED BY <1>2, <1>4, <1>5 DEF c, role

(* diagnose, platform by platform; and the blockers of a platform are none    *)
(* exactly when it is a candidate that passes the gates of pick.              *)
LEMMA BlockersOf ==
  ASSUME NEW r, NEW p \in Platforms
  PROVE  LET c == PConf[p]
             pol == Policy[r.project]
             isPin == p = r.pin
             state == usage_state(p, r.role)
             Is(code, when) == IF when THEN {code} ELSE {}
         IN  diagnose(r)[p] =
               Is("disabled", ~c.enabled)
               \cup (IF c.account \notin ToSet(pol.accounts) THEN {"account"}
                     ELSE IF r.pin # None /\ ~isPin THEN {"pin"}
                     ELSE Is("route", /\ ~isPin
                                      /\ p \notin ToSet(CandidatesOf([r EXCEPT !.pin = None],
                                                                    route_role(r.role)))))
               \cup Is("excluded", c.slot \in slots(r.exclude))
               \cup Is("slots_busy", p \in r.busy)
               \cup Is("tier", ~isPin /\ Rated(r.role) /\ c.tier < r.tier)
               \cup Is("approval", ~isPin /\ c.approval)
               \cup Is("size", ~FitsSize(r, r.role, p, 0))
               \cup Is("peak", ~isPin /\ peak_active /\ c.kind = "claude")
               \cup (CASE state = "no_credit" -> {"no_credit"}
                       [] \/ model_blocked(p, r.role)
                          \/ held[<<r.project, p>>] > hour
                          \/ state = "blocked" -> {"hold"}
                       [] state \in {"soft", "hard"} -> {IF hold[p].until > hour THEN "hold" ELSE "quota"}
                       [] state = "stale" -> {"unknown"}
                       [] OTHER -> {})
BY DEF diagnose

LEMMA BlockersAgree ==
  ASSUME RouterAssumption, RouterTypes, NEW r \in Asked, r.role # "design", NEW p \in Platforms
  PROVE  LET C == ToSet(CandidatesOf(r, r.role)) IN
         /\ diagnose(r)[p] = {} <=> p \in C /\ Passes(r, r.role, p, FALSE)
         /\ p \in C /\ Passes(r, r.role, p, TRUE) => diagnose(r)[p] \subseteq {"size"}
         /\ r.role = "review" /\ p \in stale_candidates(r) => diagnose(r)[p] \ {"peak"} = {"unknown"}
<1> DEFINE C == ToSet(CandidatesOf(r, r.role))
           state == usage_state(p, r.role)
           Placed == /\ PConf[p].enabled /\ PConf[p].account \in ToSet(Policy[r.project].accounts)
                     /\ r.pin # None => p = r.pin
                     /\ r.pin = None => p \in C
           Sized == FitsSize(r, r.role, p, 0)
           Quiet == peak_active /\ PConf[p].kind = "claude" => r.pin # None
           W == diagnose(r)[p]
<1>1. route_role(r.role) = r.role
  BY DEF route_role
<1>2. /\ r \in [project : Projects, role : STRING, pin : Platforms \cup {None}, size : Nat,
               tier : Nat, busy : SUBSET Platforms, exclude : SUBSET Platforms]
      /\ None \notin Platforms /\ PConf[p].tier \in Nat
  BY DEF RouterAssumption
<1>3. r.pin = None => [r EXCEPT !.pin = None] = r
  BY <1>2
<1>4. p \in C <=> Placed
  BY <1>2, CandidateElements DEF Enabled
<1>5. held[<<r.project, p>>] \in Nat /\ hour \in Nat
  BY <1>2 DEF RouterTypes
<1>6. state \in States /\ (state = "ok" => ~model_blocked(p, r.role))
  BY StatesOfUsage
<1> DEFINE Is(code, when) == IF when THEN {code} ELSE {}
           Usage == CASE state = "no_credit" -> {"no_credit"}
                      [] \/ model_blocked(p, r.role)
                         \/ held[<<r.project, p>>] > hour
                         \/ state = "blocked" -> {"hold"}
                      [] state \in {"soft", "hard"} -> {IF hold[p].until > hour THEN "hold" ELSE "quota"}
                      [] state = "stale" -> {"unknown"}
                      [] OTHER -> {}
           Place0 == IF PConf[p].account \notin ToSet(Policy[r.project].accounts) THEN {"account"}
                     ELSE IF r.pin # None /\ p # r.pin THEN {"pin"}
                     ELSE Is("route", /\ p # r.pin
                                      /\ p \notin ToSet(CandidatesOf([r EXCEPT !.pin = None], r.role)))
<1>7. W = Is("disabled", ~PConf[p].enabled) \cup Place0
          \cup Is("excluded", PConf[p].slot \in slots(r.exclude))
          \cup Is("slots_busy", p \in r.busy)
          \cup Is("tier", p # r.pin /\ Rated(r.role) /\ PConf[p].tier < r.tier)
          \cup Is("approval", p # r.pin /\ PConf[p].approval)
          \cup Is("size", ~Sized)
          \cup Is("peak", p # r.pin /\ peak_active /\ PConf[p].kind = "claude")
          \cup Usage
  <2> HIDE DEF Usage, C, Placed
  <2> QED BY <1>1, BlockersOf DEF Usage
<1>8. PConf[p].enabled /\ Place0 = {} <=> Placed
  BY <1>2, <1>3, <1>4
<1>9. Usage = {} <=> state = "ok" /\ held[<<r.project, p>>] <= hour
  BY <1>5, <1>6 DEF States
<1>10. W = {} <=> /\ Placed
                  /\ PConf[p].slot \notin slots(r.exclude) /\ p \notin r.busy
                  /\ ~(p # r.pin /\ Rated(r.role) /\ PConf[p].tier < r.tier)
                  /\ ~(p # r.pin /\ PConf[p].approval) /\ Sized
                  /\ ~(p # r.pin /\ peak_active /\ PConf[p].kind = "claude")
                  /\ state = "ok" /\ held[<<r.project, p>>] <= hour
  <2> HIDE DEF Usage, Place0, W, Placed, Sized, state, C
  <2>1. W = {} <=> /\ PConf[p].enabled /\ Place0 = {}
                   /\ PConf[p].slot \notin slots(r.exclude) /\ p \notin r.busy
                   /\ ~(p # r.pin /\ Rated(r.role) /\ PConf[p].tier < r.tier)
                   /\ ~(p # r.pin /\ PConf[p].approval) /\ Sized
                   /\ ~(p # r.pin /\ peak_active /\ PConf[p].kind = "claude")
                   /\ Usage = {}
    BY <1>7
  <2> QED BY <1>8, <1>9, <2>1
<1>11. ASSUME Placed, NEW x \in BOOLEAN
       PROVE  Passes(r, r.role, p, x) <=>
                /\ PConf[p].slot \notin slots(r.exclude) /\ p \notin r.busy
                /\ ~(p # r.pin /\ Rated(r.role) /\ PConf[p].tier < r.tier)
                /\ ~(p # r.pin /\ PConf[p].approval)
                /\ FitsSize(r, r.role, p, IF x /\ ~PConf[p].metered THEN 1 ELSE 0)
                /\ ~(p # r.pin /\ peak_active /\ PConf[p].kind = "claude")
                /\ state = "ok" /\ held[<<r.project, p>>] <= hour
  <2>1. p # r.pin <=> r.pin = None
    BY <1>2, <1>11
  <2> HIDE DEF state, C
  <2> QED BY <1>2, <1>11, <2>1
          DEF Passes, NotBusy, Enabled, Approved, NotHeld, Strong, OffPeak, state
<1>12. W = {} <=> p \in C /\ Passes(r, r.role, p, FALSE)
  <2> HIDE DEF W, Placed, C, state
  <2>1. Passes(r, r.role, p, FALSE) /\ Placed <=>
                  /\ Placed
                  /\ PConf[p].slot \notin slots(r.exclude) /\ p \notin r.busy
                  /\ ~(p # r.pin /\ Rated(r.role) /\ PConf[p].tier < r.tier)
                  /\ ~(p # r.pin /\ PConf[p].approval) /\ Sized
                  /\ ~(p # r.pin /\ peak_active /\ PConf[p].kind = "claude")
                  /\ state = "ok" /\ held[<<r.project, p>>] <= hour
    BY <1>11
  <2> QED BY <1>4, <1>10, <2>1
<1>13. ASSUME p \in C, Passes(r, r.role, p, TRUE) PROVE W \subseteq {"size"}
  <2> HIDE DEF W, Placed, C, state, Usage, Place0, Sized
  <2>1. /\ PConf[p].slot \notin slots(r.exclude) /\ p \notin r.busy
        /\ ~(p # r.pin /\ Rated(r.role) /\ PConf[p].tier < r.tier)
        /\ ~(p # r.pin /\ PConf[p].approval)
        /\ ~(p # r.pin /\ peak_active /\ PConf[p].kind = "claude")
        /\ state = "ok" /\ held[<<r.project, p>>] <= hour
    BY <1>4, <1>11, <1>13
  <2> QED BY <1>4, <1>7, <1>8, <1>9, <1>13, <2>1
<1>14. ASSUME r.role = "review", p \in stale_candidates(r) PROVE W \ {"peak"} = {"unknown"}
  <2>1. /\ p \in C /\ Approved(r, p) /\ NotBusy(r, p) /\ NotHeld(r, p) /\ ~model_blocked(p, r.role)
        /\ r.pin = None => PConf[p].tier >= r.tier
        /\ usage_state(p, "any") = "stale"
    BY <1>1, <1>14 DEF stale_candidates
  <2>2. state = "stale"
    <3>1. ~(PConf[p].managed /\ free[p] = 0) /\ _quota_usage_state(p) = "stale"
      BY <2>1 DEF usage_state, Refused
    <3> QED BY <2>1, <3>1 DEF usage_state, Refused
  <2>3. Usage = {"unknown"}
    BY <1>5, <2>1, <2>2 DEF NotHeld
  <2>4. Placed /\ Sized
    BY <1>4, <1>14, <2>1 DEF FitsSize
  <2>5. /\ PConf[p].slot \notin slots(r.exclude) /\ p \notin r.busy
        /\ ~(p # r.pin /\ Rated(r.role) /\ PConf[p].tier < r.tier)
        /\ ~(p # r.pin /\ PConf[p].approval)
    BY <1>2, <2>1, <2>4 DEF Approved, NotBusy
  <2> HIDE DEF W, Placed, C, state, Usage, Place0, Sized
  <2> QED BY <1>7, <1>8, <2>3, <2>4, <2>5
<1> QED BY <1>12, <1>13, <1>14

(* Exploration chooses among those that would do.                             *)
LEMMA CheapestIsThere ==
  ASSUME RouterAssumption, NEW fit \in SUBSET Platforms, fit # {}
  PROVE  Cheapest(fit) \in fit
<1> DEFINE Dearer(p, q) == \/ (PConf[p].paid /\ ~PConf[q].paid)
                           \/ (PConf[p].paid = PConf[q].paid /\ Proof[p].cost > Proof[q].cost)
           unpaid == {p \in fit : ~PConf[p].paid}
           base == IF unpaid # {} THEN unpaid ELSE fit
           costs == {Proof[p].cost : p \in base}
<1>1. \A p \in fit : PConf[p].paid \in BOOLEAN /\ Proof[p].cost \in Nat
  BY DEF RouterAssumption
<1>2. base # {} /\ base \subseteq fit /\ costs \subseteq Nat /\ costs # {}
  BY <1>1
<1>3. PICK n \in costs : \A m \in costs : n <= m
  <2> HIDE DEF costs
  <2> QED BY <1>2, LeastNumber
<1>4. PICK p \in base : Proof[p].cost = n
  BY <1>3
<1>5. \A q \in fit : ~Dearer(p, q)
  <2> SUFFICES ASSUME NEW q \in fit, Dearer(p, q) PROVE FALSE
    OBVIOUS
  <2>1. CASE q \in base
    <3>1. n <= Proof[q].cost
      BY <1>3, <2>1
    <3>2. PConf[p].paid => PConf[q].paid
      BY <1>4, <2>1
    <3> QED BY <1>1, <1>2, <1>4, <3>1, <3>2
  <2>2. CASE q \notin base
    <3>1. ~PConf[p].paid /\ PConf[q].paid
      BY <1>4, <2>2
    <3> QED BY <3>1
  <2> QED BY <2>1, <2>2
<1>6. p \in fit
  BY <1>2, <1>4
<1>7. Cheapest(fit) = CHOOSE x \in fit : \A q \in fit : ~Dearer(x, q)
  BY DEF Cheapest
<1> HIDE DEF Dearer
<1> QED BY <1>5, <1>6, <1>7

(* What pick, explore, a preference and a re-probe choose, diagnose agrees    *)
(* with.                                                                      *)
LEMMA MirrorsHold ==
  ASSUME RouterAssumption, RouterTypes, asked \subseteq Asked PROVE PickMirrorsDiagnose
<1> SUFFICES ASSUME NEW r \in Asked, r.role # "design"
             PROVE  /\ Mirrors(diagnose(r), pick_for_project(r), explore_for_project(r),
                                IF r.role = "review" THEN stale_candidates(r) ELSE {})
                    /\ r.role = "review" /\ preferred_for_project(r, "claude") # None
                         => diagnose(r)["claude"] = {}
  BY DEF PickMirrorsDiagnose
<1> DEFINE C == ToSet(CandidatesOf(r, r.role))
           chosen == pick_for_project(r)
           explored == explore_for_project(r)
<1>1. route_role(r.role) = r.role /\ None \notin Platforms
  BY DEF route_role, RouterAssumption
<1>2. C \subseteq Platforms
  BY CandidateElements
<1>3. \A p \in Platforms :
        /\ diagnose(r)[p] = {} <=> p \in C /\ Passes(r, r.role, p, FALSE)
        /\ p \in C /\ Passes(r, r.role, p, TRUE) => diagnose(r)[p] \subseteq {"size"}
        /\ r.role = "review" /\ p \in stale_candidates(r) => diagnose(r)[p] \ {"peak"} = {"unknown"}
  BY BlockersAgree
<1>4. IF chosen = None THEN \A p \in C : ~Passes(r, r.role, p, FALSE)
      ELSE chosen \in C /\ Passes(r, r.role, chosen, FALSE)
  <2> HIDE DEF chosen
  <2> QED BY <1>1, PickedIsACandidate DEF chosen
<1>5. IF chosen = None THEN \A p \in Platforms : diagnose(r)[p] # {} ELSE diagnose(r)[chosen] = {}
  <2> HIDE DEF chosen, C
  <2> QED BY <1>2, <1>3, <1>4
<1>6. explored = None \/ diagnose(r)[explored] \subseteq {"size"}
  <2> DEFINE fit == {p \in C : Proof[p].status = "unproven" /\ Passes(r, r.role, p, TRUE)}
  <2>1. explored = None \/ explored = Cheapest(fit)
    BY <1>1 DEF explore_for_project
  <2>2. fit = {} => Cheapest(fit) = None
    BY DEF Cheapest
  <2>3. fit # {} => Cheapest(fit) \in fit
    <3>1. fit \in SUBSET Platforms
      BY <1>2
    <3> HIDE DEF fit
    <3> QED BY <3>1, CheapestIsThere
  <2>4. \A p \in fit : diagnose(r)[p] \subseteq {"size"}
    <3> HIDE DEF C
    <3> QED BY <1>2, <1>3
  <2> HIDE DEF explored, fit
  <2> QED BY <2>1, <2>2, <2>3, <2>4
<1>7. ASSUME r.role = "review", NEW p \in stale_candidates(r)
      PROVE  diagnose(r)[p] \ {"peak"} = {"unknown"}
  <2>1. p \in C
    BY <1>1, <1>7 DEF stale_candidates
  <2> QED BY <1>2, <1>3, <1>7, <2>1
<1>8. ASSUME r.role = "review", preferred_for_project(r, "claude") # None
      PROVE  diagnose(r)["claude"] = {}
  <2>1. "claude" \in C /\ pick(r, r.role, <<"claude">>) # None
    BY <1>1, <1>8 DEF preferred_for_project
  <2>2. "claude" \in Platforms /\ <<"claude">> \in Seq(Platforms) /\ ToSet(<<"claude">>) = {"claude"}
    BY <1>2, <2>1 DEF ToSet
  <2>3. Passes(r, r.role, "claude", FALSE)
    BY <1>1, <2>1, <2>2, ChosenIsFirst
  <2> QED BY <1>3, <2>1, <2>2, <2>3
<1> HIDE DEF chosen, explored
<1> QED BY <1>5, <1>6, <1>7, <1>8 DEF Mirrors, chosen, explored

(* A platform that passes the gates now has no time to come back at, so that  *)
(* capacity_recovery names none for its request.                              *)
LEMMA NoWaitForWhatPasses ==
  ASSUME RouterAssumption, RouterTypes, NEW r \in Asked, NEW role, NEW p \in Platforms,
         Passes(r, role, p, FALSE), NothingLeft(p)
  PROVE  RecoveryOf(r, p) = 0
<1> DEFINE ws == IF report[p].blocked THEN report[p].windows ELSE Windows
           over == ResetsOf(p, ws)
           until == LatestOf({hold[p].until, held[<<r.project, p>>]})
<1>1. /\ usage_state(p, role) = "ok" /\ _quota_usage_state(p) = "ok"
      /\ p \notin r.busy /\ held[<<r.project, p>>] <= hour /\ OffPeak(r, p)
  <2>1. /\ usage_state(p, role) = "ok"
        /\ p \notin r.busy /\ held[<<r.project, p>>] <= hour /\ OffPeak(r, p)
    BY DEF Passes, NotBusy, NotHeld
  <2> QED BY <2>1, StatesOfUsage
<1>2. r.project \in Projects
  BY DEF RouterAssumption
<1>3. /\ hour \in Nat /\ hold[p].until \in Nat /\ held[<<r.project, p>>] \in Nat
      /\ report[p].windows \subseteq Windows /\ report[p].sampled \in Int
      /\ report[p].blocked \in BOOLEAN
      /\ \A w \in Windows : usage[p][w].pct \in Nat /\ usage[p][w].resets \in Nat
  <2>1. /\ hold[p] \in HoldType /\ report[p] \in ReportType /\ usage[p] \in [Windows -> Sample]
        /\ held[<<r.project, p>>] \in Nat /\ hour \in Nat
    BY <1>2 DEF RouterTypes
  <2> QED BY <2>1 DEF HoldType, ReportType, Sample
<1>4. /\ ~(hold[p].until > hour)
      /\ ~PConf[p].metered => ~\E w \in Windows : usage[p][w].pct >= Full /\ usage[p][w].resets > hour
      /\ PConf[p].metered => /\ ~(report[p].blocked /\ hour - report[p].sampled < Stale)
                             /\ Worst({WindowState(p, w) : w \in target_windows(p)}) = "ok"
  BY <1>1 DEF _quota_usage_state
<1>5. ~(until > hour)
  <2>1. ASSUME NEW a \in Nat, NEW b \in Nat PROVE LatestOf({a, b}) \in {a, b}
    <3>1. \E t \in {a, b} : \A s \in {a, b} : s <= t
      <4>1. CASE a <= b
        BY <4>1
      <4>2. CASE b <= a
        BY <4>2
      <4> QED BY <4>1, <4>2
    <3> QED BY <3>1 DEF LatestOf
  <2> QED BY <1>1, <1>3, <1>4, <2>1
<1>6. RecoveryOf(r, p) = AfterReset(p, over, {})
  BY <1>1, <1>5 DEF RecoveryOf
<1>7. CASE PConf[p].metered /\ report[p].blocked
  <2>1. hour - report[p].sampled >= Stale
    BY <1>3, <1>4, <1>7 DEF RouterAssumption
  <2> HIDE DEF over
  <2> QED BY <1>6, <1>7, <2>1 DEF AfterReset
<1>8. CASE ~(PConf[p].metered /\ report[p].blocked)
  <2>1. ASSUME NEW w \in ws, Over(p, w) PROVE ~(usage[p][w].resets > hour)
    <3>1. w \in Windows
      BY <1>3, <2>1
    <3>2. CASE ~PConf[p].metered
      <4>1. usage[p][w].pct >= Full
        BY <1>3, <2>1, <3>1, <3>2 DEF Over, Full
      <4> QED BY <1>4, <3>1, <3>2, <4>1
    <3>3. CASE PConf[p].metered
      <4>1. usage[p][w] # NoSample /\ 7 * usage[p][w].pct >= effective_lines(p, w).soft
        BY <2>1, <3>3 DEF Over
      <4>2. w \in target_windows(p)
        BY <3>1, <3>3, <4>1 DEF NothingLeft
      <4>3. WindowState(p, w) # "stale" /\ WindowState(p, w) # "hard" /\ WindowState(p, w) # "soft"
        BY <1>4, <3>3, <4>2 DEF Worst
      <4>4. WindowState(p, w) \in {"hard", "soft"}
        BY <4>1, <4>3 DEF WindowState, AgainstLines
      <4> QED BY <4>3, <4>4
    <3> QED BY <3>2, <3>3
  <2>2. {t \in over : t > hour} = {}
    BY <2>1 DEF ResetsOf
  <2> HIDE DEF over
  <2> QED BY <1>6, <2>2 DEF AfterReset
<1> QED BY <1>7, <1>8

LEMMA RecoveryIsSound ==
  ASSUME RouterAssumption, RouterTypes, asked \subseteq Asked PROVE RecoveryNeverHidesWork
<1> SUFFICES ASSUME NEW r \in Asked, r.role \in {"review", "fix", "design"},
                    capacity_recovery(r).retry # 0, \A p \in capacity_recovery(r).eligible : NothingLeft(p),
                    pick_for_project(r) # None
             PROVE  FALSE
  BY DEF RecoveryNeverHidesWork, WaitIsSound
<1> DEFINE role == route_role(r.role)
           C == ToSet(CandidatesOf(r, role))
           p == pick_for_project(r)
           eligible == {q \in C : Lasting(r, q)}
<1>1. p \in C /\ Passes(r, role, p, FALSE)
  <2> HIDE DEF p
  <2> QED BY PickedIsACandidate DEF p
<1> HIDE DEF p
<1>2. p \in Platforms /\ p # None
  BY <1>1, CandidateElements DEF RouterAssumption
<1>3. /\ PConf[p].max \in Nat /\ PConf[p].min \in Nat /\ r.size \in Nat
      /\ role \in {"review", "fix", "plan"}
  BY <1>2 DEF RouterAssumption, route_role
<1>4. Lasting(r, p)
  <2>1. ~model_blocked(p, role)
    <3>1. usage_state(p, role) = "ok"
      BY <1>1 DEF Passes
    <3> HIDE DEF role
    <3> QED BY <1>2, <3>1, StatesOfUsage
  <2>2. Approved(r, p) /\ PConf[p].slot \notin slots(r.exclude)
    BY <1>1 DEF Passes, NotBusy
  <2>3. r.pin = None /\ role \in {"review", "fix"} => PConf[p].tier >= r.tier
    BY <1>1 DEF Passes, Strong, Rated
  <2>4. FitsSize(r, role, p, 0)
    BY <1>1 DEF Passes
  <2> DEFINE rank == IF r.size = 0 THEN 2 ELSE r.size
  <2>5. r.pin = None /\ role = "fix" => rank >= PConf[p].min /\ rank <= PConf[p].max
    <3> HIDE DEF role
    <3> QED BY <1>2, <1>3, <2>4 DEF FitsSize
  <2> HIDE DEF rank, role
  <2> QED BY <2>1, <2>2, <2>3, <2>5 DEF Lasting, rank, role
<1>5. capacity_recovery(r) = CapacityAmong(r, eligible)
  BY DEF capacity_recovery
<1>6. capacity_recovery(r).eligible = eligible /\ p \in eligible
  BY <1>1, <1>4, <1>5 DEF CapacityAmong, Capacity
<1>7. RecoveryOf(r, p) = 0
  <2> HIDE DEF role
  <2> QED BY <1>1, <1>2, <1>6, NoWaitForWhatPasses
<1>8. 0 \in {RecoveryOf(r, q) : q \in eligible}
  BY <1>6, <1>7
<1> HIDE DEF eligible
<1> QED BY <1>5, <1>8 DEF CapacityAmong, Capacity

(* Every reading, hold and report has its type, whatever is written.          *)
LEMMA ValuesTyped ==
  /\ NoSample \in Sample /\ NoHold \in HoldType /\ NoReport \in ReportType
  /\ \A t \in Nat, w \in Reasons : [until |-> t, why |-> w] \in HoldType
<1>1. NoSample \in Sample
  BY DEF NoSample, Sample
<1>2. NoReport \in ReportType
  BY DEF NoReport, ReportType
<1>3. \A t \in Nat, w \in Reasons : [until |-> t, why |-> w] \in HoldType
  BY DEF HoldType
<1>4. NoHold \in HoldType
  BY DEF NoHold, Reasons, HoldType
<1> QED BY <1>1, <1>2, <1>3, <1>4

LEMMA HoldTyped ==
  ASSUME NEW h \in [Platforms -> HoldType], NEW p \in Platforms, NEW t \in Nat, NEW w \in Reasons
  PROVE  [h EXCEPT ![p] = [until |-> t, why |-> w]] \in [Platforms -> HoldType]
BY ValuesTyped

LEMMA WriteTyped ==
  ASSUME NEW u \in [Platforms -> [Windows -> Sample]], NEW ps, NEW ws,
         NEW f, \A q \in ps \cap Platforms : \A w \in ws[q] \cap Windows : f[w] \in Sample
  PROVE  Write(u, ps, ws, f) \in [Platforms -> [Windows -> Sample]]
BY DEF Write

(* The state of the router keeps its types, and what is asked does not change. *)
RouterInvariant == RouterTypes /\ asked \subseteq Asked
THEOREM RouterInvariance ==
  ASSUME RouterAssumption PROVE RouterSpec => []RouterInvariant
<1>1. RouterInit => RouterInvariant
  BY ValuesTyped DEF RouterInit, RouterTypes, RouterInvariant
<1>2. ASSUME RouterTypes, [RouterNext]_routerVars PROVE RouterTypes'
  <2>0. /\ HoldTime \in Nat /\ LastHour \in Nat /\ Manual \in Nat /\ hour \in Nat
        /\ usage \in [Platforms -> [Windows -> Sample]]
        /\ hold \in [Platforms -> HoldType] /\ report \in [Platforms -> ReportType]
        /\ held \in [Projects \X Platforms -> Nat]
        /\ free \in [Platforms -> Nat] /\ credit \in [Platforms -> Nat]
    BY <1>2 DEF RouterTypes, RouterAssumption, Manual
  <2>1. CASE UNCHANGED routerVars
    BY <1>2, <2>1 DEF routerVars, RouterTypes
  <2>2. CASE Elapse
    BY <2>0, <2>2 DEF Elapse, RouterTypes
  <2>3. CASE SetPeak
    BY <2>0, <2>3 DEF SetPeak, RouterTypes
  <2>4. ASSUME NEW g \in Groups, record_discussion_usage(g) PROVE RouterTypes'
    BY <2>0, <2>4 DEF record_discussion_usage, RouterTypes
  <2>5. ASSUME NEW p \in Platforms, record_claude_usage(p) PROVE RouterTypes'
    <3>1. PICK f \in [PConf[p].windows -> Probed] :
            usage' = Write(usage, quota_peers(p), [q \in Platforms |-> PConf[p].windows],
                           [w \in PConf[p].windows |-> Reading(f[w])])
      BY <2>5 DEF record_claude_usage
    <3>2. \A w \in PConf[p].windows : Reading(f[w]) \in Sample
      BY <2>0, <3>1 DEF Reading, Sample, RouterAssumption
    <3>3. usage' \in [Platforms -> [Windows -> Sample]]
      <4> DEFINE g == [w \in PConf[p].windows |-> Reading(f[w])]
                 ws == [q \in Platforms |-> PConf[p].windows]
      <4>1. \A q \in quota_peers(p) \cap Platforms : \A w \in ws[q] \cap Windows : g[w] \in Sample
        BY <3>2
      <4> HIDE DEF g, ws
      <4>2. Write(usage, quota_peers(p), ws, g) \in [Platforms -> [Windows -> Sample]]
        BY <2>0, <4>1, WriteTyped
      <4> QED BY <3>1, <4>2 DEF g, ws
    <3> QED BY <2>0, <2>5, <3>3 DEF record_claude_usage, RouterTypes
  <2>6. ASSUME NEW p \in Platforms, refresh_codex(p) PROVE RouterTypes'
    <3> DEFINE peers == {q \in quota_peers(p) : PConf[q].metered}
    <3>1. PICK ws \in {{"5h", "weekly"}, {"long"}, {"5h"}}, b \in BOOLEAN, x \in Probed :
            /\ report' = [q \in Platforms |-> IF q \in peers
                            THEN [windows |-> ws, blocked |-> b, sampled |-> hour] ELSE report[q]]
            /\ usage' = Write(usage, peers, [q \in Platforms |-> ws], [w \in ws |-> Reading(x)])
      BY <2>6 DEF refresh_codex
    <3>2. Reading(x) \in Sample
      BY <2>0 DEF Reading, Sample, RouterAssumption
    <3>3. usage' \in [Platforms -> [Windows -> Sample]]
      <4> DEFINE g == [w \in ws |-> Reading(x)]
                 each == [q \in Platforms |-> ws]
      <4>1. \A q \in peers \cap Platforms : \A w \in each[q] \cap Windows : g[w] \in Sample
        BY <3>2
      <4> HIDE DEF g, each, peers
      <4>2. Write(usage, peers, each, g) \in [Platforms -> [Windows -> Sample]]
        BY <2>0, <4>1, WriteTyped
      <4> QED BY <3>1, <4>2 DEF g, each
    <3>4. report' \in [Platforms -> ReportType]
      <4>1. [windows |-> ws, blocked |-> b, sampled |-> hour] \in ReportType
        BY <2>0 DEF Windows, ReportType
      <4> HIDE DEF peers
      <4> QED BY <2>0, <3>1, <4>1
    <3> QED BY <2>0, <2>6, <3>3, <3>4 DEF refresh_codex, RouterTypes
  <2>7. ASSUME NEW p \in Platforms, NEW until \in Nat
        PROVE  Penalty(p, until) \in [Platforms -> [Windows -> Sample]]
    <3> DEFINE g == [w \in Windows |-> [pct |-> Full, resets |-> until, sampled |-> hour]]
    <3>1. \A q \in quota_peers(p) \cap Platforms : \A w \in OwnWindows[q] \cap Windows : g[w] \in Sample
      BY <2>0 DEF Sample, Full
    <3> HIDE DEF g
    <3>2. Write(usage, quota_peers(p), OwnWindows, g) \in [Platforms -> [Windows -> Sample]]
      BY <2>0, <3>1, WriteTyped
    <3> QED BY <3>2 DEF Penalty, g
  <2>8. ASSUME NEW p \in Platforms, EndsOverQuota(p) PROVE RouterTypes'
    <3>1. hour + HoldTime \in Nat
      BY <2>0
    <3>2. usage' \in [Platforms -> [Windows -> Sample]]
      BY <2>7, <2>8, <3>1 DEF EndsOverQuota
    <3> QED BY <2>0, <2>8, <3>2 DEF EndsOverQuota, RouterTypes
  <2>9. ASSUME NEW p \in Platforms, EndsWithoutCredit(p) PROVE RouterTypes'
    <3> DEFINE until == hour + CreditWaits[Clamp(credit[p] + 1, 1, Len(CreditWaits))]
    <3>1. until \in Nat
      <4>1. credit[p] \in Nat /\ Len(CreditWaits) = 3
        BY <2>0 DEF CreditWaits
      <4>2. Clamp(credit[p] + 1, 1, 3) \in 1..3
        BY <4>1 DEF Clamp
      <4>3. \A i \in 1..3 : CreditWaits[i] \in Nat
        BY DEF CreditWaits
      <4> QED BY <2>0, <4>1, <4>2, <4>3
    <3> HIDE DEF until
    <3>2. /\ usage' = Penalty(p, until)
          /\ hold' = [hold EXCEPT ![p] = [until |-> until, why |-> "no_credit"]]
          /\ credit' = [credit EXCEPT ![p] = @ + 1]
          /\ UNCHANGED <<hour, report, held, free>>
      BY <2>9 DEF EndsWithoutCredit, until
    <3>3. usage' \in [Platforms -> [Windows -> Sample]]
      BY <2>7, <3>1, <3>2
    <3>4. hold' \in [Platforms -> HoldType]
      BY <2>0, <3>1, <3>2, HoldTyped DEF Reasons
    <3>5. credit' \in [Platforms -> Nat]
      BY <2>0, <3>2
    <3> QED BY <2>0, <3>2, <3>3, <3>4, <3>5 DEF RouterTypes
  <2>10. ASSUME NEW p \in Platforms, _model_billed(p) PROVE RouterTypes'
    <3>1. /\ free' = [free EXCEPT ![p] = @ - 1] /\ free[p] > 0
          /\ hold' = hold \/ hold' = [hold EXCEPT ![p] = [until |-> hour + HoldTime, why |-> "no_free_models"]]
          /\ UNCHANGED <<hour, usage, report, held, credit>>
      BY <2>10 DEF _model_billed
    <3>2. hour + HoldTime \in Nat
      BY <2>0
    <3>3. hold' \in [Platforms -> HoldType]
      <4>1. [hold EXCEPT ![p] = [until |-> hour + HoldTime, why |-> "no_free_models"]]
              \in [Platforms -> HoldType]
        BY <2>0, <3>2, HoldTyped DEF Reasons
      <4> QED BY <2>0, <3>1, <4>1
    <3>4. free' \in [Platforms -> Nat]
      BY <2>0, <3>1
    <3> QED BY <2>0, <3>1, <3>3, <3>4 DEF RouterTypes
  <2>11. ASSUME NEW p \in Platforms, FreeListRead(p) PROVE RouterTypes'
    BY <2>0, <2>11 DEF FreeListRead, RouterTypes
  <2>12. ASSUME NEW p \in Platforms, _hold_platform(p) PROVE RouterTypes'
    <3>1. /\ hold' = [hold EXCEPT ![p] = [until |-> hour + HoldTime, why |-> "silent"]]
          /\ UNCHANGED <<hour, usage, report, held, free, credit>>
      BY <2>12 DEF _hold_platform
    <3>2. hour + HoldTime \in Nat
      BY <2>0
    <3>3. hold' \in [Platforms -> HoldType]
      BY <2>0, <3>1, <3>2, HoldTyped DEF Reasons
    <3> QED BY <2>0, <3>1, <3>3 DEF RouterTypes
  <2>13. ASSUME NEW p \in Platforms, NEW j \in Projects, _hold_auth_denied(p, j) PROVE RouterTypes'
    <3>1. UNCHANGED <<hour, usage, report, free, credit>>
      BY <2>13 DEF _hold_auth_denied
    <3>2. CASE PConf[p].login
      <4>1. hold' = [hold EXCEPT ![p] = [until |-> Manual, why |-> "auth"]] /\ UNCHANGED held
        BY <2>13, <3>2 DEF _hold_auth_denied
      <4>2. hold' \in [Platforms -> HoldType]
        BY <2>0, <4>1, HoldTyped DEF Reasons
      <4> QED BY <2>0, <3>1, <4>1, <4>2 DEF RouterTypes
    <3>3. CASE ~PConf[p].login
      <4>1. held' = [held EXCEPT ![<<j, p>>] = hour + HoldTime] /\ UNCHANGED hold
        BY <2>13, <3>3 DEF _hold_auth_denied
      <4>2. held' \in [Projects \X Platforms -> Nat]
        BY <2>0, <4>1
      <4> QED BY <2>0, <3>1, <4>1, <4>2 DEF RouterTypes
    <3> QED BY <3>2, <3>3
  <2>14. ASSUME NEW p \in Platforms, NEW role, _hold_model_unavailable(p, role) PROVE RouterTypes'
    BY <2>0, <2>14 DEF _hold_model_unavailable, RouterTypes
  <2>15. ASSUME NEW p \in Platforms, _record_credit_recovery(p) PROVE RouterTypes'
    BY <2>0, <2>15, ValuesTyped DEF _record_credit_recovery, RouterTypes
  <2>16. ASSUME NEW p \in Platforms, clear(p)
         PROVE  /\ usage' \in [Platforms -> [Windows -> Sample]]
                /\ hold' \in [Platforms -> HoldType]
                /\ credit' \in [Platforms -> Nat]
    <3>1. \A w \in Windows : usage[p][w] \in Sample
      BY <2>0
    <3>2. [w \in Windows |-> IF hold[p].until > 0
                                 /\ w \in {"5h", "weekly"} /\ usage[p][w].pct >= Full
                                 /\ (~PConf[p].metered \/ usage[p][w].resets = hold[p].until)
                              THEN NoSample ELSE usage[p][w]] \in [Windows -> Sample]
      BY <3>1, ValuesTyped
    <3> QED BY <2>0, <2>16, <3>2, ValuesTyped DEF clear
  <2>17. ASSUME NEW p \in Platforms, Unhold(p) PROVE RouterTypes'
    <3>1. clear(p) /\ UNCHANGED <<hour, report, held, free>>
      BY <2>17 DEF Unhold
    <3> QED BY <2>0, <2>16, <3>1 DEF RouterTypes
  <2>18. ASSUME NEW p \in Platforms, refresh_cline_holds(p) PROVE RouterTypes'
    <3>1. clear(p) /\ UNCHANGED <<hour, report, held, free>>
      BY <2>18 DEF refresh_cline_holds
    <3> QED BY <2>0, <2>16, <3>1 DEF RouterTypes
  <2> QED BY <1>2, <2>1, <2>2, <2>3, <2>4, <2>5, <2>6, <2>8, <2>9, <2>10, <2>11, <2>12, <2>13,
             <2>14, <2>15, <2>17, <2>18 DEF RouterNext
<1>3. ASSUME RouterInvariant, [RouterNext]_routerVars PROVE RouterInvariant'
  <2>1. RouterTypes'
    BY <1>2, <1>3 DEF RouterInvariant
  <2>2. UNCHANGED asked
    BY <1>3 DEF RouterNext, routerVars
  <2> QED BY <1>3, <2>1, <2>2 DEF RouterInvariant
<1> QED BY <1>1, <1>3, PTL DEF RouterSpec

(* Every request, configuration, route and history of readings, holds and       *)
(* endings: pick and diagnose read the same gates, and a wait for capacity      *)
(* never hides a platform that could take the work.                            *)
THEOREM RoutingIsConsistent ==
  ASSUME RouterAssumption PROVE RouterSpec => []RoutingAgrees
<1>1. RouterInvariant => RoutingAgrees
  BY MirrorsHold, RecoveryIsSound DEF RoutingAgrees, RouterInvariant
<1> QED BY <1>1, RouterInvariance, PTL
=============================================================================
