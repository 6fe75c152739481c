------------------------------- MODULE Credits -------------------------------
(* The API-credit gateway (api_credits.Gateway.handle) and the reservation    *)
(* ledger under it (ledger.reserve_credit, settle_credit, release_credit):    *)
(* one thread per HTTP request, a provider that charges, connections that     *)
(* break, a gateway process that can die, grants that follow each other, and  *)
(* the scan of a run's log when the run has ended (api_credits.after_run).    *)
(* Each request stands for a run of its own.                                  *)
(* Money is in whole units; a reservation is a worst case, so a request costs *)
(* at most what it reserved.                                                  *)
EXTENDS Naturals, FiniteSets, Functions

CONSTANTS Requests,   \* HTTP attempts; each has an attempt_key of its own
          Grants,     \* 1..n, in the order they are confirmed
          Line,       \* reservation_ceiling_usd of a grant
          Amounts     \* what a request may reserve

CreditsAssumption ==
  /\ IsFiniteSet(Requests)
  /\ 1 \in Grants /\ Grants \subseteq Nat \ {0}
  /\ Amounts \subseteq Nat \ {0}
  /\ Line \in Nat

VARIABLES current,    \* the confirmed grant that covers now; 0 is none
          last,       \* the newest grant there has been
          exhausted,  \* the grant marked as used up; one at most, 0 is none
          parked,     \* the key was rejected: the pool refuses everything
          row,        \* credit_reservations, one row per attempt
          thread,     \* where each request's handler is
          seen,       \* the grant it read
          heard,      \* the error its run was answered, and so has in its log
          spent       \* what the provider charged for it

poolVars == <<current, last, exhausted, parked>>
vars == <<poolVars, row, thread, seen, heard, spent>>

NoReservation == [status |-> "none", grant |-> 0, amount |-> 0, settled |-> 0]

(* Types, and a row without a grant is no row.                                *)
TypeOK ==
  /\ last \in Grants /\ current \in {0, last}
  /\ exhausted \in Grants \cup {0}
  /\ parked \in BOOLEAN
  /\ row \in [Requests -> [status : {"none", "reserved", "settled", "released"},
                           grant : Grants \cup {0}, amount : Amounts \cup {0}, settled : Nat]]
  /\ \A q \in Requests : (row[q].status = "none") = (row[q].grant = 0)
  /\ thread \in [Requests -> {"new", "asked", "reserved", "sent", "charged", "refused",
                           "done", "dead", "over"}]
  /\ seen \in [Requests -> Grants \cup {0}]
  /\ heard \in [Requests -> {"nothing", "too_low", "auth"}]
  /\ spent \in [Requests -> Nat]

(* A credits run starts under a confirmed grant.                              *)
Init ==
  /\ current = 1 /\ last = 1 /\ exhausted = 0 /\ parked = FALSE
  /\ row = [q \in Requests |-> NoReservation]
  /\ thread = [q \in Requests |-> "new"]
  /\ seen = [q \in Requests |-> 0]
  /\ heard = [q \in Requests |-> "nothing"]
  /\ spent = [q \in Requests |-> 0]

Rows(g) == {q \in Requests : row[q].grant = g /\ row[q].status # "released"}

Costs == [q \in Requests |-> IF row[q].status = "settled" THEN row[q].settled ELSE row[q].amount]

(* Settled actuals plus every reservation still unresolved.                   *)
credit_exposure(g) == SumFunctionOnSet(Costs, Rows(g))

Go(q, from, to) == thread[q] = from /\ thread' = [thread EXCEPT ![q] = to]

(* A 402 of the gateway's own has the provider's words: "credit balance is    *)
(* too low".                                                                  *)
Deny(q, from) ==
  /\ Go(q, from, "done")
  /\ heard' = [heard EXCEPT ![q] = "too_low"]

(* grant_fn: what the snapshot says of the pool before the request reserves.  *)
Asks(q) ==
  /\ seen' = [seen EXCEPT ![q] = current]
  /\ IF current = 0 \/ parked \/ current = exhausted \/ credit_exposure(current) >= Line
     THEN Deny(q, "new")
     ELSE Go(q, "new", "asked") /\ UNCHANGED heard
  /\ UNCHANGED <<poolVars, row, spent>>

Reserve(q, amount) ==
  /\ Go(q, "asked", "reserved")
  /\ row' = [row EXCEPT ![q] = [status |-> "reserved", grant |-> seen[q],
                                amount |-> amount, settled |-> 0]]
  /\ UNCHANGED heard

(* One transaction: the grant read before is still running, and the amount    *)
(* fits under its ceiling.                                                    *)
reserve_credit(q, amount) ==
  IF seen[q] # current \/ credit_exposure(seen[q]) + amount > Line
  THEN Deny(q, "asked") /\ UNCHANGED row
  ELSE Reserve(q, amount)

Reserves(q) ==
  /\ \E amount \in Amounts : reserve_credit(q, amount)
  /\ UNCHANGED <<poolVars, seen, spent>>

Sends(q) ==
  /\ Go(q, "reserved", "sent")
  /\ UNCHANGED <<poolVars, row, seen, heard, spent>>

(* The provider's side.                                                       *)
Charges(q) ==
  /\ Go(q, "sent", "charged")
  /\ \E cost \in 0..row[q].amount : spent' = [spent EXCEPT ![q] = cost]
  /\ UNCHANGED <<poolVars, row, seen, heard>>

Refuses(q) ==
  /\ Go(q, "sent", "refused")
  /\ UNCHANGED <<poolVars, row, seen, heard, spent>>

resolve(q, status, cost) ==
  row' = [row EXCEPT ![q] = IF @.status = "reserved"
                            THEN [@ EXCEPT !.status = status, !.settled = cost] ELSE @]

(* 2xx with a usage report.                                                   *)
Settles(q) ==
  /\ Go(q, "charged", "done")
  /\ resolve(q, "settled", spent[q])
  /\ UNCHANGED <<poolVars, seen, heard, spent>>

(* Mutant: an answer without a usage report is taken to have cost nothing.    *)
Ambiguous_Released(q) ==
  /\ thread[q] \in {"sent", "charged", "refused"}
  /\ thread' = [thread EXCEPT ![q] = "done"]
  /\ resolve(q, "released", 0)
  /\ UNCHANGED <<poolVars, seen, heard, spent>>

(* 2xx without one, or the connection broke after dispatch: the worst case    *)
(* stays reserved.                                                            *)
Ambiguous(q) ==
  /\ thread[q] \in {"sent", "charged", "refused"}
  /\ thread' = [thread EXCEPT ![q] = "done"]
  /\ UNCHANGED <<poolVars, row, seen, heard, spent>>

(* mark_exhausted and mark_auth_parked. The mark is one slot: it names the    *)
(* grant it was last set for.                                                 *)
Mark(what, g) ==
  CASE what = "too_low" -> exhausted' = g /\ UNCHANGED <<current, last, parked>>
    [] what = "auth" -> parked' = TRUE /\ UNCHANGED <<current, last, exhausted>>
    [] what = "nothing" -> UNCHANGED poolVars

(* An error before usage: credit exhausted, key rejected, or any other.       *)
Releases(q) ==
  /\ Go(q, "refused", "done")
  /\ resolve(q, "released", 0)
  /\ \E what \in {"too_low", "auth", "nothing"} :
       /\ heard' = [heard EXCEPT ![q] = what]
       /\ Mark(what, row[q].grant)
  /\ UNCHANGED <<seen, spent>>

(* The gateway process dies with every handler in it; the provider may still  *)
(* be working on what was sent.                                               *)
GatewayDies ==
  /\ \E q \in Requests : thread[q] \in {"asked", "reserved", "sent", "charged", "refused"}
  /\ thread' = [q \in Requests |-> IF thread[q] \in {"new", "done", "over"} THEN thread[q]
                                                                        ELSE "dead"]
  /\ \E charged \in SUBSET {q \in Requests : thread[q] = "sent"} :
       spent' = [q \in Requests |-> IF q \in charged THEN row[q].amount ELSE spent[q]]
  /\ UNCHANGED <<poolVars, row, seen, heard>>

(* The run has ended and is finalized: its log is scanned, and what it was    *)
(* told is held against the grant that covers now, if one does.               *)
after_run(q) ==
  /\ Go(q, "done", "over")
  /\ Mark(heard[q], current)
  /\ UNCHANGED <<row, seen, heard, spent>>

(* The clock: the grant ends; the next one follows it, now or later, once it  *)
(* is confirmed.                                                              *)
GrantEnds ==
  /\ current # 0
  /\ current' = 0
  /\ UNCHANGED <<last, exhausted, parked, row, thread, seen, heard, spent>>

GrantBegins ==
  /\ last + 1 \in Grants
  /\ current' = last + 1 /\ last' = last + 1
  /\ UNCHANGED <<exhausted, parked, row, thread, seen, heard, spent>>

(* _refresh_group: a parked key is checked again every few hours.                  *)
KeyAccepted ==
  /\ parked
  /\ parked' = FALSE
  /\ UNCHANGED <<current, last, exhausted, row, thread, seen, heard, spent>>

Handles(q) ==
  \/ Asks(q) \/ Reserves(q) \/ Sends(q)
  \/ Settles(q) \/ Ambiguous(q) \/ Releases(q) \/ after_run(q)

Provider(q) == Charges(q) \/ Refuses(q)

Next ==
  \/ \E q \in Requests : Handles(q) \/ Provider(q)
  \/ GatewayDies \/ GrantEnds \/ GrantBegins \/ KeyAccepted

Spec == Init /\ [][Next]_vars

------------------------------------------------------------------------------
(* DESIGN D41: concurrent requests competing for the last of the budget       *)
(* cannot both succeed, and an unresolved reservation keeps counting.         *)
WithinLine == \A g \in Grants : credit_exposure(g) <= Line

(* What the provider really took under a grant is never more than the ledger  *)
(* says it may have taken: crashes, broken connections and missing usage      *)
(* reports included.  With WithinLine, real spend stays under the line.       *)
SpentIsCovered ==
  \A g \in Grants :
    SumFunctionOnSet(spent, {q \in Requests : row[q].grant = g}) <= credit_exposure(g)

(* A grant that ended while the request was on its way opens no reservation.  *)
ReservedUnderRunningGrant ==
  [][\A q \in Requests :
       row[q].status = "none" /\ row'[q].status = "reserved" => row'[q].grant = current]_vars

(* All of it together, types included: what the budget promises of every grant. *)
WithinBudget == [](TypeOK /\ WithinLine /\ SpentIsCovered) /\ ReservedUnderRunningGrant
==============================================================================
