------------------------------ MODULE BooksProofs ------------------------------
(* Proofs about the books several processes write: the credit pool, for every   *)
(* finite set of requests, every line, every sequence of grants and all amounts *)
(* (Credits); the lease table that two machines share, for every term of a      *)
(* lease, every number of grants and of lost calls (RemoteLedger); and the      *)
(* release ledger, for all items, labels, versions and merges (Releases).       *)
EXTENDS Credits, RemoteLedger, Releases, FiniteSetTheorems, SequenceTheorems,
        WellFoundedInduction, TLAPS

------------------------------------------------------------------------------
(* The credit pool (Credits).                                                  *)

(* Sums over finite sets.  The fold of the library is a recursive function;     *)
(* each lemma argues about the smallest set that would break it.               *)
First(s) == CHOOSE x \in s : TRUE

LEMMA SetInduction ==
  ASSUME NEW S, IsFiniteSet(S), NEW Good \in SUBSET (SUBSET S),
         ASSUME NEW T \in SUBSET S, \A U \in SUBSET T : U # T => U \in Good
         PROVE  T \in Good
  PROVE  \A T \in SUBSET S : T \in Good
<1> DEFINE Bad == (SUBSET S) \ Good
<1> SUFFICES ASSUME NEW W \in SUBSET S, W \notin Good PROVE FALSE
  OBVIOUS
<1>1. Bad # {}
  OBVIOUS
<1>2. IsWellFoundedOn(StrictSubsetOrdering(S), FiniteSubsetsOf(S))
  BY FS_StrictSubsetOrderingWellFounded
<1>3. Bad \subseteq FiniteSubsetsOf(S)
  BY FS_Subset DEF FiniteSubsetsOf
<1>4. PICK T \in Bad : \A U \in Bad : ~(<<U, T>> \in StrictSubsetOrdering(S))
  <2> HIDE DEF Bad
  <2>1. QED
    BY <1>1, <1>2, <1>3, WFMin
<1>5. \A U \in SUBSET T : U # T => U \in Good
  BY <1>4 DEF StrictSubsetOrdering
<1>6. QED
  BY <1>4, <1>5

(* What the library's recursion asks of a table of all partial sums.           *)
Table(f, S, g) ==
  g = [s \in SUBSET S |-> IF s = {} THEN 0 ELSE f[First(s)] + g[s \ {First(s)}]]

LEMMA SumIsTable ==
  ASSUME NEW f, NEW S
  PROVE  SumFunctionOnSet(f, S) = (CHOOSE g : Table(f, S, g))[S]
BY DEF SumFunctionOnSet, FoldFunctionOnSet, MapThenFoldSet, Table, First

(* What the fold does in one step: the smallest set on which it would not do it *)
(* has a table of partial sums, and only one.                                 *)
Unfolds(f, s) ==
  SumFunctionOnSet(f, s) =
    IF s = {} THEN 0 ELSE f[First(s)] + SumFunctionOnSet(f, s \ {First(s)})

LEMMA SumUnfolds ==
  ASSUME NEW S, IsFiniteSet(S), NEW f
  PROVE  \A s \in SUBSET S : Unfolds(f, s)
<1> DEFINE Good == {s \in SUBSET S : Unfolds(f, s)}
<1> SUFFICES ASSUME NEW s \in SUBSET S, \A u \in SUBSET s : u # s => u \in Good
             PROVE  Unfolds(f, s)
  <2>1. \A s \in SUBSET S : s \in Good
    <3>1. ASSUME NEW s \in SUBSET S, \A u \in SUBSET s : u # s => u \in Good
          PROVE  s \in Good
      BY <3>1
    <3>2. Good \in SUBSET (SUBSET S)
      OBVIOUS
    <3> HIDE DEF Good
    <3>3. QED
      BY <3>1, <3>2, SetInduction
  <2>2. QED
    BY <2>1
<1> DEFINE g == [u \in SUBSET s |->
                   IF u = {} THEN 0 ELSE f[First(u)] + SumFunctionOnSet(f, u \ {First(u)})]
<1>1. \A u \in SUBSET s : u # {} => First(u) \in u
  BY DEF First
<1>2. \A u \in SUBSET s : u # s => g[u] = SumFunctionOnSet(f, u)
  BY DEF Unfolds
<1>3. Table(f, s, g)
  <2>1. \A u \in SUBSET s : u # {} => g[u \ {First(u)}] = SumFunctionOnSet(f, u \ {First(u)})
    BY <1>1, <1>2
  <2>2. \A u \in SUBSET s : g[u] = IF u = {} THEN 0 ELSE f[First(u)] + g[u \ {First(u)}]
    BY <2>1
  <2>3. QED
    BY <2>2 DEF Table
<1> DEFINE h == CHOOSE k : Table(f, s, k)
<1>4. Table(f, s, h)
  BY <1>3
<1> HIDE DEF g, h
<1>5. \A u \in SUBSET s : h[u] = g[u]
  <2> DEFINE Same == {u \in SUBSET s : h[u] = g[u]}
  <2>1. ASSUME NEW u \in SUBSET s, \A v \in SUBSET u : v # u => v \in Same
        PROVE  u \in Same
    <3>1. /\ h[u] = IF u = {} THEN 0 ELSE f[First(u)] + h[u \ {First(u)}]
          /\ g[u] = IF u = {} THEN 0 ELSE f[First(u)] + g[u \ {First(u)}]
      BY <1>3, <1>4 DEF Table
    <3>2. u # {} => h[u \ {First(u)}] = g[u \ {First(u)}]
      BY <1>1, <2>1
    <3>3. QED
      BY <3>1, <3>2
  <2>2. IsFiniteSet(s) /\ Same \in SUBSET (SUBSET s)
    BY FS_Subset
  <2>3. \A u \in SUBSET s : u \in Same
    <3> HIDE DEF Same
    <3>1. QED
      BY <2>1, <2>2, SetInduction
  <2>4. QED
    BY <2>3
<1>6. SumFunctionOnSet(f, s) = g[s]
  BY <1>5, SumIsTable DEF h
<1>7. QED
  BY <1>6 DEF g, Unfolds

(* Removing any element, not only the one the fold takes first.               *)
LEMMA SumSplits ==
  ASSUME NEW S, IsFiniteSet(S), NEW f \in [S -> Nat]
  PROVE  \A T \in SUBSET S :
           /\ SumFunctionOnSet(f, T) \in Nat
           /\ \A x \in T : SumFunctionOnSet(f, T) = f[x] + SumFunctionOnSet(f, T \ {x})
<1> DEFINE P(T) == /\ SumFunctionOnSet(f, T) \in Nat
                   /\ \A x \in T : SumFunctionOnSet(f, T) = f[x] + SumFunctionOnSet(f, T \ {x})
           Good == {T \in SUBSET S : P(T)}
<1>1. ASSUME NEW T \in SUBSET S, \A U \in SUBSET T : U # T => U \in Good
      PROVE  T \in Good
  <2>1. CASE T = {}
    <3>1. SumFunctionOnSet(f, T) = 0
      BY <2>1, SumUnfolds DEF Unfolds
    <3>2. QED
      BY <2>1, <3>1
  <2>2. CASE T # {}
    <3> DEFINE c == First(T)
    <3>1. c \in T
      BY <2>2 DEF First
    <3>2. SumFunctionOnSet(f, T) = f[c] + SumFunctionOnSet(f, T \ {c})
      BY <2>2, SumUnfolds DEF Unfolds
    <3> HIDE DEF c
    <3>3. P(T \ {c})
      BY <1>1, <3>1
    <3>4. ASSUME NEW x \in T, x # c
          PROVE  SumFunctionOnSet(f, T) = f[x] + SumFunctionOnSet(f, T \ {x})
      <4>1. P(T \ {x}) /\ P((T \ {x}) \ {c})
        BY <1>1, <3>1, <3>4
      <4>2. SumFunctionOnSet(f, T \ {c}) = f[x] + SumFunctionOnSet(f, (T \ {c}) \ {x})
        BY <3>3, <3>4
      <4>3. SumFunctionOnSet(f, T \ {x}) = f[c] + SumFunctionOnSet(f, (T \ {x}) \ {c})
        BY <3>1, <3>4, <4>1
      <4>4. (T \ {c}) \ {x} = (T \ {x}) \ {c}
        OBVIOUS
      <4>5. f[c] \in Nat /\ f[x] \in Nat /\ SumFunctionOnSet(f, (T \ {x}) \ {c}) \in Nat
        BY <3>1, <3>4, <4>1
      <4>6. QED
        BY <3>2, <4>2, <4>3, <4>4, <4>5
    <3>5. SumFunctionOnSet(f, T) \in Nat
      BY <3>1, <3>2, <3>3
    <3>6. QED
      BY <3>2, <3>4, <3>5
  <2>3. QED
    BY <2>1, <2>2
<1>2. Good \in SUBSET (SUBSET S)
  OBVIOUS
<1>3. \A T \in SUBSET S : T \in Good
  <2> HIDE DEF Good
  <2>1. QED
    BY <1>1, <1>2, SetInduction
<1>4. QED
  BY <1>3

(* A sum covers another when it counts every request of it that counts there,  *)
(* for at least as much.                                                      *)
LEMMA SumCovers ==
  ASSUME NEW S, IsFiniteSet(S), NEW f \in [S -> Nat], NEW h \in [S -> Nat]
  PROVE  \A T, R \in SUBSET S :
           (\A x \in T : f[x] = 0 \/ (x \in R /\ f[x] <= h[x]))
              => SumFunctionOnSet(f, T) <= SumFunctionOnSet(h, R)
<1> DEFINE Covered(T, R) == \A x \in T : f[x] = 0 \/ (x \in R /\ f[x] <= h[x])
           Good == {T \in SUBSET S : \A R \in SUBSET S :
                      Covered(T, R) => SumFunctionOnSet(f, T) <= SumFunctionOnSet(h, R)}
<1>1. ASSUME NEW T \in SUBSET S, \A U \in SUBSET T : U # T => U \in Good
      PROVE  T \in Good
  <2> SUFFICES ASSUME NEW R \in SUBSET S, Covered(T, R)
               PROVE  SumFunctionOnSet(f, T) <= SumFunctionOnSet(h, R)
    OBVIOUS
  <2>0. SumFunctionOnSet(h, R) \in Nat
    BY SumSplits
  <2>1. CASE T = {}
    <3>1. SumFunctionOnSet(f, T) = 0
      BY <2>1, SumUnfolds DEF Unfolds
    <3>2. QED
      BY <2>0, <3>1
  <2>2. CASE T # {}
    <3>1. PICK x : x \in T
      BY <2>2
    <3>2. /\ SumFunctionOnSet(f, T) = f[x] + SumFunctionOnSet(f, T \ {x})
          /\ f[x] \in Nat /\ h[x] \in Nat /\ SumFunctionOnSet(f, T \ {x}) \in Nat
      BY <3>1, SumSplits
    <3>3. T \ {x} \in Good
      BY <1>1, <3>1
    <3>4. CASE f[x] = 0
      <4>1. Covered(T \ {x}, R)
        OBVIOUS
      <4>2. SumFunctionOnSet(f, T \ {x}) <= SumFunctionOnSet(h, R)
        BY <3>3, <4>1
      <4>3. QED
        BY <3>2, <3>4, <4>2
    <3>5. CASE x \in R /\ f[x] <= h[x]
      <4>1. Covered(T \ {x}, R \ {x})
        OBVIOUS
      <4>2. SumFunctionOnSet(f, T \ {x}) <= SumFunctionOnSet(h, R \ {x})
        BY <3>3, <4>1
      <4>3. /\ SumFunctionOnSet(h, R) = h[x] + SumFunctionOnSet(h, R \ {x})
            /\ SumFunctionOnSet(h, R \ {x}) \in Nat
        BY <3>5, SumSplits
      <4>4. QED
        BY <3>2, <3>5, <4>2, <4>3
    <3>6. QED
      BY <3>1, <3>4, <3>5
  <2>3. QED
    BY <2>1, <2>2
<1>2. Good \in SUBSET (SUBSET S)
  OBVIOUS
<1>3. \A T \in SUBSET S : T \in Good
  <2> HIDE DEF Good
  <2>1. QED
    BY <1>1, <1>2, SetInduction
<1>4. QED
  BY <1>3

------------------------------------------------------------------------------
(* What the handler of a request has done so far is what its row says: nothing  *)
(* is spent before a reservation, and never more than it counts for.           *)
Booked(q) ==
  /\ thread[q] \in {"new", "asked"} => row[q].status = "none"
  /\ thread[q] = "asked" => seen[q] # 0
  /\ thread[q] \in {"reserved", "sent", "charged", "refused"} => row[q].status = "reserved"
  /\ thread[q] \in {"reserved", "sent", "refused"} => spent[q] = 0
  /\ row[q].status \in {"none", "released"} => spent[q] = 0
  /\ spent[q] <= Costs[q]

AllBooked == \A q \in Requests : Booked(q)

CreditsInv == TypeOK /\ AllBooked /\ WithinLine

LEMMA CostsTyped ==
  ASSUME CreditsAssumption,
         NEW r \in [Requests -> [status : {"none", "reserved", "settled", "released"},
                                grant : Grants \cup {0}, amount : Amounts \cup {0},
                                settled : Nat]]
  PROVE  [q \in Requests |-> IF r[q].status = "settled" THEN r[q].settled ELSE r[q].amount]
           \in [Requests -> Nat]
<1>1. \A q \in Requests : r[q].settled \in Nat /\ r[q].amount \in Amounts \cup {0}
  OBVIOUS
<1>2. Amounts \cup {0} \subseteq Nat
  BY DEF CreditsAssumption
<1>3. QED
  BY <1>1, <1>2

LEMMA CostsType == ASSUME CreditsAssumption, TypeOK PROVE Costs \in [Requests -> Nat]
BY CostsTyped DEF TypeOK, Costs

(* The provider took no more than the ledger counts: request by request, so in  *)
(* sum.                                                                       *)
LEMMA SpentCovered == ASSUME CreditsAssumption, TypeOK, AllBooked PROVE SpentIsCovered
<1> SUFFICES ASSUME NEW g \in Grants
             PROVE  SumFunctionOnSet(spent, {q \in Requests : row[q].grant = g})
                      <= SumFunctionOnSet(Costs, Rows(g))
  BY DEF SpentIsCovered, credit_exposure
<1> DEFINE T == {q \in Requests : row[q].grant = g}
<1>1. \A q \in T : spent[q] = 0 \/ (q \in Rows(g) /\ spent[q] <= Costs[q])
  BY DEF AllBooked, Booked, Rows
<1>2. T \in SUBSET Requests /\ Rows(g) \in SUBSET Requests
  BY DEF Rows
<1>3. IsFiniteSet(Requests) /\ spent \in [Requests -> Nat] /\ Costs \in [Requests -> Nat]
  BY CostsType DEF TypeOK, CreditsAssumption
<1> HIDE DEF T
<1>4. SumFunctionOnSet(spent, T) <= SumFunctionOnSet(Costs, Rows(g))
  BY <1>1, <1>2, <1>3, SumCovers
<1>5. QED
  BY <1>4 DEF T

(* No row added, none dearer: no grant is exposed to more.                     *)
LEMMA NoDearer ==
  ASSUME CreditsAssumption, TypeOK, TypeOK', WithinLine,
         \A g \in Grants : Rows(g)' \subseteq Rows(g),
         \A q \in Requests : Costs'[q] <= Costs[q]
  PROVE  WithinLine'
<1> SUFFICES ASSUME NEW g \in Grants
             PROVE  SumFunctionOnSet(Costs', Rows(g)') <= Line
  BY DEF WithinLine, credit_exposure
<1>1. Costs \in [Requests -> Nat] /\ Costs' \in [Requests -> Nat]
  BY CostsTyped DEF TypeOK, Costs
<1>2. Rows(g) \in SUBSET Requests /\ Rows(g)' \in SUBSET Requests
  BY DEF Rows
<1>3. IsFiniteSet(Requests) /\ Line \in Nat
  BY DEF CreditsAssumption
<1>4. SumFunctionOnSet(Costs', Rows(g)') <= SumFunctionOnSet(Costs, Rows(g))
  BY <1>1, <1>2, <1>3, SumCovers
<1>5. SumFunctionOnSet(Costs', Rows(g)') \in Nat /\ SumFunctionOnSet(Costs, Rows(g)) \in Nat
  BY <1>1, <1>2, <1>3, SumSplits
<1>6. SumFunctionOnSet(Costs, Rows(g)) <= Line
  BY DEF WithinLine, credit_exposure
<1>7. QED
  BY <1>3, <1>4, <1>5, <1>6

(* The one step that adds a row checked what it adds to.                       *)
LEMMA ReserveStep ==
  ASSUME CreditsAssumption, CreditsInv, TypeOK', NEW q \in Requests, NEW amount \in Amounts,
         thread[q] = "asked", seen[q] \in Grants,
         credit_exposure(seen[q]) + amount <= Line,
         row' = [row EXCEPT ![q] = [status |-> "reserved", grant |-> seen[q],
                                    amount |-> amount, settled |-> 0]]
  PROVE  WithinLine'
<1> SUFFICES ASSUME NEW g \in Grants
             PROVE  SumFunctionOnSet(Costs', Rows(g)') <= Line
  BY DEF WithinLine, credit_exposure
<1>1. Costs \in [Requests -> Nat] /\ Costs' \in [Requests -> Nat]
  BY CostsTyped DEF CreditsInv, TypeOK, Costs
<1>2. Rows(g) \in SUBSET Requests
  BY DEF Rows
<1>3. IsFiniteSet(Requests) /\ Line \in Nat /\ amount \in Nat /\ 0 \notin Grants
  BY DEF CreditsAssumption
<1>4. row[q].status = "none" /\ row[q].grant = 0
  BY DEF CreditsInv, TypeOK, AllBooked, Booked
<1>5. q \notin Rows(g)
  BY <1>3, <1>4 DEF Rows
<1>6. Rows(g)' = IF g = seen[q] THEN Rows(g) \cup {q} ELSE Rows(g)
  <2>1. \A x \in Requests \ {q} : row'[x] = row[x]
    BY DEF CreditsInv, TypeOK
  <2>2. row'[q].grant = seen[q] /\ row'[q].status = "reserved"
    BY DEF CreditsInv, TypeOK
  <2>3. \A x \in Requests : x \in Rows(g)' <=> IF x = q THEN g = seen[q] ELSE x \in Rows(g)
    BY <2>1, <2>2 DEF Rows
  <2>4. Rows(g)' \in SUBSET Requests
    BY DEF Rows
  <2>5. QED
    BY <1>2, <1>5, <2>3, <2>4
<1>7. Costs'[q] = amount /\ \A x \in Requests \ {q} : Costs'[x] = Costs[x]
  BY DEF Costs, CreditsInv, TypeOK
<1>8. SumFunctionOnSet(Costs', Rows(g)) <= SumFunctionOnSet(Costs, Rows(g))
  <2>1. \A x \in Rows(g) : Costs'[x] <= Costs[x]
    BY <1>1, <1>2, <1>5, <1>7
  <2>2. QED
    BY <1>1, <1>2, <1>3, <2>1, SumCovers
<1>9. SumFunctionOnSet(Costs', Rows(g)) \in Nat /\ SumFunctionOnSet(Costs, Rows(g)) \in Nat
  BY <1>1, <1>2, <1>3, SumSplits
<1>10. SumFunctionOnSet(Costs, Rows(g)) <= Line
  BY DEF CreditsInv, WithinLine, credit_exposure
<1>11. CASE g = seen[q]
  <2>1. (Rows(g) \cup {q}) \ {q} = Rows(g) /\ Rows(g) \cup {q} \in SUBSET Requests
    BY <1>2, <1>5
  <2>2. SumFunctionOnSet(Costs', Rows(g) \cup {q}) = amount + SumFunctionOnSet(Costs', Rows(g))
    BY <1>1, <1>3, <1>7, <2>1, SumSplits
  <2>3. SumFunctionOnSet(Costs, Rows(g)) + amount <= Line
    BY <1>11 DEF credit_exposure
  <2>4. QED
    BY <1>3, <1>6, <1>8, <1>9, <1>11, <2>2, <2>3
<1>12. CASE g # seen[q]
  BY <1>3, <1>6, <1>8, <1>9, <1>10, <1>12
<1>13. QED
  BY <1>11, <1>12

------------------------------------------------------------------------------
LEMMA InitCreditsInv == ASSUME CreditsAssumption, Init PROVE CreditsInv
<1>1. row \in [Requests -> [status : {"none", "reserved", "settled", "released"},
                           grant : Grants \cup {0}, amount : Amounts \cup {0}, settled : Nat]]
  BY DEF Init, NoReservation
<1>2. TypeOK
  BY <1>1 DEF Init, TypeOK, NoReservation, CreditsAssumption
<1>3. AllBooked
  BY DEF Init, AllBooked, Booked, NoReservation, Costs
<1>4. WithinLine
  <2> SUFFICES ASSUME NEW g \in Grants PROVE credit_exposure(g) <= Line
    BY DEF WithinLine
  <2>1. Rows(g) = {}
    BY DEF Init, Rows, NoReservation, CreditsAssumption
  <2>2. SumFunctionOnSet(Costs, {}) = 0
    <3>1. IsFiniteSet(Requests) /\ {} \in SUBSET Requests
      BY DEF CreditsAssumption
    <3>2. Unfolds(Costs, {})
      BY <3>1, SumUnfolds
    <3>3. QED
      BY <3>2 DEF Unfolds
  <2>3. QED
    BY <2>1, <2>2 DEF credit_exposure, CreditsAssumption
<1>5. QED
  BY <1>2, <1>3, <1>4 DEF CreditsInv

(* The pool's own steps, and those of a handler that leave the rows alone.     *)
LEMMA RowsKept ==
  ASSUME CreditsAssumption, CreditsInv, TypeOK', AllBooked', row' = row
  PROVE  CreditsInv'
<1>1. Costs' = Costs /\ \A g \in Grants : Rows(g)' = Rows(g)
  BY DEF Costs, Rows
<1>2. \A q \in Requests : Costs'[q] <= Costs[q]
  <2>1. \A q \in Requests : Costs[q] \in Nat
    BY CostsType DEF CreditsInv
  <2>2. QED
    BY <1>1, <2>1
<1>3. QED
  BY <1>1, <1>2, NoDearer DEF CreditsInv

(* A handler moves on: its thread, what it read, what its run was told.        *)
LEMMA HandlerMoves ==
  ASSUME CreditsAssumption, CreditsInv, NEW q \in Requests,
         UNCHANGED <<current, last, row, spent>>, exhausted' \in Grants \cup {0},
         parked' \in BOOLEAN,
         seen' = seen \/ (thread[q] = "new" /\ seen' = [seen EXCEPT ![q] = current]),
         heard' \in [Requests -> {"nothing", "too_low", "auth"}],
         \E to : /\ thread' = [thread EXCEPT ![q] = to]
                /\ \/ to \in {"done", "over"}
                   \/ thread[q] = "new" /\ to = "asked" /\ seen'[q] # 0
                   \/ thread[q] = "reserved" /\ to = "sent"
                   \/ thread[q] = "sent" /\ to = "refused"
  PROVE  CreditsInv'
<1>1. PICK to : /\ thread' = [thread EXCEPT ![q] = to]
                /\ \/ to \in {"done", "over"}
                   \/ thread[q] = "new" /\ to = "asked" /\ seen'[q] # 0
                   \/ thread[q] = "reserved" /\ to = "sent"
                   \/ thread[q] = "sent" /\ to = "refused"
  OBVIOUS
<1>2. TypeOK'
  <2>1. thread' \in [Requests -> {"new", "asked", "reserved", "sent", "charged", "refused",
                                "done", "dead", "over"}]
    BY <1>1 DEF CreditsInv, TypeOK
  <2>2. seen' \in [Requests -> Grants \cup {0}]
    <3>1. current \in Grants \cup {0} /\ seen \in [Requests -> Grants \cup {0}]
      BY DEF CreditsInv, TypeOK
    <3>2. QED
      BY <3>1
  <2>3. QED
    BY <2>1, <2>2 DEF CreditsInv, TypeOK
<1>3. AllBooked'
  <2> SUFFICES ASSUME NEW x \in Requests PROVE Booked(x)'
    BY DEF AllBooked
  <2>1. Booked(x) /\ Costs' = Costs
    BY DEF CreditsInv, AllBooked, Costs
  <2>2. CASE x = q
    BY <1>1, <2>1, <2>2 DEF Booked, CreditsInv, TypeOK
  <2>3. CASE x # q
    BY <1>1, <2>1, <2>3 DEF Booked, CreditsInv, TypeOK
  <2>4. QED
    BY <2>2, <2>3
<1>4. QED
  BY <1>2, <1>3, RowsKept

LEMMA MarkTypes ==
  ASSUME CreditsInv, NEW what \in {"too_low", "auth", "nothing"}, NEW g \in Grants \cup {0}, Mark(what, g)
  PROVE  /\ UNCHANGED <<current, last>>
         /\ exhausted' \in Grants \cup {0} /\ parked' \in BOOLEAN
BY DEF Mark, CreditsInv, TypeOK, poolVars

LEMMA HandlerSteps ==
  ASSUME CreditsAssumption, CreditsInv, NEW q \in Requests,
         Asks(q) \/ Sends(q) \/ Refuses(q) \/ Ambiguous(q) \/ after_run(q)
  PROVE  CreditsInv'
<1>1. CASE Asks(q)
  <2>1. CASE Deny(q, "new")
    BY <1>1, <2>1, HandlerMoves DEF Asks, Deny, Go, poolVars, CreditsInv, TypeOK
  <2>2. CASE Go(q, "new", "asked") /\ UNCHANGED heard /\ current # 0
    <3>1. seen'[q] = current
      BY <1>1 DEF Asks, CreditsInv, TypeOK
    <3>2. QED
      BY <1>1, <2>2, <3>1, HandlerMoves DEF Asks, Go, poolVars, CreditsInv, TypeOK
  <2>3. QED
    BY <1>1, <2>1, <2>2 DEF Asks
<1>2. CASE Sends(q)
  BY <1>2, HandlerMoves DEF Sends, Go, poolVars, CreditsInv, TypeOK
<1>3. CASE Refuses(q)
  BY <1>3, HandlerMoves DEF Refuses, Go, poolVars, CreditsInv, TypeOK
<1>4. CASE Ambiguous(q)
  BY <1>4, HandlerMoves DEF Ambiguous, poolVars, CreditsInv, TypeOK
<1>5. CASE after_run(q)
  <2>1. heard[q] \in {"too_low", "auth", "nothing"} /\ current \in Grants \cup {0}
    BY DEF CreditsInv, TypeOK
  <2>2. /\ UNCHANGED <<current, last>>
        /\ exhausted' \in Grants \cup {0} /\ parked' \in BOOLEAN
    BY <1>5, <2>1, MarkTypes DEF after_run
  <2>3. QED
    BY <1>5, <2>2, HandlerMoves DEF after_run, Go, CreditsInv, TypeOK
<1>6. QED
  BY <1>1, <1>2, <1>3, <1>4, <1>5

LEMMA ReservesStep ==
  ASSUME CreditsAssumption, CreditsInv, NEW q \in Requests, Reserves(q)
  PROVE  CreditsInv'
<1>1. PICK amount \in Amounts : reserve_credit(q, amount)
  BY DEF Reserves
<1>2. UNCHANGED <<poolVars, seen, spent>>
  BY DEF Reserves
<1>3. CASE Deny(q, "asked") /\ UNCHANGED row
  BY <1>2, <1>3, HandlerMoves DEF Deny, Go, poolVars, CreditsInv, TypeOK
<1>4. CASE seen[q] = current /\ credit_exposure(seen[q]) + amount <= Line /\ Reserve(q, amount)
  <2>1. /\ thread[q] = "asked" /\ thread' = [thread EXCEPT ![q] = "reserved"] /\ heard' = heard
        /\ row' = [row EXCEPT ![q] = [status |-> "reserved", grant |-> seen[q],
                                     amount |-> amount, settled |-> 0]]
    BY <1>4 DEF Reserve, Go
  <2>2. seen[q] \in Grants
    BY <2>1 DEF CreditsInv, TypeOK, AllBooked, Booked
  <2>3. amount \in Nat \ {0} /\ 0 \notin Grants
    BY DEF CreditsAssumption
  <2>4. TypeOK'
    <3>1. row' \in [Requests -> [status : {"none", "reserved", "settled", "released"},
                                grant : Grants \cup {0}, amount : Amounts \cup {0}, settled : Nat]]
      BY <2>1, <2>2 DEF CreditsInv, TypeOK
    <3>2. thread' \in [Requests -> {"new", "asked", "reserved", "sent", "charged", "refused",
                                  "done", "dead", "over"}]
      BY <2>1 DEF CreditsInv, TypeOK
    <3>3. \A x \in Requests : (row'[x].status = "none") = (row'[x].grant = 0)
      BY <2>1, <2>2, <2>3 DEF CreditsInv, TypeOK
    <3>4. QED
      BY <1>2, <2>1, <3>1, <3>2, <3>3 DEF poolVars, CreditsInv, TypeOK
  <2>5. AllBooked'
    <3> SUFFICES ASSUME NEW x \in Requests PROVE Booked(x)'
      BY DEF AllBooked
    <3>1. Booked(x)
      BY DEF CreditsInv, AllBooked
    <3>2. CASE x = q
      <4>1. Costs'[q] = amount
        BY <2>1 DEF Costs, CreditsInv, TypeOK
      <4>2. spent'[q] = 0
        BY <1>2, <2>1, <3>1, <3>2 DEF Booked
      <4>3. thread'[q] = "reserved" /\ row'[q].status = "reserved"
        BY <2>1 DEF CreditsInv, TypeOK
      <4>4. QED
        BY <2>3, <3>2, <4>1, <4>2, <4>3 DEF Booked
    <3>3. CASE x # q
      <4>1. /\ thread'[x] = thread[x] /\ row'[x] = row[x] /\ seen'[x] = seen[x]
            /\ spent'[x] = spent[x] /\ Costs'[x] = Costs[x]
        BY <1>2, <2>1, <3>3 DEF Costs, CreditsInv, TypeOK
      <4>2. QED
        BY <3>1, <4>1 DEF Booked
    <3>4. QED
      BY <3>2, <3>3
  <2>6. WithinLine'
    BY <1>4, <2>1, <2>2, <2>4, ReserveStep
  <2>7. QED
    BY <2>4, <2>5, <2>6 DEF CreditsInv
<1>5. credit_exposure(seen[q]) \in Nat
  <2>1. IsFiniteSet(Requests) /\ Rows(seen[q]) \in SUBSET Requests
    BY DEF Rows, CreditsAssumption
  <2>2. QED
    BY <2>1, CostsType, SumSplits DEF credit_exposure, CreditsInv
<1>6. amount \in Nat /\ Line \in Nat
  BY DEF CreditsAssumption
<1>7. credit_exposure(seen[q]) + amount > Line \/ credit_exposure(seen[q]) + amount <= Line
  BY <1>5, <1>6
<1>8. QED
  BY <1>1, <1>3, <1>4, <1>5, <1>6, <1>7 DEF reserve_credit

(* A row is resolved once: to what the provider charged, or to nothing.        *)
LEMMA ResolveStep ==
  ASSUME CreditsAssumption, CreditsInv, NEW q \in Requests,
         NEW status \in {"settled", "released"}, NEW cost \in Nat, resolve(q, status, cost),
         \/ status = "settled" /\ cost = spent[q]
         \/ status = "released" /\ spent[q] = 0 /\ cost = 0,
         thread' = [thread EXCEPT ![q] = "done"],
         heard' \in [Requests -> {"nothing", "too_low", "auth"}],
         exhausted' \in Grants \cup {0}, parked' \in BOOLEAN,
         UNCHANGED <<current, last, seen, spent>>
  PROVE  CreditsInv'
<1> DEFINE R == [status : {"none", "reserved", "settled", "released"},
                 grant : Grants \cup {0}, amount : Amounts \cup {0}, settled : Nat]
<1>1. row \in [Requests -> R] /\ Costs \in [Requests -> Nat]
  BY CostsType DEF CreditsInv, TypeOK
<1>2. /\ \A x \in Requests \ {q} : row'[x] = row[x]
      /\ row[q].status # "reserved" => row'[q] = row[q]
      /\ row[q].status = "reserved" =>
           /\ row'[q].status = status /\ row'[q].settled = cost
           /\ row'[q].grant = row[q].grant /\ row'[q].amount = row[q].amount
  BY <1>1 DEF resolve
<1>3. row' \in [Requests -> R]
  BY <1>1, ZenonT(60) DEF resolve
<1>4. \A x \in Requests : (row'[x].status = "none") = (row'[x].grant = 0)
  <2>1. \A x \in Requests : (row[x].status = "none") = (row[x].grant = 0)
    BY DEF CreditsInv, TypeOK
  <2>2. QED
    BY <1>2, <2>1
<1>5. TypeOK'
  <2>1. thread' \in [Requests -> {"new", "asked", "reserved", "sent", "charged", "refused",
                                "done", "dead", "over"}]
    BY DEF CreditsInv, TypeOK
  <2>2. QED
    BY <1>3, <1>4, <2>1 DEF CreditsInv, TypeOK
<1>6. \A x \in Requests : Booked(x)
  BY DEF CreditsInv, AllBooked
<1>7. /\ Costs'[q] <= Costs[q] /\ spent[q] <= Costs'[q]
      /\ row'[q].status \in {"none", "released"} => spent[q] = 0
  <2>1. spent[q] \in Nat /\ Costs[q] \in Nat /\ row[q].amount \in Nat
    <3>1. row[q].amount \in Amounts \cup {0} /\ Amounts \cup {0} \subseteq Nat
      BY <1>1 DEF CreditsAssumption
    <3>2. QED
      BY <1>1, <3>1 DEF CreditsInv, TypeOK
  <2>2. spent[q] <= Costs[q] /\ (row[q].status \in {"none", "released"} => spent[q] = 0)
    BY <1>6 DEF Booked
  <2>3. CASE row[q].status # "reserved"
    <3>1. Costs'[q] = Costs[q] /\ row'[q] = row[q]
      BY <1>2, <2>3 DEF Costs
    <3>2. QED
      BY <2>1, <2>2, <3>1
  <2>4. CASE row[q].status = "reserved" /\ status = "settled"
    <3>1. Costs'[q] = spent[q] /\ row'[q].status = "settled"
      BY <1>2, <2>4 DEF Costs
    <3>2. QED
      BY <2>1, <2>2, <3>1
  <2>5. CASE row[q].status = "reserved" /\ status = "released"
    <3>1. Costs'[q] = row[q].amount /\ Costs[q] = row[q].amount /\ spent[q] = 0
      BY <1>2, <2>5 DEF Costs
    <3>2. QED
      BY <2>1, <3>1
  <2>6. QED
    BY <2>3, <2>4, <2>5
<1>8. \A x \in Requests \ {q} : Costs'[x] = Costs[x]
  BY <1>2 DEF Costs
<1>9. AllBooked'
  <2> SUFFICES ASSUME NEW x \in Requests PROVE Booked(x)'
    BY DEF AllBooked
  <2>1. CASE x = q
    BY <1>7, <2>1 DEF Booked, CreditsInv, TypeOK
  <2>2. CASE x # q
    BY <1>2, <1>6, <1>8, <2>2 DEF Booked, CreditsInv, TypeOK
  <2>3. QED
    BY <2>1, <2>2
<1>10. \A g \in Grants : Rows(g)' \subseteq Rows(g)
  <2>1. \A x \in Requests : /\ row'[x].grant = row[x].grant
                            /\ row[x].status = "released" => row'[x].status = "released"
    BY <1>2
  <2>2. QED
    BY <2>1 DEF Rows
<1>11. \A x \in Requests : Costs'[x] <= Costs[x]
  <2>1. \A x \in Requests : Costs[x] \in Nat
    BY <1>1
  <2>2. QED
    BY <1>7, <1>8, <2>1
<1>12. QED
  BY <1>5, <1>9, <1>10, <1>11, NoDearer DEF CreditsInv

LEMMA Resolving ==
  ASSUME CreditsAssumption, CreditsInv, NEW q \in Requests, Settles(q) \/ Releases(q)
  PROVE  CreditsInv'
<1>1. CASE Settles(q)
  <2>1. spent[q] \in Nat
    BY DEF CreditsInv, TypeOK
  <2>2. QED
    BY <1>1, <2>1, ResolveStep DEF Settles, Go, poolVars, CreditsInv, TypeOK
<1>2. CASE Releases(q)
  <2>1. PICK what \in {"too_low", "auth", "nothing"} :
          heard' = [heard EXCEPT ![q] = what] /\ Mark(what, row[q].grant)
    BY <1>2 DEF Releases
  <2>2. row[q].grant \in Grants \cup {0} /\ heard' \in [Requests -> {"nothing", "too_low", "auth"}]
    BY <2>1 DEF CreditsInv, TypeOK
  <2>3. spent[q] = 0
    BY <1>2 DEF Releases, Go, CreditsInv, AllBooked, Booked
  <2>4. /\ UNCHANGED <<current, last>>
        /\ exhausted' \in Grants \cup {0} /\ parked' \in BOOLEAN
    BY <2>1, <2>2, MarkTypes
  <2>5. resolve(q, "released", 0) /\ thread' = [thread EXCEPT ![q] = "done"]
        /\ UNCHANGED <<seen, spent>>
    BY <1>2 DEF Releases, Go
  <2>6. UNCHANGED <<current, last, seen, spent>>
    BY <2>4, <2>5
  <2>7. 0 \in Nat /\ "released" \in {"settled", "released"}
    OBVIOUS
  <2>8. QED
    BY <2>2, <2>3, <2>4, <2>5, <2>6, <2>7, ResolveStep
<1>3. QED
  BY <1>1, <1>2

(* The provider charges at most what was reserved, now or, when the gateway     *)
(* dies, unseen.                                                              *)
LEMMA Charging ==
  ASSUME CreditsAssumption, CreditsInv, (\E q \in Requests : Charges(q)) \/ GatewayDies
  PROVE  CreditsInv'
<1>1. UNCHANGED <<poolVars, row, seen, heard>>
  BY DEF Charges, GatewayDies
<1>2. \A x \in Requests : row[x].amount \in Nat
  <2>1. Amounts \cup {0} \subseteq Nat
    BY DEF CreditsAssumption
  <2>2. QED
    BY <2>1 DEF CreditsInv, TypeOK
<1>3. /\ thread' \in [Requests -> {"new", "asked", "reserved", "sent", "charged", "refused",
                                 "done", "dead", "over"}]
      /\ spent' \in [Requests -> Nat]
  <2>1. CASE \E q \in Requests : Charges(q)
    BY <1>2, <2>1 DEF Charges, Go, CreditsInv, TypeOK
  <2>2. CASE GatewayDies
    <3>1. PICK charged \in SUBSET {q \in Requests : thread[q] = "sent"} :
            spent' = [q \in Requests |-> IF q \in charged THEN row[q].amount ELSE spent[q]]
      BY <2>2 DEF GatewayDies
    <3>2. thread' = [q \in Requests |-> IF thread[q] \in {"new", "done", "over"}
                                       THEN thread[q] ELSE "dead"]
      BY <2>2 DEF GatewayDies
    <3>3. QED
      BY <1>2, <3>1, <3>2 DEF CreditsInv, TypeOK
  <2>3. QED
    BY <2>1, <2>2
<1>4. TypeOK'
  BY <1>1, <1>3 DEF CreditsInv, TypeOK, poolVars
<1>5. ASSUME NEW x \in Requests
      PROVE  /\ thread'[x] = "new" => thread[x] = "new"
             /\ thread'[x] \in {"asked", "reserved", "sent", "refused"} =>
                  thread[x] = thread'[x] /\ spent'[x] = spent[x]
             /\ thread'[x] = "charged" => thread[x] \in {"sent", "charged"}
             /\ spent'[x] = spent[x] \/ (thread[x] = "sent" /\ spent'[x] <= row[x].amount)
  <2>1. CASE \E q \in Requests : Charges(q)
    <3>1. PICK q \in Requests : Charges(q)
      BY <2>1
    <3>2. PICK cost \in 0..row[q].amount : spent' = [spent EXCEPT ![q] = cost]
      BY <3>1 DEF Charges
    <3>3. cost <= row[q].amount
      BY <1>2, <3>2
    <3>4. thread[q] = "sent" /\ thread' = [thread EXCEPT ![q] = "charged"]
      BY <3>1 DEF Charges, Go
    <3>5. QED
      BY <3>2, <3>3, <3>4 DEF CreditsInv, TypeOK
  <2>2. CASE GatewayDies
    BY <1>2, <2>2 DEF GatewayDies, CreditsInv, TypeOK
  <2>3. QED
    BY <2>1, <2>2
<1>6. AllBooked'
  <2> SUFFICES ASSUME NEW x \in Requests PROVE Booked(x)'
    BY DEF AllBooked
  <2>1. Booked(x) /\ Costs' = Costs /\ row' = row /\ seen' = seen
    BY <1>1 DEF CreditsInv, AllBooked, Costs
  <2>2. thread[x] = "sent" => Costs[x] = row[x].amount
    BY <2>1 DEF Booked, Costs
  <2>3. spent'[x] <= Costs[x]
    BY <1>5, <2>1, <2>2 DEF Booked
  <2>4. row[x].status \in {"none", "released"} => spent'[x] = 0
    BY <1>5, <2>1 DEF Booked
  <2>5. QED
    BY <1>5, <2>1, <2>3, <2>4 DEF Booked
<1>7. QED
  BY <1>1, <1>4, <1>6, RowsKept

LEMMA PoolSteps ==
  ASSUME CreditsAssumption, CreditsInv, GrantEnds \/ GrantBegins \/ KeyAccepted
  PROVE  CreditsInv'
<1>1. UNCHANGED <<exhausted, row, thread, seen, heard, spent>>
  BY DEF GrantEnds, GrantBegins, KeyAccepted
<1>2. last' \in Grants /\ current' \in {0, last'} /\ parked' \in BOOLEAN
  BY DEF GrantEnds, GrantBegins, KeyAccepted, CreditsInv, TypeOK
<1>3. TypeOK'
  BY <1>1, <1>2 DEF CreditsInv, TypeOK
<1>4. AllBooked'
  BY <1>1 DEF CreditsInv, AllBooked, Booked, Costs
<1>5. QED
  BY <1>1, <1>3, <1>4, RowsKept

LEMMA IndCreditsInv == ASSUME CreditsAssumption, CreditsInv, [Next]_vars PROVE CreditsInv'
<1>1. CASE UNCHANGED vars
  <2>1. UNCHANGED <<current, last, exhausted, parked, row, thread, seen, heard, spent>>
    BY <1>1 DEF vars, poolVars
  <2>2. TypeOK' /\ AllBooked'
    BY <2>1 DEF CreditsInv, TypeOK, AllBooked, Booked, Costs
  <2>3. QED
    BY <2>1, <2>2, RowsKept
<1>2. CASE Next
  <2>1. ASSUME NEW q \in Requests, Handles(q) \/ Provider(q)
        PROVE  CreditsInv'
    BY <2>1, HandlerSteps, ReservesStep, Resolving, Charging DEF Handles, Provider
  <2>2. QED
    BY <1>2, <2>1, Charging, PoolSteps DEF Next
<1>3. QED
  BY <1>1, <1>2

------------------------------------------------------------------------------
(* Every reachable state satisfies the strengthened invariant.                *)
THEOREM CreditsInvariance == ASSUME CreditsAssumption PROVE Spec => []CreditsInv
<1>1. Init => CreditsInv
  BY InitCreditsInv
<1>2. CreditsInv /\ [Next]_vars => CreditsInv'
  BY IndCreditsInv
<1>3. QED
  BY <1>1, <1>2, PTL DEF Spec

(* A row opens only for the grant that runs: reserve_credit compares what the   *)
(* request read with what covers now, in the transaction that reserves.        *)
LEMMA OpensUnderCurrent ==
  ASSUME CreditsAssumption, CreditsInv, [Next]_vars, NEW q \in Requests,
         row[q].status = "none", row'[q].status = "reserved"
  PROVE  row'[q].grant = current
<1>1. row \in [Requests -> [status : {"none", "reserved", "settled", "released"},
                           grant : Grants \cup {0}, amount : Amounts \cup {0}, settled : Nat]]
  BY DEF CreditsInv, TypeOK
<1>2. row' # row
  OBVIOUS
<1>3. PICK x \in Requests : Reserves(x) \/ Settles(x) \/ Releases(x)
  <2>1. Next
    BY <1>2 DEF vars
  <2>2. QED
    BY <1>2, <2>1 DEF Next, Handles, Provider, Asks, Sends, Ambiguous, after_run, Charges,
                      Refuses, GatewayDies, GrantEnds, GrantBegins, KeyAccepted
<1>4. CASE Reserves(x)
  <2>1. PICK amount \in Amounts : reserve_credit(x, amount)
    BY <1>4 DEF Reserves
  <2>2. seen[x] = current /\ Reserve(x, amount)
    BY <1>2, <2>1 DEF reserve_credit, Reserve
  <2>3. QED
    BY <1>1, <2>2 DEF Reserve
<1>5. CASE Settles(x) \/ Releases(x)
  <2>1. PICK status \in {"settled", "released"} : \E cost : resolve(x, status, cost)
    BY <1>5 DEF Settles, Releases
  <2>2. PICK cost : resolve(x, status, cost)
    BY <2>1
  <2>3. QED
    BY <1>1, <2>2 DEF resolve
<1>6. QED
  BY <1>3, <1>4, <1>5

(* DESIGN D41, ledger.py reserve_credit: whatever requests compete, connections *)
(* break and gateways die, what a grant has settled and reserved stays under    *)
(* its line, the provider took no more than that, and no reservation opens      *)
(* under a grant that has ended.                                              *)
THEOREM BudgetKept == ASSUME CreditsAssumption PROVE Spec => WithinBudget
<1>1. CreditsInv => TypeOK /\ WithinLine /\ SpentIsCovered
  BY SpentCovered DEF CreditsInv
<1>2. CreditsInv /\ [Next]_vars =>
        [\A q \in Requests : row[q].status = "none" /\ row'[q].status = "reserved"
                              => row'[q].grant = current]_vars
  BY OpensUnderCurrent
<1>3. QED
  BY <1>1, <1>2, CreditsInvariance, PTL DEF Spec, WithinBudget, ReservedUnderRunningGrant

------------------------------------------------------------------------------
(* The lease table of the host and the laptop (RemoteLedger).                  *)

Processes == Laptop \cup {"host"}
Calling == [op : {"none", "claim", "heartbeat", "release", "lease"}, epoch : Nat,
            result : {"none", "yes", "no", "error"}]

LeaseRows == [holder : {<<>>} \cup {_holder(p) : p \in Processes}, kind : {"auto", "interactive"},
         epoch : Nat, left : Nat]

RemoteTypeOK ==
  /\ lease \in LeaseRows
  /\ epoch \in Nat
  /\ token \in [Writers -> Nat]
  /\ call \in [Laptop -> Calling]
  /\ adrift \in SUBSET (Laptop \X Calling)
  /\ local \in [state : {"ready", "working", "verifying"}, epoch : Nat]
  /\ gap \in BOOLEAN

(* The host's lease is the newest grant.                                      *)
RowIsNewest == lease # NoRow => lease.epoch = epoch /\ epoch > 0

(* What a process has in memory, or is about to: its token, and a granted claim *)
(* whose answer is on its way.                                                *)
Remembers(p, e) ==
  \/ p \in Writers /\ token[p] = e
  \/ p \in Laptop /\ call[p].op = "claim" /\ call[p].result # "none" /\ call[p].epoch = e

(* Nobody remembers a grant that was never made.                              *)
NoneAhead == \A p \in Processes, e \in Nat : Remembers(p, e) => e <= epoch

(* While the newest grant stands, only the holder its lease names, prefix and  *)
(* all, remembers it.                                                        *)
NewestIsHolders ==
  lease # NoRow => \A p \in Processes : Remembers(p, epoch) => lease.holder = _holder(p)

(* A "no" to the sweep was true of the host's table when it was given.         *)
SweepHeardTruth ==
  /\ call["sweep"].op \in {"none", "lease"}
  /\ call["sweep"].result = "no" => gap

RemoteInv == RemoteTypeOK /\ RowIsNewest /\ NoneAhead /\ NewestIsHolders /\ SweepHeardTruth

------------------------------------------------------------------------------
(* D24: the laptop's holder names are nobody's on the host.                    *)
LEMMA HoldersDiffer ==
  \A p, q \in Processes : _holder(p) = _holder(q) => p = q
BY DEF _holder, Names, Processes, Laptop

LEMMA InitRemoteInv == RemoteInit => RemoteInv
<1> SUFFICES ASSUME RemoteInit PROVE RemoteInv
  OBVIOUS
<1>1. lease \in LeaseRows
  BY DEF RemoteInit, NoRow, LeaseRows
<1>2. call \in [Laptop -> Calling]
  BY DEF RemoteInit, NoCall, Calling
<1>3. RemoteTypeOK
  <2>1. local \in [state : {"ready", "working", "verifying"}, epoch : Nat]
    BY DEF RemoteInit
  <2>2. token \in [Writers -> Nat] /\ epoch \in Nat /\ gap \in BOOLEAN
    BY DEF RemoteInit
  <2>3. adrift \in SUBSET (Laptop \X Calling)
    BY DEF RemoteInit
  <2>4. QED
    BY <1>1, <1>2, <2>1, <2>2, <2>3 DEF RemoteTypeOK
<1>4. RowIsNewest /\ NewestIsHolders
  BY DEF RemoteInit, RowIsNewest, NewestIsHolders
<1>5. NoneAhead /\ SweepHeardTruth
  BY DEF RemoteInit, NoneAhead, SweepHeardTruth, Remembers, NoCall, Laptop, Writers
<1>6. QED
  BY <1>3, <1>4, <1>5 DEF RemoteInv

------------------------------------------------------------------------------
(* The host's table: an operation grants anew, or leaves the grant as it is or  *)
(* takes it away.                                                             *)
Kept ==
  /\ epoch' = epoch /\ lease' \in LeaseRows
  /\ lease' # NoRow => lease # NoRow /\ lease'.holder = lease.holder /\ lease'.epoch = lease.epoch

Granting(p) ==
  /\ epoch' = epoch + 1
  /\ lease' = [holder |-> _holder(p), kind |-> Kind(p), epoch |-> epoch + 1, left |-> Ttl]

LEMMA Renewing ==
  ASSUME RemoteAssumption, RemoteInv, lease # NoRow, lease' = [lease EXCEPT !.left = Ttl], epoch' = epoch
  PROVE  Kept /\ lease' # NoRow
BY DEF RemoteAssumption, RemoteInv, RemoteTypeOK, LeaseRows, Kept, RowIsNewest, NoRow

LEMMA Removing ==
  ASSUME lease' = NoRow, epoch' = epoch
  PROVE  Kept
BY DEF Kept, LeaseRows, NoRow

LEMMA GrantedRow ==
  ASSUME RemoteAssumption, RemoteInv, NEW p \in Processes, Granting(p)
  PROVE  lease' \in LeaseRows /\ lease'.epoch = epoch' /\ epoch' \in Nat /\ epoch' > 0
BY DEF RemoteAssumption, RemoteInv, RemoteTypeOK, LeaseRows, Granting, Kind

LEMMA ClaimSteps ==
  ASSUME RemoteAssumption, RemoteInv, NEW p \in Processes, claim(p)
  PROVE  \/ Kept /\ (Granted(p) = 0 \/ (Granted(p) = epoch' /\ lease'.holder = _holder(p)))
         \/ Granting(p) /\ Granted(p) = epoch'
<1>1. CASE Renewed(p)
  <2>1. lease # NoRow /\ lease.holder = _holder(p) /\ Granted(p) = epoch
    BY <1>1 DEF Renewed, Mine, Granted, RemoteInv, RowIsNewest
  <2>2. lease' = [lease EXCEPT !.left = Ttl] /\ epoch' = epoch
    BY <1>1 DEF claim
  <2>3. QED
    BY <2>1, <2>2, Renewing DEF RemoteInv, RemoteTypeOK, LeaseRows
<1>2. CASE ~Renewed(p) /\ Refused(p)
  BY <1>2 DEF claim, Granted, Kept, RemoteInv, RemoteTypeOK
<1>3. CASE ~Renewed(p) /\ ~Refused(p)
  BY <1>3 DEF claim, Granted, Granting
<1>4. QED
  BY <1>1, <1>2, <1>3

LEMMA OtherSteps ==
  ASSUME RemoteAssumption, RemoteInv, NEW p \in Processes, NEW e,
         heartbeat(p, e) \/ release(p, e) \/ (lease' = lease /\ epoch' = epoch)
  PROVE  Kept
<1>1. CASE lease' = lease /\ epoch' = epoch
  BY <1>1 DEF Kept, RemoteInv, RemoteTypeOK
<1>2. CASE heartbeat(p, e)
  <2>1. CASE lease # NoRow /\ lease' = [lease EXCEPT !.left = Ttl] /\ epoch' = epoch
    BY <2>1, Renewing
  <2>2. QED
    BY <1>1, <1>2, <2>1 DEF heartbeat, Mine
<1>3. CASE release(p, e)
  BY <1>1, <1>3, Removing DEF release
<1>4. QED
  BY <1>1, <1>2, <1>3

(* The argument: a new grant is newer than every memory, and any other step of  *)
(* the table leaves the newest grant with the holder it names.                 *)
LEMMA GrantsKeptApart ==
  ASSUME RemoteAssumption, RemoteInv, RemoteTypeOK',
         NEW q \in Processes, Kept \/ Granting(q),
         \A p \in Processes, e \in Nat :
            Remembers(p, e)' => \/ e = 0 \/ Remembers(p, e)
                                \/ e = epoch' /\ lease'.holder = _holder(p)
  PROVE  RowIsNewest' /\ NoneAhead' /\ NewestIsHolders'
<1>1. epoch \in Nat /\ epoch' \in Nat /\ epoch <= epoch'
  BY DEF Kept, Granting, RemoteInv, RemoteTypeOK
<1>2. RowIsNewest'
  BY GrantedRow DEF Kept, RowIsNewest, RemoteInv
<1>3. NoneAhead'
  BY <1>1 DEF NoneAhead, RemoteInv
<1>4. ASSUME lease' # NoRow, NEW p \in Processes, NEW e \in Nat, e = epoch', Remembers(p, e)'
      PROVE  lease'.holder = _holder(p)
  <2>1. epoch' > 0
    BY <1>2, <1>4 DEF RowIsNewest
  <2>2. CASE Remembers(p, e)
    <3>1. epoch' <= epoch
      BY <1>1, <1>4, <2>2 DEF RemoteInv, NoneAhead
    <3>2. Kept
      BY <3>1, <1>1 DEF Granting
    <3>3. QED
      BY <1>4, <2>2, <3>2 DEF Kept, RemoteInv, NewestIsHolders
  <2>3. QED
    BY <1>1, <1>4, <2>1, <2>2
<1>5. NewestIsHolders'
  BY <1>1, <1>4 DEF NewestIsHolders, Remembers
<1>6. QED
  BY <1>2, <1>3, <1>5

------------------------------------------------------------------------------
(* The steps, by what they do to memories and answers.                        *)
OldMemories ==
  \A p \in Processes, e \in Nat :
     Remembers(p, e)' => \/ e = 0 \/ Remembers(p, e)
                         \/ e = epoch' /\ lease'.holder = _holder(p)

LEMMA RunsIsATableStep ==
  ASSUME RemoteAssumption, RemoteInv, NEW p \in Laptop, NEW c \in Calling, Runs(p, c)
  PROVE  /\ Kept \/ Granting(p)
         /\ lease' \in LeaseRows /\ epoch' \in Nat
         /\ c.op = "claim" => \/ Granted(p) = 0
                              \/ Granted(p) = epoch' /\ lease'.holder = _holder(p)
         /\ Answer(p, c) \in [result : {"yes", "no"}, epoch : Nat]
         /\ c.op = "claim" => Answer(p, c).epoch = Granted(p)
         /\ c.op = "lease" => (Answer(p, c).result = "no" => ~Live)
<1>0. p \in Processes
  BY DEF Processes
<1>1. CASE c.op = "claim"
  <2>1. claim(p)
    BY <1>1 DEF Runs
  <2>2. \/ Kept /\ (Granted(p) = 0 \/ (Granted(p) = epoch' /\ lease'.holder = _holder(p)))
        \/ Granting(p) /\ Granted(p) = epoch'
    BY <1>0, <2>1, ClaimSteps
  <2>3. lease' \in LeaseRows /\ epoch' \in Nat
    BY <1>0, <2>2, GrantedRow DEF Kept, RemoteInv, RemoteTypeOK
  <2>4. Granting(p) => lease'.holder = _holder(p)
    BY DEF Granting
  <2>5. Granted(p) \in Nat
    BY <2>2, <2>3
  <2>6. Answer(p, c) = [result |-> IF Granted(p) > 0 THEN "yes" ELSE "no", epoch |-> Granted(p)]
    BY <1>1 DEF Answer
  <2>7. QED
    BY <1>1, <2>2, <2>3, <2>4, <2>5, <2>6
<1>2. CASE c.op # "claim"
  <2>1. Kept
    <3>1. heartbeat(p, c.epoch) \/ release(p, c.epoch) \/ (lease' = lease /\ epoch' = epoch)
      BY <1>2 DEF Runs
    <3>2. QED
      BY <1>0, <3>1, OtherSteps
  <2>2. Answer(p, c) \in [result : {"yes", "no"}, epoch : Nat]
    BY <1>2 DEF Answer, Calling
  <2>3. c.op = "lease" => (Answer(p, c).result = "no" => ~Live)
    BY DEF Answer
  <2>4. QED
    BY <1>2, <2>1, <2>2, <2>3 DEF Kept, RemoteInv, RemoteTypeOK
<1>3. QED
  BY <1>1, <1>2

LEMMA Answering ==
  ASSUME RemoteAssumption, RemoteInv, remote_lease_operation
  PROVE  RemoteInv'
<1>1. PICK p \in Laptop :
        /\ call[p].op # "none" /\ call[p].result = "none"
        /\ Runs(p, call[p])
        /\ call' = [call EXCEPT ![p].result = Answer(p, call[p]).result,
                                ![p].epoch = Answer(p, call[p]).epoch]
  BY DEF remote_lease_operation
<1>2. gap' = (gap \/ ~Live) /\ token' = token /\ adrift' = adrift /\ local' = local
  BY DEF remote_lease_operation, Gap
<1>3. call[p] \in Calling
  BY DEF RemoteInv, RemoteTypeOK
<1>4. /\ Kept \/ Granting(p)
      /\ lease' \in LeaseRows /\ epoch' \in Nat
      /\ call[p].op = "claim" => \/ Granted(p) = 0
                                 \/ Granted(p) = epoch' /\ lease'.holder = _holder(p)
      /\ Answer(p, call[p]) \in [result : {"yes", "no"}, epoch : Nat]
      /\ call[p].op = "claim" => Answer(p, call[p]).epoch = Granted(p)
      /\ call[p].op = "lease" => (Answer(p, call[p]).result = "no" => ~Live)
  BY <1>1, <1>3, RunsIsATableStep
<1>5. /\ \A q \in Laptop \ {p} : call'[q] = call[q]
      /\ call'[p].op = call[p].op
      /\ call'[p].result = Answer(p, call[p]).result
      /\ call'[p].epoch = Answer(p, call[p]).epoch
  BY <1>1, <1>3 DEF RemoteInv, RemoteTypeOK, Calling
<1>6. call' \in [Laptop -> Calling]
  BY <1>1, <1>3, <1>4 DEF RemoteInv, RemoteTypeOK, Calling
<1>7. RemoteTypeOK'
  BY <1>2, <1>4, <1>6 DEF RemoteInv, RemoteTypeOK
<1>8. SweepHeardTruth'
  <2>1. CASE p = "sweep"
    BY <1>1, <1>2, <1>4, <1>5, <2>1 DEF RemoteInv, SweepHeardTruth
  <2>2. CASE p # "sweep"
    BY <1>2, <1>5, <2>2 DEF RemoteInv, SweepHeardTruth, Laptop
  <2>3. QED
    BY <2>1, <2>2
<1>9. OldMemories
  <2> SUFFICES ASSUME NEW q \in Processes, NEW e \in Nat, Remembers(q, e)', ~Remembers(q, e)
               PROVE  e = 0 \/ (e = epoch' /\ lease'.holder = _holder(q))
    BY DEF OldMemories
  <2>1. q = p /\ call[p].op = "claim" /\ e = Answer(p, call[p]).epoch
    BY <1>2, <1>5 DEF Remembers
  <2>2. QED
    BY <1>4, <2>1
<1>10. p \in Processes
  BY DEF Processes
<1>11. QED
  BY <1>4, <1>7, <1>8, <1>9, <1>10, GrantsKeptApart DEF RemoteInv, OldMemories

LEMMA AnsweringLate ==
  ASSUME RemoteAssumption, RemoteInv, RunsAdrift
  PROVE  RemoteInv'
<1>1. PICK a \in adrift : Runs(a[1], a[2]) /\ adrift' = adrift \ {a}
  BY DEF RunsAdrift
<1>2. gap' = (gap \/ ~Live) /\ token' = token /\ call' = call /\ local' = local
  BY DEF RunsAdrift, Gap
<1>3. a[1] \in Laptop /\ a[2] \in Calling
  BY DEF RemoteInv, RemoteTypeOK
<1>4. (Kept \/ Granting(a[1])) /\ lease' \in LeaseRows /\ epoch' \in Nat
  BY <1>1, <1>3, RunsIsATableStep
<1>5. RemoteTypeOK'
  BY <1>1, <1>2, <1>4 DEF RemoteInv, RemoteTypeOK
<1>6. OldMemories /\ SweepHeardTruth'
  BY <1>2 DEF OldMemories, Remembers, RemoteInv, SweepHeardTruth
<1>7. a[1] \in Processes
  BY <1>3 DEF Processes
<1>8. QED
  BY <1>4, <1>5, <1>6, <1>7, GrantsKeptApart DEF RemoteInv, OldMemories

(* A step of the laptop leaves the host's table alone.                        *)
LEMMA LaptopSteps ==
  ASSUME RemoteAssumption, RemoteInv, lease' = lease, epoch' = epoch,
         RemoteTypeOK', OldMemories, SweepHeardTruth'
  PROVE  RemoteInv'
<1>1. Kept
  BY DEF Kept, RemoteInv, RemoteTypeOK
<1>2. "host" \in Processes
  BY DEF Processes
<1>3. QED
  BY <1>1, <1>2, GrantsKeptApart DEF RemoteInv, OldMemories

LEMMA CallingOut ==
  ASSUME RemoteAssumption, RemoteInv, Claim \/ Beat \/ Release
  PROVE  RemoteInv'
<1>1. PICK p \in {"conductor", "session"}, op \in {"claim", "heartbeat", "release"}, e \in Nat :
        Calls(p, op, e)
  <2>1. token \in [Writers -> Nat] /\ {"conductor", "session"} \subseteq Writers
    BY DEF RemoteInv, RemoteTypeOK, Writers
  <2>2. QED
    BY <2>1 DEF Claim, Beat, Release
<1>2. /\ lease' = lease /\ epoch' = epoch /\ adrift' = adrift /\ gap' = (gap \/ ~Live)
      /\ call' = [call EXCEPT ![p] = [op |-> op, epoch |-> e, result |-> "none"]]
  BY <1>1 DEF Calls, Claim, Beat, Release, Gap
<1>3. token' = token \/ token' = [token EXCEPT !["session"] = 0]
  BY DEF Claim, Beat, Release
<1>4. local' = local \/ local' = [local EXCEPT !.state = "verifying"]
  BY DEF Claim, Beat, Release
<1>5. RemoteTypeOK'
  <2>1. call' \in [Laptop -> Calling]
    BY <1>2 DEF RemoteInv, RemoteTypeOK, Calling, Laptop
  <2>2. token' \in [Writers -> Nat]
    BY <1>3 DEF RemoteInv, RemoteTypeOK
  <2>3. local' \in [state : {"ready", "working", "verifying"}, epoch : Nat]
    BY <1>4 DEF RemoteInv, RemoteTypeOK
  <2>4. QED
    BY <1>2, <2>1, <2>2, <2>3 DEF RemoteInv, RemoteTypeOK
<1>6. OldMemories
  BY <1>2, <1>3 DEF OldMemories, Remembers, RemoteInv, RemoteTypeOK, Writers, Laptop
<1>7. SweepHeardTruth'
  BY <1>2 DEF RemoteInv, RemoteTypeOK, SweepHeardTruth, Laptop
<1>8. QED
  BY <1>2, <1>5, <1>6, <1>7, LaptopSteps

LEMMA HearingBack ==
  ASSUME RemoteAssumption, RemoteInv,
         ClaimGranted \/ ClaimRefused \/ BeatAnswered \/ Released \/ SessionDies
  PROVE  RemoteInv'
<1>1. /\ lease' = lease /\ epoch' = epoch /\ adrift' = adrift /\ gap' = (gap \/ ~Live)
  BY DEF ClaimGranted, ClaimRefused, BeatAnswered, Released, SessionDies, Gap
<1>2. PICK p \in {"conductor", "session"} :
        /\ call' = [call EXCEPT ![p] = NoCall] \/ call' = call
        /\ \/ token' = token
           \/ token' = [token EXCEPT ![p] = 0]
           \/ /\ token' = [token EXCEPT ![p] = call[p].epoch]
              /\ call[p].op = "claim" /\ call[p].result = "yes"
  <2>1. ASSUME NEW p \in {"conductor", "session"},
               token' = [token EXCEPT ![p] = IF call[p].result = "yes" THEN @ ELSE 0]
        PROVE  token' = token \/ token' = [token EXCEPT ![p] = 0]
    BY <2>1 DEF RemoteInv, RemoteTypeOK
  <2>2. QED
    BY <2>1
       DEF ClaimGranted, ClaimRefused, BeatAnswered, Released, SessionDies, Returned, Answered
<1>3. p \in Laptop /\ p \in Writers /\ p # "sweep"
  BY DEF Laptop, Writers
<1>4. call[p] \in Calling
  BY <1>3 DEF RemoteInv, RemoteTypeOK
<1>5. RemoteTypeOK'
  <2>1. call' \in [Laptop -> Calling]
    BY <1>2 DEF RemoteInv, RemoteTypeOK, Calling, NoCall
  <2>2. token' \in [Writers -> Nat]
    BY <1>2, <1>4 DEF RemoteInv, RemoteTypeOK, Calling
  <2>3. local' \in [state : {"ready", "working", "verifying"}, epoch : Nat]
    <3>1. CASE ClaimGranted
      <4>1. PICK q \in {"conductor", "session"} :
              local' = [state |-> IF q = "session" THEN "working" ELSE local.state,
                        epoch |-> IF call[q].epoch > local.epoch THEN call[q].epoch ELSE local.epoch]
        BY <3>1 DEF ClaimGranted
      <4>2. call[q].epoch \in Nat
        BY DEF RemoteInv, RemoteTypeOK, Calling, Laptop
      <4>3. QED
        BY <4>1, <4>2 DEF RemoteInv, RemoteTypeOK
    <3>2. CASE ClaimRefused \/ BeatAnswered \/ Released \/ SessionDies
      BY <3>2 DEF ClaimRefused, BeatAnswered, Released, SessionDies, RemoteInv, RemoteTypeOK
    <3>3. QED
      BY <3>1, <3>2
  <2>4. QED
    BY <1>1, <2>1, <2>2, <2>3 DEF RemoteInv, RemoteTypeOK
<1>6. OldMemories
  <2> SUFFICES ASSUME NEW q \in Processes, NEW e \in Nat, Remembers(q, e)'
               PROVE  e = 0 \/ Remembers(q, e)
    BY DEF OldMemories
  <2>1. CASE q = p
    BY <1>2, <1>3, <2>1 DEF Remembers, NoCall, RemoteInv, RemoteTypeOK
  <2>2. CASE q # p
    BY <1>2, <1>3, <2>2 DEF Remembers, RemoteInv, RemoteTypeOK
  <2>3. QED
    BY <2>1, <2>2
<1>7. SweepHeardTruth'
  BY <1>1, <1>2, <1>3 DEF RemoteInv, RemoteTypeOK, SweepHeardTruth, Laptop
<1>8. QED
  BY <1>1, <1>5, <1>6, <1>7, LaptopSteps

LEMMA Losing ==
  ASSUME RemoteAssumption, RemoteInv, CallFails
  PROVE  RemoteInv'
<1>1. PICK p \in Laptop :
        /\ adrift' = IF call[p].result = "none" THEN adrift \cup {<<p, call[p]>>} ELSE adrift
        /\ token' = IF call[p].op = "heartbeat" THEN [token EXCEPT ![p] = 0] ELSE token
        /\ call' = [call EXCEPT ![p] = IF p = "sweep" THEN [@ EXCEPT !.result = "error"] ELSE NoCall]
  BY DEF CallFails
<1>2. lease' = lease /\ epoch' = epoch /\ local' = local /\ gap' = (gap \/ ~Live)
  BY DEF CallFails, Gap
<1>3. call[p] \in Calling
  BY DEF RemoteInv, RemoteTypeOK
<1>4. RemoteTypeOK'
  <2>1. call' \in [Laptop -> Calling]
    BY <1>1, <1>3 DEF RemoteInv, RemoteTypeOK, Calling, NoCall
  <2>2. token' \in [Writers -> Nat]
    BY <1>1 DEF RemoteInv, RemoteTypeOK
  <2>3. adrift' \in SUBSET (Laptop \X Calling)
    BY <1>1, <1>3 DEF RemoteInv, RemoteTypeOK
  <2>4. QED
    BY <1>2, <2>1, <2>2, <2>3 DEF RemoteInv, RemoteTypeOK
<1>5. OldMemories
  <2> SUFFICES ASSUME NEW q \in Processes, NEW e \in Nat, Remembers(q, e)'
               PROVE  e = 0 \/ Remembers(q, e)
    BY DEF OldMemories
  <2>1. CASE q = p /\ p = "sweep"
    <3>1. call'[p].op = call[p].op
      BY <1>1, <1>3, <2>1 DEF RemoteInv, RemoteTypeOK, Calling
    <3>2. call'[p].op # "claim"
      BY <2>1, <3>1 DEF RemoteInv, SweepHeardTruth
    <3>3. QED
      BY <1>1, <2>1, <3>2 DEF Remembers, Writers
  <2>2. CASE q = p /\ p # "sweep"
    BY <1>1, <2>2 DEF Remembers, NoCall, RemoteInv, RemoteTypeOK
  <2>3. CASE q # p
    BY <1>1, <2>3 DEF Remembers, RemoteInv, RemoteTypeOK
  <2>4. QED
    BY <2>1, <2>2, <2>3
<1>6. SweepHeardTruth'
  <2>1. CASE p = "sweep"
    BY <1>1, <1>3, <2>1 DEF RemoteInv, RemoteTypeOK, SweepHeardTruth, Calling
  <2>2. CASE p # "sweep"
    BY <1>1, <1>2, <2>2 DEF RemoteInv, RemoteTypeOK, SweepHeardTruth, Laptop
  <2>3. QED
    BY <2>1, <2>2
<1>7. QED
  BY <1>2, <1>4, <1>5, <1>6, LaptopSteps

LEMMA Sweeping ==
  ASSUME RemoteAssumption, RemoteInv, SweepAsks \/ SweepEnds
  PROVE  RemoteInv'
<1>1. /\ lease' = lease /\ epoch' = epoch /\ token' = token /\ adrift' = adrift
      /\ \/ call' = [call EXCEPT !["sweep"] = NoCall] /\ gap' = (gap \/ ~Live)
         \/ call' = [call EXCEPT !["sweep"] = [op |-> "lease", epoch |-> 0, result |-> "none"]]
            /\ gap' = ~Live
  BY DEF SweepAsks, SweepEnds, Calls, Returned, Gap
<1>2. RemoteTypeOK'
  <2>1. call' \in [Laptop -> Calling]
    BY <1>1 DEF RemoteInv, RemoteTypeOK, Calling, NoCall
  <2>2. local' \in [state : {"ready", "working", "verifying"}, epoch : Nat]
    BY DEF RemoteInv, RemoteTypeOK, SweepAsks, SweepEnds
  <2>3. QED
    BY <1>1, <2>1, <2>2 DEF RemoteInv, RemoteTypeOK
<1>3. OldMemories
  BY <1>1 DEF OldMemories, Remembers, RemoteInv, RemoteTypeOK, NoCall
<1>4. SweepHeardTruth'
  BY <1>1 DEF RemoteInv, RemoteTypeOK, SweepHeardTruth, NoCall, Laptop
<1>5. QED
  BY <1>1, <1>2, <1>3, <1>4, LaptopSteps

LEMMA Hosting ==
  ASSUME RemoteAssumption, RemoteInv, HostClaims \/ HostReleases \/ HostReaps \/ Tick
  PROVE  RemoteInv'
<1>1. call' = call /\ adrift' = adrift /\ local' = local /\ gap' = (gap \/ ~Live)
  BY DEF HostClaims, HostReleases, HostReaps, Tick, Gap
<1>2. "host" \in Processes /\ "host" \in Writers /\ "host" \notin Laptop
  BY DEF Processes, Writers, Laptop
<1>3. SweepHeardTruth'
  BY <1>1 DEF RemoteInv, SweepHeardTruth
<1>4. CASE HostClaims
  <2>1. \/ Kept /\ (Granted("host") = 0 \/ (Granted("host") = epoch' /\ lease'.holder = _holder("host")))
        \/ Granting("host") /\ Granted("host") = epoch'
    BY <1>2, <1>4, ClaimSteps DEF HostClaims
  <2>2. lease' \in LeaseRows /\ epoch' \in Nat
    BY <1>2, <2>1, GrantedRow DEF Kept, RemoteInv, RemoteTypeOK
  <2>3. Granted("host") = 0 \/ (Granted("host") = epoch' /\ lease'.holder = _holder("host"))
    BY <2>1 DEF Granting
  <2>4. token' = [token EXCEPT !["host"] = Granted("host")]
    BY <1>4 DEF HostClaims
  <2>5. RemoteTypeOK'
    <3>1. Granted("host") \in Nat
      BY <2>2, <2>3
    <3>2. token' \in [Writers -> Nat]
      BY <2>4, <3>1 DEF RemoteInv, RemoteTypeOK
    <3>3. QED
      BY <1>1, <2>2, <3>2 DEF RemoteInv, RemoteTypeOK
  <2>6. OldMemories
    <3> SUFFICES ASSUME NEW q \in Processes, NEW e \in Nat, Remembers(q, e)'
                 PROVE  \/ e = 0 \/ Remembers(q, e)
                        \/ e = epoch' /\ lease'.holder = _holder(q)
      BY DEF OldMemories
    <3>1. CASE q = "host"
      <4>1. e = Granted("host")
        BY <1>2, <2>4, <3>1 DEF Remembers, RemoteInv, RemoteTypeOK
      <4>2. QED
        BY <2>3, <3>1, <4>1
    <3>2. CASE q # "host"
      BY <1>1, <2>4, <3>2 DEF Remembers, RemoteInv, RemoteTypeOK
    <3>3. QED
      BY <3>1, <3>2
  <2>7. QED
    BY <1>2, <1>3, <2>1, <2>5, <2>6, GrantsKeptApart DEF RemoteInv, OldMemories
<1>5. CASE HostReleases \/ HostReaps \/ Tick
  <2>1. Kept
    <3>1. CASE HostReleases
      BY <1>2, <3>1, OtherSteps DEF HostReleases
    <3>2. CASE HostReaps
      BY <3>2, Removing DEF HostReaps
    <3>3. CASE Tick
      <4>1. lease' = [lease EXCEPT !.left = @ - 1] /\ lease.left > 0 /\ epoch' = epoch
        BY <3>3 DEF Tick, Live
      <4>2. lease # NoRow
        BY <4>1 DEF NoRow
      <4>3. lease' \in LeaseRows /\ lease'.holder = lease.holder /\ lease'.epoch = lease.epoch
        <5>1. lease \in LeaseRows
          BY DEF RemoteInv, RemoteTypeOK
        <5>2. lease.left - 1 \in Nat
          BY <4>1, <5>1 DEF LeaseRows
        <5>3. QED
          BY <4>1, <5>1, <5>2 DEF LeaseRows
      <4>4. QED
        BY <4>1, <4>2, <4>3 DEF Kept
    <3>4. QED
      BY <1>5, <3>1, <3>2, <3>3
  <2>2. token' = token \/ token' = [token EXCEPT !["host"] = 0]
    BY <1>5 DEF HostReleases, HostReaps, Tick
  <2>3. RemoteTypeOK'
    BY <1>1, <2>1, <2>2 DEF Kept, RemoteInv, RemoteTypeOK
  <2>4. OldMemories
    BY <1>1, <1>2, <2>2 DEF OldMemories, Remembers, RemoteInv, RemoteTypeOK
  <2>5. QED
    BY <1>2, <1>3, <2>1, <2>3, <2>4, GrantsKeptApart DEF RemoteInv, OldMemories
<1>6. QED
  BY <1>4, <1>5

LEMMA IndRemoteInv == RemoteAssumption /\ RemoteInv /\ [RemoteNext]_remoteVars => RemoteInv'
<1> SUFFICES ASSUME RemoteAssumption, RemoteInv, [RemoteNext]_remoteVars
             PROVE  RemoteInv'
  OBVIOUS
<1>1. CASE UNCHANGED remoteVars
  <2>1. UNCHANGED <<lease, epoch, token, call, adrift, local, gap>>
    BY <1>1 DEF remoteVars
  <2>2. RemoteTypeOK' /\ SweepHeardTruth'
    BY <2>1 DEF RemoteInv, RemoteTypeOK, SweepHeardTruth
  <2>3. OldMemories
    BY <2>1 DEF OldMemories, Remembers
  <2>4. QED
    BY <2>1, <2>2, <2>3, LaptopSteps
<1>2. CASE RemoteNext
  BY <1>2, Answering, AnsweringLate, CallingOut, HearingBack, Losing, Sweeping, Hosting DEF
     RemoteNext
<1>3. QED
  BY <1>1, <1>2

------------------------------------------------------------------------------
LEMMA AtMostOne ==
  ASSUME NEW S, \A p, q \in S : p = q
  PROVE  Cardinality(S) <= 1
<1>1. CASE S = {}
  BY <1>1, FS_EmptySet
<1>2. CASE S # {}
  <2>1. PICK p : p \in S
    BY <1>2
  <2>2. S = {p}
    BY <2>1
  <2>3. QED
    <3>1. Cardinality({p}) = 1
      BY FS_Singleton
    <3>2. QED
      BY <2>2, <3>1
<1>3. QED
  BY <1>1, <1>2

LEMMA PassersAgree == ASSUME RemoteInv PROVE \A p, q \in Writers : Passes(p) /\ Passes(q) => p = q
<1> SUFFICES ASSUME NEW p \in Writers, NEW q \in Writers, Passes(p), Passes(q)
             PROVE  p = q
  OBVIOUS
<1>1. lease # NoRow /\ token[p] = lease.epoch /\ token[q] = lease.epoch
  BY DEF Passes, Live, NoRow
<1>2. p \in Processes /\ q \in Processes /\ Remembers(p, epoch) /\ Remembers(q, epoch)
  BY <1>1 DEF RemoteInv, RowIsNewest, Remembers, Processes, Writers, Laptop
<1>3. _holder(p) = _holder(q)
  BY <1>1, <1>2 DEF RemoteInv, NewestIsHolders
<1>4. QED
  BY <1>2, <1>3, HoldersDiffer

(* At most one process of both machines passes the fence.                     *)
OnePasses == Cardinality({r \in Writers : Passes(r)}) <= 1

(* Every reachable state satisfies the strengthened invariant.                *)
THEOREM RemoteInvariance == ASSUME RemoteAssumption PROVE RemoteSpec => []RemoteInv
<1>1. RemoteInit => RemoteInv
  BY InitRemoteInv
<1>2. RemoteInv /\ [RemoteNext]_remoteVars => RemoteInv'
  BY IndRemoteInv
<1>3. QED
  BY <1>1, <1>2, PTL DEF RemoteSpec

(* ledger.py's fencing rule over two machines (D24): whatever requests are      *)
(* lost, given up on or run late, no two processes pass lease_check at once;    *)
(* and the laptop's sweep takes an item only after the host's table had no live *)
(* lease of it.                                                               *)
THEOREM OneWriterOverBothMachines == ASSUME RemoteAssumption PROVE RemoteSpec => MachinesAgree
<1>1. RemoteInv => OnePasses
  <2>1. RemoteInv => \A p, q \in {r \in Writers : Passes(r)} : p = q
    BY PassersAgree
  <2>2. QED
    BY <2>1, AtMostOne DEF OnePasses
<1>2. ASSUME RemoteInv, SweepEnds, local'.state # local.state
      PROVE  gap
  BY <1>2 DEF SweepEnds, Absent, RemoteInv, RemoteTypeOK, SweepHeardTruth
<1>3. OnePasses' => Cardinality({p \in Writers : Passes(p)'}) <= 1
  BY DEF OnePasses
<1>4. RemoteInv /\ OnePasses' =>
        /\ [Cardinality({p \in Writers : Passes(p)'}) <= 1]_remoteVars
        /\ [SweepEnds /\ local'.state # local.state => gap]_remoteVars
  BY <1>2, <1>3
<1>5. QED
  BY <1>1, <1>4, RemoteInvariance, PTL
     DEF RemoteSpec, MachinesAgree, OneWriterAcrossMachines, SweepSparesHeld

------------------------------------------------------------------------------
(* The release ledger (Releases), for all items, labels, versions, merges and   *)
(* faults.                                                                     *)

Lines == {"maintenance", "features", "fixes", "other"} \X Items \X Nat
EntryType == [merge : Nat, at : Nat, release : Nat]
TagType == [tagged : BOOLEAN, sha : Nat, released : BOOLEAN, notes : SUBSET Lines]
ReleaseType == [version : Versions, sha : Nat, notes : SUBSET Lines]
CutType == [version : Versions \cup {<<>>}, sha : Nat, items : SUBSET Items, notes : SUBSET Lines]
JobType ==
  [at : {"idle", "look", "create", "seal"}, version : Versions \cup {<<>>}, sha : Nat,
   items : SUBSET Items, notes : SUBSET Lines, known : BOOLEAN]

ReleasesTypeOK ==
  /\ main \in Nat /\ adopted \in BOOLEAN /\ faults \in Nat
  /\ entry \in [Items -> EntryType] /\ releases \in Seq(ReleaseType)
  /\ hub \in [Versions -> TagType] /\ queued \in CutType /\ job \in [Callers -> JobType]

(* A row is of a merge there has been, and of a release there is.              *)
EntriesOK == \A i \in Items : entry[i].at <= main /\ entry[i].release <= Len(releases)

TagsOK == \A v \in Versions : hub[v].released => hub[v].tagged

Tell(notes, items) == \A i \in items : \E line \in notes : line[2] = i

QueuedOK == queued # NoCut => queued.version \in Versions /\ Tell(queued.notes, queued.items)

(* What is going to be sealed is told of in the notes, and once it gets that    *)
(* far GitHub shows it; what is not told of belongs to a version recorded.      *)
JobOK(j) ==
  /\ j.version \in Versions
  /\ IF j.known THEN Recorded(j.version) ELSE Tell(j.notes, j.items)
  /\ j.at = "create" /\ ~hub[j.version].released => (hub[j.version].tagged => hub[j.version].sha = j.sha)
  /\ j.at = "seal" =>
       hub[j.version].released /\ hub[j.version].sha = j.sha /\ hub[j.version].notes = j.notes
JobsOK == \A c \in Callers : job[c].at # "idle" => JobOK(job[c])

ReleasesInv ==
  /\ ReleasesTypeOK /\ EntriesOK /\ TagsOK /\ QueuedOK /\ JobsOK
  /\ RecordedAsPublished /\ NotesCoverSealed

(* A set of numbers has a least one.                                           *)
LEMMA Earliest ==
  ASSUME NEW S \in SUBSET Nat, S # {}
  PROVE  \E x \in S : \A y \in S : x <= y
<1> DEFINE T == {0..x : x \in S}
<1>1. T \subseteq FiniteSubsetsOf(Nat) /\ T # {}
  <2>1. \A x \in S : IsFiniteSet(0..x) /\ 0..x \subseteq Nat
    BY FS_Interval
  <2> QED BY <2>1 DEF FiniteSubsetsOf
<1>2. PICK I \in T : \A J \in T : ~(<<J, I>> \in StrictSubsetOrdering(Nat))
  <2> HIDE DEF T
  <2> QED BY <1>1, FS_StrictSubsetOrderingWellFounded, WFMin
<1>3. PICK x \in S : I = 0..x
  OBVIOUS
<1>4. ASSUME NEW y \in S, y < x PROVE FALSE
  <2>1. 0..y \in T /\ 0..y \subseteq 0..x /\ 0..y # 0..x
    BY <1>4
  <2>2. 0..y \subseteq Nat /\ 0..x \subseteq Nat
    OBVIOUS
  <2>3. <<0..y, 0..x>> \in StrictSubsetOrdering(Nat)
    BY <2>1, <2>2 DEF StrictSubsetOrdering
  <2> QED BY <1>2, <1>3, <2>1, <2>3
<1> QED BY <1>3, <1>4

LEMMA Emptied ==
  /\ NoCut \in CutType /\ NoCut.notes = {} /\ NoCut.items = {} /\ NoCut.version = <<>>
  /\ NoJob \in JobType /\ NoJob.at = "idle"
  /\ NoEntry \in EntryType /\ NoEntry.merge = 0 /\ NoEntry.at = 0 /\ NoEntry.release = 0
  /\ NoTag \in TagType /\ ~NoTag.tagged /\ ~NoTag.released
BY DEF NoCut, CutType, NoJob, JobType, NoEntry, EntryType, NoTag, TagType

(* The draft has a newest item: no row is of a merge to come.                   *)
LEMMA NewestIsOne ==
  ASSUME ReleasesInv, unreleased_items # {}
  PROVE  Newest(unreleased_items) \in unreleased_items
<1> DEFINE S == {main - entry[i].at : i \in unreleased_items}
<1>1. \A i \in unreleased_items : i \in Items /\ entry[i].at \in Nat /\ entry[i].at <= main /\ main \in Nat
  <2>1. \A i \in Items : entry[i] \in EntryType
    BY DEF ReleasesInv, ReleasesTypeOK
  <2> QED BY <2>1 DEF ReleasesInv, ReleasesTypeOK, EntriesOK, unreleased_items, EntryType
<1>2. S \in SUBSET Nat /\ S # {}
  BY <1>1
<1>3. PICK x \in S : \A y \in S : x <= y
  <2> HIDE DEF S
  <2> QED BY <1>2, Earliest
<1>4. PICK i \in unreleased_items : x = main - entry[i].at
  BY <1>3
<1>5. \A j \in unreleased_items : main - entry[i].at <= main - entry[j].at
  BY <1>3, <1>4
<1>6. \A j \in unreleased_items : entry[j].at <= entry[i].at
  BY <1>1, <1>5
<1> QED BY <1>6 DEF Newest

LEMMA Drafted ==
  ASSUME ReleasesInv
  PROVE  /\ unreleased_items \in SUBSET Items
         /\ synthesize_notes(unreleased_items) \in SUBSET Lines
         /\ Tell(synthesize_notes(unreleased_items), unreleased_items)
         /\ checkpoint_sha \in Nat
<1>1. unreleased_items \in SUBSET Items /\ \A i \in Items : entry[i] \in EntryType
  BY DEF unreleased_items, ReleasesInv, ReleasesTypeOK
<1>2. \A i \in Items : <<Section(i), i, entry[i].merge>> \in Lines
  BY <1>1 DEF Section, Lines, EntryType
<1>3. synthesize_notes(unreleased_items) \in SUBSET Lines
  BY <1>1, <1>2 DEF synthesize_notes
<1>4. Tell(synthesize_notes(unreleased_items), unreleased_items)
  <2>1. ASSUME NEW i \in unreleased_items
        PROVE  \E line \in synthesize_notes(unreleased_items) : line[2] = i
    <3>1. <<Section(i), i, entry[i].merge>> \in synthesize_notes(unreleased_items)
      BY DEF synthesize_notes
    <3> QED BY <3>1
  <2> QED BY <2>1 DEF Tell
<1>5. checkpoint_sha \in Nat
  <2>1. CASE unreleased_items # {}
    BY <1>1, <2>1, NewestIsOne DEF checkpoint_sha, EntryType
  <2>2. CASE unreleased_items = {} /\ releases # <<>>
    <3>1. releases \in Seq(ReleaseType)
      BY DEF ReleasesInv, ReleasesTypeOK
    <3>2. releases[Len(releases)] \in ReleaseType
      BY <2>2, <3>1
    <3> QED BY <2>2, <3>2 DEF checkpoint_sha, Latest, ReleaseType
  <2>3. CASE unreleased_items = {} /\ releases = <<>>
    BY <2>3 DEF checkpoint_sha
  <2> QED BY <2>1, <2>2, <2>3
<1> QED BY <1>1, <1>3, <1>4, <1>5

LEMMA Recording ==
  ASSUME ReleasesInv
  PROVE  /\ DOMAIN releases = 1..Len(releases) /\ Len(releases) \in Nat
         /\ \A k \in DOMAIN releases : releases[k] \in ReleaseType
         /\ \A v : Recorded(v) => v \in Versions /\ hub[v].released /\ RowOf(v) \in ReleaseType
<1>1. /\ DOMAIN releases = 1..Len(releases) /\ Len(releases) \in Nat
      /\ \A k \in DOMAIN releases : releases[k] \in ReleaseType
  BY DEF ReleasesInv, ReleasesTypeOK
<1>2. ASSUME NEW v, Recorded(v) PROVE v \in Versions /\ hub[v].released /\ RowOf(v) \in ReleaseType
  <2>1. PICK k \in DOMAIN releases : releases[k].version = v
    BY <1>2 DEF Recorded
  <2>2. v \in Versions /\ hub[v].released
    BY <1>1, <2>1 DEF ReleaseType, ReleasesInv, RecordedAsPublished
  <2>3. RowOf(v) \in ReleaseType
    BY <1>1, <2>1 DEF RowOf
  <2> QED BY <2>2, <2>3
<1> QED BY <1>1, <1>2

LEMMA ReleasesInitHolds == ASSUME ReleasesAssumption, ReleasesInit PROVE ReleasesInv
<1>1. hub \in [Versions -> TagType] /\ TagsOK
  <2>1. CASE hub = [v \in Versions |-> NoTag]
    BY <2>1, Emptied DEF TagsOK
  <2>2. CASE \E v \in Versions, released \in BOOLEAN :
               hub = [[w \in Versions |-> NoTag] EXCEPT ![v] =
                        [tagged |-> TRUE, sha |-> 0, released |-> released, notes |-> {}]]
    <3>1. PICK v \in Versions, released \in BOOLEAN :
               hub = [[w \in Versions |-> NoTag] EXCEPT ![v] =
                        [tagged |-> TRUE, sha |-> 0, released |-> released, notes |-> {}]]
      BY <2>2
    <3>2. /\ [tagged |-> TRUE, sha |-> 0, released |-> released, notes |-> {}] \in TagType
          /\ \A w \in Versions : hub[w] = IF w = v
               THEN [tagged |-> TRUE, sha |-> 0, released |-> released, notes |-> {}] ELSE NoTag
      BY <3>1 DEF TagType
    <3> QED BY <3>1, <3>2, Emptied DEF TagsOK
  <2> QED BY <2>1, <2>2 DEF ReleasesInit
<1>2. ReleasesTypeOK
  <2>1. main \in Nat /\ adopted \in BOOLEAN /\ faults \in Nat /\ queued \in CutType
    BY Emptied DEF ReleasesInit, ReleasesAssumption
  <2>2. entry \in [Items -> EntryType] /\ job \in [Callers -> JobType]
    BY Emptied DEF ReleasesInit
  <2>3. releases \in Seq(ReleaseType)
    BY DEF ReleasesInit
  <2> QED BY <1>1, <2>1, <2>2, <2>3 DEF ReleasesTypeOK
<1>3. EntriesOK /\ QueuedOK /\ JobsOK /\ RecordedAsPublished /\ NotesCoverSealed
  BY Emptied DEF ReleasesInit, EntriesOK, QueuedOK, JobsOK, RecordedAsPublished, NotesCoverSealed
<1> QED BY <1>1, <1>2, <1>3 DEF ReleasesInv

(* What a step that writes neither the releases nor GitHub leaves true.        *)
LEMMA Settled ==
  ASSUME ReleasesInv, ReleasesTypeOK', UNCHANGED <<releases, hub>>,
         EntriesOK', \A i \in Items : entry'[i].release = entry[i].release,
         QueuedOK', \A c \in Callers : job'[c] = job[c] \/ job'[c].at = "idle" \/ JobOK(job'[c])
  PROVE  ReleasesInv'
<1>1. \A j : JobOK(j) => (JobOK(j))'
  BY DEF JobOK, Recorded, Tell
<1>2. ASSUME NEW c \in Callers, job'[c].at # "idle" PROVE JobOK(job'[c])
  BY <1>2 DEF ReleasesInv, JobsOK
<1>3. JobsOK'
  BY <1>2 DEF JobsOK, JobOK, Recorded, Tell
<1>4. TagsOK' /\ RecordedAsPublished' /\ NotesCoverSealed'
  BY DEF ReleasesInv, TagsOK, RecordedAsPublished, NotesCoverSealed
<1> QED BY <1>3, <1>4 DEF ReleasesInv

LEMMA ShipKeeps == ASSUME ReleasesInv, NEW i \in Items, Ship(i) PROVE ReleasesInv'
<1>1. main' = main + 1 /\ UNCHANGED <<releases, adopted, queued, hub, job, faults>> /\ main \in Nat
  BY DEF Ship, ReleasesInv, ReleasesTypeOK
<1>2. \/ UNCHANGED entry
      \/ /\ ~(entry[i].release > 0)
         /\ entry' = [entry EXCEPT ![i].merge = main', ![i].at = IF @ = 0 THEN main' ELSE @]
  BY DEF Ship, snapshot_release_item
<1>3. entry \in [Items -> EntryType]
  BY DEF ReleasesInv, ReleasesTypeOK
<1>4. /\ entry' \in [Items -> EntryType]
      /\ \A k \in Items : entry'[k].release = entry[k].release /\ entry'[k].at \in {entry[k].at, main'}
  <2>1. CASE UNCHANGED entry
    BY <1>3, <2>1
  <2>2. CASE entry' = [entry EXCEPT ![i].merge = main', ![i].at = IF @ = 0 THEN main' ELSE @]
    <3> DEFINE new == [entry[i] EXCEPT !.merge = main', !.at = IF entry[i].at = 0 THEN main' ELSE entry[i].at]
    <3>1. new \in EntryType /\ new.release = entry[i].release /\ new.at \in {entry[i].at, main'}
      <4> DEFINE e == entry[i]
                 at == IF e.at = 0 THEN main' ELSE e.at
      <4>1. e \in EntryType /\ main' \in Nat /\ at \in Nat /\ at \in {e.at, main'}
        BY <1>1, <1>3 DEF EntryType
      <4>2. new = [e EXCEPT !.merge = main', !.at = at]
        OBVIOUS
      <4> HIDE DEF e, at, new
      <4>3. new \in EntryType /\ new.release = e.release /\ new.at = at
        BY <4>1, <4>2 DEF EntryType
      <4> QED BY <4>1, <4>3 DEF e
    <3>2. entry' = [entry EXCEPT ![i] = new]
      BY <1>3, <2>2
    <3> HIDE DEF new
    <3> QED BY <1>3, <3>1, <3>2
  <2> QED BY <1>2, <2>1, <2>2
<1>5. ReleasesTypeOK'
  BY <1>1, <1>4 DEF ReleasesInv, ReleasesTypeOK
<1>6. EntriesOK'
  <2>1. \A k \in Items : entry[k] \in EntryType
    BY <1>3
  <2>2. \A k \in Items : entry[k].at \in Nat
    BY <2>1 DEF EntryType
  <2> QED BY <1>1, <1>4, <2>2 DEF ReleasesInv, EntriesOK
<1>7. QueuedOK'
  BY <1>1 DEF ReleasesInv, QueuedOK
<1> QED BY <1>1, <1>4, <1>5, <1>6, <1>7, Settled

LEMMA AdoptKeeps == ASSUME ReleasesInv, AdoptBaseline PROVE ReleasesInv'
<1>1. /\ UNCHANGED <<main, entry, hub, queued, job, faults>> /\ adopted' \in BOOLEAN /\ releases = <<>>
      /\ \/ UNCHANGED releases
         \/ \E v \in Versions : /\ hub[v].released
              /\ releases' = <<[version |-> v, sha |-> hub[v].sha, notes |-> hub[v].notes]>>
  BY DEF AdoptBaseline
<1>2. CASE UNCHANGED releases
  <2>1. ReleasesTypeOK' /\ EntriesOK' /\ QueuedOK'
    BY <1>1, <1>2 DEF ReleasesInv, ReleasesTypeOK, EntriesOK, QueuedOK
  <2> QED BY <1>1, <1>2, <2>1, Settled
<1>3. CASE \E v \in Versions : /\ hub[v].released
              /\ releases' = <<[version |-> v, sha |-> hub[v].sha, notes |-> hub[v].notes]>>
  <2>1. PICK v \in Versions : /\ hub[v].released
              /\ releases' = <<[version |-> v, sha |-> hub[v].sha, notes |-> hub[v].notes]>>
    BY <1>3
  <2> DEFINE new == [version |-> v, sha |-> hub[v].sha, notes |-> hub[v].notes]
  <2>2. new \in ReleaseType /\ new.version = v /\ new.sha = hub[v].sha /\ new.notes = hub[v].notes
    BY DEF ReleasesInv, ReleasesTypeOK, TagType, ReleaseType
  <2> HIDE DEF new
  <2>3. /\ releases' \in Seq(ReleaseType) /\ Len(releases') = 1 /\ DOMAIN releases' = {1} /\ releases'[1] = new
        /\ Len(releases) = 0 /\ DOMAIN releases = {}
    <3>1. releases' = <<new>>
      BY <2>1 DEF new
    <3> QED BY <1>1, <2>2, <3>1
  <2>4. ReleasesTypeOK'
    BY <1>1, <2>3 DEF ReleasesInv, ReleasesTypeOK
  <2>5. \A i \in Items : entry[i].release = 0
    <3>1. \A i \in Items : entry[i] \in EntryType
      BY DEF ReleasesInv, ReleasesTypeOK
    <3> QED BY <2>3, <3>1 DEF ReleasesInv, EntriesOK, EntryType
  <2>6. EntriesOK' /\ NotesCoverSealed' /\ TagsOK' /\ QueuedOK'
    BY <1>1, <2>3, <2>5 DEF ReleasesInv, EntriesOK, NotesCoverSealed, TagsOK, QueuedOK
  <2>7. JobsOK'
    BY <1>1, <2>3 DEF ReleasesInv, JobsOK, JobOK, Recorded
  <2>8. RecordedAsPublished'
    BY <1>1, <2>1, <2>2, <2>3 DEF RecordedAsPublished
  <2> QED BY <2>4, <2>6, <2>7, <2>8 DEF ReleasesInv
<1> QED BY <1>1, <1>2, <1>3

LEMMA CutKeeps == ASSUME ReleasesInv, NEW v \in Versions, Cut(v) PROVE ReleasesInv'
<1>1. PICK notes \in Shown :
        queued' = [version |-> v, sha |-> checkpoint_sha, items |-> unreleased_items, notes |-> notes]
  BY DEF Cut
<1>2. UNCHANGED <<main, entry, releases, adopted, hub, job, faults>>
  BY DEF Cut
<1>3. notes \in SUBSET Lines /\ Tell(notes, unreleased_items)
  <2>1. PICK old : notes = {<<Section(i), i, IF i \in old THEN entry[i].at ELSE entry[i].merge>> :
                            i \in unreleased_items}
    BY DEF Shown
  <2>2. \A i \in unreleased_items :
          <<Section(i), i, IF i \in old THEN entry[i].at ELSE entry[i].merge>> \in Lines
    <3>1. \A i \in unreleased_items : i \in Items /\ entry[i] \in EntryType
      BY DEF unreleased_items, ReleasesInv, ReleasesTypeOK
    <3> QED BY <3>1 DEF Section, Lines, EntryType
  <2>3. ASSUME NEW i \in unreleased_items PROVE \E line \in notes : line[2] = i
    <3>1. <<Section(i), i, IF i \in old THEN entry[i].at ELSE entry[i].merge>> \in notes
      BY <2>1
    <3> QED BY <3>1
  <2> QED BY <2>1, <2>2, <2>3 DEF Tell
<1>4. queued' \in CutType /\ QueuedOK'
  BY <1>1, <1>3, Drafted DEF CutType, QueuedOK, Tell
<1>5. ReleasesTypeOK' /\ EntriesOK'
  BY <1>2, <1>4 DEF ReleasesInv, ReleasesTypeOK, EntriesOK
<1> QED BY <1>2, <1>4, <1>5, Settled

LEMMA BeginKeeps ==
  ASSUME ReleasesInv, NEW c \in Callers, NEW v \in Versions, NEW sha \in Nat, NEW items \in SUBSET Items,
         NEW notes \in SUBSET Lines, Recorded(v) \/ Tell(notes, items), Begin(c, v, sha, items, notes)
  PROVE  ReleasesInv'
<1> DEFINE new == [at |-> "look", version |-> v, sha |-> sha, items |-> items, notes |-> notes,
                   known |-> Recorded(v)]
<1>1. job' = [job EXCEPT ![c] = new] /\ UNCHANGED <<main, ledger, hub, faults>>
  BY DEF Begin
<1>2. new \in JobType
  BY DEF JobType, Recorded
<1>3. JobOK(new)
  BY DEF JobOK
<1> HIDE DEF new
<1>4. job \in [Callers -> JobType]
  BY DEF ReleasesInv, ReleasesTypeOK
<1>5. ReleasesTypeOK' /\ EntriesOK' /\ QueuedOK'
  BY <1>1, <1>2, <1>4 DEF ledger, ReleasesInv, ReleasesTypeOK, EntriesOK, QueuedOK
<1>6. \A d \in Callers : job'[d] = job[d] \/ JobOK(job'[d])
  BY <1>1, <1>3, <1>4
<1> QED BY <1>1, <1>5, <1>6, Settled DEF ledger

LEMMA CliBeginsKeeps == ASSUME ReleasesInv, CliBegins PROVE ReleasesInv'
<1> DEFINE told(v) == IF Recorded(v) /\ RowOf(v).notes # {} THEN RowOf(v).notes
                      ELSE synthesize_notes(unreleased_items)
<1>1. PICK v \in Versions : Begin("cli", v, main, unreleased_items, told(v))
  BY DEF CliBegins
<1>2. told(v) \in SUBSET Lines /\ (Recorded(v) \/ Tell(told(v), unreleased_items))
  BY Drafted, Recording DEF ReleaseType
<1>3. main \in Nat /\ "cli" \in Callers
  BY DEF ReleasesInv, ReleasesTypeOK, Callers
<1> HIDE DEF told
<1> QED BY <1>1, <1>2, <1>3, Drafted, BeginKeeps

(* A caller that is through leaves its job, and the outbox its action.          *)
LEMMA EndsKeeps ==
  ASSUME ReleasesInv, NEW c \in Callers, Ends(c)
  PROVE  /\ queued' \in CutType /\ QueuedOK' /\ job' \in [Callers -> JobType]
         /\ \A d \in Callers : job'[d] = job[d] \/ job'[d].at = "idle"
<1>1. queued' \in {queued, NoCut} /\ job' = [job EXCEPT ![c] = NoJob] /\ job \in [Callers -> JobType]
  BY DEF Ends, ReleasesInv, ReleasesTypeOK
<1>2. queued' \in CutType /\ QueuedOK'
  BY <1>1, Emptied DEF ReleasesInv, ReleasesTypeOK, QueuedOK
<1> QED BY <1>1, <1>2, Emptied

LEMMA OutboxBeginsKeeps == ASSUME ReleasesInv, OutboxBegins PROVE ReleasesInv'
<1>1. /\ queued # NoCut /\ queued.version \in Versions /\ Tell(queued.notes, queued.items)
      /\ queued \in CutType /\ "outbox" \in Callers
  BY DEF OutboxBegins, ReleasesInv, ReleasesTypeOK, QueuedOK, Callers
<1>2. CASE Begin("outbox", queued.version, queued.sha, queued.items, queued.notes)
  <2>1. queued.sha \in Nat /\ queued.items \in SUBSET Items /\ queued.notes \in SUBSET Lines
    BY <1>1 DEF CutType
  <2> QED BY <1>1, <1>2, <2>1, BeginKeeps
<1>3. CASE Ends("outbox") /\ UNCHANGED <<main, entry, releases, adopted, hub, faults>>
  <2>1. ReleasesTypeOK' /\ EntriesOK'
    BY <1>1, <1>3, EndsKeeps DEF ReleasesInv, ReleasesTypeOK, EntriesOK
  <2> QED BY <1>1, <1>3, <2>1, EndsKeeps, Settled
<1> QED BY <1>2, <1>3 DEF OutboxBegins

(* GitHub and the record agree with a publication that goes on.                *)
LEMMA LookKeeps == ASSUME ReleasesInv, NEW c \in Callers, Look(c) PROVE ReleasesInv'
<1>1. job[c].at = "look" /\ UNCHANGED <<main, entry, releases, adopted, hub, faults>>
  BY DEF Look
<1>2. CASE Ends(c)
  <2>1. ReleasesTypeOK' /\ EntriesOK'
    BY <1>1, <1>2, EndsKeeps DEF ReleasesInv, ReleasesTypeOK, EntriesOK
  <2> QED BY <1>1, <1>2, <2>1, EndsKeeps, Settled
<1>3. CASE /\ ~Conflict(c) /\ ~(hub[job[c].version].released /\ job[c].known) /\ UNCHANGED queued
           /\ job' = [job EXCEPT ![c].at = IF hub[job[c].version].released THEN "seal" ELSE "create"]
  <2> DEFINE at == IF hub[job[c].version].released THEN "seal" ELSE "create"
             new == [job[c] EXCEPT !.at = at]
  <2>1. job \in [Callers -> JobType] /\ job[c] \in JobType /\ JobOK(job[c])
    BY <1>1 DEF ReleasesInv, ReleasesTypeOK, JobsOK
  <2>2. job' = [job EXCEPT ![c] = new]
    BY <1>3, <2>1
  <2>3. /\ new \in JobType /\ new.at = at /\ new.version = job[c].version /\ new.sha = job[c].sha
        /\ new.items = job[c].items /\ new.notes = job[c].notes /\ new.known = job[c].known
    BY <2>1 DEF JobType
  <2> HIDE DEF new
  <2>4. JobOK(new)
    BY <1>3, <2>1, <2>3 DEF JobOK, Conflict, ReleasesInv, TagsOK
  <2>5. ReleasesTypeOK' /\ EntriesOK' /\ QueuedOK'
    BY <1>1, <1>3, <2>1, <2>2, <2>3 DEF ReleasesInv, ReleasesTypeOK, EntriesOK, QueuedOK
  <2>6. \A d \in Callers : job'[d] = job[d] \/ JobOK(job'[d])
    BY <2>1, <2>2, <2>4
  <2> QED BY <1>1, <2>5, <2>6, Settled
<1> QED BY <1>2, <1>3 DEF Look

LEMMA CreateKeeps == ASSUME ReleasesInv, NEW c \in Callers, Create(c) PROVE ReleasesInv'
<1> DEFINE j == job[c]
<1>1. j.at = "create" /\ UNCHANGED <<main, entry, releases, adopted>>
  BY DEF Create
<1>2. job \in [Callers -> JobType] /\ j \in JobType /\ JobOK(j) /\ hub \in [Versions -> TagType] /\ j.version \in Versions
  BY <1>1 DEF ReleasesInv, ReleasesTypeOK, JobsOK, JobOK
<1>3. CASE hub[j.version].released
  <2>1. Ends(c) /\ UNCHANGED <<hub, faults>>
    BY <1>3 DEF Create
  <2>2. ReleasesTypeOK' /\ EntriesOK'
    BY <1>1, <2>1, EndsKeeps DEF ReleasesInv, ReleasesTypeOK, EntriesOK
  <2> QED BY <1>1, <2>1, <2>2, EndsKeeps, Settled
<1>4. CASE ~hub[j.version].released
  <2> DEFINE new == [tagged |-> TRUE, sha |-> IF hub[j.version].tagged THEN hub[j.version].sha ELSE j.sha,
                     released |-> TRUE, notes |-> j.notes]
  <2>1. hub' = [hub EXCEPT ![j.version] = new]
    BY <1>2, <1>4 DEF Create
  <2>2. new \in TagType /\ new.tagged /\ new.released /\ new.sha = j.sha /\ new.notes = j.notes
    BY <1>1, <1>2, <1>4 DEF TagType, JobType, JobOK
  <2> HIDE DEF new
  <2>3. hub' \in [Versions -> TagType] /\ hub'[j.version] = new /\ \A v \in Versions : v # j.version => hub'[v] = hub[v]
    BY <1>2, <2>1, <2>2
  <2>4. ~Recorded(j.version)
    BY <1>4, Recording
  <2>5. \A v : Recorded(v) => v \in Versions /\ v # j.version
    BY <2>4, Recording
  <2>6. faults' \in Nat
    BY <1>4 DEF Create, ReleasesInv, ReleasesTypeOK
  <2>7. /\ queued' \in CutType /\ QueuedOK' /\ job' \in [Callers -> JobType]
        /\ \A d \in Callers : \/ job'[d] = job[d] /\ d # c
                              \/ job'[d].at = "idle"
                              \/ d = c /\ job'[c] = [j EXCEPT !.at = "seal"]
    <3>1. CASE Ends(c)
      <4>1. job'[c].at = "idle"
        BY <1>2, <3>1, Emptied DEF Ends
      <4> QED BY <3>1, <4>1, EndsKeeps
    <3>2. CASE job' = [job EXCEPT ![c].at = "seal"] /\ UNCHANGED queued
      <4>1. [j EXCEPT !.at = "seal"] \in JobType
        BY <1>2 DEF JobType
      <4>2. job' = [job EXCEPT ![c] = [j EXCEPT !.at = "seal"]]
        BY <1>2, <3>2
      <4>3. queued' \in CutType /\ QueuedOK'
        BY <3>2 DEF ReleasesInv, ReleasesTypeOK, QueuedOK
      <4> QED BY <1>2, <4>1, <4>2, <4>3
    <3> QED BY <1>4, <3>1, <3>2 DEF Create
  <2>8. ReleasesTypeOK'
    BY <1>1, <2>3, <2>6, <2>7 DEF ReleasesInv, ReleasesTypeOK
  <2>9. EntriesOK' /\ TagsOK'
    BY <1>1, <2>2, <2>3 DEF ReleasesInv, EntriesOK, TagsOK
  <2>10. RecordedAsPublished' /\ NotesCoverSealed'
    <3>1. \A k \in DOMAIN releases : hub'[releases[k].version] = hub[releases[k].version]
      BY <2>3, <2>5 DEF Recorded
    <3>2. RecordedAsPublished'
      BY <1>1, <3>1 DEF ReleasesInv, RecordedAsPublished
    <3>3. \A i \in Items : entry[i].release > 0 => entry[i].release \in DOMAIN releases
      <4>1. \A i \in Items : entry[i] \in EntryType
        BY DEF ReleasesInv, ReleasesTypeOK
      <4> QED BY <4>1, Recording DEF ReleasesInv, EntriesOK, EntryType
    <3>4. NotesCoverSealed'
      BY <1>1, <3>1, <3>3 DEF ReleasesInv, NotesCoverSealed
    <3> QED BY <3>2, <3>4
  <2>11. JobsOK'
    <3>1. ASSUME NEW d \in Callers, job'[d].at # "idle" PROVE (JobOK(job[d]))'
      <4>1. CASE job'[d] = job[d] /\ d # c
        <5>1. JobOK(job[d])
          BY <3>1, <4>1 DEF ReleasesInv, JobsOK
        <5>2. CASE job[d].version = j.version
          BY <1>1, <1>4, <2>2, <2>3, <4>1, <5>1, <5>2 DEF JobOK, Recorded, Tell
        <5>3. CASE job[d].version # j.version
          BY <1>1, <2>3, <4>1, <5>1, <5>3 DEF JobOK, Recorded, Tell
        <5> QED BY <5>2, <5>3
      <4>2. CASE d = c /\ job'[c] = [j EXCEPT !.at = "seal"]
        <5>1. /\ job'[c].at = "seal" /\ job'[c].version = j.version /\ job'[c].sha = j.sha
              /\ job'[c].items = j.items /\ job'[c].notes = j.notes /\ job'[c].known = j.known
          BY <1>2, <4>2 DEF JobType
        <5> QED BY <1>1, <1>2, <2>2, <2>3, <4>2, <5>1 DEF JobOK, Recorded, Tell
      <4> QED BY <2>7, <3>1, <4>1, <4>2
    <3> QED BY <3>1 DEF JobsOK
  <2> QED BY <2>7, <2>8, <2>9, <2>10, <2>11 DEF ReleasesInv
<1> QED BY <1>3, <1>4

(* What is sealed is told of by the notes that GitHub shows.                    *)
LEMMA SealKeeps == ASSUME ReleasesInv, NEW c \in Callers, Seal(c) PROVE ReleasesInv'
<1> DEFINE j == job[c]
<1>1. j.at = "seal" /\ UNCHANGED <<main, adopted, hub, faults>> /\ Ends(c)
  BY DEF Seal
<1>2. j \in JobType /\ JobOK(j)
  BY <1>1 DEF ReleasesInv, ReleasesTypeOK, JobsOK
<1>3. CASE Recorded(j.version)
  <2>1. UNCHANGED <<entry, releases>>
    BY <1>3 DEF Seal
  <2>2. ReleasesTypeOK' /\ EntriesOK'
    BY <1>1, <2>1, EndsKeeps DEF ReleasesInv, ReleasesTypeOK, EntriesOK
  <2> QED BY <1>1, <2>1, <2>2, EndsKeeps, Settled
<1>4. CASE ~Recorded(j.version)
  <2> DEFINE new == [version |-> j.version, sha |-> j.sha, notes |-> j.notes]
             taken == j.items \cap unreleased_items
             n == Len(releases) + 1
  <2>1. releases' = Append(releases, new) /\ entry' = [i \in Items |-> IF i \in taken
                             THEN [entry[i] EXCEPT !.release = Len(releases')] ELSE entry[i]]
    BY <1>4 DEF Seal, create_release
  <2>2. new \in ReleaseType /\ new.version = j.version /\ new.sha = j.sha /\ new.notes = j.notes
    BY <1>1, <1>2 DEF JobType, JobOK, ReleaseType
  <2> HIDE DEF new
  <2>3. /\ Len(releases) \in Nat /\ DOMAIN releases = 1..Len(releases) /\ releases \in Seq(ReleaseType)
        /\ releases' \in Seq(ReleaseType) /\ Len(releases') = n /\ DOMAIN releases' = 1..n
        /\ releases'[n] = new /\ \A k \in DOMAIN releases : releases'[k] = releases[k]
    BY <2>1, <2>2 DEF ReleasesInv, ReleasesTypeOK
  <2>4. \A i \in Items : entry[i] \in EntryType
    BY DEF ReleasesInv, ReleasesTypeOK
  <2>5. \A i \in Items : /\ entry'[i] \in EntryType /\ entry'[i].at = entry[i].at
                         /\ entry'[i].release = IF i \in taken THEN n ELSE entry[i].release
    <3> HIDE DEF taken
    <3>1. n \in Nat
      BY <2>3
    <3>2. ASSUME NEW i \in Items
          PROVE  /\ [entry[i] EXCEPT !.release = n] \in EntryType
                 /\ [entry[i] EXCEPT !.release = n].at = entry[i].at
                 /\ [entry[i] EXCEPT !.release = n].release = n
      <4>1. entry[i] \in EntryType
        BY <2>4
      <4> HIDE DEF n
      <4> QED BY <3>1, <4>1 DEF EntryType
    <3>3. \A i \in Items : entry'[i] = IF i \in taken THEN [entry[i] EXCEPT !.release = n] ELSE entry[i]
      BY <2>1, <2>3
    <3> HIDE DEF n
    <3> QED BY <2>4, <3>2, <3>3
  <2>6. entry' \in [Items -> EntryType]
    BY <2>1, <2>5
  <2>7. ReleasesTypeOK'
    BY <1>1, <2>3, <2>6, EndsKeeps DEF ReleasesInv, ReleasesTypeOK
  <2>8. EntriesOK'
    BY <1>1, <2>3, <2>4, <2>5 DEF ReleasesInv, EntriesOK, EntryType
  <2>9. RecordedAsPublished'
    BY <1>1, <1>2, <2>2, <2>3 DEF ReleasesInv, RecordedAsPublished, JobOK
  <2>10. NotesCoverSealed'
    <3>1. ASSUME NEW i \in Items, entry'[i].release > 0
          PROVE  \E line \in hub'[releases'[entry'[i].release].version].notes : line[2] = i
      <4>1. CASE i \in taken
        <5>1. hub'[releases'[entry'[i].release].version].notes = j.notes /\ i \in j.items
          BY <1>1, <1>2, <2>2, <2>3, <2>5, <4>1 DEF JobOK
        <5> QED BY <1>2, <1>4, <4>1, <5>1 DEF JobOK, Tell
      <4>2. CASE i \notin taken
        <5>1. entry'[i].release = entry[i].release /\ entry[i].release \in DOMAIN releases
          BY <2>3, <2>4, <2>5, <3>1, <4>2 DEF ReleasesInv, EntriesOK, EntryType
        <5> QED BY <1>1, <2>3, <3>1, <5>1 DEF ReleasesInv, NotesCoverSealed
      <4> QED BY <4>1, <4>2
    <3> QED BY <3>1 DEF NotesCoverSealed
  <2>11. TagsOK' /\ QueuedOK'
    BY <1>1, EndsKeeps DEF ReleasesInv, TagsOK
  <2>12. \A v : Recorded(v) => Recorded(v)'
    BY <2>3 DEF Recorded
  <2>13. JobsOK'
    <3>1. ASSUME NEW d \in Callers, job'[d].at # "idle" PROVE (JobOK(job[d]))'
      <4>1. job'[d] = job[d] /\ JobOK(job[d])
        BY <1>1, <3>1, EndsKeeps DEF ReleasesInv, JobsOK
      <4> QED BY <1>1, <2>12, <4>1 DEF JobOK, Tell
    <3> QED BY <3>1 DEF JobsOK
  <2> QED BY <2>7, <2>8, <2>9, <2>10, <2>11, <2>13 DEF ReleasesInv
<1> QED BY <1>3, <1>4

LEMMA CrashKeeps == ASSUME ReleasesInv, NEW c \in Callers, Crash(c) PROVE ReleasesInv'
<1>1. /\ job' = [job EXCEPT ![c] = NoJob] /\ UNCHANGED <<main, entry, releases, adopted, queued, hub>>
      /\ faults' \in Nat /\ job \in [Callers -> JobType]
  BY DEF Crash, ledger, ReleasesInv, ReleasesTypeOK
<1>2. ReleasesTypeOK' /\ EntriesOK' /\ QueuedOK'
  BY <1>1, Emptied DEF ReleasesInv, ReleasesTypeOK, EntriesOK, QueuedOK
<1> QED BY <1>1, <1>2, Emptied, Settled

LEMMA IndReleasesInv == ASSUME ReleasesInv, [ReleasesNext]_releasesVars PROVE ReleasesInv'
<1>1. CASE UNCHANGED releasesVars
  <2>1. UNCHANGED <<main, entry, releases, adopted, queued, hub, job, faults>>
    BY <1>1 DEF releasesVars, ledger
  <2>2. ReleasesTypeOK' /\ EntriesOK' /\ QueuedOK'
    BY <2>1 DEF ReleasesInv, ReleasesTypeOK, EntriesOK, QueuedOK
  <2> QED BY <2>1, <2>2, Settled
<1>2. CASE ReleasesNext
  BY <1>2, ShipKeeps, AdoptKeeps, CliBeginsKeeps, OutboxBeginsKeeps, CutKeeps, LookKeeps,
     CreateKeeps,
     SealKeeps, CrashKeeps DEF ReleasesNext
<1> QED BY <1>1, <1>2

(* The invariant of the release ledger.                                        *)
THEOREM ReleasesInvariance == ASSUME ReleasesAssumption PROVE ReleasesSpec => []ReleasesInv
<1>1. ReleasesInit => ReleasesInv
  BY ReleasesInitHolds
<1>2. ReleasesInv /\ [ReleasesNext]_releasesVars => ReleasesInv'
  BY IndReleasesInv
<1> QED BY <1>1, <1>2, PTL DEF ReleasesSpec

------------------------------------------------------------------------------
(* Versions: what comes after one is above it.                                 *)

LEMMA Ordered ==
  ASSUME NEW a \in Seq(Nat), NEW b \in Seq(Nat), Len(a) = Len(b), Len(a) \in {2, 3},
         NEW k \in 1..Len(a), a[k] < b[k], \A m \in 1..(k - 1) : a[m] = b[m]
  PROVE  Below(a, b)
<1>1. k \in 1..3 /\ \A m \in 1..k : version_key(a)[m] = a[m] /\ version_key(b)[m] = b[m]
  <2>1. CASE Len(a) = 3
    BY <2>1 DEF version_key
  <2>2. CASE Len(a) = 2
    <3>1. version_key(a) = Append(a, 0) /\ version_key(b) = Append(b, 0)
      BY <2>2 DEF version_key
    <3>2. /\ \A m \in 1..Len(a) : Append(a, 0)[m] = a[m]
          /\ \A m \in 1..Len(b) : Append(b, 0)[m] = b[m]
      BY AppendProperties
    <3>3. k \in 1..3 /\ \A m \in 1..k : m \in 1..Len(a) /\ m \in 1..Len(b)
      BY <2>2
    <3> QED BY <3>1, <3>2, <3>3
  <2> QED BY <2>1, <2>2
<1>2. version_key(a)[k] < version_key(b)[k]
  BY <1>1
<1>3. \A m \in 1..(k - 1) : version_key(a)[m] = version_key(b)[m]
  BY <1>1
<1> QED BY <1>1, <1>2, <1>3 DEF Below

LEMMA Offered ==
  ASSUME ReleasesAssumption, ReleasesInv PROVE OffersMoveOn
<1> SUFFICES ASSUME releases # <<>>, NEW v \in semver_options
             PROVE  Below(Latest.version, v) /\ Len(v) = Len(Latest.version)
  BY DEF OffersMoveOn
<1> DEFINE n == Latest.version
<1>1. n \in Seq(Nat) /\ Len(n) \in {2, 3}
  <2>1. Latest \in ReleaseType
    <3>1. releases \in Seq(ReleaseType)
      BY DEF ReleasesInv, ReleasesTypeOK
    <3> QED BY <3>1 DEF Latest
  <2> QED BY <2>1 DEF ReleaseType, ReleasesAssumption
<1>2. \/ Len(n) = 2 /\ v \in {<<n[1], n[2] + 1>>, <<n[1] + 1, 0>>}
      \/ Len(n) = 3 /\ v \in {<<n[1], n[2], n[3] + 1>>, <<n[1], n[2] + 1, 0>>, <<n[1] + 1, 0, 0>>}
  <2>1. CASE Len(n) = 2
    <3>1. propose_next_version = <<n[1], n[2] + 1>>
      BY <2>1 DEF propose_next_version
    <3> QED BY <2>1, <3>1 DEF semver_options
  <2>2. CASE Len(n) = 3
    <3>1. propose_next_version \in {<<n[1], n[2] + 1, 0>>, <<n[1], n[2], n[3] + 1>>}
      BY <2>2 DEF propose_next_version
    <3> QED BY <2>2, <3>1 DEF semver_options
  <2> QED BY <1>1, <2>1, <2>2
<1> HIDE DEF n
<1>3. CASE Len(n) = 2
  <2>1. v \in Seq(Nat) /\ Len(v) = 2 /\ n[1] \in Nat /\ n[2] \in Nat
    <3>1. n[1] \in Nat /\ n[2] \in Nat
      <4>1. 1 \in 1..Len(n) /\ 2 \in 1..Len(n)
        BY <1>3
      <4> QED BY <1>1, <4>1, ElementOfSeq
    <3>2. <<n[1], n[2] + 1>> \in Seq(Nat) /\ <<n[1] + 1, 0>> \in Seq(Nat)
      BY <3>1
    <3>3. Len(<<n[1], n[2] + 1>>) = 2 /\ Len(<<n[1] + 1, 0>>) = 2
      OBVIOUS
    <3>4. v = <<n[1], n[2] + 1>> \/ v = <<n[1] + 1, 0>>
      BY <1>2, <1>3
    <3> QED BY <3>1, <3>2, <3>3, <3>4
  <2>2. (n[1] = v[1] /\ n[2] < v[2]) \/ n[1] < v[1]
    BY <1>2, <1>3, <2>1
  <2>3. CASE n[1] = v[1] /\ n[2] < v[2]
    <3>1. 2 \in 1..Len(n) /\ \A m \in 1..(2 - 1) : n[m] = v[m]
      BY <1>3, <2>3
    <3> QED BY <1>1, <1>3, <2>1, <2>3, <3>1, Ordered DEF n
  <2>4. CASE n[1] < v[1]
    <3>1. 1 \in 1..Len(n) /\ \A m \in 1..(1 - 1) : n[m] = v[m]
      BY <1>3
    <3> QED BY <1>1, <1>3, <2>1, <2>4, <3>1, Ordered DEF n
  <2> QED BY <2>2, <2>3, <2>4
<1>4. CASE Len(n) = 3
  <2>1. v \in Seq(Nat) /\ Len(v) = 3 /\ n[1] \in Nat /\ n[2] \in Nat /\ n[3] \in Nat
    <3>1. n[1] \in Nat /\ n[2] \in Nat /\ n[3] \in Nat
      BY <1>1, <1>4, SMTT(30)
    <3>2. /\ <<n[1], n[2], n[3] + 1>> \in Seq(Nat) /\ <<n[1], n[2] + 1, 0>> \in Seq(Nat)
          /\ <<n[1] + 1, 0, 0>> \in Seq(Nat)
      BY <3>1
    <3>3. /\ Len(<<n[1], n[2], n[3] + 1>>) = 3 /\ Len(<<n[1], n[2] + 1, 0>>) = 3
          /\ Len(<<n[1] + 1, 0, 0>>) = 3
      OBVIOUS
    <3>4. v = <<n[1], n[2], n[3] + 1>> \/ v = <<n[1], n[2] + 1, 0>> \/ v = <<n[1] + 1, 0, 0>>
      BY <1>2, <1>4
    <3> QED BY <3>1, <3>2, <3>3, <3>4
  <2>2. (n[1] = v[1] /\ n[2] = v[2] /\ n[3] < v[3]) \/ (n[1] = v[1] /\ n[2] < v[2]) \/ n[1] < v[1]
    BY <1>2, <1>4, <2>1
  <2>3. CASE n[1] = v[1] /\ n[2] = v[2] /\ n[3] < v[3]
    <3>1. 3 \in 1..Len(n) /\ \A m \in 1..(3 - 1) : n[m] = v[m]
      BY <1>4, <2>3
    <3> QED BY <1>1, <1>4, <2>1, <2>3, <3>1, Ordered DEF n
  <2>4. CASE n[1] = v[1] /\ n[2] < v[2]
    <3>1. 2 \in 1..Len(n) /\ \A m \in 1..(2 - 1) : n[m] = v[m]
      BY <1>4, <2>4
    <3> QED BY <1>1, <1>4, <2>1, <2>4, <3>1, Ordered DEF n
  <2>5. CASE n[1] < v[1]
    <3>1. 1 \in 1..Len(n) /\ \A m \in 1..(1 - 1) : n[m] = v[m]
      BY <1>4
    <3> QED BY <1>1, <1>4, <2>1, <2>5, <3>1, Ordered DEF n
  <2> QED BY <2>2, <2>3, <2>4, <2>5
<1> QED BY <1>1, <1>3, <1>4

(* Only rows without a release are written.                                    *)
LEMMA StaysSealed ==
  ASSUME ReleasesInv, [ReleasesNext]_releasesVars, NEW i \in Items, entry[i].release > 0
  PROVE  entry'[i].release = entry[i].release
<1>1. entry \in [Items -> EntryType]
  BY DEF ReleasesInv, ReleasesTypeOK
<1>2. CASE UNCHANGED entry
  BY <1>2
<1>3. CASE \E k \in Items : snapshot_release_item(k)
  BY <1>1, <1>3 DEF snapshot_release_item
<1>4. CASE \E c \in Callers : create_release(c)
  <2>1. i \notin unreleased_items
    BY DEF unreleased_items
  <2> QED BY <1>4, <2>1 DEF create_release
<1>5. UNCHANGED entry \/ (\E k \in Items : snapshot_release_item(k)) \/ (\E c \in Callers : create_release(c))
  BY DEF ReleasesNext, Ship, AdoptBaseline, CliBegins, OutboxBegins, Begin, Cut, Look, Create,
     Seal, Crash,
     ledger, releasesVars
<1> QED BY <1>2, <1>3, <1>4, <1>5

(* A release is what GitHub shows, tells of all it took and keeps it, and the   *)
(* next one goes above it: whoever publishes at the same time, and wherever one  *)
(* of them is cut off (publish_release, create_release, get_draft).             *)
THEOREM ReleasesStayTrue == ASSUME ReleasesAssumption PROVE ReleasesSpec => ReleasesAreTrue
<1>1. ReleasesInv /\ [ReleasesNext]_releasesVars =>
        [\A i \in Items : entry[i].release > 0 => entry'[i].release = entry[i].release]_releasesVars
  BY StaysSealed
<1>2. ReleasesInv => NotesCoverSealed /\ RecordedAsPublished /\ OffersMoveOn
  BY Offered DEF ReleasesInv
<1> QED BY <1>1, <1>2, ReleasesInvariance, PTL DEF ReleasesSpec, ReleasesAreTrue, SealedOnce
=============================================================================
