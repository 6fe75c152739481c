------------------------------- MODULE Capacity -------------------------------
(* capacity.py and the ledger's capacity intervals: each tick observes what     *)
(* waits and for what, and folds that into one row per stretch of one cause. A  *)
(* tick may never come, or die before it flushes; the nightly pass merges rows; *)
(* the report adds the waits up.                                                *)
EXTENDS Integers, FiniteSets

CONSTANTS Keys,        \* project, number and role
          Signatures,  \* what a wait may be for
          Exhausted,   \* [signature -> tiers whose free platforms are all spent]
          Gaps,        \* the values capacity.gap_seconds is raised through
          Retention,   \* 90 days
          Horizon      \* bound on the clock

ASSUME CapacityAssumption ==
  /\ Keys \subseteq Nat /\ IsFiniteSet(Keys)
  /\ "paused" \in Signatures /\ Exhausted["paused"] = {}
  /\ Gaps \subseteq Nat \ {0} /\ \E g \in Gaps : \A h \in Gaps : h <= g
  /\ Retention \in Nat

VARIABLES clock, rows, gap, rowids, runs,
          log    \* history: what each flushed tick saw of each key

capacityVars == <<clock, rows, gap, rowids, runs, log>>

Least(S) == CHOOSE x \in S : \A y \in S : x <= y
Greatest(S) == CHOOSE x \in S : \A y \in S : x >= y
CapacityInit ==
  /\ clock = 1 /\ rows = {} /\ gap = Least(Gaps) /\ rowids = 0 /\ runs = 0
  /\ log = [k \in Keys |-> {}]

------------------------------------------------------------------------------
(* One flush *)

Gone == [sig |-> "none", run |-> 0]
(* an observation merges what the pass saw of an item: a launch clears the      *)
(* blockers seen before it                                                      *)
Observations == [sig : Signatures, run : {0}] \cup {[sig |-> "launched", run |-> runs + 1]}

_capacity_close(r, why, seen, run) == [r EXCEPT !.open = FALSE, !.why = why, !.last = seen, !.run = run]

(* Mutant: time that nobody watched counts as observed.                       *)
StaleRow_Never(r) == FALSE

StaleRow(r) == clock - r.last > gap
Folded(r, o) ==
  IF o = Gone THEN _capacity_close(r, "gone", r.last, 0)
  ELSE IF o.run # 0
  THEN IF StaleRow(r) THEN _capacity_close(r, "gap", r.last, 0)
       ELSE _capacity_close(r, "launched", clock, o.run)
  ELSE IF r.sig = o.sig /\ ~StaleRow(r) THEN [r EXCEPT !.last = clock]
  ELSE _capacity_close(r, IF StaleRow(r) THEN "gap" ELSE IF o.sig = "paused" THEN "paused" ELSE "changed",
                       r.last, 0)
(* the open row took the observation in: it needs no row of its own *)
Handled(r, o) == ~StaleRow(r) /\ (o.run # 0 \/ r.sig = o.sig)

NewRow(k, o, id) ==
  [id |-> id, key |-> k, sig |-> o.sig, first |-> clock, last |-> clock, open |-> o.run = 0,
   why |-> IF o.run # 0 THEN "launched" ELSE "none", run |-> o.run]

Fresh(obs) == {k \in Keys : obs[k] # Gone
                            /\ \A r \in rows : r.key = k /\ r.open => ~Handled(r, obs[k])}
capacity_record(obs) ==
  {IF r.open THEN Folded(r, obs[r.key]) ELSE r : r \in rows}
  \cup {NewRow(k, obs[k], rowids + Cardinality({j \in Fresh(obs) : j <= k})) : k \in Fresh(obs)}

capacity_prune(rs) ==
  LET cutoff == clock - Retention
  IN  {[r EXCEPT !.first = Greatest({r.first, cutoff})] : r \in {r \in rs : r.last >= cutoff}}

flush ==
  /\ clock < Horizon /\ clock' = clock + 1
  /\ \E obs \in [Keys -> Observations \cup {Gone}] :
       /\ Cardinality({k \in Keys : obs[k].run # 0}) <= 1
       /\ rows' = capacity_prune(capacity_record(obs))
       /\ rowids' = rowids + Cardinality(Fresh(obs))
       /\ runs' = Greatest({runs} \cup {obs[k].run : k \in Keys})
       /\ log' = [k \in Keys |-> IF obs[k] = Gone THEN log[k]
                                 ELSE log[k] \cup {[at |-> clock, sig |-> obs[k].sig, run |-> obs[k].run]}]
  /\ UNCHANGED gap

(* a tick that died, or a machine asleep *)
Unobserved == clock < Horizon /\ clock' = clock + 1 /\ UNCHANGED <<rows, gap, rowids, runs, log>>

------------------------------------------------------------------------------
(* Nightly: rows split by a gap setting that was too tight are joined again *)

Joins(p, r) == /\ p.key = r.key /\ p.why = "gap" /\ ~p.open /\ p.sig = r.sig
               /\ r.first - p.last <= gap
Precedes(p, r) == p.key = r.key /\ (p.first < r.first \/ (p.first = r.first /\ p.id < r.id))
Follows(p, r) == Precedes(p, r) /\ ~\E x \in rows : Precedes(p, x) /\ Precedes(x, r)
Heads == {r \in rows : ~\E p \in rows : Follows(p, r) /\ Joins(p, r)}
TailOf(h) ==
  LET run == {r \in rows : r = h \/ (/\ Precedes(h, r)
                                     /\ \A x \in rows : (Precedes(h, x) /\ (Precedes(x, r) \/ x = r))
                                          => \E p \in rows : Follows(p, x) /\ Joins(p, x))}
  IN  CHOOSE t \in run : \A x \in run : ~Precedes(t, x)
compact_capacity_intervals ==
  /\ Heads # rows
  /\ rows' = {[h EXCEPT !.last = TailOf(h).last, !.open = TailOf(h).open, !.why = TailOf(h).why,
                        !.run = TailOf(h).run] : h \in Heads}
  /\ UNCHANGED <<clock, gap, rowids, runs, log>>

SetGap == /\ \E g \in Gaps : g > gap /\ gap' = g
          /\ UNCHANGED <<clock, rows, rowids, runs, log>>

CapacityNext == flush \/ Unobserved \/ compact_capacity_intervals \/ SetGap
CapacitySpec == CapacityInit /\ [][CapacityNext]_capacityVars

------------------------------------------------------------------------------
(* The report *)

Qualifies(r, t) == r.sig \in Signatures /\ t \in Exhausted[r.sig] /\ r.last > r.first
(* an episode: rows that each changed into the next *)
Linked(p, r) == Follows(p, r) /\ p.why = "changed" /\ r.first - p.last <= gap
Episode(r) ==
  {x \in rows : x = r \/ (x.key = r.key
     /\ \A y \in rows : (Precedes(x, y) /\ (Precedes(y, r) \/ y = r)) \/ (Precedes(r, y) /\ (Precedes(y, x) \/ y = x))
          => \E p \in rows : Linked(p, y))}
LaunchOf(e) == LET l == {r \in e : r.run # 0}
               IN  IF l = {} THEN 0 ELSE (CHOOSE r \in l : \A x \in l : ~Precedes(r, x)).run
capacity_report(t) ==
  LET waits == {r \in rows : Qualifies(r, t)}
  IN  [hours |-> UNION {r.first..(r.last - 1) : r \in waits},
       runs |-> {LaunchOf(Episode(r)) : r \in waits} \ {0}]

------------------------------------------------------------------------------
(* Unobserved time is never waiting time: within a row's span the item was seen *)
(* at both ends (retention may cut the start), seen waiting for the row's own   *)
(* cause whenever it was seen, and never lost sight of for longer than a gap.   *)
CountsOnlyObserved ==
  \A r \in rows :
    LET seen == {o \in log[r.key] : r.first <= o.at /\ o.at <= r.last}
    IN  /\ \E o \in seen : o.at = r.last
        /\ \A o \in seen : o.sig = r.sig \/ (o.run # 0 /\ o.run = r.run /\ o.at = r.last)
        /\ \A t \in r.first..r.last : \E o \in seen : t <= o.at /\ o.at - t < Greatest(Gaps)
        /\ \A s \in rows : s.key = r.key /\ s # r => s.first > r.last \/ s.last < r.first
        /\ r.open => \A s \in rows : s.key = r.key /\ s # r => ~s.open

(* What the report claims for a tier was lived through: each hour it counts,    *)
(* some item was waiting for that tier; and each run it counts was launched     *)
(* for an item that had waited for it and was watched, waiting and not paused   *)
(* again, from that wait to the launch.                                         *)
ReportCountsRealWaits ==
  \A t \in UNION {Exhausted[s] : s \in Signatures} :
    LET rep == capacity_report(t) IN
    /\ \A h \in rep.hours : \E k \in Keys : \E o \in log[k] :
         o.at <= h /\ h - o.at < Greatest(Gaps) /\ o.sig \in Signatures /\ t \in Exhausted[o.sig]
    /\ \A n \in rep.runs : \E k \in Keys : \E o, l \in log[k] :
         /\ l.run = n /\ o.at < l.at /\ o.sig \in Signatures /\ t \in Exhausted[o.sig]
         /\ \A h \in o.at..l.at : \E x \in log[k] : x.at <= h /\ h - x.at <= Greatest(Gaps)
         /\ \A x \in log[k] : o.at <= x.at /\ x.at < l.at => x.sig # "paused" /\ x.run = 0

(* What the history and its report say of waiting was lived through. *)
WaitsAreReal == CountsOnlyObserved /\ ReportCountsRealWaits
=============================================================================
