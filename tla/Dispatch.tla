------------------------------- MODULE Dispatch -------------------------------
(* tick.schedule, one candidate at a time, with start() and launch_health.py:   *)
(* the pass reads everything once (_init_schedule_state, _candidates), then     *)
(* hands out slots on its own counts while sessions claim, release and ship and *)
(* the owner parks. Routing (module Router) is any platform that is not busy    *)
(* and whose tier reaches the item's floor.                                     *)
EXTENDS Integers, FiniteSets

CONSTANTS Items, Proj, Area, Floor, Deps,   \* the work: project, area or file, tier, depends
          Platforms, Group, MaxRuns, Tier,  \* the platforms
          ByTier,                           \* concurrency.by_tier: [tier -> cap]
          Total, MaxParallel,
          Moods,                            \* projects paused, hot, boosted as a pass begins
          Errors,                           \* signatures of launch failures
          Canary, Settle,                   \* CANARY_INTERVAL; the first backoff
          FirstState, FirstFails,           \* the items' states and failures at the start
          MaxClock, MaxRun, MaxNews          \* bounds: the clock, the runs, what others do

None == "none"
Projects == {Proj[i] : i \in Items}
Scopes == Projects \cup {"global"}
LAUNCH_FAIL_LIMIT == 3

ASSUME DispatchAssumption ==
  /\ Items \subseteq Nat /\ IsFiniteSet(Items)
  /\ Total \in Nat \ {0} /\ MaxParallel \in Nat \ {0}
  /\ Canary \in Nat \ {0} /\ Settle \in Nat
  /\ \A p \in Platforms : MaxRuns[p] \in Nat \ {0} /\ Tier[p] \in Nat
  /\ DOMAIN ByTier \subseteq Nat /\ \A t \in DOMAIN ByTier : ByTier[t] \in Nat
  /\ \A i \in Items : Deps[i] \subseteq Items

VARIABLES time,
          state,     \* the items' states
          lease,     \* who holds an item: nobody, a run or a session
          running,    \* the runs under way: [id, item, role, platform]
          pass,      \* the pass under way, or NoPass
          broken,    \* launch_broken: the signature and retry_at of a scope
          failures,  \* launch_failures
          successes, \* launch_successes: the last run that launched, per scope
          fails,     \* launch_fails: the signature and count of an item
          wake,      \* next_at of an item's launch wait
          ids,       \* the last run id
          tried,     \* history: when a scope last broke or was tried
          news       \* what remains of MaxNews

breaker == <<broken, failures, successes, tried>>
dispatchVars == <<time, state, lease, running, pass, breaker, fails, wake, ids, news>>

NoPass == [on |-> FALSE]
NoGo == [item |-> 0]
Whole == [sig |-> None, at |-> 0]
DispatchInit ==
  /\ time = 0
  /\ state = FirstState
  /\ lease = [i \in Items |-> None]
  /\ running = {} /\ pass = NoPass
  /\ broken = [s \in Scopes |-> Whole]
  /\ failures = {}
  /\ successes = [s \in Scopes |-> 0]
  /\ fails = FirstFails
  /\ wake = [i \in Items |-> 0]
  /\ ids = 0
  /\ tried = [s \in Scopes |-> -Canary]
  /\ news = MaxNews

------------------------------------------------------------------------------
(* What the pass reads *)

News == news > 0 /\ news' = news - 1

Of(p, S) == {i \in S : Proj[i] = p}
ItemsOf(rs) == {r.item : r \in rs}
InGroup(g, rs) == {r \in rs : Group[r.platform] = g}
role_of(i) == IF state[i] = "inbox" THEN "sort" ELSE "build"

busy_platforms(rs) == {p \in Platforms : Cardinality(InGroup(Group[p], rs)) >= MaxRuns[p]}
(* a budget at a tier counts the runs at that tier or above, and closes them all *)
tier_budget_busy(rs) ==
  LET spent == {t \in DOMAIN ByTier : Cardinality({r \in rs : Tier[r.platform] >= t}) >= ByTier[t]}
  IN  {p \in Platforms : \E t \in spent : Tier[p] >= t}

through == {i \in Items : state[i] \in {"shipped", "done"}}
_candidates(paused) ==
  {i \in Items : /\ Proj[i] \notin paused
                 /\ \/ state[i] = "inbox"
                    \/ (state[i] = "ready" /\ Deps[i] \subseteq through)}

(* who comes before whom: boosted project, then a sort behind the builds when    *)
(* one group is left, then age                                                  *)
sorts_wait(busy) == Cardinality({Group[p] : p \in Platforms \ busy}) <= 1
_order_candidates(work, boost, waits) ==
  LET Key(i) == <<IF Proj[i] = boost THEN 0 ELSE 1,
                  IF waits /\ role_of(i) = "sort" THEN 1 ELSE 0>>
      Before(i, j) == \/ Key(i)[1] < Key(j)[1]
                      \/ (Key(i)[1] = Key(j)[1] /\ Key(i)[2] < Key(j)[2])
                      \/ (Key(i) = Key(j) /\ i < j)
  IN  {e \in work \X work : Before(e[1], e[2])}

Verifying == {i \in Items : state[i] = "verifying"}
Occupied == ItemsOf(running) \cup Verifying
_init_schedule_state(hot) ==
  LET full == busy_platforms(running) \cup tier_budget_busy(running)
  IN  [on |-> TRUE, rs |-> running, busy |-> full, hot |-> hot,
       in_project |-> [p \in Projects |-> Cardinality(Of(p, ItemsOf(running)))],
       in_flight |-> [p \in Projects |-> Cardinality(Of(p, Verifying))],
       busy_areas |-> {<<Proj[i], Area[i]>> : i \in Occupied},
       roles |-> [i \in Items |-> role_of(i)], work |-> {}, round |-> {}, order |-> {},
       started |-> {}, go |-> NoGo,
       starts |-> [p \in Projects |-> 0]]

BeginPass ==
  /\ ~pass.on
  /\ \E m \in Moods :
       LET st == _init_schedule_state(m.hot)
           work == _candidates(m.paused)
       IN  /\ work # {}
           /\ pass' = [st EXCEPT !.work = work,
                                 !.order = _order_candidates(work, m.boost, sorts_wait(st.busy))]
  /\ UNCHANGED <<time, state, lease, running, breaker, fails, wake, ids, news>>

------------------------------------------------------------------------------
(* The circuit breaker *)

allowed(i) == \A s \in {"global", Proj[i]} : broken[s] = Whole \/ time >= broken[s].at
(* Mutant: a try leaves the retry time as it was.                             *)
Consumed_Never(i) == broken

(* The one try of an interval is used up as it is made, whatever comes of it. *)
Consumed(i) == [s \in Scopes |-> IF s \in {"global", Proj[i]} /\ broken[s] # Whole
                                 THEN [broken[s] EXCEPT !.at = time + Canary] ELSE broken[s]]
launch_failed(i, sig, id) ==
  LET all == failures \cup {[sig |-> sig, item |-> i, run |-> id]}
      Since(s) == {f \in all : f.sig = sig /\ f.run > successes[s]
                                      /\ (s = "global" \/ Proj[f.item] = s)}
      scope == IF Cardinality({f.item : f \in Since("global")}) >= 2 THEN "global"
               ELSE IF Cardinality(Since(Proj[i])) >= 3 THEN Proj[i] ELSE None
      opens == scope # None /\ Consumed(i)[scope] = Whole
      Tried(s) == (opens /\ s = scope) \/ (s \in {"global", Proj[i]} /\ broken[s] # Whole)
  IN  /\ failures' = all
      /\ broken' = IF opens THEN [Consumed(i) EXCEPT ![scope] = [sig |-> sig, at |-> time + Canary]]
                   ELSE Consumed(i)
      /\ tried' = [s \in Scopes |-> IF Tried(s) THEN time ELSE tried[s]]
succeeded(i, id) ==
  /\ successes' = [s \in Scopes |-> IF s \in {"global", Proj[i]} THEN id ELSE successes[s]]
  /\ broken' = [s \in Scopes |-> IF s \in {"global", Proj[i]} THEN Whole ELSE broken[s]]

_item_launch_backoff(i, sig) ==
  LET n == IF fails[i].sig = sig THEN fails[i].count + 1 ELSE 1 IN
  /\ fails' = [fails EXCEPT ![i] = [sig |-> sig, count |-> n]]
  /\ IF state[i] \notin {"ready", "waiting", "verifying", "working"} THEN UNCHANGED <<state, wake>>
     ELSE IF n >= LAUNCH_FAIL_LIMIT
     THEN state' = [state EXCEPT ![i] = "parked"] /\ UNCHANGED wake
     ELSE IF state[i] \notin {"ready", "waiting"} THEN UNCHANGED <<state, wake>>
     ELSE /\ state' = [state EXCEPT ![i] = "waiting"]
          /\ wake' = [wake EXCEPT ![i] = time + Settle * n]

------------------------------------------------------------------------------
(* The loop *)

EndPass ==
  /\ pass.on /\ pass.go = NoGo /\ pass.round = {}
  /\ pass.work = {} \/ Cardinality(pass.rs) >= Total
  /\ pass' = NoPass
  /\ UNCHANGED <<time, state, lease, running, breaker, fails, wake, ids, news>>

NextRound ==
  /\ pass.on /\ pass.go = NoGo /\ pass.round = {}
  /\ pass.work # {} /\ Cardinality(pass.rs) < Total
  /\ pass' = [pass EXCEPT !.round = pass.work, !.started = {}]
  /\ UNCHANGED <<time, state, lease, running, breaker, fails, wake, ids, news>>

(* the role is the one the candidate was listed with; its state is not read again *)
_check_eligible(i, role) ==
  LET p == Proj[i] IN
  /\ pass.in_project[p] < MaxParallel
  /\ role = "build" =>
       /\ pass.in_project[p] + pass.in_flight[p] < MaxParallel
       /\ p \notin pass.hot
       /\ <<p, Area[i]>> \notin pass.busy_areas
  /\ lease[i] = None

_route(i, role) == {p \in Platforms \ pass.busy : role = "build" => Tier[p] >= Floor[i]}

IsNext(i) == \A j \in pass.round \ {i} : <<i, j>> \in pass.order
Consider ==
  /\ pass.on /\ pass.go = NoGo
  /\ \E i \in {i \in pass.round : IsNext(i)} :
     LET role == pass.roles[i]
         on == [pass EXCEPT !.round = @ \ {i}]
         off == [on EXCEPT !.work = @ \ {i}]
     IN  IF ~allowed(i) THEN pass' = off
         ELSE IF Proj[i] \in pass.started THEN pass' = on
         ELSE IF Cardinality(pass.rs) >= Total
         THEN pass' = [off EXCEPT !.work = {}, !.round = {}]
         ELSE IF ~_check_eligible(i, role) \/ _route(i, role) = {} THEN pass' = off
         ELSE \E p \in _route(i, role) :
                pass' = [off EXCEPT !.go = [item |-> i, role |-> role, platform |-> p]]
  /\ UNCHANGED <<time, state, lease, running, breaker, fails, wake, ids, news>>

(* claim(capacity = not a sort): the item is free and the project has a slot *)
Held(p) == {i \in Items : Proj[i] = p /\ lease[i] # None}
Sorting == {r.item : r \in {r \in running : r.role = "sort"}}
Claimable(i, sort) ==
  lease[i] = None /\ (sort \/ Cardinality(Held(Proj[i]) \ Sorting) < MaxParallel)

(* A project that has started something waits for the next round.             *)
Took(p) == pass.started \cup {p}
_account_start(go, new) ==
  LET rs == pass.rs \cup {new}
      g == InGroup(Group[go.platform], rs)
      full == IF Cardinality(g) >= MaxRuns[go.platform]
              THEN {p \in Platforms : Group[p] = Group[go.platform]} ELSE {}
      p == Proj[go.item]
  IN  [pass EXCEPT !.go = NoGo, !.rs = rs,
         !.in_project[p] = @ + 1,
         !.busy_areas = IF go.role = "build" THEN @ \cup {<<p, Area[go.item]>>} ELSE @,
         !.busy = @ \cup full \cup tier_budget_busy(rs),
         !.started = Took(p), !.starts[p] = @ + 1]

NewRun == [id |-> ids + 1, item |-> pass.go.item, role |-> pass.go.role,
           platform |-> pass.go.platform]
NotClaimed ==
  /\ pass.on /\ pass.go # NoGo /\ ids < MaxRun
  /\ ~Claimable(pass.go.item, pass.go.role = "sort")
  /\ pass' = [pass EXCEPT !.go = NoGo]
  /\ ids' = ids + 1
  /\ UNCHANGED <<time, state, lease, running, breaker, fails, wake, news>>

Claims ==
  /\ pass.on /\ pass.go # NoGo /\ ids < MaxRun
  /\ Claimable(pass.go.item, pass.go.role = "sort")
  /\ ids' = ids + 1
(* the state is set whatever it has become since the pass read it *)
Launches ==
  /\ Claims
  /\ LET i == pass.go.item IN
     /\ lease' = [lease EXCEPT ![i] = "run"]
     /\ running' = running \cup {NewRun}
     /\ succeeded(i, NewRun.id)
     /\ tried' = [s \in Scopes |-> IF s \in {"global", Proj[i]} THEN time ELSE tried[s]]
     /\ fails' = [fails EXCEPT ![i] = [sig |-> None, count |-> 0]]
     /\ state' = IF pass.go.role = "build" THEN [state EXCEPT ![i] = "working"] ELSE state
     /\ pass' = _account_start(pass.go, NewRun)
  /\ UNCHANGED <<time, failures, wake, news>>

LaunchFails ==
  /\ Claims
  /\ \E sig \in Errors : /\ launch_failed(pass.go.item, sig, NewRun.id)
                         /\ _item_launch_backoff(pass.go.item, sig)
  /\ pass' = [pass EXCEPT !.go = NoGo]
  /\ UNCHANGED <<time, lease, running, successes, news>>

(* WorktreeConflict: a wait of its own, no mark against the launch *)
Conflict ==
  /\ Claims /\ News
  /\ state' = [state EXCEPT ![pass.go.item] = "waiting"]
  /\ wake' = [wake EXCEPT ![pass.go.item] = time + Settle]
  /\ broken' = Consumed(pass.go.item)
  /\ tried' = [s \in Scopes |-> IF broken[s] # broken'[s] THEN time ELSE tried[s]]
  /\ pass' = [pass EXCEPT !.go = NoGo]
  /\ UNCHANGED <<time, lease, running, failures, successes, fails>>

(* the process dies in the middle of a launch: a row and a lease, no process *)
CrashesLaunching ==
  /\ Claims /\ News
  /\ lease' = [lease EXCEPT ![pass.go.item] = "run"]
  /\ running' = running \cup {NewRun}
  /\ broken' = Consumed(pass.go.item)
  /\ tried' = [s \in Scopes |-> IF broken[s] # broken'[s] THEN time ELSE tried[s]]
  /\ pass' = NoPass
  /\ UNCHANGED <<time, state, failures, successes, fails, wake>>

------------------------------------------------------------------------------
(* The rest of the tick, sessions and the owner *)

RunEnds(r) ==
  /\ ~pass.on
  /\ running' = running \ {r}
  /\ lease' = [lease EXCEPT ![r.item] = None]
  /\ \E s \in (IF r.role = "sort" THEN {"ready", "waiting"} ELSE {"verifying", "ready"}) :
       state' = [state EXCEPT ![r.item] = s]
  /\ UNCHANGED <<time, pass, breaker, fails, wake, ids, news>>

Ships(i) ==
  /\ ~pass.on /\ state[i] = "verifying" /\ lease[i] = None
  /\ state' = [state EXCEPT ![i] = "shipped"]
  /\ UNCHANGED <<time, lease, running, pass, breaker, fails, wake, ids, news>>

WaitEnds(i) ==
  /\ ~pass.on /\ state[i] = "waiting" /\ wake[i] <= time
  /\ state' = [state EXCEPT ![i] = "ready"]
  /\ UNCHANGED <<time, lease, running, pass, breaker, fails, wake, ids, news>>

SessionTakes(i) ==
  /\ News /\ state[i] = "ready" /\ Claimable(i, FALSE)
  /\ lease' = [lease EXCEPT ![i] = "session"]
  /\ state' = [state EXCEPT ![i] = "working"]
  /\ UNCHANGED <<time, running, pass, breaker, fails, wake, ids>>
SessionLeaves(i) ==
  /\ lease[i] = "session"
  /\ lease' = [lease EXCEPT ![i] = None]
  /\ \E s \in {"ready", "verifying"} : state' = [state EXCEPT ![i] = s]
  /\ UNCHANGED <<time, running, pass, breaker, fails, wake, ids, news>>

OwnerParks(i) ==
  /\ News /\ ~pass.on /\ state[i] \in {"ready", "inbox"}
  /\ state' = [state EXCEPT ![i] = "parked"]
  /\ UNCHANGED <<time, lease, running, pass, breaker, fails, wake, ids>>

Tick ==
  /\ time < MaxClock /\ ~pass.on /\ time' = time + 1
  /\ UNCHANGED <<state, lease, running, pass, breaker, fails, wake, ids, news>>

DispatchNext ==
  \/ BeginPass
  \/ EndPass
  \/ NextRound
  \/ Consider
  \/ NotClaimed
  \/ Launches
  \/ LaunchFails
  \/ Conflict
  \/ CrashesLaunching
  \/ \E r \in running : RunEnds(r)
  \/ \E i \in Items :
       \/ Ships(i)
       \/ WaitEnds(i)
       \/ SessionTakes(i)
       \/ SessionLeaves(i)
       \/ OwnerParks(i)
  \/ Tick

DispatchSpec == DispatchInit /\ [][DispatchNext]_dispatchVars

------------------------------------------------------------------------------
(* No launch goes over a limit, whatever the pass did before it on its own      *)
(* counts: the total, the slots of the platform's quota group, the budget of    *)
(* every tier at or under the platform's own, and for a build the project's     *)
(* slots, finished and unmerged changes of the pass's start included.           *)
Started == running' \ running
WithinCaps(r) ==
  /\ Cardinality(running') <= Total
  /\ Cardinality(InGroup(Group[r.platform], running)) < MaxRuns[r.platform]
  /\ \A t \in DOMAIN ByTier :
       Tier[r.platform] >= t => Cardinality({x \in running' : Tier[x.platform] >= t}) <= ByTier[t]
  /\ LET p == Proj[r.item]
         working == Cardinality(Of(p, ItemsOf(running')))
     IN  /\ working <= MaxParallel
         /\ r.role = "build" => working + pass.in_flight[p] <= MaxParallel
CapsHold == [][\A r \in Started : WithinCaps(r)]_dispatchVars

(* While a scope's launches are broken, one canary goes out per interval: two   *)
(* launches, or the failure that broke it and a launch, are an interval apart.  *)
Paced ==
  ids' > ids /\ Claimable(pass.go.item, pass.go.role = "sort")
    => \A s \in {"global", Proj[pass.go.item]} : broken[s] # Whole => time - tried[s] >= Canary
CanaryPaced == [][Paced]_dispatchVars

(* Slots are dealt round: a project is two starts ahead of another only when    *)
(* the other has nothing left in this pass.                                     *)
NobodyStarves ==
  pass.on => \A p, q \in Projects :
    pass.starts[p] > pass.starts[q] + 1 => \A i \in pass.work : Proj[i] # q

(* Two builds of a project never run at once over the same area or files.       *)
AreaExclusive ==
  \A r, s \in running : r.role = "build" /\ s.role = "build" /\ r.item # s.item
                     /\ Proj[r.item] = Proj[s.item] => Area[r.item] # Area[s.item]

(* Every start, by every measure the scheduler takes of it.                     *)
StartsAreMeasured == CapsHold /\ CanaryPaced /\ [](AreaExclusive /\ NobodyStarves)
=============================================================================
