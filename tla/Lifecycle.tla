------------------------------ MODULE Lifecycle ------------------------------
(* The life of a build: the daemon's tick (scheduler.py, tick.py, watchdog.py,   *)
(* finalize.py, ship.py, sync.py) moving items and runs, detached agent       *)
(* processes, and interactive sessions (cli.py, mcp.py), all on one ledger.   *)
(* Ownership is Fence's, which Lease implements.  The daemon is sequential    *)
(* (one tick under a lock) but every ledger call is a transaction of its own, *)
(* so agents, sessions, the clock and GitHub interleave between its steps,    *)
(* and a pass can be cut off at any of them.                                  *)
EXTENDS Fence, FiniteSets

CONSTANTS MaxAttempts,      \* projects.<name>.max_attempts
          LaunchFailLimit,  \* tick.LAUNCH_FAIL_LIMIT
          Allowance         \* bounds: [aborts, orders, lapses, commands, closes, all]

VARIABLES item,      \* the items table: state, attempts, pr, launch failures
          run,       \* the runs table
          proc,      \* the agent processes: "none", "alive" or "gone"
          closed,    \* items whose issue is closed on GitHub
          pass,      \* the pass of the tick the daemon is in
          todo,      \* the rows that pass read at its start and has yet to visit
          step,      \* what the daemon is in the middle of
          session,   \* what each session's command is in the middle of
          left,      \* what remains of Allowance
          charges    \* history: how often each run was charged as an attempt

dataVars == <<item, run, proc>>
daemonVars == <<pass, todo, step>>
vars == <<fenceVars, dataVars, daemonVars, closed, session, left, charges>>

States == {"ready", "working", "verifying", "waiting", "needs_you", "parked",
           "failed", "shipped", "done"}
Reasons == {"none", "preempted", "lost-lease", "parked", "closed", "quota",
            "timeout", "hung", "silent"}

(* Stops that are no failure of the run's own.                                *)
NO_ATTEMPT == {"quota", "preempted", "closed", "parked", "lost-lease", "silent"}

After == [watchdog |-> "sync", sync |-> "expire", expire |-> "sweep_items",
          sweep_items |-> "sweep_leases", sweep_leases |-> "schedule",
          schedule |-> "recheck", recheck |-> "ship", ship |-> "watchdog"]

NoRun == [row |-> "none", i |-> Nobody, epoch |-> 0, pid |-> FALSE,
          reason |-> "none", yielding |-> FALSE]
Idle == [at |-> "idle"]

Active(r) == run[r].row \in {"running", "stopping"}
active_runs(i) == {r \in Runs : Active(r) /\ run[r].i = i}
Held(i) == standing[i] # "free"
Live(i) == standing[i] = "held"

(* Types: in particular no item is ever in a state the ledger refuses.        *)
LifecycleTypeOK ==
  /\ FenceTypeOK
  /\ item \in [Items -> [state : States, attempts : Nat, pr : BOOLEAN,
                         fails : Nat]]
  /\ run \in [Runs -> [row : {"none", "running", "stopping", "ended"},
                       i : Items \cup {Nobody}, epoch : Nat, pid : BOOLEAN,
                       reason : Reasons, yielding : BOOLEAN]]
  /\ proc \in [Runs -> {"none", "alive", "gone"}]
  /\ closed \subseteq Items
  /\ pass \in DOMAIN After
  /\ charges \in [Runs -> Nat]

Init ==
  /\ FenceInit
  /\ item = [i \in Items |-> [state |-> "ready", attempts |-> 0, pr |-> FALSE, fails |-> 0]]
  /\ run = [r \in Runs |-> NoRun]
  /\ proc = [r \in Runs |-> "none"]
  /\ closed = {}
  /\ pass = "ship" /\ todo = {} /\ step = Idle
  /\ session = [s \in Sessions |-> Idle]
  /\ left = Allowance
  /\ charges = [r \in Runs |-> 0]

(* Bounds what comes from outside, each kind and all of it together.          *)
Spend(what) ==
  /\ left[what] > 0 /\ left.all > 0
  /\ left' = [left EXCEPT ![what] = @ - 1, !.all = @ - 1]

------------------------------------------------------------------------------
(* Ledger operations the handlers share.                                      *)
set_state(i, s) == item' = [item EXCEPT ![i].state = s]

CanClaim(i, h, steal, from) ==
  ~Live(i) \/ holder[i] = h \/ MayDisplace(i, h, steal, from)

claim(i, h, steal, from) ==
  IF Live(i) /\ holder[i] = h THEN UNCHANGED fenceVars ELSE Grant(i, h, steal, from)

(* release by holder and epoch; an item still "working" goes back to ready.   *)
release(i, h, e) ==
  IF Held(i) /\ holder[i] = h /\ epoch[i] = e
  THEN /\ GiveUp(i)
       /\ item' = [item EXCEPT ![i].state = IF @ = "working" THEN "ready" ELSE @]
  ELSE UNCHANGED <<fenceVars, item>>

(* The same with to_state=None.                                               *)
release_lease(i, h, e) ==
  IF Held(i) /\ holder[i] = h /\ epoch[i] = e THEN GiveUp(i) ELSE UNCHANGED fenceVars

(* watchdog.request_stop for the runs in rs. *)
request_stop(rs, why) ==
  run' = [r \in Runs |-> IF r \in rs THEN [run[r] EXCEPT !.yielding = TRUE, !.reason = why]
                                     ELSE run[r]]

(* Mutant: forgets that an ended run no longer looks after its item.          *)
orphan_working_items_AnyRun ==
  {i \in Items : item[i].state = "working" /\ ~Held(i) /\ \A r \in Runs : run[r].i # i}

(* Working, with no lease and no run to finish it.                            *)
orphan_working_items ==
  {i \in Items : item[i].state = "working" /\ ~Held(i) /\ active_runs(i) = {}}

Row(i) == [i |-> i, h |-> holder[i], e |-> epoch[i]]

orphan_lease_rows ==
  {Row(i) : i \in {i \in Items : /\ Held(i)
                                 /\ item[i].state \notin {"working", "verifying"}
                                 /\ active_runs(i) = {}}}

(* Every lease row past its expiry, whoever holds it.                         *)
expired_leases == {Row(i) : i \in {i \in Items : standing[i] = "lapsed"}}

In(state) == {i \in Items : item[i].state = state}

(* What each pass reads when it starts.                                       *)
Listed(p) ==
  CASE p = "watchdog" -> {r \in Runs : Active(r)}
    [] p = "sync" -> {i \in Items : item[i].state \notin {"done", "shipped"}}
    [] p = "expire" -> expired_leases
    [] p = "sweep_items" -> orphan_working_items
    [] p = "sweep_leases" -> orphan_lease_rows
    [] p = "schedule" -> In("ready")
    [] p = "recheck" -> In("waiting")
    [] p = "ship" -> In("verifying")

NextPass ==
  /\ step = Idle /\ todo = {}
  /\ pass' = After[pass]
  /\ todo' = Listed(After[pass])
  /\ UNCHANGED <<fenceVars, dataVars, step, closed, session, left, charges>>

(* The pass budget's SIGALRM, or the daemon dying: the step is abandoned      *)
(* between two transactions and nothing after it happens.                     *)
Abort ==
  /\ step # Idle
  /\ Spend("aborts")
  /\ step' = Idle /\ todo' = {}
  /\ UNCHANGED <<fenceVars, dataVars, closed, pass, session, charges>>

(* Visit: the next row of pass p's list is taken up.  Resume: the handler     *)
(* that stopped at its next ledger call goes on from there.                   *)
Visit(p, x) == step = Idle /\ pass = p /\ x \in todo /\ todo' = todo \ {x} /\ UNCHANGED pass
Resume(at) == step.at = at /\ UNCHANGED <<pass, todo>>
Finish == step' = Idle

Quiet == UNCHANGED <<closed, session, left, charges>>

------------------------------------------------------------------------------
(* schedule and start: the candidate was read when the pass started; its      *)
(* state is not read again, its lease is.                                     *)
Skip(i) ==
  /\ Visit("schedule", i)
  /\ UNCHANGED <<fenceVars, dataVars, step>> /\ Quiet

CreateRun(i) ==
  /\ Visit("schedule", i)
  /\ ~Live(i)
  /\ \E r \in Runs :
       /\ run[r].row = "none"
       /\ run' = [run EXCEPT ![r].row = "running", ![r].i = i]
       /\ step' = [at |-> "claim", i |-> i, r |-> r]
  /\ UNCHANGED <<fenceVars, item, proc>> /\ Quiet

StartClaims ==
  /\ Resume("claim")
  /\ LET i == step.i  r == step.r IN
       \/ /\ CanClaim(i, r, FALSE, Nobody)
          /\ claim(i, r, FALSE, Nobody)
          /\ step' = [at |-> "launch", i |-> i, r |-> r, epoch |-> epoch'[i]]
          /\ UNCHANGED run
       \/ /\ ~CanClaim(i, r, FALSE, Nobody)
          /\ run' = [run EXCEPT ![r].row = "ended"]
          /\ Finish
          /\ UNCHANGED fenceVars
  /\ UNCHANGED <<item, proc>> /\ Quiet

(* runner.prepare and runner.launch: a process, told the epoch of its lease.  *)
Launch ==
  /\ Resume("launch")
  /\ proc' = [proc EXCEPT ![step.r] = "alive"]
  /\ step' = [step EXCEPT !.at = "record"]
  /\ UNCHANGED <<fenceVars, item, run>> /\ Quiet

LaunchFails ==
  /\ Resume("launch")
  /\ release(step.i, step.r, step.epoch)
  /\ run' = [run EXCEPT ![step.r].row = "ended"]
  /\ step' = [step EXCEPT !.at = "backoff"]
  /\ UNCHANGED proc /\ Quiet

(* _item_launch_backoff: the failure is the same as the last one, or not.     *)
Backoff ==
  /\ Resume("backoff")
  /\ LET was == item[step.i].state IN
     \E fails \in {1, item[step.i].fails + 1} :
       item' = [item EXCEPT
                  ![step.i].fails = fails,
                  ![step.i].state = IF was \notin {"ready", "waiting", "verifying", "working"} THEN was
                                    ELSE IF fails >= LaunchFailLimit THEN "parked"
                                    ELSE IF was \in {"ready", "waiting"} THEN "waiting"
                                    ELSE was]
  /\ Finish
  /\ UNCHANGED <<fenceVars, run, proc>> /\ Quiet

RecordRun ==
  /\ Resume("record")
  /\ run' = [run EXCEPT ![step.r].epoch = step.epoch, ![step.r].pid = TRUE]
  /\ step' = [step EXCEPT !.at = "working"]
  /\ UNCHANGED <<fenceVars, item, proc>> /\ Quiet

MarkWorking ==
  /\ Resume("working")
  /\ item' = [item EXCEPT ![step.i].state = "working", ![step.i].fails = 0]
  /\ Finish
  /\ UNCHANGED <<fenceVars, run, proc>> /\ Quiet

------------------------------------------------------------------------------
(* watchdog: every run that was active when the pass started.                 *)
Superseded(r) == epoch[run[r].i] > run[r].epoch

(* The item is read first; then GitHub is asked whether the issue is closed,  *)
(* unless the run is stale already, and it may not answer.                    *)
BeginFinalize(r) ==
  /\ \E isClosed \in {FALSE, run[r].i \in closed /\ ~Superseded(r)} :
       step' = [at |-> "outcome", r |-> r, attempts |-> item[run[r].i].attempts,
                closed |-> isClosed]
  /\ UNCHANGED <<fenceVars, item, run>> /\ Quiet

(* No pid recorded: inside the startup grace the run may still be starting.   *)
WatchInGrace(r) ==
  /\ Visit("watchdog", r)
  /\ ~run[r].pid
  /\ UNCHANGED <<fenceVars, dataVars, step>> /\ Quiet

(* Mutant: waits for somebody to ask an unrecorded run to stop.               *)
WatchIncomplete_Asked(r) ==
  /\ Visit("watchdog", r)
  /\ ~run[r].pid /\ run[r].row = "stopping"
  /\ BeginFinalize(r)
  /\ UNCHANGED proc

(* Launched, but the result was never recorded: after the startup grace the   *)
(* row is finalized; there is no pid to kill.                                 *)
WatchIncomplete(r) ==
  /\ Visit("watchdog", r)
  /\ ~run[r].pid
  /\ BeginFinalize(r)
  /\ UNCHANGED proc

WatchDead(r) ==
  /\ Visit("watchdog", r)
  /\ run[r].pid /\ proc[r] = "gone"
  /\ BeginFinalize(r)
  /\ UNCHANGED proc

WatchKill(r) ==
  /\ Visit("watchdog", r)
  /\ run[r].pid /\ proc[r] = "alive" /\ run[r].row = "stopping"
  /\ proc' = [proc EXCEPT ![r] = "gone"]
  /\ UNCHANGED <<fenceVars, item, run, step>> /\ Quiet

(* Heartbeat with the recorded epoch; a lapsed lease comes back to life.      *)
StillOurs(r) == LET i == run[r].i IN Held(i) /\ holder[i] = r /\ epoch[i] = run[r].epoch

Beat(r) == IF StillOurs(r) /\ ~Live(run[r].i) THEN Revive(run[r].i) ELSE UNCHANGED fenceVars

Healthy(r) == run[r].pid /\ proc[r] = "alive" /\ run[r].row = "running"

WatchBeat(r) ==
  /\ Visit("watchdog", r)
  /\ Healthy(r)
  /\ run[r].yielding \/ StillOurs(r)          \* a yielding run has its grace
  /\ Beat(r)
  /\ UNCHANGED <<dataVars, step>> /\ Quiet

(* The reasons to stop a run, in their order: a yield whose grace is over     *)
(* keeps a reason it was given, then the lost lease, then the run's health.   *)
WatchStop(r) ==
  /\ Visit("watchdog", r)
  /\ Healthy(r)
  /\ Beat(r)
  /\ \E why \in IF run[r].yielding
                THEN {IF run[r].reason = "none" THEN "preempted" ELSE run[r].reason}
                       \cup {"timeout", "silent", "hung", "quota"}
                ELSE IF ~StillOurs(r) THEN {"lost-lease"}
                ELSE {"timeout", "silent", "hung", "quota"} :
       run' = [run EXCEPT ![r].row = "stopping", ![r].reason = why]
  /\ UNCHANGED <<item, proc, step>> /\ Quiet

------------------------------------------------------------------------------
(* What the run's last report says, if it has one.                            *)
Verbs(r) == IF proc[r] = "none" THEN {"none"} ELSE {"none", "DONE", "BLOCKED", "YIELDED", "NEEDS-YOU"}

(* Why it stopped: as the watchdog noted, or what its own log says of quota.  *)
Whys(r) ==
  IF run[r].reason # "none" THEN {run[r].reason}
  ELSE IF run[r].pid THEN {"none", "quota"} ELSE {"silent"}

(* ENDINGS: the first rule that matches decides, so the order is the contract. *)
Endings(verb, why, pr) ==
  IF verb = "NEEDS-YOU" THEN {"needs_you", "ready"}
  ELSE IF verb = "DONE" /\ why \in {"none", "quota"} THEN {"verifying", "retry"}
  ELSE IF verb = "YIELDED" THEN {"ready"}
  ELSE IF why = "parked" THEN {"parked"}
  ELSE IF why \in {"preempted", "quota", "lost-lease"} THEN {"ready"}
  ELSE IF verb = "BLOCKED"
  THEN {"needs_you", "parked", "retry", IF pr THEN "verifying" ELSE "ready"}
  ELSE IF verb \in {"none", "DONE"} /\ why \in {"none", "timeout"} THEN {"verifying", "retry"}
  ELSE {"retry"}

retry_or_fail(i, r, why, attempts) ==
  IF why \in NO_ATTEMPT
  THEN set_state(i, "ready") /\ UNCHANGED charges
  ELSE /\ item' = [item EXCEPT ![i].attempts = attempts + 1,
                               ![i].state = IF attempts + 1 >= MaxAttempts THEN "failed" ELSE "ready"]
       /\ charges' = [charges EXCEPT ![r] = @ + 1]

(* A closed issue decides alone; otherwise the rules do.                      *)
ApplyOutcome(r, i) ==
  IF step.closed THEN set_state(i, "done") /\ UNCHANGED charges
  ELSE \E verb \in Verbs(r), why \in Whys(r) :
         \E ending \in Endings(verb, why, item[i].pr) :
           IF ending = "retry" THEN retry_or_fail(i, r, why, step.attempts)
                               ELSE set_state(i, ending) /\ UNCHANGED charges

(* Mutant: trusts the fence check made before the slow work.                  *)
FinalizeOutcome_NoRecheck ==
  /\ Resume("outcome")
  /\ ApplyOutcome(step.r, run[step.r].i)
  /\ step' = [at |-> "books", r |-> step.r]
  /\ UNCHANGED <<fenceVars, run, proc, closed, session, left>>

(* finalize: the item was read and the work saved (slow) before the outcome   *)
(* transaction, which checks the fence again.                                 *)
FinalizeOutcome ==
  /\ Resume("outcome")
  /\ IF Superseded(step.r) THEN UNCHANGED <<item, charges>>
                           ELSE ApplyOutcome(step.r, run[step.r].i)
  /\ step' = [at |-> "books", r |-> step.r]
  /\ UNCHANGED <<fenceVars, run, proc, closed, session, left>>

(* _close_the_books: the lease goes to the conductor with a verifying item,   *)
(* and is given up otherwise.                                                 *)
CloseBooks ==
  /\ Resume("books")
  /\ LET r == step.r  i == run[r].i IN
       IF Superseded(r) THEN UNCHANGED <<fenceVars, item>>
       ELSE IF item[i].state = "verifying"
       THEN /\ UNCHANGED item
            /\ IF CanClaim(i, Conductor, FALSE, r) THEN claim(i, Conductor, FALSE, r)
                                                   ELSE UNCHANGED fenceVars
       ELSE release(i, r, run[r].epoch)
  /\ step' = [step EXCEPT !.at = "end"]
  /\ UNCHANGED <<run, proc>> /\ Quiet

EndRow ==
  /\ Resume("end")
  /\ run' = [run EXCEPT ![step.r].row = "ended"]
  /\ Finish
  /\ UNCHANGED <<fenceVars, item, proc>> /\ Quiet

------------------------------------------------------------------------------
(* sync: what GitHub says of every open item, and what its owner ordered.     *)
SyncNothing(i) ==
  /\ Visit("sync", i)
  /\ UNCHANGED <<fenceVars, dataVars, step>> /\ Quiet

SyncClosedStops(i) ==
  /\ Visit("sync", i)
  /\ i \in closed
  /\ active_runs(i) # {}
  /\ request_stop({r \in active_runs(i) : ~run[r].yielding}, "closed")
  /\ UNCHANGED <<fenceVars, item, proc, step>> /\ Quiet

SyncClosedReleases(i) ==
  /\ Visit("sync", i)
  /\ i \in closed
  /\ active_runs(i) = {}
  /\ release(i, holder[i], epoch[i])
  /\ step' = [at |-> "closed", i |-> i]
  /\ UNCHANGED <<run, proc>> /\ Quiet

(* A merge by hand is a shipment like any other; the lease goes afterwards.   *)
SyncMergedShips(i) ==
  /\ Visit("sync", i)
  /\ i \in closed
  /\ active_runs(i) = {}
  /\ item[i].pr
  /\ set_state(i, "shipped")
  /\ step' = [at |-> "drop_any", i |-> i]
  /\ UNCHANGED <<fenceVars, run, proc>> /\ Quiet

DropAny ==
  /\ Resume("drop_any")
  /\ release(step.i, holder[step.i], epoch[step.i])
  /\ Finish
  /\ UNCHANGED <<run, proc>> /\ Quiet

MarkClosed ==
  /\ Resume("closed")
  /\ set_state(step.i, "done")
  /\ Finish
  /\ UNCHANGED <<fenceVars, run, proc>> /\ Quiet

OwnerGo(i) ==
  /\ Visit("sync", i)
  /\ i \notin closed
  /\ Spend("orders")
  /\ item' = [item EXCEPT ![i].state = IF item[i].pr THEN "verifying" ELSE "ready",
                          ![i].attempts = 0, ![i].fails = 0]
  /\ UNCHANGED <<fenceVars, run, proc, step, closed, session, charges>>

OwnerPark(i) ==
  /\ Visit("sync", i)
  /\ i \notin closed
  /\ Spend("orders")
  /\ set_state(i, "parked")
  /\ request_stop(active_runs(i), "parked")
  /\ UNCHANGED <<fenceVars, proc, step, closed, session, charges>>

------------------------------------------------------------------------------
(* expire and sweep_orphans: each visits the rows its query returned.         *)
ExpireSkips(x) ==
  /\ Visit("expire", x)
  /\ \E r \in active_runs(x.i) : r = x.h      \* the watchdog owns running runs
  /\ UNCHANGED <<fenceVars, dataVars, step>> /\ Quiet

(* A session seen active is kept alive for it.                                *)
ExpireRevives(x) ==
  /\ Visit("expire", x)
  /\ x.h \in Sessions
  /\ IF Row(x.i) = x /\ standing[x.i] = "lapsed" THEN Revive(x.i) ELSE UNCHANGED fenceVars
  /\ UNCHANGED <<dataVars, step>> /\ Quiet

ExpireReleases(x) ==
  /\ Visit("expire", x)
  /\ \A r \in active_runs(x.i) : r # x.h
  /\ release(x.i, x.h, x.e)
  /\ UNCHANGED <<run, proc, step>> /\ Quiet

SweepItem(i) ==
  /\ Visit("sweep_items", i)
  /\ set_state(i, "ready")
  /\ UNCHANGED <<fenceVars, run, proc, step>> /\ Quiet

SweepLease(x) ==
  /\ Visit("sweep_leases", x)
  /\ release_lease(x.i, x.h, x.e)
  /\ UNCHANGED <<dataVars, step>> /\ Quiet

(* waits.recheck: the wait is over, or it is not yet.                         *)
RecheckWaits(i) ==
  /\ Visit("recheck", i)
  /\ UNCHANGED <<fenceVars, dataVars, step>> /\ Quiet

RecheckResumes(i) ==
  /\ Visit("recheck", i)
  /\ set_state(i, "ready")
  /\ UNCHANGED <<fenceVars, run, proc, step>> /\ Quiet

------------------------------------------------------------------------------
(* ship: the conductor's lease first; then whatever watching the PR brings.   *)
ShipRefused(i) ==
  /\ Visit("ship", i)
  /\ ~CanClaim(i, Conductor, FALSE, Nobody)
  /\ step' = [at |-> "refused", i |-> i]
  /\ UNCHANGED <<fenceVars, dataVars>> /\ Quiet

HandBack ==
  /\ Resume("refused")
  /\ set_state(step.i, "working")
  /\ Finish
  /\ UNCHANGED <<fenceVars, run, proc>> /\ Quiet

ShipClaims(i) ==
  /\ Visit("ship", i)
  /\ CanClaim(i, Conductor, FALSE, Nobody)
  /\ claim(i, Conductor, FALSE, Nobody)
  /\ step' = [at |-> "watch", i |-> i]
  /\ UNCHANGED dataVars /\ Quiet

ShipOpens ==
  /\ Resume("watch")
  /\ item' = [item EXCEPT ![step.i].pr = TRUE]
  /\ Finish
  /\ UNCHANGED <<fenceVars, run, proc>> /\ Quiet

ShipMerged ==
  /\ Resume("watch")
  /\ item[step.i].pr
  /\ set_state(step.i, "shipped")
  /\ step' = [step EXCEPT !.at = "drop"]
  /\ UNCHANGED <<fenceVars, run, proc>> /\ Quiet

(* _rebuild_on_base: the base moved under the PR.                             *)
ShipRebuilds ==
  /\ Resume("watch")
  /\ item[step.i].pr
  /\ item' = [item EXCEPT ![step.i].state = "ready", ![step.i].pr = FALSE]
  /\ step' = [step EXCEPT !.at = "drop"]
  /\ UNCHANGED <<fenceVars, run, proc>> /\ Quiet

DropConductor ==
  /\ Resume("drop")
  /\ release(step.i, Conductor, epoch[step.i])
  /\ Finish
  /\ UNCHANGED <<run, proc>> /\ Quiet

------------------------------------------------------------------------------
(* Sessions: each command is one process making these calls in turn.          *)
SessionUnchanged == UNCHANGED <<run, proc, daemonVars, closed, charges>>

SessionClaims(s, i) ==
  /\ session[s] = Idle
  /\ Spend("commands")
  /\ \E steal \in BOOLEAN : CanClaim(i, s, steal, Nobody) /\ claim(i, s, steal, Nobody)
  /\ run' = [r \in Runs |-> IF Live(i) /\ holder[i] = r THEN [run[r] EXCEPT !.yielding = TRUE]
                                                       ELSE run[r]]
  /\ session' = [session EXCEPT ![s] = [at |-> "claimed", i |-> i]]
  /\ UNCHANGED <<item, proc, daemonVars, closed, charges>>

SessionWorks(s) ==
  /\ session[s].at = "claimed"
  /\ set_state(session[s].i, "working")
  /\ session' = [session EXCEPT ![s] = Idle]
  /\ UNCHANGED <<fenceVars, left>> /\ SessionUnchanged

(* cmd_ship reads the lease and the item, asks GitHub, then writes the item   *)
(* and at last lets go of the lease it read.                                  *)
SessionShips(s, i) ==
  /\ session[s] = Idle
  /\ Spend("commands")
  /\ Live(i) => holder[i] = s
  /\ item[i].state # "done"
  /\ session' = [session EXCEPT ![s] =
       [at |-> "shipping", i |-> i, cur |-> Live(i),
        retry |-> item[i].state \in {"failed", "needs_you", "parked"}]]
  /\ UNCHANGED <<fenceVars, item>> /\ SessionUnchanged

SessionHandsOver(s) ==
  LET i == session[s].i IN
  /\ session[s].at = "shipping"
  /\ \E pr \in BOOLEAN :                      \* an open PR, or only its branch
       item' = [item EXCEPT ![i].state = "verifying", ![i].pr = pr,
                            ![i].attempts = IF session[s].retry THEN 0 ELSE @]
  /\ session' = [session EXCEPT ![s].at = "handing"]
  /\ UNCHANGED <<fenceVars, left>> /\ SessionUnchanged

SessionLetsGo(s) ==
  LET i == session[s].i IN
  /\ session[s].at = "handing"
  /\ IF session[s].cur THEN release_lease(i, s, epoch[i]) ELSE UNCHANGED fenceVars
  /\ session' = [session EXCEPT ![s] = Idle]
  /\ UNCHANGED <<item, left>> /\ SessionUnchanged

SessionReleases(s, i) ==
  /\ session[s] = Idle
  /\ Held(i) /\ holder[i] = s
  /\ release(i, s, epoch[i])
  /\ UNCHANGED <<session, left>> /\ SessionUnchanged

------------------------------------------------------------------------------
(* The rest of the world: agents exit, issues close, leases lapse.            *)
ProcExits(r) ==
  /\ proc[r] = "alive"
  /\ proc' = [proc EXCEPT ![r] = "gone"]
  /\ UNCHANGED <<fenceVars, item, run, daemonVars, closed, session, left, charges>>

IssueCloses(i) ==
  /\ i \notin closed
  /\ Spend("closes")
  /\ closed' = closed \cup {i}
  /\ UNCHANGED <<fenceVars, dataVars, daemonVars, session, charges>>

LeaseLapses(i) ==
  /\ Live(i)
  /\ Spend("lapses")
  /\ Lapse({i})
  /\ UNCHANGED <<dataVars, daemonVars, closed, session, charges>>


Schedules ==
  \/ \E i \in Items : Skip(i) \/ CreateRun(i)
  \/ StartClaims \/ Launch \/ LaunchFails \/ Backoff \/ RecordRun \/ MarkWorking

Watches(r) ==
  \/ WatchInGrace(r) \/ WatchIncomplete(r) \/ WatchDead(r)
  \/ WatchKill(r) \/ WatchBeat(r) \/ WatchStop(r)

Finalizes == FinalizeOutcome \/ CloseBooks \/ EndRow

Syncs ==
  \/ \E i \in Items : \/ SyncNothing(i) \/ SyncClosedStops(i) \/ SyncClosedReleases(i)
                      \/ SyncMergedShips(i) \/ OwnerGo(i) \/ OwnerPark(i)
  \/ MarkClosed \/ DropAny

Expires ==
  \E x \in todo : \/ ExpireSkips(x) \/ ExpireRevives(x) \/ ExpireReleases(x)
                 \/ SweepItem(x) \/ SweepLease(x)
                 \/ RecheckWaits(x) \/ RecheckResumes(x)

Ships ==
  \/ \E i \in Items : ShipRefused(i) \/ ShipClaims(i)
  \/ HandBack \/ ShipOpens \/ ShipMerged \/ ShipRebuilds \/ DropConductor

Daemon ==
  \/ NextPass \/ Schedules \/ Finalizes \/ Syncs \/ Expires \/ Ships
  \/ \E r \in Runs : Watches(r)

SessionActs ==
  \E s \in Sessions :
    \/ SessionWorks(s) \/ SessionHandsOver(s) \/ SessionLetsGo(s)
    \/ \E i \in Items : SessionClaims(s, i) \/ SessionShips(s, i) \/ SessionReleases(s, i)

World ==
  \/ \E r \in Runs : ProcExits(r)
  \/ \E i \in Items : IssueCloses(i) \/ LeaseLapses(i)

Next == Daemon \/ Abort \/ SessionActs \/ World

Spec == Init /\ [][Next]_vars

(* launchd starts a tick a minute and the lock keeps it alone, so the daemon  *)
(* keeps stepping; clocks run, so a run cannot be in its startup grace, or    *)
(* inside run_timeout_minutes, for ever.  Sessions, agents and GitHub owe us  *)
(* nothing.                                                                   *)
Fairness ==
  /\ WF_vars(Daemon)
  /\ \A r \in Runs : SF_vars(WatchIncomplete(r)) /\ SF_vars(WatchStop(r))

FairSpec == Spec /\ Fairness

------------------------------------------------------------------------------
(* finalize.py: "a stale run ... cannot update the item whose lease epoch     *)
(* superseded it".  While anybody but the run holds the item, finalizing the  *)
(* run touches neither the item nor a lease.                                  *)
NewHolderUntouched ==
  [][step.at \in {"outcome", "books"} /\ step' # step
       => LET i == run[step.r].i IN
          Live(i) /\ holder[i] # step.r => UNCHANGED <<item, fenceVars>>]_vars

(* _close_the_books: "release run capacity immediately".  Once a launched     *)
(* run's row has ended it holds nothing, whatever its item became.            *)
EndedRunHoldsNothing ==
  \A r \in Runs : run[r].row = "ended" /\ run[r].epoch # 0
                    => ~(Live(run[r].i) /\ holder[run[r].i] = r)

(* A run stopped for a reason that is not its own (taken over, closed,        *)
(* parked, out of quota, fenced out) never costs its item an attempt,         *)
(* whatever its last words were.                                              *)
NoChargeForAStop ==
  [][\A r \in Runs : charges'[r] # charges[r]
                       => run[r].reason \in {"none", "timeout", "hung"}]_vars

(* An ending, all in all: types included.                                     *)
CleanEndings ==
  [](LifecycleTypeOK /\ EndedRunHoldsNothing) /\ NewHolderUntouched /\ NoChargeForAStop

(* The watchdog ends every run, through crashes and cut-off passes.           *)
EveryRunEnds == \A r \in Runs : Active(r) ~> ~Active(r)

(* An item is not left working with no run and no lease.                      *)
StrandedWorkRecovers ==
  \A i \in Items : (item[i].state = "working" /\ ~Held(i) /\ active_runs(i) = {})
                     ~> ~(item[i].state = "working" /\ ~Held(i) /\ active_runs(i) = {})

(* A lapsed autonomous lease does not hold its item for ever.                 *)
LapsedLeaseReaped ==
  \A i \in Items : (standing[i] = "lapsed" /\ holder[i] \in Autos)
                     ~> ~(standing[i] = "lapsed" /\ holder[i] \in Autos)

(* Neither an item nor a lease is left behind.                                *)
NothingStranded == StrandedWorkRecovers /\ LapsedLeaseReaped

------------------------------------------------------------------------------
(* cmd_claim tells the session it holds the item for so many minutes of        *)
(* inactivity.  Once it has been told, its live lease goes only by its own    *)
(* hand, to another human, or with the issue.                                 *)
SessionKeepsItsItem ==
  [][\A i \in Items, s \in Sessions :
       Live(i) /\ holder[i] = s /\ session[s] = Idle /\ holder'[i] = Nobody
         => i \in closed \/ UNCHANGED daemonVars]_vars
==============================================================================
