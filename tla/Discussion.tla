----------------------------- MODULE Discussion -----------------------------
(* Operator-started discussions (D43): turns the console accepts, one worker   *)
(* process under the console's supervisor (discuss.Supervisor, worker,         *)
(* process_turn, run_engine), the engine it starts for a turn, the engine's    *)
(* restricted tools (discuss_tools._mutate) and the durable rows under all of  *)
(* them (ledger: chat_turns, chat_mutations, chat_turn_mutations).             *)
(* The worker's file lock is inherited by its engine, so it is held while      *)
(* either of them lives; but a worker that is terminated unlinks the file, and *)
(* an engine it leaves then holds a lock that nobody asks for.                 *)
EXTENDS Naturals, FiniteSets

CONSTANTS ChatSessions,
          Requests,      \* client request ids; a retry brings a new one
          Ops,           \* operation ids an engine may use in a session
          Turns,         \* 1..n: chat_turns.id
          MaxRetries,    \* max_worker_retries
          MaxDeaths,     \* bound: how often the worker process dies
          MaxStops       \* bound: how often the console is stopped

ASSUME DiscussionAssumption ==
  /\ Turns \subseteq Nat \ {0}
  /\ MaxRetries \in Nat \ {0} /\ MaxDeaths \in Nat /\ MaxStops \in Nat
  /\ ChatSessions # {} /\ Requests # {}

Keys == ChatSessions \X Ops

VARIABLES turn,      \* chat_turns
          op,        \* chat_mutations.status, by session and operation id
          linked,    \* chat_turn_mutations
          worker,    \* where the worker process is
          on,        \* the turn it works on, 0 for none
          engine,    \* the turn whose engine lives and holds the lock, 0 for none
          noted,     \* the engine's pid is in the process file
          strays,    \* turns whose engine was left with an unlinked lock
          tool,      \* the tool call of each turn's engine
          failures,  \* of the worker, as its supervisor counts them
          flying,    \* writes sent to GitHub that have not arrived
          landed,    \* writes GitHub has applied
          wrote,     \* history: <<t, k>>, k was confirmed by t's engine
          deaths, stops

rowVars == <<turn, op, linked>>
procVars == <<worker, on, engine, noted, strays, tool, failures>>
hubVars == <<flying, landed>>
boundVars == <<deaths, stops>>
vars == <<rowVars, procVars, hubVars, wrote, boundVars>>

NoTurn == [status |-> "none", session |-> "none", request |-> "none",
           late |-> FALSE, silent |-> FALSE, receipts |-> {}]
NoCall == [step |-> "idle", key |-> <<>>]

TurnRows ==
  {NoTurn} \cup
  [status : {"queued", "running", "success", "error"}, session : ChatSessions, request : Requests,
   late : BOOLEAN, silent : BOOLEAN, receipts : SUBSET Keys]

ToolCalls == [step : {"intent", "cleared", "asked", "lookup", "sure"}, key : Keys]

(* Nothing says when a stray engine ends: it may stop anywhere, for good.     *)
Living == (strays \cup {engine}) \ {0}

(* Types, and a tool call is a call of a live engine.                         *)
DiscussionTypeOK ==
  /\ turn \in [Turns -> TurnRows]
  /\ op \in [Keys -> {"none", "uncertain", "confirmed"}]
  /\ linked \subseteq Turns \X Keys
  /\ wrote \subseteq Turns \X Keys
  /\ worker \in {"down", "idle", "chosen", "claimed", "spawned", "watching", "replied",
                 "failed", "reporting", "dead", "abandoned", "off"}
  /\ on \in Turns \cup {0} /\ engine \in Turns \cup {0}
  /\ noted \in BOOLEAN
  /\ strays \subseteq Turns
  /\ tool \in [Turns -> ToolCalls \cup {NoCall}]
  /\ \A t \in Turns \ Living : tool[t] = NoCall
  /\ failures \in Nat
  /\ flying \in [Keys -> Nat] /\ landed \in [Keys -> Nat]
  /\ deaths \in 0..MaxDeaths /\ stops \in 0..MaxStops

DiscussionInit ==
  /\ turn = [t \in Turns |-> NoTurn]
  /\ op = [k \in Keys |-> "none"] /\ linked = {} /\ wrote = {}
  /\ worker = "down" /\ on = 0 /\ engine = 0 /\ noted = FALSE
  /\ strays = {} /\ tool = [t \in Turns |-> NoCall]
  /\ failures = 0
  /\ flying = [k \in Keys |-> 0] /\ landed = [k \in Keys |-> 0]
  /\ deaths = 0 /\ stops = 0

-----------------------------------------------------------------------------
(* The turns' rows.                                                           *)
Active(t) == turn[t].status \in {"queued", "running"}
Answered(t) == turn[t].status \in {"success", "error"}
Free == {t \in Turns : turn[t].status = "none"}

(* check_chat_worker: a claim's token is fresh and a turn is claimed once, so *)
(* the token matches exactly while the row is running.                        *)
check_chat_worker(t) == turn[t].status = "running" /\ ~turn[t].late

chat_receipts(t) == {k \in Keys : <<t, k>> \in linked /\ op[k] = "confirmed"}

Finished(t, status) ==
  [turn[t] EXCEPT !.status = status, !.receipts = chat_receipts(t)]

(* One turn per request id and one active turn per session.                   *)
Acceptable(s, r) ==
  \A t \in Turns \ Free : turn[t].session = s =>
    /\ turn[t].request # r
    /\ ~Active(t)

submit_chat_turn(s, r) ==
  /\ worker # "off"
  /\ Acceptable(s, r)
  /\ \E t \in Free :
       /\ \A u \in Free : t <= u
       /\ turn' = [turn EXCEPT ![t] =
                     [NoTurn EXCEPT !.status = "queued", !.session = s, !.request = r]]
  /\ UNCHANGED <<op, linked, procVars, hubVars, wrote, boundVars>>

(* 120 seconds after acceptance, and 30 without a heartbeat. Only the turn in *)
(* hand of a live worker has heartbeats.                                      *)
GoesLate(t) ==
  /\ Active(t) /\ ~turn[t].late
  /\ turn' = [turn EXCEPT ![t].late = TRUE]
  /\ UNCHANGED <<op, linked, procVars, hubVars, wrote, boundVars>>

GoesSilent(t) ==
  /\ turn[t].status = "running" /\ on # t /\ ~turn[t].silent
  /\ turn' = [turn EXCEPT ![t].silent = TRUE]
  /\ UNCHANGED <<op, linked, procVars, hubVars, wrote, boundVars>>

(* Mutant: looks at running rows only, so an expired queued one stays.        *)
Recoverable_Running(all) ==
  {t \in Turns : turn[t].status = "running" /\ (all \/ turn[t].late \/ turn[t].silent)}

(* Mutant: does not restrict itself to the active rows.                       *)
Recoverable_AnyRow(all) ==
  {t \in Turns \ Free : turn[t].late \/ (turn[t].status = "running" /\ (all \/ turn[t].silent))}

(* recover_chat_turns: late ones, and running ones without a heartbeat; all   *)
(* the running ones when stale_seconds is 0.                                  *)
Recoverable(all) ==
  {t \in Turns : Active(t) /\ (turn[t].late \/ (turn[t].status = "running" /\ (all \/ turn[t].silent)))}

recover_chat_turns(all) ==
  turn' = [t \in Turns |-> IF t \in Recoverable(all) THEN Finished(t, "error") ELSE turn[t]]

-----------------------------------------------------------------------------
(* The worker process.                                                        *)
At(w) == worker = w

Moves(from, to) == worker = from /\ worker' = to

(* Mutant: the new worker does not wait for the lock an engine holds.         *)
LockIsFree_Ignored == TRUE

(* Neither an older worker nor an engine it left holds the lock.              *)
LockIsFree == engine = 0

WorkerStarts ==
  /\ Moves("down", "idle") /\ LockIsFree
  /\ recover_chat_turns(TRUE)
  /\ UNCHANGED <<op, linked, on, engine, noted, strays, tool, failures, hubVars, wrote, boundVars>>

(* Exit code 75; to the supervisor an exit like any other.                    *)
WorkerIsRefused ==
  /\ Moves("down", "dead") /\ ~LockIsFree
  /\ UNCHANGED <<rowVars, on, engine, noted, strays, tool, failures, hubVars, wrote, boundVars>>

Polls ==
  /\ At("idle")
  /\ recover_chat_turns(FALSE)
  /\ \/ /\ \A t \in Turns : turn'[t].status # "queued"
        /\ UNCHANGED <<worker, on>>
     \/ \E t \in Turns :
          /\ turn'[t].status = "queued"
          /\ \A u \in Turns : turn'[u].status = "queued" => t <= u
          /\ worker' = "chosen" /\ on' = t
  /\ UNCHANGED <<op, linked, engine, noted, strays, tool, failures, hubVars, wrote, boundVars>>

claim_chat_turn ==
  /\ At("chosen")
  /\ IF turn[on].status = "queued" /\ ~turn[on].late
     THEN /\ turn' = [turn EXCEPT ![on].status = "running"]
          /\ worker' = "claimed" /\ on' = on
     ELSE /\ recover_chat_turns(FALSE)
          /\ worker' = "idle" /\ on' = 0
  /\ UNCHANGED <<op, linked, engine, noted, strays, tool, failures, hubVars, wrote, boundVars>>

(* Popen, and then the pid is written to the process file.                    *)
EngineStarts ==
  /\ Moves("claimed", "spawned") /\ ~turn[on].late
  /\ engine' = on /\ noted' = FALSE
  /\ UNCHANGED <<rowVars, on, strays, tool, failures, hubVars, wrote, boundVars>>

EngineIsNoted ==
  /\ Moves("spawned", "watching")
  /\ noted' = TRUE
  /\ UNCHANGED <<rowVars, on, engine, strays, tool, failures, hubVars, wrote, boundVars>>

EngineGone ==
  /\ engine' = 0 /\ noted' = FALSE
  /\ tool' = [t \in Turns |-> IF t = engine THEN NoCall ELSE tool[t]]

(* The engine ends with or without a reply, or is stopped at the deadline;    *)
(* its process group, tools included, is killed in every case.                *)
EngineEnds ==
  /\ At("watching")
  /\ worker' \in (IF turn[on].late THEN {"failed"} ELSE {"replied", "failed"})
  /\ EngineGone
  /\ UNCHANGED <<rowVars, on, strays, failures, hubVars, wrote, boundVars>>

(* The binding changed, quota or gateway are missing, the deadline passed, or *)
(* the process could not be started.                                          *)
PreparationFails ==
  /\ Moves("claimed", "failed")
  /\ UNCHANGED <<rowVars, on, engine, noted, strays, tool, failures, hubVars, wrote, boundVars>>

complete_chat_turn(status) ==
  turn' = [turn EXCEPT ![on] = Finished(on, status)]

(* A fenced completion raises, and so is a failure like another.              *)
Replies ==
  /\ At("replied")
  /\ IF check_chat_worker(on)
     THEN complete_chat_turn("success") /\ worker' = "idle" /\ on' = 0
     ELSE worker' = "failed" /\ UNCHANGED <<turn, on>>
  /\ UNCHANGED <<op, linked, engine, noted, strays, tool, failures, hubVars, wrote, boundVars>>

Fails ==
  /\ At("failed")
  /\ IF turn[on].late
     THEN recover_chat_turns(FALSE) /\ worker' = "idle" /\ on' = 0
     ELSE worker' = "reporting" /\ UNCHANGED <<turn, on>>
  /\ UNCHANGED <<op, linked, engine, noted, strays, tool, failures, hubVars, wrote, boundVars>>

(* The deadline may have passed since it was looked at: the completion raises *)
(* out of process_turn and the row is left to the next poll.                  *)
Reports ==
  /\ Moves("reporting", "idle") /\ on' = 0
  /\ IF check_chat_worker(on) THEN complete_chat_turn("error") ELSE UNCHANGED turn
  /\ UNCHANGED <<op, linked, engine, noted, strays, tool, failures, hubVars, wrote, boundVars>>

-----------------------------------------------------------------------------
(* Deaths and restarts.                                                       *)
Alive == worker \notin {"down", "dead", "abandoned", "off"}

WorkerDies ==
  /\ deaths < MaxDeaths /\ Alive
  /\ worker' = "dead" /\ on' = 0 /\ deaths' = deaths + 1
  /\ UNCHANGED <<rowVars, engine, noted, strays, tool, failures, hubVars, wrote, stops>>

(* clean_engine kills the engine the process file names; the file names none  *)
(* when the worker died before it was written.                                *)
Supervises ==
  /\ At("dead")
  /\ IF noted THEN EngineGone ELSE UNCHANGED <<engine, noted, tool>>
  /\ failures' = failures + 1
  /\ worker' = IF failures' >= MaxRetries THEN "abandoned" ELSE "down"
  /\ UNCHANGED <<rowVars, on, strays, hubVars, wrote, boundVars>>

(* An engine whose worker is gone runs until it is done.                      *)
OrphanEnds ==
  /\ engine # 0 /\ on # engine
  /\ EngineGone
  /\ UNCHANGED <<rowVars, worker, on, strays, failures, hubVars, wrote, boundVars>>

(* The worker's own engine is stopped by run_engine's finally, a dead one's   *)
(* by clean_engine; then the console takes the lock once itself and recovers. *)
StopsCleanly ==
  /\ worker \notin {"down", "abandoned"}
  /\ engine = 0 \/ engine = on \/ noted
  /\ EngineGone /\ UNCHANGED strays
  /\ recover_chat_turns(TRUE)

(* The signal comes between Popen and the try: nothing stops the engine, and  *)
(* the worker's own finally unlinks the lock which the engine holds.          *)
StrandsTheEngine ==
  /\ worker = "spawned"
  /\ strays' = strays \cup {on} /\ engine' = 0 /\ noted' = FALSE
  /\ recover_chat_turns(TRUE) /\ UNCHANGED tool

(* Between two workers and after the last the supervisor just ends; and an    *)
(* orphan that nobody noted keeps the lock.                                   *)
StopsAlone ==
  /\ \/ worker \in {"down", "abandoned"}
     \/ engine # 0 /\ engine # on /\ ~noted
  /\ UNCHANGED <<turn, engine, noted, strays, tool>>

ConsoleStops ==
  /\ stops < MaxStops /\ worker # "off"
  /\ stops' = stops + 1
  /\ worker' = "off" /\ on' = 0
  /\ StopsCleanly \/ StrandsTheEngine \/ StopsAlone
  /\ UNCHANGED <<op, linked, failures, hubVars, wrote, deaths>>

ConsoleStarts ==
  /\ Moves("off", "down") /\ failures' = 0
  /\ UNCHANGED <<rowVars, on, engine, noted, strays, tool, hubVars, wrote, boundVars>>

-----------------------------------------------------------------------------
(* A mutating tool call of a living engine, and GitHub.                       *)
Tool(e, step, key) == tool' = [tool EXCEPT ![e] = [step |-> step, key |-> key]]

CallEnds(e) == tool' = [tool EXCEPT ![e] = NoCall]

toolUnchanged == <<turn, worker, on, engine, noted, strays, failures, boundVars>>

LinkOf(t, k) == {<<t, k>>}

(* The durable intent, in one transaction with the fence.                     *)
begin_chat_mutation(e, o) ==
  LET k == <<turn[e].session, o>> IN
  /\ tool[e] = NoCall /\ check_chat_worker(e)
  /\ linked' = linked \cup LinkOf(e, k)
  /\ \/ /\ op[k] = "none"
        /\ op' = [op EXCEPT ![k] = "uncertain"] /\ Tool(e, "intent", k)
     \/ op[k] = "uncertain" /\ Tool(e, "lookup", k) /\ UNCHANGED op
     \/ op[k] = "confirmed" /\ UNCHANGED <<op, tool>>
  /\ UNCHANGED <<toolUnchanged, hubVars, wrote>>

(* The binding is checked once more before a fresh write is sent; when it     *)
(* does not hold the call ends and the operation stays uncertain.             *)
_check_binding(e) ==
  /\ tool[e].step = "intent"
  /\ IF check_chat_worker(e) THEN Tool(e, "cleared", tool[e].key) ELSE CallEnds(e)
  /\ UNCHANGED <<toolUnchanged, op, linked, hubVars, wrote>>

Sends(e) ==
  /\ tool[e].step = "cleared"
  /\ flying' = [flying EXCEPT ![tool[e].key] = @ + 1]
  /\ Tool(e, "asked", tool[e].key)
  /\ UNCHANGED <<toolUnchanged, op, linked, landed, wrote>>

(* External: a request arrives at any time or never, whoever waits for it.    *)
Lands(k) ==
  /\ flying[k] > 0
  /\ flying' = [flying EXCEPT ![k] = @ - 1]
  /\ landed' = [landed EXCEPT ![k] = @ + 1]
  /\ UNCHANGED <<rowVars, procVars, wrote, boundVars>>

IsLost(k) ==
  /\ flying[k] > 0
  /\ flying' = [flying EXCEPT ![k] = @ - 1]
  /\ UNCHANGED <<rowVars, procVars, landed, wrote, boundVars>>

(* Mutant: an error of the write counts as a write.                           *)
Hears_Assumes(e) ==
  /\ tool[e].step = "asked"
  /\ Tool(e, "sure", tool[e].key)
  /\ UNCHANGED <<toolUnchanged, op, linked, hubVars, wrote>>

(* The write's URL when it has landed; an error whether or not it has.        *)
Hears(e) ==
  /\ tool[e].step = "asked"
  /\ \/ landed[tool[e].key] > 0 /\ Tool(e, "sure", tool[e].key)
     \/ Tool(e, "lookup", tool[e].key)
  /\ UNCHANGED <<toolUnchanged, op, linked, hubVars, wrote>>

(* Mutant: what is not found is written again.                                *)
_reconcile_Resends(e) ==
  /\ tool[e].step = "lookup"
  /\ \/ landed[tool[e].key] > 0 /\ Tool(e, "sure", tool[e].key)
     \/ Tool(e, "intent", tool[e].key)
  /\ UNCHANGED <<toolUnchanged, op, linked, hubVars, wrote>>

(* By its marker: found only if it has landed, and not always then (a search  *)
(* that lags or fails). Never written again.                                  *)
_reconcile(e) ==
  /\ tool[e].step = "lookup"
  /\ \/ landed[tool[e].key] > 0 /\ Tool(e, "sure", tool[e].key)
     \/ CallEnds(e)
  /\ UNCHANGED <<toolUnchanged, op, linked, hubVars, wrote>>

(* Not fenced: a receipt counts however late it is.                           *)
confirm_chat_mutation(e) ==
  /\ tool[e].step = "sure"
  /\ op' = [op EXCEPT ![tool[e].key] = "confirmed"]
  /\ wrote' = wrote \cup {<<e, tool[e].key>>}
  /\ CallEnds(e)
  /\ UNCHANGED <<toolUnchanged, linked, hubVars>>

-----------------------------------------------------------------------------
Worker ==
  \/ Polls \/ claim_chat_turn \/ EngineStarts \/ EngineIsNoted \/ EngineEnds
  \/ PreparationFails \/ Replies \/ Fails \/ Reports

Supervisor == WorkerStarts \/ WorkerIsRefused \/ Supervises \/ ConsoleStarts

_mutate ==
  \E e \in Living :
    \/ \E o \in Ops : begin_chat_mutation(e, o)
    \/ _check_binding(e) \/ Sends(e) \/ Hears(e) \/ _reconcile(e) \/ confirm_chat_mutation(e)

DiscussionNext ==
  \/ \E s \in ChatSessions, r \in Requests : submit_chat_turn(s, r)
  \/ \E t \in Turns : GoesLate(t) \/ GoesSilent(t)
  \/ Worker \/ Supervisor \/ _mutate
  \/ WorkerDies \/ OrphanEnds \/ ConsoleStops
  \/ \E k \in Keys : Lands(k) \/ IsLost(k)

DiscussionSpec == DiscussionInit /\ [][DiscussionNext]_vars

(* The worker and its supervisor are processes that run, and time passes.     *)
(* Nothing is assumed of engines, tools or GitHub: the deadline stops them.   *)
FairSpec ==
  /\ DiscussionSpec
  /\ WF_vars(Worker) /\ WF_vars(Supervisor)
  /\ \A t \in Turns : WF_vars(GoesLate(t))

-----------------------------------------------------------------------------
(* However often an engine, a retry or a new worker calls a tool with one     *)
(* operation id, GitHub applies its write at most once: what was sent and got *)
(* no answer is looked up and never sent again.                               *)
WrittenOnce == \A k \in Keys : landed[k] <= 1

(* A receipt stands for a write GitHub has: no link the console shows as      *)
(* confirmed, and no confirmed operation, is the model's word or a guess      *)
(* after a lost response.                                                     *)
NoFalseReceipt ==
  /\ \A k \in Keys : op[k] = "confirmed" => landed[k] > 0
  /\ \A t \in Turns : \A k \in turn[t].receipts : landed[k] > 0

(* A turn with a result has no engine left that could still begin a write for *)
(* it: timeouts, dead workers and console restarts end a turn only after its  *)
(* engine is gone, orphans included (they hold the lock). The engine that a   *)
(* terminated worker strands outlives its turn, but it begins no write and    *)
(* gets none cleared: at most it sends the one cleared before the result.     *)
NothingAfterTheResult ==
  /\ [](\A t \in Turns : Answered(t) => engine # t)
  /\ [][\A t \in Turns : Answered(t) /\ tool'[t].step \in {"intent", "cleared"} => tool'[t] = tool[t]]_vars

(* The result of a turn is complete: it has every write its engine confirmed, *)
(* those of an operation an earlier turn began included. Only a stray engine  *)
(* can confirm one after the result.                                          *)
ResultShowsItsWrites ==
  \A t \in Turns \ strays : Answered(t) => {k \in Keys : <<t, k>> \in wrote} \subseteq turn[t].receipts

(* A terminal result is never changed, by a late worker, a recovery or a      *)
(* receipt that comes after it.                                               *)
ResultIsFinal == [][\A t \in Turns : Answered(t) => turn'[t] = turn[t]]_vars

(* An accepted turn ends with a result, through deaths, orphans and restarts, *)
(* as long as the console is up and its supervisor has not given up.          *)
EveryTurnAnswered ==
  \A t \in Turns : Active(t) ~> (Answered(t) \/ worker = "abandoned")

(* Every turn ends with an answer that shows what it wrote.                   *)
TurnsAreAnswered == [](DiscussionTypeOK /\ ResultShowsItsWrites) /\ EveryTurnAnswered
==============================================================================
