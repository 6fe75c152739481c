------------------------------ MODULE PostMerge ------------------------------
(* post_merge.py for one project: the check of each merge through its phases  *)
(* (deploy, live, smoke), advanced once a tick; what a failed check sets off  *)
(* (failures.report_post_merge, the breaker, the automatic revert), step by   *)
(* step; the evidence a passed check delivers; and the pause, which the tick  *)
(* lifts by itself and the CLI lifts at any moment from another process.      *)
(* A merge stands for its pull request, its SHA and its tag; a cause is all   *)
(* of failure_code that the keys of the reports tell apart.                   *)
EXTENDS Naturals, Sequences, FiniteSets

CONSTANTS Merges,      \* merges of the project, in their order: 1..n
          Issue,       \* the issue each of them ships
          Policies,    \* effective policies: strategies, smoke command, auto_revert,
                       \* and the failures in a row that pause (3 in the code)
          MaxFaults    \* bound: crashes, failed calls and lost answers

Causes == {"timeout", "failed"}
Phases == {"deploy", "live", "smoke"}

ASSUME PostMergeAssumption ==
  /\ Merges \subseteq Nat \ {0} /\ IsFiniteSet(Merges)
  /\ Issue \in [Merges -> Nat]
  /\ Policies \subseteq [deploy : {"watch", "command"}, live : {"command", "mahler", "github"},
                         smoke : BOOLEAN, revert : BOOLEAN, pause : Nat \ {0}]
  /\ MaxFaults \in Nat

VARIABLES policy,   \* the project's own
          uat,      \* the merge of each issue that the uat row observes, 0 for none
          check,    \* post_merge_checks
          late,     \* checks past their deadline
          dir,      \* the directory of each check's phase, with what its worker left there
          kv,       \* the keys of remediation, streak, pause and evidence
          hub,      \* GitHub: bugs and reverts filed, evidence posted
          running,  \* the newest deployment of the environment
          job,      \* the row the tick is at, and how far
          faults    \* what remains of MaxFaults

vars == <<policy, uat, check, late, dir, kv, hub, running, job, faults>>

NoCheck == [phase |-> "none", status |-> "none", cause |-> "none"]
NoJob == [at |-> "idle", m |-> 0, row |-> NoCheck, bug |-> 0, saved |-> FALSE, repeated |-> FALSE]
NoStreak == [count |-> 0, key |-> <<>>]

Issues == {Issue[m] : m \in Merges}

Init ==
  /\ policy \in Policies
  /\ uat = [i \in Issues |-> 0]
  /\ check = [m \in Merges |-> NoCheck]
  /\ late = {}
  /\ dir = [m \in Merges |-> "none"]
  /\ kv = [rem |-> {}, bugOf |-> [m \in Merges |-> 0], open |-> [k \in Phases \X Causes |-> 0],
           counted |-> {}, streak |-> NoStreak, paused |-> FALSE, alert |-> "none",
           revert |-> {}, posted |-> {}]
  /\ hub = [bugs |-> <<>>, reverts |-> <<>>, evidence |-> [m \in Merges |-> 0]]
  /\ running = 0
  /\ job = NoJob
  /\ faults = MaxFaults

Fault == faults > 0 /\ faults' = faults - 1
Go(at) == job' = [job EXCEPT !.at = at]
Done == job' = NoJob
NoFault == UNCHANGED faults

Pending(m) == check[m].status = "pending"

------------------------------------------------------------------------------
(* The ledger's two writers of a check.                                       *)

(* Once a merge. *)
create_post_merge_check(m) ==
  check' = IF check[m] # NoCheck THEN check
           ELSE [check EXCEPT ![m] = [phase |-> "deploy", status |-> "pending", cause |-> "none"]]

(* A terminal row and a phase that is over stay as they are. *)
Current(m, row) == Pending(m) /\ check[m].phase = row.phase

ToPhase(m, row, phase) ==
  /\ check' = IF Current(m, row) THEN [check EXCEPT ![m].phase = phase] ELSE check
  /\ dir' = IF Current(m, row) THEN [dir EXCEPT ![m] = "none"] ELSE dir
  /\ UNCHANGED kv

Pass(m, row) ==
  /\ check' = IF Current(m, row) THEN [check EXCEPT ![m].status = "PASS"] ELSE check
  /\ kv' = IF Current(m, row) THEN [kv EXCEPT !.streak = NoStreak] ELSE kv
  /\ UNCHANGED dir

(* _fail goes on to remediate whether or not the row was still there to fail. *)
FailWith(m, row, cause) ==
  /\ check' = IF Current(m, row) THEN [check EXCEPT ![m].status = "FAIL", ![m].cause = cause]
              ELSE check
  /\ UNCHANGED <<dir, kv>>
  /\ job' = [job EXCEPT !.at = "remediate",
                        !.row = IF check'[m].status = "FAIL" THEN check'[m]
                                ELSE [row EXCEPT !.cause = cause]]

------------------------------------------------------------------------------
(* Merges ship (Shipment has the steps of _shipped), and the environment.     *)

(* The registration at the end of _shipped, unless it dies before. *)
Ships(m) ==
  /\ job.at = "idle" /\ check[m] = NoCheck
  /\ \A other \in Merges : Issue[other] = Issue[m] /\ other > m => uat[Issue[m]] # other
  /\ uat[Issue[m]] # m
  /\ uat' = [uat EXCEPT ![Issue[m]] = m]
  /\ \/ create_post_merge_check(m) /\ NoFault
     \/ Fault /\ UNCHANGED check
  /\ UNCHANGED <<policy, late, dir, kv, hub, running, job>>

(* Whatever deploys, deploys in order and may skip a merge. *)
Deployed(m) ==
  /\ m > running /\ \E i \in Issues : uat[i] = m
  /\ running' = m
  /\ UNCHANGED <<policy, uat, check, late, dir, kv, hub, job, faults>>

DeadlinePasses(m) ==
  /\ Pending(m) /\ m \notin late
  /\ late' = late \cup {m}
  /\ UNCHANGED <<policy, uat, check, dir, kv, hub, running, job, faults>>

(* The detached worker publishes a result, or its host goes down. *)
WorkerEnds(m) ==
  /\ dir[m] = "running"
  /\ \E result \in {"good", "bad", "lost"} :
       /\ dir' = [dir EXCEPT ![m] = result]
       /\ check[m].phase = "live" /\ result = "good" => running = m
  /\ UNCHANGED <<policy, uat, check, late, kv, hub, running, job, faults>>

OwnerCloses(bug) ==
  /\ hub.bugs[bug].open
  /\ hub' = [hub EXCEPT !.bugs[bug].open = FALSE]
  /\ UNCHANGED <<policy, uat, check, late, dir, kv, running, job, faults>>

------------------------------------------------------------------------------
(* advance.                                                                   *)

(* A registration that a crash lost, while the shipment is still observed. *)
RegisterAgain(m) ==
  /\ job.at = "idle" /\ ~kv.paused /\ uat[Issue[m]] = m /\ check[m] = NoCheck
  /\ create_post_merge_check(m)
  /\ UNCHANGED <<policy, uat, late, dir, kv, hub, running, job, faults>>

(* The rows are read once: the pause is looked at again before each, the row  *)
(* itself is not.                                                             *)
TakesRow(m) ==
  /\ job.at = "idle" /\ ~kv.paused
  /\ \/ Pending(m)
     \/ check[m].status = "FAIL" /\ m \notin kv.rem
     \/ check[m].status = "PASS" /\ m \notin kv.posted /\ uat[Issue[m]] = m
  /\ job' = [NoJob EXCEPT !.at = "row", !.m = m, !.row = check[m]]
  /\ UNCHANGED <<policy, uat, check, late, dir, kv, hub, running, faults>>

(* Mutant: a failure that was not reported in its own tick is never reported. *)
Dispatch_Forgets ==
  CASE kv.paused -> "idle"
    [] ~kv.paused /\ job.row.status = "PASS" -> "deliver"
    [] ~kv.paused /\ job.row.status = "FAIL" -> "idle"
    [] OTHER -> "advance"

Dispatch ==
  CASE kv.paused -> "idle"
    [] ~kv.paused /\ job.row.status = "PASS" -> "deliver"
    [] ~kv.paused /\ job.row.status = "FAIL" -> "remediate"
    [] OTHER -> "advance"

Row ==
  /\ job.at = "row"
  /\ IF Dispatch = "idle" THEN Done ELSE Go(Dispatch)
  /\ UNCHANGED <<policy, uat, check, late, dir, kv, hub, running, faults>>

(* The phases that have no command of their own. *)
Watched == job.row.phase = "deploy" /\ policy.deploy = "watch"
Observed == job.row.phase = "live" /\ policy.live # "command"
Proven == job.row.phase = "smoke" /\ policy.live = "mahler"
Commanded == ~Watched /\ ~Observed /\ ~Proven

Timeout ==
  /\ job.at = "advance" /\ job.m \in late
  /\ FailWith(job.m, job.row, "timeout")
  /\ UNCHANGED <<policy, uat, late, hub, running, faults>>

Watch ==
  /\ job.at = "advance" /\ job.m \notin late /\ Watched
  /\ ToPhase(job.m, job.row, "live") /\ Done
  /\ UNCHANGED <<policy, uat, late, hub, running, faults>>

(* _observe_live: only the newest deployment can be live; a lookup that fails *)
(* is only asked again.                                                       *)
Observe ==
  /\ job.at = "advance" /\ job.m \notin late /\ Observed
  /\ Done
  /\ \/ running = job.m /\ ToPhase(job.m, job.row, "smoke") /\ NoFault
     \/ running # job.m /\ UNCHANGED <<check, dir, kv>> /\ NoFault
     \/ Fault /\ UNCHANGED <<check, dir, kv>>
  /\ UNCHANGED <<policy, uat, late, hub, running>>

Prove ==
  /\ job.at = "advance" /\ job.m \notin late /\ Proven
  /\ Pass(job.m, job.row) /\ Done
  /\ UNCHANGED <<policy, uat, late, hub, running, faults>>

(* _launch: the directory is the intent, made before the process. A launch    *)
(* that dies in between fails at the deadline, one that raises fails now.     *)
Launch ==
  /\ job.at = "advance" /\ job.m \notin late /\ Commanded /\ dir[job.m] = "none"
  /\ job.row.phase = "smoke" => policy.smoke
  /\ \/ dir' = [dir EXCEPT ![job.m] = "running"] /\ Done /\ UNCHANGED <<check, kv>> /\ NoFault
     \/ dir' = [dir EXCEPT ![job.m] = "lost"] /\ Done /\ UNCHANGED <<check, kv>> /\ Fault
     \/ FailWith(job.m, job.row, "failed") /\ Fault
  /\ UNCHANGED <<policy, uat, late, hub, running>>

SmokeDisabled ==
  /\ job.at = "advance" /\ job.m \notin late /\ Commanded
  /\ job.row.phase = "smoke" /\ ~policy.smoke
  /\ FailWith(job.m, job.row, "failed")
  /\ UNCHANGED <<policy, uat, late, hub, running, faults>>

Poll ==
  /\ job.at = "advance" /\ job.m \notin late /\ Commanded /\ dir[job.m] # "none"
  /\ \/ dir[job.m] \in {"running", "lost"} /\ Done /\ UNCHANGED <<check, dir, kv>>
     \/ dir[job.m] = "bad" /\ FailWith(job.m, job.row, "failed")
     \/ /\ dir[job.m] = "good" /\ Done
        /\ \/ job.row.phase = "deploy" /\ ToPhase(job.m, job.row, "live")
           \/ job.row.phase = "live" /\ ToPhase(job.m, job.row, "smoke")
           \/ job.row.phase = "smoke" /\ Pass(job.m, job.row)
  /\ UNCHANGED <<policy, uat, late, hub, running, faults>>

(* The exact reference, as an earlier attempt may have left it.               *)
Posted(m) == hub.evidence[m] > 0

(* _deliver, for the newest check of the shipment being observed. *)
Deliver ==
  /\ job.at = "deliver" /\ Done
  /\ LET m == job.m IN
       \/ /\ \/ uat[Issue[m]] # m
             \/ \E other \in Merges : Issue[other] = Issue[m] /\ other > m /\ check[other] # NoCheck
          /\ UNCHANGED <<kv, hub>> /\ NoFault
       \/ /\ uat[Issue[m]] = m
          /\ \A other \in Merges : Issue[other] = Issue[m] /\ other > m => check[other] = NoCheck
          /\ \/ /\ hub' = IF Posted(m) THEN hub ELSE [hub EXCEPT !.evidence[m] = @ + 1]
                /\ \/ kv' = [kv EXCEPT !.posted = @ \cup {m}] /\ NoFault
                   \/ UNCHANGED kv /\ Fault
             \/ UNCHANGED <<kv, hub>> /\ Fault
  /\ UNCHANGED <<policy, uat, check, late, dir, running>>

------------------------------------------------------------------------------
(* _remediate and report_post_merge. A call that fails ends the attempt; the  *)
(* next tick takes the failed row again.                                      *)

Key == <<job.row.phase, job.row.cause>>

Bugs == DOMAIN hub.bugs

(* Mutant: GitHub is not asked for a bug whose number was never written down. *)
Marked_Unseen(m) == {}

(* issue_by_marker. *)
Marked(m) == {b \in Bugs : hub.bugs[b].merge = m}

(* The bug on record for the phase and the code, or one that the ledger knows *)
(* from before it kept that record.                                           *)
Candidates ==
  IF kv.open[Key] # 0 THEN {kv.open[Key]}
  ELSE {b \in Bugs : hub.bugs[b].open /\ hub.bugs[b].key = Key}

Find ==
  /\ job.at = "remediate"
  /\ LET m == job.m IN
     CASE m \in kv.rem -> Done /\ UNCHANGED kv
       [] m \notin kv.rem /\ kv.bugOf[m] # 0 ->
            /\ job' = [job EXCEPT !.at = "open", !.bug = kv.bugOf[m], !.saved = TRUE]
            /\ UNCHANGED kv
       [] m \notin kv.rem /\ kv.bugOf[m] = 0 /\ Marked(m) # {} ->
            \E b \in Marked(m) :
              /\ kv' = [kv EXCEPT !.bugOf[m] = b]
              /\ job' = [job EXCEPT !.at = "open", !.bug = b]
       [] OTHER ->
            /\ UNCHANGED kv
            /\ IF \E b \in Candidates : hub.bugs[b].open
               THEN \E b \in Candidates :
                      job' = [job EXCEPT !.at = "note", !.bug = b, !.repeated = TRUE]
               ELSE Go("file")
  /\ UNCHANGED <<policy, uat, check, late, dir, hub, running, faults>>

(* create_issue; its answer may be lost. *)
File ==
  /\ job.at = "file"
  /\ hub' = [hub EXCEPT !.bugs = Append(@, [merge |-> job.m, key |-> Key, open |-> TRUE, notes |-> {}])]
  /\ \/ job' = [job EXCEPT !.at = "save", !.bug = Len(hub'.bugs)] /\ NoFault
     \/ Done /\ Fault
  /\ UNCHANGED <<policy, uat, check, late, dir, kv, running>>

(* A repeated failure is a comment on the open bug, once a merge. *)
Note ==
  /\ job.at = "note"
  /\ hub' = [hub EXCEPT !.bugs[job.bug].notes = @ \cup {job.m}]
  /\ Go("save")
  /\ UNCHANGED <<policy, uat, check, late, dir, kv, running, faults>>

Save ==
  /\ job.at = "save"
  /\ kv' = [kv EXCEPT !.bugOf[job.m] = job.bug]
  /\ Go("open")
  /\ UNCHANGED <<policy, uat, check, late, dir, hub, running, faults>>

RecordOpen ==
  /\ job.at = "open"
  /\ kv' = [kv EXCEPT !.open[Key] = IF ~job.saved \/ @ = 0 THEN job.bug ELSE @]
  /\ Go("streak")
  /\ UNCHANGED <<policy, uat, check, late, dir, hub, running, faults>>

Counted == job.m \in kv.counted

(* _post_merge_streak, one transaction. *)
Streak ==
  /\ job.at = "streak"
  /\ kv' =
       IF Counted THEN kv
       ELSE LET count == IF kv.streak.key = Key THEN kv.streak.count + 1 ELSE 1
                trips == count >= policy.pause /\ ~kv.paused
            IN [kv EXCEPT !.counted = @ \cup {job.m}, !.streak = [count |-> count, key |-> Key],
                          !.paused = @ \/ trips, !.alert = IF trips THEN "pending" ELSE @]
  /\ Go("revert")
  /\ UNCHANGED <<policy, uat, check, late, dir, hub, running, faults>>

(* The pull request to revert is read from the uat row of the issue. *)
Suspect(m) == uat[Issue[m]]

(* console/revert.py, asked for by remediation: what is on record is adopted, *)
(* and so is what a marker finds; a lookup that fails counts as nothing found.*)
Revert ==
  /\ job.at = "revert"
  /\ LET pr == Suspect(job.m)
         Filed == \E k \in DOMAIN hub.reverts : hub.reverts[k] = pr
         NewRevert == hub' = [hub EXCEPT !.reverts = Append(@, pr)]
     IN IF ~policy.revert \/ pr \in kv.revert THEN Go("done") /\ UNCHANGED <<hub, kv>> /\ NoFault
        ELSE \/ /\ IF Filed THEN UNCHANGED hub ELSE NewRevert
                /\ \/ kv' = [kv EXCEPT !.revert = @ \cup {pr}] /\ Go("done") /\ NoFault
                   \/ UNCHANGED kv /\ Done /\ Fault
             \/ /\ Filed /\ NewRevert /\ Fault
                /\ kv' = [kv EXCEPT !.revert = @ \cup {pr}] /\ Go("done")
  /\ UNCHANGED <<policy, uat, check, late, dir, running>>

Remediated ==
  /\ job.at = "done" /\ Done
  /\ kv' = [kv EXCEPT !.rem = @ \cup {job.m}]
  /\ UNCHANGED <<policy, uat, check, late, dir, hub, running, faults>>

(* The tick dies, or a call of the step it is at fails. *)
Crash ==
  /\ job.at # "idle" /\ Fault /\ Done
  /\ UNCHANGED <<policy, uat, check, late, dir, kv, hub, running>>

------------------------------------------------------------------------------
(* The pause.                                                                 *)

Overdue == {m \in Merges : Pending(m) /\ m \in late}

(* One transaction: settled rows fail without a bug, a count or a revert.     *)
resume ==
  /\ kv.paused
  /\ kv' = [kv EXCEPT !.paused = FALSE, !.alert = "none", !.streak = NoStreak,
                      !.rem = @ \cup Overdue]
  /\ check' = [m \in Merges |-> IF m \in Overdue
                                THEN [check[m] EXCEPT !.status = "FAIL", !.cause = "paused_expired"]
                                ELSE check[m]]

ManualResume ==
  /\ resume
  /\ UNCHANGED <<policy, uat, late, dir, hub, running, job, faults>>

(* _reprobe asks for the newest pending check; other strategies wait for the  *)
(* CLI.                                                                       *)
Reprobe ==
  /\ job.at = "idle" /\ policy.live # "command"
  /\ \E m \in Merges :
       /\ Pending(m) /\ \A other \in Merges : other > m => ~Pending(other)
       /\ running = m
  /\ resume
  /\ UNCHANGED <<policy, uat, late, dir, hub, running, job, faults>>

(* deliver_post_merge_pause_alert, retried until it is accepted. *)
Alert ==
  /\ job.at = "idle" /\ kv.paused /\ kv.alert = "pending"
  /\ kv' = [kv EXCEPT !.alert = "sent"]
  /\ UNCHANGED <<policy, uat, check, late, dir, hub, running, job, faults>>

Remediate == Find \/ File \/ Note \/ Save \/ RecordOpen \/ Streak \/ Revert \/ Remediated
Advance == Timeout \/ Watch \/ Observe \/ Prove \/ Launch \/ SmokeDisabled \/ Poll \/ Deliver
Tick == Row \/ Advance \/ Remediate

Next ==
  \/ \E m \in Merges :
       Ships(m) \/ Deployed(m) \/ DeadlinePasses(m) \/ WorkerEnds(m) \/ RegisterAgain(m) \/ TakesRow(m)
  \/ \E bug \in Bugs : OwnerCloses(bug)
  \/ Tick \/ Crash \/ ManualResume \/ Reprobe \/ Alert

(* Ticks go on, each pass runs on or dies, and takes every row in its turn.   *)
Fairness ==
  /\ WF_vars(Tick) /\ WF_vars(Alert)
  /\ \A m \in Merges : SF_vars(TakesRow(m)) /\ WF_vars(DeadlinePasses(m))

Spec == Init /\ [][Next]_vars /\ Fairness

------------------------------------------------------------------------------
(* Properties.                                                                *)

(* One failed merge has one bug of its own at most, whatever dies between its *)
(* creation and the ledger's record of it (issue_by_marker is asked first).   *)
OneBugPerMerge ==
  \A b, c \in Bugs : hub.bugs[b].merge = hub.bugs[c].merge => b = c

(* Each failed check counts towards the pause once, retries of its            *)
(* remediation included.                                                      *)
CountedOnce == kv.streak.count <= Cardinality(kv.counted)

(* The smoke evidence of a merge is posted at most once.                      *)
EvidenceOnce == \A m \in Merges : hub.evidence[m] <= 1

(* Once over crashes, retries and superseded checks.                          *)
ReportedOnce == OneBugPerMerge /\ CountedOnce /\ EvidenceOnce

(* Every check ends, and every failure is reported, unless the project is     *)
(* paused meanwhile: over and over nothing is left to do.                     *)
FailuresReported ==
  []<>(kv.paused \/ \A m \in Merges : check[m].status \in {"none", "PASS"} \/ m \in kv.rem)
=============================================================================
