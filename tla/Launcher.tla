------------------------------ MODULE Launcher -------------------------------
(* launcher/mahler-launcher, the script launchd runs every minute, with the     *)
(* part of launch_health.py that tells it to go back: it runs a tick of the     *)
(* version checked out, blesses it or counts the failure, rolls back, and       *)
(* updates to main once that is tested. What it knows lies in small files,      *)
(* written one by one, and it can be cut off between any two.                   *)
EXTENDS Naturals

CONSTANTS Versions, \* commits of main, in their order: 1..n
          Kinds,    \* what versions may be like: tick, launch runs, green in CI, pass the tests here
          MaxUpsets \* bound: cut-offs, failed calls, locks found taken, outages

ASSUME LauncherAssumption == 1 \in Versions /\ Versions \subseteq Nat

VARIABLES kind, main,  \* each version's; the newest on origin/main
  head,                \* the version checked out in the app's clone
  known_good, launch_ok, bad_sha, tick_failures, \* the files; 0 when missing
  broken,              \* kv launch_broken: launches fail, whatever the project
  outage,              \* launches fail for a reason outside the version
  step,                \* the script: what it does next, and the versions it has in hand
  left,                \* what remains of MaxUpsets
  tested, excused,     \* history: what passed its tests here; what was being tested when
                       \* the script was cut off, or could not be taken out again
  unearned             \* history: what was blessed without a tick

files == <<known_good, launch_ok, bad_sha, tick_failures>>
history == <<tested, excused, unearned>>
launcherVars == <<kind, main, head, files, broken, outage, step, left, history>>

Whole == [ticks |-> TRUE, launches |-> TRUE, green |-> TRUE, passes |-> TRUE]
Do(what) == [do |-> what, rc |-> 0, from |-> 0, to |-> 0]
Idle == Do("tick")
Upset == left > 0 /\ left' = left - 1

LauncherInit ==
  /\ kind \in [Versions -> Kinds] /\ kind[1] = Whole /\ main = 1 /\ head = 1
  /\ known_good = 0 /\ launch_ok = 0 /\ bad_sha = 0 /\ tick_failures = 0
  /\ broken = FALSE /\ outage = FALSE /\ step = Idle /\ left = MaxUpsets
  /\ tested = {1} /\ excused = {} /\ unearned = {}

------------------------------------------------------------------------------
(* launch_health.py, within a tick.                                           *)
CanLaunch == kind[head].launches /\ ~outage
(* a run starts: _record_launch_ok and the breaker's end *)
succeeded == CanLaunch /\ launch_ok' = head /\ broken' = FALSE
(* none is tried, or one fails, and then the breaker may trip *)
failed == ~CanLaunch /\ broken' \in {broken, TRUE} /\ UNCHANGED launch_ok
NoLaunch == UNCHANGED <<launch_ok, broken>>
tick_exit_code == IF broken' /\ launch_ok' \notin {0, head} THEN 3 ELSE 0

Ends(rc) == step' = [Do(IF rc = 0 THEN "bless" ELSE "count") EXCEPT !.rc = rc]
Ticks ==
  /\ step.do = "tick" /\ kind[head].ticks
  /\ succeeded \/ failed \/ NoLaunch
  /\ Ends(tick_exit_code)
  /\ UNCHANGED <<kind, main, head, known_good, bad_sha, tick_failures, outage, left, history>>
Crashes == /\ step.do = "tick" /\ ~kind[head].ticks /\ Ends(1)
           /\ UNCHANGED <<kind, main, head, files, broken, outage, left, history>>
(* another process has the tick's lock: nothing runs, and the exit code is 0 *)
LockTaken ==
  /\ step.do = "tick" /\ Upset /\ Ends(0)
  /\ unearned' = unearned \cup {head}
  /\ UNCHANGED <<kind, main, head, files, broken, outage, tested, excused>>

------------------------------------------------------------------------------
(* The script after the tick.                                                 *)
Blesses == /\ step.do = "bless" /\ step' = Do("reset") /\ known_good' = head
           /\ UNCHANGED <<kind, main, head, launch_ok, bad_sha, tick_failures, broken, outage, left,
                          history>>
Resets == /\ step.do = "reset" /\ tick_failures' = 0 /\ step' = Do("fetch")
          /\ UNCHANGED <<kind, main, head, known_good, launch_ok, bad_sha, broken, outage, left,
                         history>>

Least(a, b) == IF a < b THEN a ELSE b
Counts ==
  /\ step.do = "count" /\ tick_failures' = Least(tick_failures + 1, 2)
  /\ LET good == IF step.rc = 3 THEN launch_ok ELSE known_good
         n == IF step.rc = 3 THEN 2 ELSE tick_failures + 1
     IN step' = IF n >= 2 /\ good \notin {0, head}
                THEN [Do("roll") EXCEPT !.from = head, !.to = good] ELSE Idle
  /\ UNCHANGED <<kind, main, head, known_good, launch_ok, bad_sha, broken, outage, left, history>>
RollsBack == /\ step.do = "roll" /\ head' = step.to /\ step' = [step EXCEPT !.do = "mark"]
             /\ UNCHANGED <<kind, main, files, broken, outage, left, history>>
Marks == /\ step.do = "mark" /\ bad_sha' = step.from /\ step' = Do("zero")
         /\ UNCHANGED <<kind, main, head, known_good, launch_ok, tick_failures, broken, outage,
                        left,
                        history>>
Zeroes == /\ step.do = "zero" /\ tick_failures' = 0 /\ step' = Idle
          /\ UNCHANGED <<kind, main, head, known_good, launch_ok, bad_sha, broken, outage, left,
                         history>>

Excluded(new) == new \in {head, bad_sha}

Fetches ==
  /\ step.do = "fetch"
  /\ step' = IF Excluded(main) THEN Idle ELSE [Do("update") EXCEPT !.from = head, !.to = main]
  /\ UNCHANGED <<kind, main, head, files, broken, outage, left, history>>
(* While CI is pending, or gives no answer, the script is as good as cut off *)
ChecksRed == /\ step.do = "update" /\ ~kind[step.to].green /\ step' = Idle
             /\ UNCHANGED <<kind, main, head, files, broken, outage, left, history>>
Updates == /\ step.do = "update" /\ kind[step.to].green /\ head' = step.to /\ step' = [step EXCEPT !.do = "test"]
           /\ UNCHANGED <<kind, main, files, broken, outage, left, history>>
Accepts == /\ step.do = "test" /\ kind[head].passes /\ step' = Idle
           /\ tested' = tested \cup {head}
           /\ UNCHANGED <<kind, main, head, files, broken, outage, left, excused, unearned>>

(* Mutant: a version that fails its tests is left checked out.                *)
Rejects_Stays ==
  /\ step.do = "test" /\ ~kind[head].passes /\ step' = Idle
  /\ UNCHANGED <<kind, main, head, files, broken, outage, left, history>>

Rejects == /\ step.do = "test" /\ ~kind[head].passes /\ head' = step.from /\ step' = Idle
           /\ UNCHANGED <<kind, main, files, broken, outage, left, history>>

(* The script is cut off, or git or GitHub fails it: either leaves the rest      *)
(* undone.                                                                    *)
CutOff ==
  /\ step # Idle /\ Upset /\ step' = Idle
  /\ excused' = IF step.do = "test" THEN excused \cup {head} ELSE excused
  /\ UNCHANGED <<kind, main, head, files, broken, outage, tested, unearned>>
Outage == /\ step = Idle /\ Upset /\ ~outage /\ outage' = TRUE
          /\ UNCHANGED <<kind, main, head, files, broken, step, history>>
OutageEnds == /\ step = Idle /\ outage /\ outage' = FALSE
              /\ UNCHANGED <<kind, main, head, files, broken, step, left, history>>
Pushes == /\ step = Idle /\ main + 1 \in Versions /\ main' = main + 1
          /\ UNCHANGED <<kind, head, files, broken, outage, step, left, history>>

TickScript == \/ Ticks \/ Crashes \/ Blesses \/ Resets \/ Counts \/ RollsBack \/ Marks \/ Zeroes
              \/ Fetches \/ ChecksRed \/ Updates \/ Accepts \/ Rejects
LauncherNext == \/ TickScript \/ LockTaken \/ CutOff \/ Outage \/ OutageEnds \/ Pushes

(* launchd starts the script again and again; CI is pending only so long        *)
(* (MaxUpsets).                                                               *)
LauncherFairness == WF_launcherVars(TickScript)
LauncherSpec == LauncherInit /\ [][LauncherNext]_launcherVars /\ LauncherFairness

------------------------------------------------------------------------------
(* Only a version that passed its tests here is ever ticked, but for one the    *)
(* script was cut off testing.                                                 *)
OnlyTestedTicks == [][step' = Idle => head' \in tested' \cup excused']_launcherVars

(* A version that cannot tick does not stay, unless a tick that never ran, for  *)
(* want of the lock, passed for a clean one.                                   *)
LeavesCrashing == []<>(kind[head].ticks \/ unearned # {})

(* What is pushed arrives, unless CI or its tests stop it, or it was the last    *)
(* one rolled back.                                                            *)
UpdatesArrive ==
  []<>(\/ head = main \/ bad_sha = main \/ unearned # {}
       \/ ~kind[main].green \/ ~kind[main].passes)

(* The three together. *)
UpdatesAreSafe == OnlyTestedTicks /\ LeavesCrashing /\ UpdatesArrive
==============================================================================
