-------------------------------- MODULE Waits --------------------------------
(* waits.py: an item the conductor cannot help for now is held in `waiting`,    *)
(* with a record of why, looked at again with backoff, and resumed or, after    *)
(* long enough, put to the owner. The state and the record are two writes, and  *)
(* the record knows the state it belongs to by its time of change. One item;    *)
(* the daemon does one thing at a time, sessions come between any two of them.  *)
EXTENDS Naturals, Sequences

CONSTANTS WaitCauses,  \* the causes that occur (waits.CAUSES)
          BACKOFF,     \* backoff in units, capped at its last
          MIN_DELAY,   \* least first delay of review_inconclusive
          RebuildDelay,\* first delay of review_nonconvergent
          Limit,       \* wait_escalate_hours
          MaxTime, MaxChanges, MaxCrashes \* bounds: clock, state changes, cut-off passes

WaitsAssumption ==
  /\ BACKOFF \in Seq(Nat) /\ Len(BACKOFF) > 0
  /\ MIN_DELAY \in Nat /\ RebuildDelay \in Nat /\ Limit \in Nat

VARIABLES now,
  item,    \* state, stamp and at (which change and when: state_changed_at), pr, sorted,
           \* and text: what its question or last reason says
  session, \* a session holds it
  record,  \* kv wait:<item>
  gate,    \* kv waits-migrated:<project>
  step,    \* the daemon: what it does next, and with what
  crashes,
  asked    \* history: what the newest hold asked for, and whether that is on record

waitsVars == <<now, item, session, record, gate, step, crashes, asked>>

Checked == {"capacity", "worktree_conflict", "ci_repo_wide"} \* whose wake looks for the end
Legacy == WaitCauses \cap {"capacity", "setup", "review_inconclusive", "ci_repo_wide"}
NoRecord == [cause |-> "none"]
Idle == [do |-> "idle"]

WaitsInit ==
  /\ now = 0 /\ session = FALSE /\ record = NoRecord /\ gate \in BOOLEAN
  /\ step = Idle /\ crashes = 0 /\ asked = [resume |-> "none", kept |-> FALSE]
  /\ \E s \in {"inbox", "ready", "verifying", "needs_you"}, p, q \in BOOLEAN, t \in Legacy \cup {"owner"} :
       /\ s = "inbox" => ~q
       /\ s \in {"ready", "verifying"} => q
       /\ s = "verifying" => p
       /\ p => s = "verifying" \/ (s = "needs_you" /\ q)
       /\ t # "owner" => s = "needs_you" /\ ~gate
       /\ item = [state |-> s, stamp |-> 0, at |-> 0, pr |-> p, sorted |-> q, text |-> t]

Moved(i, s) == [i EXCEPT !.state = s, !.stamp = @ + 1, !.at = now, !.text = "owner"]
(* set_state without further fields leaves an item alone that is there already *)
set_state(s) == item' = IF item.state = s THEN item ELSE Moved(item, s)
Changing == item.stamp < MaxChanges

------------------------------------------------------------------------------
(* hold.                                                                      *)
Least(a, b) == IF a < b THEN a ELSE b
Most(a, b) == IF a > b THEN a ELSE b
backoff(checks) == BACKOFF[Least(Most(checks, 1), Len(BACKOFF))]
First(cause) == Most(backoff(1), IF cause = "review_inconclusive" THEN MIN_DELAY ELSE 0)
Record(cause, resume, stamp) ==
  [cause |-> cause, resume |-> resume, since |-> now, bound |-> stamp, checks |-> 0,
   next |-> now + First(cause)]

Begin(cause, resume, then) ==
  /\ step = Idle
  /\ step' = [do |-> "hold", cause |-> cause, resume |-> resume, then |-> then]
  /\ UNCHANGED <<now, item, session, record, gate, crashes, asked>>
hold ==
  /\ step.do = "hold" /\ Changing
  /\ item' = Moved(item, "waiting") /\ step' = [step EXCEPT !.do = "record"]
  /\ asked' = [resume |-> step.resume, kept |-> FALSE]
  /\ UNCHANGED <<now, session, record, gate, crashes>>
Records ==
  /\ step.do = "record"
  /\ record' = Record(step.cause, step.resume, item.stamp)
  /\ asked' = [asked EXCEPT !.kept = TRUE]
  /\ step' = IF step.then = "idle" THEN Idle ELSE [do |-> step.then]
  /\ UNCHANGED <<now, item, session, gate, crashes>>
(* hold inside a transaction of its caller, which edits the row or the record *)
Together(row, cause, resume, next) ==
  /\ step = Idle /\ Changing
  /\ item' = Moved(row, "waiting")
  /\ record' = [Record(cause, resume, item'.stamp) EXCEPT !.next = next]
  /\ asked' = [resume |-> resume, kept |-> TRUE]
  /\ UNCHANGED <<now, session, gate, step, crashes>>

------------------------------------------------------------------------------
(* Who holds an item.                                                         *)
Queue == IF item.sorted THEN "ready" ELSE "inbox"
ShipHolds ==
  /\ item.state = "verifying" /\ ~session
  /\ \E c \in WaitCauses \cap {"ci_stalled", "capacity", "review_inconclusive", "ci_repo_wide"} :
       Begin(c, "verifying", "idle")
(* a run could not start: the second failure waits longer, in a further write *)
LaunchFails == item.state = "ready" /\ ~session /\ Begin("launch", "ready", "tune")
Tunes ==
  /\ step.do = "tune" /\ step' = Idle
  /\ \E count \in 1..2 : record' = [record EXCEPT !.checks = count - 1, !.next = now + backoff(count)]
  /\ UNCHANGED <<now, item, session, gate, crashes, asked>>
(* the branch is checked out elsewhere; the run's lease is gone by then *)
Conflicts ==
  /\ item.state \in {"ready", "verifying", "working"}
  /\ Begin("worktree_conflict", IF item.state # "working" THEN item.state
                                ELSE IF item.pr THEN "verifying" ELSE "ready", "idle")
_setup_failure ==
  /\ item.state = "working" /\ ~session
  /\ Together(item, "setup", Queue, now + backoff(1))
Rebuilds ==
  /\ item.state = "verifying" /\ item.pr /\ ~session
  /\ Together([item EXCEPT !.pr = FALSE], "review_nonconvergent", "ready", now + RebuildDelay)

(* migrate_legacy: once, what an older conductor asked the owner about goes to  *)
(* `waiting`, unless its red check is the PR's own or cannot be read; a review  *)
(* whose head cannot be read keeps the migration open.                          *)
Back == (IF item.text = "setup" \/ ~item.pr THEN {Queue} ELSE {"verifying"})
        \cup (IF item.text = "review_inconclusive" THEN {"verifying"} ELSE {}) \* a no-change claim
Migrates ==
  /\ ~gate /\ item.state = "needs_you" /\ item.text \in Legacy
  /\ item.text = "ci_repo_wide" => item.pr
  /\ \E resume \in Back : Begin(item.text, resume, "gate")
MigratesNothing ==
  /\ step = Idle /\ ~gate
  /\ item.state # "needs_you" \/ item.text \in {"owner", "ci_repo_wide"}
  /\ step' = [do |-> "gate"]
  /\ UNCHANGED <<now, item, session, record, gate, crashes, asked>>
Gates == /\ step.do = "gate" /\ step' = Idle /\ gate' = TRUE
         /\ UNCHANGED <<now, item, session, record, crashes, asked>>

------------------------------------------------------------------------------
(* recheck, from the row its list was read with.                              *)
Lists == /\ step = Idle /\ item.state = "waiting" /\ step' = [do |-> "look", row |-> item]
         /\ UNCHANGED <<now, item, session, record, gate, crashes, asked>>

(* Mutant: any record will do.                                                *)
Stale_Missing(row) == record = NoRecord
Stale(row) == record = NoRecord \/ record.bound # row.stamp

_fresh_record(row) ==
  [cause |-> "other", resume |-> "ready", since |-> row.at, bound |-> row.stamp, checks |-> 0,
   next |-> now + backoff(1)]
_recheck_item ==
  /\ step.do = "look"
  /\ record' = IF Stale(step.row) THEN _fresh_record(step.row) ELSE record
  /\ step' = IF now - record'.since >= Limit THEN [step EXCEPT !.do = "ask"]
             ELSE IF now < record'.next THEN Idle ELSE [step EXCEPT !.do = "wake"]
  /\ UNCHANGED <<now, item, session, gate, crashes, asked>>
_backstop ==
  /\ step.do = "ask" /\ Changing
  /\ item' = Moved(item, "needs_you") /\ step' = [do |-> "clear"]
  /\ UNCHANGED <<now, session, record, gate, crashes, asked>>
WakeMet == /\ step.do = "wake" /\ step' = [step EXCEPT !.do = "resume"]
           /\ UNCHANGED <<now, item, session, record, gate, crashes, asked>>
WakeUnmet ==
  /\ step.do = "wake" /\ record.cause \in Checked /\ step' = Idle
  /\ LET checks == record.checks + 1
     IN record' = [record EXCEPT !.checks = checks, !.next = now + backoff(checks + 1)]
  /\ UNCHANGED <<now, item, session, gate, crashes, asked>>
WakeRaises == /\ step.do = "wake" /\ record.cause = "capacity" /\ step' = Idle
              /\ UNCHANGED <<now, item, session, record, gate, crashes, asked>>
Resumes == /\ step.do = "resume" /\ Changing /\ set_state(record.resume)
           /\ step' = [do |-> "clear"]
           /\ UNCHANGED <<now, session, record, gate, crashes, asked>>
clear == /\ step.do = "clear" /\ step' = Idle
         /\ record' = NoRecord /\ asked' = [asked EXCEPT !.kept = FALSE]
         /\ UNCHANGED <<now, item, session, gate, crashes>>

------------------------------------------------------------------------------
(* The owner, through sync: go clears before it moves, park moves first.       *)
resume_item ==
  /\ step = Idle /\ item.state \in {"waiting", "needs_you", "parked"}
  /\ record' = NoRecord /\ asked' = [asked EXCEPT !.kept = FALSE] /\ step' = [do |-> "go"]
  /\ UNCHANGED <<now, item, session, gate, crashes>>
Goes == /\ step.do = "go" /\ Changing /\ step' = Idle
        /\ item' = [Moved(item, IF item.pr THEN "verifying" ELSE "ready") EXCEPT !.sorted = TRUE]
        /\ UNCHANGED <<now, session, record, gate, crashes, asked>>
Parks == /\ step = Idle /\ Changing /\ set_state("parked") /\ step' = [do |-> "clear"]
         /\ UNCHANGED <<now, session, record, gate, crashes, asked>>
Answers == /\ step = Idle /\ Changing /\ item.state = "needs_you"
           /\ item' = [Moved(item, "inbox") EXCEPT !.sorted = FALSE]
           /\ UNCHANGED <<now, session, record, gate, step, crashes, asked>>

(* Sessions, beside the daemon; the claim's two writes are taken together.     *)
SessionClaims == /\ ~session /\ Changing /\ session' = TRUE /\ set_state("working")
                 /\ UNCHANGED <<now, record, gate, step, crashes, asked>>
SessionReleases == /\ session /\ Changing /\ session' = FALSE /\ set_state("ready")
                   /\ UNCHANGED <<now, record, gate, step, crashes, asked>>
SessionShips ==
  /\ session /\ Changing /\ session' = FALSE
  /\ item' = [(IF item.state = "verifying" THEN item ELSE Moved(item, "verifying")) EXCEPT !.pr = TRUE]
  /\ UNCHANGED <<now, record, gate, step, crashes, asked>>

(* The item's ordinary way: sorted, built, delivered.                          *)
Sorted == /\ step = Idle /\ Changing /\ ~session /\ item.state = "inbox"
          /\ item' = [Moved(item, "ready") EXCEPT !.sorted = TRUE]
          /\ UNCHANGED <<now, session, record, gate, step, crashes, asked>>
Starts == /\ step = Idle /\ Changing /\ ~session /\ item.state = "ready" /\ set_state("working")
          /\ UNCHANGED <<now, session, record, gate, step, crashes, asked>>
Delivers == /\ step = Idle /\ Changing /\ ~session /\ item.state = "working"
            /\ item' = [Moved(item, "verifying") EXCEPT !.pr = TRUE]
            /\ UNCHANGED <<now, session, record, gate, step, crashes, asked>>

PassDies == /\ step # Idle /\ crashes < MaxCrashes /\ crashes' = crashes + 1 /\ step' = Idle
         /\ UNCHANGED <<now, item, session, record, gate, asked>>
(* a handler is short: time passes between them *)
Clock == /\ step = Idle /\ now < MaxTime /\ now' = now + 1
         /\ UNCHANGED <<item, session, record, gate, step, crashes, asked>>

WaitsNext ==
  \/ ShipHolds \/ LaunchFails \/ Conflicts \/ _setup_failure \/ Rebuilds
  \/ hold \/ Records \/ Tunes \/ Migrates \/ MigratesNothing \/ Gates
  \/ Lists \/ _recheck_item \/ _backstop \/ WakeMet \/ WakeUnmet \/ WakeRaises \/ Resumes \/ clear
  \/ resume_item \/ Goes \/ Parks \/ Answers
  \/ SessionClaims \/ SessionReleases \/ SessionShips
  \/ Sorted \/ Starts \/ Delivers \/ PassDies \/ Clock

WaitsSpec == WaitsInit /\ [][WaitsNext]_waitsVars

------------------------------------------------------------------------------
(* A wait ends where the hold that began it said, never where an older one did; *)
(* when a cut-off hold or go left no record of that, it ends in the build queue. *)
ResumedAsAsked ==
  [][step.do = "resume" /\ step'.do = "clear" =>
       item'.state = IF asked.kept THEN asked.resume ELSE "ready"]_waitsVars

(* The owner is asked about a wait at the first look after the limit, and not  *)
(* before: neither an older wait nor a lost record moves its beginning.         *)
AskedInTime ==
  [][step.do = "look" /\ step'.do \in {"ask", "wake", "idle"} /\ crashes' = crashes =>
       (step'.do = "ask" <=> now - step.row.at >= Limit)]_waitsVars

(* The two together. *)
WaitsAreTrue == ResumedAsAsked /\ AskedInTime
==============================================================================
