-------------------------------- MODULE CiHold --------------------------------
(* The hold a project is put under while one CI check is red for everybody     *)
(* (ci_blockers.py; ship.py refresh_ci_blocker, detect_ci_blocker, unstick):    *)
(* raised from what GitHub shows or from an agent's report, it stops builds and *)
(* fixes of every item but the one that repairs the check.                     *)
EXTENDS Naturals, FiniteSets

CONSTANTS Items,      \* the project's items
          Unfiled,    \* of these, the issues that do not exist yet
          Named,      \* of these, the ones whose title names the check
          MaxHeads,   \* bound: heads of each PR
          MaxUpsets   \* bound: breakages, bot PRs closed, reports, parks, crashes in all

VARIABLES base,   \* the check on the base branch, "red" or "green"
          item,   \* the items: state, their PR's head (0: no PR) and the check on it,
                  \* and kv blocked-deps
          bot,    \* a bot's pull request that would repair the check
          hold,   \* kv ci_blocker
          stale,  \* kv ci_blocker_stale: heads seen red under the last hold
          pass,   \* where the ship pass stands
          left    \* what remains of MaxUpsets

vars == <<base, item, bot, hold, stale, pass, left>>

NoItem == 0
NoHold == [on |-> FALSE, number |-> NoItem, parked |-> NoItem, bot |-> FALSE,
           heads |-> [i \in Items |-> 0]]

Init ==
  /\ base = "green"
  /\ item = [i \in Items |-> [state |-> IF i \in Unfiled THEN "unfiled" ELSE "ready",
                              head |-> 0, red |-> FALSE, deps |-> {}]]
  /\ bot \in {"none", "open"}
  /\ hold = NoHold
  /\ stale = NoHold.heads
  /\ pass = "refresh"
  /\ left = MaxUpsets

Upset == left > 0 /\ left' = left - 1

Known == {i \in Items : item[i].state \notin {"unfiled", "filed"}}
In(states) == {i \in Known : item[i].state \in states}
HasPr(i) == item[i].head > 0

------------------------------------------------------------------------------
(* ci_blockers.py.                                                            *)
PARKED_STATES == {"needs_you", "failed", "parked"}
resolved(i) == item[i].state = "shipped"

pending(i) == {d \in item[i].deps : ~resolved(d)}

Blocker(h) == IF h.number # NoItem THEN h.number ELSE h.parked

(* Mutant: what was red under the hold may raise the next.                    *)
clear_hold_Forgets(h) == hold' = NoHold /\ stale' = NoHold.heads

clear_hold(h) == hold' = NoHold /\ stale' = h.heads

(* active, as it rewrites the record: a parked blocker is no exemption.        *)
Reviewed(h) ==
  IF Blocker(h) \notin Known THEN h
  ELSE IF item[Blocker(h)].state \in PARKED_STATES
       THEN [h EXCEPT !.number = NoItem, !.parked = Blocker(h)]
       ELSE [h EXCEPT !.number = Blocker(h), !.parked = NoItem]

Over(h) == Blocker(h) # NoItem /\ resolved(Blocker(h))

active == IF hold.on /\ ~Over(hold) THEN Reviewed(hold) ELSE NoHold

(* Each call of active leaves the record reviewed, or the hold cleared.        *)
Review == IF hold.on /\ ~active.on THEN clear_hold(hold) ELSE hold' = active /\ UNCHANGED stale
StaleHeads == IF hold.on /\ ~active.on THEN hold.heads ELSE stale

holds(h, i) == h.on /\ (h.number = NoItem \/ h.number # i)

------------------------------------------------------------------------------
(* The ship pass.                                                             *)
Goes(from, to) == pass = from /\ pass' = to

Repairs(i) == ~HasPr(i) \/ ~item[i].red

refresh_ci_blocker ==
  /\ Goes("refresh", "detect")
  /\ \/ ~active.on /\ Review
     \/ /\ active.on /\ (base = "green" \/ (active.bot /\ bot = "merged"))
        /\ clear_hold(active)
     \/ /\ active.on /\ base = "red" /\ (active.bot => bot # "merged")
        /\ LET fixes == {i \in In({"ready"}) \cap Named : active.parked # NoItem /\ Repairs(i)} IN
             IF fixes = {} THEN hold' = active
             ELSE \E i \in fixes : hold' = [active EXCEPT !.number = i, !.parked = NoItem]
        /\ UNCHANGED stale
  /\ UNCHANGED <<base, item, bot, left>>

(* GitHub does not answer: the record is only reviewed, and nothing detected.  *)
LookupFails ==
  /\ \/ Goes("refresh", "detect") \/ Goes("detect", "unstick")
  /\ Review
  /\ Upset
  /\ UNCHANGED <<base, item, bot>>

Open == {i \in In({"verifying"}) : HasPr(i)}
Reds == {i \in Open : item[i].red /\ StaleHeads[i] # item[i].head}

(* repo_wide_checks *)
Detected == ~active.on /\ (base = "red" \/ Cardinality(Reds) >= 2)

Candidates ==
  {i \in In({"inbox", "ready", "working", "verifying"}) : i \notin Open /\ Repairs(i)}

Raise(number, by) ==
  hold' = [on |-> TRUE, number |-> number, parked |-> NoItem, bot |-> by,
           heads |-> [i \in Items |-> IF i \in Open THEN item[i].head ELSE 0]]

(* The repair is an item that names the check, else a bot's PR, else any item  *)
(* that does not fail it, else an issue filed for it.                          *)
detect_ci_blocker ==
  /\ \/ Goes("detect", "unstick") /\ ~Detected /\ Review
     \/ /\ Goes("detect", "unstick") /\ Detected
        /\ \/ \E i \in Candidates \cap Named : Raise(i, FALSE)
           \/ Candidates \cap Named = {} /\ bot = "open" /\ Raise(NoItem, TRUE)
           \/ /\ Candidates \cap Named = {} /\ bot # "open"
              /\ \E i \in Candidates : Raise(i, FALSE)
        /\ stale' = StaleHeads
     \/ Goes("detect", "file") /\ Detected /\ Candidates = {} /\ bot # "open" /\ Review
  /\ UNCHANGED <<base, item, bot, left>>

(* create_issue, then the record; a crash may come between.  With every issue  *)
(* of the bound filed, filing fails.                                           *)
FileRepair ==
  /\ pass = "file"
  /\ \/ \E i \in Items :
          /\ item[i].state = "unfiled"
          /\ item' = [item EXCEPT ![i].state = "filed"]
          /\ \/ pass' = "unstick" /\ Raise(i, FALSE) /\ UNCHANGED left
             \/ pass' = "refresh" /\ UNCHANGED hold /\ Upset
     \/ /\ \A i \in Items : item[i].state # "unfiled"
        /\ pass' = "unstick"
        /\ UNCHANGED <<item, hold, left>>
  /\ UNCHANGED <<base, bot, stale>>

Returns(i) == [item[i] EXCEPT !.state = IF HasPr(i) THEN "verifying" ELSE "ready"]

(* A parked item that recorded what it waited for has it; the code also spares *)
(* the blocker itself, but active has by then stopped calling it the blocker.  *)
Unstuck(i) == item[i].deps # {} /\ pending(i) = {}

unstick ==
  /\ Goes("unstick", "visit")
  /\ Review
  /\ item' = [i \in Items |->
                IF i \in In({"parked"}) /\ Unstuck(i) /\ ~active.on THEN Returns(i) ELSE item[i]]
  /\ UNCHANGED <<base, bot, left>>

(* waits.recheck: _wake_ci_repo_wide; and the visits, which change an item     *)
(* that is not held.                                                          *)
Wake ==
  /\ Goes("visit", "refresh")
  /\ Review
  /\ item' = [i \in Items |->
                IF item[i].state = "waiting" /\ ~active.on THEN Returns(i) ELSE item[i]]
  /\ UNCHANGED <<base, bot, left>>

Visited(i) == pass = "visit" /\ item[i].state = "verifying" /\ HasPr(i) /\ pending(i) = {}

(* Merged: the base then has what the PR's CI has seen.                        *)
Ships(i) ==
  /\ Visited(i) /\ ~item[i].red
  /\ item' = [item EXCEPT ![i].state = "shipped"]
  /\ base' = "green"
  /\ IF hold.on /\ Blocker(hold) = i THEN clear_hold(hold)
     ELSE UNCHANGED <<hold, stale>>
  /\ UNCHANGED <<bot, pass, left>>

(* _red_ci: a fix run; at the last attempt, a wait if the base is red too or a  *)
(* hold is on, else the item has failed.                                       *)
Red(i) ==
  /\ Visited(i) /\ item[i].red /\ ~holds(active, i)
  /\ item' = [item EXCEPT ![i].state =
                IF active.on \/ base = "red" THEN "waiting" ELSE "failed"]
  /\ UNCHANGED <<base, bot, hold, stale, pass, left>>

Fixed(i) ==
  /\ Visited(i) /\ item[i].red /\ ~holds(active, i) /\ item[i].head < MaxHeads
  /\ \E red \in BOOLEAN : item' = [item EXCEPT ![i].head = @ + 1, ![i].red = red]
  /\ UNCHANGED <<base, bot, hold, stale, pass, left>>

------------------------------------------------------------------------------
(* The other passes of the tick.                                              *)
Start(i) ==
  /\ item[i].state = "ready" /\ ~holds(active, i) /\ pending(i) = {}
  /\ item' = [item EXCEPT ![i].state = "working"]
  /\ UNCHANGED <<base, bot, hold, stale, pass, left>>

Built(i) ==
  /\ item[i].state = "working" /\ item[i].head < MaxHeads
  /\ \E red \in BOOLEAN :
       item' = [item EXCEPT ![i].state = "verifying", ![i].head = @ + 1, ![i].red = red]
  /\ UNCHANGED <<base, bot, hold, stale, pass, left>>

(* BLOCKED on item d (record), said to be repo-wide or not.                    *)
Blocked(i, d) ==
  /\ item[i].state = "working" /\ d \in Known \ {i} /\ i \notin item[d].deps
  /\ item' = [item EXCEPT ![i] = [Returns(i) EXCEPT !.deps = @ \cup {d}]]
  /\ \/ UNCHANGED hold
     \/ /\ ~resolved(d)
        /\ hold' = [NoHold EXCEPT !.on = TRUE,
                      !.number = IF item[d].state \in PARKED_STATES THEN NoItem ELSE d,
                      !.parked = IF item[d].state \in PARKED_STATES THEN d ELSE NoItem]
  /\ Upset
  /\ UNCHANGED <<base, bot, stale, pass>>

Park(i) ==
  /\ item[i].state \in {"ready", "working", "verifying"}
  /\ item' = [item EXCEPT ![i].state = "parked"]
  /\ Upset
  /\ UNCHANGED <<base, bot, hold, stale, pass>>

Go(i) ==
  /\ item[i].state \in PARKED_STATES
  /\ item' = [item EXCEPT ![i] = Returns(i)]
  /\ Upset
  /\ UNCHANGED <<base, bot, hold, stale, pass>>

(* sync imports what was filed. *)
Import(i) ==
  /\ pass = "refresh" /\ item[i].state = "filed"
  /\ item' = [item EXCEPT ![i].state = "ready"]
  /\ UNCHANGED <<base, bot, hold, stale, pass, left>>

(* The base branch, and the bot's PR. *)
Breaks ==
  /\ base = "green" /\ base' = "red"
  /\ Upset
  /\ UNCHANGED <<item, bot, hold, stale, pass>>

Repaired ==
  /\ base = "red" /\ base' = "green"
  /\ UNCHANGED <<item, bot, hold, stale, pass, left>>

BotMerged ==
  /\ bot = "open" /\ bot' = "merged" /\ base' = "green"
  /\ UNCHANGED <<item, hold, stale, pass, left>>

BotClosed ==
  /\ bot = "open" /\ bot' = "closed"
  /\ Upset
  /\ UNCHANGED <<base, item, hold, stale, pass>>

Pass == refresh_ci_blocker \/ detect_ci_blocker \/ FileRepair \/ unstick \/ Wake

Next ==
  \/ Pass \/ LookupFails
  \/ \E i \in Items : Ships(i) \/ Red(i) \/ Fixed(i) \/ Start(i) \/ Built(i) \/ Park(i) \/ Go(i)
  \/ \E i \in Items : Import(i)
  \/ \E i, d \in Items : Blocked(i, d)
  \/ Breaks \/ Repaired \/ BotMerged \/ BotClosed

Spec == Init /\ [][Next]_vars

(* The ticks go on. *)
FairSpec == Spec /\ WF_vars(Pass)

(* And whatever is not held is worked on: builds start and end, and a visit     *)
(* ships or fixes what it can.                                                *)
BusySpec ==
  /\ FairSpec
  /\ \A i \in Items : WF_vars(Start(i)) /\ WF_vars(Built(i)) /\ WF_vars(Import(i))
                     /\ SF_vars(Ships(i)) /\ SF_vars(Fixed(i) \/ Red(i))

------------------------------------------------------------------------------
(* Once the base stays green nothing is left held: no hold comes back however   *)
(* many PRs are still red on their own, and no item waits for one to end        *)
(* (clear_hold: "PR heads seen red under it must not re-trigger detection").    *)
NothingStaysHeld ==
  <>[](base = "green") => <>[](~hold.on /\ \A i \in Items : item[i].state # "waiting")

(* A hold on a bot's PR ends once that PR is gone ("Clear a fact-based hold    *)
(* once its bot PR is gone or the base is green again", refresh_ci_blocker).    *)
BotGoneEndsHold == (hold.bot /\ bot = "closed") ~> ~hold.bot
==============================================================================
