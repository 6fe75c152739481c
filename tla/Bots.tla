--------------------------------- MODULE Bots ---------------------------------
(* Dependency pull requests of Dependabot and Renovate (ship.py): a low-risk    *)
(* one is merged at the head that was read, one request at a time and a few a   *)
(* day; a major or unclear one gets one issue; a stale one is asked to rebase   *)
(* once per head. The bot, CI, the base branch and GitHub move between any two  *)
(* calls, and the process may die there.                                        *)
EXTENDS Integers, FiniteSets

CONSTANTS Prs,           \* numbers of the bots' pull requests
          Tables,        \* the update tables a bot may write: sets of rows
          Opening,       \* the table each PR is opened with: a function on Prs
          DailyCap,      \* dependency_prs_daily_cap
          VerifyTimeout, \* verify_timeout_minutes, in clock ticks
          RebaseTimeout, \* DEPENDENCY_REBASE_TIMEOUT_MINUTES
          MaxDay, MaxNews \* bounds: days, and moves of the environment

BotsAssumption ==
  /\ Prs \subseteq Nat \ {0} /\ Opening \in [Prs -> Tables]
  /\ DailyCap \in Nat /\ VerifyTimeout \in Nat /\ RebaseTimeout \in Nat /\ MaxNews \in Nat

None == [pr |-> 0]
NoTable == {}

------------------------------------------------------------------------------
(* What an update is. A row is a package with its versions <<major, minor,      *)
(* patch>>, or << >> where the text gives no comparable version; an action is   *)
(* pinned by revision.                                                          *)

Older(a, b) == \E i \in 1..3 : a[i] < b[i] /\ \A j \in 1..(i - 1) : a[j] = b[j]
_version_pair(row) == row.old # << >> /\ row.new # << >>
RowKind(row) ==
  IF row.action THEN "github-actions"
  ELSE IF row.old[1] # row.new[1] THEN "major"
  ELSE IF row.old[2] # row.new[2] THEN "minor" ELSE "patch"
(* a row that does not move forward is skipped in a group and unclear alone *)
Counted(table) == {r \in table : r.action \/ Older(r.old, r.new)}
_dependency_update(table) ==
  IF \E r \in table : ~r.action /\ ~_version_pair(r) THEN "unclear"
  ELSE LET kinds == {RowKind(r) : r \in Counted(table)}
       IN  IF kinds = {} THEN "unclear"
           ELSE CHOOSE k \in kinds :
                  \/ k = "major"
                  \/ k = "minor" /\ "major" \notin kinds
                  \/ k = "patch" /\ kinds \cap {"major", "minor"} = {}
                  \/ kinds = {"github-actions"}
LowRisk(table) == _dependency_update(table) \in {"minor", "patch", "github-actions"}

------------------------------------------------------------------------------
VARIABLES
  prs,       \* [Prs -> [state, head, table, red, based]] on GitHub
  queue,     \* merge requests GitHub holds: [pr, sha]
  day,
  pending,   \* dependency-pending: [pr, sha, age]
  rebase,    \* dependency-rebase by PR: the record of its newest asked head
  issueKey,  \* dependency-issue: an issue is known for the PR
  identity,  \* dependency-identity: the table that issue is for
  item,      \* state of the item that tracks the issue
  closedKey, \* dependency-closed
  adopted,   \* dependency_adopted events: [pr, day]
  busy,      \* verifying items, a merge this tick, or full capacity
  pc, pr, view, \* the pass: where it is, the PR it handles, what it read
  left,      \* PRs this pass still looks at
  filed, asked, \* history: issues filed by PR; rebase requests by PR and head
  news

vars == <<prs, queue, day, pending, rebase, issueKey, identity, item, closedKey, adopted,
          busy, pc, pr, view, left, filed, asked, news>>
github == <<prs, queue>>
ledger == <<pending, rebase, issueKey, identity, closedKey, adopted>>

NewPr(t) == [state |-> "OPEN", head |-> 1, table |-> t, red |-> FALSE, based |-> TRUE, day |-> 0]
NoRebase == [sha |-> 0, age |-> 0, outcome |-> "none"]
Init ==
  /\ prs = [n \in Prs |-> NewPr(Opening[n])] /\ queue = {} /\ day = 1
  /\ pending = None /\ rebase = [n \in Prs |-> NoRebase]
  /\ issueKey = [n \in Prs |-> FALSE] /\ identity = [n \in Prs |-> NoTable]
  /\ item = [n \in Prs |-> "none"] /\ closedKey = [n \in Prs |-> FALSE] /\ adopted = {}
  /\ busy = FALSE /\ pc = "idle" /\ pr = 0 /\ view = NewPr(NoTable) /\ left = {}
  /\ filed = [n \in Prs |-> 0] /\ asked = [n \in Prs |-> [h \in 1..(MaxNews + 1) |-> 0]]
  /\ news = 0

Goto(where) == pc' = where
Forget == pr' = 0 /\ view' = NewPr(NoTable) /\ left' = {}

------------------------------------------------------------------------------
(* _dependency_prs *)

(* _dependency_rebase_waits, then the outstanding request *)
Waited(n) ==
  IF rebase[n].outcome \in {"none", "resolved", "alerted"} THEN rebase[n]
  ELSE IF prs[n].state # "OPEN" \/ prs[n].head # rebase[n].sha
  THEN [rebase[n] EXCEPT !.outcome = "resolved"]
  ELSE IF rebase[n].age >= RebaseTimeout THEN [rebase[n] EXCEPT !.outcome = "alerted"]
  ELSE rebase[n]
_dependency_rebase_waits ==
  /\ pc = "idle" /\ Goto("pending") /\ left' = {n \in Prs : prs[n].state = "OPEN"}
  /\ rebase' = [n \in Prs |-> Waited(n)]
  /\ UNCHANGED <<github, day, pending, issueKey, identity, item, closedKey, adopted, busy, pr,
                 view, filed, asked, news>>

Landed(p) == prs[p.pr].state = "MERGED" /\ prs[p.pr].head = p.sha
Dropped(p) == prs[p.pr].state = "CLOSED" \/ prs[p.pr].head # p.sha

(* Mutant: an outstanding request is waited for as long as it takes.          *)
Retryable_Never(p) == FALSE

Retryable(p) == prs[p.pr].state = "OPEN" /\ p.age > VerifyTimeout
(* what becomes of the outstanding request, and where the pass goes next *)
ResolvePending ==
  /\ adopted' = IF Landed(pending) /\ \A a \in adopted : a.pr # pending.pr
                THEN adopted \cup {[pr |-> pending.pr, day |-> prs[pending.pr].day]} ELSE adopted
  /\ pending' = IF Landed(pending) \/ Dropped(pending) \/ Retryable(pending) THEN None ELSE pending
CheckPending ==
  /\ pc = "pending"
  /\ IF pending = None THEN UNCHANGED <<adopted, pending>> ELSE ResolvePending
  /\ Goto(IF pending # None /\ (pending' # None \/ prs[pending.pr].state # "OPEN") THEN "close"
          ELSE IF busy THEN "close" ELSE "next")
  /\ UNCHANGED <<github, day, rebase, issueKey, identity, item, closedKey, busy, pr, view, left,
                 filed, asked, news>>

(* the next open PR is viewed, with its required checks *)
Next_pr ==
  /\ pc = "next" /\ left # {}
  /\ \E n \in left :
       /\ \A m \in left : n <= m
       /\ pr' = n /\ left' = left \ {n} /\ view' = prs[n]
  /\ Goto("judge")
  /\ UNCHANGED <<github, day, ledger, item, busy, filed, asked, news>>
NoneLeft == /\ pc = "next" /\ left = {} /\ Goto("close") /\ Forget
            /\ UNCHANGED <<github, day, ledger, item, busy, filed, asked, news>>

NeedsIssue(v) ==
  \/ _dependency_update(v.table) = "major"
  \/ _dependency_update(v.table) = "github-actions" /\ v.red
Unclear(v) == _dependency_update(v.table) = "unclear"
_dependency_ready(v) == v.state = "OPEN" /\ ~v.red

(* Mutant: the cap counts the adoptions of the PR at hand.                    *)
AdoptedToday_OfPr == Cardinality({a \in adopted : a.day = day /\ a.pr = pr})

AdoptedToday == Cardinality({a \in adopted : a.day = day})

(* an issue is known: it stands for this update, or the bot rewrote the PR *)
Suppressed == issueKey[pr] /\ identity[pr] = view.table
FromBefore == issueKey[pr] /\ identity[pr] = NoTable /\ NeedsIssue(view)
judge ==
  /\ pc = "judge"
  /\ identity' = IF FromBefore /\ ~Unclear(view) THEN [identity EXCEPT ![pr] = view.table] ELSE identity
  /\ issueKey' = IF Unclear(view) \/ Suppressed \/ FromBefore \/ view.state # "OPEN" THEN issueKey
                 ELSE [issueKey EXCEPT ![pr] = FALSE]
  /\ Goto(CASE Unclear(view) -> IF view.state = "OPEN" /\ ~issueKey[pr] THEN "issue" ELSE "next"
            [] view.state # "OPEN" \/ Suppressed \/ FromBefore -> "next"
            [] NeedsIssue(view) -> "issue"
            [] OTHER -> IF AdoptedToday >= DailyCap \/ ~_dependency_ready(view) THEN "next" ELSE "fresh")
  /\ UNCHANGED <<github, day, pending, rebase, item, closedKey, adopted, busy, pr, view, left,
                 filed, asked, news>>

(* the issue is looked up by its marker, which an earlier pass may have written *)
issue_by_marker == filed[pr] > 0
FileIssue ==
  /\ pc = "issue" /\ Goto("key")
  /\ filed' = IF issue_by_marker THEN filed ELSE [filed EXCEPT ![pr] = @ + 1]
  /\ item' = IF item[pr] = "none" THEN [item EXCEPT ![pr] = "open"] ELSE item
  /\ UNCHANGED <<github, day, ledger, busy, pr, view, left, asked, news>>
KeyIssue ==
  /\ pc = "key" /\ Goto("next")
  /\ issueKey' = [issueKey EXCEPT ![pr] = TRUE]
  /\ identity' = IF Unclear(view) THEN identity ELSE [identity EXCEPT ![pr] = view.table]
  /\ UNCHANGED <<github, day, pending, rebase, item, closedKey, adopted, busy, pr, view, left,
                 filed, asked, news>>

(* the PR is read again and must be the one that was judged; its head must      *)
(* contain the tip of the base                                                  *)
fresh ==
  /\ pc = "fresh" /\ view' = prs[pr]
  /\ LET same == _dependency_ready(prs[pr]) /\ prs[pr].table = view.table /\ prs[pr].head = view.head
     IN  Goto(IF ~same THEN "next" ELSE IF prs[pr].based THEN "reserve" ELSE "rebase")
  /\ UNCHANGED <<github, day, ledger, item, busy, pr, left, filed, asked, news>>

(* the intent is written before the bot is asked, and kept whatever comes back *)
_request_dependency_rebase ==
  /\ pc = "rebase"
  /\ IF rebase[pr].sha = view.head THEN Goto("next") /\ UNCHANGED rebase
     ELSE /\ Goto("ask")
          /\ rebase' = [rebase EXCEPT ![pr] = [sha |-> view.head, age |-> 0, outcome |-> "uncertain"]]
  /\ UNCHANGED <<github, day, pending, issueKey, identity, item, closedKey, adopted, busy, pr,
                 view, left, filed, asked, news>>
AskBot ==
  /\ pc = "ask" /\ Goto("asked")
  /\ asked' = [asked EXCEPT ![pr][view.head] = @ + 1]
  /\ UNCHANGED <<github, day, ledger, item, busy, pr, view, left, filed, news>>
NoteAsked ==
  /\ pc = "asked" /\ Goto("next")
  /\ \E outcome \in {"accepted", "failed"} :
       rebase' = [rebase EXCEPT ![pr] = [sha |-> view.head, age |-> @.age, outcome |-> outcome]]
  /\ UNCHANGED <<github, day, pending, issueKey, identity, item, closedKey, adopted, busy, pr,
                 view, left, filed, asked, news>>

(* the reservation is saved before the request *)
Reserve ==
  /\ pc = "reserve" /\ Goto("merge")
  /\ pending' = [pr |-> pr, sha |-> view.head, age |-> 0]
  /\ UNCHANGED <<github, day, rebase, issueKey, identity, item, closedKey, adopted, busy, pr,
                 view, left, filed, asked, news>>

(* Mutant: the request does not name a head.                                  *)
Matches_Never(n, sha) == prs[n].state = "OPEN"

(* GitHub merges a request at once, queues it or refuses it; the head must be   *)
(* the one the request names                                                    *)
Matches(n, sha) == prs[n].state = "OPEN" /\ prs[n].head = sha
Merged(n) == [prs EXCEPT ![n].state = "MERGED", ![n].day = day]
pr_merge ==
  /\ pc = "merge"
  /\ \/ Matches(pr, view.head) /\ prs' = Merged(pr) /\ Goto("confirm") /\ UNCHANGED queue
     \/ Matches(pr, view.head) /\ queue' = queue \cup {[pr |-> pr, sha |-> view.head]}
        /\ Goto("confirm") /\ UNCHANGED prs
     \/ UNCHANGED <<prs, queue>> /\ Goto("close")
  /\ UNCHANGED <<day, ledger, item, busy, pr, view, left, filed, asked, news>>
(* the recursive call confirms a merge that happened at once *)
Confirm ==
  /\ pc = "confirm" /\ Goto("close") /\ ResolvePending
  /\ UNCHANGED <<github, day, rebase, issueKey, identity, item, closedKey, busy, pr, view, left,
                 filed, asked, news>>

(* _close_superseded_bot_prs *)
Superseded(n) == issueKey[n] /\ ~closedKey[n] /\ item[n] = "shipped"
_close_superseded_bot_prs ==
  /\ pc = "close" /\ Goto("idle")
  /\ prs' = [n \in Prs |-> IF Superseded(n) /\ prs[n].state = "OPEN"
                           THEN [prs[n] EXCEPT !.state = "CLOSED"] ELSE prs[n]]
  /\ closedKey' = [n \in Prs |-> closedKey[n] \/ Superseded(n)]
  /\ Forget
  /\ UNCHANGED <<queue, day, pending, rebase, issueKey, identity, item, adopted, busy, filed, asked,
                 news>>

Pass == \/ _dependency_rebase_waits \/ CheckPending \/ Next_pr \/ NoneLeft \/ judge
        \/ FileIssue \/ KeyIssue \/ fresh \/ _request_dependency_rebase \/ AskBot \/ NoteAsked
        \/ Reserve \/ pr_merge \/ Confirm \/ _close_superseded_bot_prs

------------------------------------------------------------------------------
(* The environment *)

News == news < MaxNews /\ news' = news + 1
QueueLands ==
  /\ \E q \in queue :
       /\ queue' = queue \ {q}
       /\ prs' = IF Matches(q.pr, q.sha) THEN Merged(q.pr) ELSE prs
  /\ UNCHANGED <<day, ledger, item, busy, pc, pr, view, left, filed, asked, news>>
QueueEjects ==
  /\ \E q \in queue : queue' = queue \ {q}
  /\ UNCHANGED <<prs, day, ledger, item, busy, pc, pr, view, left, filed, asked, news>>
(* a push gives a new head, on the current base, and may be another update *)
BotPushes ==
  /\ News
  /\ \E n \in Prs, t \in Tables :
       /\ prs[n].state = "OPEN"
       /\ prs' = [prs EXCEPT ![n] = [prs[n] EXCEPT !.head = @ + 1, !.table = t, !.red = FALSE, !.based = TRUE]]
  /\ UNCHANGED <<queue, day, ledger, item, busy, pc, pr, view, left, filed, asked>>
BaseMoves ==
  /\ News /\ prs' = [n \in Prs |-> [prs[n] EXCEPT !.based = FALSE]]
  /\ UNCHANGED <<queue, day, ledger, item, busy, pc, pr, view, left, filed, asked>>
ChecksTurnRed ==
  /\ News /\ \E n \in Prs : prs[n].state = "OPEN" /\ prs' = [prs EXCEPT ![n].red = TRUE]
  /\ UNCHANGED <<queue, day, ledger, item, busy, pc, pr, view, left, filed, asked>>
OwnerCloses ==
  /\ News /\ \E n \in Prs : prs[n].state = "OPEN" /\ prs' = [prs EXCEPT ![n].state = "CLOSED"]
  /\ UNCHANGED <<queue, day, ledger, item, busy, pc, pr, view, left, filed, asked>>
ItemShips ==
  /\ \E n \in Prs : item[n] = "open" /\ item' = [item EXCEPT ![n] = "shipped"]
  /\ UNCHANGED <<github, day, ledger, busy, pc, pr, view, left, filed, asked, news>>
OtherWork ==
  /\ News /\ busy' = ~busy
  /\ UNCHANGED <<github, day, ledger, item, pc, pr, view, left, filed, asked>>
Aged(age, limit) == IF age > limit THEN age ELSE age + 1
Clock ==
  /\ pending' = IF pending = None THEN None ELSE [pending EXCEPT !.age = Aged(@, VerifyTimeout)]
  /\ rebase' = [n \in Prs |-> [rebase[n] EXCEPT !.age =
                  IF rebase[n].outcome \in {"uncertain", "accepted", "failed"}
                  THEN Aged(@, RebaseTimeout) ELSE 0]]
  /\ day' \in {day, IF day < MaxDay THEN day + 1 ELSE day}
  /\ UNCHANGED <<github, issueKey, identity, item, closedKey, adopted, busy, pc, pr, view, left,
                 filed, asked, news>>
(* the process dies, or a call of GitHub fails and ends the pass *)
Crash ==
  /\ News /\ pc # "idle" /\ Goto("idle") /\ Forget
  /\ UNCHANGED <<github, day, ledger, item, busy, filed, asked>>

Next == \/ Pass \/ QueueLands \/ QueueEjects \/ BotPushes \/ BaseMoves \/ ChecksTurnRed
        \/ OwnerCloses \/ ItemShips \/ OtherWork \/ Clock \/ Crash
(* the scheduler runs the pass at every tick and time goes by *)
Fairness == WF_vars(Pass) /\ WF_vars(Clock)
Spec == Init /\ [][Next]_vars /\ Fairness

------------------------------------------------------------------------------
(* Whatever the bot pushes between the reads and the request, or while the      *)
(* request waits in GitHub's queue, only a low-risk update gets merged          *)
(* (pr_merge pins the head that was judged).                                    *)
MergesOnlyLowRisk ==
  [][\A n \in Prs : prs[n].state = "OPEN" /\ prs'[n].state = "MERGED" => LowRisk(prs[n].table)]_vars

(* dependency_prs_daily_cap bounds the adoptions dated any one day, also when   *)
(* a request made on one day lands on the next.                                 *)
WithinDailyCap == \A d \in 1..MaxDay : Cardinality({a \in adopted : a.day = d}) <= DailyCap

(* A dependency PR gets at most one issue, over crashes between filing it and   *)
(* noting it and over the bot's rewrites (the marker lookup).                   *)
OneIssuePerPr == \A n \in Prs : filed[n] <= 1

(* A bot is asked at most once to rebase a head: "never retry this head".       *)
RebaseAskedOnce == \A n \in Prs : \A h \in DOMAIN asked[n] : asked[n][h] <= 1

(* The three together: over crashes, pushes and midnight, what the conductor    *)
(* does for a bot it does once, and to as many a day as it may.                *)
BotsActOnce == WithinDailyCap /\ OneIssuePerPr /\ RebaseAskedOnce

(* An outstanding request does not reserve the project for ever: it is          *)
(* confirmed, dropped, or retried after the timeout.                            *)
PendingEnds == []<>(pending = None)
==============================================================================
