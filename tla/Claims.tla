-------------------------------- MODULE Claims --------------------------------
(* no_change.py: a build that ended DONE with nothing to ship claims the work   *)
(* is already on the base branch. The conductor has an independent run review   *)
(* the claim at the tip of the base and closes the issue only on its word. The  *)
(* base moves, sessions take the item over, runs end without a verdict and the  *)
(* process dies between any two steps.                                          *)
EXTENDS Integers, FiniteSets

CONSTANTS ReviewInconclusiveCap, MaxNews  \* bound: moves of the environment

ClaimsAssumption == ReviewInconclusiveCap \in Nat /\ MaxNews \in Nat

VARIABLES tip,           \* the tip of the base branch
          claimed,       \* the item's state
          holder, epoch, issue,
          entry,         \* the no_change record of the item
          reviewer,      \* the live review run: [id, base, claim, epoch], id 0 for none
          runs, claims,  \* ids given out
          pc, sha, mine, \* advance: its step, the base it fetched, its lease's epoch
          reviews,       \* history: verdicts given, [run, claim, base, pass]
          comments,      \* review comments on the issue: [claim, run, copy]
          news

claimsVars == <<tip, claimed, holder, epoch, issue, entry, reviewer, runs, claims, pc, sha, mine,
                reviews, comments, news>>
advancing == <<pc, sha, mine>>

Unclaimed == [phase |-> "none", claim |-> 0, base |-> 0, run |-> 0, epoch |-> 0,
              verdict |-> "none", asks |-> FALSE, inconclusive |-> 0]
NoReviewer == [id |-> 0, base |-> 0, claim |-> 0, epoch |-> 0]
ClaimsInit ==
  /\ tip = 1 /\ claimed = "ready" /\ holder = "none" /\ epoch = 0 /\ issue = "OPEN"
  /\ entry = Unclaimed /\ reviewer = NoReviewer /\ runs = 0 /\ claims = 0
  /\ pc = "idle" /\ sha = 0 /\ mine = 0 /\ reviews = {} /\ comments = {} /\ news = 0

News == news < MaxNews /\ news' = news + 1
_owned == holder = "conductor" /\ epoch = mine
Stop == pc' = "idle" /\ sha' = 0 /\ mine' = 0
Goto(at) == pc' = at /\ UNCHANGED <<sha, mine>>
Release == holder' = "none" /\ UNCHANGED epoch

------------------------------------------------------------------------------
(* begin: the build's DONE leaves a record bound to that run, on the base it    *)
(* worked from                                                                  *)
begin ==
  /\ claimed = "ready" /\ holder = "none" /\ News
  /\ claims' = claims + 1 /\ claimed' = "verifying"
  /\ \E b \in {tip, tip - 1} \ {0} :
       entry' = [Unclaimed EXCEPT !.phase = "waiting", !.claim = claims + 1, !.base = b]
  /\ UNCHANGED <<tip, holder, epoch, issue, reviewer, runs, advancing, reviews, comments>>

(* advance: only while no run of the item is live, under the conductor's lease; *)
(* a session that holds the item gets it                                        *)
Settled == {"rejected", "owner", "done", "exhausted", "none"}
Take ==
  /\ pc = "idle" /\ claimed = "verifying" /\ entry.phase \notin Settled /\ reviewer.id = 0
  /\ holder \in {"none", "conductor"}
  /\ holder' = "conductor" /\ epoch' = (IF holder = "none" THEN epoch + 1 ELSE epoch)
  /\ mine' = epoch' /\ pc' = "fetch" /\ sha' = 0
  /\ UNCHANGED <<tip, claimed, issue, entry, reviewer, runs, claims, reviews, comments, news>>
HandsOver ==
  /\ pc = "idle" /\ claimed = "verifying" /\ entry.phase \notin Settled /\ holder = "session"
  /\ claimed' = "working"
  /\ UNCHANGED <<tip, holder, epoch, issue, entry, reviewer, runs, claims, advancing, reviews,
                 comments, news>>

_inconclusive(r) == [r EXCEPT !.phase = "waiting", !.inconclusive = @ + 1]
(* Mutant: a drifted base is noted, and the review goes on.                   *)
Rebased_Keeps(r, to) == [r EXCEPT !.base = to]

(* a drifted base starts the review over; a review without a live run is        *)
(* inconclusive                                                                 *)
Rebased(r, to) ==
  IF to = r.base THEN r
  ELSE [r EXCEPT !.base = to, !.phase = "waiting", !.run = 0, !.epoch = 0, !.verdict = "none",
                 !.inconclusive = 0]
Reread(to) == LET r == Rebased(entry, to) IN IF r.phase = "reviewing" THEN _inconclusive(r) ELSE r
fetched_base ==
  /\ pc = "fetch" /\ sha' = tip /\ UNCHANGED mine
  /\ IF ~_owned THEN pc' = "idle" /\ UNCHANGED entry
     ELSE /\ entry' = Reread(tip)
          /\ pc' = IF entry'.phase = "verdict" THEN IF entry'.verdict = "pass" THEN "practices" ELSE "comment"
                   ELSE IF entry'.inconclusive > ReviewInconclusiveCap THEN "exhaust" ELSE "start"
  /\ UNCHANGED <<tip, claimed, holder, epoch, issue, reviewer, runs, claims, reviews, comments,
                 news>>

(* the practices checks the issue proposes: met, a gap, or no evidence *)
Practices ==
  /\ pc = "practices"
  /\ \/ UNCHANGED entry /\ Goto("comment")
     \/ entry' = [entry EXCEPT !.verdict = "fail"] /\ Goto("comment")
     \/ (IF _owned THEN entry' = _inconclusive(entry) ELSE UNCHANGED entry) /\ Stop
  /\ UNCHANGED <<tip, claimed, holder, epoch, issue, reviewer, runs, claims, reviews, comments,
                 news>>
Posted == \E c \in comments : c.claim = entry.claim /\ c.run = entry.run
PostsComment ==
  /\ pc = "comment"
  /\ IF _owned \/ Posted THEN Goto("recheck") ELSE Stop
  /\ comments' = IF Posted \/ ~_owned THEN comments
                 ELSE comments \cup {[claim |-> entry.claim, run |-> entry.run,
                                      copy |-> Cardinality(comments)]}
  /\ UNCHANGED <<tip, claimed, holder, epoch, issue, entry, reviewer, runs, claims, reviews, news>>

(* after the slow calls: the base and the lease must be what they were *)
Recheck ==
  /\ pc = "recheck"
  /\ IF tip # sha \/ ~_owned
     THEN Stop /\ UNCHANGED <<claimed, holder, epoch, entry>>
     ELSE \/ /\ entry.verdict = "fail" /\ Stop /\ Release
             /\ entry' = [entry EXCEPT !.phase = "rejected"] /\ claimed' = "ready"
          \/ /\ entry.verdict = "pass" /\ entry.asks /\ Stop /\ Release
             /\ entry' = [entry EXCEPT !.phase = "owner"] /\ claimed' = "needs_you"
          \/ /\ entry.verdict = "pass" /\ ~entry.asks /\ Goto("close")
             /\ UNCHANGED <<claimed, holder, epoch, entry>>
  /\ UNCHANGED <<tip, issue, reviewer, runs, claims, reviews, comments, news>>
close_issue ==
  /\ pc = "close" /\ issue' = "CLOSED" /\ Goto("settle")
  /\ UNCHANGED <<tip, claimed, holder, epoch, entry, reviewer, runs, claims, reviews, comments,
                 news>>
Settle ==
  /\ pc = "settle" /\ Stop
  /\ IF _owned THEN entry' = [entry EXCEPT !.phase = "done"] /\ claimed' = "done" /\ Release
     ELSE UNCHANGED <<entry, claimed, holder, epoch>>
  /\ UNCHANGED <<tip, issue, reviewer, runs, claims, reviews, comments, news>>

Exhaust ==
  /\ pc = "exhaust" /\ Stop /\ Release
  /\ entry' = [entry EXCEPT !.phase = "exhausted"] /\ claimed' = "waiting"
  /\ UNCHANGED <<tip, issue, reviewer, runs, claims, reviews, comments, news>>
_wake_review_inconclusive ==
  /\ claimed = "waiting" /\ News /\ claimed' = "verifying"
  /\ entry' = IF entry.phase = "exhausted"
            THEN [entry EXCEPT !.phase = "waiting", !.inconclusive = 0, !.run = 0, !.epoch = 0] ELSE entry
  /\ UNCHANGED <<tip, holder, epoch, issue, reviewer, runs, claims, advancing, reviews, comments>>

(* the conductor hands its lease to a reviewer; prepare binds the record to the *)
(* run before the launch                                                        *)
start ==
  /\ pc = "start"
  /\ IF _owned
     THEN /\ pc' = "bind" /\ epoch' = epoch + 1 /\ holder' = "run" /\ runs' = runs + 1
          /\ reviewer' = [id |-> runs + 1, base |-> sha, claim |-> entry.claim, epoch |-> epoch + 1]
          /\ mine' = epoch + 1 /\ UNCHANGED sha
     ELSE Stop /\ UNCHANGED <<holder, epoch, reviewer, runs>>
  /\ UNCHANGED <<tip, claimed, issue, entry, claims, reviews, comments, news>>
(* every slot is busy, or no platform may review it: asked again by a later     *)
(* tick; nothing is put to wait, and nobody is told                             *)
NoReviewerYet ==
  /\ pc = "start" /\ Stop
  /\ UNCHANGED <<tip, claimed, holder, epoch, issue, entry, reviewer, runs, claims, reviews,
                 comments, news>>
prepare ==
  /\ pc = "bind" /\ Stop
  /\ IF entry.base = sha /\ holder = "run" /\ epoch = mine
     THEN /\ entry' = [entry EXCEPT !.phase = "reviewing", !.run = reviewer.id, !.epoch = epoch]
          /\ UNCHANGED <<holder, reviewer>>
     ELSE reviewer' = NoReviewer /\ holder' = (IF holder = "run" THEN "none" ELSE holder) /\ UNCHANGED entry
  /\ UNCHANGED <<tip, claimed, epoch, issue, runs, claims, reviews, comments, news>>

(* finalize applies what the reviewer said in one transaction, fenced by epoch *)
Fenced == holder # "run" \/ epoch # reviewer.epoch
finish ==
  /\ reviewer.id # 0 /\ pc # "bind" /\ reviewer' = NoReviewer
  /\ \E says \in {"pass", "fail", "none"}, asks \in BOOLEAN :
       LET bound == entry.run = reviewer.id /\ entry.epoch = reviewer.epoch /\ entry.phase = "reviewing"
       IN  IF Fenced THEN UNCHANGED <<entry, claimed, holder, reviews>>
           ELSE /\ entry' = IF ~bound THEN entry
                          ELSE IF says = "none" THEN _inconclusive(entry)
                          ELSE [entry EXCEPT !.phase = "verdict", !.verdict = says, !.asks = asks]
                /\ claimed' = (IF bound THEN "verifying" ELSE claimed) /\ holder' = "none"
                /\ reviews' = IF says = "none" THEN reviews
                              ELSE reviews \cup {[run |-> reviewer.id, claim |-> reviewer.claim,
                                                  base |-> reviewer.base, pass |-> says = "pass"]}
  /\ UNCHANGED <<tip, epoch, issue, runs, claims, advancing, comments, news>>
(* the run is lost and its lease expires *)
RunLost ==
  /\ reviewer.id # 0 /\ pc # "bind" /\ News /\ reviewer' = NoReviewer
  /\ holder' = (IF Fenced THEN holder ELSE "none")
  /\ UNCHANGED <<tip, claimed, epoch, issue, entry, runs, claims, advancing, reviews, comments>>

------------------------------------------------------------------------------
(* The environment *)
BaseMoves == /\ News /\ tip' = tip + 1
             /\ UNCHANGED <<claimed, holder, epoch, issue, entry, reviewer, runs, claims,
                            advancing, reviews, comments>>
(* an interactive claim takes the item from the conductor or from a run, and    *)
(* then sets it working: two transactions                                       *)
SessionClaims ==
  /\ holder # "session" /\ claimed # "done" /\ News
  /\ holder' = "session" /\ epoch' = epoch + 1
  /\ UNCHANGED <<tip, claimed, issue, entry, reviewer, runs, claims, advancing, reviews, comments>>
SessionWorks ==
  /\ holder = "session" /\ claimed # "working" /\ claimed' = "working"
  /\ UNCHANGED <<tip, holder, epoch, issue, entry, reviewer, runs, claims, advancing, reviews,
                 comments, news>>
SessionLeaves ==
  /\ holder = "session" /\ claimed = "working" /\ Release /\ claimed' = "ready"
  /\ UNCHANGED <<tip, issue, entry, reviewer, runs, claims, advancing, reviews, comments, news>>
OwnerAnswers ==
  /\ claimed = "needs_you" /\ holder = "none" /\ claimed' = "ready"
  /\ UNCHANGED <<tip, holder, epoch, issue, entry, reviewer, runs, claims, advancing, reviews,
                 comments, news>>
(* the process dies; a run it launched lives on, one it had not bound does not *)
ProcessDies ==
  /\ pc # "idle" /\ News /\ Stop
  /\ reviewer' = (IF pc = "bind" THEN NoReviewer ELSE reviewer)
  /\ holder' = (IF pc = "bind" /\ holder = "run" THEN "none" ELSE holder)
  /\ UNCHANGED <<tip, claimed, epoch, issue, entry, runs, claims, reviews, comments>>

Advance == \/ Take \/ HandsOver \/ fetched_base \/ Practices \/ PostsComment \/ Recheck \/ close_issue
           \/ Settle \/ Exhaust \/ start \/ NoReviewerYet \/ prepare
ClaimsNext == \/ begin \/ Advance \/ _wake_review_inconclusive \/ finish \/ RunLost \/ BaseMoves
              \/ SessionClaims \/ SessionWorks \/ SessionLeaves \/ OwnerAnswers \/ ProcessDies
(* the tick runs, and a review run ends *)
ClaimsFairness == WF_claimsVars(Advance) /\ WF_claimsVars(finish) /\ WF_claimsVars(SessionWorks \/ SessionLeaves)
ClaimsSpec == ClaimsInit /\ [][ClaimsNext]_claimsVars /\ ClaimsFairness

------------------------------------------------------------------------------
(* A claim is settled as done only on the pass of a review of this claim at the *)
(* base the record names, never on one of an earlier claim or an earlier base.  *)
DoneIsReviewed ==
  [][(claimed # "done" /\ claimed' = "done") =>
       \E r \in reviews : /\ r.run = entry.run /\ r.claim = entry.claim
                          /\ r.base = entry.base /\ r.pass]_claimsVars

(* The result of a review is commented once, over crashes and repeats. *)
ReviewCommentedOnce ==
  \A c, d \in comments : c.claim = d.claim /\ c.run = d.run => c = d

(* An item does not stay in verifying for a claim for ever: it is decided,      *)
(* handed to a session, or put to wait when reviews keep ending without a word. *)
(* Only ever again finding no slot or platform for its reviewer may keep it     *)
(* there: unlike a PR's review (ship.py's _capacity_wait) it then just asks on. *)
ClaimsGetDecided == []<>(claimed # "verifying") \/ []<><<NoReviewerYet>>_claimsVars

(* Whatever is done for a claim is done for a review of it, and said once. *)
ClaimsAreReviewed == DoneIsReviewed /\ []ReviewCommentedOnce
==============================================================================
