---------------------------- MODULE DeliveryProofs ----------------------------
(* Proofs about Delivery: what the merge pipeline promises for one item, for     *)
(* any number of attempts, heads, pull requests and upsets. IInv is the         *)
(* inductive invariant, in nine groups: the type of every record; what a visit  *)
(* knows while its step is under way (Flow); what the numbers of heads and PRs  *)
(* tell (Numbered, NewHeads); a rerun's mark and its one POST (Reruns); a paid  *)
(* failure (Bills); the conductor's own close (Marks); the PR kept for its pass *)
(* (Keeping); and whom a verdict vouches for (Vouching). Lemmas named for an    *)
(* action with Effect say what that action leaves as it was; the Keep lemmas    *)
(* take Next action by action.                                                *)
EXTENDS Delivery, TLAPS

(* Types, one for each variable.                                              *)
ItemType ==
  [state : States, attempts : Nat, pr : {0} \cup Prs, snap : {0} \cup Heads,
   cause : {"none", "ci_stalled", "merge_queue", "capacity", "ci_repo_wide",
            "review_nonconvergent", "review_inconclusive"}]
Owners == {"nobody", "conductor", "run", "session"}
RunType ==
  [role : {"none", "build", "fix", "review"}, head : {0} \cup Heads, kind : Kinds \cup {"none"},
   counts : SUBSET Kinds, after : Nat]
ReviewType ==
  [head : {0} \cup Heads, pr : {0} \cup Prs, run : {"none", "this", "earlier"},
   verdict : {"none", "pass", "fail", "protected"}, old : BOOLEAN]
KvType ==
  [retained : {0} \cup Prs, queue : {0} \cup Heads, rebuilt : BOOLEAN, closing : {0} \cup Prs,
   followups : {0} \cup Prs, waived : {0} \cup Heads]
CycleType ==
  [head : {0} \cup Heads, open : BOOLEAN, charged : BOOLEAN, before : Nat, worked : BOOLEAN,
   own : BOOLEAN, again : {"no", "ready", "used"}]
RerunType == [head : {0} \cup Heads, at : {"none", "selected", "requested", "done"}]
HubType ==
  [pr : {0} \cup Prs, status : {"none", "OPEN", "MERGED", "CLOSED"}, head : {0} \cup Heads,
   commits : Heads, queued : BOOLEAN, checks : {"pending", "red", "green"},
   drift : {"no", "behind", "conflict"}]
ViewType ==
  [pr : {0} \cup Prs, snap : {0} \cup Heads, status : {"none", "OPEN", "MERGED", "CLOSED"},
   head : {0} \cup Heads, checks : {"pending", "red", "green"},
   drift : {"no", "behind", "conflict"}, attempts : Nat, kind : Kinds \cup {"none"},
   conflict : BOOLEAN, passed : BOOLEAN, unchanged : BOOLEAN, old : BOOLEAN]
HistType ==
  [vouched : SUBSET Heads, passed : SUBSET Heads, billed : SUBSET (Kinds \X Heads),
   closed : SUBSET Prs, posts : [Heads -> 0..2]]

Types ==
  /\ item \in ItemType /\ owner \in Owners /\ run \in RunType /\ ghost \in RunType
  /\ review \in ReviewType /\ kv \in KvType /\ cycle \in [Kinds -> CycleType]
  /\ rerun \in RerunType /\ hub \in HubType /\ step \in Steps /\ view \in ViewType
  /\ risky \in BOOLEAN /\ left \in Nat /\ hist \in HistType

------------------------------------------------------------------------------
(* Where a visit is, and what it took with it.                                *)
Opening == {"open", "opened"}
Acting == Steps \ {"idle", "open", "opened", "look"}
Fixing == {"cut", "launch", "charge"}

(* Only a visit that is about to push leaves the saved commit there; the row   *)
(* has the visit's PR, or the one a session shipped meanwhile.                *)
RowFollows ==
  /\ step \notin Opening \cup {"idle"}
       => item.snap = 0 /\ view.pr # 0 /\ item.pr \in {view.pr, hub.pr}
  /\ step \in Opening => view.snap # 0
       /\ (item.snap = 0 \/ (item.pr = view.pr /\ item.snap = view.snap))
  /\ step # "idle" => /\ item.attempts <= view.attempts
                      /\ item.state \in {"verifying", "working", "ready"}

(* What looked open is the latest PR, at a head it had.                       *)
LooksTrue ==
  /\ step \in Acting \ {"decide", "finish"} => view.status = "OPEN"
  /\ step \in Acting /\ view.status = "OPEN" =>
       view.pr = hub.pr /\ view.head \in Heads /\ view.head <= hub.commits

(* The failure a fix is about is known from count on, and not before.         *)
KindFits ==
  /\ step \in {"look", "rerun", "post", "checks"} => view.kind = "none"
  /\ step = "decide" /\ view.status = "OPEN" => view.kind = "none"
  /\ step \in Fixing \cup {"count"} => view.kind \in Kinds
  /\ step = "close" => view.kind = "rev"

(* A run has the lease, and the visit that starts one is at its last step.    *)
RunOwns ==
  /\ run.role # "none" => owner = "run" /\ step \in {"idle", "bind", "charge"}
  /\ run.role = "review" => run.head # 0

(* There is always something to look at or to push.                           *)
HasWork ==
  \/ step # "idle" \/ item.state = "verifying" \/ run.role \in {"fix", "review"}
  \/ (item.state = "waiting" /\ item.cause # "review_nonconvergent")
  => item.pr # 0 \/ item.snap # 0

Flow == RowFollows /\ LooksTrue /\ KindFits /\ RunOwns /\ HasWork

(* PRs and commits are numbered as they appear.                               *)
Numbered ==
  /\ item.pr <= hub.pr /\ view.pr <= hub.pr /\ kv.retained <= hub.pr
  /\ item.snap <= hub.commits /\ view.snap <= hub.commits /\ hub.head <= hub.commits
  /\ hub.status = "OPEN" \/ step = "opened" => hub.pr # 0
  /\ hub.pr # 0 => hub.head # 0

------------------------------------------------------------------------------
(* A head the ledger or the history has something about.  A head that comes up *)
(* is never one of them: not a new commit, not the saved one when it is pushed, *)
(* and not one that replaced, under a visit, the head the visit looked at.     *)
Known(h) ==
  \/ hist.posts[h] > 0 \/ (\E k \in Kinds : <<k, h>> \in hist.billed)
  \/ h \in hist.passed \/ h = review.head

NewHeads ==
  /\ \A h \in Heads : Known(h) => h <= hub.commits
  /\ item.snap # 0 => ~Known(item.snap)
  /\ step \in Opening => ~Known(view.snap)
  /\ step \in Acting /\ hub.head # view.head /\ hub.head # 0 => ~Known(hub.head)

(* A head somebody may still act on.                                          *)
Current(h) == h = hub.head \/ (step \in Acting /\ h = view.head)

(* A rerun that was asked for is on record for as long as the head matters.   *)
Reruns ==
  /\ RerunPostedOnce
  /\ \A h \in Heads : hist.posts[h] = 1 /\ Current(h) =>
       rerun.head = h /\ rerun.at \in {"requested", "done"}
  /\ step = "rerun" => /\ rerun = [head |-> view.head, at |-> "selected"]
                       /\ hist.posts[view.head] = 0
  /\ step = "post" => /\ rerun = [head |-> view.head, at |-> "requested"]
                      /\ hist.posts[view.head] = 0

(* A failure that was paid for is on record as charged, and not yet answered,  *)
(* for as long as the head matters.                                           *)
Bills ==
  /\ \A k \in Kinds, h \in Heads : <<k, h>> \in hist.billed /\ Current(h) =>
       cycle[k].head = h /\ cycle[k].charged /\ ~cycle[k].worked
  /\ ~cycle["red"].open => ~cycle["red"].charged
  /\ step \in Fixing => cycle[view.kind].head = view.head /\ ~cycle[view.kind].worked
  /\ step \in Fixing /\ view.kind = "red" => cycle["red"].open
  /\ step = "cut" /\ view.kind = "red" => ~cycle["red"].charged

(* The mark of a PR the conductor closed stands until the row lets go of it.  *)
Marks ==
  /\ \A p \in hist.closed : p <= hub.pr /\ (p = hub.pr => hub.status # "OPEN")
  /\ item.pr \in hist.closed => kv.closing = item.pr
  /\ step # "idle" /\ view.pr \in hist.closed => kv.closing = view.pr
  /\ step = "opened" => hub.pr \notin hist.closed
  /\ step = "close" => kv.closing = view.pr
  /\ step \in {"decide", "finish"} /\ view.status # "OPEN" /\ view.pr = hub.pr
       => hub.status # "OPEN"
  /\ step = "finish" => view.status # "OPEN" \/ (view.pr = hub.pr /\ hub.status # "OPEN")

------------------------------------------------------------------------------
(* The row keeps an open PR that was kept before, or whose head has passed;    *)
(* a visit that looks at an earlier PR is not about such a one.                *)
RowKeeps ==
  /\ hub.status = "OPEN" /\ (kv.retained = hub.pr \/ hub.head \in hist.passed) => item.pr = hub.pr
  /\ step # "idle" /\ view.pr # hub.pr /\ hub.status = "OPEN" =>
       kv.retained # hub.pr /\ hub.head \notin hist.passed

(* A head that passed has its verdict on record, or its PR is kept anyway.    *)
PassRecorded ==
  /\ hub.status = "OPEN" /\ hub.head \in hist.passed =>
       \/ review.head = hub.head /\ review.pr = hub.pr /\ review.verdict = "pass"
       \/ kv.retained = hub.pr
  /\ hub.status = "OPEN" /\ review.head = hub.head => review.pr = hub.pr \/ kv.retained = hub.pr
  /\ step \in {"update", "updated"} => kv.retained = view.pr
  /\ step = "updated" => view.head \notin hist.passed
  /\ review.old => review.head \notin hist.passed

(* A review run is about a head that has no verdict of this cycle yet.        *)
Reviewing ==
  /\ run.role = "review" => ~review.old /\ (review.run = "earlier" \/ review.verdict = "none")
  /\ review.run = "none" => review.verdict = "none" /\ review.pr = 0
  /\ step = "bind" => /\ review.run # "this"
                      /\ ~(review.head = hub.head /\ review.pr = hub.pr /\ review.verdict = "pass")

Keeping == RowKeeps /\ PassRecorded /\ Reviewing

(* A pass that counts, wherever it is on its way to the merge, is a pass of    *)
(* the very head: on record, taken along over a base merge, past the gate.    *)
Vouching ==
  /\ review.verdict = "pass" /\ ~review.old /\ review.pr # 0 /\ review.head = hub.head =>
       review.head \in hist.vouched
  /\ run.role = "review" /\ step # "bind" /\ review.run = "this" /\ review.head = hub.head =>
       run.head = hub.head
  /\ run.role = "review" /\ step = "bind" /\ view.head = hub.head => run.head = hub.head
  /\ step = "update" /\ view.passed /\ ~view.old /\ hub.head = view.head
       => view.head \in hist.vouched
  /\ step = "updated" /\ view.unchanged /\ view.passed /\ ~view.old => view.head \in hist.vouched
  /\ step \in {"fresh", "request"} /\ ~view.old /\ (risky \/ kv.retained = view.pr)
       /\ hub.head = view.head => view.head \in hist.vouched

IInv == Types /\ Flow /\ Numbered /\ NewHeads /\ Reruns /\ Bills /\ Marks /\ Keeping /\ Vouching

------------------------------------------------------------------------------
(* What the helpers of the handlers make of a record.                         *)
LEMMA Fields ==
  ASSUME Types
  PROVE  /\ item.pr \in {0} \cup Prs /\ item.snap \in {0} \cup Heads /\ item.attempts \in Nat
              /\ item.state \in States
         /\ view.pr \in {0} \cup Prs /\ view.snap \in {0} \cup Heads /\ view.head \in {0} \cup Heads
         /\ view.attempts \in Nat /\ view.kind \in Kinds \cup {"none"} /\ view.old \in BOOLEAN
         /\ hub.pr \in {0} \cup Prs /\ hub.head \in {0} \cup Heads /\ hub.commits \in Heads
         /\ review.head \in {0} \cup Heads /\ review.old \in BOOLEAN
         /\ \A k \in Kinds : cycle[k] \in CycleType
         /\ hist.closed \subseteq Prs /\ hist.passed \subseteq Heads
         /\ Heads \subseteq Nat \ {0} /\ Prs \subseteq Nat \ {0}
BY DEF Types, ItemType, ViewType, HubType, ReviewType, HistType, Heads, Prs

LEMMA PostsCount == ASSUME Types, RerunPostedOnce, NEW h \in Heads PROVE hist.posts[h] \in {0, 1}
<1>1. hist.posts \in [Heads -> 0..2]
  BY DEF Types, HistType
<1> QED BY <1>1 DEF RerunPostedOnce

LEMMA LeaveTyped == ASSUME Leave PROVE step' \in Steps /\ view' \in ViewType
BY DEF Leave, Steps, NoView, ViewType

LEMMA AnotherIsNew == ASSUME Types, CanCommit PROVE Another \in Heads /\ Another > hub.commits
BY Fields, DeliveryAssumption DEF CanCommit, Another, Heads

LEMMA CommitShape ==
  ASSUME Types, NEW h \in Heads, NEW d \in {"no", "behind", "conflict"}
  PROVE  /\ Commit(h, d) \in HubType /\ Commit(h, d).head = h
         /\ Commit(h, d).pr = hub.pr /\ Commit(h, d).status = hub.status
              /\ Commit(h, d).commits = hub.commits
BY DEF Types, Commit, HubType

LEMMA AtShape ==
  ASSUME Types, NEW s \in States
  PROVE  /\ At(s) \in ItemType /\ At(s).state = s /\ At(s).cause = "none"
              /\ At(s).attempts = item.attempts
         /\ At(s).pr = item.pr /\ At(s).snap = item.snap
BY DEF Types, At, ItemType

LEMMA ReturnedShape ==
  ASSUME Types
  PROVE  /\ [item EXCEPT !.snap = 0] \in ItemType
         /\ [item EXCEPT !.state = "ready", !.pr = 0] \in ItemType
         /\ [item EXCEPT !.state = "ready", !.pr = 0, !.snap = 0] \in ItemType
BY DEF Types, ItemType, States

LEMMA InconclusiveShape ==
  ASSUME Types PROVE [At("waiting") EXCEPT !.cause = "review_inconclusive"] \in ItemType
BY DEF Types, At, ItemType, States

LEMMA CarriedShape ==
  ASSUME Types, NEW b \in BOOLEAN, NEW c \in BOOLEAN
  PROVE  [view EXCEPT !.passed = b, !.old = c] \in ViewType
BY DEF Types, ViewType

LEMMA QueuedShape == ASSUME Types PROVE hub \in HubType /\ [hub EXCEPT !.queued = TRUE] \in HubType
BY DEF Types, HubType

LEMMA RetriedShape ==
  ASSUME Types, NEW a \in Nat
  PROVE  /\ Retried(a) \in ItemType /\ Retried(a).state \in {"failed", "ready"}
              /\ Retried(a).attempts = a + 1
         /\ Retried(a).pr = item.pr /\ Retried(a).snap = item.snap
<1>1. item \in ItemType /\ a + 1 \in Nat
  BY DEF Types
<1>2. CASE a + 1 >= MaxAttempts
  <2>1. Retried(a) = [item EXCEPT !.attempts = a + 1, !.state = "failed"]
    BY <1>1, <1>2, DeliveryAssumption DEF Retried
  <2> QED BY <1>1, <2>1 DEF ItemType, States
<1>3. CASE ~(a + 1 >= MaxAttempts)
  <2>1. Retried(a) = [item EXCEPT !.attempts = a + 1, !.state = "ready"]
    BY <1>1, <1>3, DeliveryAssumption DEF Retried
  <2> QED BY <1>1, <2>1 DEF ItemType, States
<1> QED BY <1>2, <1>3

LEMMA BecomesShape ==
  ASSUME Types, NEW row \in ItemType, Becomes(row)
  PROVE  /\ item' \in ItemType /\ item'.pr = row.pr /\ item'.snap = row.snap
              /\ item'.cause = row.cause
         /\ item'.state = (IF row.state = "working" THEN "ready" ELSE row.state)
         /\ item'.attempts = row.attempts
         /\ owner' \in Owners /\ run' = NoRun /\ run' \in RunType
BY DEF Becomes, ItemType, States, Owners, NoRun, RunType

LEMMA SavedShape ==
  ASSUME Types, NEW row \in ItemType, Saved(row)
  PROVE  /\ item' \in ItemType /\ item'.pr = row.pr /\ item'.cause = row.cause
         /\ item'.state = (IF row.state = "working" THEN "ready" ELSE row.state)
         /\ hub' \in HubType /\ hub'.pr = hub.pr /\ hub'.status = hub.status /\ hub'.head = hub.head
         /\ \/ item'.snap = row.snap /\ hub'.commits = hub.commits
            \/ CanCommit /\ item'.snap = Another /\ hub'.commits = Another
         /\ owner' \in Owners /\ run' = NoRun /\ run' \in RunType
<1>1. CASE Becomes(row) /\ UNCHANGED hub
  BY <1>1, BecomesShape DEF Types
<1>2. CASE CanCommit /\ hub' = [hub EXCEPT !.commits = Another]
             /\ Becomes([row EXCEPT !.snap = Another])
  <2> DEFINE saved == [row EXCEPT !.snap = Another]
  <2>1. Another \in Heads
    BY <1>2, AnotherIsNew
  <2>2. saved \in ItemType /\ saved.snap = Another /\ saved.pr = row.pr
          /\ saved.cause = row.cause /\ saved.state = row.state
    BY <2>1 DEF ItemType
  <2>3. Becomes(saved)
    BY <1>2
  <2>4. /\ hub' \in HubType /\ hub'.pr = hub.pr /\ hub'.status = hub.status /\ hub'.head = hub.head
        /\ hub'.commits = Another
    BY <1>2, <2>1 DEF Types, HubType
  <2> HIDE DEF saved
  <2> QED BY <1>2, <2>2, <2>3, <2>4, BecomesShape
<1> QED BY <1>1, <1>2 DEF Saved

LEMMA CycleShape ==
  ASSUME Types, NEW k \in Kinds, NEW h \in {0} \cup Heads
  PROVE  /\ NoCycle(h) \in CycleType
         /\ CycleAt(k, h) \in CycleType /\ CycleAt(k, h).head = h
         /\ Cleared(k, h) \in CycleType /\ Cleared(k, h).head = h
<1>1. NoCycle(h) \in CycleType /\ NoCycle(h).head = h
  BY DEF NoCycle, CycleType
<1>2. cycle[k] \in CycleType
  BY Fields
<1>3. CycleAt(k, h) \in CycleType /\ CycleAt(k, h).head = h
  BY <1>1, <1>2 DEF CycleAt
<1> DEFINE c == CycleAt(k, h)
<1>4. [c EXCEPT !.open = FALSE, !.charged = FALSE, !.worked = FALSE] \in CycleType
      /\ [c EXCEPT !.open = FALSE, !.charged = FALSE, !.worked = FALSE].head = h
  BY <1>3 DEF CycleType
<1> HIDE DEF c
<1>5. Cleared(k, h) = IF c.open /\ c.worked
        THEN [c EXCEPT !.open = FALSE, !.charged = FALSE, !.worked = FALSE] ELSE c
  BY DEF Cleared, c
<1>6. c \in CycleType /\ c.head = h
  BY <1>3 DEF c
<1> QED BY <1>1, <1>3, <1>4, <1>5, <1>6

LEMMA CycleTyped ==
  ASSUME Types, NEW c \in CycleType, view.kind \in Kinds, Cycle(c)
  PROVE  cycle' \in [Kinds -> CycleType] /\ cycle'[view.kind] = c
         /\ \A k \in Kinds \ {view.kind} : cycle'[k] = cycle[k]
BY DEF Types, Cycle

LEMMA PostTyped ==
  ASSUME Types, Reruns, LooksTrue, step = "post",
         hist' = [hist EXCEPT !.posts[view.head] = @ + 1]
  PROVE  /\ hist' \in HistType /\ view.head \in Heads
         /\ hist'.posts = [hist.posts EXCEPT ![view.head] = 1]
<1>1. view.head \in Heads
  BY DEF LooksTrue, Acting, Opening, Steps
<1>2. hist.posts[view.head] = 0
  BY DEF Reruns
<1>3. hist \in HistType
  BY DEF Types
<1>4. hist' = [hist EXCEPT !.posts = [hist.posts EXCEPT ![view.head] = 1]]
  BY <1>1, <1>2, <1>3 DEF HistType
<1>5. [hist.posts EXCEPT ![view.head] = 1] \in [Heads -> 0..2]
  BY <1>1, <1>3 DEF HistType
<1> QED BY <1>1, <1>3, <1>4, <1>5 DEF HistType

LEMMA WorkedTyped ==
  ASSUME Types, NEW r, NEW done \in BOOLEAN, FixWorked(r, done)
  PROVE  cycle' \in [Kinds -> CycleType] /\ hist' \in HistType
<1> DEFINE worked(k) == [cycle[k] EXCEPT !.worked = TRUE,
                                         !.again = IF done /\ k = "rev" /\ cycle[k].own /\ @ = "no"
                                                   THEN "ready" ELSE @]
<1>1. ASSUME NEW k \in Kinds PROVE cycle[k] \in CycleType /\ worked(k) \in CycleType
  <2>1. cycle[k] \in CycleType
    BY Fields
  <2> QED BY <2>1 DEF CycleType
<1>2. cycle' = [k \in Kinds |-> IF r.role = "fix" /\ Answers(r, k) THEN worked(k) ELSE cycle[k]]
  BY DEF FixWorked, Worked
<1>3. cycle' \in [Kinds -> CycleType]
  <2> HIDE DEF worked
  <2> QED BY <1>1, <1>2
<1>4. StillBilled(cycle') \in SUBSET hist.billed
  BY DEF StillBilled
<1> QED BY <1>3, <1>4 DEF FixWorked, Types, HistType

LEMMA ResetTyped ==
  ASSUME Types, NEW ks \in SUBSET Kinds, ResetReview(ks)
  PROVE  /\ review' \in ReviewType /\ cycle' \in [Kinds -> CycleType] /\ ghost' \in RunType
         /\ view' \in ViewType /\ hist' \in HistType
<1>1. review' \in ReviewType
  BY DEF ResetReview, NoReview, ReviewType
<1>2. cycle' \in [Kinds -> CycleType]
  <2>1. ASSUME NEW k \in Kinds PROVE [NoCycle(cycle[k].head) EXCEPT !.again = cycle[k].again] \in CycleType
    <3>1. cycle[k] \in CycleType
      BY Fields
    <3> QED BY <3>1 DEF CycleType, NoCycle
  <2> QED BY <2>1, Fields DEF ResetReview
<1>3. ghost' \in RunType /\ view' \in ViewType
  <2>1. ghost' \in RunType
    BY DEF ResetReview, Types, RunType
  <2>2. PICK b \in BOOLEAN : view' = [view EXCEPT !.old = b]
    BY DEF ResetReview
  <2>3. view' \in ViewType
    BY <2>2 DEF Types, ViewType
  <2> QED BY <2>1, <2>3
<1>4. hist' \in HistType
  BY DEF ResetReview, Types, HistType
<1> QED BY <1>1, <1>2, <1>3, <1>4

------------------------------------------------------------------------------
(* Steps that the rest of the invariant hardly sees: what it relates stays, and *)
(* the visit stays where it is or ends.                                       *)
Quiet ==
  /\ item'.pr = item.pr /\ item'.snap = item.snap
  /\ kv'.retained = kv.retained /\ kv'.closing = kv.closing
  /\ UNCHANGED <<review, cycle, risky, hist>>
  /\ UNCHANGED <<step, view>> \/ Leave
  /\ \/ rerun' = rerun
     \/ step = "decide" /\ Leave /\ rerun' = [head |-> view.head, at |-> "done"]
  /\ hub'.pr = hub.pr /\ hub'.head = hub.head /\ hub'.commits = hub.commits
  /\ hub'.status = "OPEN" => hub.status = "OPEN"
  /\ run'.role = "review" => run' = run

LEMMA QuietSteps ==
  ASSUME Types,
         HandsOver \/ OpenFindsMerged \/ LookFails \/ DecidesMerged \/ AwaitRerun \/ DecidesPending \/
         CountWaits \/ CutFails \/ CutAsks \/ FixWaits \/ NotStarted \/ VetBlocks \/ GateWaits \/
         QueueWaits \/ FreshPending \/ RequestLost \/ UpdateFails \/ BuildFails \/ Builds \/ Wakes \/
         GivesUp \/ Crash \/ FollowUps \/ SessionClaims \/ SessionReleases \/ ChecksEnd \/ BaseMoves \/
         OwnerCloses \/ Lands \/ Kicked
  PROVE  Quiet
<1> USE Fields DEF Types, vars, ledger, runs, visit, Quiet, Leave, Released, Mine
<1>1. CASE HandsOver
  BY <1>1 DEF HandsOver, ItemType, HubType
<1>2. CASE OpenFindsMerged
  BY <1>2 DEF OpenFindsMerged, Ship, Shows, ItemType, HubType
<1>3. CASE LookFails
  BY <1>3 DEF LookFails, Pending, Hold, ItemType, HubType
<1>4. CASE DecidesMerged
  BY <1>4 DEF DecidesMerged, Decides, Ship, ItemType, HubType
<1>5. CASE AwaitRerun
  BY <1>5 DEF AwaitRerun, Watching, Decides, Rerun, RerunAt, Pending, Hold, ItemType, HubType
<1>6. CASE DecidesPending
  BY <1>6 DEF DecidesPending, Checks, Pending, Hold, ItemType, HubType
<1>7. CASE CountWaits
  BY <1>7 DEF CountWaits, ItemType, HubType
<1>8. CASE CutFails
  BY <1>8 DEF CutFails, Cut, Due, Fee, ItemType, HubType
<1>9. CASE CutAsks
  BY <1>9 DEF CutAsks, Unconverged, Exhausted, Cut, Due, Fee, Verdict, ItemType, HubType
<1>10. CASE FixWaits
  BY <1>10 DEF FixWaits, Hold, ItemType, HubType
<1>11. CASE NotStarted
  BY <1>11 DEF NotStarted, Upset, ItemType, HubType
<1>12. CASE VetBlocks
  BY <1>12 DEF VetBlocks, Gate, Upset, ItemType, HubType
<1>13. CASE GateWaits
  BY <1>13 DEF GateWaits, Judged, InCycle, Gate, Verdict, ItemType, HubType
<1>14. CASE QueueWaits
  BY <1>14 DEF QueueWaits, Hold, ItemType, HubType
<1>15. CASE FreshPending
  BY <1>15 DEF FreshPending, Fresh, Unmoved, Pending, Hold, ItemType, HubType
<1>16. CASE RequestLost
  BY <1>16 DEF RequestLost, Upset, Unmoved, ItemType, HubType
<1>17. CASE UpdateFails
  BY <1>17 DEF UpdateFails, Upset, Pending, Hold, Unmoved, Update, ItemType, HubType
<1>18. CASE BuildFails
  BY <1>18 DEF BuildFails, Becomes, NoRun, Upset, Ends, Retried, ItemType, HubType, RunType
<1>19. CASE Builds
  BY <1>19 DEF Builds, NoRun, CanCommit, At, ItemType, HubType, RunType
<1>20. CASE Wakes
  BY <1>20 DEF Wakes, At, ItemType, HubType
<1>21. CASE GivesUp
  BY <1>21 DEF GivesUp, At, ItemType, HubType
<1>22. CASE Crash
  BY <1>22 DEF Crash, Upset, ItemType, HubType
<1>23. CASE FollowUps
  BY <1>23 DEF FollowUps, Upset, At, ItemType, HubType, KvType
<1>24. CASE SessionClaims
  BY <1>24 DEF SessionClaims, NoRun, Upset, At, ItemType, HubType, RunType
<1>25. CASE SessionReleases
  BY <1>25 DEF SessionReleases, At, ItemType, HubType
<1>26. CASE ChecksEnd
  BY <1>26 DEF ChecksEnd, OnHub, ItemType, HubType
<1>27. CASE BaseMoves
  BY <1>27 DEF BaseMoves, Upset, OnHub, ItemType, HubType
<1>28. CASE OwnerCloses
  BY <1>28 DEF OwnerCloses, Upset, OnHub, ItemType, HubType
<1>29. CASE Lands
  BY <1>29 DEF Lands, OnHub, ItemType, HubType
<1>30. CASE Kicked
  BY <1>30 DEF Kicked, Upset, OnHub, ItemType, HubType
<1> QED BY <1>1, <1>2, <1>3, <1>4, <1>5, <1>6, <1>7, <1>8, <1>9, <1>10, <1>11, <1>12, <1>13,
    <1>14, <1>15, <1>16, <1>17, <1>18, <1>19, <1>20, <1>21, <1>22, <1>23, <1>24, <1>25, <1>26,
           <1>27, <1>28, <1>29, <1>30

------------------------------------------------------------------------------
(* What a step does to the fields the invariant reads, where a handler has     *)
(* several outcomes.                                                          *)
LEMMA OpenFailsEffect ==
  ASSUME Types, OpenFails
  PROVE  /\ step = "open" /\ Leave
         /\ UNCHANGED <<run, ghost, review, kv, cycle, rerun, hub, risky, hist>>
         /\ item'.attempts = item.attempts /\ item'.cause = item.cause
         /\ \/ item' = item
            \/ /\ hub.pr = view.pr /\ hub.status = "OPEN"
               /\ item'.state = item.state /\ item'.pr = item.pr /\ item'.snap = 0
            \/ /\ ~(hub.pr = view.pr /\ hub.status = "OPEN")
               /\ item'.state = "ready" /\ item'.pr = 0 /\ item'.snap = 0
<1>1. CASE UNCHANGED item
  BY <1>1 DEF OpenFails, runs
<1>2. CASE item' = [item EXCEPT !.snap = 0] /\ hub.pr = view.pr /\ hub.status = "OPEN"
  BY <1>2 DEF OpenFails, runs, Types, ItemType
<1>3. CASE item' = [item EXCEPT !.state = "ready", !.pr = 0, !.snap = 0]
           /\ ~(hub.pr = view.pr /\ hub.status = "OPEN")
  BY <1>3 DEF OpenFails, runs, Types, ItemType
<1> QED BY <1>1, <1>2, <1>3 DEF OpenFails

LEMMA PushesEffect ==
  ASSUME Types, Pushes
  PROVE  /\ step = "open" /\ step' = "opened"
         /\ UNCHANGED <<item, run, ghost, review, kv, cycle, rerun, view, risky, hist>>
         /\ hub'.head = view.snap /\ hub'.commits = hub.commits /\ hub'.status = "OPEN"
         /\ \/ hub.status = "OPEN" /\ hub'.pr = hub.pr
            \/ hub.status # "OPEN" /\ hub'.pr = hub.pr + 1 /\ hub.head # view.snap
<1>1. /\ step = "open" /\ step' = "opened"
      /\ UNCHANGED <<item, run, ghost, review, kv, cycle, rerun, view, risky, hist>>
  BY DEF Pushes, ledger, runs
<1>2. hub \in HubType
  BY DEF Types
<1>3. CASE hub.status = "OPEN" /\ hub.head = view.snap /\ UNCHANGED hub
  BY <1>1, <1>3
<1>4. CASE hub.status = "OPEN" /\ \E d \in {"no", hub.drift} : hub' = Commit(view.snap, d)
  BY <1>1, <1>2, <1>4 DEF Commit, HubType
<1>5. CASE /\ hub.status # "OPEN" /\ hub.head # view.snap
           /\ \E d \in {"no", "behind"} :
                 hub' = [Commit(view.snap, d) EXCEPT !.pr = @ + 1, !.status = "OPEN"]
  BY <1>1, <1>2, <1>5 DEF Commit, HubType
<1> QED BY <1>3, <1>4, <1>5 DEF Pushes

LEMMA DecidesClosedEffect ==
  ASSUME Types, DecidesClosed
  PROVE  /\ step = "decide" /\ view.status = "CLOSED"
         /\ UNCHANGED <<run, ghost, review, kv, cycle, rerun, hub, risky, hist>>
         /\ \/ kv.closing = view.pr /\ step' = "finish" /\ UNCHANGED <<item, view>>
            \/ kv.closing # view.pr /\ Leave /\ UNCHANGED item
            \/ /\ kv.closing # view.pr /\ Leave
               /\ item'.pr = 0 /\ item'.snap = item.snap /\ item'.attempts = view.attempts + 1
               /\ item'.state \in {"failed", "ready"}
<1>1. /\ step = "decide" /\ view.status = "CLOSED"
      /\ UNCHANGED <<run, ghost, review, kv, cycle, rerun, hub, risky, hist>>
  BY DEF DecidesClosed, Decides, runs
<1>2. CASE kv.closing = view.pr /\ step' = "finish" /\ UNCHANGED <<item, view>>
  BY <1>1, <1>2
<1>3. CASE kv.closing # view.pr /\ Leave /\ UNCHANGED item
  BY <1>1, <1>3
<1>4. CASE kv.closing # view.pr /\ Leave /\ item' = [Retried(view.attempts) EXCEPT !.pr = 0]
  <2> DEFINE row == Retried(view.attempts)
  <2>1. /\ row \in ItemType /\ row.state \in {"failed", "ready"} /\ row.attempts = view.attempts + 1
        /\ row.snap = item.snap
    BY Fields, RetriedShape
  <2>2. item' = [row EXCEPT !.pr = 0]
    BY <1>4
  <2> HIDE DEF row
  <2> QED BY <1>1, <1>4, <2>1, <2>2 DEF ItemType
<1> QED BY <1>2, <1>3, <1>4 DEF DecidesClosed, ClosedByUs

LEMMA FollowBaseEffect ==
  ASSUME Types, FollowBase
  PROVE  /\ UNCHANGED <<run, ghost, review, cycle, rerun, hub, risky, hist>>
         /\ \/ /\ Keeps /\ step' = "update" /\ item' = item
               /\ kv'.retained = view.pr /\ kv'.closing = kv.closing
               /\ view'.passed = (Verdict(view.head) = "pass")
                    /\ view'.old = (view.old \/ review.old)
               /\ view'.pr = view.pr /\ view'.snap = view.snap /\ view'.status = view.status
               /\ view'.head = view.head /\ view'.kind = view.kind /\ view'.attempts = view.attempts
            \/ /\ ~Keeps /\ Leave /\ UNCHANGED kv
               /\ item'.pr = 0 /\ item'.snap = item.snap /\ item'.attempts = item.attempts
               /\ item'.state = "ready"
<1>1. UNCHANGED <<run, ghost, review, cycle, rerun, hub, risky, hist>>
  BY DEF FollowBase, runs
<1>2. CASE /\ Keeps /\ kv' = [kv EXCEPT !.retained = view.pr] /\ step' = "update" /\ UNCHANGED item
           /\ view' = [view EXCEPT !.passed = Verdict(view.head) = "pass", !.old = @ \/ review.old]
  <2> DEFINE p == Verdict(view.head) = "pass"
             o == view.old \/ review.old
  <2>1. kv'.retained = view.pr /\ kv'.closing = kv.closing
    BY <1>2 DEF Types, KvType
  <2>2. view' = [view EXCEPT !.passed = p, !.old = o] /\ p \in BOOLEAN /\ o \in BOOLEAN
    BY <1>2
  <2> HIDE DEF p, o
  <2>3. /\ view'.passed = p /\ view'.old = o
        /\ view'.pr = view.pr /\ view'.snap = view.snap /\ view'.status = view.status
        /\ view'.head = view.head /\ view'.kind = view.kind /\ view'.attempts = view.attempts
    BY <2>2 DEF Types, ViewType
  <2> QED BY <1>1, <1>2, <2>1, <2>3 DEF p, o
<1>3. CASE ~Keeps /\ item' = [item EXCEPT !.state = "ready", !.pr = 0] /\ Leave /\ UNCHANGED kv
  <2>1. item'.pr = 0 /\ item'.snap = item.snap /\ item'.attempts = item.attempts
          /\ item'.state = "ready"
    BY <1>3 DEF Types, ItemType
  <2> QED BY <1>1, <1>3, <2>1
<1> QED BY <1>2, <1>3 DEF FollowBase

LEMMA PendingEffect ==
  ASSUME Types, Pending
  PROVE  /\ Leave
         /\ item'.pr = item.pr /\ item'.snap = item.snap /\ item'.attempts = item.attempts
         /\ item' = item \/ (item'.state = "waiting" /\ item'.cause = "ci_stalled")
BY DEF Pending, Hold, Types, ItemType

LEMMA PostedEffect ==
  ASSUME Types, Reruns, LooksTrue, Posts \/ PostFails
  PROVE  /\ step = "post" /\ Leave /\ view.head \in Heads
         /\ UNCHANGED <<run, ghost, review, kv, cycle, risky>>
         /\ item'.pr = item.pr /\ item'.snap = item.snap /\ item'.attempts = item.attempts
         /\ item' = item \/ (item'.state = "waiting" /\ item'.cause = "ci_stalled")
         /\ hub'.pr = hub.pr /\ hub'.status = hub.status /\ hub'.head = hub.head
              /\ hub'.commits = hub.commits
         /\ rerun' = rerun \/ rerun' = [head |-> view.head, at |-> "done"]
         /\ hist'.posts[view.head] = 1
              /\ \A h \in Heads \ {view.head} : hist'.posts[h] = hist.posts[h]
         /\ hist'.vouched = hist.vouched /\ hist'.passed = hist.passed /\ hist'.billed = hist.billed
         /\ hist'.closed = hist.closed
<1>1. step = "post" /\ Pending /\ hist' = [hist EXCEPT !.posts[view.head] = @ + 1]
      /\ UNCHANGED <<run, ghost, review, kv, cycle, risky>>
      /\ (rerun' = rerun \/ rerun' = [head |-> view.head, at |-> "done"])
  BY DEF Posts, PostFails, Rerun, runs
<1>2. /\ view.head \in Heads /\ hist'.posts = [hist.posts EXCEPT ![view.head] = 1]
      /\ hist'.vouched = hist.vouched /\ hist'.passed = hist.passed /\ hist'.billed = hist.billed
      /\ hist'.closed = hist.closed
  BY <1>1, PostTyped DEF Types, HistType
<1>3. /\ hub'.pr = hub.pr /\ hub'.status = hub.status /\ hub'.head = hub.head
           /\ hub'.commits = hub.commits
  BY DEF Posts, PostFails, Types, HubType
<1>4. hist'.posts[view.head] = 1 /\ \A h \in Heads \ {view.head} : hist'.posts[h] = hist.posts[h]
  BY <1>2 DEF Types, HistType
<1> QED BY <1>1, <1>2, <1>3, <1>4, PendingEffect

LEMMA RequestsEffect ==
  ASSUME Types, Requests
  PROVE  /\ step = "request"
         /\ UNCHANGED <<item, run, ghost, review, kv, cycle, rerun, risky, hist>>
         /\ hub'.pr = hub.pr /\ hub'.status = hub.status /\ hub'.head = hub.head
              /\ hub'.commits = hub.commits
         /\ Leave \/ (step' = "note" /\ view' = view)
<1>1. step = "request" /\ UNCHANGED <<item, run, ghost, review, kv, cycle, rerun, risky, hist>>
  BY DEF Requests, ledger, runs
<1>2. CASE Unmoved /\ hub' = [hub EXCEPT !.queued = TRUE] /\ step' = "note" /\ UNCHANGED view
  BY <1>1, <1>2 DEF Types, HubType
<1>3. CASE Leave /\ UNCHANGED hub
  BY <1>1, <1>3
<1> QED BY <1>2, <1>3 DEF Requests

LEMMA NotesEffect ==
  ASSUME Types, Notes
  PROVE  /\ step = "note"
         /\ UNCHANGED <<run, ghost, review, cycle, rerun, hub, risky, hist>>
         /\ kv'.retained = kv.retained /\ kv'.closing = kv.closing
         /\ item'.pr = item.pr /\ item'.snap = item.snap /\ item'.attempts = item.attempts
         /\ item' = item \/ item'.state = "shipped"
         /\ \/ Leave
            \/ /\ step' = "decide" /\ hub.status = "CLOSED" /\ view'.status = "CLOSED"
               /\ view'.pr = view.pr /\ view'.snap = view.snap /\ view'.head = view.head
               /\ view'.kind = view.kind /\ view'.old = view.old /\ view'.attempts = view.attempts
               /\ item' = item
<1>1. /\ step = "note" /\ UNCHANGED <<run, ghost, review, cycle, rerun, hub, risky, hist>>
      /\ kv'.retained = kv.retained /\ kv'.closing = kv.closing
  BY DEF Notes, runs, Types, KvType
<1>2. CASE Ship
  BY <1>1, <1>2 DEF Ship, Types, ItemType
<1>3. CASE hub.status = "CLOSED" /\ step' = "decide"
             /\ view' = [view EXCEPT !.status = "CLOSED"] /\ UNCHANGED item
  BY <1>1, <1>3 DEF Types, ViewType
<1>4. CASE Leave /\ UNCHANGED item
  BY <1>1, <1>4
<1> QED BY <1>2, <1>3, <1>4 DEF Notes

LEMMA AnotherEffect ==
  ASSUME Types, CanCommit, NEW d \in {"no", "behind", "conflict"},
         hub' = [Commit(Another, d) EXCEPT !.commits = Another]
  PROVE  /\ hub'.head = Another /\ hub'.commits = Another /\ Another > hub.commits
              /\ Another \in Heads
         /\ hub'.pr = hub.pr /\ hub'.status = hub.status
BY AnotherIsNew, CommitShape DEF HubType

LEMMA PushedEffect ==
  ASSUME Types, Pushed
  PROVE  /\ UNCHANGED <<item, owner, run, ghost, review, kv, cycle, rerun, step, view, risky, hist>>
         /\ hub'.head = Another /\ hub'.commits = Another /\ Another > hub.commits
              /\ Another \in Heads
         /\ hub'.pr = hub.pr /\ hub'.status = hub.status /\ hub.status = "OPEN"
<1>1. PICK d \in {"no", hub.drift} : hub' = [Commit(Another, d) EXCEPT !.commits = Another]
  BY DEF Pushed
<1>2. d \in {"no", "behind", "conflict"} /\ CanCommit /\ hub.status = "OPEN"
  BY DEF Pushed, Types, HubType
<1> QED BY <1>1, <1>2, AnotherEffect DEF Pushed, OnHub, ledger, runs, visit

LEMMA UpdateMergesEffect ==
  ASSUME Types, UpdateMerges
  PROVE  /\ step = "update" /\ step' = "updated" /\ Unmoved
         /\ UNCHANGED <<item, run, ghost, review, kv, cycle, rerun, risky>>
         /\ hub'.head = Another /\ hub'.commits = Another /\ Another > hub.commits
              /\ Another \in Heads
         /\ hub'.pr = hub.pr /\ hub'.status = hub.status
         /\ view'.head = Another /\ view'.pr = view.pr /\ view'.snap = view.snap
         /\ view'.status = view.status /\ view'.kind = view.kind /\ view'.attempts = view.attempts
         /\ view'.passed = view.passed /\ view'.old = view.old
         /\ hist'.passed = hist.passed /\ hist'.billed = hist.billed /\ hist'.closed = hist.closed
         /\ hist'.posts = hist.posts
         /\ hist.vouched \subseteq hist'.vouched
         /\ view'.unchanged /\ view.head \in hist.vouched => Another \in hist'.vouched
<1>1. /\ step = "update" /\ step' = "updated" /\ Unmoved /\ CanCommit
      /\ UNCHANGED <<item, run, ghost, review, kv, cycle, rerun, risky>>
      /\ hub' = [Commit(Another, "no") EXCEPT !.commits = Another]
  BY DEF UpdateMerges, Update, ledger, runs
<1>2. PICK unchanged \in BOOLEAN :
        /\ view' = [view EXCEPT !.head = Another, !.unchanged = unchanged]
        /\ hist' = IF unchanged /\ view.head \in hist.vouched
                   THEN [hist EXCEPT !.vouched = @ \cup {Another}] ELSE hist
  BY DEF UpdateMerges
<1>3. /\ view'.head = Another /\ view'.pr = view.pr /\ view'.snap = view.snap
      /\ view'.status = view.status /\ view'.kind = view.kind /\ view'.attempts = view.attempts
      /\ view'.passed = view.passed /\ view'.old = view.old /\ view'.unchanged = unchanged
  BY <1>2 DEF Types, ViewType
<1>4. /\ hist'.passed = hist.passed /\ hist'.billed = hist.billed /\ hist'.closed = hist.closed
      /\ hist'.posts = hist.posts /\ hist.vouched \subseteq hist'.vouched
      /\ unchanged /\ view.head \in hist.vouched => Another \in hist'.vouched
  <2>1. CASE unchanged /\ view.head \in hist.vouched
    <3>1. hist' = [hist EXCEPT !.vouched = @ \cup {Another}]
      BY <1>2, <2>1
    <3> QED BY <3>1 DEF Types, HistType
  <2>2. CASE ~(unchanged /\ view.head \in hist.vouched)
    <3>1. hist' = hist
      BY <1>2, <2>2
    <3> QED BY <2>2, <3>1
  <2> QED BY <2>1, <2>2
<1> QED BY <1>1, <1>3, <1>4, AnotherEffect

LEMMA UpdatesEffect ==
  ASSUME Types, Updates
  PROVE  /\ step = "updated" /\ Leave
         /\ UNCHANGED <<run, ghost, kv, cycle, rerun, hub, risky, hist>>
         /\ item'.pr = item.pr /\ item'.snap = item.snap /\ item'.attempts = item.attempts
         /\ item' = item \/ (item'.state = "waiting" /\ item'.cause = "ci_stalled")
         /\ review'.head = view.head
         /\ \/ /\ view.unchanged /\ view.passed
               /\ review'.pr = view.pr /\ review'.run = "this" /\ review'.verdict = "pass"
               /\ review'.old = view.old
            \/ review'.pr = 0 /\ review'.run = "none" /\ review'.verdict = "none" /\ ~review'.old
<1>1. /\ step = "updated" /\ Pending
      /\ UNCHANGED <<run, ghost, kv, cycle, rerun, hub, risky, hist>>
  BY DEF Updates, runs
<1>2. CASE /\ view.unchanged /\ view.passed
           /\ review' = [head |-> view.head, pr |-> view.pr, run |-> "this", verdict |-> "pass", old |-> view.old]
  BY <1>1, <1>2, PendingEffect
<1>3. CASE review' = [NoReview EXCEPT !.head = view.head]
  BY <1>1, <1>3, PendingEffect DEF NoReview
<1> QED BY <1>2, <1>3 DEF Updates

(* A fix that answers a cycle leaves it open; its failure is no longer billed. *)
LEMMA FixWorkedEffect ==
  ASSUME Types, NEW r, NEW done \in BOOLEAN, FixWorked(r, done)
  PROVE  /\ hist'.vouched = hist.vouched /\ hist'.passed = hist.passed /\ hist'.closed = hist.closed
         /\ hist'.posts = hist.posts
         /\ \A k \in Kinds : /\ cycle'[k].head = cycle[k].head /\ cycle'[k].open = cycle[k].open
                             /\ cycle'[k].charged = cycle[k].charged
                             /\ cycle[k].worked => cycle'[k].worked
         /\ \A k \in Kinds, h \in Heads : <<k, h>> \in hist'.billed =>
              <<k, h>> \in hist.billed /\ ~(cycle'[k].worked /\ h = cycle'[k].head)
<1>1. hist' = [hist EXCEPT !.billed = StillBilled(cycle')] /\ hist \in HistType
  BY DEF FixWorked, Types
<1>2. /\ hist'.vouched = hist.vouched /\ hist'.passed = hist.passed /\ hist'.closed = hist.closed
      /\ hist'.posts = hist.posts /\ hist'.billed = StillBilled(cycle')
  BY <1>1 DEF HistType
<1>3. ASSUME NEW k \in Kinds
      PROVE  /\ cycle'[k].head = cycle[k].head /\ cycle'[k].open = cycle[k].open
             /\ cycle'[k].charged = cycle[k].charged /\ (cycle[k].worked => cycle'[k].worked)
  <2>1. cycle[k] \in CycleType
    BY Fields
  <2>2. PICK a \in {"no", "ready", "used"} :
          cycle'[k] = [cycle[k] EXCEPT !.worked = TRUE, !.again = a] \/ cycle'[k] = cycle[k]
    <3>1. CASE r.role = "fix" /\ Answers(r, k)
      <4> DEFINE a == IF done /\ k = "rev" /\ cycle[k].own
            /\ cycle[k].again = "no" THEN "ready" ELSE cycle[k].again
      <4>1. a \in {"no", "ready", "used"}
        BY <2>1 DEF CycleType
      <4>2. cycle'[k] = [cycle[k] EXCEPT !.worked = TRUE, !.again = a]
        BY <3>1, <2>1 DEF FixWorked, Worked, CycleType
      <4> QED BY <4>1, <4>2
    <3>2. CASE ~(r.role = "fix" /\ Answers(r, k))
      BY <3>2 DEF FixWorked, Worked
    <3> QED BY <3>1, <3>2
  <2> QED BY <2>1, <2>2 DEF CycleType
<1>4. ASSUME NEW k \in Kinds, NEW h \in Heads, <<k, h>> \in hist'.billed
      PROVE  <<k, h>> \in hist.billed /\ ~(cycle'[k].worked /\ h = cycle'[k].head)
  BY <1>2, <1>4 DEF StillBilled
<1> QED BY <1>2, <1>3, <1>4

(* A reset forgets the verdict, and in the cycles it is about every failure.   *)
LEMMA ResetEffect ==
  ASSUME Types, NEW ks \in SUBSET Kinds, ResetReview(ks)
  PROVE  /\ review' = NoReview
         /\ hist'.vouched = {} /\ hist'.passed = {} /\ hist'.closed = hist.closed
              /\ hist'.posts = hist.posts
         /\ \A k \in Kinds : /\ cycle'[k].head = cycle[k].head
                             /\ k \in ks => ~cycle'[k].open /\ ~cycle'[k].charged
                                  /\ ~cycle'[k].worked
                             /\ k \notin ks => cycle'[k] = cycle[k]
         /\ \A k \in Kinds, h \in Heads : <<k, h>> \in hist'.billed
              => <<k, h>> \in hist.billed /\ k \notin ks
         /\ view'.old = (step # "idle")
         /\ view'.pr = view.pr /\ view'.snap = view.snap /\ view'.status = view.status
         /\ view'.head = view.head /\ view'.kind = view.kind /\ view'.attempts = view.attempts
         /\ view'.passed = view.passed /\ view'.unchanged = view.unchanged
<1>1. review' = NoReview
  BY DEF ResetReview
<1>2. /\ hist'.vouched = {} /\ hist'.passed = {} /\ hist'.closed = hist.closed
           /\ hist'.posts = hist.posts
      /\ \A k \in Kinds, h \in Heads : <<k, h>> \in hist'.billed
           => <<k, h>> \in hist.billed /\ k \notin ks
  BY DEF ResetReview, Types, HistType
<1>3. ASSUME NEW k \in Kinds
      PROVE  /\ cycle'[k].head = cycle[k].head
             /\ k \in ks => ~cycle'[k].open /\ ~cycle'[k].charged /\ ~cycle'[k].worked
             /\ k \notin ks => cycle'[k] = cycle[k]
  BY <1>3 DEF ResetReview, NoCycle
<1>4. PICK b \in BOOLEAN : view' = [view EXCEPT !.old = b] /\ b = (step # "idle")
  BY DEF ResetReview
<1>5. /\ view'.old = (step # "idle")
      /\ view'.pr = view.pr /\ view'.snap = view.snap /\ view'.status = view.status
      /\ view'.head = view.head /\ view'.kind = view.kind /\ view'.attempts = view.attempts
      /\ view'.passed = view.passed /\ view'.unchanged = view.unchanged
  BY <1>4 DEF Types, ViewType
<1> QED BY <1>1, <1>2, <1>3, <1>5

LEMMA ReviewVerdictsEffect ==
  ASSUME Types, NEW v \in {"pass", "fail", "protected"}, ReviewVerdicts(v)
  PROVE  /\ step = "idle" /\ run.role = "review" /\ run'.role = "none"
         /\ UNCHANGED <<ghost, kv, cycle, rerun, hub, step, view, risky>>
         /\ item'.pr = item.pr /\ item'.snap = item.snap /\ item'.attempts = item.attempts
         /\ \/ /\ UNCHANGED <<review, hist>>
               /\ item'.state = item.state \/ item'.state = "ready"
               /\ item'.cause = item.cause
            \/ /\ ~Late /\ item'.state = "verifying"
               /\ review'.verdict = v /\ review'.run = "this"
               /\ review'.head = review.head /\ review'.pr = review.pr /\ review'.old = review.old
               /\ hist'.billed = hist.billed /\ hist'.closed = hist.closed
                    /\ hist'.posts = hist.posts
               /\ v = "pass" => /\ hist'.vouched = hist.vouched \cup {run.head}
                                /\ hist'.passed = hist.passed \cup ({review.head} \cap Heads)
               /\ v # "pass" => hist'.vouched = hist.vouched /\ hist'.passed = hist.passed
<1>1. /\ step = "idle" /\ run.role = "review"
      /\ UNCHANGED <<ghost, kv, cycle, rerun, hub, step, view, risky>>
  BY DEF ReviewVerdicts, Ends, visit
<1>2. CASE Late /\ Becomes(item) /\ UNCHANGED <<review, hist>>
  <2>1. item \in ItemType
    BY DEF Types
  <2> QED BY <1>1, <1>2, <2>1, BecomesShape DEF NoRun
<1>3. CASE /\ ~Late /\ Becomes(At("verifying"))
                /\ review' = [review EXCEPT !.run = "this", !.verdict = v]
           /\ hist' = IF v = "pass" THEN [hist EXCEPT !.vouched = @ \cup {run.head},
                                                      !.passed = @ \cup ({review.head} \cap Heads)]
                      ELSE hist
  <2>1. At("verifying") \in ItemType /\ At("verifying").state = "verifying"
          /\ At("verifying").pr = item.pr
        /\ At("verifying").snap = item.snap /\ At("verifying").attempts = item.attempts
    BY AtShape DEF States
  <2>2. item'.pr = item.pr /\ item'.snap = item.snap /\ item'.attempts = item.attempts
        /\ item'.state = "verifying" /\ run'.role = "none"
    BY <1>3, <2>1, BecomesShape DEF NoRun
  <2>3. /\ review'.verdict = v /\ review'.run = "this"
        /\ review'.head = review.head /\ review'.pr = review.pr /\ review'.old = review.old
    BY <1>3 DEF Types, ReviewType
  <2>4. CASE v = "pass"
    <3>1. hist' = [hist EXCEPT !.vouched = @ \cup {run.head}, !.passed = @ \cup ({review.head} \cap Heads)]
      BY <1>3, <2>4
    <3> QED BY <1>1, <1>3, <2>2, <2>3, <2>4, <3>1 DEF Types, HistType
  <2>5. CASE v # "pass"
    BY <1>1, <1>3, <2>2, <2>3, <2>5
  <2> QED BY <2>4, <2>5
<1> QED BY <1>2, <1>3 DEF ReviewVerdicts

LEMMA ReviewFadesEffect ==
  ASSUME Types, ReviewFades
  PROVE  /\ step = "idle" /\ run.role = "review" /\ run'.role = "none"
         /\ UNCHANGED <<ghost, kv, cycle, rerun, hub, step, view, risky, hist>>
         /\ item'.pr = item.pr /\ item'.snap = item.snap /\ item'.attempts = item.attempts
         /\ review' = review \/ (~Late /\ review' = NoReview)
<1>1. /\ step = "idle" /\ run.role = "review"
      /\ UNCHANGED <<ghost, kv, cycle, rerun, hub, step, view, risky, hist>>
      /\ review' = review \/ (~Late /\ review' = NoReview)
  BY DEF ReviewFades, Ends, visit
<1>2. PICK row \in ItemType : Becomes(row) /\ row.pr = item.pr /\ row.snap = item.snap
             /\ row.attempts = item.attempts
  <2>1. item \in ItemType
    BY DEF Types
  <2>2. At("verifying") \in ItemType /\ At("verifying").pr = item.pr
        /\ At("verifying").snap = item.snap /\ At("verifying").attempts = item.attempts
    BY AtShape DEF States
  <2>3. At("needs_you") \in ItemType /\ At("needs_you").pr = item.pr
        /\ At("needs_you").snap = item.snap /\ At("needs_you").attempts = item.attempts
    BY AtShape DEF States
  <2> DEFINE waits == [At("waiting") EXCEPT !.cause = "review_inconclusive"]
  <2>4. waits \in ItemType /\ waits.pr = item.pr /\ waits.snap = item.snap
          /\ waits.attempts = item.attempts
    BY AtShape DEF States, ItemType
  <2>5. Becomes(item) \/ Becomes(At("verifying")) \/ Becomes(At("needs_you")) \/ Becomes(waits)
    BY DEF ReviewFades
  <2> HIDE DEF waits
  <2> QED BY <2>1, <2>2, <2>3, <2>4, <2>5
<1> QED BY <1>1, <1>2, BecomesShape DEF NoRun

(* A run that may leave commits has ended: its row, and the saved commit.      *)
LEMMA SavedEffect ==
  ASSUME Types, FixDone \/ FixStops \/ FixFails \/ BuildDone
  PROVE  /\ step = "idle" /\ run.role \in {"fix", "build"} /\ run'.role = "none"
         /\ UNCHANGED <<review, kv, rerun, step, view, risky>>
         /\ item'.pr = item.pr
         /\ hub'.pr = hub.pr /\ hub'.status = hub.status /\ hub'.head = hub.head
         /\ \/ item'.snap = item.snap /\ hub'.commits = hub.commits
            \/ item'.snap = Another /\ hub'.commits = Another /\ Another > hub.commits
                 /\ Another \in Heads
<1>1. /\ step = "idle" /\ run.role \in {"fix", "build"}
      /\ UNCHANGED <<review, kv, rerun, step, view, risky>>
  BY DEF FixDone, FixStops, FixFails, BuildDone, Ends, visit
<1>2. PICK row \in ItemType : Saved(row) /\ row.pr = item.pr /\ row.snap = item.snap
  <2>1. At("verifying") \in ItemType /\ At("verifying").pr = item.pr
          /\ At("verifying").snap = item.snap
    BY AtShape DEF States
  <2>2. Retried(item.attempts) \in ItemType /\ Retried(item.attempts).pr = item.pr
        /\ Retried(item.attempts).snap = item.snap
    BY Fields, RetriedShape
  <2> QED BY <2>1, <2>2 DEF FixDone, FixStops, FixFails, BuildDone
<1>3. \/ item'.snap = item.snap /\ hub'.commits = hub.commits
      \/ item'.snap = Another /\ hub'.commits = Another /\ Another > hub.commits
           /\ Another \in Heads
  BY <1>2, SavedShape, AnotherIsNew
<1> QED BY <1>1, <1>2, <1>3, SavedShape DEF NoRun

LEMMA FixEndsEffect ==
  ASSUME Types, FixDone \/ FixStops \/ FixFails \/ BuildDone \/ GhostEnds
  PROVE  /\ hist'.vouched = hist.vouched /\ hist'.passed = hist.passed /\ hist'.closed = hist.closed
         /\ hist'.posts = hist.posts
         /\ \A k \in Kinds : /\ cycle'[k].head = cycle[k].head /\ cycle'[k].open = cycle[k].open
                             /\ cycle'[k].charged = cycle[k].charged
                             /\ cycle[k].worked => cycle'[k].worked
         /\ \A k \in Kinds, h \in Heads : <<k, h>> \in hist'.billed =>
              /\ <<k, h>> \in hist.billed
              /\ cycle'[k] = cycle[k] \/ ~(cycle'[k].worked /\ h = cycle'[k].head)
<1>1. CASE FixDone
  BY <1>1, FixWorkedEffect DEF FixDone
<1>2. CASE FixFails
  BY <1>2, FixWorkedEffect DEF FixFails
<1>3. CASE GhostEnds
  BY <1>3, FixWorkedEffect DEF GhostEnds
<1>4. CASE BuildDone
  BY <1>4 DEF BuildDone
<1>5. CASE FixStops
  <2>1. UNCHANGED hist /\ cycle' = [k \in Kinds |-> cycle[k]]
    BY <1>5 DEF FixStops, Worked
  <2> QED BY <2>1
<1> QED BY <1>1, <1>2, <1>3, <1>4, <1>5

LEMMA CountsEffect ==
  ASSUME Types, KindFits, Counts
  PROVE  /\ step = "count" /\ view.kind \in Kinds /\ step' \in {"cut", "launch"}
         /\ UNCHANGED <<item, run, review, kv, rerun, hub, view, risky, hist>>
         /\ \A k \in Kinds \ {view.kind} : cycle'[k] = cycle[k]
         /\ cycle'[view.kind].head = view.head /\ cycle'[view.kind].open
              /\ ~cycle'[view.kind].worked
         /\ LET c == cycle[view.kind] IN
            c.head = view.head /\ ~c.worked => cycle'[view.kind].charged = c.charged
         /\ step' = "cut" => ~Cleared(view.kind, view.head).open
         /\ step' = "cut" /\ cycle'[view.kind].charged =>
              LET c == cycle[view.kind] IN c.head = view.head /\ c.charged /\ ~c.open
<1> DEFINE kd == view.kind
           old == cycle[kd]
           c == Cleared(kd, view.head)
           opened == [c EXCEPT !.open = TRUE, !.worked = FALSE, !.before = view.attempts]
<1>1. /\ step = "count" /\ kd \in Kinds /\ step' \in {"cut", "launch"}
      /\ UNCHANGED <<item, run, review, kv, rerun, hub, view, risky, hist>>
  BY DEF Counts, KindFits, Fixing
<1>2. old \in CycleType /\ c \in CycleType /\ view.head \in {0} \cup Heads
        /\ view.attempts \in Nat /\ c.head = view.head
  BY <1>1, Fields, CycleShape
<1>3. c.open => ~c.worked
  <2>1. CycleAt(kd, view.head) \in CycleType
    BY <1>1, <1>2, CycleShape
  <2> QED BY <2>1 DEF Cleared, CycleType
<1>4. old.head = view.head /\ ~old.worked => c = old
  BY DEF Cleared, CycleAt
<1>5. c.charged /\ ~c.open => old.head = view.head /\ old.charged /\ ~old.open
  <2>1. CASE old.head # view.head
    BY <2>1 DEF Cleared, CycleAt, NoCycle
  <2>2. CASE old.head = view.head /\ old.open /\ old.worked
    <3>1. c = [old EXCEPT !.open = FALSE, !.charged = FALSE, !.worked = FALSE]
      BY <2>2 DEF Cleared, CycleAt
    <3> HIDE DEF c, old
    <3> QED BY <1>2, <3>1 DEF CycleType
  <2>3. CASE old.head = view.head /\ ~(old.open /\ old.worked)
    BY <2>3 DEF Cleared, CycleAt
  <2> QED BY <2>1, <2>2, <2>3
<1>6. opened \in CycleType /\ opened.head = view.head /\ opened.open /\ ~opened.worked
        /\ opened.charged = c.charged
  <2> HIDE DEF c
  <2> QED BY <1>2 DEF CycleType
<1>7. \/ c.open /\ Cycle(c) /\ (step' = "cut" => FALSE)
      \/ ~c.open /\ Cycle(opened)
  BY DEF Counts
<1> HIDE DEF c, opened, old
<1>8. CASE c.open /\ Cycle(c) /\ step' # "cut"
  BY <1>1, <1>2, <1>3, <1>4, <1>8, CycleTyped DEF old, kd
<1>9. CASE ~c.open /\ Cycle(opened)
  BY <1>1, <1>2, <1>4, <1>5, <1>6, <1>9, CycleTyped DEF old, kd, c
<1> QED BY <1>7, <1>8, <1>9

LEMMA GateWaivesEffect ==
  ASSUME Types, GateWaives
  PROVE  /\ step = "gate" /\ ~review.old /\ Failed(Verdict(view.head))
         /\ UNCHANGED <<item, run, ghost, review, kv, cycle, rerun, hub, risky>>
         /\ Leave \/ (step' = "fresh" /\ view' = view)
         /\ hist'.vouched = hist.vouched \cup {view.head}
         /\ hist'.passed = hist.passed /\ hist'.billed = hist.billed /\ hist'.closed = hist.closed
         /\ hist'.posts = hist.posts
<1>1. /\ step = "gate" /\ ~review.old /\ Failed(Verdict(view.head))
      /\ UNCHANGED <<item, run, ghost, review, kv, cycle, rerun, hub, risky>>
      /\ Leave \/ (step' = "fresh" /\ view' = view)
  BY DEF GateWaives, Judged, Gate, InCycle, Failed, ledger, runs
<1>2. /\ hist'.vouched = hist.vouched \cup {view.head}
      /\ hist'.passed = hist.passed /\ hist'.billed = hist.billed /\ hist'.closed = hist.closed
      /\ hist'.posts = hist.posts
  BY DEF GateWaives, Types, HistType
<1> QED BY <1>1, <1>2

LEMMA GateReviewsAgainEffect ==
  ASSUME Types, GateReviewsAgain
  PROVE  /\ step = "gate" /\ Failed(Verdict(view.head)) /\ review' = NoReview
         /\ UNCHANGED <<item, run, ghost, kv, rerun, hub, step, view, risky, hist>>
         /\ cycle'["red"] = cycle["red"]
         /\ cycle'["rev"].head = cycle["rev"].head /\ cycle'["rev"].open = cycle["rev"].open
         /\ cycle'["rev"].charged = cycle["rev"].charged
              /\ cycle'["rev"].worked = cycle["rev"].worked
<1>1. /\ step = "gate" /\ Failed(Verdict(view.head)) /\ review' = NoReview
      /\ UNCHANGED <<item, run, ghost, kv, rerun, hub, step, view, risky, hist>>
  BY DEF GateReviewsAgain, Refused, Judged, Gate, Failed, runs, visit
<1>2. cycle' = [cycle EXCEPT !["rev"] = [cycle["rev"] EXCEPT !.again = "used"]]
  BY DEF GateReviewsAgain
<1>3. cycle["rev"] \in CycleType /\ cycle \in [Kinds -> CycleType]
  BY Fields DEF Types, Kinds
<1>4. cycle'["red"] = cycle["red"] /\ cycle'["rev"] = [cycle["rev"] EXCEPT !.again = "used"]
  BY <1>2, <1>3 DEF Kinds
<1> QED BY <1>1, <1>3, <1>4 DEF CycleType

LEMMA FixBlamesCIEffect ==
  ASSUME Types, FixBlamesCI
  PROVE  LET h == cycle["red"].head IN
         /\ step = "idle" /\ run.role = "fix" /\ run'.role = "none"
         /\ UNCHANGED <<ghost, review, kv, hub, step, view, risky>>
         /\ item'.pr = item.pr /\ item'.snap = item.snap /\ item'.state = "verifying"
         /\ h = hub.head /\ hub.status = "OPEN" /\ RerunAt(h) = "none"
         /\ cycle["red"].charged
         /\ rerun' = [head |-> h, at |-> "selected"]
         /\ cycle'["red"].head = h /\ ~cycle'["red"].open /\ ~cycle'["red"].charged
         /\ cycle'["rev"] = cycle["rev"]
         /\ hist'.billed = hist.billed \ {<<"red", h>>}
         /\ hist'.vouched = hist.vouched /\ hist'.passed = hist.passed /\ hist'.closed = hist.closed
         /\ hist'.posts = hist.posts
<1> DEFINE c == cycle["red"]
<1>1. c \in CycleType /\ cycle \in [Kinds -> CycleType]
  BY Fields DEF Types, Kinds
<1>2. /\ step = "idle" /\ run.role = "fix"
      /\ UNCHANGED <<ghost, review, kv, hub, step, view, risky>>
      /\ c.open /\ c.charged /\ c.head = hub.head /\ hub.status = "OPEN" /\ RerunAt(c.head) = "none"
      /\ rerun' = [head |-> c.head, at |-> "selected"]
      /\ hist' = [hist EXCEPT !.billed = @ \ {<<"red", c.head>>}]
  BY DEF FixBlamesCI, Ends, visit
<1>3. /\ hist'.billed = hist.billed \ {<<"red", c.head>>}
      /\ hist'.vouched = hist.vouched /\ hist'.passed = hist.passed /\ hist'.closed = hist.closed
      /\ hist'.posts = hist.posts
  BY <1>2 DEF Types, HistType
<1>4. cycle'["rev"] = cycle["rev"] /\ cycle'["red"] = [c EXCEPT !.open = FALSE, !.charged = FALSE]
  BY <1>1 DEF FixBlamesCI, Kinds, CycleType
<1>5. cycle'["red"].head = c.head /\ ~cycle'["red"].open /\ ~cycle'["red"].charged
  BY <1>1, <1>4 DEF CycleType
<1> DEFINE row == [At("verifying") EXCEPT !.attempts = c.before]
<1>6. row \in ItemType /\ row.pr = item.pr /\ row.snap = item.snap /\ row.state = "verifying"
  <2>1. c.before \in Nat
    BY <1>1 DEF CycleType
  <2> QED BY <2>1, AtShape DEF States, ItemType
<1>7. item'.pr = item.pr /\ item'.snap = item.snap /\ item'.state = "verifying"
        /\ run'.role = "none"
  <2>1. Becomes(row)
    BY DEF FixBlamesCI
  <2> HIDE DEF row
  <2> QED BY <1>6, <2>1, BecomesShape DEF NoRun
<1> QED BY <1>2, <1>3, <1>4, <1>5, <1>7

LEMMA HoldEffect ==
  ASSUME Types, NEW c, Hold(c)
  PROVE  item'.pr = item.pr /\ item'.snap = item.snap /\ item'.attempts = item.attempts
         /\ item'.state = "waiting" /\ item'.cause = c
BY DEF Hold, Types, ItemType

LEMMA StartsReviewEffect ==
  ASSUME Types, StartsReview
  PROVE  /\ step = "gate" /\ step' = "bind" /\ ~review.old /\ Verdict(view.head) = "none"
         /\ run.role = "none" /\ run'.role = "review" /\ run'.head = hub.head /\ owner' = "run"
         /\ UNCHANGED <<item, ghost, kv, cycle, rerun, hub, view, risky, hist>>
         /\ review'.head = review.head /\ review'.pr = review.pr /\ review'.verdict = review.verdict
         /\ review'.old = review.old
         /\ review'.run = IF review.run = "this" THEN "earlier" ELSE review.run
BY DEF StartsReview, Judged, Gate, InCycle, NoRun, Types, ReviewType

LEMMA SessionShipsEffect ==
  ASSUME Types, SessionShips
  PROVE  /\ hub.status = "OPEN" /\ owner \in {"nobody", "session"} /\ owner' = "nobody"
         /\ UNCHANGED <<run, kv, rerun, hub, step, risky>>
         /\ item'.state = "verifying" /\ item'.pr = hub.pr /\ item'.snap = 0
         /\ item'.attempts \in {0, item.attempts}
         /\ review' = NoReview
         /\ hist'.vouched = {} /\ hist'.passed = {} /\ hist'.closed = hist.closed
              /\ hist'.posts = hist.posts
         /\ \A k \in Kinds : /\ cycle'[k].head = cycle[k].head
                             /\ \/ cycle'[k] = cycle[k]
                                \/ ~cycle'[k].open /\ ~cycle'[k].charged /\ ~cycle'[k].worked
         /\ \A k \in Kinds, h \in Heads : <<k, h>> \in hist'.billed =>
              <<k, h>> \in hist.billed /\ cycle'[k] = cycle[k]
         /\ item.state \notin {"failed", "needs_you", "parked"} => cycle'["red"] = cycle["red"]
         /\ view'.old = (step # "idle")
         /\ view'.pr = view.pr /\ view'.snap = view.snap /\ view'.status = view.status
         /\ view'.head = view.head /\ view'.kind = view.kind /\ view'.attempts = view.attempts
<1> DEFINE stuck == item.state \in {"failed", "needs_you", "parked"}
           ks == IF stuck THEN Kinds ELSE {"rev"}
<1>1. /\ hub.status = "OPEN" /\ owner \in {"nobody", "session"} /\ owner' = "nobody"
      /\ UNCHANGED <<run, kv, rerun, hub, step, risky>>
  BY DEF SessionShips
<1>2. PICK a \in {0, item.attempts} :
        item' = [At("verifying") EXCEPT !.pr = hub.pr, !.snap = 0, !.attempts = a]
  <2>1. At("verifying").attempts = item.attempts
    BY AtShape DEF States
  <2> QED BY <2>1 DEF SessionShips
<1>3. item'.state = "verifying" /\ item'.pr = hub.pr /\ item'.snap = 0
        /\ item'.attempts \in {0, item.attempts}
  BY <1>2, AtShape DEF States, ItemType
<1>4. ResetReview(ks)
  BY DEF SessionShips
<1>5. ks \in SUBSET Kinds /\ "red" \in Kinds /\ ("red" \in ks => stuck)
  BY DEF Kinds
<1> HIDE DEF ks
<1>6. /\ review' = NoReview
      /\ hist'.vouched = {} /\ hist'.passed = {} /\ hist'.closed = hist.closed
           /\ hist'.posts = hist.posts
      /\ view'.old = (step # "idle")
      /\ view'.pr = view.pr /\ view'.snap = view.snap /\ view'.status = view.status
      /\ view'.head = view.head /\ view'.kind = view.kind /\ view'.attempts = view.attempts
  BY <1>4, <1>5, ResetEffect
<1>7. /\ \A k \in Kinds : /\ cycle'[k].head = cycle[k].head
                          /\ k \in ks => ~cycle'[k].open /\ ~cycle'[k].charged /\ ~cycle'[k].worked
                          /\ k \notin ks => cycle'[k] = cycle[k]
      /\ \A k \in Kinds, h \in Heads : <<k, h>> \in hist'.billed
           => <<k, h>> \in hist.billed /\ k \notin ks
  BY <1>4, <1>5, ResetEffect
<1> QED BY <1>1, <1>3, <1>5, <1>6, <1>7

LEMMA Learns ==
  ASSUME Types, Types', Flow, Reruns, [Next]_vars PROVE \A h \in Heads : Known(h)' =>
            Known(h) \/ (h = view.head /\ step \in {"post", "charge", "bind", "updated"})
<1> USE Fields DEF Types, vars, ledger, runs, visit, Mine, Released, Known, Flow, LooksTrue,
    RunOwns, Acting, Opening, Steps, Heads
<1>1. CASE Quiet
  BY <1>1 DEF Quiet, Leave, NoView
<1>2. CASE UNCHANGED vars
  BY <1>2
<1>3. CASE Visit
  BY <1>3 DEF Visit, NoView
<1>4. CASE OpenFails
  BY <1>4, OpenFailsEffect DEF Leave, NoView
<1>5. CASE Pushes
  BY <1>5, PushesEffect
<1>6. CASE Records
  BY <1>6 DEF Records, Leave, NoView
<1>7. CASE Looks
  BY <1>7 DEF Looks, Shows
<1>8. CASE DecidesClosed
  BY <1>8, DecidesClosedEffect DEF Leave, NoView
<1>9. CASE DecidesConflict
  BY <1>9, FollowBaseEffect DEF DecidesConflict, Decides, Keeps, Verdict, Leave, NoView
<1>10. CASE DecidesStaleRed
  BY <1>10 DEF DecidesStaleRed, Watching, Decides, Verdict
<1>11. CASE SelectRerun
  BY <1>11 DEF SelectRerun, Watching, Decides, Rerun, RerunAt
<1>12. CASE ResumeRerun
  BY <1>12 DEF ResumeRerun, Watching, Decides, RerunAt
<1>13. CASE PassesRerun
  BY <1>13 DEF PassesRerun, Watching, Decides, RerunAt, Rerun
<1>14. CASE Reserves
  BY <1>14 DEF Reserves, Rerun, Leave, NoView
<1>15. CASE Posts
  BY <1>15, PostedEffect DEF Leave, NoView
<1>16. CASE PostFails
  BY <1>16, PostedEffect DEF Leave, NoView
<1>17. CASE DecidesRed
  BY <1>17 DEF DecidesRed, Checks
<1>18. CASE DecidesGreen
  BY <1>18 DEF DecidesGreen, Checks, Leave, NoView
<1>19. CASE Counts
  BY <1>19, CountsEffect
<1>20. CASE CutPasses
  BY <1>20 DEF CutPasses, Due
<1>21. CASE CutRepoWide
  BY <1>21 DEF CutRepoWide, NoCycle, Cycle, Leave, NoView, Cut, Due
<1>22. CASE CutAgain
  BY <1>22 DEF CutAgain, Failed, Verdict, Exhausted, Cut, Due
<1>23. CASE CutWaives
  BY <1>23 DEF CutWaives, Verdict, Exhausted, Cut, Due
<1>24. CASE CutRebuilds
  BY <1>24 DEF CutRebuilds, Unconverged, Verdict, Exhausted, Cut, Due
<1>25. CASE Closes
  BY <1>25 DEF Closes
<1>26. CASE CloseFails
  BY <1>26 DEF CloseFails, Cycle, Leave, NoView
<1>27. CASE Finishes
  BY <1>27 DEF Finishes, Leave, NoView
<1>28. CASE FinishFails
  BY <1>28 DEF FinishFails, Leave, NoView
<1>29. CASE Starts
  BY <1>29 DEF Starts, NoRun, Kinds
<1>30. CASE Charges
  BY <1>30 DEF Charges, Cycle, Leave, NoView
<1>31. CASE GateSkipped
  BY <1>31 DEF GateSkipped
<1>32. CASE GateForgets
  BY <1>32 DEF GateForgets, InCycle, NoReview, Gate
<1>33. CASE GatePasses
  BY <1>33 DEF GatePasses, Leave, NoView, Judged, InCycle, Gate, Verdict
<1>34. CASE GateWaives
  BY <1>34, GateWaivesEffect DEF Leave, NoView
<1>35. CASE GateReviewsAgain
  <2>1. hist' = hist /\ review'.head = 0
    BY <1>35, GateReviewsAgainEffect DEF NoReview
  <2>2. ASSUME NEW h \in Heads PROVE h # 0
    OBVIOUS
  <2>3. ASSUME NEW h \in Heads, Known(h)' PROVE Known(h)
    BY <2>1, <2>2, <2>3
  <2> QED BY <2>3
<1>36. CASE GateFails
  BY <1>36 DEF GateFails, Refused, Judged, InCycle, Gate, Verdict, CycleAt, NoCycle
<1>37. CASE StartsReview
  BY <1>37, StartsReviewEffect DEF Verdict
<1>38. CASE Binds
  BY <1>38 DEF Binds, Leave, NoView, NoReview
<1>39. CASE FreshFollowsBase
  BY <1>39, FollowBaseEffect DEF FreshFollowsBase, Fresh, Unmoved, Keeps, Verdict, Leave, NoView
<1>40. CASE FreshPasses
  BY <1>40 DEF FreshPasses, Fresh, Unmoved
<1>41. CASE Requests
  BY <1>41, RequestsEffect DEF Leave, NoView
<1>42. CASE Notes
  BY <1>42, NotesEffect DEF Leave, NoView
<1>43. CASE UpdateConflicts
  BY <1>43 DEF UpdateConflicts, Update, Unmoved
<1>44. CASE UpdateMerges
  BY <1>44, UpdateMergesEffect DEF Unmoved
<1>45. CASE Updates
  BY <1>45, UpdatesEffect DEF Leave, NoView
<1>46. CASE \E v \in {"pass", "fail", "protected"} : ReviewVerdicts(v)
  BY <1>46, ReviewVerdictsEffect DEF Late
<1>47. CASE ReviewFades
  BY <1>47, ReviewFadesEffect DEF NoReview
<1>48. CASE FixDone
  BY <1>48, SavedEffect, FixEndsEffect
<1>49. CASE FixStops
  BY <1>49, SavedEffect, FixEndsEffect
<1>50. CASE FixFails
  BY <1>50, SavedEffect, FixEndsEffect
<1>51. CASE FixBlamesCI
  BY <1>51, FixBlamesCIEffect DEF RerunAt
<1>52. CASE BuildDone
  BY <1>52, SavedEffect DEF BuildDone
<1>53. CASE GhostEnds
  BY <1>53, FixEndsEffect DEF GhostEnds, visit
<1>54. CASE Go
  BY <1>54, AtShape, ResetEffect DEF Go, NoReview, States, Kinds
<1>55. CASE SessionShips
  <2>1. /\ hist'.posts = hist.posts /\ hist'.passed = {} /\ review'.head = 0
        /\ \A k \in Kinds, h \in Heads : <<k, h>> \in hist'.billed => <<k, h>> \in hist.billed
    BY <1>55, SessionShipsEffect DEF NoReview
  <2>2. ASSUME NEW h \in Heads, Known(h)' PROVE Known(h)
    BY <2>1, <2>2
  <2> QED BY <2>2
<1>56. CASE Pushed
  BY <1>56, PushedEffect
<1> QED BY QuietSteps, <1>1, <1>2, <1>3, <1>4, <1>5, <1>6, <1>7, <1>8, <1>9, <1>10, <1>11, <1>12,
    <1>13, <1>14, <1>15, <1>16, <1>17, <1>18, <1>19, <1>20, <1>21, <1>22, <1>23, <1>24, <1>25,
        <1>26, <1>27, <1>28, <1>29, <1>30, <1>31, <1>32, <1>33, <1>34, <1>35, <1>36, <1>37, <1>38,
            <1>39, <1>40, <1>41, <1>42, <1>43, <1>44, <1>45, <1>46, <1>47, <1>48, <1>49, <1>50,
                <1>51, <1>52, <1>53, <1>54, <1>55, <1>56 DEF Next, Daemon, Watches, Fixes, Merges,
                    Endings, World

LEMMA TypesKeep == ASSUME Types, Flow, Numbered, NewHeads, Reruns, Next PROVE Types'
<1> USE Fields, DeliveryAssumption DEF Types, vars, ledger, runs, visit
<1>1. CASE Visit
  <2>1. view' \in ViewType
    BY <1>1 DEF Visit, NoView, ViewType, Heads, Prs, Kinds
  <2> QED BY <1>1, <2>1 DEF Visit, Owners, Steps
<1>2. CASE HandsOver
  <2>1. item' \in ItemType
    BY <1>2 DEF HandsOver, Leave, NoView, ItemType, States, Heads, Prs
  <2> QED BY <1>2, LeaveTyped, <2>1 DEF HandsOver, Owners, Steps
<1>3. CASE OpenFails
  <2>1. item' \in ItemType
    BY <1>3, ReturnedShape DEF OpenFails, Types
  <2> QED BY <1>3, LeaveTyped, <2>1 DEF OpenFails, Released, Upset, Owners, Steps
<1>4. CASE OpenFindsMerged
  <2>1. item' \in ItemType
    BY <1>4 DEF OpenFindsMerged, Ship, Leave, NoView, Released, Shows, ItemType, States, Heads, Prs
  <2> QED BY <1>4, LeaveTyped, <2>1 DEF OpenFindsMerged, Ship, Released, Shows, Owners, Steps
<1>5. CASE Pushes
  <2>1. hub' \in HubType
    <3>1. view.snap \in Heads
      BY <1>5 DEF Pushes, Flow, RowFollows, Opening
    <3>2. hub.drift \in {"no", "behind", "conflict"} /\ hub.pr \in {0} \cup Prs
      BY DEF HubType
    <3>3. CASE UNCHANGED hub
      BY <3>3
    <3>4. CASE \E d \in {"no", hub.drift} : hub' = Commit(view.snap, d)
      BY <3>1, <3>2, <3>4, CommitShape
    <3>5. CASE hub.pr < MaxPrs /\ \E d \in {"no", "behind"} :
                 hub' = [Commit(view.snap, d) EXCEPT !.pr = @ + 1, !.status = "OPEN"]
      <4>1. PICK d \in {"no", "behind"} : hub' = [Commit(view.snap, d) EXCEPT !.pr = @ + 1, !.status = "OPEN"]
        BY <3>5
      <4>2. d \in {"no", "behind", "conflict"}
        OBVIOUS
      <4>3. Commit(view.snap, d) \in HubType /\ Commit(view.snap, d).pr = hub.pr
        BY <3>1, <4>2, CommitShape
      <4>4. hub.pr + 1 \in Prs
        BY <3>2, <3>5 DEF Prs
      <4> DEFINE c == Commit(view.snap, d)
      <4>5. hub' = [c EXCEPT !.pr = hub.pr + 1, !.status = "OPEN"]
        BY <4>1, <4>3
      <4> HIDE DEF c
      <4> QED BY <4>3, <4>4, <4>5 DEF HubType, c
    <3> QED BY <1>5, <3>3, <3>4, <3>5 DEF Pushes
  <2> QED BY <1>5, <2>1 DEF Pushes, Shows, Commit, Owners, Steps
<1>6. CASE Records
  <2>1. item' \in ItemType
    BY <1>6 DEF Records, Leave, NoView, ItemType, States, Heads, Prs
  <2> QED BY <1>6, LeaveTyped, <2>1 DEF Records, Owners, Steps
<1>7. CASE Looks
  <2>1. view' \in ViewType
    <3>1. PICK status \in Shows(view.pr) :
            view' = [view EXCEPT !.status = status, !.head = hub.head, !.checks = hub.checks, !.drift = hub.drift]
      BY <1>7 DEF Looks
    <3>2. status \in {"none", "OPEN", "MERGED", "CLOSED"} /\ hub \in HubType
      BY DEF Shows, HubType
    <3> QED BY <3>1, <3>2 DEF HubType, ViewType
  <2> QED BY <1>7, <2>1 DEF Looks, Shows, Owners, Steps
<1>8. CASE LookFails
  <2>1. item' \in ItemType
    BY <1>8 DEF LookFails, Pending, Leave, NoView, Hold, Released, ItemType, States, Heads, Prs
  <2> QED BY <1>8, LeaveTyped, <2>1 DEF LookFails, Pending, Hold, Released, Owners, Steps
<1>9. CASE DecidesMerged
  <2>1. item' \in ItemType
    BY <1>9 DEF DecidesMerged, Ship, Leave, NoView, Released, Decides, ItemType, States, Heads, Prs
  <2> QED BY <1>9, LeaveTyped, <2>1 DEF DecidesMerged, Ship, Released, Decides, Owners, Steps
<1>10. CASE DecidesClosed
  <2>1. item' \in ItemType
    <3>1. Retried(view.attempts) \in ItemType
      BY RetriedShape
    <3>2. [Retried(view.attempts) EXCEPT !.pr = 0] \in ItemType
      BY <3>1 DEF ItemType
    <3> QED BY <1>10, <3>2 DEF DecidesClosed
  <2> QED BY <1>10, LeaveTyped, <2>1 DEF DecidesClosed, Released, ClosedByUs, Retried, Decides,
      Owners, Steps
<1>11. CASE DecidesConflict
  <2>1. item' \in ItemType
    BY <1>11 DEF DecidesConflict, FollowBase, Released, Leave, NoView, Verdict, Keeps, Decides,
       ItemType,
     States, Heads, Prs
  <2>2. kv' \in KvType
    BY <1>11 DEF DecidesConflict, FollowBase, Released, Leave, NoView, Verdict, Keeps, Decides,
       KvType,
     Heads, Prs
  <2>3. view' \in ViewType
    <3>1. (Verdict(view.head) = "pass") \in BOOLEAN /\ (view.old \/ review.old) \in BOOLEAN
      OBVIOUS
    <3> QED BY <1>11, LeaveTyped, <3>1, CarriedShape DEF DecidesConflict, FollowBase
  <2> QED BY <1>11, LeaveTyped, <2>1, <2>2, <2>3 DEF DecidesConflict, FollowBase, Released,
      Verdict, Keeps, Decides,
     Owners, Steps
<1>12. CASE DecidesStaleRed
  <2>1. kv' \in KvType
    BY <1>12 DEF DecidesStaleRed, Verdict, Watching, Decides, KvType, Heads, Prs
  <2>2. view' \in ViewType
    <3>1. (Verdict(view.head) = "pass") \in BOOLEAN /\ (view.old \/ review.old) \in BOOLEAN
      OBVIOUS
    <3> QED BY <1>12, <3>1, CarriedShape DEF DecidesStaleRed
  <2> QED BY <1>12, <2>1, <2>2 DEF DecidesStaleRed, Verdict, Watching, Decides, Owners, Steps
<1>13. CASE SelectRerun
  <2>1. rerun' \in RerunType
    BY <1>13 DEF SelectRerun, Rerun, RerunAt, Watching, Decides, RerunType
  <2> QED BY <1>13, <2>1 DEF SelectRerun, Rerun, RerunAt, Watching, Decides, Owners, Steps
<1>14. CASE ResumeRerun
  <2> QED BY <1>14 DEF ResumeRerun, RerunAt, Watching, Decides, Owners, Steps
<1>15. CASE AwaitRerun
  <2>1. item' \in ItemType
    BY <1>15 DEF AwaitRerun, Pending, Leave, NoView, Hold, Released, Rerun, RerunAt, Watching,
       Decides,
     ItemType, States, Heads, Prs
  <2>2. rerun' \in RerunType
    BY <1>15 DEF AwaitRerun, Pending, Leave, NoView, Hold, Released, Rerun, RerunAt, Watching,
       Decides,
     RerunType
  <2> QED BY <1>15, LeaveTyped, <2>1, <2>2 DEF AwaitRerun, Pending, Hold, Released, Rerun,
      RerunAt, Watching,
     Decides, Owners, Steps
<1>16. CASE PassesRerun
  <2>1. rerun' \in RerunType
    BY <1>16 DEF PassesRerun, RerunAt, Watching, Decides, Rerun, RerunType
  <2> QED BY <1>16, <2>1 DEF PassesRerun, RerunAt, Watching, Decides, Rerun, Owners, Steps
<1>17. CASE Reserves
  <2>1. rerun' \in RerunType
    BY <1>17 DEF Reserves, Leave, NoView, Rerun, RerunType
  <2> QED BY <1>17, LeaveTyped, <2>1 DEF Reserves, Rerun, Owners, Steps
<1>18. CASE Posts
  <2>1. item' \in ItemType
    BY <1>18 DEF Posts, Pending, Leave, NoView, Hold, Released, ItemType, States, Heads, Prs
  <2>2. hub' \in HubType
    BY <1>18 DEF Posts, Pending, Leave, NoView, Hold, Released, HubType, Heads, Prs
  <2>3. hist' \in HistType
    BY <1>18, PostTyped DEF Posts, Flow
  <2> QED BY <1>18, LeaveTyped, <2>1, <2>2, <2>3 DEF Posts, Pending, Hold, Released, Owners, Steps
<1>19. CASE PostFails
  <2>1. item' \in ItemType
    BY <1>19 DEF PostFails, Pending, Leave, NoView, Hold, Released, Rerun, Upset, ItemType,
       States, Heads,
     Prs
  <2>2. rerun' \in RerunType
    BY <1>19 DEF PostFails, Pending, Leave, NoView, Hold, Released, Rerun, Upset, RerunType
  <2>3. hist' \in HistType
    BY <1>19, PostTyped DEF PostFails, Flow
  <2> QED BY <1>19, LeaveTyped, <2>1, <2>2, <2>3 DEF PostFails, Pending, Hold, Released, Rerun,
      Upset, Owners, Steps
<1>20. CASE DecidesPending
  <2>1. item' \in ItemType
    BY <1>20 DEF DecidesPending, Pending, Leave, NoView, Hold, Released, Checks, ItemType, States,
       Heads,
     Prs
  <2> QED BY <1>20, LeaveTyped, <2>1 DEF DecidesPending, Pending, Hold, Released, Checks, Owners,
      Steps
<1>21. CASE DecidesRed
  <2>1. view' \in ViewType
    BY <1>21 DEF DecidesRed, Checks, ViewType, Heads, Prs, Kinds
  <2> QED BY <1>21, <2>1 DEF DecidesRed, Checks, Owners, Steps
<1>22. CASE DecidesGreen
  <2> QED BY <1>22, LeaveTyped DEF DecidesGreen, Checks, Owners, Steps
<1>23. CASE Counts
  <2>1. ghost' \in RunType
    BY <1>23 DEF Counts, Cycle, Cleared, CycleAt, NoCycle, RunType, Heads, Kinds
  <2>2. cycle' \in [Kinds -> CycleType]
    <3>1. view.kind \in Kinds
      BY <1>23 DEF Counts, Flow, KindFits, Fixing
    <3> DEFINE c == Cleared(view.kind, view.head)
    <3>2. c \in CycleType
      BY <3>1, CycleShape
    <3>3. [c EXCEPT !.open = TRUE, !.worked = FALSE, !.before = view.attempts] \in CycleType
      BY <3>2 DEF CycleType
    <3>4. Cycle(c) \/ Cycle([c EXCEPT !.open = TRUE, !.worked = FALSE, !.before = view.attempts])
      BY <1>23 DEF Counts
    <3> HIDE DEF c
    <3> QED BY <3>1, <3>2, <3>3, <3>4, CycleTyped
  <2> QED BY <1>23, <2>1, <2>2 DEF Counts, Cycle, Cleared, CycleAt, NoCycle, Owners, Steps
<1>24. CASE CountWaits
  <2> QED BY <1>24, LeaveTyped DEF CountWaits, Owners, Steps
<1>25. CASE CutPasses
  <2> QED BY <1>25 DEF CutPasses, Due, Fee, Owners, Steps
<1>26. CASE CutRepoWide
  <2>1. item' \in ItemType
    <3>1. cycle["red"].before \in Nat
      BY DEF Kinds, CycleType
    <3> QED BY <1>26, <3>1 DEF CutRepoWide, ItemType, States
  <2>2. cycle' \in [Kinds -> CycleType]
    BY <1>26 DEF CutRepoWide, Leave, NoView, Released, NoCycle, Cut, Due, Fee, Cycle, CycleType,
       Heads
  <2> QED BY <1>26, LeaveTyped, <2>1, <2>2 DEF CutRepoWide, Released, NoCycle, Cut, Due, Fee,
      Cycle, Owners, Steps
<1>27. CASE CutFails
  <2>1. item' \in ItemType
    <3>1. Due \in Nat
      BY DEF Due, Fee
    <3> QED BY <1>27, <3>1 DEF CutFails, ItemType, States
  <2> QED BY <1>27, LeaveTyped, <2>1 DEF CutFails, Released, Cut, Due, Fee, Owners, Steps
<1>28. CASE CutAgain
  <2> QED BY <1>28 DEF CutAgain, Verdict, Failed, Exhausted, Cut, Due, Fee, Owners, Steps
<1>29. CASE CutWaives
  <2>1. kv' \in KvType
    BY <1>29 DEF CutWaives, Exhausted, Cut, Due, Fee, Verdict, KvType, Heads, Prs
  <2>2. hist' \in HistType
    <3>1. view.head \in Heads
      BY <1>29 DEF CutWaives, Exhausted, Cut, Flow, LooksTrue, Acting, Opening, Steps
    <3> QED BY <1>29, <3>1 DEF CutWaives, HistType
  <2> QED BY <1>29, <2>1, <2>2 DEF CutWaives, Exhausted, Cut, Due, Fee, Verdict, Owners, Steps
<1>30. CASE CutRebuilds
  <2>1. kv' \in KvType
    BY <1>30 DEF CutRebuilds, Unconverged, Verdict, Exhausted, Cut, Due, Fee, KvType, Heads, Prs
  <2> QED BY <1>30, <2>1 DEF CutRebuilds, Unconverged, Verdict, Exhausted, Cut, Due, Fee, Owners,
      Steps
<1>31. CASE CutAsks
  <2>1. item' \in ItemType
    BY <1>31 DEF CutAsks, Leave, NoView, Released, Unconverged, Verdict, Exhausted, Cut, Due, Fee,
     ItemType, States, Heads, Prs
  <2> QED BY <1>31, LeaveTyped, <2>1 DEF CutAsks, Released, Unconverged, Verdict, Exhausted, Cut,
      Due, Fee, Owners,
     Steps
<1>32. CASE Closes
  <2>1. hub' \in HubType
    BY <1>32 DEF Closes, HubType, Heads, Prs
  <2>2. hist' \in HistType
    <3>1. hub.status = "OPEN" => hub.pr \in Prs
      BY DEF Numbered
    <3>2. CASE hub.status = "OPEN"
      BY <1>32, <3>1, <3>2 DEF Closes, HistType
    <3>3. CASE hub.status # "OPEN"
      BY <1>32, <3>3 DEF Closes
    <3> QED BY <3>2, <3>3
  <2> QED BY <1>32, <2>1, <2>2 DEF Closes, Owners, Steps
<1>33. CASE CloseFails
  <2>1. kv' \in KvType
    BY <1>33 DEF CloseFails, Leave, NoView, Upset, Cycle, KvType, Heads, Prs
  <2>2. cycle' \in [Kinds -> CycleType]
    <3>1. view.kind \in Kinds /\ [cycle["rev"] EXCEPT !.open = FALSE] \in CycleType
      BY <1>33 DEF CloseFails, Flow, KindFits, Kinds, CycleType
    <3> QED BY <1>33, <3>1, CycleTyped DEF CloseFails
  <2> QED BY <1>33, LeaveTyped, <2>1, <2>2 DEF CloseFails, Upset, Cycle, Owners, Steps
<1>34. CASE Finishes
  <2>1. item' \in ItemType
    BY <1>34 DEF Finishes, Leave, NoView, Released, ItemType, States, Heads, Prs
  <2>2. kv' \in KvType
    BY <1>34 DEF Finishes, Leave, NoView, Released, KvType, Heads, Prs
  <2> QED BY <1>34, LeaveTyped, <2>1, <2>2 DEF Finishes, Released, Owners, Steps
<1>35. CASE FinishFails
  <2>1. cycle' \in [Kinds -> CycleType]
    <3>1. [cycle EXCEPT !["rev"].open = FALSE] \in [Kinds -> CycleType]
      BY DEF CycleType, Kinds
    <3> QED BY <1>35, <3>1 DEF FinishFails
  <2> QED BY <1>35, LeaveTyped, <2>1 DEF FinishFails, Upset, Owners, Steps
<1>36. CASE FixWaits
  <2>1. item' \in ItemType
    BY <1>36 DEF FixWaits, Leave, NoView, Released, Hold, ItemType, States, Heads, Prs
  <2> QED BY <1>36, LeaveTyped, <2>1 DEF FixWaits, Released, Hold, Owners, Steps
<1>37. CASE NotStarted
  <2> QED BY <1>37, LeaveTyped DEF NotStarted, Upset, Owners, Steps
<1>38. CASE Starts
  <2>1. item' \in ItemType
    BY <1>38 DEF Starts, NoRun, Kinds, ItemType, States, Heads, Prs
  <2>2. run' \in RunType
    BY <1>38 DEF Starts, NoRun, Kinds, RunType, Heads
  <2> QED BY <1>38, <2>1, <2>2 DEF Starts, NoRun, Kinds, Owners, Steps
<1>39. CASE Charges
  <2> DEFINE c == cycle[view.kind]
             after == view.attempts + Fee(c)
             Attributed(r) == IF view.conflict
               THEN r ELSE [r EXCEPT !.kind = view.kind, !.after = after]
             d == [c EXCEPT !.charged = TRUE, !.own = @ \/ (view.kind = "rev" /\ ~view.conflict)]
  <2>1. view.kind \in Kinds /\ view.head \in Heads
    BY <1>39 DEF Charges, Flow, KindFits, LooksTrue, Fixing, Acting, Opening, Steps
  <2>2. c \in CycleType /\ after \in Nat
    BY <2>1 DEF Fee
  <2>3. d \in CycleType
    BY <2>2 DEF CycleType
  <2>4. ASSUME NEW r \in RunType PROVE Attributed(r) \in RunType
    BY <2>1, <2>2 DEF RunType
  <2>5. cycle' \in [Kinds -> CycleType]
    <3>1. Cycle(d)
      BY <1>39 DEF Charges
    <3> HIDE DEF d
    <3> QED BY <2>1, <2>3, <3>1, CycleTyped
  <2>6. run' \in RunType /\ ghost' \in RunType
    <3>1. /\ run' = IF run.role = "fix" THEN Attributed(run) ELSE run
          /\ ghost' = IF run.role # "fix" /\ ghost.role = "fix" THEN Attributed(ghost) ELSE ghost
      BY <1>39 DEF Charges
    <3> HIDE DEF Attributed
    <3> QED BY <2>4, <3>1
  <2>7. item' \in ItemType
    <3>1. item' = [item EXCEPT !.attempts = after]
      BY <1>39 DEF Charges
    <3> QED BY <2>2, <3>1 DEF ItemType
  <2>8. hist' \in HistType
    <3>1. hist' = hist \/ hist' = [hist EXCEPT !.billed = @ \cup {<<view.kind, view.head>>}]
      BY <1>39 DEF Charges
    <3> QED BY <2>1, <3>1 DEF HistType
  <2> QED BY <1>39, LeaveTyped, <2>5, <2>6, <2>7, <2>8 DEF Charges
<1>40. CASE GateSkipped
  <2> QED BY <1>40 DEF GateSkipped, Owners, Steps
<1>41. CASE VetBlocks
  <2>1. item' \in ItemType
    BY <1>41 DEF VetBlocks, Leave, NoView, Released, Upset, Gate, ItemType, States, Heads, Prs
  <2> QED BY <1>41, LeaveTyped, <2>1 DEF VetBlocks, Released, Upset, Gate, Owners, Steps
<1>42. CASE GateForgets
  <2>1. review' \in ReviewType
    BY <1>42 DEF GateForgets, NoReview, Gate, InCycle, ReviewType, Heads, Prs
  <2> QED BY <1>42, <2>1 DEF GateForgets, NoReview, Gate, InCycle, Owners, Steps
<1>43. CASE GatePasses
  <2> QED BY <1>43, LeaveTyped DEF GatePasses, Judged, Verdict, Gate, InCycle, Owners, Steps
<1>44. CASE GateWaives
  <2>1. hist' \in HistType
    <3>1. view.head \in Heads
      BY <1>44 DEF GateWaives, Judged, Gate, Flow, LooksTrue, Acting, Opening, Steps
    <3> QED BY <1>44, <3>1 DEF GateWaives, HistType
  <2> QED BY <1>44, LeaveTyped, <2>1 DEF GateWaives, Judged, Verdict, Gate, InCycle, Owners, Steps
<1>45. CASE GateReviewsAgain
  <2>1. review' \in ReviewType
    BY <1>45 DEF GateReviewsAgain, CycleAt, NoCycle, NoReview, Refused, Judged, Verdict, Gate,
       InCycle,
     ReviewType, Heads, Prs
  <2>2. cycle' \in [Kinds -> CycleType]
    BY <1>45 DEF GateReviewsAgain, CycleType, Kinds
  <2> QED BY <1>45, <2>1, <2>2 DEF GateReviewsAgain, CycleAt, NoCycle, NoReview, Refused, Judged,
      Verdict, Gate,
     InCycle, Owners, Steps
<1>46. CASE GateFails
  <2>1. view' \in ViewType
    BY <1>46 DEF GateFails, CycleAt, NoCycle, Refused, Judged, Verdict, Gate, InCycle, ViewType,
       Heads,
     Prs, Kinds
  <2> QED BY <1>46, <2>1 DEF GateFails, CycleAt, NoCycle, Refused, Judged, Verdict, Gate, InCycle,
      Owners, Steps
<1>47. CASE GateWaits
  <2>1. item' \in ItemType
    BY <1>47 DEF GateWaits, Leave, NoView, Judged, Verdict, Gate, InCycle, ItemType, States,
       Heads, Prs
  <2> QED BY <1>47, LeaveTyped, <2>1 DEF GateWaits, Judged, Verdict, Gate, InCycle, Owners, Steps
<1>48. CASE StartsReview
  <2>1. run' \in RunType
    BY <1>48 DEF StartsReview, Judged, Verdict, Gate, InCycle, NoRun, RunType, Heads, Kinds
  <2>2. review' \in ReviewType
    BY <1>48 DEF StartsReview, Judged, Verdict, Gate, InCycle, NoRun, ReviewType, Heads, Prs
  <2> QED BY <1>48, <2>1, <2>2 DEF StartsReview, Judged, Verdict, Gate, InCycle, NoRun, Owners,
      Steps
<1>49. CASE Binds
  <2>1. review' \in ReviewType
    BY <1>49 DEF Binds, Leave, NoView, NoReview, ReviewType, Heads, Prs
  <2>2. view' \in ViewType
    BY <1>49, LeaveTyped DEF Binds, Leave, NoView, NoReview, ViewType, Heads, Prs, Kinds
  <2> QED BY <1>49, LeaveTyped, <2>1, <2>2 DEF Binds, NoReview, Owners, Steps
<1>50. CASE QueueWaits
  <2>1. item' \in ItemType
    BY <1>50 DEF QueueWaits, Leave, NoView, Hold, Released, ItemType, States, Heads, Prs
  <2> QED BY <1>50, LeaveTyped, <2>1 DEF QueueWaits, Hold, Released, Owners, Steps
<1>51. CASE FreshPending
  <2>1. item' \in ItemType
    BY <1>51 DEF FreshPending, Pending, Leave, NoView, Hold, Released, Fresh, Unmoved, ItemType,
       States,
     Heads, Prs
  <2> QED BY <1>51, LeaveTyped, <2>1 DEF FreshPending, Pending, Hold, Released, Fresh, Unmoved,
      Owners, Steps
<1>52. CASE FreshFollowsBase
  <2>1. item' \in ItemType
    BY <1>52 DEF FreshFollowsBase, Fresh, Unmoved, FollowBase, Released, Leave, NoView, Verdict,
       Keeps,
     ItemType, States, Heads, Prs
  <2>2. kv' \in KvType
    BY <1>52 DEF FreshFollowsBase, Fresh, Unmoved, FollowBase, Released, Leave, NoView, Verdict,
       Keeps,
     KvType, Heads, Prs
  <2>3. view' \in ViewType
    <3>1. (Verdict(view.head) = "pass") \in BOOLEAN /\ (view.old \/ review.old) \in BOOLEAN
      OBVIOUS
    <3> QED BY <1>52, LeaveTyped, <3>1, CarriedShape DEF FreshFollowsBase, FollowBase
  <2> QED BY <1>52, LeaveTyped, <2>1, <2>2, <2>3 DEF FreshFollowsBase, Fresh, Unmoved, FollowBase,
      Released,
     Verdict, Keeps, Owners, Steps
<1>53. CASE FreshPasses
  <2> QED BY <1>53 DEF FreshPasses, Fresh, Unmoved, Owners, Steps
<1>54. CASE Requests
  <2>1. hub' \in HubType
    BY <1>54, QueuedShape DEF Requests
  <2> QED BY <1>54, LeaveTyped, <2>1 DEF Requests, Unmoved, Owners, Steps
<1>55. CASE RequestLost
  <2>1. hub' \in HubType
    BY <1>55, QueuedShape DEF RequestLost
  <2> QED BY <1>55, LeaveTyped, <2>1 DEF RequestLost, Unmoved, Upset, Owners, Steps
<1>56. CASE Notes
  <2>1. item' \in ItemType
    BY <1>56 DEF Notes, Leave, NoView, Ship, Released, ItemType, States, Heads, Prs
  <2>2. kv' \in KvType
    BY <1>56 DEF Notes, Leave, NoView, Ship, Released, KvType, Heads, Prs
  <2>3. view' \in ViewType
    BY <1>56, LeaveTyped DEF Notes, Leave, NoView, Ship, Released, ViewType, Heads, Prs, Kinds
  <2> QED BY <1>56, LeaveTyped, <2>1, <2>2, <2>3 DEF Notes, Ship, Released, Owners, Steps
<1>57. CASE UpdateConflicts
  <2>1. view' \in ViewType
    BY <1>57 DEF UpdateConflicts, Unmoved, Update, ViewType, Heads, Prs, Kinds
  <2> QED BY <1>57, <2>1 DEF UpdateConflicts, Unmoved, Update, Owners, Steps
<1>58. CASE UpdateMerges
  <2>1. Another \in Heads /\ Commit(Another, "no") \in HubType
    BY <1>58, AnotherIsNew, CommitShape DEF UpdateMerges
  <2>2. hub' \in HubType
    <3>1. hub' = [Commit(Another, "no") EXCEPT !.commits = Another]
      BY <1>58 DEF UpdateMerges
    <3> QED BY <2>1, <3>1 DEF HubType
  <2>3. PICK unchanged \in BOOLEAN :
          /\ view' = [view EXCEPT !.head = Another, !.unchanged = unchanged]
          /\ hist' = IF unchanged /\ view.head \in hist.vouched
                     THEN [hist EXCEPT !.vouched = @ \cup {Another}] ELSE hist
    BY <1>58 DEF UpdateMerges
  <2>4. view' \in ViewType
    BY <2>1, <2>3 DEF ViewType
  <2>5. hist' \in HistType
    <3>1. [hist EXCEPT !.vouched = @ \cup {Another}] \in HistType
      BY <2>1 DEF HistType
    <3> QED BY <2>3, <3>1
  <2> QED BY <1>58, <2>2, <2>4, <2>5 DEF UpdateMerges, Steps
<1>59. CASE UpdateFails
  <2>1. item' \in ItemType
    BY <1>59 DEF UpdateFails, Pending, Leave, NoView, Hold, Released, Unmoved, Upset, Update,
       ItemType,
     States, Heads, Prs
  <2> QED BY <1>59, LeaveTyped, <2>1 DEF UpdateFails, Pending, Hold, Released, Unmoved, Upset,
      Update, Owners, Steps
<1>60. CASE Updates
  <2>1. item' \in ItemType
    BY <1>60 DEF Updates, Pending, Leave, NoView, Hold, Released, NoReview, ItemType, States,
       Heads, Prs
  <2>2. review' \in ReviewType
    BY <1>60 DEF Updates, Pending, Leave, NoView, Hold, Released, NoReview, ReviewType, Heads, Prs
  <2>3. view' \in ViewType
    BY <1>60, LeaveTyped DEF Updates, Pending, Leave, NoView, Hold, Released, NoReview, ViewType,
       Heads,
     Prs, Kinds
  <2> QED BY <1>60, LeaveTyped, <2>1, <2>2, <2>3 DEF Updates, Pending, Hold, Released, NoReview,
      Owners, Steps
<1>61. CASE \E v \in {"pass", "fail", "protected"} : ReviewVerdicts(v)
  <2>1. PICK v \in {"pass", "fail", "protected"} : ReviewVerdicts(v)
    BY <1>61
  <2>2. item' \in ItemType /\ owner' \in Owners /\ run' \in RunType
    <3>1. Becomes(item) \/ Becomes(At("verifying"))
      BY <2>1 DEF ReviewVerdicts
    <3> QED BY <3>1, BecomesShape, AtShape DEF States
  <2>3. review' \in ReviewType
    <3>1. review' = review \/ review' = [review EXCEPT !.run = "this", !.verdict = v]
      BY <2>1 DEF ReviewVerdicts
    <3> QED BY <3>1 DEF ReviewType
  <2>4. hist' \in HistType
    <3>1. CASE UNCHANGED hist
      BY <3>1
    <3>2. CASE hist' = [hist EXCEPT !.vouched = @ \cup {run.head}, !.passed = @ \cup ({review.head} \cap Heads)]
      <4>1. run.head \in Heads
        BY <2>1 DEF ReviewVerdicts, Ends, Flow, RunOwns, RunType
      <4> QED BY <3>2, <4>1 DEF HistType
    <3> QED BY <2>1, <3>1, <3>2 DEF ReviewVerdicts
  <2> QED BY <2>1, <2>2, <2>3, <2>4 DEF ReviewVerdicts
<1>62. CASE ReviewFades
  <2>1. item' \in ItemType
    <3>1. /\ item \in ItemType /\ At("verifying") \in ItemType /\ At("needs_you") \in ItemType
          /\ [At("waiting") EXCEPT !.cause = "review_inconclusive"] \in ItemType
      BY AtShape, InconclusiveShape DEF Types, States
    <3> QED BY <1>62, <3>1, BecomesShape DEF ReviewFades
  <2>2. run' \in RunType
    BY <1>62 DEF ReviewFades, At, Ends, Becomes, NoRun, Upset, Late, NoReview, RunType, Heads, Kinds
  <2>3. review' \in ReviewType
    <3>1. NoReview \in ReviewType
      BY DEF NoReview, ReviewType
    <3> QED BY <1>62, <3>1 DEF ReviewFades
  <2> QED BY <1>62, <2>1, <2>2, <2>3 DEF ReviewFades, At, Ends, Becomes, NoRun, Upset, Late,
      NoReview, Owners, Steps
<1>63. CASE FixDone
  <2>1. At("verifying") \in ItemType
    BY AtShape DEF States
  <2>2. item' \in ItemType /\ hub' \in HubType /\ owner' \in Owners /\ run' \in RunType
    <3>1. Saved(At("verifying"))
      BY <1>63 DEF FixDone
    <3> QED BY <2>1, <3>1, SavedShape
  <2>3. cycle' \in [Kinds -> CycleType] /\ hist' \in HistType
    BY <1>63, WorkedTyped DEF FixDone
  <2> QED BY <1>63, <2>2, <2>3 DEF FixDone
<1>64. CASE FixStops
  <2>1. At("verifying") \in ItemType
    BY AtShape DEF States
  <2>2. item' \in ItemType /\ hub' \in HubType /\ owner' \in Owners /\ run' \in RunType
    <3>1. Saved(At("verifying"))
      BY <1>64 DEF FixStops
    <3> QED BY <2>1, <3>1, SavedShape
  <2>3. cycle' \in [Kinds -> CycleType]
    BY <1>64 DEF FixStops, Worked
  <2>4. UNCHANGED <<ghost, review, kv, rerun, step, view, risky, hist>> /\ left' \in Nat
    BY <1>64 DEF FixStops, Upset, Worked
  <2> QED BY <2>2, <2>3, <2>4
<1>65. CASE FixFails
  <2>1. Retried(item.attempts) \in ItemType
    BY RetriedShape DEF States
  <2>2. item' \in ItemType /\ hub' \in HubType /\ owner' \in Owners /\ run' \in RunType
    <3>1. Saved(Retried(item.attempts))
      BY <1>65 DEF FixFails
    <3> QED BY <2>1, <3>1, SavedShape
  <2>3. cycle' \in [Kinds -> CycleType] /\ hist' \in HistType
    BY <1>65, WorkedTyped DEF FixFails, Upset
  <2> QED BY <1>65, <2>2, <2>3 DEF FixFails, Upset
<1>66. CASE FixBlamesCI
  <2>1. item' \in ItemType
    <3>1. cycle["red"].before \in Nat
      BY DEF Kinds, CycleType
    <3>2. At("verifying") \in ItemType
      BY AtShape DEF States
    <3>3. [At("verifying") EXCEPT !.attempts = cycle["red"].before] \in ItemType
      BY <3>1, <3>2 DEF ItemType
    <3> QED BY <1>66, <3>3, BecomesShape DEF FixBlamesCI
  <2>2. run' \in RunType
    BY <1>66 DEF FixBlamesCI, At, Ends, Becomes, NoRun, Upset, RerunAt, RunType, Heads, Kinds
  <2>3. cycle' \in [Kinds -> CycleType]
    <3>1. [cycle EXCEPT !["red"].open = FALSE, !["red"].charged = FALSE] \in [Kinds -> CycleType]
      BY DEF CycleType, Kinds
    <3> QED BY <1>66, <3>1 DEF FixBlamesCI
  <2>4. rerun' \in RerunType
    BY <1>66 DEF FixBlamesCI, At, Ends, Becomes, NoRun, Upset, RerunAt, RerunType
  <2>5. hist' \in HistType
    BY <1>66 DEF FixBlamesCI, At, Ends, Becomes, NoRun, Upset, RerunAt, HistType, Heads, Prs, Kinds
  <2> QED BY <1>66, <2>1, <2>2, <2>3, <2>4, <2>5 DEF FixBlamesCI, At, Ends, Becomes, NoRun, Upset,
      RerunAt, Owners,
     Steps
<1>67. CASE BuildDone
  <2>1. At("verifying") \in ItemType
    BY AtShape DEF States
  <2>2. item' \in ItemType /\ hub' \in HubType /\ owner' \in Owners /\ run' \in RunType
    <3>1. Saved(At("verifying"))
      BY <1>67 DEF BuildDone
    <3> QED BY <2>1, <3>1, SavedShape
  <2> QED BY <1>67, <2>2 DEF BuildDone
<1>68. CASE BuildFails
  <2>1. Retried(item.attempts) \in ItemType /\ Becomes(Retried(item.attempts))
    BY <1>68, RetriedShape DEF BuildFails
  <2>2. item' \in ItemType /\ owner' \in Owners /\ run' \in RunType
    BY <2>1, BecomesShape
  <2> QED BY <1>68, <2>2 DEF BuildFails, Upset
<1>69. CASE GhostEnds
  <2>1. ghost' \in RunType
    BY <1>69 DEF GhostEnds, NoRun, RunType
  <2>2. cycle' \in [Kinds -> CycleType] /\ hist' \in HistType
    BY <1>69, WorkedTyped DEF GhostEnds
  <2> QED BY <1>69, <2>1, <2>2 DEF GhostEnds
<1>70. CASE Builds
  <2>1. item' \in ItemType
    BY <1>70 DEF Builds, At, CanCommit, NoRun, ItemType, States, Heads, Prs
  <2>2. run' \in RunType
    BY <1>70 DEF Builds, At, CanCommit, NoRun, RunType, Heads, Kinds
  <2> QED BY <1>70, <2>1, <2>2 DEF Builds, At, CanCommit, NoRun, Owners, Steps
<1>71. CASE Wakes
  <2>1. item' \in ItemType
    BY <1>71, AtShape DEF Wakes, States
  <2> QED BY <1>71, <2>1 DEF Wakes, At, Owners, Steps
<1>72. CASE GivesUp
  <2>1. item' \in ItemType
    BY <1>72 DEF GivesUp, At, ItemType, States, Heads, Prs
  <2> QED BY <1>72, <2>1 DEF GivesUp, At, Owners, Steps
<1>73. CASE Crash
  <2> QED BY <1>73, LeaveTyped DEF Crash, Upset, Owners, Steps
<1>74. CASE Go
  <2>1. item' \in ItemType
    BY <1>74 DEF Go, At, ItemType, States
  <2>2. /\ review' \in ReviewType /\ cycle' \in [Kinds -> CycleType] /\ ghost' \in RunType
        /\ view' \in ViewType /\ hist' \in HistType
    BY <1>74, ResetTyped DEF Go, Kinds
  <2> QED BY <1>74, <2>1, <2>2 DEF Go, Upset
<1>75. CASE FollowUps
  <2>1. item' \in ItemType
    BY <1>75 DEF FollowUps, At, Upset, ItemType, States, Heads, Prs
  <2>2. kv' \in KvType
    BY <1>75 DEF FollowUps, At, Upset, KvType, Heads, Prs
  <2> QED BY <1>75, <2>1, <2>2 DEF FollowUps, At, Upset, Owners, Steps
<1>76. CASE SessionClaims
  <2>1. item' \in ItemType
    BY <1>76 DEF SessionClaims, At, Upset, NoRun, ItemType, States, Heads, Prs
  <2>2. run' \in RunType
    BY <1>76 DEF SessionClaims, At, Upset, NoRun, RunType, Heads, Kinds
  <2>3. ghost' \in RunType
    BY <1>76 DEF SessionClaims, At, Upset, NoRun, RunType, Heads, Kinds
  <2> QED BY <1>76, <2>1, <2>2, <2>3 DEF SessionClaims, At, Upset, NoRun, Owners, Steps
<1>77. CASE SessionShips
  <2>1. item' \in ItemType
    BY <1>77 DEF SessionShips, At, ItemType, States
  <2>2. /\ review' \in ReviewType /\ cycle' \in [Kinds -> CycleType] /\ ghost' \in RunType
        /\ view' \in ViewType /\ hist' \in HistType
    <3>1. ResetReview({"rev"}) \/ ResetReview(Kinds)
      BY <1>77 DEF SessionShips
    <3> QED BY <3>1, ResetTyped DEF Kinds
  <2> QED BY <1>77, <2>1, <2>2 DEF SessionShips, Upset, Owners
<1>78. CASE SessionReleases
  <2>1. item' \in ItemType
    BY <1>78 DEF SessionReleases, At, ItemType, States, Heads, Prs
  <2> QED BY <1>78, <2>1 DEF SessionReleases, At, Owners, Steps
<1>79. CASE ChecksEnd
  <2>1. hub' \in HubType
    BY <1>79 DEF ChecksEnd, OnHub, HubType, Heads, Prs
  <2> QED BY <1>79, <2>1 DEF ChecksEnd, OnHub, Owners, Steps
<1>80. CASE BaseMoves
  <2>1. hub' \in HubType
    BY <1>80 DEF BaseMoves, Upset, OnHub, HubType, Heads, Prs
  <2> QED BY <1>80, <2>1 DEF BaseMoves, Upset, OnHub, Owners, Steps
<1>81. CASE Pushed
  <2>1. hub' \in HubType
    <3>1. Another \in Heads /\ hub.drift \in {"no", "behind", "conflict"}
      BY <1>81, AnotherIsNew DEF Pushed, HubType
    <3>2. PICK d \in {"no", "behind", "conflict"}
                 : hub' = [Commit(Another, d) EXCEPT !.commits = Another]
      BY <1>81, <3>1 DEF Pushed
    <3>3. Commit(Another, d) \in HubType
      BY <3>1, CommitShape
    <3> QED BY <3>1, <3>2, <3>3 DEF HubType
  <2> QED BY <1>81, <2>1 DEF Pushed, Commit, Another, Upset, CanCommit, OnHub, Owners, Steps
<1>82. CASE OwnerCloses
  <2>1. hub' \in HubType
    BY <1>82 DEF OwnerCloses, Upset, OnHub, HubType, Heads, Prs
  <2> QED BY <1>82, <2>1 DEF OwnerCloses, Upset, OnHub, Owners, Steps
<1>83. CASE Lands
  <2>1. hub' \in HubType
    BY <1>83 DEF Lands, OnHub, HubType, Heads, Prs
  <2> QED BY <1>83, <2>1 DEF Lands, OnHub, Owners, Steps
<1>84. CASE Kicked
  <2>1. hub' \in HubType
    BY <1>84 DEF Kicked, Upset, OnHub, HubType, Heads, Prs
  <2> QED BY <1>84, <2>1 DEF Kicked, Upset, OnHub, Owners, Steps
<1> QED BY <1>1, <1>2, <1>3, <1>4, <1>5, <1>6, <1>7, <1>8, <1>9, <1>10, <1>11, <1>12, <1>13,
    <1>14, <1>15, <1>16, <1>17, <1>18, <1>19, <1>20, <1>21, <1>22, <1>23, <1>24, <1>25, <1>26,
        <1>27, <1>28, <1>29, <1>30, <1>31, <1>32, <1>33, <1>34, <1>35, <1>36, <1>37, <1>38, <1>39,
            <1>40, <1>41, <1>42, <1>43, <1>44, <1>45, <1>46, <1>47, <1>48, <1>49, <1>50, <1>51,
                <1>52, <1>53, <1>54, <1>55, <1>56, <1>57, <1>58, <1>59, <1>60, <1>61, <1>62,
                    <1>63, <1>64, <1>65, <1>66, <1>67, <1>68, <1>69, <1>70, <1>71, <1>72, <1>73,
                        <1>74, <1>75, <1>76, <1>77, <1>78, <1>79, <1>80, <1>81, <1>82, <1>83,
                            <1>84 DEF Next, Daemon, Watches, Fixes, Merges, Endings, World

LEMMA FlowKeeps ==
  ASSUME Types, Types', Flow, Numbered, Reruns, Next PROVE Flow'
<1> USE Fields DEF Types, vars, ledger, runs, visit, Mine, Released, Flow, RowFollows, LooksTrue,
    KindFits, RunOwns, HasWork, Numbered, Acting, Opening, Fixing, Steps
<1>1. CASE Visit
  BY <1>1 DEF Visit, NoView
<1>2. CASE HandsOver
  BY <1>2 DEF HandsOver, Leave, NoView
<1>3. CASE OpenFails
  BY <1>3, OpenFailsEffect DEF Leave, NoView
<1>4. CASE OpenFindsMerged
  BY <1>4 DEF OpenFindsMerged, Shows, Ship, Leave, NoView
<1>5. CASE Pushes
  BY <1>5, PushesEffect
<1>6. CASE Records
  BY <1>6 DEF Records, Leave, NoView
<1>7. CASE Looks
  BY <1>7 DEF Looks, Shows
<1>8. CASE LookFails
  BY <1>8, PendingEffect DEF LookFails, Leave, NoView
<1>9. CASE DecidesMerged
  BY <1>9 DEF DecidesMerged, Decides, Ship, Leave, NoView
<1>10. CASE DecidesClosed
  BY <1>10, DecidesClosedEffect DEF Leave, NoView
<1>11. CASE DecidesConflict
  BY <1>11, FollowBaseEffect DEF DecidesConflict, Decides, Keeps, Verdict, Leave, NoView
<1>12. CASE DecidesStaleRed
  BY <1>12 DEF DecidesStaleRed, Verdict, Watching, Decides
<1>13. CASE SelectRerun
  BY <1>13 DEF SelectRerun, RerunAt, Rerun, Watching, Decides
<1>14. CASE ResumeRerun
  BY <1>14 DEF ResumeRerun, RerunAt, Watching, Decides
<1>15. CASE AwaitRerun
  BY <1>15, PendingEffect DEF AwaitRerun, RerunAt, Leave, NoView, Rerun, Watching, Decides
<1>16. CASE PassesRerun
  BY <1>16 DEF PassesRerun, Rerun, RerunAt, Watching, Decides
<1>17. CASE Reserves
  BY <1>17 DEF Reserves, Rerun, Leave, NoView
<1>18. CASE Posts
  BY <1>18, PostedEffect DEF Leave, NoView
<1>19. CASE PostFails
  BY <1>19, PostedEffect DEF Leave, NoView
<1>20. CASE DecidesPending
  BY <1>20, PendingEffect DEF DecidesPending, Leave, NoView, Checks
<1>21. CASE DecidesRed
  <2>1. KindFits'
    BY <1>21 DEF DecidesRed, Checks, Kinds, ViewType
  <2> QED BY <1>21, <2>1 DEF DecidesRed, Checks, Kinds, ViewType
<1>22. CASE DecidesGreen
  BY <1>22 DEF DecidesGreen, Leave, NoView, Checks
<1>23. CASE Counts
  BY <1>23, CountsEffect
<1>24. CASE CountWaits
  BY <1>24 DEF CountWaits, Leave, NoView
<1>25. CASE CutPasses
  BY <1>25 DEF CutPasses, Due
<1>26. CASE CutRepoWide
  BY <1>26 DEF CutRepoWide, NoCycle, Cut, Due, Cycle, Leave, NoView
<1>27. CASE CutFails
  BY <1>27 DEF CutFails, Cut, Due, Leave, NoView
<1>28. CASE CutAgain
  BY <1>28 DEF CutAgain, Failed, Exhausted, Cut, Due, Verdict
<1>29. CASE CutWaives
  BY <1>29 DEF CutWaives, Exhausted, Cut, Due, Verdict
<1>30. CASE CutRebuilds
  BY <1>30 DEF CutRebuilds, Unconverged, Exhausted, Cut, Due, Verdict
<1>31. CASE CutAsks
  BY <1>31 DEF CutAsks, Unconverged, Exhausted, Cut, Due, Verdict, Leave, NoView
<1>32. CASE Closes
  BY <1>32 DEF Closes
<1>33. CASE CloseFails
  BY <1>33 DEF CloseFails, Cycle, Leave, NoView
<1>34. CASE Finishes
  BY <1>34 DEF Finishes, Leave, NoView
<1>35. CASE FinishFails
  BY <1>35 DEF FinishFails, Leave, NoView
<1>36. CASE FixWaits
  <2>1. RowFollows'
    BY <1>36, HoldEffect DEF FixWaits, Leave, NoView
  <2>2. HasWork'
    BY <1>36, HoldEffect DEF FixWaits, Leave, NoView
  <2> QED BY <1>36, HoldEffect, <2>1, <2>2 DEF FixWaits, Leave, NoView
<1>37. CASE NotStarted
  BY <1>37 DEF NotStarted, Leave, NoView
<1>38. CASE Starts
  BY <1>38 DEF Starts, Kinds, NoRun
<1>39. CASE Charges
  BY <1>39 DEF Charges, Cycle, Leave, NoView
<1>40. CASE GateSkipped
  BY <1>40 DEF GateSkipped
<1>41. CASE VetBlocks
  BY <1>41 DEF VetBlocks, Gate, Leave, NoView
<1>42. CASE GateForgets
  BY <1>42 DEF GateForgets, Gate, InCycle, NoReview
<1>43. CASE GatePasses
  BY <1>43 DEF GatePasses, Judged, Gate, InCycle, Verdict, Leave, NoView
<1>44. CASE GateWaives
  BY <1>44, GateWaivesEffect DEF Leave, NoView
<1>45. CASE GateReviewsAgain
  BY <1>45, GateReviewsAgainEffect DEF NoReview
<1>46. CASE GateFails
  <2>1. KindFits'
    BY <1>46 DEF GateFails, CycleAt, NoCycle, Refused, Judged, Gate, InCycle, Verdict, Kinds,
       ViewType
  <2> QED BY <1>46, <2>1 DEF GateFails, CycleAt, NoCycle, Refused, Judged, Gate, InCycle, Verdict,
      Kinds, ViewType
<1>47. CASE GateWaits
  <2>1. HasWork'
    BY <1>47 DEF GateWaits, Judged, Gate, InCycle, Verdict, Leave, NoView, ItemType
  <2> QED BY <1>47, <2>1 DEF GateWaits, Judged, Gate, InCycle, Verdict, Leave, NoView, ItemType
<1>48. CASE StartsReview
  BY <1>48, StartsReviewEffect DEF Verdict
<1>49. CASE Binds
  BY <1>49 DEF Binds, NoReview, Leave, NoView
<1>50. CASE QueueWaits
  <2>1. RowFollows'
    BY <1>50, HoldEffect DEF QueueWaits, Leave, NoView
  <2>2. HasWork'
    BY <1>50, HoldEffect DEF QueueWaits, Leave, NoView
  <2> QED BY <1>50, HoldEffect, <2>1, <2>2 DEF QueueWaits, Leave, NoView
<1>51. CASE FreshPending
  BY <1>51, PendingEffect DEF FreshPending, Fresh, Leave, NoView, Unmoved
<1>52. CASE FreshFollowsBase
  BY <1>52, FollowBaseEffect DEF FreshFollowsBase, Fresh, Unmoved, Keeps, Verdict, Leave, NoView
<1>53. CASE FreshPasses
  BY <1>53 DEF FreshPasses, Fresh, Unmoved
<1>54. CASE Requests
  BY <1>54, RequestsEffect DEF Leave, NoView
<1>55. CASE RequestLost
  BY <1>55 DEF RequestLost, Leave, NoView, Unmoved
<1>56. CASE Notes
  BY <1>56, NotesEffect DEF Leave, NoView
<1>57. CASE UpdateConflicts
  <2>1. KindFits'
    BY <1>57 DEF UpdateConflicts, Update, Unmoved, Kinds, ViewType
  <2> QED BY <1>57, <2>1 DEF UpdateConflicts, Update, Unmoved, Kinds, ViewType
<1>58. CASE UpdateMerges
  BY <1>58, UpdateMergesEffect DEF Unmoved
<1>59. CASE UpdateFails
  BY <1>59, PendingEffect DEF UpdateFails, Leave, NoView, Update, Unmoved
<1>60. CASE Updates
  BY <1>60, UpdatesEffect DEF Leave, NoView
<1>61. CASE \E v \in {"pass", "fail", "protected"} : ReviewVerdicts(v)
  BY <1>61, ReviewVerdictsEffect DEF Late
<1>62. CASE ReviewFades
  BY <1>62, ReviewFadesEffect DEF NoReview
<1>63. CASE FixDone
  <2>1. run.role = "fix"
    BY <1>63 DEF FixDone, Ends
  <2> QED BY <1>63, <2>1, SavedEffect
<1>64. CASE FixStops
  <2>1. run.role = "fix"
    BY <1>64 DEF FixStops, Ends
  <2> QED BY <1>64, <2>1, SavedEffect
<1>65. CASE FixFails
  <2>1. run.role = "fix"
    BY <1>65 DEF FixFails, Ends
  <2> QED BY <1>65, <2>1, SavedEffect
<1>66. CASE FixBlamesCI
  BY <1>66, FixBlamesCIEffect DEF RerunAt
<1>67. CASE BuildDone
  BY <1>67, SavedEffect DEF BuildDone
<1>68. CASE BuildFails
  BY <1>68 DEF BuildFails, Retried, Ends, Becomes, NoRun
<1>69. CASE GhostEnds
  BY <1>69, FixEndsEffect DEF GhostEnds, visit
<1>70. CASE Builds
  BY <1>70 DEF Builds, At, CanCommit, NoRun
<1>71. CASE Wakes
  BY <1>71 DEF Wakes, At
<1>72. CASE GivesUp
  BY <1>72 DEF GivesUp, At
<1>73. CASE Crash
  BY <1>73 DEF Crash, Leave, NoView
<1>74. CASE Go
  BY <1>74, AtShape, ResetEffect DEF Go, NoReview, States, Kinds
<1>75. CASE FollowUps
  BY <1>75 DEF FollowUps, At
<1>76. CASE SessionClaims
  BY <1>76 DEF SessionClaims, At, NoRun
<1>77. CASE SessionShips
  BY <1>77, SessionShipsEffect DEF NoReview
<1>78. CASE SessionReleases
  BY <1>78 DEF SessionReleases, At
<1>79. CASE ChecksEnd
  BY <1>79 DEF ChecksEnd, OnHub
<1>80. CASE BaseMoves
  BY <1>80 DEF BaseMoves, OnHub
<1>81. CASE Pushed
  BY <1>81, PushedEffect
<1>82. CASE OwnerCloses
  BY <1>82 DEF OwnerCloses, OnHub
<1>83. CASE Lands
  BY <1>83 DEF Lands, OnHub
<1>84. CASE Kicked
  BY <1>84 DEF Kicked, OnHub
<1> QED BY QuietSteps, <1>1, <1>2, <1>3, <1>4, <1>5, <1>6, <1>7, <1>8, <1>9, <1>10, <1>11, <1>12,
    <1>13, <1>14, <1>15, <1>16, <1>17, <1>18, <1>19, <1>20, <1>21, <1>22, <1>23, <1>24, <1>25,
        <1>26, <1>27, <1>28, <1>29, <1>30, <1>31, <1>32, <1>33, <1>34, <1>35, <1>36, <1>37, <1>38,
            <1>39, <1>40, <1>41, <1>42, <1>43, <1>44, <1>45, <1>46, <1>47, <1>48, <1>49, <1>50,
                <1>51, <1>52, <1>53, <1>54, <1>55, <1>56, <1>57, <1>58, <1>59, <1>60, <1>61,
                    <1>62, <1>63, <1>64, <1>65, <1>66, <1>67, <1>68, <1>69, <1>70, <1>71, <1>72,
                        <1>73, <1>74, <1>75, <1>76, <1>77, <1>78, <1>79, <1>80, <1>81, <1>82,
                            <1>83, <1>84 DEF Next, Daemon, Watches, Fixes, Merges, Endings, World

LEMMA NumberedKeep ==
  ASSUME Types, Types', Flow, Numbered, Reruns, [Next]_vars PROVE Numbered'
<1> USE Fields DEF Types, vars, ledger, runs, visit, Mine, Released, Numbered, Flow, RowFollows,
    LooksTrue, Acting, Opening, Steps, Heads, Prs
<1>1. CASE Quiet
  BY <1>1 DEF Quiet, Leave, NoView
<1>2. CASE UNCHANGED vars
  BY <1>2
<1>3. CASE Visit
  BY <1>3 DEF Visit, NoView
<1>4. CASE OpenFails
  BY <1>4, OpenFailsEffect DEF Leave, NoView
<1>5. CASE Pushes
  <2>1. /\ step = "open" /\ step' = "opened" /\ view.snap # 0 /\ view.snap <= hub.commits
             /\ hub.pr \in Nat
        /\ item' = item /\ view' = view /\ kv' = kv
        /\ hub'.head = view.snap /\ hub'.commits = hub.commits
        /\ hub'.pr \in {hub.pr, hub.pr + 1} /\ hub'.pr # 0 /\ hub.pr <= hub'.pr
    BY <1>5, PushesEffect
  <2>2. item.pr \in Nat /\ view.pr \in Nat /\ kv.retained \in Nat /\ hub'.pr \in Nat
    BY <2>1 DEF KvType
  <2> QED BY <2>1, <2>2
<1>6. CASE Records
  BY <1>6 DEF Records, Leave, NoView
<1>7. CASE Looks
  BY <1>7 DEF Looks, Shows
<1>8. CASE DecidesClosed
  BY <1>8, DecidesClosedEffect DEF Leave, NoView
<1>9. CASE DecidesConflict
  BY <1>9, FollowBaseEffect DEF DecidesConflict, Decides, Keeps, Verdict, Leave, NoView
<1>10. CASE DecidesStaleRed
  BY <1>10 DEF DecidesStaleRed, Verdict, Watching, Decides
<1>11. CASE SelectRerun
  BY <1>11 DEF SelectRerun, RerunAt, Rerun, Watching, Decides
<1>12. CASE ResumeRerun
  BY <1>12 DEF ResumeRerun, RerunAt, Watching, Decides
<1>13. CASE PassesRerun
  BY <1>13 DEF PassesRerun, Rerun, RerunAt, Watching, Decides
<1>14. CASE Reserves
  BY <1>14 DEF Reserves, Rerun, Leave, NoView
<1>15. CASE Posts
  BY <1>15, PostedEffect DEF Leave, NoView
<1>16. CASE PostFails
  BY <1>16, PostedEffect DEF Leave, NoView
<1>17. CASE DecidesRed
  BY <1>17 DEF DecidesRed, Checks
<1>18. CASE DecidesGreen
  BY <1>18 DEF DecidesGreen, Leave, NoView, Checks
<1>19. CASE Counts
  BY <1>19, CountsEffect
<1>20. CASE CutPasses
  BY <1>20 DEF CutPasses, Due
<1>21. CASE CutRepoWide
  BY <1>21 DEF CutRepoWide, NoCycle, Cut, Due, Cycle, Leave, NoView
<1>22. CASE CutAgain
  BY <1>22 DEF CutAgain, Failed, Exhausted, Cut, Due, Verdict
<1>23. CASE CutWaives
  BY <1>23 DEF CutWaives, Exhausted, Cut, Due, Verdict
<1>24. CASE CutRebuilds
  BY <1>24 DEF CutRebuilds, Unconverged, Exhausted, Cut, Due, Verdict
<1>25. CASE Closes
  BY <1>25 DEF Closes
<1>26. CASE CloseFails
  BY <1>26 DEF CloseFails, Cycle, Leave, NoView
<1>27. CASE Finishes
  BY <1>27 DEF Finishes, Leave, NoView
<1>28. CASE FinishFails
  BY <1>28 DEF FinishFails, Leave, NoView
<1>29. CASE Starts
  BY <1>29 DEF Starts, Kinds, NoRun
<1>30. CASE Charges
  BY <1>30 DEF Charges, Cycle, Leave, NoView
<1>31. CASE GateSkipped
  BY <1>31 DEF GateSkipped
<1>32. CASE GateForgets
  BY <1>32 DEF GateForgets, Gate, InCycle, NoReview
<1>33. CASE GatePasses
  BY <1>33 DEF GatePasses, Judged, Gate, InCycle, Verdict, Leave, NoView
<1>34. CASE GateWaives
  BY <1>34, GateWaivesEffect DEF Leave, NoView
<1>35. CASE GateReviewsAgain
  BY <1>35, GateReviewsAgainEffect DEF NoReview
<1>36. CASE GateFails
  BY <1>36 DEF GateFails, CycleAt, NoCycle, Refused, Judged, Gate, InCycle, Verdict
<1>37. CASE StartsReview
  BY <1>37, StartsReviewEffect DEF Verdict
<1>38. CASE Binds
  BY <1>38 DEF Binds, NoReview, Leave, NoView
<1>39. CASE FreshFollowsBase
  BY <1>39, FollowBaseEffect DEF FreshFollowsBase, Fresh, Unmoved, Keeps, Verdict, Leave, NoView
<1>40. CASE FreshPasses
  BY <1>40 DEF FreshPasses, Fresh, Unmoved
<1>41. CASE Requests
  BY <1>41, RequestsEffect DEF Leave, NoView
<1>42. CASE Notes
  BY <1>42, NotesEffect DEF Leave, NoView
<1>43. CASE UpdateConflicts
  BY <1>43 DEF UpdateConflicts, Update, Unmoved
<1>44. CASE UpdateMerges
  BY <1>44, UpdateMergesEffect DEF Unmoved
<1>45. CASE Updates
  BY <1>45, UpdatesEffect DEF Leave, NoView
<1>46. CASE \E v \in {"pass", "fail", "protected"} : ReviewVerdicts(v)
  BY <1>46, ReviewVerdictsEffect DEF Late
<1>47. CASE ReviewFades
  BY <1>47, ReviewFadesEffect DEF NoReview
<1>48. CASE FixDone
  BY <1>48, SavedEffect, FixEndsEffect
<1>49. CASE FixStops
  BY <1>49, SavedEffect, FixEndsEffect
<1>50. CASE FixFails
  BY <1>50, SavedEffect, FixEndsEffect
<1>51. CASE FixBlamesCI
  BY <1>51, FixBlamesCIEffect DEF RerunAt
<1>52. CASE BuildDone
  BY <1>52, SavedEffect DEF BuildDone
<1>53. CASE GhostEnds
  BY <1>53, FixEndsEffect DEF GhostEnds, visit
<1>54. CASE Go
  BY <1>54, AtShape, ResetEffect DEF Go, NoReview, States, Kinds
<1>55. CASE SessionShips
  BY <1>55, SessionShipsEffect DEF NoReview
<1>56. CASE Pushed
  BY <1>56, PushedEffect
<1> QED BY QuietSteps, <1>1, <1>2, <1>3, <1>4, <1>5, <1>6, <1>7, <1>8, <1>9, <1>10, <1>11, <1>12,
    <1>13, <1>14, <1>15, <1>16, <1>17, <1>18, <1>19, <1>20, <1>21, <1>22, <1>23, <1>24, <1>25,
        <1>26, <1>27, <1>28, <1>29, <1>30, <1>31, <1>32, <1>33, <1>34, <1>35, <1>36, <1>37, <1>38,
            <1>39, <1>40, <1>41, <1>42, <1>43, <1>44, <1>45, <1>46, <1>47, <1>48, <1>49, <1>50,
                <1>51, <1>52, <1>53, <1>54, <1>55, <1>56 DEF Next, Daemon, Watches, Fixes, Merges,
                    Endings, World

LEMMA NewHeadsKeep ==
  ASSUME Types, Types', Flow, Numbered, NewHeads, Reruns, [Next]_vars PROVE NewHeads'
<1> USE Fields, Learns DEF Types, vars, ledger, runs, visit, Mine, Released, NewHeads, Numbered,
    Flow, RowFollows, LooksTrue, HasWork, RunOwns, Acting, Opening, Steps, Heads, Prs
<1>1. CASE Quiet
  BY <1>1 DEF Quiet, Leave, NoView
<1>2. CASE UNCHANGED vars
  BY <1>2
<1>3. CASE Visit
  BY <1>3 DEF Visit, NoView
<1>4. CASE OpenFails
  BY <1>4, OpenFailsEffect DEF Leave, NoView
<1>5. CASE Pushes
  BY <1>5, PushesEffect
<1>6. CASE Records
  BY <1>6 DEF Records, Leave, NoView
<1>7. CASE Looks
  BY <1>7 DEF Looks, Shows
<1>8. CASE DecidesClosed
  BY <1>8, DecidesClosedEffect DEF Leave, NoView
<1>9. CASE DecidesConflict
  BY <1>9, FollowBaseEffect DEF DecidesConflict, Decides, Keeps, Verdict, Leave, NoView
<1>10. CASE DecidesStaleRed
  BY <1>10 DEF DecidesStaleRed, Verdict, Watching, Decides
<1>11. CASE SelectRerun
  BY <1>11 DEF SelectRerun, RerunAt, Rerun, Watching, Decides
<1>12. CASE ResumeRerun
  BY <1>12 DEF ResumeRerun, RerunAt, Watching, Decides
<1>13. CASE PassesRerun
  BY <1>13 DEF PassesRerun, Rerun, RerunAt, Watching, Decides
<1>14. CASE Reserves
  BY <1>14 DEF Reserves, Rerun, Leave, NoView
<1>15. CASE Posts
  BY <1>15, PostedEffect DEF Leave, NoView
<1>16. CASE PostFails
  BY <1>16, PostedEffect DEF Leave, NoView
<1>17. CASE DecidesRed
  BY <1>17 DEF DecidesRed, Checks
<1>18. CASE DecidesGreen
  BY <1>18 DEF DecidesGreen, Leave, NoView, Checks
<1>19. CASE Counts
  BY <1>19, CountsEffect
<1>20. CASE CutPasses
  BY <1>20 DEF CutPasses, Due
<1>21. CASE CutRepoWide
  BY <1>21 DEF CutRepoWide, NoCycle, Cut, Due, Cycle, Leave, NoView
<1>22. CASE CutAgain
  BY <1>22 DEF CutAgain, Failed, Exhausted, Cut, Due, Verdict
<1>23. CASE CutWaives
  BY <1>23 DEF CutWaives, Exhausted, Cut, Due, Verdict
<1>24. CASE CutRebuilds
  BY <1>24 DEF CutRebuilds, Unconverged, Exhausted, Cut, Due, Verdict
<1>25. CASE Closes
  BY <1>25 DEF Closes
<1>26. CASE CloseFails
  BY <1>26 DEF CloseFails, Cycle, Leave, NoView
<1>27. CASE Finishes
  BY <1>27 DEF Finishes, Leave, NoView
<1>28. CASE FinishFails
  BY <1>28 DEF FinishFails, Leave, NoView
<1>29. CASE Starts
  BY <1>29 DEF Starts, Kinds, NoRun
<1>30. CASE Charges
  BY <1>30 DEF Charges, Cycle, Leave, NoView
<1>31. CASE GateSkipped
  BY <1>31 DEF GateSkipped
<1>32. CASE GateForgets
  BY <1>32 DEF GateForgets, Gate, InCycle, NoReview
<1>33. CASE GatePasses
  BY <1>33 DEF GatePasses, Judged, Gate, InCycle, Verdict, Leave, NoView
<1>34. CASE GateWaives
  BY <1>34, GateWaivesEffect DEF Leave, NoView
<1>35. CASE GateReviewsAgain
  BY <1>35, GateReviewsAgainEffect DEF NoReview
<1>36. CASE GateFails
  BY <1>36 DEF GateFails, CycleAt, NoCycle, Refused, Judged, Gate, InCycle, Verdict
<1>37. CASE StartsReview
  BY <1>37, StartsReviewEffect DEF Verdict
<1>38. CASE Binds
  BY <1>38 DEF Binds, NoReview, Leave, NoView
<1>39. CASE FreshFollowsBase
  BY <1>39, FollowBaseEffect DEF FreshFollowsBase, Fresh, Unmoved, Keeps, Verdict, Leave, NoView
<1>40. CASE FreshPasses
  BY <1>40 DEF FreshPasses, Fresh, Unmoved
<1>41. CASE Requests
  BY <1>41, RequestsEffect DEF Leave, NoView
<1>42. CASE Notes
  BY <1>42, NotesEffect DEF Leave, NoView
<1>43. CASE UpdateConflicts
  BY <1>43 DEF UpdateConflicts, Update, Unmoved
<1>44. CASE UpdateMerges
  BY <1>44, UpdateMergesEffect DEF Unmoved
<1>45. CASE Updates
  BY <1>45, UpdatesEffect DEF Leave, NoView
<1>46. CASE \E v \in {"pass", "fail", "protected"} : ReviewVerdicts(v)
  BY <1>46, ReviewVerdictsEffect DEF Late
<1>47. CASE ReviewFades
  BY <1>47, ReviewFadesEffect DEF NoReview
<1>48. CASE FixDone
  BY <1>48, SavedEffect, FixEndsEffect
<1>49. CASE FixStops
  BY <1>49, SavedEffect, FixEndsEffect
<1>50. CASE FixFails
  BY <1>50, SavedEffect, FixEndsEffect
<1>51. CASE FixBlamesCI
  BY <1>51, FixBlamesCIEffect DEF RerunAt
<1>52. CASE BuildDone
  BY <1>52, SavedEffect DEF BuildDone
<1>53. CASE GhostEnds
  BY <1>53, FixEndsEffect DEF GhostEnds, visit
<1>54. CASE Go
  BY <1>54, AtShape, ResetEffect DEF Go, NoReview, States, Kinds
<1>55. CASE SessionShips
  BY <1>55, SessionShipsEffect DEF NoReview
<1>56. CASE Pushed
  BY <1>56, PushedEffect
<1> QED BY QuietSteps, <1>1, <1>2, <1>3, <1>4, <1>5, <1>6, <1>7, <1>8, <1>9, <1>10, <1>11, <1>12,
    <1>13, <1>14, <1>15, <1>16, <1>17, <1>18, <1>19, <1>20, <1>21, <1>22, <1>23, <1>24, <1>25,
        <1>26, <1>27, <1>28, <1>29, <1>30, <1>31, <1>32, <1>33, <1>34, <1>35, <1>36, <1>37, <1>38,
            <1>39, <1>40, <1>41, <1>42, <1>43, <1>44, <1>45, <1>46, <1>47, <1>48, <1>49, <1>50,
                <1>51, <1>52, <1>53, <1>54, <1>55, <1>56 DEF Next, Daemon, Watches, Fixes, Merges,
                    Endings, World

LEMMA RerunsKeep ==
  ASSUME Types, Types', Flow, NewHeads, Reruns, [Next]_vars PROVE Reruns'
<1> USE Fields DEF Types, vars, ledger, runs, visit, Mine, Released, Reruns, RerunPostedOnce,
    Current, NewHeads, Known, Flow, LooksTrue, Acting, Opening, Steps, Heads
<1>1. CASE Quiet
  BY <1>1 DEF Quiet, Leave, NoView
<1>2. CASE UNCHANGED vars
  BY <1>2
<1>3. CASE Visit
  BY <1>3 DEF Visit, NoView
<1>4. CASE OpenFails
  BY <1>4, OpenFailsEffect DEF Leave, NoView
<1>5. CASE Pushes
  BY <1>5, PushesEffect
<1>6. CASE Records
  BY <1>6 DEF Records, Leave, NoView
<1>7. CASE Looks
  BY <1>7 DEF Looks, Shows
<1>8. CASE DecidesClosed
  BY <1>8, DecidesClosedEffect DEF Leave, NoView
<1>9. CASE DecidesConflict
  BY <1>9, FollowBaseEffect DEF DecidesConflict, Decides, Keeps, Verdict, Leave, NoView
<1>10. CASE DecidesStaleRed
  BY <1>10 DEF DecidesStaleRed, Verdict, Watching, Decides
<1>11. CASE SelectRerun
  <2>1. /\ step = "decide" /\ view.status = "OPEN" /\ view.head \in Heads /\ step' = "rerun"
        /\ UNCHANGED <<hub, view, hist, review>> /\ RerunAt(view.head) \in {"none", "selected"}
    BY <1>11 DEF SelectRerun, Watching, Decides
  <2>2. rerun' = [head |-> view.head, at |-> "selected"]
    BY <1>11 DEF SelectRerun, Rerun, RerunAt, RerunType
  <2>3. hist.posts[view.head] = 0
    <3>1. hist.posts[view.head] \in {0, 1}
      BY <2>1, PostsCount
    <3>2. Current(view.head)
      BY <2>1
    <3>3. ~(rerun.head = view.head /\ rerun.at \in {"requested", "done"})
      BY <2>1 DEF RerunAt
    <3> QED BY <2>1, <3>1, <3>2, <3>3
  <2>4. ASSUME NEW h \in Heads, hist.posts[h] = 1, Current(h) PROVE FALSE
    BY <2>1, <2>3, <2>4
  <2> QED BY <2>1, <2>2, <2>3, <2>4
<1>12. CASE ResumeRerun
  <2>1. /\ step = "decide" /\ view.status = "OPEN" /\ view.head \in Heads /\ step' = "rerun"
        /\ UNCHANGED <<hub, view, hist, review>> /\ RerunAt(view.head) \in {"none", "selected"}
    BY <1>12 DEF ResumeRerun, Watching, Decides
  <2>2. rerun' = [head |-> view.head, at |-> "selected"]
    BY <1>12 DEF ResumeRerun, Rerun, RerunAt, RerunType
  <2>3. hist.posts[view.head] = 0
    <3>1. hist.posts[view.head] \in {0, 1}
      BY <2>1, PostsCount
    <3>2. Current(view.head)
      BY <2>1
    <3>3. ~(rerun.head = view.head /\ rerun.at \in {"requested", "done"})
      BY <2>1 DEF RerunAt
    <3> QED BY <2>1, <3>1, <3>2, <3>3
  <2>4. ASSUME NEW h \in Heads, hist.posts[h] = 1, Current(h) PROVE FALSE
    BY <2>1, <2>3, <2>4
  <2> QED BY <2>1, <2>2, <2>3, <2>4
<1>13. CASE PassesRerun
  BY <1>13 DEF PassesRerun, Rerun, RerunAt, Watching, Decides
<1>14. CASE Reserves
  BY <1>14 DEF Reserves, Rerun, Leave, NoView
<1>15. CASE Posts
  <2>1. /\ step = "post" /\ step' = "idle" /\ hub'.head = hub.head /\ view.head \in Heads
        /\ rerun'.head = view.head /\ rerun'.at \in {"requested", "done"}
        /\ hist'.posts[view.head] = 1
        /\ \A h \in Heads \ {view.head} : hist'.posts[h] = hist.posts[h]
    BY <1>15, PostedEffect DEF Leave
  <2>2. ASSUME NEW h \in Heads
        PROVE  /\ hist'.posts[h] <= 1
               /\ hist'.posts[h] = 1 /\ Current(h)'
                    => rerun'.head = h /\ rerun'.at \in {"requested", "done"}
    <3>1. CASE h = view.head
      BY <2>1, <3>1
    <3>2. CASE h # view.head
      <4>1. hist'.posts[h] = hist.posts[h] /\ hist.posts[h] \in {0, 1}
        BY <2>1, <3>2, PostsCount
      <4>2. ~(hist.posts[h] = 1 /\ Current(h))
        BY <2>1, <3>2
      <4>3. Current(h)' => Current(h)
        BY <2>1
      <4> QED BY <4>1, <4>2, <4>3
    <3> QED BY <3>1, <3>2
  <2> QED BY <2>1, <2>2
<1>16. CASE PostFails
  <2>1. /\ step = "post" /\ step' = "idle" /\ hub'.head = hub.head /\ view.head \in Heads
        /\ rerun'.head = view.head /\ rerun'.at \in {"requested", "done"}
        /\ hist'.posts[view.head] = 1
        /\ \A h \in Heads \ {view.head} : hist'.posts[h] = hist.posts[h]
    BY <1>16, PostedEffect DEF Leave
  <2>2. ASSUME NEW h \in Heads
        PROVE  /\ hist'.posts[h] <= 1
               /\ hist'.posts[h] = 1 /\ Current(h)'
                    => rerun'.head = h /\ rerun'.at \in {"requested", "done"}
    <3>1. CASE h = view.head
      BY <2>1, <3>1
    <3>2. CASE h # view.head
      <4>1. hist'.posts[h] = hist.posts[h] /\ hist.posts[h] \in {0, 1}
        BY <2>1, <3>2, PostsCount
      <4>2. ~(hist.posts[h] = 1 /\ Current(h))
        BY <2>1, <3>2
      <4>3. Current(h)' => Current(h)
        BY <2>1
      <4> QED BY <4>1, <4>2, <4>3
    <3> QED BY <3>1, <3>2
  <2> QED BY <2>1, <2>2
<1>17. CASE DecidesRed
  BY <1>17 DEF DecidesRed, Checks
<1>18. CASE DecidesGreen
  BY <1>18 DEF DecidesGreen, Leave, NoView, Checks
<1>19. CASE Counts
  BY <1>19, CountsEffect
<1>20. CASE CutPasses
  BY <1>20 DEF CutPasses, Due
<1>21. CASE CutRepoWide
  BY <1>21 DEF CutRepoWide, NoCycle, Cut, Due, Cycle, Leave, NoView
<1>22. CASE CutAgain
  BY <1>22 DEF CutAgain, Failed, Exhausted, Cut, Due, Verdict
<1>23. CASE CutWaives
  BY <1>23 DEF CutWaives, Exhausted, Cut, Due, Verdict
<1>24. CASE CutRebuilds
  BY <1>24 DEF CutRebuilds, Unconverged, Exhausted, Cut, Due, Verdict
<1>25. CASE Closes
  BY <1>25 DEF Closes
<1>26. CASE CloseFails
  BY <1>26 DEF CloseFails, Cycle, Leave, NoView
<1>27. CASE Finishes
  BY <1>27 DEF Finishes, Leave, NoView
<1>28. CASE FinishFails
  BY <1>28 DEF FinishFails, Leave, NoView
<1>29. CASE Starts
  BY <1>29 DEF Starts, Kinds, NoRun
<1>30. CASE Charges
  BY <1>30 DEF Charges, Cycle, Leave, NoView
<1>31. CASE GateSkipped
  BY <1>31 DEF GateSkipped
<1>32. CASE GateForgets
  BY <1>32 DEF GateForgets, Gate, InCycle, NoReview
<1>33. CASE GatePasses
  BY <1>33 DEF GatePasses, Judged, Gate, InCycle, Verdict, Leave, NoView
<1>34. CASE GateWaives
  BY <1>34, GateWaivesEffect DEF Leave, NoView
<1>35. CASE GateReviewsAgain
  BY <1>35, GateReviewsAgainEffect DEF NoReview
<1>36. CASE GateFails
  BY <1>36 DEF GateFails, CycleAt, NoCycle, Refused, Judged, Gate, InCycle, Verdict
<1>37. CASE StartsReview
  BY <1>37, StartsReviewEffect DEF Verdict
<1>38. CASE Binds
  BY <1>38 DEF Binds, NoReview, Leave, NoView
<1>39. CASE FreshFollowsBase
  BY <1>39, FollowBaseEffect DEF FreshFollowsBase, Fresh, Unmoved, Keeps, Verdict, Leave, NoView
<1>40. CASE FreshPasses
  BY <1>40 DEF FreshPasses, Fresh, Unmoved
<1>41. CASE Requests
  BY <1>41, RequestsEffect DEF Leave, NoView
<1>42. CASE Notes
  BY <1>42, NotesEffect DEF Leave, NoView
<1>43. CASE UpdateConflicts
  BY <1>43 DEF UpdateConflicts, Update, Unmoved
<1>44. CASE UpdateMerges
  BY <1>44, UpdateMergesEffect DEF Unmoved
<1>45. CASE Updates
  BY <1>45, UpdatesEffect DEF Leave, NoView
<1>46. CASE \E v \in {"pass", "fail", "protected"} : ReviewVerdicts(v)
  BY <1>46, ReviewVerdictsEffect DEF Late
<1>47. CASE ReviewFades
  BY <1>47, ReviewFadesEffect DEF NoReview
<1>48. CASE FixDone
  BY <1>48, SavedEffect, FixEndsEffect
<1>49. CASE FixStops
  BY <1>49, SavedEffect, FixEndsEffect
<1>50. CASE FixFails
  BY <1>50, SavedEffect, FixEndsEffect
<1>51. CASE FixBlamesCI
  BY <1>51, FixBlamesCIEffect DEF RerunAt
<1>52. CASE BuildDone
  BY <1>52, SavedEffect DEF BuildDone
<1>53. CASE GhostEnds
  BY <1>53, FixEndsEffect DEF GhostEnds, visit
<1>54. CASE Go
  BY <1>54, AtShape, ResetEffect DEF Go, NoReview, States, Kinds
<1>55. CASE SessionShips
  BY <1>55, SessionShipsEffect DEF NoReview
<1>56. CASE Pushed
  <2>1. hist.posts[Another] = 0
    <3>1. Another \in Heads /\ ~(Another <= hub.commits)
      BY <1>56, PushedEffect
    <3> QED BY <3>1, PostsCount
  <2> QED BY <1>56, <2>1, PushedEffect
<1> QED BY QuietSteps, <1>1, <1>2, <1>3, <1>4, <1>5, <1>6, <1>7, <1>8, <1>9, <1>10, <1>11, <1>12,
    <1>13, <1>14, <1>15, <1>16, <1>17, <1>18, <1>19, <1>20, <1>21, <1>22, <1>23, <1>24, <1>25,
        <1>26, <1>27, <1>28, <1>29, <1>30, <1>31, <1>32, <1>33, <1>34, <1>35, <1>36, <1>37, <1>38,
            <1>39, <1>40, <1>41, <1>42, <1>43, <1>44, <1>45, <1>46, <1>47, <1>48, <1>49, <1>50,
                <1>51, <1>52, <1>53, <1>54, <1>55, <1>56 DEF Next, Daemon, Watches, Fixes, Merges,
                    Endings, World

LEMMA BillsKeep ==
  ASSUME Types, Types', Flow, NewHeads, Reruns, Bills, [Next]_vars PROVE Bills'
<1> USE Fields DEF Types, vars, ledger, runs, visit, Mine, Released, Bills, Current, Fixing,
    NewHeads, Known, Flow, LooksTrue, KindFits, Acting, Opening, Steps, Heads, Kinds
<1>1. CASE Quiet
  BY <1>1 DEF Quiet, Leave, NoView
<1>2. CASE UNCHANGED vars
  BY <1>2
<1>3. CASE Visit
  BY <1>3 DEF Visit, NoView
<1>4. CASE OpenFails
  BY <1>4, OpenFailsEffect DEF Leave, NoView
<1>5. CASE Pushes
  BY <1>5, PushesEffect
<1>6. CASE Records
  BY <1>6 DEF Records, Leave, NoView
<1>7. CASE Looks
  BY <1>7 DEF Looks, Shows
<1>8. CASE DecidesClosed
  BY <1>8, DecidesClosedEffect DEF Leave, NoView
<1>9. CASE DecidesConflict
  BY <1>9, FollowBaseEffect DEF DecidesConflict, Decides, Keeps, Verdict, Leave, NoView
<1>10. CASE DecidesStaleRed
  BY <1>10 DEF DecidesStaleRed, Verdict, Watching, Decides
<1>11. CASE SelectRerun
  BY <1>11 DEF SelectRerun, RerunAt, Rerun, Watching, Decides
<1>12. CASE ResumeRerun
  BY <1>12 DEF ResumeRerun, RerunAt, Watching, Decides
<1>13. CASE PassesRerun
  BY <1>13 DEF PassesRerun, Rerun, RerunAt, Watching, Decides
<1>14. CASE Reserves
  BY <1>14 DEF Reserves, Rerun, Leave, NoView
<1>15. CASE Posts
  BY <1>15, PostedEffect DEF Leave, NoView
<1>16. CASE PostFails
  BY <1>16, PostedEffect DEF Leave, NoView
<1>17. CASE DecidesRed
  BY <1>17 DEF DecidesRed, Checks
<1>18. CASE DecidesGreen
  BY <1>18 DEF DecidesGreen, Leave, NoView, Checks
<1>19. CASE Counts
  BY <1>19, CountsEffect
<1>20. CASE CutPasses
  BY <1>20 DEF CutPasses, Due
<1>21. CASE CutRepoWide
  BY <1>21 DEF CutRepoWide, NoCycle, Cut, Due, Cycle, Leave, NoView
<1>22. CASE CutAgain
  BY <1>22 DEF CutAgain, Failed, Exhausted, Cut, Due, Verdict
<1>23. CASE CutWaives
  BY <1>23 DEF CutWaives, Exhausted, Cut, Due, Verdict
<1>24. CASE CutRebuilds
  BY <1>24 DEF CutRebuilds, Unconverged, Exhausted, Cut, Due, Verdict
<1>25. CASE Closes
  BY <1>25 DEF Closes
<1>26. CASE CloseFails
  BY <1>26 DEF CloseFails, Cycle, Leave, NoView
<1>27. CASE Finishes
  BY <1>27 DEF Finishes, Leave, NoView
<1>28. CASE FinishFails
  BY <1>28 DEF FinishFails, Leave, NoView
<1>29. CASE Starts
  BY <1>29 DEF Starts, NoRun
<1>30. CASE Charges
  BY <1>30 DEF Charges, Cycle, Leave, NoView
<1>31. CASE GateSkipped
  BY <1>31 DEF GateSkipped
<1>32. CASE GateForgets
  BY <1>32 DEF GateForgets, Gate, InCycle, NoReview
<1>33. CASE GatePasses
  BY <1>33 DEF GatePasses, Judged, Gate, InCycle, Verdict, Leave, NoView
<1>34. CASE GateWaives
  BY <1>34, GateWaivesEffect DEF Leave, NoView
<1>35. CASE GateReviewsAgain
  BY <1>35, GateReviewsAgainEffect DEF NoReview
<1>36. CASE GateFails
  BY <1>36 DEF GateFails, CycleAt, NoCycle, Refused, Judged, Gate, InCycle, Verdict
<1>37. CASE StartsReview
  BY <1>37, StartsReviewEffect DEF Verdict
<1>38. CASE Binds
  BY <1>38 DEF Binds, NoReview, Leave, NoView
<1>39. CASE FreshFollowsBase
  BY <1>39, FollowBaseEffect DEF FreshFollowsBase, Fresh, Unmoved, Keeps, Verdict, Leave, NoView
<1>40. CASE FreshPasses
  BY <1>40 DEF FreshPasses, Fresh, Unmoved
<1>41. CASE Requests
  BY <1>41, RequestsEffect DEF Leave, NoView
<1>42. CASE Notes
  BY <1>42, NotesEffect DEF Leave, NoView
<1>43. CASE UpdateConflicts
  BY <1>43 DEF UpdateConflicts, Update, Unmoved
<1>44. CASE UpdateMerges
  <2>1. ASSUME NEW k \in Kinds, <<k, Another>> \in hist.billed PROVE FALSE
    <3>1. Another \in Heads /\ ~(Another <= hub.commits)
      BY <1>44, UpdateMergesEffect
    <3> QED BY <2>1, <3>1
  <2> QED BY <1>44, <2>1, UpdateMergesEffect
<1>45. CASE Updates
  BY <1>45, UpdatesEffect DEF Leave, NoView
<1>46. CASE \E v \in {"pass", "fail", "protected"} : ReviewVerdicts(v)
  BY <1>46, ReviewVerdictsEffect DEF Late
<1>47. CASE ReviewFades
  BY <1>47, ReviewFadesEffect DEF NoReview
<1>48. CASE FixDone
  BY <1>48, SavedEffect, FixEndsEffect
<1>49. CASE FixStops
  BY <1>49, SavedEffect, FixEndsEffect
<1>50. CASE FixFails
  BY <1>50, SavedEffect, FixEndsEffect
<1>51. CASE FixBlamesCI
  BY <1>51, FixBlamesCIEffect DEF RerunAt
<1>52. CASE BuildDone
  BY <1>52, SavedEffect DEF BuildDone
<1>53. CASE GhostEnds
  <2>1. step = "idle" /\ UNCHANGED <<step, view, hub>>
    BY <1>53 DEF GhostEnds, visit
  <2> QED BY <1>53, <2>1, FixEndsEffect
<1>54. CASE Go
  BY <1>54, AtShape, ResetEffect DEF Go, NoReview, States
<1>55. CASE SessionShips
  <2>1. step # "idle" => item.state \notin {"failed", "needs_you", "parked"}
    BY DEF RowFollows
  <2> QED BY <1>55, <2>1, SessionShipsEffect
<1>56. CASE Pushed
  <2>1. ASSUME NEW k \in Kinds, <<k, Another>> \in hist.billed PROVE FALSE
    <3>1. Another \in Heads /\ ~(Another <= hub.commits)
      BY <1>56, PushedEffect
    <3> QED BY <2>1, <3>1
  <2> QED BY <1>56, <2>1, PushedEffect
<1> QED BY QuietSteps, <1>1, <1>2, <1>3, <1>4, <1>5, <1>6, <1>7, <1>8, <1>9, <1>10, <1>11, <1>12,
    <1>13, <1>14, <1>15, <1>16, <1>17, <1>18, <1>19, <1>20, <1>21, <1>22, <1>23, <1>24, <1>25,
        <1>26, <1>27, <1>28, <1>29, <1>30, <1>31, <1>32, <1>33, <1>34, <1>35, <1>36, <1>37, <1>38,
            <1>39, <1>40, <1>41, <1>42, <1>43, <1>44, <1>45, <1>46, <1>47, <1>48, <1>49, <1>50,
                <1>51, <1>52, <1>53, <1>54, <1>55, <1>56 DEF Next, Daemon, Watches, Fixes, Merges,
                    Endings, World

LEMMA MarksKeep ==
  ASSUME Types, Types', Flow, Numbered, Reruns, Marks, [Next]_vars PROVE Marks'
<1> USE Fields DEF Types, vars, ledger, runs, visit, Mine, Released, Marks, Numbered, Flow,
    RowFollows, LooksTrue, KindFits, Acting, Opening, Steps, Prs
<1>1. CASE Quiet
  BY <1>1 DEF Quiet, Leave, NoView
<1>2. CASE UNCHANGED vars
  BY <1>2
<1>3. CASE Visit
  BY <1>3 DEF Visit, NoView
<1>4. CASE OpenFails
  BY <1>4, OpenFailsEffect DEF Leave, NoView
<1>5. CASE Pushes
  BY <1>5, PushesEffect
<1>6. CASE Records
  BY <1>6 DEF Records, Leave, NoView
<1>7. CASE Looks
  BY <1>7 DEF Looks, Shows
<1>8. CASE DecidesClosed
  BY <1>8, DecidesClosedEffect DEF Leave, NoView
<1>9. CASE DecidesConflict
  BY <1>9, FollowBaseEffect DEF DecidesConflict, Decides, Keeps, Verdict, Leave, NoView
<1>10. CASE DecidesStaleRed
  BY <1>10 DEF DecidesStaleRed, Verdict, Watching, Decides
<1>11. CASE SelectRerun
  BY <1>11 DEF SelectRerun, RerunAt, Rerun, Watching, Decides
<1>12. CASE ResumeRerun
  BY <1>12 DEF ResumeRerun, RerunAt, Watching, Decides
<1>13. CASE PassesRerun
  BY <1>13 DEF PassesRerun, Rerun, RerunAt, Watching, Decides
<1>14. CASE Reserves
  BY <1>14 DEF Reserves, Rerun, Leave, NoView
<1>15. CASE Posts
  BY <1>15, PostedEffect DEF Leave, NoView
<1>16. CASE PostFails
  BY <1>16, PostedEffect DEF Leave, NoView
<1>17. CASE DecidesRed
  BY <1>17 DEF DecidesRed, Checks
<1>18. CASE DecidesGreen
  BY <1>18 DEF DecidesGreen, Leave, NoView, Checks
<1>19. CASE Counts
  BY <1>19, CountsEffect
<1>20. CASE CutPasses
  BY <1>20 DEF CutPasses, Due
<1>21. CASE CutRepoWide
  BY <1>21 DEF CutRepoWide, NoCycle, Cut, Due, Cycle, Leave, NoView
<1>22. CASE CutAgain
  BY <1>22 DEF CutAgain, Failed, Exhausted, Cut, Due, Verdict
<1>23. CASE CutWaives
  BY <1>23 DEF CutWaives, Exhausted, Cut, Due, Verdict
<1>24. CASE CutRebuilds
  BY <1>24 DEF CutRebuilds, Unconverged, Exhausted, Cut, Due, Verdict
<1>25. CASE Closes
  BY <1>25 DEF Closes
<1>26. CASE CloseFails
  BY <1>26 DEF CloseFails, Cycle, Leave, NoView
<1>27. CASE Finishes
  BY <1>27 DEF Finishes, Leave, NoView
<1>28. CASE FinishFails
  BY <1>28 DEF FinishFails, Leave, NoView
<1>29. CASE Starts
  BY <1>29 DEF Starts, Kinds, NoRun
<1>30. CASE Charges
  BY <1>30 DEF Charges, Cycle, Leave, NoView
<1>31. CASE GateSkipped
  BY <1>31 DEF GateSkipped
<1>32. CASE GateForgets
  BY <1>32 DEF GateForgets, Gate, InCycle, NoReview
<1>33. CASE GatePasses
  BY <1>33 DEF GatePasses, Judged, Gate, InCycle, Verdict, Leave, NoView
<1>34. CASE GateWaives
  BY <1>34, GateWaivesEffect DEF Leave, NoView
<1>35. CASE GateReviewsAgain
  BY <1>35, GateReviewsAgainEffect DEF NoReview
<1>36. CASE GateFails
  BY <1>36 DEF GateFails, CycleAt, NoCycle, Refused, Judged, Gate, InCycle, Verdict
<1>37. CASE StartsReview
  BY <1>37, StartsReviewEffect DEF Verdict
<1>38. CASE Binds
  BY <1>38 DEF Binds, NoReview, Leave, NoView
<1>39. CASE FreshFollowsBase
  BY <1>39, FollowBaseEffect DEF FreshFollowsBase, Fresh, Unmoved, Keeps, Verdict, Leave, NoView
<1>40. CASE FreshPasses
  BY <1>40 DEF FreshPasses, Fresh, Unmoved
<1>41. CASE Requests
  BY <1>41, RequestsEffect DEF Leave, NoView
<1>42. CASE Notes
  BY <1>42, NotesEffect DEF Leave, NoView
<1>43. CASE UpdateConflicts
  BY <1>43 DEF UpdateConflicts, Update, Unmoved
<1>44. CASE UpdateMerges
  BY <1>44, UpdateMergesEffect DEF Unmoved
<1>45. CASE Updates
  BY <1>45, UpdatesEffect DEF Leave, NoView
<1>46. CASE \E v \in {"pass", "fail", "protected"} : ReviewVerdicts(v)
  BY <1>46, ReviewVerdictsEffect DEF Late
<1>47. CASE ReviewFades
  BY <1>47, ReviewFadesEffect DEF NoReview
<1>48. CASE FixDone
  BY <1>48, SavedEffect, FixEndsEffect
<1>49. CASE FixStops
  BY <1>49, SavedEffect, FixEndsEffect
<1>50. CASE FixFails
  BY <1>50, SavedEffect, FixEndsEffect
<1>51. CASE FixBlamesCI
  BY <1>51, FixBlamesCIEffect DEF RerunAt
<1>52. CASE BuildDone
  BY <1>52, SavedEffect DEF BuildDone
<1>53. CASE GhostEnds
  BY <1>53, FixEndsEffect DEF GhostEnds, visit
<1>54. CASE Go
  BY <1>54, AtShape, ResetEffect DEF Go, NoReview, States, Kinds
<1>55. CASE SessionShips
  BY <1>55, SessionShipsEffect DEF NoReview
<1>56. CASE Pushed
  BY <1>56, PushedEffect
<1> QED BY QuietSteps, <1>1, <1>2, <1>3, <1>4, <1>5, <1>6, <1>7, <1>8, <1>9, <1>10, <1>11, <1>12,
    <1>13, <1>14, <1>15, <1>16, <1>17, <1>18, <1>19, <1>20, <1>21, <1>22, <1>23, <1>24, <1>25,
        <1>26, <1>27, <1>28, <1>29, <1>30, <1>31, <1>32, <1>33, <1>34, <1>35, <1>36, <1>37, <1>38,
            <1>39, <1>40, <1>41, <1>42, <1>43, <1>44, <1>45, <1>46, <1>47, <1>48, <1>49, <1>50,
                <1>51, <1>52, <1>53, <1>54, <1>55, <1>56 DEF Next, Daemon, Watches, Fixes, Merges,
                    Endings, World

LEMMA KeepingKeeps ==
  ASSUME Types, Types', Flow, Numbered, NewHeads, Reruns, Marks, Keeping, [Next]_vars PROVE Keeping'
<1> USE Fields DEF Types, vars, ledger, runs, visit, Mine, Released, Keeping, RowKeeps,
    PassRecorded, Reviewing, NewHeads, Known, Numbered, Marks, Flow, RowFollows, LooksTrue,
    RunOwns, Acting, Opening, Steps, Heads, Prs
<1>1. CASE Quiet
  BY <1>1 DEF Quiet, Leave, NoView
<1>2. CASE UNCHANGED vars
  BY <1>2
<1>3. CASE Visit
  BY <1>3 DEF Visit, NoView
<1>4. CASE OpenFails
  BY <1>4, OpenFailsEffect DEF Leave, NoView
<1>5. CASE Pushes
  BY <1>5, PushesEffect
<1>6. CASE Records
  BY <1>6 DEF Records, Leave, NoView
<1>7. CASE Looks
  BY <1>7 DEF Looks, Shows
<1>8. CASE DecidesClosed
  BY <1>8, DecidesClosedEffect DEF Leave, NoView
<1>9. CASE DecidesConflict
  BY <1>9, FollowBaseEffect DEF DecidesConflict, Decides, Keeps, Verdict, Leave, NoView
<1>10. CASE DecidesStaleRed
  BY <1>10 DEF DecidesStaleRed, Verdict, Watching, Decides
<1>11. CASE SelectRerun
  BY <1>11 DEF SelectRerun, RerunAt, Rerun, Watching, Decides
<1>12. CASE ResumeRerun
  BY <1>12 DEF ResumeRerun, RerunAt, Watching, Decides
<1>13. CASE PassesRerun
  BY <1>13 DEF PassesRerun, Rerun, RerunAt, Watching, Decides
<1>14. CASE Reserves
  BY <1>14 DEF Reserves, Rerun, Leave, NoView
<1>15. CASE Posts
  BY <1>15, PostedEffect DEF Leave, NoView
<1>16. CASE PostFails
  BY <1>16, PostedEffect DEF Leave, NoView
<1>17. CASE DecidesRed
  BY <1>17 DEF DecidesRed, Checks
<1>18. CASE DecidesGreen
  BY <1>18 DEF DecidesGreen, Leave, NoView, Checks
<1>19. CASE Counts
  BY <1>19, CountsEffect
<1>20. CASE CutPasses
  BY <1>20 DEF CutPasses, Due
<1>21. CASE CutRepoWide
  BY <1>21 DEF CutRepoWide, NoCycle, Cut, Due, Cycle, Leave, NoView
<1>22. CASE CutAgain
  BY <1>22 DEF CutAgain, Failed, Exhausted, Cut, Due, Verdict
<1>23. CASE CutWaives
  BY <1>23 DEF CutWaives, Exhausted, Cut, Due, Verdict
<1>24. CASE CutRebuilds
  BY <1>24 DEF CutRebuilds, Unconverged, Exhausted, Cut, Due, Verdict
<1>25. CASE Closes
  BY <1>25 DEF Closes
<1>26. CASE CloseFails
  BY <1>26 DEF CloseFails, Cycle, Leave, NoView
<1>27. CASE Finishes
  BY <1>27 DEF Finishes, Leave, NoView
<1>28. CASE FinishFails
  BY <1>28 DEF FinishFails, Leave, NoView
<1>29. CASE Starts
  BY <1>29 DEF Starts, Kinds, NoRun
<1>30. CASE Charges
  BY <1>30 DEF Charges, Cycle, Leave, NoView
<1>31. CASE GateSkipped
  BY <1>31 DEF GateSkipped
<1>32. CASE GateForgets
  BY <1>32 DEF GateForgets, Gate, InCycle, NoReview
<1>33. CASE GatePasses
  BY <1>33 DEF GatePasses, Judged, Gate, InCycle, Verdict, Leave, NoView
<1>34. CASE GateWaives
  BY <1>34, GateWaivesEffect DEF Leave, NoView
<1>35. CASE GateReviewsAgain
  <2>1. UNCHANGED <<item, kv, hub, step, view, run, hist>> /\ review'.head = 0 /\ ~review'.old
        /\ review'.verdict = "none" /\ review'.pr = 0
    BY <1>35, GateReviewsAgainEffect DEF NoReview
  <2>2. step = "gate" /\ Failed(Verdict(view.head))
    BY <1>35, GateReviewsAgainEffect
  <2> QED BY <2>1, <2>2 DEF Failed, Verdict
<1>36. CASE GateFails
  BY <1>36 DEF GateFails, CycleAt, NoCycle, Refused, Judged, Gate, InCycle, Verdict
<1>37. CASE StartsReview
  <2>1. /\ step = "gate" /\ step' = "bind" /\ run'.role = "review" /\ ~review.old
        /\ UNCHANGED <<item, kv, hub, view, hist>>
        /\ review'.head = review.head /\ review'.pr = review.pr /\ review'.verdict = review.verdict
        /\ review'.old = review.old
        /\ review'.run = IF review.run = "this" THEN "earlier" ELSE review.run
        /\ review.head = view.head /\ review.pr = view.pr => review.verdict = "none"
    BY <1>37, StartsReviewEffect DEF Verdict
  <2>2. review.run \in {"none", "this", "earlier"}
    BY DEF ReviewType
  <2>3. hub.head # view.head /\ hub.head # 0 => review.head # hub.head
    BY <2>1
  <2>4. view.pr = hub.pr /\ hub.head # 0
    BY <2>1
  <2> QED BY <2>1, <2>2, <2>3, <2>4
<1>38. CASE Binds
  BY <1>38 DEF Binds, NoReview, Leave, NoView
<1>39. CASE FreshFollowsBase
  BY <1>39, FollowBaseEffect DEF FreshFollowsBase, Fresh, Unmoved, Keeps, Verdict, Leave, NoView
<1>40. CASE FreshPasses
  BY <1>40 DEF FreshPasses, Fresh, Unmoved
<1>41. CASE Requests
  BY <1>41, RequestsEffect DEF Leave, NoView
<1>42. CASE Notes
  BY <1>42, NotesEffect DEF Leave, NoView
<1>43. CASE UpdateConflicts
  BY <1>43 DEF UpdateConflicts, Update, Unmoved
<1>44. CASE UpdateMerges
  BY <1>44, UpdateMergesEffect DEF Unmoved
<1>45. CASE Updates
  BY <1>45, UpdatesEffect DEF Leave, NoView
<1>46. CASE \E v \in {"pass", "fail", "protected"} : ReviewVerdicts(v)
  BY <1>46, ReviewVerdictsEffect DEF Late
<1>47. CASE ReviewFades
  <2>1. /\ step = "idle" /\ run.role = "review" /\ run'.role = "none" /\ item'.pr = item.pr
        /\ UNCHANGED <<hub, step, view, kv, hist>>
    BY <1>47, ReviewFadesEffect
  <2>2. CASE review' = review
    BY <2>1, <2>2
  <2>3. CASE ~Late /\ review' = NoReview
    <3>1. review.verdict = "none"
      BY <2>1, <2>3 DEF Late
    <3>2. /\ review'.head = 0 /\ ~review'.old /\ review'.verdict = "none" /\ review'.pr = 0
      BY <2>3 DEF NoReview
    <3> QED BY <2>1, <3>1, <3>2
  <2> QED BY <1>47, <2>2, <2>3, ReviewFadesEffect
<1>48. CASE FixDone
  BY <1>48, SavedEffect, FixEndsEffect
<1>49. CASE FixStops
  BY <1>49, SavedEffect, FixEndsEffect
<1>50. CASE FixFails
  BY <1>50, SavedEffect, FixEndsEffect
<1>51. CASE FixBlamesCI
  BY <1>51, FixBlamesCIEffect DEF RerunAt
<1>52. CASE BuildDone
  BY <1>52, SavedEffect DEF BuildDone
<1>53. CASE GhostEnds
  BY <1>53, FixEndsEffect DEF GhostEnds, visit
<1>54. CASE Go
  BY <1>54, AtShape, ResetEffect DEF Go, NoReview, States, Kinds
<1>55. CASE SessionShips
  BY <1>55, SessionShipsEffect DEF NoReview
<1>56. CASE Pushed
  BY <1>56, PushedEffect
<1> QED BY QuietSteps, <1>1, <1>2, <1>3, <1>4, <1>5, <1>6, <1>7, <1>8, <1>9, <1>10, <1>11, <1>12,
    <1>13, <1>14, <1>15, <1>16, <1>17, <1>18, <1>19, <1>20, <1>21, <1>22, <1>23, <1>24, <1>25,
        <1>26, <1>27, <1>28, <1>29, <1>30, <1>31, <1>32, <1>33, <1>34, <1>35, <1>36, <1>37, <1>38,
            <1>39, <1>40, <1>41, <1>42, <1>43, <1>44, <1>45, <1>46, <1>47, <1>48, <1>49, <1>50,
                <1>51, <1>52, <1>53, <1>54, <1>55, <1>56 DEF Next, Daemon, Watches, Fixes, Merges,
                    Endings, World

LEMMA VouchingKeeps ==
  ASSUME Types, Types', Flow, Numbered, NewHeads, Reruns, Keeping, Vouching, [Next]_vars
           PROVE Vouching'
<1> USE Fields DEF Types, vars, ledger, runs, visit, Mine, Released, Vouching, Keeping, RowKeeps,
    PassRecorded, Reviewing, NewHeads, Known, Numbered, Flow, RowFollows, LooksTrue, RunOwns,
    Acting, Opening, Steps, Heads, Prs
<1>1. CASE Quiet
  BY <1>1 DEF Quiet, Leave, NoView
<1>2. CASE UNCHANGED vars
  BY <1>2
<1>3. CASE Visit
  BY <1>3 DEF Visit, NoView
<1>4. CASE OpenFails
  BY <1>4, OpenFailsEffect DEF Leave, NoView
<1>5. CASE Pushes
  BY <1>5, PushesEffect
<1>6. CASE Records
  BY <1>6 DEF Records, Leave, NoView
<1>7. CASE Looks
  BY <1>7 DEF Looks, Shows
<1>8. CASE DecidesClosed
  BY <1>8, DecidesClosedEffect DEF Leave, NoView
<1>9. CASE DecidesConflict
  BY <1>9, FollowBaseEffect DEF DecidesConflict, Decides, Keeps, Verdict, Leave, NoView
<1>10. CASE DecidesStaleRed
  BY <1>10 DEF DecidesStaleRed, Verdict, Watching, Decides
<1>11. CASE SelectRerun
  BY <1>11 DEF SelectRerun, RerunAt, Rerun, Watching, Decides
<1>12. CASE ResumeRerun
  BY <1>12 DEF ResumeRerun, RerunAt, Watching, Decides
<1>13. CASE PassesRerun
  BY <1>13 DEF PassesRerun, Rerun, RerunAt, Watching, Decides
<1>14. CASE Reserves
  BY <1>14 DEF Reserves, Rerun, Leave, NoView
<1>15. CASE Posts
  BY <1>15, PostedEffect DEF Leave, NoView
<1>16. CASE PostFails
  BY <1>16, PostedEffect DEF Leave, NoView
<1>17. CASE DecidesRed
  BY <1>17 DEF DecidesRed, Checks
<1>18. CASE DecidesGreen
  BY <1>18 DEF DecidesGreen, Leave, NoView, Checks
<1>19. CASE Counts
  BY <1>19, CountsEffect
<1>20. CASE CutPasses
  BY <1>20 DEF CutPasses, Due
<1>21. CASE CutRepoWide
  BY <1>21 DEF CutRepoWide, NoCycle, Cut, Due, Cycle, Leave, NoView
<1>22. CASE CutAgain
  BY <1>22 DEF CutAgain, Failed, Exhausted, Cut, Due, Verdict
<1>23. CASE CutWaives
  BY <1>23 DEF CutWaives, Exhausted, Cut, Due, Verdict
<1>24. CASE CutRebuilds
  BY <1>24 DEF CutRebuilds, Unconverged, Exhausted, Cut, Due, Verdict
<1>25. CASE Closes
  BY <1>25 DEF Closes
<1>26. CASE CloseFails
  BY <1>26 DEF CloseFails, Cycle, Leave, NoView
<1>27. CASE Finishes
  BY <1>27 DEF Finishes, Leave, NoView
<1>28. CASE FinishFails
  BY <1>28 DEF FinishFails, Leave, NoView
<1>29. CASE Starts
  BY <1>29 DEF Starts, Kinds, NoRun
<1>30. CASE Charges
  BY <1>30 DEF Charges, Cycle, Leave, NoView
<1>31. CASE GateSkipped
  BY <1>31 DEF GateSkipped
<1>32. CASE GateForgets
  BY <1>32 DEF GateForgets, Gate, InCycle, NoReview
<1>33. CASE GatePasses
  BY <1>33 DEF GatePasses, Judged, Gate, InCycle, Verdict, Leave, NoView
<1>34. CASE GateWaives
  BY <1>34, GateWaivesEffect DEF Leave, NoView
<1>35. CASE GateReviewsAgain
  BY <1>35, GateReviewsAgainEffect DEF NoReview
<1>36. CASE GateFails
  BY <1>36 DEF GateFails, CycleAt, NoCycle, Refused, Judged, Gate, InCycle, Verdict
<1>37. CASE StartsReview
  BY <1>37, StartsReviewEffect DEF Verdict
<1>38. CASE Binds
  BY <1>38 DEF Binds, NoReview, Leave, NoView
<1>39. CASE FreshFollowsBase
  BY <1>39, FollowBaseEffect DEF FreshFollowsBase, Fresh, Unmoved, Keeps, Verdict, Leave, NoView
<1>40. CASE FreshPasses
  BY <1>40 DEF FreshPasses, Fresh, Unmoved
<1>41. CASE Requests
  BY <1>41, RequestsEffect DEF Leave, NoView
<1>42. CASE Notes
  BY <1>42, NotesEffect DEF Leave, NoView
<1>43. CASE UpdateConflicts
  BY <1>43 DEF UpdateConflicts, Update, Unmoved
<1>44. CASE UpdateMerges
  BY <1>44, UpdateMergesEffect DEF Unmoved
<1>45. CASE Updates
  BY <1>45, UpdatesEffect DEF Leave, NoView
<1>46. CASE \E v \in {"pass", "fail", "protected"} : ReviewVerdicts(v)
  <2>1. PICK v \in {"pass", "fail", "protected"} : ReviewVerdicts(v)
    BY <1>46
  <2>2. /\ step = "idle" /\ run.role = "review" /\ run'.role = "none"
        /\ UNCHANGED <<hub, step, view, kv, risky>>
    BY <2>1, ReviewVerdictsEffect
  <2>3. CASE UNCHANGED <<review, hist>>
    BY <2>2, <2>3
  <2>4. CASE /\ ~Late /\ review'.verdict = v /\ review'.run = "this"
             /\ review'.head = review.head /\ review'.pr = review.pr /\ review'.old = review.old
             /\ v = "pass" => hist'.vouched = hist.vouched \cup {run.head}
    <3>1. review.run \in {"none", "this"}
      BY <2>4 DEF Late, ReviewType
    <3> QED BY <2>2, <2>4, <3>1
  <2> QED BY <2>1, <2>3, <2>4, ReviewVerdictsEffect
<1>47. CASE ReviewFades
  BY <1>47, ReviewFadesEffect DEF NoReview
<1>48. CASE FixDone
  BY <1>48, SavedEffect, FixEndsEffect
<1>49. CASE FixStops
  BY <1>49, SavedEffect, FixEndsEffect
<1>50. CASE FixFails
  BY <1>50, SavedEffect, FixEndsEffect
<1>51. CASE FixBlamesCI
  BY <1>51, FixBlamesCIEffect DEF RerunAt
<1>52. CASE BuildDone
  BY <1>52, SavedEffect DEF BuildDone
<1>53. CASE GhostEnds
  BY <1>53, FixEndsEffect DEF GhostEnds, visit
<1>54. CASE Go
  BY <1>54, AtShape, ResetEffect DEF Go, NoReview, States, Kinds
<1>55. CASE SessionShips
  <2>1. /\ ~review'.old /\ review'.verdict = "none" /\ review'.run = "none"
        /\ view'.old = (step # "idle") /\ view'.head = view.head
        /\ UNCHANGED <<step, hub, kv, run, risky>>
    BY <1>55, SessionShipsEffect DEF NoReview
  <2> QED BY <2>1
<1>56. CASE Pushed
  BY <1>56, PushedEffect
<1> QED BY QuietSteps, <1>1, <1>2, <1>3, <1>4, <1>5, <1>6, <1>7, <1>8, <1>9, <1>10, <1>11, <1>12,
    <1>13, <1>14, <1>15, <1>16, <1>17, <1>18, <1>19, <1>20, <1>21, <1>22, <1>23, <1>24, <1>25,
        <1>26, <1>27, <1>28, <1>29, <1>30, <1>31, <1>32, <1>33, <1>34, <1>35, <1>36, <1>37, <1>38,
            <1>39, <1>40, <1>41, <1>42, <1>43, <1>44, <1>45, <1>46, <1>47, <1>48, <1>49, <1>50,
                <1>51, <1>52, <1>53, <1>54, <1>55, <1>56 DEF Next, Daemon, Watches, Fixes, Merges,
                    Endings, World

------------------------------------------------------------------------------
LEMMA InitIInv == Init => IInv
<1> SUFFICES ASSUME Init PROVE IInv
  OBVIOUS
<1> USE DeliveryAssumption DEF Init, NoRun, NoReview, NoCycle, NoView, Heads, Prs, Kinds
<1>1. Types
  <2>1. item \in ItemType /\ owner \in Owners /\ run \in RunType /\ ghost \in RunType
    BY DEF ItemType, States, Owners, RunType
  <2>2. review \in ReviewType /\ kv \in KvType /\ rerun \in RerunType /\ hub \in HubType
    BY DEF ReviewType, KvType, RerunType, HubType
  <2>3. cycle \in [Kinds -> CycleType]
    BY DEF CycleType
  <2>4. step \in Steps /\ view \in ViewType /\ risky \in BOOLEAN /\ left \in Nat
    BY DEF Steps, ViewType
  <2>5. hist \in HistType
    BY DEF HistType
  <2> QED BY <2>1, <2>2, <2>3, <2>4, <2>5 DEF Types
<1>2. Flow
  BY DEF Flow, RowFollows, LooksTrue, KindFits, RunOwns, HasWork, Opening, Acting, Fixing
<1>3. Numbered
  BY DEF Numbered
<1>4. NewHeads
  BY DEF NewHeads, Known, Opening, Acting
<1>5. Reruns
  BY DEF Reruns, RerunPostedOnce
<1>6. Bills
  BY DEF Bills, Fixing
<1>7. Marks
  BY DEF Marks
<1>8. Keeping
  BY DEF Keeping, RowKeeps, PassRecorded, Reviewing
<1>9. Vouching
  BY DEF Vouching
<1> QED BY <1>1, <1>2, <1>3, <1>4, <1>5, <1>6, <1>7, <1>8, <1>9 DEF IInv

LEMMA NextKeeps == IInv /\ [Next]_vars => IInv'
<1> SUFFICES ASSUME IInv, [Next]_vars PROVE IInv'
  OBVIOUS
<1> USE DEF IInv
<1>1. Types'
  <2>1. CASE Next
    BY <2>1, TypesKeep
  <2>2. CASE UNCHANGED vars
    BY <2>2 DEF Types, vars, ledger, runs, visit
  <2> QED BY <2>1, <2>2
<1>2. Flow'
  <2>1. CASE Next
    BY <1>1, <2>1, FlowKeeps
  <2>2. CASE UNCHANGED vars
    BY <2>2 DEF Flow, RowFollows, LooksTrue, KindFits, RunOwns, HasWork, Opening, Acting, Fixing,
       vars, ledger, runs, visit
  <2> QED BY <2>1, <2>2
<1>3. Numbered' /\ NewHeads' /\ Reruns' /\ Bills' /\ Marks'
  BY <1>1, NumberedKeep, NewHeadsKeep, RerunsKeep, BillsKeep, MarksKeep
<1>4. Keeping' /\ Vouching'
  BY <1>1, KeepingKeeps, VouchingKeeps
<1> QED BY <1>1, <1>2, <1>3, <1>4

(* What holds in every state of a delivery: IInv above, from the type of every *)
(* record to what a pass on record, a paid failure or a closed PR implies.    *)
THEOREM DeliveryInvariance == Spec => []IInv
BY InitIInv, NextKeeps, PTL DEF Spec


(* What may come between the steps of a visit.                                *)
Anytime ==
  \/ Crash \/ SessionClaims \/ SessionShips \/ SessionReleases
  \/ ChecksEnd \/ BaseMoves \/ Pushed \/ OwnerCloses \/ Lands \/ Kicked

(* Which handlers act where the three properties below look.                  *)
LEMMA ActsAt ==
  ASSUME Next
  PROVE  /\ step = "request" => Requests \/ RequestLost \/ Anytime
         /\ step = "charge" => Charges \/ Anytime
         /\ step = "decide" => HandsOver \/ DecidesMerged \/ DecidesClosed \/
            DecidesConflict \/ DecidesStaleRed \/ SelectRerun \/ ResumeRerun \/ AwaitRerun
            \/ PassesRerun \/ Anytime
<1>1. CASE Watches
  BY <1>1 DEF Watches, Visit, HandsOver, OpenFails, OpenFindsMerged, Pushes, Records, Looks,
     LookFails, DecidesMerged, DecidesClosed, DecidesConflict, DecidesStaleRed, SelectRerun,
     ResumeRerun, AwaitRerun, PassesRerun, Reserves, Posts, PostFails, DecidesPending, DecidesRed,
     DecidesGreen, Decides, Watching, Checks
<1>2. CASE Fixes
  BY <1>2 DEF Fixes, Counts, CountWaits, CutPasses, CutRepoWide, CutFails, CutAgain, CutWaives,
     CutRebuilds, CutAsks, Closes, CloseFails, Finishes, FinishFails, FixWaits, NotStarted,
     Starts, Charges, Cut, Exhausted, Unconverged
<1>3. CASE Merges
  BY <1>3 DEF Merges, GateSkipped, VetBlocks, GateForgets, GatePasses, GateWaives,
     GateReviewsAgain, GateFails, GateWaits, StartsReview, Binds, QueueWaits, FreshPending,
     FreshFollowsBase, FreshPasses, Requests, RequestLost, Notes, UpdateConflicts, UpdateMerges,
     UpdateFails, Updates, Gate, Judged, Refused, Fresh, Update
<1>4. CASE Endings \/ Builds \/ Wakes \/ GivesUp \/ Go \/ FollowUps
  BY <1>4 DEF Endings, ReviewVerdicts, ReviewFades, FixDone, FixStops, FixFails, FixBlamesCI,
     BuildDone, BuildFails, GhostEnds, Ends, Builds, Wakes, GivesUp, Go, FollowUps
<1>5. CASE Anytime
  BY <1>5
<1> QED BY <1>1, <1>2, <1>3, <1>4, <1>5 DEF Next, Daemon, World, Anytime

(* None of it gives the item an attempt, or asks for a merge.                 *)
LEMMA AnytimeEffect ==
  ASSUME Types, Anytime
  PROVE  item'.attempts <= item.attempts /\ (hub'.queued => hub.queued)
<1>1. CASE SessionShips
  BY <1>1, Fields, SessionShipsEffect
<1>2. CASE SessionClaims \/ SessionReleases
  <2>1. item' = At("working") \/ item' = At("ready") \/ item' = item
    BY <1>2 DEF SessionClaims, SessionReleases
  <2> QED BY <1>2, <2>1, Fields, AtShape DEF SessionClaims, SessionReleases, States
<1>3. CASE Crash
  BY <1>3, Fields DEF Crash, ledger
<1>4. CASE ChecksEnd \/ BaseMoves \/ Pushed \/ OwnerCloses \/ Lands \/ Kicked
  <2>1. item' = item
    BY <1>4 DEF ChecksEnd, BaseMoves, Pushed, OwnerCloses, Lands, Kicked, OnHub, ledger
  <2>2. hub'.queued => hub.queued
    BY <1>4 DEF ChecksEnd, BaseMoves, Pushed, OwnerCloses, Lands, Kicked, Commit, Types, HubType
  <2> QED BY <2>1, <2>2, Fields
<1> QED BY <1>1, <1>2, <1>3, <1>4 DEF Anytime

(* _merge_if_green: the head a merge is asked for passed its review, or had    *)
(* its findings let through, since the last reset.                            *)
THEOREM MergesVouched == Spec => MergesAreVouched
<1>1. IInv /\ [Next]_vars =>
        [step = "request" /\ hub'.queued /\ ~hub.queued /\ ~view.old /\ (risky \/ kv.retained = view.pr)
           => view.head \in hist.vouched]_vars
  <2> SUFFICES ASSUME IInv, Next, step = "request", hub'.queued, ~hub.queued, ~view.old,
                      risky \/ kv.retained = view.pr
               PROVE  view.head \in hist.vouched
    OBVIOUS
  <2>1. Requests \/ RequestLost
    BY ActsAt, AnytimeEffect DEF IInv
  <2>2. hub.head = view.head
    BY <2>1 DEF Requests, RequestLost, Unmoved
  <2> QED BY <2>2 DEF IInv, Vouching
<1> QED BY <1>1, DeliveryInvariance, PTL DEF Spec, MergesAreVouched

(* _red_ci and _review_triggered_fix: the same failure of the same head is     *)
(* charged once.                                                              *)
THEOREM ChargedOnce == Spec => ChargeOnce
<1>1. IInv /\ [Next]_vars =>
        [step = "charge" /\ item'.attempts > view.attempts => <<view.kind, view.head>> \notin hist.billed]_vars
  <2> SUFFICES ASSUME IInv, Next, step = "charge", item'.attempts > view.attempts,
                      <<view.kind, view.head>> \in hist.billed
               PROVE  FALSE
    OBVIOUS
  <2>1. Types /\ Flow /\ Bills
    BY DEF IInv
  <2>2. CASE Anytime
    <3>1. item'.attempts <= item.attempts /\ item.attempts <= view.attempts /\ item' \in ItemType
      BY <2>1, <2>2, AnytimeEffect, TypesKeep DEF IInv, Flow, RowFollows, Types
    <3> QED BY <2>1, <3>1, Fields DEF ItemType
  <2>3. CASE Charges
    <3>1. view.kind \in Kinds /\ view.head \in Heads /\ Current(view.head)
      BY <2>1 DEF Flow, KindFits, LooksTrue, Fixing, Current, Acting, Opening, Steps
    <3>2. cycle[view.kind].charged
      BY <2>1, <3>1 DEF Bills
    <3>3. item'.attempts = view.attempts
      BY <2>1, <2>3, <3>2, Fields DEF Charges, Fee, Types, ItemType
    <3> QED BY <2>1, <3>3, Fields
  <2> QED BY <2>2, <2>3, ActsAt
<1> QED BY <1>1, DeliveryInvariance, PTL DEF Spec, ChargeOnce

(* _closed_pr: a PR the conductor closed for its rebuild costs no attempt.    *)
THEOREM OwnCloseFree == Spec => OwnCloseIsFree
<1>1. IInv /\ [Next]_vars => [step = "decide" /\ view.pr \in hist.closed => item'.attempts <= item.attempts]_vars
  <2> SUFFICES ASSUME IInv, Next, step = "decide", view.pr \in hist.closed
               PROVE  item'.attempts <= item.attempts
    OBVIOUS
  <2>1. Types /\ item \in ItemType /\ item.attempts <= item.attempts
    BY Fields DEF IInv, Types
  <2>2. CASE Anytime
    BY <2>1, <2>2, AnytimeEffect
  <2>3. CASE DecidesClosed
    <3>1. kv.closing = view.pr
      BY DEF IInv, Marks
    <3> QED BY <2>1, <2>3, <3>1, DecidesClosedEffect
  <2>4. CASE DecidesConflict
    BY <2>1, <2>4, FollowBaseEffect DEF DecidesConflict
  <2>5. CASE HandsOver \/ DecidesMerged
    BY <2>1, <2>5 DEF HandsOver, DecidesMerged, Ship, ItemType
  <2>6. CASE AwaitRerun
    BY <2>1, <2>6, PendingEffect DEF AwaitRerun
  <2>7. CASE DecidesStaleRed \/ SelectRerun \/ ResumeRerun \/ PassesRerun
    BY <2>1, <2>7 DEF DecidesStaleRed, SelectRerun, ResumeRerun, PassesRerun, ledger
  <2> QED BY <2>2, <2>3, <2>4, <2>5, <2>6, <2>7, ActsAt
<1> QED BY <1>1, DeliveryInvariance, PTL DEF Spec, OwnCloseIsFree

(* All that a fix and a rerun may cost: the types, one POST of a rerun for     *)
(* each head, one charge for each failure, none for the conductor's own close. *)
THEOREM ChargesFair == Spec => ChargesAreFair
<1>1. IInv => DeliveryTypeOK /\ RerunPostedOnce
  <2>1. IInv => Types /\ RerunPostedOnce
    BY DEF IInv, Reruns
  <2>2. Types => DeliveryTypeOK
    BY DEF Types, DeliveryTypeOK, ItemType, Owners, RunType, ReviewType, KvType, CycleType,
         RerunType, HubType, HistType
  <2> QED BY <2>1, <2>2
<1> QED BY <1>1, DeliveryInvariance, ChargedOnce, OwnCloseFree, PTL DEF ChargesAreFair

(* The steps that may take a PR off the row.                                  *)
LEMMA DropsPr ==
  ASSUME IInv, Next, item'.pr = 0, item.pr # 0
  PROVE  \/ OpenFails \/ Records \/ DecidesClosed \/ DecidesConflict \/ FreshFollowsBase \/ Finishes
         \/ SessionShips
<1>1. Types /\ Reruns /\ LooksTrue /\ KindFits /\ item \in ItemType
  BY DEF IInv, Flow, Types
<1>2. CASE Quiet
  BY <1>2 DEF Quiet
<1>3. CASE Pushes \/ Counts \/ GateWaives \/ GateReviewsAgain \/ StartsReview
  <2>1. item' = item
    BY <1>1, <1>3, PushesEffect, CountsEffect, GateWaivesEffect, GateReviewsAgainEffect,
       StartsReviewEffect
  <2> QED BY <2>1
<1>4. CASE Requests \/ UpdateMerges \/ Pushed
  <2>1. item' = item
    BY <1>1, <1>4, RequestsEffect, UpdateMergesEffect, PushedEffect
  <2> QED BY <2>1
<1>5. CASE Notes \/ Updates
  <2>1. item'.pr = item.pr
    BY <1>1, <1>5, NotesEffect, UpdatesEffect
  <2> QED BY <2>1
<1>6. CASE \E v \in {"pass", "fail", "protected"} : ReviewVerdicts(v)
  <2>1. item'.pr = item.pr
    BY <1>1, <1>6, ReviewVerdictsEffect
  <2> QED BY <2>1
<1>7. CASE ReviewFades \/ FixBlamesCI
  <2>1. item'.pr = item.pr
    BY <1>1, <1>7, ReviewFadesEffect, FixBlamesCIEffect
  <2> QED BY <2>1
<1>8. CASE FixDone \/ FixStops \/ FixFails \/ BuildDone
  <2>1. item'.pr = item.pr
    BY <1>1, <1>8, SavedEffect
  <2> QED BY <2>1
<1>9. CASE Posts \/ PostFails
  BY <1>1, <1>9, PostedEffect
<1>10. CASE Visit \/ Looks \/ DecidesStaleRed \/ SelectRerun \/ ResumeRerun \/ PassesRerun
              \/ Reserves \/ DecidesRed \/ DecidesGreen \/ CutPasses \/ CutAgain \/
              CutWaives \/ CutRebuilds \/ Closes \/ CloseFails \/ FinishFails \/
              GateSkipped \/ GateForgets \/ GatePasses \/ GateFails \/ Binds \/
              FreshPasses \/ UpdateConflicts \/ GhostEnds
  BY <1>10 DEF Visit, Looks, DecidesStaleRed, SelectRerun, ResumeRerun, PassesRerun, Reserves,
     DecidesRed, DecidesGreen, CutPasses, CutAgain, CutWaives, CutRebuilds, Closes, CloseFails,
     FinishFails, GateSkipped, GateForgets, GatePasses, GateFails, Binds, FreshPasses,
     UpdateConflicts, GhostEnds, ledger
<1>11. CASE Starts \/ Charges \/ CutRepoWide
  BY <1>1, <1>11 DEF Starts, Charges, CutRepoWide, ItemType
<1>12. CASE Go
  <2> DEFINE row == At(IF item.pr # 0 THEN "verifying" ELSE "ready")
  <2>1. row \in ItemType /\ row.pr = item.pr
    BY <1>1, AtShape DEF States
  <2>2. item' = [row EXCEPT !.attempts = 0]
    BY <1>12 DEF Go
  <2> HIDE DEF row
  <2> QED BY <2>1, <2>2 DEF ItemType
<1> QED BY <1>1, <1>2, <1>3, <1>4, <1>5, <1>6, <1>7, <1>8, <1>9, <1>10, <1>11, <1>12,
           QuietSteps
     DEF Next, Daemon, Watches, Fixes, Merges, Endings, World

(* _update_reviewed_pr: an open PR whose head ever passed, or that was kept     *)
(* for one that did, stays the item's PR.                                     *)
THEOREM ReviewedWorkKept == Spec => ReviewedWorkIsKept
<1>1. IInv /\ [Next]_vars =>
        [item.pr # 0 /\ item'.pr = 0 /\ hub.status = "OPEN" /\ item.pr = hub.pr
           => kv.retained # item.pr /\ hub.head \notin hist.passed]_vars
  <2> SUFFICES ASSUME IInv, Next, item.pr # 0, item'.pr = 0, hub.status = "OPEN", item.pr = hub.pr
               PROVE  kv.retained # item.pr /\ hub.head \notin hist.passed
    OBVIOUS
  <2>1. Types /\ Flow /\ Numbered /\ NewHeads /\ Marks /\ RowKeeps /\ PassRecorded
    BY DEF IInv, Keeping
  <2>2. CASE step # "idle" /\ view.pr # hub.pr
    BY <2>1, <2>2 DEF RowKeeps
  <2>3. CASE OpenFails
    BY <2>1, <2>2, <2>3, OpenFailsEffect
  <2>4. CASE DecidesClosed
    BY <2>1, <2>2, <2>4, DecidesClosedEffect DEF Marks
  <2>5. CASE Finishes
    BY <2>1, <2>2, <2>5 DEF Finishes, Marks
  <2>6. CASE DecidesConflict \/ FreshFollowsBase
    <3>1. /\ FollowBase /\ step \in {"decide", "fresh"} /\ view.status = "OPEN"
      BY <2>1, <2>6 DEF DecidesConflict, FreshFollowsBase, Decides, Fresh, Flow, LooksTrue,
         Acting, Opening, Steps
    <3>2. view.pr = hub.pr /\ view.head \in Heads
      BY <2>1, <3>1 DEF Flow, LooksTrue, Acting, Opening, Steps
    <3>3. kv.retained # hub.pr /\ Verdict(view.head) # "pass"
      BY <2>1, <3>1, <3>2, FollowBaseEffect DEF Keeps
    <3>4. CASE hub.head # view.head
      <4>1. hub.head \in Heads => hub.head \notin hist.passed
        BY <2>1, <3>1, <3>4, Fields DEF NewHeads, Known, Acting, Opening, Steps
      <4> QED BY <2>1, <3>3, <4>1, Fields
    <3>5. CASE hub.head = view.head
      BY <2>1, <3>2, <3>3, <3>5 DEF PassRecorded, Verdict
    <3> QED BY <3>4, <3>5
  <2>7. CASE Records \/ SessionShips
    <3>1. item'.pr = hub.pr
      BY <2>1, <2>7, SessionShipsEffect DEF Records, Types, ItemType
    <3> QED BY <3>1
  <2> QED BY <2>3, <2>4, <2>5, <2>6, <2>7, DropsPr
<1> QED BY <1>1, DeliveryInvariance, PTL DEF Spec, ReviewedWorkIsKept
===============================================================================
