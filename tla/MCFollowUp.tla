----------------------------- MODULE MCFollowUp ------------------------------
(* What the daemon comes back to, tick after tick, until it ends: the checks of *)
(* two merges of one issue (PostMerge, under three policies), and an item that  *)
(* waits (Waits). Neither reads the other's state, so one of them is explored   *)
(* at a time: part names it, and the other stays as it started.                 *)
EXTENDS PostMerge, Waits

VARIABLES part

OneIssue == <<1, 1>>
ThreePolicies ==
  {[deploy |-> "watch", live |-> "command", smoke |-> TRUE, revert |-> TRUE, pause |-> 2],
   [deploy |-> "command", live |-> "github", smoke |-> FALSE, revert |-> FALSE, pause |-> 1],
   [deploy |-> "watch", live |-> "mahler", smoke |-> FALSE, revert |-> TRUE, pause |-> 1]}

(* A cause whose wake looks, one whose wake only waits, one with a first delay; *)
(* 15 and 30 minutes of backoff; a limit beyond every first delay. *)
SixCauses == {"capacity", "review_inconclusive", "setup", "launch", "worktree_conflict",
              "review_nonconvergent"}
QuarterHours == <<1, 2>>

ASSUME FollowUpAssumption == WaitsAssumption

Resting == [state |-> "ready", stamp |-> 0, at |-> 0, pr |-> FALSE, sorted |-> TRUE, text |-> "owner"]

FollowUpInit ==
  /\ part \in {"checks", "waits"}
  /\ Init /\ WaitsInit
  /\ part = "checks" => ~gate /\ item = Resting
  /\ part = "waits" => policy.smoke /\ (gate <=> item.text = "owner")

Checks == part = "checks" /\ UNCHANGED <<part, waitsVars>>
Waiting == part = "waits" /\ UNCHANGED <<part, vars>>

FollowUpNext ==
  \/ Checks /\ Next
  \/ Waiting /\ WaitsNext

(* Fairness, as PostMerge has it. *)
CheckFairness ==
  /\ WF_vars(Checks /\ Tick) /\ WF_vars(Checks /\ Alert)
  /\ \A m \in Merges : SF_vars(Checks /\ TakesRow(m)) /\ WF_vars(Checks /\ DeadlinePasses(m))

FollowUpSpec ==
  FollowUpInit /\ [][FollowUpNext]_<<part, vars, waitsVars>> /\ CheckFairness

==============================================================================
