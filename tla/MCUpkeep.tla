------------------------------ MODULE MCUpkeep -------------------------------
(* The duties beside the work on items: the pull requests of dependency bots    *)
(* (Bots), parents and the verification of their criteria (Parents), and the    *)
(* maintenance passes and the practices audit (Audits). They share no state the *)
(* properties tell apart, so one of them is explored at a time: part names it,  *)
(* and the others stay as they started.                                       *)
EXTENDS Bots, Parents, Audits, TLC

VARIABLE part

------------------------------------------------------------------------------
(* Two bot pull requests open with a minor update; the bot may rewrite them.    *)
Row(o, n) == [old |-> o, new |-> n, action |-> FALSE]
Minor == {Row(<<1, 0, 0>>, <<1, 1, 0>>), Row(<<2, 0, 0>>, <<2, 0, 0>>)}
Major == {Row(<<1, 0, 0>>, <<1, 1, 0>>), Row(<<1, 9, 0>>, <<2, 0, 0>>)}

TwoTables == {Minor, Major}
BothMinor == (1 :> Minor) @@ (2 :> Minor)

(* Two maintenance passes, one of which reviews an interval.                   *)
TestsAndEscapes == <<"tests", "escapes">>

ASSUME UpkeepAssumption == BotsAssumption /\ ParentsAssumption /\ AuditsAssumption

------------------------------------------------------------------------------
upkeepVars == <<part, vars, parentVars, auditVars>>

UpkeepInit ==
  /\ part \in {"bots", "parents", "audits"}
  /\ Init /\ ParentsInit /\ AuditsInit
  /\ part # "audits" => gap = {}

OnlyBots == part = "bots" /\ UNCHANGED <<part, parentVars, auditVars>>
OnlyParents == part = "parents" /\ UNCHANGED <<part, vars, auditVars>>
OnlyAudits == part = "audits" /\ UNCHANGED <<part, vars, parentVars>>

UpkeepNext ==
  \/ OnlyBots /\ Next
  \/ OnlyParents /\ ParentsNext
  \/ OnlyAudits /\ AuditsNext

(* The passes run at every tick, and time goes by.                             *)
UpkeepFairness ==
  /\ WF_upkeepVars(OnlyBots /\ Pass) /\ WF_upkeepVars(OnlyBots /\ Clock)
  /\ WF_upkeepVars(OnlyParents /\ ParentsPass) /\ WF_upkeepVars(OnlyParents /\ SyncClosed)
  /\ WF_upkeepVars(OnlyParents /\ Day)
  /\ WF_upkeepVars(OnlyAudits /\ Tick)

UpkeepSpec == UpkeepInit /\ [][UpkeepNext]_upkeepVars /\ UpkeepFairness

------------------------------------------------------------------------------
(* What was begun ends: a merge request is settled or dropped, a finished       *)
(* parent is completed, unmet criteria are told to the owner, an audit is       *)
(* finished (Bots, Parents, Audits).                                           *)
UpkeepEnds ==
  /\ PendingEnds
  /\ (part = "parents" => FinishedParentsComplete) /\ UnresolvedIsTold
  /\ AuditsFinish
=============================================================================
