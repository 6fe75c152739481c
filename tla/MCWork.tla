-------------------------------- MODULE MCWork --------------------------------
(* The work of a tick on items: taking one finished build to its merge          *)
(* (Delivery), and handing out slots and surviving broken launches (Dispatch).  *)
(* The scheduler meets a delivery only as one more item in verifying, which     *)
(* Dispatch has of its own, so one of them is explored at a time: part names    *)
(* it, and the other stays as it started. The properties come with the two.     *)
EXTENDS Delivery, Dispatch, Sequences

VARIABLE part

(* Three items of two projects, two in one area; one starts ready and has       *)
(* failed to launch twice before the last launch of another, two are in the     *)
(* inbox. Three platforms of two quota groups, in two tiers.                    *)
ProjectOf == <<"a", "a", "b">>
AreaOf == <<"x", "x", "z">>
FloorOf == <<1, 3, 2>>
DependsOn == <<{}, {}, {1}>>
GroupOf == [opus |-> "claude", sonnet |-> "claude", codex |-> "codex"]
RunsOf == [opus |-> 2, sonnet |-> 2, codex |-> 1]
TierOf == [opus |-> 3, sonnet |-> 2, codex |-> 2]
Budgets == <<4, 2, 1>>
SomeMoods ==
  {[paused |-> {}, hot |-> {}, boost |-> "none"],
   [paused |-> {"b"}, hot |-> {}, boost |-> "none"],
   [paused |-> {}, hot |-> {"a"}, boost |-> "b"]}
OneReady == <<"ready", "inbox", "inbox">>
FailedTwice == <<[sig |-> "git", count |-> 2], [sig |-> "none", count |-> 0],
                 [sig |-> "none", count |-> 0]>>

WorkInit ==
  /\ part \in {"dispatch", "delivery"}
  /\ DispatchInit /\ Init
  /\ part # "delivery" => ~risky

Dispatching == part = "dispatch" /\ UNCHANGED <<part, vars>>
Delivering == part = "delivery" /\ UNCHANGED <<part, dispatchVars>>

WorkNext ==
  \/ Dispatching /\ DispatchNext
  \/ Delivering /\ Next

WorkSpec == WorkInit /\ [][WorkNext]_<<part, dispatchVars, vars>>
=============================================================================
