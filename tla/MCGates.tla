------------------------------- MODULE MCGates -------------------------------
(* What lets a finished build through, and what becomes of it then: the review  *)
(* rounds of one PR (Convergence), a claim that nothing had to change (Claims), *)
(* and the shipment under observation (Shipment). They meet only in the item's  *)
(* state, which each keeps for itself, so one of them is explored at a time:    *)
(* part names it, and the others stay as they started.                         *)
EXTENDS Shipment, Convergence, Claims

VARIABLE part

(* The first two findings are one blocker and the edge case a fix of it left.  *)
Blocker == Finding("blocking", "spec", "here", 1, NoClaim)
Edge == Finding("blocking", "spec", "here", 2, [head |-> 1, scenario |-> 1])
Plain == Finding("blocking", "plain", "there", 1, NoClaim)
Security == Finding("blocking", "security", "elsewhere", 1, NoClaim)
Gate == Finding("blocking", "gate", "here", 1, NoClaim)
SomeReports(g) ==
  {{}, {Blocker}, {Plain}} \cup (IF g = 1 THEN {{Gate}} ELSE {{Security, Plain}, {Edge}})

ASSUME GatesAssumption == ConvergenceAssumption /\ ShipmentAssumption /\ ClaimsAssumption

gatesVars == <<part, reviewVars, claimsVars, vars>>

GatesInit ==
  /\ part \in {"review", "claim", "shipment"}
  /\ ReviewInit /\ ClaimsInit /\ Init
  /\ part # "review" => ~once.rebuilt

OnReview == part = "review" /\ UNCHANGED <<part, claimsVars, vars>>
OnClaim == part = "claim" /\ UNCHANGED <<part, reviewVars, vars>>
OnShipment == part = "shipment" /\ UNCHANGED <<part, reviewVars, claimsVars>>

GatesNext ==
  \/ OnReview /\ ReviewNext
  \/ OnClaim /\ ClaimsNext
  \/ OnShipment /\ Next

(* The fairness of each component: the ticks go on and run their passes to the *)
(* end, runs end, waits wake, days pass. Conditions of parts that exclude each  *)
(* other, and of steps of one pass, are stated as one.                         *)
Passes ==
  \/ OnReview /\ (Visits \/ MergeWaits)
  \/ OnClaim /\ Advance
  \/ OnShipment /\ Shipping
Endings ==
  \/ OnReview /\ Runs
  \/ OnClaim /\ finish
  \/ OnShipment /\ MirrorLabels
Returns ==
  \/ OnReview /\ Wakes
  \/ OnClaim /\ (SessionWorks \/ SessionLeaves)
  \/ OnShipment /\ (_open_pr \/ Watch)
Polls == OnShipment /\ (SyncOpen \/ SyncShut \/ PollShipped \/ Undo \/ Relabel)
GatesFairness ==
  /\ WF_gatesVars(Passes) /\ WF_gatesVars(Endings) /\ WF_gatesVars(Returns) /\ WF_gatesVars(Polls)
  /\ SF_gatesVars(OnShipment /\ SyncFetch) /\ SF_gatesVars(OnShipment /\ WindowEnds)

GatesSpec == GatesInit /\ [][GatesNext]_gatesVars /\ GatesFairness

------------------------------------------------------------------------------
(* DemotionsAreSound is Convergence's own, ClaimsAreReviewed Claims's, and       *)
(* ShipmentsAreSound and Settles are Shipment's. What remains:                  *)

=============================================================================
