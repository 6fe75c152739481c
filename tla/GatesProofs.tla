------------------------------ MODULE GatesProofs ------------------------------
(* Proofs about Shipment, for any number of pull requests, builds, stamped      *)
(* events, crashes and failed calls, and for people who may do anything at any  *)
(* time; about Convergence, for any policy and any number of heads and review   *)
(* runs; and about Claims, for any number of claims, sessions and deaths.      *)
EXTENDS Shipment, Convergence, Claims, FiniteSetTheorems, SequenceTheorems, WellFoundedInduction, TLAPS

Stages == {"idle", "uat", "state", "count", "close", "closed", "label", "open", "shut", "poll",
           "undo", "relabel"}
States == {"ready", "verifying", "shipped", "done"}

ItemType == [state : States, pr : Prs \cup {0}, snap : BOOLEAN, mirror : {"other", "shipped"}]
UatType ==
  [pr : Prs \cup {0}, at : Nat, verdict : {"none", "pass", "fail"}, failed : Nat, bug : BOOLEAN]
ProofType == [kind : {"none", "smoke", "owner", "quiet"}, at : Nat]
KvType == [closed : BOOLEAN, noted : BOOLEAN, relabel : BOOLEAN, counted : Prs \cup {0}]
NoteType == [kind : {"smoke", "owner"}, at : Nat]
HubType == [open : BOOLEAN, reopens : SUBSET Nat, bugs : SUBSET Nat, notes : SUBSET NoteType]
PrType == [status : {"none", "open", "merged", "closed"}, at : Nat, work : Nat]
StepType == [at : Stages, pr : Prs \cup {0}, open : BOOLEAN, fetched : Nat]

TypeOK ==
  /\ item \in ItemType /\ uat \in UatType /\ proof \in ProofType /\ kv \in KvType
  /\ adverse \in SUBSET Nat /\ reopened \in BOOLEAN
  /\ hub \in HubType /\ prs \in [Prs -> PrType]
  /\ built \in Nat /\ now \in Nat /\ end \in Nat /\ faults \in Nat
  /\ step \in StepType
  /\ seen \in [reopenings : [Prs -> Nat], lost : SUBSET Prs]

(* What has a stamp has been stamped.                                         *)
StampsOK ==
  /\ \A at \in hub.bugs \cup hub.reopens : 0 < at /\ at <= now
  /\ \A p \in Prs : prs[p].at <= now
  /\ step.fetched <= now /\ end <= now
  /\ step.at = "idle" => step = Idle

(* A merge that is being recorded is the merge of the pull request on record.  *)
StepOK ==
  /\ step.at \in {"uat", "state", "count", "close", "closed", "label"} => step.pr = item.pr
  /\ step.at \in {"uat", "state"} => pr_merged(item.pr)
  /\ step.at = "shut" => ~step.open

(* The row under observation is of a merge, and its evidence came after it.    *)
UatOK ==
  \/ uat.pr = 0 /\ uat = NoUat
  \/ pr_merged(uat.pr) /\ uat.at = prs[uat.pr].at /\ uat.at <= now
ProofOK == proof = NoProof \/ (uat # NoUat /\ proof.at > uat.at)
EndOK == end # 0 => uat # NoUat /\ end > uat.at

(* A shipped item is the one that is observed, unless its row could not be     *)
(* written.                                                                   *)
OwnRow ==
  \/ item.pr \in seen.lost
  \/ item.state # "shipped" /\ step.at # "state"
  \/ uat # NoUat /\ uat.pr = item.pr

(* The linked bugs of the last fetch are known.                               *)
BugsKnown == \A at \in hub.bugs : at <= step.fetched => at \in adverse

(* Of the reopenings of this shipment the first, at least, is known once one   *)
(* was noted.                                                                 *)
Known(at) == uat.at <= at => \E b \in adverse : uat.at <= b /\ b <= at
NotedOK ==
  kv.noted => /\ uat # NoUat
              /\ \E b \in adverse : uat.at <= b /\ b <= now
              /\ \A at \in hub.reopens : Known(at)

(* A poll that goes on after an open issue knows the reopenings it fetched.    *)
PollOK ==
  \/ item.pr \in seen.lost
  \/ step.at = "poll" /\ step.open /\ item.state = "shipped" /\ kv.closed =>
       \A at \in hub.reopens : at <= step.fetched => Known(at)

(* A shipment that was reopened is the one observed and its reopening is on    *)
(* record, or it is past: no other row will be of it.                         *)
PastOK ==
  \A p \in Prs : seen.reopenings[p] # 0 =>
    /\ prs[p].status = "merged"
    /\ (p = uat.pr /\ reopened) \/ (p # uat.pr /\ p # item.pr)

Related ==
  /\ StampsOK /\ StepOK /\ UatOK /\ ProofOK /\ EndOK /\ OwnRow
  /\ BugsKnown /\ NotedOK /\ PollOK /\ PastOK /\ ReopenedOnce
IInv == TypeOK /\ Related

------------------------------------------------------------------------------
(* Each step keeps the invariant: the types of what it changes, then what its  *)
(* parts say of each other.                                                   *)

LEMMA BuildKeeps == ASSUME ShipmentAssumption, IInv, Build PROVE IInv'
<1>1. TypeOK'
  <2>1. item' \in ItemType
    BY DEF Build, ledger, world, IInv, TypeOK, ItemType, States
  <2>2. built' \in Nat
    BY DEF Build, ledger, world, IInv, TypeOK
  <2> QED BY <2>1, <2>2 DEF Build, ledger, world, IInv, TypeOK
<1>2. Related'
  BY DEF Build, IInv, TypeOK, ItemType, UatType, HubType, PrType, StepType, Related, StampsOK,
         StepOK, UatOK, ProofOK, EndOK, OwnRow, BugsKnown, NotedOK, PollOK, PastOK, ReopenedOnce,
         Known, ledger, world, NoUat, NoProof, Idle, NoPr, pr_merged
<1> QED BY <1>1, <1>2 DEF IInv

LEMMA MergeKeeps == ASSUME ShipmentAssumption, IInv, Merge PROVE IInv'
<1>1. TypeOK'
  <2>1. prs' \in [Prs -> PrType]
    BY DEF Merge, Stamp, ledger, world, IInv, TypeOK, PrType, ItemType
  <2>2. now' \in Nat
    BY DEF Merge, Stamp, ledger, world, IInv, TypeOK
  <2>3. hub' \in HubType
    BY DEF Merge, Stamp, ledger, world, IInv, TypeOK, HubType, NoteType
  <2> QED BY <2>1, <2>2, <2>3 DEF Merge, Stamp, ledger, world, IInv, TypeOK
<1>2. Related'
  BY DEF Merge, Stamp, IInv, TypeOK, ItemType, UatType, HubType, PrType, StepType, Related,
         StampsOK, StepOK, UatOK, ProofOK, EndOK, OwnRow, BugsKnown, NotedOK, PollOK, PastOK,
         ReopenedOnce, Known, ledger, world, NoUat, NoProof, Idle, NoPr, pr_merged
<1> QED BY <1>1, <1>2 DEF IInv

LEMMA WatchKeeps == ASSUME ShipmentAssumption, IInv, Watch PROVE IInv'
<1>1. TypeOK'
  <2>1. step' \in StepType
    BY DEF Watch, ledger, world, IInv, TypeOK, StepType, Stages, Idle, ItemType, pr_merged
  <2> QED BY <2>1 DEF Watch, ledger, world, IInv, TypeOK
<1>2. Related'
  BY DEF Watch, IInv, TypeOK, ItemType, UatType, HubType, PrType, StepType, Related, StampsOK,
         StepOK, UatOK, ProofOK, EndOK, OwnRow, BugsKnown, NotedOK, PollOK, PastOK, ReopenedOnce,
         Known, ledger, world, NoUat, NoProof, Idle, NoPr, pr_merged
<1> QED BY <1>1, <1>2 DEF IInv

LEMMA SessionShipsKeeps == ASSUME ShipmentAssumption, IInv, SessionShips PROVE IInv'
<1>1. TypeOK'
  <2>1. built' \in Nat
    BY DEF SessionShips, ledger, world, IInv, TypeOK
  <2>2. prs' \in [Prs -> PrType]
    BY DEF SessionShips, ledger, world, IInv, TypeOK, PrType
  <2>3. item' \in ItemType
    BY DEF SessionShips, ledger, world, IInv, TypeOK, ItemType, States
  <2> QED BY <2>1, <2>2, <2>3 DEF SessionShips, ledger, world, IInv, TypeOK
<1>2. Related'
  BY DEF SessionShips, IInv, TypeOK, ItemType, UatType, HubType, PrType, StepType, Related,
         StampsOK, StepOK, UatOK, ProofOK, EndOK, OwnRow, BugsKnown, NotedOK, PollOK, PastOK,
         ReopenedOnce, Known, ledger, world, NoUat, NoProof, Idle, NoPr, pr_merged
<1> QED BY <1>1, <1>2 DEF IInv

LEMMA SetShippedKeeps == ASSUME ShipmentAssumption, IInv, SetShipped PROVE IInv'
<1>1. TypeOK'
  <2>1. item' \in ItemType
    BY DEF SetShipped, Go, ledger, world, IInv, TypeOK, ItemType, States
  <2>2. step' \in StepType
    BY DEF SetShipped, Go, ledger, world, IInv, TypeOK, StepType, Stages, Idle
  <2> QED BY <2>1, <2>2 DEF SetShipped, Go, ledger, world, IInv, TypeOK
<1>2. Related'
  BY DEF SetShipped, Go, IInv, TypeOK, ItemType, UatType, HubType, PrType, StepType, Related,
         StampsOK, StepOK, UatOK, ProofOK, EndOK, OwnRow, BugsKnown, NotedOK, PollOK, PastOK,
         ReopenedOnce, Known, ledger, world, NoUat, NoProof, Idle, NoPr, pr_merged
<1> QED BY <1>1, <1>2 DEF IInv

LEMMA CountShippedKeeps == ASSUME ShipmentAssumption, IInv, CountShipped PROVE IInv'
<1>1. TypeOK'
  <2>1. kv' \in KvType
    BY DEF CountShipped, Go, ledger, world, IInv, TypeOK, KvType, StepType
  <2>2. step' \in StepType
    BY DEF CountShipped, Go, ledger, world, IInv, TypeOK, StepType, Stages, Idle
  <2> QED BY <2>1, <2>2 DEF CountShipped, Go, ledger, world, IInv, TypeOK
<1>2. Related'
  BY DEF CountShipped, Go, IInv, TypeOK, ItemType, UatType, HubType, PrType, StepType, Related,
         StampsOK, StepOK, UatOK, ProofOK, EndOK, OwnRow, BugsKnown, NotedOK, PollOK, PastOK,
         ReopenedOnce, Known, ledger, world, NoUat, NoProof, Idle, NoPr, pr_merged
<1> QED BY <1>1, <1>2 DEF IInv

LEMMA NoteClosedKeeps == ASSUME ShipmentAssumption, IInv, NoteClosed PROVE IInv'
<1>1. TypeOK'
  <2>1. kv' \in KvType
    BY DEF NoteClosed, Go, ledger, world, IInv, TypeOK, KvType
  <2>2. step' \in StepType
    BY DEF NoteClosed, Go, ledger, world, IInv, TypeOK, StepType, Stages, Idle
  <2> QED BY <2>1, <2>2 DEF NoteClosed, Go, ledger, world, IInv, TypeOK
<1>2. Related'
  BY DEF NoteClosed, Go, IInv, TypeOK, ItemType, UatType, HubType, PrType, StepType, Related,
         StampsOK, StepOK, UatOK, ProofOK, EndOK, OwnRow, BugsKnown, NotedOK, PollOK, PastOK,
         ReopenedOnce, Known, ledger, world, NoUat, NoProof, Idle, NoPr, pr_merged
<1> QED BY <1>1, <1>2 DEF IInv

LEMMA LabelShippedKeeps == ASSUME ShipmentAssumption, IInv, LabelShipped PROVE IInv'
<1>1. TypeOK'
  <2>1. step' \in StepType
    BY DEF LabelShipped, Done, Fault, ledger, world, IInv, TypeOK, StepType, Stages, Idle
  <2>2. item' \in ItemType
    BY DEF LabelShipped, Done, Fault, ledger, world, IInv, TypeOK, ItemType, States
  <2>3. faults' \in Nat
    BY DEF LabelShipped, Done, Fault, ledger, world, IInv, TypeOK
  <2> QED BY <2>1, <2>2, <2>3 DEF LabelShipped, Done, Fault, ledger, world, IInv, TypeOK
<1>2. Related'
  BY DEF LabelShipped, Done, Fault, IInv, TypeOK, ItemType, UatType, HubType, PrType, StepType,
         Related, StampsOK, StepOK, UatOK, ProofOK, EndOK, OwnRow, BugsKnown, NotedOK, PollOK,
         PastOK, ReopenedOnce, Known, ledger, world, NoUat, NoProof, Idle, NoPr, pr_merged
<1> QED BY <1>1, <1>2 DEF IInv

LEMMA CrashKeeps == ASSUME ShipmentAssumption, IInv, Crash PROVE IInv'
<1>1. TypeOK'
  <2>1. step' \in StepType
    BY DEF Crash, Fault, Done, ledger, world, IInv, TypeOK, StepType, Stages, Idle
  <2>2. faults' \in Nat
    BY DEF Crash, Fault, Done, ledger, world, IInv, TypeOK
  <2> QED BY <2>1, <2>2 DEF Crash, Fault, Done, ledger, world, IInv, TypeOK
<1>2. Related'
  BY DEF Crash, Fault, Done, IInv, TypeOK, ItemType, UatType, HubType, PrType, StepType, Related,
         StampsOK, StepOK, UatOK, ProofOK, EndOK, OwnRow, BugsKnown, NotedOK, PollOK, PastOK,
         ReopenedOnce, Known, ledger, world, NoUat, NoProof, Idle, NoPr, pr_merged
<1> QED BY <1>1, <1>2 DEF IInv

LEMMA SyncFetchKeeps == ASSUME ShipmentAssumption, IInv, SyncFetch PROVE IInv'
<1>1. TypeOK'
  <2>1. step' \in StepType
    BY DEF SyncFetch, ledger, world, IInv, TypeOK, StepType, Stages, Idle, HubType
  <2>2. adverse' \in SUBSET Nat
    BY DEF SyncFetch, ledger, world, IInv, TypeOK, HubType
  <2>3. seen' \in [reopenings : [Prs -> Nat], lost : SUBSET Prs]
    BY DEF SyncFetch, Found, IInv, TypeOK
  <2> QED BY <2>1, <2>2, <2>3 DEF SyncFetch, ledger, world, IInv, TypeOK
<1>2. seen'.reopenings = seen.reopenings /\ (item.pr \in seen.lost => item.pr \in seen'.lost \/ uat.pr = item.pr)
  BY DEF SyncFetch, Found, IInv, TypeOK
<1>3. (StampsOK /\ StepOK /\ UatOK /\ ProofOK /\ EndOK /\ BugsKnown /\ NotedOK /\ PollOK /\ PastOK /\ ReopenedOnce)'
  BY <1>2 DEF SyncFetch, IInv, TypeOK, ItemType, UatType, HubType, PrType, StepType, Related,
         StampsOK, StepOK, UatOK, ProofOK, EndOK, BugsKnown, NotedOK, PollOK, PastOK, ReopenedOnce,
         Known, ledger, world, NoUat, NoProof, Idle, NoPr, pr_merged
<1>4. OwnRow'
  <2>1. UNCHANGED <<item, uat>> /\ step'.at # "state"
    BY DEF SyncFetch, Idle
  <2>2. CASE item.state = "shipped" /\ item.pr \notin seen'.lost
    <3>1. uat # NoUat /\ uat.pr = item.pr
      BY <1>2, <2>2 DEF IInv, TypeOK, Related, OwnRow, NoUat, Prs
    <3> QED BY <2>1, <3>1 DEF OwnRow
  <2> QED BY <2>1, <2>2 DEF OwnRow
<1> QED BY <1>1, <1>3, <1>4 DEF IInv, Related

LEMMA FileBugKeeps == ASSUME ShipmentAssumption, IInv, FileBug PROVE IInv'
<1>1. TypeOK'
  <2>1. hub' \in HubType
    BY DEF FileBug, Says, Stamp, ledger, world, IInv, TypeOK, HubType, NoteType
  <2>2. now' \in Nat
    BY DEF FileBug, Says, Stamp, ledger, world, IInv, TypeOK
  <2> QED BY <2>1, <2>2 DEF FileBug, Says, Stamp, ledger, world, IInv, TypeOK
<1>2. Related'
  BY DEF FileBug, Says, Stamp, IInv, TypeOK, ItemType, UatType, HubType, PrType, StepType,
         Related,
         StampsOK, StepOK, UatOK, ProofOK, EndOK, OwnRow, BugsKnown, NotedOK, PollOK, PastOK,
         ReopenedOnce, Known, ledger, world, NoUat, NoProof, Idle, NoPr, pr_merged
<1> QED BY <1>1, <1>2 DEF IInv

LEMMA AskRevertKeeps == ASSUME ShipmentAssumption, IInv, AskRevert PROVE IInv'
<1>1. TypeOK'
  <2>1. adverse' \in SUBSET Nat
    BY DEF AskRevert, Says, Stamp, ledger, world, IInv, TypeOK
  <2>2. now' \in Nat
    BY DEF AskRevert, Says, Stamp, ledger, world, IInv, TypeOK
  <2> QED BY <2>1, <2>2 DEF AskRevert, Says, Stamp, ledger, world, IInv, TypeOK
<1>2. Related'
  BY DEF AskRevert, Says, Stamp, IInv, TypeOK, ItemType, UatType, HubType, PrType, StepType,
         Related, StampsOK, StepOK, UatOK, ProofOK, EndOK, OwnRow, BugsKnown, NotedOK, PollOK,
         PastOK, ReopenedOnce, Known, ledger, world, NoUat, NoProof, Idle, NoPr, pr_merged
<1> QED BY <1>1, <1>2 DEF IInv

LEMMA OwnerClosesKeeps == ASSUME ShipmentAssumption, IInv, OwnerCloses PROVE IInv'
<1>1. TypeOK'
  <2>1. hub' \in HubType
    BY DEF OwnerCloses, Says, Stamp, ledger, world, IInv, TypeOK, HubType, NoteType
  <2>2. now' \in Nat
    BY DEF OwnerCloses, Says, Stamp, ledger, world, IInv, TypeOK
  <2> QED BY <2>1, <2>2 DEF OwnerCloses, Says, Stamp, ledger, world, IInv, TypeOK
<1>2. Related'
  BY DEF OwnerCloses, Says, Stamp, IInv, TypeOK, ItemType, UatType, HubType, PrType, StepType,
         Related, StampsOK, StepOK, UatOK, ProofOK, EndOK, OwnRow, BugsKnown, NotedOK, PollOK,
         PastOK, ReopenedOnce, Known, ledger, world, NoUat, NoProof, Idle, NoPr, pr_merged
<1> QED BY <1>1, <1>2 DEF IInv

LEMMA OwnerClosesPrKeeps == ASSUME ShipmentAssumption, IInv, OwnerClosesPr PROVE IInv'
<1>1. TypeOK'
  <2>1. prs' \in [Prs -> PrType]
    BY DEF OwnerClosesPr, ledger, world, IInv, TypeOK, PrType
  <2> QED BY <2>1 DEF OwnerClosesPr, ledger, world, IInv, TypeOK
<1>2. Related'
  BY DEF OwnerClosesPr, IInv, TypeOK, ItemType, UatType, HubType, PrType, StepType, Related,
         StampsOK, StepOK, UatOK, ProofOK, EndOK, OwnRow, BugsKnown, NotedOK, PollOK, PastOK,
         ReopenedOnce, Known, ledger, world, NoUat, NoProof, Idle, NoPr, pr_merged
<1> QED BY <1>1, <1>2 DEF IInv

LEMMA WindowEndsKeeps == ASSUME ShipmentAssumption, IInv, WindowEnds PROVE IInv'
<1>1. TypeOK'
  <2>1. end' \in Nat
    BY DEF WindowEnds, Stamp, ledger, world, IInv, TypeOK
  <2>2. now' \in Nat
    BY DEF WindowEnds, Stamp, ledger, world, IInv, TypeOK
  <2> QED BY <2>1, <2>2 DEF WindowEnds, Stamp, ledger, world, IInv, TypeOK
<1>2. Related'
  BY DEF WindowEnds, Stamp, IInv, TypeOK, ItemType, UatType, HubType, PrType, StepType, Related,
         StampsOK, StepOK, UatOK, ProofOK, EndOK, OwnRow, BugsKnown, NotedOK, PollOK, PastOK,
         ReopenedOnce, Known, ledger, world, NoUat, NoProof, Idle, NoPr, pr_merged
<1> QED BY <1>1, <1>2 DEF IInv

LEMMA CloseIssueKeeps == ASSUME ShipmentAssumption, IInv, CloseIssue PROVE IInv'
<1>1. CASE hub' = [hub EXCEPT !.open = FALSE] /\ Go("closed") /\ UNCHANGED faults
  <2>1. hub' \in HubType
    BY <1>1 DEF IInv, TypeOK, HubType, NoteType
  <2>2. step' \in StepType
    BY <1>1 DEF Go, IInv, TypeOK, StepType, Stages
  <2>3. TypeOK'
    BY <1>1, <2>1, <2>2 DEF CloseIssue, ledger, world, IInv, TypeOK
  <2>4. Related'
    BY <1>1 DEF CloseIssue, Go, IInv, TypeOK, ItemType, UatType, HubType, PrType, StepType,
           Related,
           StampsOK, StepOK, UatOK, ProofOK, EndOK, OwnRow, BugsKnown, NotedOK, PollOK, PastOK,
           ReopenedOnce, Known, ledger, world, NoUat, NoProof, Idle, NoPr, pr_merged
  <2> QED BY <2>3, <2>4 DEF IInv
<1>2. CASE Fault /\ Done /\ UNCHANGED hub
  <2>1. step' \in StepType
    BY <1>2 DEF Done, Idle, StepType, Stages
  <2>2. TypeOK'
    BY <1>2, <2>1 DEF CloseIssue, Fault, ledger, world, IInv, TypeOK
  <2>3. Related'
    BY <1>2 DEF CloseIssue, Fault, Done, IInv, TypeOK, ItemType, UatType, HubType, PrType,
           StepType,
           Related, StampsOK, StepOK, UatOK, ProofOK, EndOK, OwnRow, BugsKnown, NotedOK, PollOK,
           PastOK, ReopenedOnce, Known, ledger, world, NoUat, NoProof, Idle, NoPr, pr_merged
  <2> QED BY <2>2, <2>3 DEF IInv
<1> QED BY <1>1, <1>2 DEF CloseIssue

LEMMA MirrorLabelsKeeps == ASSUME ShipmentAssumption, IInv, MirrorLabels PROVE IInv'
<1>1. CASE item.state = "shipped" /\ step' = [step EXCEPT !.at = "close", !.pr = item.pr] /\ UNCHANGED item
  <2>1. step' \in StepType
    BY <1>1 DEF IInv, TypeOK, StepType, Stages, ItemType
  <2>2. TypeOK'
    BY <1>1, <2>1 DEF MirrorLabels, ledger, world, IInv, TypeOK
  <2>3. Related'
    BY <1>1 DEF MirrorLabels, IInv, TypeOK, ItemType, UatType, HubType, PrType, StepType, Related,
           StampsOK, StepOK, UatOK, ProofOK, EndOK, OwnRow, BugsKnown, NotedOK, PollOK, PastOK,
           ReopenedOnce, Known, ledger, world, NoUat, NoProof, Idle, NoPr, pr_merged
  <2> QED BY <2>2, <2>3 DEF IInv
<1>2. CASE item' = [item EXCEPT !.mirror = "other"] /\ UNCHANGED step
  <2>1. item' \in ItemType
    BY <1>2 DEF IInv, TypeOK, ItemType
  <2>2. TypeOK'
    BY <1>2, <2>1 DEF MirrorLabels, ledger, world, IInv, TypeOK
  <2>3. item'.state = item.state /\ item'.pr = item.pr
    BY <1>2 DEF IInv, TypeOK, ItemType
  <2>4. Related'
    BY <1>2, <2>3 DEF MirrorLabels, IInv, TypeOK, ItemType, UatType, HubType, PrType, StepType,
           Related, StampsOK, StepOK, UatOK, ProofOK, EndOK, OwnRow, BugsKnown, NotedOK, PollOK,
           PastOK, ReopenedOnce, Known, ledger, world, NoUat, NoProof, Idle, NoPr, pr_merged
  <2> QED BY <2>2, <2>4 DEF IInv
<1> QED BY <1>1, <1>2 DEF MirrorLabels

LEMMA FailUatKeeps == ASSUME ShipmentAssumption, IInv, FailUat PROVE IInv'
<1>1. now' \in Nat /\ now' > now
  BY DEF FailUat, Says, Stamp, IInv, TypeOK
<1>2. hub' \in HubType /\ hub'.reopens = hub.reopens /\ hub'.bugs = hub.bugs \cup {now'}
  BY <1>1 DEF FailUat, IInv, TypeOK, HubType, NoteType
<1>3. uat' \in UatType /\ uat'.pr = uat.pr /\ uat'.at = uat.at /\ uat' # NoUat
  <2>1. CASE uat.verdict = "pass"
    BY <2>1 DEF FailUat, IInv, TypeOK, UatType, NoUat
  <2>2. CASE uat.verdict # "pass"
    BY <1>1, <2>2 DEF FailUat, IInv, TypeOK, UatType, NoUat
  <2> QED BY <2>1, <2>2
<1>4. TypeOK'
  BY <1>1, <1>2, <1>3 DEF FailUat, IInv, TypeOK
<1>5. uat # NoUat
  BY DEF FailUat
<1>6. (StampsOK /\ StepOK /\ UatOK /\ OwnRow /\ BugsKnown)'
  BY <1>1, <1>2, <1>3, <1>5 DEF FailUat, IInv, TypeOK, ItemType, UatType, HubType, PrType,
         StepType,
         Related, StampsOK, StepOK, UatOK, ProofOK, EndOK, OwnRow, BugsKnown, NotedOK, PollOK,
         PastOK, ReopenedOnce, Known, ledger, world, NoUat, NoProof, Idle, NoPr, pr_merged
<1>7. (ProofOK /\ EndOK /\ NotedOK /\ PollOK /\ PastOK /\ ReopenedOnce)'
  BY <1>1, <1>2, <1>3, <1>5 DEF FailUat, IInv, TypeOK, ItemType, UatType, HubType, PrType,
         StepType,
         Related, StampsOK, StepOK, UatOK, ProofOK, EndOK, OwnRow, BugsKnown, NotedOK, PollOK,
         PastOK, ReopenedOnce, Known, ledger, world, NoUat, NoProof, Idle, NoPr, pr_merged
<1> QED BY <1>4, <1>6, <1>7 DEF IInv, Related

(* A reopening after one that was noted is later than it.                     *)
LEMMA ReopenIsLater ==
  ASSUME IInv, now' \in Nat, now' > now, hub'.reopens = hub.reopens \cup {now'},
         kv'.noted = kv.noted, UNCHANGED <<uat, adverse>>
  PROVE  NotedOK'
<1>1. CASE kv.noted
  <2>1. PICK b \in adverse : uat.at <= b /\ b <= now
    BY <1>1 DEF IInv, Related, NotedOK
  <2>2. b \in Nat /\ b <= now' /\ uat # NoUat
    BY <1>1, <2>1 DEF IInv, TypeOK, Related, NotedOK
  <2>3. \A at \in hub'.reopens : Known(at)'
    BY <1>1, <2>1, <2>2 DEF IInv, Related, NotedOK, Known
  <2> QED BY <2>1, <2>2, <2>3 DEF NotedOK
<1>2. CASE ~kv.noted
  BY <1>2 DEF NotedOK
<1> QED BY <1>1, <1>2

LEMMA OwnerReopensKeeps == ASSUME ShipmentAssumption, IInv, OwnerReopens PROVE IInv'
<1>1. now' \in Nat /\ now' > now
  BY DEF OwnerReopens, Says, Stamp, IInv, TypeOK
<1>2. hub' \in HubType /\ hub'.reopens = hub.reopens \cup {now'} /\ hub'.bugs = hub.bugs
  BY <1>1 DEF OwnerReopens, IInv, TypeOK, HubType, NoteType
<1>3. TypeOK'
  BY <1>1, <1>2 DEF OwnerReopens, ledger, IInv, TypeOK
<1>4. (StampsOK /\ StepOK /\ UatOK /\ ProofOK /\ EndOK /\ OwnRow /\ BugsKnown /\ PastOK /\ ReopenedOnce)'
  BY <1>1, <1>2 DEF OwnerReopens, IInv, TypeOK, ItemType, UatType, HubType, PrType, StepType,
         Related, StampsOK, StepOK, UatOK, ProofOK, EndOK, OwnRow, BugsKnown, NotedOK, PollOK,
         PastOK, ReopenedOnce, Known, ledger, world, NoUat, NoProof, Idle, NoPr, pr_merged
<1>5. NotedOK'
  BY <1>1, <1>2, ReopenIsLater DEF OwnerReopens, ledger
<1>6. PollOK'
  BY <1>1, <1>2 DEF OwnerReopens, IInv, TypeOK, ItemType, UatType, HubType, PrType, StepType,
         Related, StampsOK, StepOK, UatOK, ProofOK, EndOK, OwnRow, BugsKnown, NotedOK, PollOK,
         PastOK, ReopenedOnce, Known, ledger, world, NoUat, NoProof, Idle, NoPr, pr_merged
<1> QED BY <1>3, <1>4, <1>5, <1>6 DEF IInv, Related

LEMMA CommentKeeps ==
  ASSUME ShipmentAssumption, IInv, NEW kind \in {"smoke", "owner"}, Comment(kind) PROVE IInv'
<1>1. now' \in Nat /\ now' > now
  BY DEF Comment, Says, Stamp, IInv, TypeOK
<1>2. hub' \in HubType /\ hub'.reopens = hub.reopens /\ hub'.bugs = hub.bugs
  BY <1>1 DEF Comment, IInv, TypeOK, HubType, NoteType
<1>3. TypeOK'
  BY <1>1, <1>2 DEF Comment, ledger, IInv, TypeOK
<1>4. Related'
  BY <1>1, <1>2 DEF Comment, IInv, TypeOK, ItemType, UatType, HubType, PrType, StepType, Related,
         StampsOK, StepOK, UatOK, ProofOK, EndOK, OwnRow, BugsKnown, NotedOK, PollOK, PastOK,
         ReopenedOnce, Known, ledger, world, NoUat, NoProof, Idle, NoPr, pr_merged
<1> QED BY <1>3, <1>4 DEF IInv

LEMMA _open_prKeeps == ASSUME ShipmentAssumption, IInv, _open_pr PROVE IInv'
<1>1. CASE pr_merged(item.pr)
  <2>1. step' = [step EXCEPT !.at = "uat", !.pr = item.pr] /\ UNCHANGED <<item, prs>>
    BY <1>1 DEF _open_pr
  <2>2. step' \in StepType
    BY <2>1 DEF IInv, TypeOK, StepType, Stages, ItemType
  <2>3. TypeOK'
    BY <2>1, <2>2 DEF _open_pr, IInv, TypeOK
  <2>4. Related'
    BY <1>1, <2>1 DEF _open_pr, IInv, TypeOK, ItemType, UatType, HubType, PrType, StepType,
           Related,
           StampsOK, StepOK, UatOK, ProofOK, EndOK, OwnRow, BugsKnown, NotedOK, PollOK, PastOK,
           ReopenedOnce, Known, ledger, world, NoUat, NoProof, Idle, NoPr, pr_merged
  <2> QED BY <2>3, <2>4 DEF IInv
<1>2. CASE ~pr_merged(item.pr)
  <2>1. PICK p \in Prs :
          /\ prs[p].status \in {"none", "open"}
          /\ prs' = [prs EXCEPT ![p] = [status |-> "open", at |-> 0, work |-> built]]
          /\ item' = [item EXCEPT !.pr = p, !.snap = FALSE]
          /\ UNCHANGED step
    BY <1>2 DEF _open_pr
  <2>2. prs' \in [Prs -> PrType] /\ item' \in ItemType
    BY <2>1 DEF IInv, TypeOK, PrType, ItemType
  <2>3. TypeOK'
    BY <2>1, <2>2 DEF _open_pr, IInv, TypeOK
  <2>4. /\ item'.state = item.state /\ item'.pr = p /\ item.state = "verifying" /\ step = Idle
        /\ \A q \in Prs : prs[q].status = "merged" => prs'[q] = prs[q] /\ q # p
    BY <2>1 DEF _open_pr, IInv, TypeOK, ItemType
  <2>5. UNCHANGED <<uat, proof, kv, adverse, reopened, hub, now, end, step, seen>>
    BY <2>1 DEF _open_pr
  <2>6. StampsOK'
    <3>1. \A q \in Prs : prs'[q].at <= now
      BY <2>1 DEF IInv, TypeOK, PrType, Related, StampsOK
    <3> QED BY <2>5, <3>1 DEF IInv, Related, StampsOK
  <2>7. StepOK' /\ OwnRow'
    BY <2>4, <2>5 DEF IInv, Related, StepOK, OwnRow, Idle
  <2>8. UatOK'
    <3>1. CASE uat.pr = 0
      BY <2>5, <3>1 DEF IInv, Related, UatOK, pr_merged
    <3>2. CASE uat.pr # 0
      BY <2>4, <2>5, <3>2 DEF IInv, TypeOK, UatType, Related, UatOK, pr_merged
    <3> QED BY <3>1, <3>2
  <2>9. (ProofOK /\ EndOK /\ BugsKnown /\ NotedOK /\ ReopenedOnce)'
    BY <2>5 DEF IInv, Related, ProofOK, EndOK, BugsKnown, NotedOK, Known, ReopenedOnce
  <2>10. PollOK'
    BY <2>4, <2>5 DEF PollOK, Idle
  <2>11. PastOK'
    BY <2>4, <2>5 DEF IInv, Related, PastOK
  <2> QED BY <2>3, <2>6, <2>7, <2>8, <2>9, <2>10, <2>11 DEF IInv, Related
<1> QED BY <1>1, <1>2

(* add_uat with the merge on record: the row is of that merge, nothing of the  *)
(* shipment before it is kept, and that one is past.                          *)
LEMMA Supersedes ==
  ASSUME ShipmentAssumption, IInv, pr_merged(item.pr), add_uat(item.pr),
         UNCHANGED <<item, adverse, hub, prs, now>>, seen'.reopenings = seen.reopenings
  PROVE  /\ uat' \in UatType /\ proof' \in ProofType /\ kv' \in KvType
         /\ reopened' \in BOOLEAN /\ end' \in Nat /\ end' <= now
         /\ uat' # NoUat /\ uat'.pr = item.pr
         /\ (UatOK /\ ProofOK /\ EndOK /\ NotedOK /\ PastOK)'
<1>1. item.pr \in Prs /\ prs[item.pr] \in PrType
  BY DEF pr_merged, IInv, TypeOK, ItemType
<1>2. CASE uat.pr = item.pr
  <2>1. UNCHANGED <<uat, proof, kv, reopened, end>>
    BY <1>2 DEF add_uat
  <2>2. uat # NoUat
    BY <1>1, <1>2 DEF NoUat, Prs
  <2> QED BY <1>1, <1>2, <2>1, <2>2 DEF IInv, TypeOK, ItemType, UatType, HubType, PrType,
         StepType,
         Related, StampsOK, StepOK, UatOK, ProofOK, EndOK, OwnRow, BugsKnown, NotedOK, PollOK,
         PastOK, ReopenedOnce, Known, ledger, world, NoUat, NoProof, Idle, NoPr, pr_merged
<1>3. CASE uat.pr # item.pr
  <2>1. /\ uat' = [NoUat EXCEPT !.pr = item.pr, !.at = prs[item.pr].at] /\ end' = 0 /\ proof' = NoProof
        /\ kv' = IF uat = NoUat THEN kv
                 ELSE [kv EXCEPT !.closed = FALSE, !.noted = FALSE, !.relabel = FALSE]
        /\ reopened' = IF uat = NoUat THEN reopened ELSE FALSE
    BY <1>3 DEF add_uat
  <2>2. uat' \in UatType /\ uat'.pr = item.pr /\ uat'.at = prs[item.pr].at /\ uat' # NoUat
    <3>1. prs[item.pr].at \in Nat /\ item.pr # 0
      BY <1>1 DEF PrType, Prs
    <3>2. uat' = [pr |-> item.pr, at |-> prs[item.pr].at, verdict |-> "none", failed |-> 0, bug |-> FALSE]
      BY <2>1 DEF NoUat
    <3> QED BY <1>1, <3>1, <3>2 DEF UatType, NoUat
  <2>3. proof' \in ProofType /\ end' \in Nat /\ end' <= now
    BY <2>1 DEF ProofType, NoProof, IInv, TypeOK
  <2>4. kv' \in KvType /\ ~kv'.noted
    BY <2>1 DEF KvType, IInv, TypeOK, ItemType, UatType, HubType, PrType, StepType, Related,
           StampsOK, StepOK, UatOK, ProofOK, EndOK, OwnRow, BugsKnown, NotedOK, PollOK, PastOK,
           ReopenedOnce, Known, ledger, world, NoUat, NoProof, Idle, NoPr, pr_merged
  <2>5. reopened' \in BOOLEAN
    BY <2>1 DEF IInv, TypeOK
  <2>6. UatOK' /\ ProofOK' /\ EndOK' /\ NotedOK'
    BY <1>1, <2>1, <2>2, <2>4 DEF IInv, TypeOK, ItemType, UatType, HubType, PrType, StepType,
           Related, StampsOK, StepOK, UatOK, ProofOK, EndOK, OwnRow, BugsKnown, NotedOK, PollOK,
           PastOK, ReopenedOnce, Known, ledger, world, NoUat, NoProof, Idle, NoPr, pr_merged
  <2>7. PastOK'
    BY <1>1, <1>3, <2>2 DEF IInv, TypeOK, ItemType, UatType, HubType, PrType, StepType, Related,
           StampsOK, StepOK, UatOK, ProofOK, EndOK, OwnRow, BugsKnown, NotedOK, PollOK, PastOK,
           ReopenedOnce, Known, ledger, world, NoUat, NoProof, Idle, NoPr, pr_merged
  <2> QED BY <2>2, <2>3, <2>4, <2>5, <2>6, <2>7
<1> QED BY <1>2, <1>3

LEMMA RecordUatKeeps == ASSUME ShipmentAssumption, IInv, RecordUat PROVE IInv'
<1>1. step' \in StepType /\ step'.at = "state" /\ step'.pr = step.pr /\ step'.fetched = step.fetched
  BY DEF RecordUat, Go, IInv, TypeOK, StepType, Stages
<1>2. /\ step.pr = item.pr /\ item.pr \in Prs /\ pr_merged(item.pr)
      /\ UNCHANGED <<item, adverse, hub, prs, built, now>>
  BY DEF RecordUat, IInv, TypeOK, ItemType, Related, StepOK, pr_merged
<1>3. CASE add_uat(item.pr) /\ Found(item.pr) /\ UNCHANGED faults
  <2>0. /\ seen' \in [reopenings : [Prs -> Nat], lost : SUBSET Prs]
        /\ seen'.reopenings = seen.reopenings
    BY <1>3 DEF Found, IInv, TypeOK
  <2>1. /\ uat' \in UatType /\ proof' \in ProofType /\ kv' \in KvType
        /\ reopened' \in BOOLEAN /\ end' \in Nat /\ end' <= now
        /\ uat' # NoUat /\ uat'.pr = item.pr
        /\ (UatOK /\ ProofOK /\ EndOK /\ NotedOK /\ PastOK)'
    BY <1>2, <1>3, <2>0, Supersedes
  <2>2. TypeOK'
    BY <1>1, <1>2, <1>3, <2>0, <2>1 DEF IInv, TypeOK
  <2>3. (StampsOK /\ StepOK /\ OwnRow /\ BugsKnown /\ PollOK /\ ReopenedOnce)'
    BY <1>1, <1>2, <2>0, <2>1 DEF IInv, Related, StampsOK, StepOK, OwnRow, BugsKnown, PollOK,
           ReopenedOnce, pr_merged
  <2> QED BY <2>1, <2>2, <2>3 DEF IInv, Related
<1>4. CASE Lost(item.pr) /\ Fault /\ UNCHANGED <<uat, proof, kv, reopened, end>>
  <2>0. /\ seen' \in [reopenings : [Prs -> Nat], lost : SUBSET Prs]
        /\ seen'.reopenings = seen.reopenings /\ (item.pr \in seen'.lost \/ uat.pr = item.pr)
    BY <1>2, <1>4 DEF Lost, IInv, TypeOK
  <2>1. TypeOK'
    BY <1>1, <1>2, <1>4, <2>0 DEF Fault, IInv, TypeOK
  <2>2. Related'
    BY <1>1, <1>2, <1>4, <2>0 DEF IInv, TypeOK, ItemType, UatType, HubType, PrType, StepType, Related,
           StampsOK, StepOK, UatOK, ProofOK, EndOK, OwnRow, BugsKnown, NotedOK, PollOK, PastOK,
           ReopenedOnce, Known, ledger, world, NoUat, NoProof, Idle, NoPr, pr_merged
  <2> QED BY <2>1, <2>2 DEF IInv
<1> QED BY <1>2, <1>3, <1>4 DEF RecordUat

LEMMA SyncOpenKeeps == ASSUME ShipmentAssumption, IInv, SyncOpen PROVE IInv'
<1>1. /\ step.at = "open" /\ step \in StepType
      /\ UNCHANGED <<uat, proof, reopened, hub, prs, built, now, end, faults, seen>>
  BY DEF SyncOpen, world, IInv, TypeOK
<1>2. ASSUME Go("poll")
      PROVE  /\ step' \in StepType /\ step'.at = "poll" /\ step'.pr = step.pr
             /\ step'.open = step.open /\ step'.fetched = step.fetched
  BY <1>1, <1>2 DEF Go, StepType, Stages
<1>3. CASE Unmerged
  <2>1. /\ item' = [item EXCEPT !.state = "ready", !.pr = 0, !.snap = FALSE, !.mirror = "other"]
        /\ Go("poll") /\ UNCHANGED <<kv, adverse>>
    BY <1>3 DEF SyncOpen
  <2>2. item' \in ItemType /\ item'.state = "ready" /\ item'.pr = 0
    BY <2>1 DEF IInv, TypeOK, ItemType, States
  <2>3. TypeOK'
    BY <1>1, <1>2, <2>1, <2>2 DEF IInv, TypeOK
  <2>4. (StampsOK /\ StepOK /\ UatOK /\ ProofOK /\ EndOK /\ OwnRow /\ BugsKnown /\ NotedOK)'
    BY <1>1, <1>2, <2>1, <2>2 DEF IInv, TypeOK, ItemType, UatType, HubType, PrType, StepType,
           Related, StampsOK, StepOK, UatOK, ProofOK, EndOK, OwnRow, BugsKnown, NotedOK, PollOK,
           PastOK, ReopenedOnce, Known, ledger, world, NoUat, NoProof, Idle, NoPr, pr_merged
  <2>5. PollOK'
    BY <2>2 DEF PollOK
  <2>6. PastOK' /\ ReopenedOnce'
    BY <1>1, <2>2 DEF IInv, Related, PastOK, ReopenedOnce, Prs
  <2> QED BY <2>3, <2>4, <2>5, <2>6 DEF IInv, Related
<1>4. CASE ~Unmerged /\ ToNote /\ Reopens # {}
  <2>1. /\ UNCHANGED item /\ adverse' = adverse \cup Reopens
        /\ kv' = [kv EXCEPT !.noted = TRUE] /\ Go("poll")
    BY <1>4 DEF SyncOpen
  <2>2. kv' \in KvType /\ kv'.closed = kv.closed
    BY <2>1 DEF IInv, TypeOK, KvType
  <2>3. adverse' \in SUBSET Nat
    BY <2>1 DEF Reopens, IInv, TypeOK, HubType
  <2>4. TypeOK'
    BY <1>1, <1>2, <2>1, <2>2, <2>3 DEF IInv, TypeOK
  <2>5. (StampsOK /\ StepOK /\ UatOK /\ ProofOK /\ EndOK /\ OwnRow /\ BugsKnown /\ PastOK /\ ReopenedOnce)'
    BY <1>1, <1>2, <2>1 DEF IInv, TypeOK, ItemType, UatType, HubType, PrType, StepType, Related,
           StampsOK, StepOK, UatOK, ProofOK, EndOK, OwnRow, BugsKnown, NotedOK, PollOK, PastOK,
           ReopenedOnce, Known, ledger, world, NoUat, NoProof, Idle, NoPr, pr_merged
  <2>6. \A at \in hub.reopens : at \in Nat /\ (uat.at <= at => at \in adverse')
    BY <2>1 DEF Reopens, IInv, TypeOK, HubType
  <2>7. \A at \in hub'.reopens : Known(at)'
    BY <1>1, <2>6 DEF Known
  <2>8. \E b \in adverse' : uat.at <= b /\ b <= now
    BY <1>4, <2>1 DEF Reopens, IInv, Related, StampsOK
  <2>9. NotedOK' /\ PollOK'
    BY <1>1, <1>4, <2>7, <2>8 DEF ToNote, NotedOK, PollOK
  <2> QED BY <2>4, <2>5, <2>9 DEF IInv, Related
<1>5. CASE ~Unmerged /\ ToNote /\ Reopens = {}
  <2>1. UNCHANGED <<item, kv, adverse>> /\ Done
    BY <1>5 DEF SyncOpen
  <2>2. step' \in StepType
    BY <2>1 DEF Done, Idle, StepType, Stages
  <2>3. TypeOK'
    BY <1>1, <2>1, <2>2 DEF IInv, TypeOK
  <2>4. Related'
    BY <1>1, <2>1 DEF Done, IInv, TypeOK, ItemType, UatType, HubType, PrType, StepType, Related,
           StampsOK, StepOK, UatOK, ProofOK, EndOK, OwnRow, BugsKnown, NotedOK, PollOK, PastOK,
           ReopenedOnce, Known, ledger, world, NoUat, NoProof, Idle, NoPr, pr_merged
  <2> QED BY <2>3, <2>4 DEF IInv
<1>6. CASE ~Unmerged /\ ~ToNote
  <2>1. UNCHANGED <<item, kv, adverse>> /\ Go("poll")
    BY <1>6 DEF SyncOpen
  <2>2. TypeOK'
    BY <1>1, <1>2, <2>1 DEF IInv, TypeOK
  <2>3. (StampsOK /\ StepOK /\ UatOK /\ ProofOK /\ EndOK /\ OwnRow /\ BugsKnown /\ PastOK /\ ReopenedOnce)'
    BY <1>1, <1>2, <2>1 DEF IInv, TypeOK, ItemType, UatType, HubType, PrType, StepType, Related,
           StampsOK, StepOK, UatOK, ProofOK, EndOK, OwnRow, BugsKnown, NotedOK, PollOK, PastOK,
           ReopenedOnce, Known, ledger, world, NoUat, NoProof, Idle, NoPr, pr_merged
  <2>4. NotedOK'
    BY <1>1, <2>1 DEF IInv, Related, NotedOK, Known
  <2>5. PollOK'
    <3>1. SUFFICES ASSUME item.pr \notin seen.lost, item.state = "shipped", kv.closed PROVE \A at \in hub.reopens : Known(at)
      BY <1>1, <2>1 DEF PollOK, Known
    <3>2. uat # NoUat
      BY <1>1, <3>1 DEF IInv, Related, OwnRow
    <3>3. kv.noted
      BY <1>6, <3>1, <3>2 DEF ToNote
    <3> QED BY <3>3 DEF IInv, Related, NotedOK
  <2> QED BY <2>2, <2>3, <2>4, <2>5 DEF IInv, Related
<1> QED BY <1>3, <1>4, <1>5, <1>6

LEMMA SyncShutKeeps == ASSUME ShipmentAssumption, IInv, SyncShut PROVE IInv'
<1>1. /\ step.at = "shut" /\ step \in StepType /\ item \in ItemType
      /\ UNCHANGED <<uat, proof, kv, adverse, reopened, hub, prs, built, now, end, faults, seen>>
  BY DEF SyncShut, world, IInv, TypeOK
<1>2. CASE Go("poll") /\ UNCHANGED item /\ (hub.open \/ item.state \in {"done", "shipped"})
  <2>1. step' \in StepType
    BY <1>1, <1>2 DEF Go, StepType, Stages
  <2>2. TypeOK'
    BY <1>1, <1>2, <2>1 DEF IInv, TypeOK
  <2>3. (StampsOK /\ StepOK /\ UatOK /\ ProofOK /\ EndOK /\ OwnRow /\ BugsKnown /\ NotedOK /\ PastOK /\ ReopenedOnce)'
    BY <1>1, <1>2 DEF Go, IInv, TypeOK, ItemType, UatType, HubType, PrType, StepType, Related,
           StampsOK, StepOK, UatOK, ProofOK, EndOK, OwnRow, BugsKnown, NotedOK, PollOK, PastOK,
           ReopenedOnce, Known, ledger, world, NoUat, NoProof, Idle, NoPr, pr_merged
  <2>4. PollOK'
    BY <1>1, <1>2 DEF Go, IInv, TypeOK, ItemType, UatType, HubType, PrType, StepType, Related,
           StampsOK, StepOK, UatOK, ProofOK, EndOK, OwnRow, BugsKnown, NotedOK, PollOK, PastOK,
           ReopenedOnce, Known, ledger, world, NoUat, NoProof, Idle, NoPr, pr_merged
  <2> QED BY <2>2, <2>3, <2>4 DEF IInv, Related
<1>3. CASE pr_merged(item.pr) /\ step' = [step EXCEPT !.at = "uat", !.pr = item.pr] /\ UNCHANGED item
  <2>1. step' \in StepType
    BY <1>1, <1>3 DEF StepType, Stages, ItemType
  <2>2. TypeOK'
    BY <1>1, <1>3, <2>1 DEF IInv, TypeOK
  <2>3. Related'
    BY <1>1, <1>3 DEF IInv, TypeOK, ItemType, UatType, HubType, PrType, StepType, Related,
           StampsOK,
           StepOK, UatOK, ProofOK, EndOK, OwnRow, BugsKnown, NotedOK, PollOK, PastOK, ReopenedOnce,
           Known, ledger, world, NoUat, NoProof, Idle, NoPr, pr_merged
  <2> QED BY <2>2, <2>3 DEF IInv
<1>4. CASE item' = [item EXCEPT !.state = "done"] /\ Go("poll")
  <2>1. step' \in StepType /\ item' \in ItemType
    BY <1>1, <1>4 DEF Go, StepType, Stages, ItemType, States
  <2>2. TypeOK'
    BY <1>1, <1>4, <2>1 DEF IInv, TypeOK
  <2>3. Related'
    BY <1>1, <1>4 DEF Go, IInv, TypeOK, ItemType, UatType, HubType, PrType, StepType, Related,
           StampsOK, StepOK, UatOK, ProofOK, EndOK, OwnRow, BugsKnown, NotedOK, PollOK, PastOK,
           ReopenedOnce, Known, ledger, world, NoUat, NoProof, Idle, NoPr, pr_merged
  <2> QED BY <2>2, <2>3 DEF IInv
<1> QED BY <1>2, <1>3, <1>4 DEF SyncShut

(* What the poll accepts is of the shipment it observes, and after its merge.   *)
LEMMA Earliest ==
  ASSUME NEW S \in SUBSET Nat, S # {}
  PROVE  \E x \in S : \A y \in S : x <= y
<1> DEFINE T == {0..x : x \in S}
<1>1. T \subseteq FiniteSubsetsOf(Nat) /\ T # {}
  <2>1. \A x \in S : IsFiniteSet(0..x) /\ 0..x \subseteq Nat
    BY FS_Interval
  <2> QED BY <2>1 DEF FiniteSubsetsOf
<1>2. PICK I \in T : \A J \in T : ~(<<J, I>> \in StrictSubsetOrdering(Nat))
  <2> HIDE DEF T
  <2> QED BY <1>1, FS_StrictSubsetOrderingWellFounded, WFMin
<1>3. PICK x \in S : I = 0..x
  OBVIOUS
<1>4. ASSUME NEW y \in S, y < x PROVE FALSE
  <2>1. 0..y \in T /\ 0..y \subseteq 0..x /\ 0..y # 0..x
    BY <1>4
  <2>2. 0..y \subseteq Nat /\ 0..x \subseteq Nat
    OBVIOUS
  <2>3. <<0..y, 0..x>> \in StrictSubsetOrdering(Nat)
    BY <2>1, <2>2 DEF StrictSubsetOrdering
  <2> QED BY <1>2, <1>3, <2>1, <2>3
<1> QED BY <1>3, <1>4

LEMMA FirstIsOne ==
  ASSUME IInv, Proofs # {}
  PROVE  First(Proofs) \in NoteType /\ First(Proofs).at > uat.at
<1>1. Proofs \subseteq NoteType /\ \A note \in Proofs : note.at > uat.at /\ note.at \in Nat
  BY DEF Proofs, IInv, TypeOK, HubType, NoteType
<1> DEFINE S == {note.at : note \in Proofs}
<1>2. S \in SUBSET Nat /\ S # {}
  BY <1>1
<1>3. PICK x \in S : \A y \in S : x <= y
  <2> HIDE DEF S
  <2> QED BY <1>2, Earliest
<1>4. \E note \in Proofs : \A other \in Proofs : note.at <= other.at
  BY <1>3
<1>5. First(Proofs) \in Proofs
  <2> HIDE DEF S
  <2> QED BY <1>4 DEF First
<1> QED BY <1>1, <1>5

(* accept_evidence completes a shipment on evidence that came after its merge.  *)
LEMMA Accepts ==
  ASSUME IInv, uat # NoUat, NEW e \in ProofType, e.at > uat.at, accept_evidence(e),
         UNCHANGED <<adverse, kv, reopened, end, hub, prs, now, seen>>, Go("undo")
  PROVE  /\ item' \in ItemType /\ uat' \in UatType /\ proof' \in ProofType /\ step' \in StepType
         /\ Related'
         /\ uat'.pr = uat.pr /\ proof'.at > uat.at
<1>1. step' \in StepType /\ step'.at = "undo" /\ step'.fetched = step.fetched /\ step'.open = step.open
  BY DEF Go, IInv, TypeOK, StepType, Stages
<1>2. item' \in ItemType /\ item'.state = "done" /\ item'.pr = item.pr
  BY DEF accept_evidence, IInv, TypeOK, ItemType, States
<1>3. uat' \in UatType /\ uat'.pr = uat.pr /\ uat'.at = uat.at
  BY DEF accept_evidence, IInv, TypeOK, UatType
<1>4. uat'.pr # 0 /\ pr_merged(uat'.pr) /\ uat' # NoUat
  BY <1>3 DEF IInv, Related, UatOK, NoUat, pr_merged
<1>5. proof' \in ProofType /\ proof'.at > uat.at
  BY DEF accept_evidence, IInv, TypeOK, Related, ProofOK
<1>6. (StampsOK /\ StepOK /\ UatOK /\ ProofOK /\ EndOK /\ OwnRow)'
  BY <1>1, <1>2, <1>3, <1>4, <1>5 DEF IInv, TypeOK, ItemType, UatType, HubType, PrType, StepType,
         Related, StampsOK, StepOK, UatOK, ProofOK, EndOK, OwnRow, BugsKnown, NotedOK, PollOK,
         PastOK, ReopenedOnce, Known, ledger, world, NoUat, NoProof, Idle, NoPr, pr_merged
<1>7. (BugsKnown /\ NotedOK /\ PollOK /\ PastOK /\ ReopenedOnce)'
  BY <1>1, <1>2, <1>3, <1>4 DEF IInv, TypeOK, ItemType, UatType, HubType, PrType, StepType,
         Related,
         StampsOK, StepOK, UatOK, ProofOK, EndOK, OwnRow, BugsKnown, NotedOK, PollOK, PastOK,
         ReopenedOnce, Known, ledger, world, NoUat, NoProof, Idle, NoPr, pr_merged
<1> QED BY <1>1, <1>2, <1>3, <1>5, <1>6, <1>7 DEF Related

(* The evidence of a quiet fortnight is the stamp that ended it.              *)
LEMMA QuietIsLate == ASSUME IInv, Quiet PROVE [kind |-> "quiet", at |-> end] \in ProofType /\ end > uat.at
BY DEF IInv, TypeOK, Related, EndOK, Quiet, ProofType

LEMMA PollShippedKeeps == ASSUME ShipmentAssumption, IInv, PollShipped PROVE IInv'
<1>1. step.at = "poll" /\ UNCHANGED <<adverse, hub, prs, built, now, seen>>
  BY DEF PollShipped
<1>2. CASE Go("undo") /\ UNCHANGED <<item, uat, proof, kv, reopened, end>> /\ faults' \in Nat
  <2>1. step' \in StepType
    BY <1>2 DEF Go, IInv, TypeOK, StepType, Stages
  <2>2. TypeOK'
    BY <1>1, <1>2, <2>1 DEF IInv, TypeOK
  <2>3. Related'
    BY <1>1, <1>2 DEF Go, IInv, TypeOK, ItemType, UatType, HubType, PrType, StepType, Related,
           StampsOK, StepOK, UatOK, ProofOK, EndOK, OwnRow, BugsKnown, NotedOK, PollOK, PastOK,
           ReopenedOnce, Known, ledger, world, NoUat, NoProof, Idle, NoPr, pr_merged
  <2> QED BY <2>2, <2>3 DEF IInv
<1>3. CASE item.state = "shipped" /\ uat = NoUat /\ pr_merged(item.pr) /\ add_uat(item.pr)
           /\ UNCHANGED <<item, step, faults>>
  <2>1. /\ uat' \in UatType /\ proof' \in ProofType /\ kv' \in KvType
        /\ reopened' \in BOOLEAN /\ end' \in Nat /\ end' <= now
        /\ uat' # NoUat /\ uat'.pr = item.pr
        /\ (UatOK /\ ProofOK /\ EndOK /\ NotedOK /\ PastOK)'
    BY <1>1, <1>3, Supersedes
  <2>2. TypeOK'
    BY <1>1, <1>3, <2>1 DEF IInv, TypeOK
  <2>3. item.pr \in seen.lost
    BY <1>3 DEF IInv, Related, OwnRow, NoUat, pr_merged
  <2>4. (StampsOK /\ StepOK /\ OwnRow /\ BugsKnown /\ PollOK /\ ReopenedOnce)'
    BY <1>1, <1>3, <2>1, <2>3
       DEF IInv, Related, StampsOK, StepOK, OwnRow, BugsKnown, PollOK, ReopenedOnce, pr_merged
  <2> QED BY <2>1, <2>2, <2>4 DEF IInv, Related
<1>4. CASE /\ item.state = "shipped" /\ uat # NoUat /\ Go("undo") /\ UNCHANGED <<kv, reopened, end, faults>>
           /\ \E e \in ProofType : e.at > uat.at /\ accept_evidence(e)
  <2>1. PICK e \in ProofType : e.at > uat.at /\ accept_evidence(e)
    BY <1>4
  <2>2. /\ item' \in ItemType /\ uat' \in UatType /\ proof' \in ProofType /\ step' \in StepType
        /\ Related'
    BY <1>1, <1>4, <2>1, Accepts
  <2>3. TypeOK'
    BY <1>1, <1>4, <2>2 DEF IInv, TypeOK
  <2> QED BY <2>2, <2>3 DEF IInv
<1>5. CASE item.state = "shipped" /\ uat # NoUat /\ Go("undo") /\ UNCHANGED <<kv, reopened, end, faults>>
  <2>1. CASE Proofs # {} /\ accept_evidence(First(Proofs))
    <3>1. First(Proofs) \in ProofType /\ First(Proofs).at > uat.at
      BY <2>1, FirstIsOne DEF NoteType, ProofType
    <3> QED BY <1>4, <1>5, <2>1, <3>1
  <2>2. CASE Quiet /\ accept_evidence([kind |-> "quiet", at |-> end])
    BY <1>4, <1>5, <2>2, QuietIsLate
  <2>3. CASE UNCHANGED <<item, uat, proof>>
    BY <1>2, <1>5, <2>3 DEF IInv, TypeOK
  <2> QED BY <1>5, <2>1, <2>2, <2>3 DEF PollShipped
<1>6. faults \in Nat /\ (Fault => faults' \in Nat)
  BY DEF Fault, IInv, TypeOK
<1> QED BY <1>2, <1>3, <1>5, <1>6 DEF PollShipped

LEMMA UndoKeeps == ASSUME ShipmentAssumption, IInv, Undo PROVE IInv'
<1>1. /\ step' \in StepType /\ step'.at = "relabel" /\ step'.fetched = step.fetched
      /\ UNCHANGED <<uat, proof, adverse, hub, prs, built, now, end, faults>>
  BY DEF Undo, Go, world, IInv, TypeOK, StepType, Stages
<1>2. CASE uat # NoUat /\ reopen_shipment
           /\ item' = [item EXCEPT !.state = "ready", !.mirror = "other"]
           /\ kv' = [kv EXCEPT !.relabel = TRUE] /\ reopened' = TRUE
           /\ seen' = [seen EXCEPT !.reopenings[uat.pr] = @ + 1]
  <2>1. item' \in ItemType /\ item'.state = "ready" /\ item'.pr = item.pr
    BY <1>2 DEF IInv, TypeOK, ItemType, States
  <2>2. kv' \in KvType /\ kv'.noted = kv.noted
    BY <1>2 DEF IInv, TypeOK, KvType
  <2>3. uat.pr \in Prs /\ pr_merged(uat.pr)
    BY <1>2 DEF IInv, TypeOK, UatType, Related, UatOK, pr_merged
  <2>4. seen.reopenings[uat.pr] = 0
    BY <1>2, <2>3 DEF reopen_shipment, IInv, Related, PastOK
  <2>5. /\ seen'.reopenings \in [Prs -> Nat] /\ seen'.lost = seen.lost
        /\ seen' \in [reopenings : [Prs -> Nat], lost : SUBSET Prs]
        /\ seen'.reopenings[uat.pr] = 1
        /\ \A p \in Prs : p # uat.pr => seen'.reopenings[p] = seen.reopenings[p]
    BY <1>2, <2>3, <2>4 DEF IInv, TypeOK
  <2>6. TypeOK'
    BY <1>1, <1>2, <2>1, <2>2, <2>5 DEF IInv, TypeOK
  <2>7. (StampsOK /\ StepOK /\ UatOK /\ ProofOK /\ EndOK /\ OwnRow /\ BugsKnown /\ NotedOK /\ PollOK)'
    BY <1>1, <2>1, <2>2, <2>5 DEF IInv, TypeOK, ItemType, UatType, HubType, PrType, StepType,
           Related, StampsOK, StepOK, UatOK, ProofOK, EndOK, OwnRow, BugsKnown, NotedOK, PollOK,
           PastOK, ReopenedOnce, Known, ledger, world, NoUat, NoProof, Idle, NoPr, pr_merged
  <2>8. PastOK' /\ ReopenedOnce'
    <3>1. \A p \in Prs : p # uat.pr => /\ seen'.reopenings[p] <= 1
                                       /\ seen'.reopenings[p] # 0 => prs[p].status = "merged" /\ p # item.pr
      BY <2>5 DEF IInv, Related, PastOK, ReopenedOnce
    <3> QED BY <1>1, <1>2, <2>1, <2>3, <2>5, <3>1 DEF PastOK, ReopenedOnce, pr_merged
  <2> QED BY <2>6, <2>7, <2>8 DEF IInv, Related
<1>3. CASE UNCHANGED <<item, kv, reopened, seen>>
  <2>1. TypeOK'
    BY <1>1, <1>3 DEF IInv, TypeOK
  <2>2. Related'
    BY <1>1, <1>3 DEF IInv, TypeOK, ItemType, UatType, HubType, PrType, StepType, Related,
           StampsOK,
           StepOK, UatOK, ProofOK, EndOK, OwnRow, BugsKnown, NotedOK, PollOK, PastOK, ReopenedOnce,
           Known, ledger, world, NoUat, NoProof, Idle, NoPr, pr_merged
  <2> QED BY <2>1, <2>2 DEF IInv
<1> QED BY <1>2, <1>3 DEF Undo

LEMMA RelabelKeeps == ASSUME ShipmentAssumption, IInv, Relabel PROVE IInv'
<1>1. /\ step.at = "relabel" /\ step' = Idle /\ step' \in StepType
      /\ UNCHANGED <<uat, proof, adverse, reopened, prs, built, end, seen>>
  BY DEF Relabel, Done, Idle, StepType, Stages
<1>2. CASE UNCHANGED <<item, kv, hub, now>> /\ faults' \in Nat
  <2>1. TypeOK'
    BY <1>1, <1>2 DEF IInv, TypeOK
  <2>2. Related'
    BY <1>1, <1>2 DEF IInv, TypeOK, ItemType, UatType, HubType, PrType, StepType, Related,
           StampsOK,
           StepOK, UatOK, ProofOK, EndOK, OwnRow, BugsKnown, NotedOK, PollOK, PastOK, ReopenedOnce,
           Known, ledger, world, NoUat, NoProof, Idle, NoPr, pr_merged
  <2> QED BY <2>1, <2>2 DEF IInv
<1>3. CASE /\ item' = [item EXCEPT !.mirror = "other"] /\ kv' = [kv EXCEPT !.relabel = FALSE]
           /\ UNCHANGED faults
  <2>1. item' \in ItemType /\ item'.state = item.state /\ item'.pr = item.pr
    BY <1>3 DEF IInv, TypeOK, ItemType
  <2>2. kv' \in KvType /\ kv'.noted = kv.noted
    BY <1>3 DEF IInv, TypeOK, KvType
  <2>3. CASE UNCHANGED <<hub, now>>
    <3>1. TypeOK'
      BY <1>1, <1>3, <2>1, <2>2, <2>3 DEF IInv, TypeOK
    <3>2. Related'
      BY <1>1, <2>1, <2>2, <2>3 DEF IInv, TypeOK, ItemType, UatType, HubType, PrType, StepType,
             Related, StampsOK, StepOK, UatOK, ProofOK, EndOK, OwnRow, BugsKnown, NotedOK, PollOK,
             PastOK, ReopenedOnce, Known, ledger, world, NoUat, NoProof, Idle, NoPr, pr_merged
    <3> QED BY <3>1, <3>2 DEF IInv
  <2>4. CASE Stamp /\ hub' = [hub EXCEPT !.open = TRUE, !.reopens = @ \cup {now'}]
    <3>1. now' \in Nat /\ now' > now
      BY <2>4 DEF Stamp, IInv, TypeOK
    <3>2. hub' \in HubType /\ hub'.reopens = hub.reopens \cup {now'} /\ hub'.bugs = hub.bugs
      BY <2>4, <3>1 DEF IInv, TypeOK, HubType
    <3>3. TypeOK'
      BY <1>1, <1>3, <2>1, <2>2, <3>1, <3>2 DEF IInv, TypeOK
    <3>4. (StampsOK /\ StepOK /\ UatOK /\ ProofOK /\ EndOK /\ OwnRow /\ BugsKnown /\ PollOK)'
      BY <1>1, <2>1, <2>2, <3>1, <3>2 DEF IInv, TypeOK, ItemType, UatType, HubType, PrType,
             StepType, Related, StampsOK, StepOK, UatOK, ProofOK, EndOK, OwnRow, BugsKnown, NotedOK,
             PollOK, PastOK, ReopenedOnce, Known, ledger, world, NoUat, NoProof, Idle, NoPr,
             pr_merged
    <3>5. NotedOK'
      BY <1>1, <2>2, <3>1, <3>2, ReopenIsLater
    <3>6. PastOK' /\ ReopenedOnce'
      BY <1>1, <2>1 DEF IInv, Related, PastOK, ReopenedOnce
    <3> QED BY <3>3, <3>4, <3>5, <3>6 DEF IInv, Related
  <2> QED BY <1>3, <2>3, <2>4 DEF Relabel
<1>4. faults \in Nat /\ (Fault => faults' \in Nat)
  BY DEF Fault, IInv, TypeOK
<1> QED BY <1>2, <1>3, <1>4 DEF Relabel

------------------------------------------------------------------------------
LEMMA InitHolds == ASSUME ShipmentAssumption, Init PROVE IInv
<1>1. TypeOK
  BY DEF ShipmentAssumption, Init, TypeOK, ItemType, States, UatType, ProofType, KvType, HubType,
         NoteType,
         PrType, StepType, Stages, NoUat, NoProof, NoPr, Idle, Prs
<1>2. Related
  BY DEF Init, IInv, TypeOK, ItemType, UatType, HubType, PrType, StepType, Related, StampsOK,
         StepOK, UatOK, ProofOK, EndOK, OwnRow, BugsKnown, NotedOK, PollOK, PastOK, ReopenedOnce,
         Known, ledger, world, NoUat, NoProof, Idle, NoPr, pr_merged
<1> QED BY <1>1, <1>2 DEF IInv

LEMMA NextKeeps == ASSUME ShipmentAssumption, IInv, [Next]_vars PROVE IInv'
<1>1. CASE Pipeline
  BY <1>1, BuildKeeps, _open_prKeeps, MergeKeeps, WatchKeeps, SessionShipsKeeps DEF Pipeline
<1>2. CASE Shipping
  BY <1>2, RecordUatKeeps, SetShippedKeeps, CountShippedKeeps, CloseIssueKeeps, NoteClosedKeeps,
     LabelShippedKeeps DEF Shipping
<1>3. CASE Syncing
  BY <1>3, SyncFetchKeeps, SyncOpenKeeps, SyncShutKeeps, PollShippedKeeps, UndoKeeps, RelabelKeeps
     DEF Syncing
<1>4. CASE People
  BY <1>4, CommentKeeps, FileBugKeeps, FailUatKeeps, AskRevertKeeps, OwnerReopensKeeps,
         OwnerClosesKeeps,
     OwnerClosesPrKeeps DEF People
<1>5. CASE MirrorLabels \/ Crash \/ WindowEnds
  BY <1>5, MirrorLabelsKeeps, CrashKeeps, WindowEndsKeeps
<1>6. CASE UNCHANGED vars
  <2>1. TypeOK'
    BY <1>6 DEF vars, ledger, world, IInv, TypeOK
  <2>2. Related'
    BY <1>6 DEF vars, IInv, TypeOK, ItemType, UatType, HubType, PrType, StepType, Related,
           StampsOK,
           StepOK, UatOK, ProofOK, EndOK, OwnRow, BugsKnown, NotedOK, PollOK, PastOK, ReopenedOnce,
           Known, ledger, world, NoUat, NoProof, Idle, NoPr, pr_merged
  <2> QED BY <2>1, <2>2 DEF IInv
<1> QED BY <1>1, <1>2, <1>3, <1>4, <1>5, <1>6 DEF Next

(* The inductive invariant, although writes of the uat row may fail.            *)
THEOREM ShipmentInvariance == ASSUME ShipmentAssumption PROVE Spec => []IInv
<1>1. Init => IInv
  BY InitHolds
<1>2. IInv /\ [Next]_vars => IInv'
  BY NextKeeps
<1> QED BY <1>1, <1>2, PTL DEF Spec

(* However often a shipment is recorded, completed and disputed, it is reopened *)
(* once at most (reopen_shipment), even if writes of the uat row fail.          *)
THEOREM ReopensOnce == ASSUME ShipmentAssumption PROVE Spec => []ReopenedOnce
<1>1. IInv => ReopenedOnce
  BY DEF IInv, Related
<1> QED BY <1>1, ShipmentInvariance, PTL

(* Only the poll completes a shipment (accept_evidence).                       *)
LEMMA PollCompletes ==
  ASSUME [Next]_vars, IInv, item.state = "shipped", item'.state = "done" PROVE PollShipped
<1>1. CASE Pipeline
  BY <1>1 DEF Pipeline, Build, _open_pr, Merge, Watch, SessionShips, ledger, IInv, TypeOK,
         ItemType
<1>2. CASE Shipping
  BY <1>2 DEF Shipping, RecordUat, SetShipped, CountShipped, CloseIssue, NoteClosed, LabelShipped,
         ledger,
              IInv, TypeOK, ItemType
<1>3. CASE Syncing
  BY <1>3 DEF Syncing, SyncFetch, SyncOpen, SyncShut, Undo, Relabel, reopen_shipment, IInv,
         TypeOK, ItemType
<1>4. CASE People
  BY <1>4 DEF People, Comment, FileBug, FailUat, AskRevert, OwnerReopens, OwnerCloses,
         OwnerClosesPr, ledger
<1>5. CASE MirrorLabels \/ Crash \/ WindowEnds
  BY <1>5 DEF MirrorLabels, Crash, WindowEnds, ledger, IInv, TypeOK, ItemType
<1>6. CASE UNCHANGED vars
  BY <1>6 DEF vars, ledger
<1> QED BY <1>1, <1>2, <1>3, <1>4, <1>5, <1>6 DEF Next

(* What the completing poll does.                                             *)
LEMMA Completes ==
  ASSUME IInv, PollShipped, item.state = "shipped", item'.state = "done"
  PROVE  /\ uat # NoUat /\ step.at = "poll"
         /\ \E e \in ProofType : e.at > uat.at /\ accept_evidence(e)
         /\ Proofs = {} => Quiet
         /\ UNCHANGED <<adverse, kv, reopened, end, hub, prs, now, seen>> /\ Go("undo")
<1>1. step.at = "poll" /\ UNCHANGED <<adverse, hub, prs, built, now, seen>>
  BY DEF PollShipped
<1>2. ~UNCHANGED item
  OBVIOUS
<1>3. /\ uat # NoUat /\ Go("undo") /\ UNCHANGED <<kv, reopened, end, faults>>
      /\ \/ Proofs # {} /\ accept_evidence(First(Proofs))
         \/ Proofs = {} /\ Quiet /\ accept_evidence([kind |-> "quiet", at |-> end])
  BY <1>2 DEF PollShipped
<1>4. Proofs # {} => First(Proofs) \in ProofType /\ First(Proofs).at > uat.at
  BY FirstIsOne DEF NoteType, ProofType
<1> QED BY <1>1, <1>3, <1>4, QuietIsLate

(* A shipment is completed on its own evidence, if its row could be written.    *)
LEMMA OwnEvidence ==
  ASSUME IInv, PollShipped, item.state = "shipped", item'.state = "done"
  PROVE  (uat'.pr = item.pr \/ item.pr \in seen.lost) /\ proof'.at > prs[uat'.pr].at
<1>1. PICK e \in ProofType : e.at > uat.at /\ accept_evidence(e)
  BY Completes
<1>2. uat'.pr = uat.pr /\ proof'.at > uat.at
  BY <1>1, Completes, Accepts
<1>3. uat # NoUat /\ (uat.pr = item.pr \/ item.pr \in seen.lost)
  BY Completes DEF IInv, Related, OwnRow
<1>4. uat.at = prs[uat.pr].at
  BY <1>3 DEF IInv, Related, UatOK
<1> QED BY <1>2, <1>3, <1>4

(* Nothing completes quietly that the poll could have known to be disputed.     *)
LEMMA QuietEvidence ==
  ASSUME IInv, PollShipped, item.state = "shipped", item'.state = "done", Proofs = {}
  PROVE  /\ ~Against
         /\ \A at \in hub.bugs : at <= step.fetched => ~Inside(at)
         /\ step.open /\ kv.closed /\ item.pr \notin seen.lost =>
              \A at \in hub.reopens : at <= step.fetched => ~Inside(at)
<1>1. ~Against /\ step.at = "poll" /\ \A at \in adverse : ~Inside(at)
  BY Completes DEF Quiet, Against
<1>2. \A at \in hub.bugs : at <= step.fetched => ~Inside(at)
  BY <1>1 DEF IInv, Related, BugsKnown
<1>3. ASSUME step.open, kv.closed, item.pr \notin seen.lost, NEW at \in hub.reopens, at <= step.fetched, Inside(at) PROVE FALSE
  <2>1. Known(at)
    BY <1>1, <1>3 DEF IInv, Related, PollOK
  <2>2. PICK b \in adverse : uat.at <= b /\ b <= at
    BY <1>3, <2>1 DEF Known, Inside
  <2>3. b \in Nat /\ at \in Nat /\ end \in Nat
    BY DEF IInv, TypeOK, HubType
  <2>4. Inside(b)
    BY <1>3, <2>2, <2>3 DEF Inside
  <2> QED BY <1>1, <2>4
<1> QED BY <1>1, <1>2, <1>3

(* What becomes of one shipment owes nothing to another, a merge whose uat row  *)
(* could not be written (record_uat_if_needed only logs it) apart.             *)
THEOREM ShipmentsOwnTheirEnds == ASSUME ShipmentAssumption PROVE Spec => ShipmentsAreSound
<1>1. IInv /\ [Next]_vars =>
        [item.state = "shipped" /\ item'.state = "done" =>
           /\ uat'.pr = item.pr \/ item.pr \in seen.lost
           /\ proof'.at > prs[uat'.pr].at]_vars
  BY PollCompletes, OwnEvidence
<1>2. IInv /\ [Next]_vars =>
        [item.state = "shipped" /\ item'.state = "done" /\ proof'.kind = "quiet" /\ Proofs = {} =>
           /\ ~Against
           /\ \A at \in hub.bugs : at <= step.fetched => ~Inside(at)
           /\ step.open /\ kv.closed /\ item.pr \notin seen.lost =>
                \A at \in hub.reopens : at <= step.fetched => ~Inside(at)]_vars
  BY PollCompletes, QuietEvidence
<1>3. IInv => ReopenedOnce
  BY DEF IInv, Related
<1> QED BY <1>1, <1>2, <1>3, ShipmentInvariance, PTL
           DEF Spec, ShipmentsAreSound, CompletedOnItsOwn, QuietIsClean

------------------------------------------------------------------------------
(* Convergence.  One pull request, whatever its reviews find and however often   *)
(* a step is cut off.                                                          *)

RowType ==
  [finding : Findings, marked : {"blocking", "follow-up"}, effective : {"blocking", "follow-up"},
   url : BOOLEAN, linked : BOOLEAN]
RecType == [id : {"run", "owner", "design", "exhausted"} \X Nat, head : Heads, rows : SUBSET RowType]
RunType == [role : {"none", "review", "fix", "design", "build"}, id : Nat]
BindingType ==
  [head : Heads \cup {0}, id : Nat, verdict : {"none", "pass", "fail"}, findings : SUBSET Findings]
RoundType == [head : Heads, found : SUBSET (Places \X Nat), last : SUBSET Places]
FailedType == [head : Heads, findings : SUBSET Findings]
DesignType ==
  [disposition : {"none", "fix", "followups"}, findings : SUBSET Findings, consumed : BOOLEAN]
CycleType == [head : Heads \cup {0}, charged : BOOLEAN]
OnceType ==
  [dup : Heads \cup {0}, done : SUBSET Heads, designed : SUBSET Heads, rebuilt : BOOLEAN,
   owner : BOOLEAN, cycle : CycleType, fixed : {"none", "done", "ended", "cut"},
   seen : [Heads -> Nat]]
VisitType ==
  [at : {"idle", "file", "refused"}, head : Heads \cup {0}, blockers : SUBSET Findings,
   basis : {"none", "review", "waiver", "owner"}]

ReviewTypeOK ==
  /\ state \in {"verifying", "waiting", "merged", "rebuilding", "parked", "needs_you", "ready",
               "failed"}
  /\ attempts \in Nat /\ left \in Nat
  /\ head \in Heads /\ touched \in [Heads -> SUBSET Places]
  /\ run \in RunType /\ binding \in BindingType
  /\ rounds \in Seq(RoundType) /\ failed \in Seq(FailedType)
  /\ archive \in SUBSET RecType /\ design \in [Heads -> DesignType] /\ once \in OnceType
  /\ issues \in [DOMAIN issues -> Nat]
  /\ visit \in VisitType
  /\ hist \in [runs : Nat, heads : SUBSET Heads, merged : VisitType]

(* One thing at a time works on the PR, and on a merged one nothing does.      *)
VisitOK ==
  /\ visit.at # "idle" => run.role = "none" /\ state = "verifying" /\ visit.head \in Heads
  /\ state = "merged" => visit.at = "idle" /\ run.role = "none"
  /\ run.role = "review" => binding.head \in Heads /\ binding.id = run.id

(* A verdict counts its head, and its findings are archived under its run; a    *)
(* failed one is on record.                                                   *)
VerdictOK ==
  /\ binding.verdict # "none" =>
       /\ binding.head \in hist.heads
       /\ \E rec \in RecordOf(<<"run", binding.id>>) :
            /\ rec.head = binding.head
            /\ \A f \in binding.findings : \E row \in rec.rows : row.finding = f
  /\ Blocking(binding.findings) # {} => failed # <<>>

(* A visit that looked at a verdict blocks on what it did not demote.          *)
Archived(f) ==
  \E rec \in RecordOf(<<"run", binding.id>>) : \E row \in rec.rows :
    row.finding = f /\ row.effective = "follow-up"
LookedOK ==
  /\ visit.at # "idle" => \A f \in Blocking(binding.findings) : f \in visit.blockers \/ Archived(f)
  /\ visit.at = "refused" => failed # <<>>

(* It merges on nothing left to block, on what a waiver may let through, or on  *)
(* the owner's word.                                                          *)
BasisOK ==
  visit.at = "file" => \/ visit.basis = "review" /\ visit.blockers = {}
                       \/ visit.basis = "waiver" /\ ~Protected(visit.blockers)
                       \/ visit.basis = "owner"

(* What is marked filed has its issue.                                        *)
RowsOK ==
  \A rec \in archive : \A row \in rec.rows :
    (row.linked => row.url) /\ (row.url => Marker(row) \in DOMAIN issues)

(* Rounds are of different heads that had a verdict, oldest first.             *)
RoundsOK ==
  /\ \A i \in DOMAIN rounds : rounds[i].head <= head /\ rounds[i].head \in hist.heads
  /\ \A i, j \in DOMAIN rounds : i < j => rounds[i].head < rounds[j].head

ReviewInv ==
  /\ ReviewTypeOK /\ VisitOK /\ VerdictOK /\ LookedOK /\ BasisOK /\ RowsOK /\ RoundsOK
  /\ BlockersAccounted /\ FollowUpFiledOnce /\ RoundsAreHeads

------------------------------------------------------------------------------
(* Rounds. Those of a head that had a verdict are as many as its number.        *)

LEMMA RoundTyped ==
  ASSUME NEW h \in Heads, NEW findings \in SUBSET Findings PROVE Round(h, findings) \in RoundType
<1>1. SpecOf(findings) \in SUBSET (Places \X Nat) /\ PlacesOf(findings) \in SUBSET Places
  BY DEF SpecOf, PlacesOf, Blocking, Findings
<1> QED BY <1>1 DEF Round, RoundType

LEMMA RecordGreen ==
  ASSUME ReviewInv, head \in hist.heads, NEW findings \in SUBSET Findings,
         NEW r, r = record_green(rounds, head, findings)
  PROVE  /\ r \in Seq(RoundType)
         /\ \A i \in DOMAIN r : r[i].head <= head /\ r[i].head \in hist.heads
         /\ \A i, j \in DOMAIN r : i < j => r[i].head < r[j].head
         /\ \E i \in DOMAIN r : r[i].head = head
<1>1. rounds \in Seq(RoundType) /\ head \in Heads /\ Round(head, findings) \in RoundType
  BY RoundTyped DEF ReviewInv, ReviewTypeOK
<1>2. /\ \A i \in DOMAIN rounds : rounds[i].head <= head /\ rounds[i].head \in hist.heads
      /\ \A i, j \in DOMAIN rounds : i < j => rounds[i].head < rounds[j].head
  BY DEF ReviewInv, RoundsOK
<1>3. Round(head, findings).head = head
  BY DEF Round
<1>4. CASE \E i \in DOMAIN rounds : rounds[i].head = head
  <2> DEFINE new(i) == IF rounds[i].head # head THEN rounds[i]
                       ELSE [Round(head, findings) EXCEPT !.found = @ \cup rounds[i].found]
  <2>1. \A i \in DOMAIN rounds : new(i) \in RoundType /\ new(i).head = rounds[i].head
    <3>1. \A i \in DOMAIN rounds : rounds[i] \in RoundType
      BY <1>1
    <3> QED BY <1>1, <1>3, <3>1 DEF RoundType
  <2>2. r = [i \in DOMAIN rounds |-> new(i)]
    BY <1>4 DEF record_green
  <2> HIDE DEF new
  <2>3. r \in Seq(RoundType) /\ DOMAIN r = DOMAIN rounds /\ \A i \in DOMAIN rounds : r[i] = new(i)
    BY <1>1, <2>1, <2>2
  <2> QED BY <1>2, <1>4, <2>1, <2>3
<1>5. CASE ~\E i \in DOMAIN rounds : rounds[i].head = head
  <2>1. r = Append(rounds, Round(head, findings))
    BY <1>5 DEF record_green
  <2>2. /\ r \in Seq(RoundType) /\ DOMAIN r = 1..(Len(rounds) + 1) /\ DOMAIN rounds = 1..Len(rounds)
        /\ \A i \in DOMAIN rounds : r[i] = rounds[i]
        /\ r[Len(rounds) + 1] = Round(head, findings) /\ Len(rounds) \in Nat
    BY <1>1, <2>1
  <2>3. \A i \in DOMAIN rounds : rounds[i].head \in Nat /\ rounds[i].head < head
    <3>1. \A i \in DOMAIN rounds : rounds[i] \in RoundType
      BY <1>1
    <3> QED BY <1>1, <1>2, <1>5, <3>1 DEF RoundType, Heads
  <2> QED BY <1>1, <1>2, <1>3, <2>2, <2>3 DEF Heads
<1> QED BY <1>4, <1>5

LEMMA RoundsCount ==
  ASSUME ConvergenceAssumption, NEW r \in Seq(RoundType), NEW h \in Heads, NEW H \in SUBSET Heads,
         \A i \in DOMAIN r : r[i].head \in H,
         \A i, j \in DOMAIN r : i < j => r[i].head < r[j].head,
         \E i \in DOMAIN r : r[i].head = h
  PROVE  Cardinality({g \in H : g <= h}) >= round_number(r, h)
<1>1. DOMAIN r = 1..Len(r) /\ Len(r) \in Nat /\ \A i \in DOMAIN r : r[i].head \in Nat
  <2>1. DOMAIN r = 1..Len(r) /\ Len(r) \in Nat /\ \A i \in DOMAIN r : r[i] \in RoundType
    OBVIOUS
  <2> QED BY <2>1 DEF RoundType, Heads
<1>2. PICK n \in DOMAIN r : r[n].head = h
  OBVIOUS
<1>3. \A i \in DOMAIN r : r[i].head = h => i = n
  BY <1>1, <1>2
<1>4. round_number(r, h) = n
  <2>1. \A i \in DOMAIN r : (r[i].head = h /\ \A j \in DOMAIN r : r[j].head = h => i <= j) <=> i = n
    BY <1>1, <1>2, <1>3
  <2> QED BY <1>2, <2>1 DEF round_number
<1> DEFINE S == {g \in H : g <= h}
           f == [i \in 1..n |-> r[i].head]
<1>5. IsFiniteSet(S) /\ Cardinality(S) \in Nat
  <2>1. IsFiniteSet(Heads)
    BY FS_Interval DEF Heads, ConvergenceAssumption
  <2> QED BY <2>1, FS_Subset, FS_CardinalityType
<1>6. f \in [1..n -> S]
  <2>1. \A i \in 1..n : i \in DOMAIN r /\ r[i].head <= h /\ r[i].head \in H
    BY <1>1, <1>2
  <2> QED BY <2>1
<1>7. \A i, j \in 1..n : f[i] = f[j] => i = j
  BY <1>1, SMTT(30)
<1>8. f \in Injection(1..n, S)
  <2> HIDE DEF f, S
  <2> QED BY <1>6, <1>7 DEF Injection, IsInjective
<1>9. Cardinality(1..n) = n
  BY <1>1, FS_Interval
<1>10. Cardinality(1..n) <= Cardinality(S)
  <2> HIDE DEF f, S
  <2> QED BY <1>5, <1>8, FS_Injection
<1> HIDE DEF S
<1>11. QED BY <1>1, <1>4, <1>5, <1>9, <1>10 DEF S

------------------------------------------------------------------------------
(* The archive.  A step may add records, mark rows as filed and demote; it      *)
(* leaves a record of each run with a row for each finding.                    *)

Covers(old, new) ==
  \A rec \in old : \E rec2 \in new :
    /\ rec2.id = rec.id /\ rec2.head = rec.head
    /\ \A row \in rec.rows : \E row2 \in rec2.rows :
         row2.finding = row.finding /\ (row.effective = "follow-up" => row2.effective = "follow-up")

LEMMA Covered ==
  ASSUME ReviewInv, Covers(archive, archive'), UNCHANGED <<binding, failed>>,
         hist.heads \subseteq hist'.heads
  PROVE  /\ VerdictOK'
         /\ \A f : Archived(f) => Archived(f)'
<1>1. \A rec \in RecordOf(<<"run", binding.id>>) : \E rec2 \in RecordOf(<<"run", binding.id>>)' :
        /\ rec2.head = rec.head
        /\ \A row \in rec.rows : \E row2 \in rec2.rows :
             row2.finding = row.finding /\ (row.effective = "follow-up" => row2.effective = "follow-up")
  BY DEF RecordOf, Covers
<1>2. \A f : Archived(f) => Archived(f)'
  BY <1>1 DEF Archived
<1>3. VerdictOK'
  <2>1. CASE binding.verdict # "none"
    <3>1. PICK rec \in RecordOf(<<"run", binding.id>>) :
            rec.head = binding.head /\ \A f \in binding.findings : \E row \in rec.rows : row.finding = f
      BY <2>1 DEF ReviewInv, VerdictOK
    <3>2. PICK rec2 \in RecordOf(<<"run", binding.id>>)' :
            /\ rec2.head = rec.head
            /\ \A row \in rec.rows : \E row2 \in rec2.rows : row2.finding = row.finding
      BY <1>1, <3>1
    <3>3. \A f \in binding.findings : \E row \in rec2.rows : row.finding = f
      BY <3>1, <3>2
    <3> QED BY <2>1, <3>1, <3>2, <3>3 DEF ReviewInv, VerdictOK
  <2>2. CASE binding.verdict = "none"
    BY <2>2 DEF ReviewInv, VerdictOK
  <2> QED BY <2>1, <2>2
<1> QED BY <1>2, <1>3

(* One row of one record is marked as filed or linked.                        *)
LEMMA Marks ==
  ASSUME ReviewInv, NEW p \in Pending, NEW new \in RowType,
         new.finding = p[2].finding, new.marked = p[2].marked, new.effective = p[2].effective,
         new.url, Marker(new) \in DOMAIN issues', DOMAIN issues \subseteq DOMAIN issues',
         Marked(p[1], p[2], new), UNCHANGED <<binding, failed, visit, hist>>
  PROVE  /\ archive' \in SUBSET RecType
         /\ VerdictOK' /\ LookedOK' /\ RowsOK' /\ RoundsAreHeads'
<1>1. /\ p[1] \in archive /\ p[1] \in RecType /\ p[2] \in p[1].rows /\ p[2] \in RowType
      /\ p[2].effective = "follow-up"
  BY DEF Pending, ReviewInv, ReviewTypeOK, RecType
<1> DEFINE marked == [p[1] EXCEPT !.rows = (@ \ {p[2]}) \cup {new}]
<1>2. /\ marked \in RecType /\ marked.id = p[1].id /\ marked.head = p[1].head
      /\ marked.rows = (p[1].rows \ {p[2]}) \cup {new}
  BY <1>1 DEF RecType
<1>3. archive' = (archive \ {p[1]}) \cup {marked}
  BY DEF Marked
<1> HIDE DEF marked
<1>4. archive' \in SUBSET RecType
  BY <1>2, <1>3 DEF ReviewInv, ReviewTypeOK
<1>5. Covers(archive, archive')
  <2>1. \A row \in p[1].rows : \E row2 \in marked.rows :
          row2.finding = row.finding /\ (row.effective = "follow-up" => row2.effective = "follow-up")
    BY <1>1, <1>2
  <2>2. \A rec \in archive : rec # p[1] => rec \in archive'
    BY <1>3
  <2>3. marked \in archive'
    BY <1>3
  <2> QED BY <1>2, <2>1, <2>2, <2>3 DEF Covers
<1>6. VerdictOK' /\ LookedOK'
  BY <1>5, Covered DEF ReviewInv, LookedOK
<1>7. RowsOK'
  <2>1. ASSUME NEW rec \in archive', NEW row \in rec.rows
        PROVE  (row.linked => row.url) /\ (row.url => Marker(row) \in DOMAIN issues')
    <3>1. CASE row = new
      BY <3>1
    <3>2. CASE row # new
      <4>1. \E rec2 \in archive : row \in rec2.rows
        BY <1>1, <1>2, <1>3, <2>1, <3>2
      <4> QED BY <4>1 DEF ReviewInv, RowsOK
    <3> QED BY <3>1, <3>2
  <2> QED BY <2>1 DEF RowsOK, Marker
<1>8. RoundsAreHeads'
  <2>1. ASSUME NEW rec \in archive', NEW row \in rec.rows,
               row.finding.severity = "blocking", row.marked = "blocking", row.effective = "follow-up"
        PROVE  Cardinality({g \in hist.heads : g <= rec.head}) >= Threshold
    <3>1. \E rec2 \in archive : rec2.head = rec.head /\ \E row2 \in rec2.rows :
            row2.finding = row.finding /\ row2.marked = row.marked /\ row2.effective = row.effective
      BY <1>1, <1>2, <1>3, <2>1
    <3> QED BY <2>1, <3>1 DEF ReviewInv, RoundsAreHeads
  <2> QED BY <2>1 DEF RoundsAreHeads
<1> QED BY <1>4, <1>6, <1>7, <1>8

(* An intake of a waiver adds a record of nothing but follow-ups.              *)
LEMMA Waives ==
  ASSUME ConvergenceAssumption, ReviewInv, Refused, NEW name \in {"owner", "design", "exhausted"},
         NEW findings \in SUBSET Findings, NEW basis \in {"waiver", "owner"},
         basis = "waiver" => ~Protected(visit.blockers), Waive(name, findings, basis),
         UNCHANGED <<state, attempts, head, touched, run, binding, rounds, failed, issues, hist>>,
         design' \in [Heads -> DesignType], once' \in OnceType, left' \in Nat
  PROVE  ReviewInv'
<1>1. visit \in VisitType /\ visit.at = "refused" /\ visit.head \in Heads
  BY DEF Refused, ReviewInv, ReviewTypeOK, VisitOK
<1>2. /\ visit' \in VisitType /\ visit'.at = "file" /\ visit'.head = visit.head
      /\ visit'.blockers = visit.blockers /\ visit'.basis = basis
  BY <1>1 DEF Waive, VisitType
<1> DEFINE rows == {[Row(f, "follow-up") EXCEPT !.marked = "follow-up"] : f \in findings}
           new == [id |-> <<name, looked>>, head |-> looked, rows |-> rows]
<1>3. /\ rows \in SUBSET RowType
      /\ \A row \in rows : ~row.url /\ ~row.linked /\ row.marked = "follow-up"
  BY ZenonT(60) DEF Row, RowType, Findings
<1>4. new \in RecType /\ new.rows = rows
  <2> HIDE DEF rows
  <2> QED BY <1>1, <1>3 DEF RecType, looked, Heads
<1>5. archive' \in {archive, archive \cup {new}}
  BY DEF Waive
<1> HIDE DEF new, rows
<1>6. ReviewTypeOK'
  BY <1>2, <1>4, <1>5 DEF ReviewInv, ReviewTypeOK
<1>7. VisitOK' /\ BasisOK' /\ RoundsOK' /\ BlockersAccounted' /\ FollowUpFiledOnce'
  BY <1>1, <1>2 DEF ReviewInv, VisitOK, BasisOK, RoundsOK, BlockersAccounted, FollowUpFiledOnce
<1>8. Covers(archive, archive')
  <2>1. archive \subseteq archive'
    BY <1>5
  <2> QED BY <2>1 DEF Covers
<1>9. VerdictOK' /\ LookedOK'
  BY <1>1, <1>2, <1>8, Covered DEF ReviewInv, LookedOK
<1>10. RowsOK'
  BY <1>3, <1>4, <1>5 DEF ReviewInv, RowsOK, Marker
<1>11. RoundsAreHeads'
  <2>1. ASSUME NEW rec \in archive', NEW row \in rec.rows, row.marked = "blocking" PROVE rec \in archive
    BY <1>3, <1>4, <1>5, <2>1
  <2> QED BY <2>1 DEF ReviewInv, RoundsAreHeads
<1> QED BY <1>6, <1>7, <1>9, <1>10, <1>11 DEF ReviewInv

------------------------------------------------------------------------------
(* The steps of a visit.                                                      *)

LEMMA ReviewInitHolds == ASSUME ConvergenceAssumption, ReviewInit PROVE ReviewInv
<1>1. once \in OnceType
  <2>1. NoCycle \in CycleType
    BY DEF NoCycle, CycleType
  <2> QED BY <2>1 DEF ReviewInit, OnceType
<1>2. ReviewTypeOK
  BY <1>1 DEF ReviewInit, ReviewTypeOK, ConvergenceAssumption, Heads, NoRun, NoReview, NoDesign,
     NoVisit, RunType, BindingType, DesignType, VisitType
<1> QED BY <1>2 DEF ReviewInit, ReviewInv, VisitOK, VerdictOK, LookedOK, BasisOK, RowsOK, RoundsOK,
           BlockersAccounted, FollowUpFiledOnce, RoundsAreHeads, NoRun, NoReview, NoVisit, Blocking

(* A demotion at the gate is of a verdict on this head, in a round that counts. *)
LEMMA JudgeKeeps == ASSUME ConvergenceAssumption, ReviewInv, Judge PROVE ReviewInv'
<1> DEFINE r == record_green(rounds, head, binding.findings)
           blockers == {f \in Blocking(binding.findings) : ~Demoted(r, head, f)}
           row1(row) == IF Demoted(r, head, row.finding)
                        THEN [row EXCEPT !.effective = "follow-up"] ELSE row
           rec1(rec) == IF rec.id = <<"run", binding.id>> /\ rec.head = head
                        THEN [rec EXCEPT !.rows = {row1(row) : row \in rec.rows}] ELSE rec
<1>1. /\ binding \in BindingType /\ binding.head = head /\ head \in hist.heads /\ head \in Heads
      /\ run.role = "none" /\ state = "verifying" /\ visit.at = "idle"
  BY DEF Judge, Rests, ReviewInv, ReviewTypeOK, VerdictOK
<1>2. /\ rounds' = r /\ archive' = {rec1(rec) : rec \in archive}
      /\ visit' = [at |-> IF blockers = {} THEN "file" ELSE "refused", head |-> head,
                   blockers |-> blockers, basis |-> IF blockers = {} THEN "review" ELSE "none"]
      /\ UNCHANGED <<state, attempts, head, touched, run, binding, failed, design, once, issues, left, hist>>
  BY DEF Judge, apply_dispositions
<1>3. binding.findings \in SUBSET Findings
  BY <1>1 DEF BindingType
<1>4. /\ r \in Seq(RoundType)
      /\ \A i \in DOMAIN r : r[i].head <= head /\ r[i].head \in hist.heads
      /\ \A i, j \in DOMAIN r : i < j => r[i].head < r[j].head
      /\ \E i \in DOMAIN r : r[i].head = head
  BY <1>1, <1>3, RecordGreen
<1>5. \A f : Demoted(r, head, f) => Cardinality({g \in hist.heads : g <= head}) >= Threshold
  <2> HIDE DEF r
  <2>1. hist.heads \in SUBSET Heads
    BY DEF ReviewInv, ReviewTypeOK
  <2>2. Cardinality({g \in hist.heads : g <= head}) >= round_number(r, head)
    BY <1>1, <1>4, <2>1, RoundsCount
  <2>3. Cardinality({g \in hist.heads : g <= head}) \in Nat
    <3>1. IsFiniteSet(Heads) /\ {g \in hist.heads : g <= head} \in SUBSET Heads
      BY <2>1, FS_Interval DEF Heads, ConvergenceAssumption
    <3> QED BY <3>1, FS_Subset, FS_CardinalityType
  <2>4. round_number(r, head) \in Int
    <3>1. DOMAIN r = 1..Len(r) /\ Len(r) \in Nat
      BY <1>4
    <3>2. \A i \in DOMAIN r : i \in Int
      BY <3>1
    <3>3. \A i, j \in DOMAIN r : r[i].head = head /\ r[j].head = head => i = j
      <4>1. \A i \in DOMAIN r : r[i] \in RoundType
        BY <1>4
      <4> QED BY <1>4, <3>2, <4>1 DEF RoundType, Heads
    <3>4. \E i \in DOMAIN r : r[i].head = head /\ \A j \in DOMAIN r : r[j].head = head => i <= j
      BY <1>4, <3>2, <3>3
    <3> QED BY <3>2, <3>4 DEF round_number
  <2> QED BY <2>2, <2>3, <2>4 DEF Demoted, ConvergenceAssumption
<1> HIDE DEF r
<1>6. \A row \in RowType : /\ row1(row) \in RowType /\ row1(row).finding = row.finding
                           /\ row1(row).marked = row.marked
                           /\ row1(row).url = row.url /\ row1(row).linked = row.linked
                           /\ row1(row).effective = IF Demoted(r, head, row.finding) THEN "follow-up"
                                                    ELSE row.effective
  BY DEF RowType
<1> HIDE DEF row1
<1>7. \A rec \in archive : rec \in RecType /\ \A row \in rec.rows : row \in RowType
  BY DEF ReviewInv, ReviewTypeOK, RecType
<1>8. \A rec \in archive :
        /\ rec1(rec) \in RecType /\ rec1(rec).id = rec.id /\ rec1(rec).head = rec.head
        /\ rec.id = <<"run", binding.id>> /\ rec.head = head =>
             rec1(rec).rows = {row1(row) : row \in rec.rows}
        /\ ~(rec.id = <<"run", binding.id>> /\ rec.head = head) => rec1(rec) = rec
  BY <1>6, <1>7 DEF RecType
<1> HIDE DEF rec1
<1>9. visit' \in VisitType /\ visit'.at \in {"file", "refused"} /\ visit'.head = head /\ visit'.blockers = blockers
  <2>1. blockers \in SUBSET Findings
    BY <1>3 DEF Blocking
  <2> HIDE DEF blockers
  <2> QED BY <1>1, <1>2, <2>1 DEF VisitType
<1>10. ReviewTypeOK'
  <2>1. archive' \in SUBSET RecType
    BY <1>2, <1>8
  <2> QED BY <1>2, <1>4, <1>9, <2>1 DEF ReviewInv, ReviewTypeOK
<1>11. VisitOK' /\ BasisOK' /\ BlockersAccounted' /\ FollowUpFiledOnce'
  <2> HIDE DEF blockers
  <2> QED BY <1>1, <1>2, <1>9 DEF ReviewInv, VisitOK, BasisOK, BlockersAccounted, FollowUpFiledOnce
<1>12. Covers(archive, archive')
  <2>1. ASSUME NEW rec \in archive
        PROVE  /\ rec1(rec) \in archive' /\ rec1(rec).id = rec.id /\ rec1(rec).head = rec.head
               /\ \A row \in rec.rows : \E row2 \in rec1(rec).rows :
                    row2.finding = row.finding /\ (row.effective = "follow-up" => row2.effective = "follow-up")
    <3>1. CASE rec.id = <<"run", binding.id>> /\ rec.head = head
      BY <1>2, <1>6, <1>7, <1>8, <3>1
    <3>2. CASE ~(rec.id = <<"run", binding.id>> /\ rec.head = head)
      BY <1>2, <1>8, <3>2
    <3> QED BY <3>1, <3>2
  <2> QED BY <2>1 DEF Covers
<1>13. VerdictOK'
  BY <1>2, <1>12, Covered
<1>14. LookedOK'
  <2>1. ASSUME NEW f \in Blocking(binding.findings), f \notin blockers PROVE Archived(f)'
    <3>1. Demoted(r, head, f) /\ f \in binding.findings
      BY <2>1 DEF Blocking
    <3>2. PICK rec \in archive : /\ rec.id = <<"run", binding.id>> /\ rec.head = head
                                 /\ \E row \in rec.rows : row.finding = f
      BY <1>1, <3>1 DEF Judge, ReviewInv, VerdictOK, RecordOf
    <3>3. PICK row \in rec.rows : row.finding = f
      BY <3>2
    <3>4. row1(row) \in rec1(rec).rows /\ row1(row).finding = f /\ row1(row).effective = "follow-up"
      BY <1>6, <1>7, <1>8, <3>1, <3>2, <3>3
    <3>5. rec1(rec) \in RecordOf(<<"run", binding.id>>)'
      BY <1>2, <1>8, <3>2 DEF RecordOf
    <3> QED BY <3>4, <3>5 DEF Archived
  <2>2. visit'.at = "refused" => failed' # <<>>
    <3>1. visit'.at = "refused" => Blocking(binding.findings) # {}
      BY <1>2
    <3> QED BY <1>2, <3>1 DEF ReviewInv, VerdictOK
  <2> HIDE DEF blockers
  <2> QED BY <1>2, <1>9, <2>1, <2>2 DEF LookedOK
<1>15. RowsOK'
  <2>1. ASSUME NEW rec \in archive, NEW row \in rec1(rec).rows
        PROVE  (row.linked => row.url) /\ (row.url => Marker(row) \in DOMAIN issues)
    <3>1. \E row2 \in rec.rows : /\ row2.finding = row.finding /\ row2.marked = row.marked
                                 /\ row2.url = row.url /\ row2.linked = row.linked
      BY <1>6, <1>7, <1>8, <2>1
    <3> QED BY <3>1 DEF ReviewInv, RowsOK, Marker
  <2> QED BY <1>2, <2>1 DEF RowsOK, Marker
<1>16. RoundsOK'
  BY <1>2, <1>4 DEF RoundsOK
<1>17. RoundsAreHeads'
  <2>1. ASSUME NEW rec \in archive, NEW row \in rec1(rec).rows,
               row.finding.severity = "blocking", row.marked = "blocking", row.effective = "follow-up"
        PROVE  Cardinality({g \in hist.heads : g <= rec1(rec).head}) >= Threshold
    <3>1. CASE row \in rec.rows
      BY <1>8, <2>1, <3>1 DEF ReviewInv, RoundsAreHeads
    <3>2. CASE row \notin rec.rows
      <4>1. rec.head = head /\ \E row2 \in rec.rows : row = row1(row2)
        BY <1>8, <2>1, <3>2
      <4>2. PICK row2 \in rec.rows : row = row1(row2)
        BY <4>1
      <4>3. CASE Demoted(r, head, row2.finding)
        BY <1>5, <1>8, <4>1, <4>3
      <4>4. CASE ~Demoted(r, head, row2.finding)
        <5>1. row2.finding = row.finding /\ row2.marked = row.marked /\ row2.effective = row.effective
          BY <1>6, <1>7, <4>2, <4>4
        <5> QED BY <1>8, <2>1, <5>1 DEF ReviewInv, RoundsAreHeads
      <4> QED BY <4>3, <4>4
    <3> QED BY <3>1, <3>2
  <2> QED BY <1>2, <2>1 DEF RoundsAreHeads
<1> HIDE DEF blockers
<1> QED BY <1>10, <1>11, <1>13, <1>14, <1>15, <1>16, <1>17 DEF ReviewInv

LEMMA FilesOnce ==
  ASSUME ReviewInv, NEW m, ~issue_by_marker(m), create_issue(m)
  PROVE  /\ issues' \in [DOMAIN issues' -> Nat] /\ DOMAIN issues' = DOMAIN issues \cup {m}
         /\ \A x \in DOMAIN issues' : issues'[x] = 1
<1>1. \A x \in DOMAIN issues : issues[x] = 1
  BY DEF ReviewInv, FollowUpFiledOnce
<1>2. m \notin DOMAIN issues
  BY DEF issue_by_marker
<1>3. issues' = [x \in DOMAIN issues \cup {m} |-> 1]
  BY <1>1, <1>2 DEF create_issue
<1> QED BY <1>3

LEMMA FilesKeeps == ASSUME ConvergenceAssumption, ReviewInv, Files PROVE ReviewInv'
<1>1. PICK p \in Pending :
        /\ IF issue_by_marker(Marker(p[2])) THEN UNCHANGED issues ELSE create_issue(Marker(p[2]))
        /\ Marked(p[1], p[2], [p[2] EXCEPT !.url = TRUE])
  BY DEF Files
<1>2. p[2] \in RowType
  BY DEF Pending, ReviewInv, ReviewTypeOK, RecType
<1> DEFINE new == [p[2] EXCEPT !.url = TRUE]
<1>3. /\ new \in RowType /\ new.finding = p[2].finding /\ new.marked = p[2].marked
      /\ new.effective = p[2].effective /\ new.url
  BY <1>2 DEF RowType
<1> HIDE DEF new
<1>4. /\ issues' \in [DOMAIN issues' -> Nat] /\ DOMAIN issues \subseteq DOMAIN issues'
      /\ Marker(p[2]) \in DOMAIN issues' /\ FollowUpFiledOnce'
  <2>1. CASE issue_by_marker(Marker(p[2]))
    BY <1>1, <2>1 DEF issue_by_marker, ReviewInv, ReviewTypeOK, FollowUpFiledOnce
  <2>2. CASE ~issue_by_marker(Marker(p[2]))
    BY <1>1, <2>2, FilesOnce DEF FollowUpFiledOnce
  <2> QED BY <2>1, <2>2
<1>5. UNCHANGED <<state, attempts, head, touched, run, binding, rounds, failed, design, once, visit, left, hist>>
  BY DEF Files
<1>6. Marked(p[1], p[2], new) /\ Marker(new) = Marker(p[2])
  BY <1>1, <1>3 DEF new, Marker
<1>7. archive' \in SUBSET RecType /\ VerdictOK' /\ LookedOK' /\ RowsOK' /\ RoundsAreHeads'
  BY <1>3, <1>4, <1>5, <1>6, Marks
<1>8. ReviewTypeOK'
  BY <1>4, <1>5, <1>7 DEF ReviewInv, ReviewTypeOK
<1>9. VisitOK' /\ BasisOK' /\ RoundsOK' /\ BlockersAccounted'
  BY <1>5 DEF Files, Filing, ReviewInv, VisitOK, BasisOK, RoundsOK, BlockersAccounted
<1> QED BY <1>4, <1>7, <1>8, <1>9 DEF ReviewInv

LEMMA LinksKeeps == ASSUME ConvergenceAssumption, ReviewInv, Links PROVE ReviewInv'
<1>1. PICK p \in Pending : p[2].url /\ Marked(p[1], p[2], [p[2] EXCEPT !.linked = TRUE])
  BY DEF Links
<1>2. p[2] \in RowType /\ p[1] \in archive /\ p[2] \in p[1].rows
  BY DEF Pending, ReviewInv, ReviewTypeOK, RecType
<1> DEFINE new == [p[2] EXCEPT !.linked = TRUE]
<1>3. /\ new \in RowType /\ new.finding = p[2].finding /\ new.marked = p[2].marked
      /\ new.effective = p[2].effective /\ new.url
  BY <1>1, <1>2 DEF RowType
<1> HIDE DEF new
<1>4. /\ UNCHANGED <<state, attempts, head, touched, run, binding, rounds, failed, design, once, visit, left, hist>>
      /\ UNCHANGED issues
  BY DEF Links
<1>5. Marked(p[1], p[2], new) /\ Marker(new) \in DOMAIN issues'
  BY <1>1, <1>2, <1>3, <1>4 DEF new, Marker, ReviewInv, RowsOK
<1>6. archive' \in SUBSET RecType /\ VerdictOK' /\ LookedOK' /\ RowsOK' /\ RoundsAreHeads'
  BY <1>3, <1>4, <1>5, Marks
<1>7. ReviewTypeOK'
  BY <1>4, <1>6 DEF ReviewInv, ReviewTypeOK
<1>8. VisitOK' /\ BasisOK' /\ RoundsOK' /\ BlockersAccounted' /\ FollowUpFiledOnce'
  BY <1>4 DEF Links, Filing, ReviewInv, VisitOK, BasisOK, RoundsOK, BlockersAccounted,
     FollowUpFiledOnce
<1> QED BY <1>6, <1>7, <1>8 DEF ReviewInv

LEMMA FilingFailsKeeps == ASSUME ConvergenceAssumption, ReviewInv, FilingFails PROVE ReviewInv'
<1>1. /\ UNCHANGED <<state, attempts, head, touched, run, record, hist>> /\ visit' = NoVisit
      /\ left' \in Nat /\ visit.at = "file"
  BY DEF FilingFails, Filing, Leave, Upset, ReviewInv, ReviewTypeOK
<1>2. /\ issues' \in [DOMAIN issues' -> Nat] /\ DOMAIN issues \subseteq DOMAIN issues' /\ FollowUpFiledOnce'
  <2>1. CASE UNCHANGED issues
    BY <2>1 DEF ReviewInv, ReviewTypeOK, FollowUpFiledOnce
  <2>2. CASE \E p \in Pending : ~issue_by_marker(Marker(p[2])) /\ create_issue(Marker(p[2]))
    BY <2>2, FilesOnce DEF FollowUpFiledOnce
  <2> QED BY <2>1, <2>2 DEF FilingFails
<1>3. NoVisit \in VisitType /\ NoVisit.at = "idle"
  BY DEF NoVisit, VisitType
<1>4. ReviewTypeOK'
  BY <1>1, <1>2, <1>3 DEF record, ReviewInv, ReviewTypeOK
<1>5. (VisitOK /\ VerdictOK /\ LookedOK /\ BasisOK /\ RoundsOK /\ RoundsAreHeads)'
  BY <1>1, <1>3 DEF record, ReviewInv, VisitOK, VerdictOK, LookedOK, BasisOK, RoundsOK,
     RoundsAreHeads, RecordOf
<1>6. RowsOK' /\ BlockersAccounted'
  BY <1>1, <1>2 DEF record, ReviewInv, VisitOK, RowsOK, Marker, BlockersAccounted
<1> QED BY <1>2, <1>4, <1>5, <1>6 DEF ReviewInv

(* With nothing left to file, what was demoted is linked to its issue.         *)
LEMMA MergesKeeps == ASSUME ConvergenceAssumption, ReviewInv, Merges PROVE ReviewInv'
<1>1. /\ UNCHANGED <<attempts, head, touched, run, record, issues, left>> /\ visit' = NoVisit
      /\ state' = "merged" /\ hist' = [hist EXCEPT !.merged = visit]
      /\ visit.at = "file" /\ Pending = {}
  BY DEF Merges, Filing, Leave
<1>2. NoVisit \in VisitType /\ NoVisit.at = "idle" /\ visit \in VisitType
  BY DEF NoVisit, VisitType, ReviewInv, ReviewTypeOK
<1>3. hist' \in [runs : Nat, heads : SUBSET Heads, merged : VisitType] /\ hist'.heads = hist.heads /\ hist'.merged = visit
  BY <1>1, <1>2 DEF ReviewInv, ReviewTypeOK
<1>4. ReviewTypeOK'
  BY <1>1, <1>2, <1>3 DEF record, ReviewInv, ReviewTypeOK
<1>5. (VisitOK /\ VerdictOK /\ LookedOK /\ BasisOK /\ RowsOK /\ RoundsOK /\ FollowUpFiledOnce /\ RoundsAreHeads)'
  BY <1>1, <1>2, <1>3 DEF record, ReviewInv, VisitOK, VerdictOK, LookedOK, BasisOK, RowsOK,
     Marker, RoundsOK,
     FollowUpFiledOnce, RoundsAreHeads, RecordOf
<1>6. BlockersAccounted'
  <2>1. \A rec \in archive : \A row \in rec.rows :
          row.effective = "follow-up" => row.linked /\ Marker(row) \in DOMAIN issues
    <3>1. ASSUME NEW rec \in archive, NEW row \in rec.rows, row.effective = "follow-up" PROVE row.linked
      <4> DEFINE p == <<rec, row>>
      <4>1. p \in {<<q, w>> : q \in archive, w \in UNION {v.rows : v \in archive}}
        BY <3>1
      <4>2. p[1] = rec /\ p[2] = row
        OBVIOUS
      <4> HIDE DEF p
      <4>3. p \notin Pending
        BY <1>1
      <4> QED BY <3>1, <4>1, <4>2, <4>3 DEF Pending, ReviewInv, ReviewTypeOK, RecType, RowType
    <3> QED BY <3>1 DEF ReviewInv, RowsOK
  <2>2. ASSUME NEW f \in Blocking(binding.findings), visit.basis # "owner"
        PROVE  \/ \E rec \in RecordOf(<<"run", binding.id>>) : \E row \in rec.rows :
                    row.finding = f /\ row.effective = "follow-up" /\ row.linked /\ Marker(row) \in DOMAIN issues
               \/ visit.basis = "waiver" /\ f.kind \in {"plain", "gate"}
    <3>1. CASE Archived(f)
      BY <2>1, <3>1 DEF Archived, RecordOf
    <3>2. CASE f \in visit.blockers
      <4>1. visit.basis = "waiver" /\ ~Protected(visit.blockers)
        BY <1>1, <2>2, <3>2 DEF ReviewInv, BasisOK
      <4>2. f.severity = "blocking" /\ f.kind \in {"spec", "security", "plain", "gate"}
        BY <1>2, <2>2, <3>2 DEF Blocking, VisitType, Findings
      <4> QED BY <3>2, <4>1, <4>2 DEF Protected, Blocking
    <3> QED BY <1>1, <3>1, <3>2 DEF ReviewInv, LookedOK
  <2> QED BY <1>1, <1>3, <2>2 DEF BlockersAccounted, record, RecordOf, Marker
<1> QED BY <1>4, <1>5, <1>6 DEF ReviewInv

------------------------------------------------------------------------------
(* The steps that leave the archive, the issues and the rounds alone.          *)

LEMMA Quietly ==
  ASSUME ReviewInv, ReviewTypeOK', UNCHANGED <<rounds, failed, archive, issues, hist>>, head' >= head,
         binding' = binding \/ (binding'.verdict = "none" /\ binding'.findings = {}),
         state' # "merged", visit'.at = "idle",
         run'.role = "review" => binding'.head \in Heads /\ binding'.id = run'.id
  PROVE  ReviewInv'
<1>1. VisitOK' /\ LookedOK' /\ BasisOK'
  BY DEF VisitOK, LookedOK, BasisOK
<1>2. VerdictOK'
  BY DEF ReviewInv, VerdictOK, RecordOf, Blocking
<1>3. RoundsOK'
  <2>1. \A i \in DOMAIN rounds : rounds[i].head \in Nat
    <3>1. \A i \in DOMAIN rounds : rounds[i] \in RoundType
      BY DEF ReviewInv, ReviewTypeOK
    <3> QED BY <3>1 DEF RoundType, Heads
  <2> QED BY <2>1 DEF ReviewInv, ReviewTypeOK, RoundsOK, Heads
<1>4. RowsOK' /\ BlockersAccounted' /\ FollowUpFiledOnce' /\ RoundsAreHeads'
  BY DEF ReviewInv, RowsOK, Marker, BlockersAccounted, FollowUpFiledOnce, RoundsAreHeads
<1> QED BY <1>1, <1>2, <1>3, <1>4 DEF ReviewInv

LEMMA Typed ==
  /\ NoVisit \in VisitType /\ NoVisit.at = "idle"
  /\ NoRun \in RunType /\ NoRun.role = "none"
  /\ NoReview \in BindingType /\ NoReview.verdict = "none" /\ NoReview.findings = {}
BY DEF NoVisit, VisitType, NoRun, RunType, NoReview, BindingType

LEMMA MergeWaitsKeeps == ASSUME ConvergenceAssumption, ReviewInv, MergeWaits PROVE ReviewInv'
<1>1. /\ UNCHANGED <<head, touched, rounds, failed, archive, issues, hist>>
      /\ state' # "merged" /\ state' \in {state, "verifying", "waiting", "rebuilding", "parked", "needs_you"}
      /\ attempts' \in Nat /\ left' \in Nat
  BY DEF MergeWaits, Filing, Leave, Upset, record, ReviewInv, ReviewTypeOK, VisitOK
<1>2. /\ run' \in {run, NoRun} \/ (run' \in RunType /\ run'.role # "review")
      /\ binding' \in {binding, NoReview} /\ (binding' = NoReview => run'.role # "review")
      /\ visit' = NoVisit \/ (visit' = visit /\ visit.at = "idle")
  BY Typed DEF MergeWaits, Filing, Leave, Upset, record, ReviewInv, ReviewTypeOK, VisitOK,
     RunType, NoRun
<1>3. design' \in [Heads -> DesignType] /\ once' \in OnceType
  BY DEF MergeWaits, Filing, Leave, Upset, record, ReviewInv, ReviewTypeOK, VisitOK, DesignType,
     OnceType
<1>4. ReviewTypeOK'
  BY <1>1, <1>2, <1>3, Typed DEF ReviewInv, ReviewTypeOK
<1> QED BY <1>1, <1>2, <1>4, Typed, Quietly DEF ReviewInv, ReviewTypeOK, VisitOK, Heads

LEMMA WakesKeeps == ASSUME ConvergenceAssumption, ReviewInv, Wakes PROVE ReviewInv'
<1>1. /\ UNCHANGED <<head, touched, rounds, failed, archive, issues, hist>>
      /\ state' # "merged" /\ state' \in {state, "verifying", "waiting", "rebuilding", "parked", "needs_you"}
      /\ attempts' \in Nat /\ left' \in Nat
  BY DEF Wakes, record, ReviewInv, ReviewTypeOK, VisitOK
<1>2. UNCHANGED <<run, binding, visit>> /\ visit.at = "idle"
  BY DEF Wakes, ReviewInv, VisitOK
<1>3. design' \in [Heads -> DesignType] /\ once' \in OnceType
  <2>1. once \in OnceType /\ design \in [Heads -> DesignType]
    BY DEF ReviewInv, ReviewTypeOK
  <2>2. [h \in Heads |-> IF once.seen[h] > InconclusiveCap THEN 0 ELSE once.seen[h]] \in [Heads -> Nat]
    BY <2>1 DEF OnceType
  <2> QED BY <2>1, <2>2 DEF Wakes, OnceType
<1>4. ReviewTypeOK'
  BY <1>1, <1>2, <1>3, Typed DEF ReviewInv, ReviewTypeOK
<1> QED BY <1>1, <1>2, <1>4, Typed, Quietly DEF ReviewInv, ReviewTypeOK, VisitOK, Heads

(* The accounts of the rounds stay of their type.                              *)
LEMMA OnceKept ==
  ASSUME ReviewInv
  PROVE  /\ once \in OnceType
         /\ \A h \in Heads, c \in BOOLEAN, how \in {"none", "done", "ended", "cut"} :
              [once EXCEPT !.cycle = [head |-> h, charged |-> c], !.fixed = how] \in OnceType
         /\ \A how \in {"none", "done", "ended", "cut"} : [once EXCEPT !.fixed = how] \in OnceType
         /\ \A h \in Heads : [once EXCEPT !.designed = @ \cup {h}] \in OnceType
         /\ looked \in Heads =>
              /\ Opened \in OnceType
              /\ [Opened EXCEPT !.designed = @ \cup {looked}] \in OnceType
<1>1. once \in OnceType
  BY DEF ReviewInv, ReviewTypeOK
<1>2. Cleared.charged \in BOOLEAN
  BY <1>1 DEF Cleared, NoCycle, OnceType, CycleType
<1>3. ASSUME NEW h \in Heads, NEW c \in BOOLEAN PROVE [head |-> h, charged |-> c] \in CycleType
  BY DEF CycleType
<1>4. \A c \in CycleType : [once EXCEPT !.cycle = c] \in OnceType
  BY <1>1 DEF OnceType
<1>5. looked \in Heads => Opened \in OnceType
  BY <1>2, <1>3, <1>4 DEF Opened
<1>6. \A o \in OnceType : \A h \in Heads : [o EXCEPT !.designed = @ \cup {h}] \in OnceType
  BY DEF OnceType
<1>7. \A c \in CycleType, how \in {"none", "done", "ended", "cut"} :
        [once EXCEPT !.cycle = c, !.fixed = how] \in OnceType
  BY <1>1 DEF OnceType
<1>8. \A how \in {"none", "done", "ended", "cut"} : [once EXCEPT !.fixed = how] \in OnceType
  BY <1>1 DEF OnceType
<1> QED BY <1>1, <1>3, <1>5, <1>6, <1>7, <1>8

LEMMA StartsDesignKeeps == ASSUME ConvergenceAssumption, ReviewInv, StartsDesign PROVE ReviewInv'
<1>1. /\ UNCHANGED <<head, touched, rounds, failed, archive, issues, hist>>
      /\ state' # "merged" /\ state' \in {state, "verifying", "waiting", "rebuilding", "parked", "needs_you"}
      /\ attempts' \in Nat /\ left' \in Nat
  BY DEF StartsDesign, Designs, Normally, Unparked, Planned, Fixing, Undesigned, Refused, looked, Leave, Upset, ReviewInv, ReviewTypeOK, VisitOK
<1>2. /\ run' \in {run, NoRun} \/ (run' \in RunType /\ run'.role # "review")
      /\ binding' \in {binding, NoReview} /\ (binding' = NoReview => run'.role # "review")
      /\ visit' = NoVisit \/ (visit' = visit /\ visit.at = "idle")
  BY Typed DEF StartsDesign, Designs, Normally, Unparked, Planned, Fixing, Undesigned, Refused, looked, Leave, Upset, ReviewInv, ReviewTypeOK, VisitOK, RunType, NoRun
<1>3. design' \in [Heads -> DesignType] /\ once' \in OnceType
  <2>1. design' \in [Heads -> DesignType]
    BY DEF StartsDesign, Designs, ReviewInv, ReviewTypeOK, VisitOK
  <2>2. once' \in OnceType
    BY OnceKept DEF StartsDesign, Designs, Normally, Unparked, Planned, Fixing, Undesigned, Refused, looked, Leave, Upset, ReviewInv, ReviewTypeOK, VisitOK
  <2> QED BY <2>1, <2>2
<1>4. ReviewTypeOK'
  BY <1>1, <1>2, <1>3, Typed DEF ReviewInv, ReviewTypeOK
<1> QED BY <1>1, <1>2, <1>4, Typed, Quietly DEF ReviewInv, ReviewTypeOK, VisitOK, Heads

LEMMA DesignEndsKeeps == ASSUME ConvergenceAssumption, ReviewInv, DesignEnds PROVE ReviewInv'
<1>1. /\ UNCHANGED <<head, touched, rounds, failed, archive, issues, hist>>
      /\ state' # "merged" /\ state' \in {state, "verifying", "waiting", "rebuilding", "parked", "needs_you"}
      /\ attempts' \in Nat /\ left' \in Nat
  BY DEF DesignEnds, ReviewInv, ReviewTypeOK, VisitOK
<1>2. /\ run' \in {run, NoRun} \/ (run' \in RunType /\ run'.role # "review")
      /\ binding' \in {binding, NoReview} /\ (binding' = NoReview => run'.role # "review")
      /\ visit' = NoVisit \/ (visit' = visit /\ visit.at = "idle")
  BY Typed DEF DesignEnds, ReviewInv, ReviewTypeOK, VisitOK, RunType, NoRun
<1>3. design' \in [Heads -> DesignType] /\ once' \in OnceType
  <2>1. design \in [Heads -> DesignType] /\ once \in OnceType /\ head \in Heads /\ binding.findings \in SUBSET Findings
    BY DEF ReviewInv, ReviewTypeOK, BindingType
  <2>2. ASSUME NEW findings \in SUBSET Findings
        PROVE  /\ [design[head] EXCEPT !.disposition = "fix"] \in DesignType
               /\ [design[head] EXCEPT !.disposition = "followups", !.findings = findings] \in DesignType
    <3>1. design[head] \in DesignType
      BY <2>1
    <3> QED BY <3>1 DEF DesignType
  <2>3. CASE UNCHANGED design
    BY <2>1, <2>3 DEF DesignEnds
  <2>4. CASE design' = [design EXCEPT ![head].disposition = "fix"]
    BY <2>1, <2>2, <2>4 DEF DesignEnds
  <2>5. CASE \E findings \in SUBSET binding.findings :
               design' = [design EXCEPT ![head].disposition = "followups", ![head].findings = findings]
    <3>1. PICK findings \in SUBSET binding.findings :
            design' = [design EXCEPT ![head] = [design[head] EXCEPT !.disposition = "followups", !.findings = findings]]
      BY <2>1, <2>5
    <3> QED BY <2>1, <2>2, <3>1 DEF DesignEnds
  <2> QED BY <2>3, <2>4, <2>5 DEF DesignEnds
<1>4. ReviewTypeOK'
  BY <1>1, <1>2, <1>3, Typed DEF ReviewInv, ReviewTypeOK
<1> QED BY <1>1, <1>2, <1>4, Typed, Quietly DEF ReviewInv, ReviewTypeOK, VisitOK, Heads

LEMMA StartsPlannedFixKeeps == ASSUME ConvergenceAssumption, ReviewInv, StartsPlannedFix PROVE ReviewInv'
<1>1. /\ UNCHANGED <<head, touched, rounds, failed, archive, issues, hist>>
      /\ state' # "merged" /\ state' \in {state, "verifying", "waiting", "rebuilding", "parked", "needs_you"}
      /\ attempts' \in Nat /\ left' \in Nat
  BY DEF StartsPlannedFix, Normally, Fix, Charge, Unparked, Planned, Fixing, Undesigned, Refused, looked, Leave, Upset, ReviewInv, ReviewTypeOK, VisitOK
<1>2. /\ run' \in {run, NoRun} \/ (run' \in RunType /\ run'.role # "review")
      /\ binding' \in {binding, NoReview} /\ (binding' = NoReview => run'.role # "review")
      /\ visit' = NoVisit \/ (visit' = visit /\ visit.at = "idle")
  BY Typed DEF StartsPlannedFix, Normally, Fix, Charge, Unparked, Planned, Fixing, Undesigned, Refused, looked, Leave, Upset, ReviewInv, ReviewTypeOK, VisitOK, RunType, NoRun
<1>3. design' \in [Heads -> DesignType] /\ once' \in OnceType
  <2>1. design \in [Heads -> DesignType]
    BY DEF ReviewInv, ReviewTypeOK
  <2>0. looked \in Heads
    BY DEF StartsPlannedFix, Normally, Unparked, Planned, Fixing, Undesigned, Refused, looked, ReviewInv, ReviewTypeOK, VisitOK
  <2>2. [design[looked] EXCEPT !.consumed = TRUE] \in DesignType
    <3>1. design[looked] \in DesignType
      BY <2>0, <2>1
    <3> QED BY <3>1 DEF DesignType
  <2>3. design' \in [Heads -> DesignType]
    BY <2>0, <2>1, <2>2 DEF StartsPlannedFix
  <2>4. once' \in OnceType
    BY OnceKept DEF StartsPlannedFix, Normally, Fix, Charge, Unparked, Planned, Fixing, Undesigned, Refused, looked, Leave, Upset, ReviewInv, ReviewTypeOK, VisitOK
  <2> QED BY <2>3, <2>4
<1>4. ReviewTypeOK'
  BY <1>1, <1>2, <1>3, Typed DEF ReviewInv, ReviewTypeOK
<1> QED BY <1>1, <1>2, <1>4, Typed, Quietly DEF ReviewInv, ReviewTypeOK, VisitOK, Heads

LEMMA ParksKeeps == ASSUME ConvergenceAssumption, ReviewInv, Parks PROVE ReviewInv'
<1>1. /\ UNCHANGED <<head, touched, rounds, failed, archive, issues, hist>>
      /\ state' # "merged" /\ state' \in {state, "verifying", "waiting", "rebuilding", "parked", "needs_you"}
      /\ attempts' \in Nat /\ left' \in Nat
  BY DEF Parks, Unparked, Planned, Fixing, Undesigned, Refused, looked, Leave, record, ReviewInv, ReviewTypeOK, VisitOK
<1>2. /\ run' \in {run, NoRun} \/ (run' \in RunType /\ run'.role # "review")
      /\ binding' \in {binding, NoReview} /\ (binding' = NoReview => run'.role # "review")
      /\ visit' = NoVisit \/ (visit' = visit /\ visit.at = "idle")
  BY Typed DEF Parks, Unparked, Planned, Fixing, Undesigned, Refused, looked, Leave, record, ReviewInv, ReviewTypeOK, VisitOK, RunType, NoRun
<1>3. design' \in [Heads -> DesignType] /\ once' \in OnceType
  BY DEF Parks, record, ReviewInv, ReviewTypeOK
<1>4. ReviewTypeOK'
  BY <1>1, <1>2, <1>3, Typed DEF ReviewInv, ReviewTypeOK
<1> QED BY <1>1, <1>2, <1>4, Typed, Quietly DEF ReviewInv, ReviewTypeOK, VisitOK, Heads

LEMMA ReReviewsKeeps == ASSUME ConvergenceAssumption, ReviewInv, ReReviews PROVE ReviewInv'
<1>1. /\ UNCHANGED <<head, touched, rounds, failed, archive, issues, hist>>
      /\ state' # "merged" /\ state' \in {state, "verifying", "waiting", "rebuilding", "parked", "needs_you"}
      /\ attempts' \in Nat /\ left' \in Nat
  BY DEF ReReviews, Unparked, Planned, Fixing, Undesigned, Refused, looked, Leave, ReviewInv, ReviewTypeOK, VisitOK
<1>2. /\ run' \in {run, NoRun} \/ (run' \in RunType /\ run'.role # "review")
      /\ binding' \in {binding, NoReview} /\ (binding' = NoReview => run'.role # "review")
      /\ visit' = NoVisit \/ (visit' = visit /\ visit.at = "idle")
  BY Typed DEF ReReviews, Unparked, Planned, Fixing, Undesigned, Refused, looked, Leave, ReviewInv, ReviewTypeOK, VisitOK, RunType, NoRun
<1>3. design' \in [Heads -> DesignType] /\ once' \in OnceType
  <2>1. design' \in [Heads -> DesignType]
    BY DEF ReReviews, ReviewInv, ReviewTypeOK, VisitOK
  <2>2. once' \in OnceType
    <3>1. once \in OnceType /\ looked \in Heads
      BY OnceKept DEF ReReviews, Undesigned, Refused, looked, ReviewInv, VisitOK
    <3>2. [once EXCEPT !.done = once.done \cup {looked}] \in OnceType
      BY <3>1 DEF OnceType
    <3> QED BY <3>2 DEF ReReviews
  <2> QED BY <2>1, <2>2
<1>4. ReviewTypeOK'
  BY <1>1, <1>2, <1>3, Typed DEF ReviewInv, ReviewTypeOK
<1> QED BY <1>1, <1>2, <1>4, Typed, Quietly DEF ReviewInv, ReviewTypeOK, VisitOK, Heads

LEMMA SecondOpinionKeeps == ASSUME ConvergenceAssumption, ReviewInv, SecondOpinion PROVE ReviewInv'
<1>1. /\ UNCHANGED <<head, touched, rounds, failed, archive, issues, hist>>
      /\ state' # "merged" /\ state' \in {state, "verifying", "waiting", "rebuilding", "parked", "needs_you"}
      /\ attempts' \in Nat /\ left' \in Nat
  BY DEF SecondOpinion, Unparked, Planned, Fixing, Undesigned, Refused, looked, Leave, ReviewInv, ReviewTypeOK, VisitOK
<1>2. /\ run' \in {run, NoRun} \/ (run' \in RunType /\ run'.role # "review")
      /\ binding' \in {binding, NoReview} /\ (binding' = NoReview => run'.role # "review")
      /\ visit' = NoVisit \/ (visit' = visit /\ visit.at = "idle")
  BY Typed DEF SecondOpinion, Unparked, Planned, Fixing, Undesigned, Refused, looked, Leave, ReviewInv, ReviewTypeOK, VisitOK, RunType, NoRun
<1>3. design' \in [Heads -> DesignType] /\ once' \in OnceType
  <2>1. design' \in [Heads -> DesignType]
    BY DEF SecondOpinion, ReviewInv, ReviewTypeOK, VisitOK
  <2>2. once' \in OnceType
    BY OnceKept DEF SecondOpinion, Unparked, Planned, Fixing, Undesigned, Refused, looked, Leave, ReviewInv, ReviewTypeOK, VisitOK, OnceType
  <2> QED BY <2>1, <2>2
<1>4. ReviewTypeOK'
  BY <1>1, <1>2, <1>3, Typed DEF ReviewInv, ReviewTypeOK
<1> QED BY <1>1, <1>2, <1>4, Typed, Quietly DEF ReviewInv, ReviewTypeOK, VisitOK, Heads

LEMMA StartsFixKeeps == ASSUME ConvergenceAssumption, ReviewInv, StartsFix PROVE ReviewInv'
<1>1. /\ UNCHANGED <<head, touched, rounds, failed, archive, issues, hist>>
      /\ state' # "merged" /\ state' \in {state, "verifying", "waiting", "rebuilding", "parked", "needs_you"}
      /\ attempts' \in Nat /\ left' \in Nat
  BY DEF StartsFix, Normally, Fix, Charge, Unparked, Planned, Fixing, Undesigned, Refused, looked, Leave, Upset, ReviewInv, ReviewTypeOK, VisitOK
<1>2. /\ run' \in {run, NoRun} \/ (run' \in RunType /\ run'.role # "review")
      /\ binding' \in {binding, NoReview} /\ (binding' = NoReview => run'.role # "review")
      /\ visit' = NoVisit \/ (visit' = visit /\ visit.at = "idle")
  BY Typed DEF StartsFix, Normally, Fix, Charge, Unparked, Planned, Fixing, Undesigned, Refused, looked, Leave, Upset, ReviewInv, ReviewTypeOK, VisitOK, RunType, NoRun
<1>3. design' \in [Heads -> DesignType] /\ once' \in OnceType
  <2>1. design' \in [Heads -> DesignType]
    BY DEF StartsFix, ReviewInv, ReviewTypeOK, VisitOK
  <2>2. once' \in OnceType
    BY OnceKept DEF StartsFix, Normally, Fix, Charge, Unparked, Planned, Fixing, Undesigned, Refused, looked, Leave, Upset, ReviewInv, ReviewTypeOK, VisitOK
  <2> QED BY <2>1, <2>2
<1>4. ReviewTypeOK'
  BY <1>1, <1>2, <1>3, Typed DEF ReviewInv, ReviewTypeOK
<1> QED BY <1>1, <1>2, <1>4, Typed, Quietly DEF ReviewInv, ReviewTypeOK, VisitOK, Heads

LEMMA RunWaitsKeeps == ASSUME ConvergenceAssumption, ReviewInv, RunWaits PROVE ReviewInv'
<1>1. /\ UNCHANGED <<head, touched, rounds, failed, archive, issues, hist>>
      /\ state' # "merged" /\ state' \in {state, "verifying", "waiting", "rebuilding", "parked", "needs_you"}
      /\ attempts' \in Nat /\ left' \in Nat
  BY DEF RunWaits, Rests, Unparked, Planned, Fixing, Undesigned, Refused, looked, Leave, Upset, ReviewInv, ReviewTypeOK, VisitOK
<1>2. /\ run' \in {run, NoRun} \/ (run' \in RunType /\ run'.role # "review")
      /\ binding' \in {binding, NoReview} /\ (binding' = NoReview => run'.role # "review")
      /\ visit' = NoVisit \/ (visit' = visit /\ visit.at = "idle")
  BY Typed DEF RunWaits, Rests, Unparked, Planned, Fixing, Undesigned, Refused, looked, Leave, Upset, ReviewInv, ReviewTypeOK, VisitOK, RunType, NoRun
<1>3. design' \in [Heads -> DesignType] /\ once' \in OnceType
  <2>1. design' \in [Heads -> DesignType]
    BY DEF RunWaits, ReviewInv, ReviewTypeOK, VisitOK
  <2>2. once' \in OnceType
    BY OnceKept DEF RunWaits, Rests, Unparked, Planned, Fixing, Undesigned, Refused, looked, Leave, Upset, ReviewInv, ReviewTypeOK, VisitOK
  <2> QED BY <2>1, <2>2
<1>4. ReviewTypeOK'
  BY <1>1, <1>2, <1>3, Typed DEF ReviewInv, ReviewTypeOK
<1> QED BY <1>1, <1>2, <1>4, Typed, Quietly DEF ReviewInv, ReviewTypeOK, VisitOK, Heads

LEMMA ExhaustedGivesUpKeeps == ASSUME ConvergenceAssumption, ReviewInv, ExhaustedGivesUp PROVE ReviewInv'
<1>1. /\ UNCHANGED <<head, touched, rounds, failed, archive, issues, hist>>
      /\ state' # "merged" /\ state' \in {state, "verifying", "waiting", "rebuilding", "parked", "needs_you"}
      /\ attempts' \in Nat /\ left' \in Nat
  BY DEF ExhaustedGivesUp, Exhausted, Normally, Unparked, Planned, Fixing, Undesigned, Refused, looked, Leave, Upset, ReviewInv, ReviewTypeOK, VisitOK
<1>2. /\ run' \in {run, NoRun} \/ (run' \in RunType /\ run'.role # "review")
      /\ binding' \in {binding, NoReview} /\ (binding' = NoReview => run'.role # "review")
      /\ visit' = NoVisit \/ (visit' = visit /\ visit.at = "idle")
  BY Typed DEF ExhaustedGivesUp, Exhausted, Normally, Unparked, Planned, Fixing, Undesigned, Refused, looked, Leave, Upset, ReviewInv, ReviewTypeOK, VisitOK, RunType, NoRun
<1>3. design' \in [Heads -> DesignType] /\ once' \in OnceType
  <2>1. design' \in [Heads -> DesignType]
    BY DEF ExhaustedGivesUp, ReviewInv, ReviewTypeOK, VisitOK
  <2>2. once' \in OnceType
    BY OnceKept DEF ExhaustedGivesUp, Exhausted, Normally, Unparked, Planned, Fixing, Undesigned, Refused, looked, Leave, Upset, ReviewInv, ReviewTypeOK, VisitOK
  <2> QED BY <2>1, <2>2
<1>4. ReviewTypeOK'
  BY <1>1, <1>2, <1>3, Typed DEF ReviewInv, ReviewTypeOK
<1> QED BY <1>1, <1>2, <1>4, Typed, Quietly DEF ReviewInv, ReviewTypeOK, VisitOK, Heads

LEMMA OwnerGoesKeeps == ASSUME ConvergenceAssumption, ReviewInv, OwnerGoes PROVE ReviewInv'
<1>1. /\ UNCHANGED <<head, touched, rounds, failed, archive, issues, hist>>
      /\ state' # "merged" /\ state' \in {state, "verifying", "waiting", "rebuilding", "parked", "needs_you"}
      /\ attempts' \in Nat /\ left' \in Nat
  BY DEF OwnerGoes, Upset, ReviewInv, ReviewTypeOK, VisitOK
<1>2. /\ run' \in {run, NoRun} \/ (run' \in RunType /\ run'.role # "review")
      /\ binding' \in {binding, NoReview} /\ (binding' = NoReview => run'.role # "review")
      /\ visit' = NoVisit \/ (visit' = visit /\ visit.at = "idle")
  BY Typed DEF OwnerGoes, Upset, ReviewInv, ReviewTypeOK, VisitOK, RunType, NoRun
<1>3. design' \in [Heads -> DesignType] /\ once' \in OnceType
  <2>1. design' \in [Heads -> DesignType]
    BY DEF OwnerGoes, ReviewInv, ReviewTypeOK, VisitOK
  <2>2. once' \in OnceType
    <3>1. once \in OnceType /\ NoCycle \in CycleType
      BY OnceKept DEF NoCycle, CycleType
    <3>2. [once EXCEPT !.cycle = NoCycle] \in OnceType
      BY <3>1 DEF OnceType
    <3> QED BY <3>2 DEF OwnerGoes
  <2> QED BY <2>1, <2>2
<1>4. ReviewTypeOK'
  BY <1>1, <1>2, <1>3, Typed DEF ReviewInv, ReviewTypeOK
<1> QED BY <1>1, <1>2, <1>4, Typed, Quietly DEF ReviewInv, ReviewTypeOK, VisitOK, Heads

LEMMA FollowUpsKeeps == ASSUME ConvergenceAssumption, ReviewInv, FollowUps PROVE ReviewInv'
<1>1. /\ UNCHANGED <<head, touched, rounds, failed, archive, issues, hist>>
      /\ state' # "merged" /\ state' \in {state, "verifying", "waiting", "rebuilding", "parked", "needs_you"}
      /\ attempts' \in Nat /\ left' \in Nat
  BY DEF FollowUps, ReviewInv, ReviewTypeOK, VisitOK
<1>2. UNCHANGED <<run, binding, visit>> /\ visit.at = "idle"
  BY DEF FollowUps, ReviewInv, VisitOK
<1>3. design' \in [Heads -> DesignType] /\ once' \in OnceType
  BY DEF FollowUps, ReviewInv, ReviewTypeOK, VisitOK, DesignType, OnceType
<1>4. ReviewTypeOK'
  BY <1>1, <1>2, <1>3, Typed DEF ReviewInv, ReviewTypeOK
<1> QED BY <1>1, <1>2, <1>4, Typed, Quietly DEF ReviewInv, ReviewTypeOK, VisitOK, Heads

LEMMA StartsReviewKeeps == ASSUME ConvergenceAssumption, ReviewInv, StartsReview PROVE ReviewInv'
<1>1. /\ UNCHANGED <<state, attempts, head, touched, rounds, failed, archive, design, once, issues, visit, left, hist>>
      /\ visit.at = "idle" /\ state = "verifying" /\ head \in Heads /\ hist.runs + 1 \in Nat
  BY DEF StartsReview, Rests, ReviewInv, ReviewTypeOK
<1>2. /\ run' = [role |-> "review", id |-> hist.runs + 1]
      /\ binding' = [head |-> head, id |-> hist.runs + 1, verdict |-> "none", findings |-> {}]
  BY DEF StartsReview, NoReview
<1>3. run' \in RunType /\ binding' \in BindingType
  BY <1>1, <1>2 DEF RunType, BindingType
<1>4. ReviewTypeOK'
  BY <1>1, <1>3 DEF ReviewInv, ReviewTypeOK
<1> QED BY <1>1, <1>2, <1>4, Quietly DEF Heads

LEMMA PushKeeps == ASSUME ConvergenceAssumption, ReviewInv, Push PROVE ReviewInv'
<1>1. /\ UNCHANGED <<state, attempts, touched, run, record, issues, visit, hist>>
      /\ head' = head + 1 /\ head' \in Heads /\ head \in Nat /\ left' \in Nat
  BY DEF Push, Upset, ReviewInv, ReviewTypeOK, Heads, ConvergenceAssumption
<1>2. ReviewTypeOK'
  BY <1>1 DEF record, ReviewInv, ReviewTypeOK
<1>3. (VisitOK /\ VerdictOK /\ LookedOK /\ BasisOK)'
  <2>1. VisitOK' /\ BasisOK'
    BY <1>1 DEF record, ReviewInv, VisitOK, BasisOK
  <2>2. \A f : Archived(f) => Archived(f)'
    BY <1>1 DEF record, Archived, RecordOf
  <2>3. VerdictOK'
    BY <1>1 DEF record, ReviewInv, VerdictOK, RecordOf
  <2>4. LookedOK'
    BY <1>1, <2>2 DEF record, ReviewInv, LookedOK
  <2> QED BY <2>1, <2>3, <2>4
<1>5. (RowsOK /\ BlockersAccounted /\ FollowUpFiledOnce /\ RoundsAreHeads)'
  BY <1>1 DEF record, ReviewInv, RowsOK, Marker, BlockersAccounted, FollowUpFiledOnce,
     RoundsAreHeads, RecordOf
<1>4. RoundsOK'
  <2>1. \A i \in DOMAIN rounds : rounds[i].head \in Nat
    <3>1. \A i \in DOMAIN rounds : rounds[i] \in RoundType
      BY DEF ReviewInv, ReviewTypeOK
    <3> QED BY <3>1 DEF RoundType, Heads
  <2> QED BY <1>1, <2>1 DEF record, ReviewInv, RoundsOK
<1> QED BY <1>2, <1>3, <1>4, <1>5 DEF ReviewInv

LEMMA FixEndsKeeps == ASSUME ConvergenceAssumption, ReviewInv, FixEnds PROVE ReviewInv'
<1>1. /\ UNCHANGED <<binding, rounds, failed, archive, design, issues, visit, hist>>
      /\ run' = NoRun /\ run.role \in {"fix", "build"}
  BY DEF FixEnds
<1>2. head \in Heads /\ touched \in [Heads -> SUBSET Places] /\ attempts \in Nat /\ left \in Nat
  BY DEF ReviewInv, ReviewTypeOK
<1>3. head' \in Heads /\ head' >= head /\ touched' \in [Heads -> SUBSET Places]
  <2>1. CASE SameHead
    BY <1>2, <2>1 DEF SameHead, Heads
  <2>2. CASE Finishes /\ ~SameHead
    BY <1>2, <2>2 DEF Finishes, Heads, ConvergenceAssumption
  <2> QED BY <2>1, <2>2 DEF FixEnds, Finishes, CutShort, HandsOn, Fails, Stuck
<1>4. /\ state' \in {"verifying", "ready", "failed", "needs_you", "parked"}
      /\ attempts' \in Nat /\ left' \in Nat
  BY <1>2 DEF FixEnds, Finishes, CutShort, HandsOn, Fails, Stuck, Upset
<1>5. once' \in OnceType
  <2>1. \E how \in {"none", "done", "ended", "cut"} : once' = [once EXCEPT !.fixed = how]
    BY DEF FixEnds, Finishes, CutShort, HandsOn, Fails, Stuck
  <2> QED BY <2>1, OnceKept
<1>6. visit.at = "idle"
  BY <1>1 DEF ReviewInv, VisitOK
<1>7. ReviewTypeOK'
  BY <1>1, <1>3, <1>4, <1>5, Typed DEF ReviewInv, ReviewTypeOK
<1> QED BY <1>1, <1>3, <1>4, <1>6, <1>7, Typed, Quietly DEF ReviewInv, VisitOK

LEMMA StartsBuildKeeps == ASSUME ConvergenceAssumption, ReviewInv, StartsBuild PROVE ReviewInv'
<1>1. /\ UNCHANGED <<state, attempts, head, touched, binding, rounds, failed, archive, design, once,
                     issues, visit, left, hist>>
      /\ run' = [NoRun EXCEPT !.role = "build"] /\ state = "ready"
  BY DEF StartsBuild, record
<1>2. run' \in RunType /\ run'.role # "review" /\ visit.at = "idle" /\ head \in Heads
  BY <1>1 DEF NoRun, RunType, ReviewInv, ReviewTypeOK, VisitOK
<1>3. ReviewTypeOK'
  BY <1>1, <1>2 DEF ReviewInv, ReviewTypeOK
<1> QED BY <1>1, <1>2, <1>3, Quietly DEF Heads

(* A review that ends without a verdict.                                      *)
LEMMA UndecidedKeeps ==
  ASSUME ConvergenceAssumption, ReviewInv, ReviewEnds, Inconclusive \/ ReviewerAsks
  PROVE  ReviewInv'
<1>1. /\ UNCHANGED <<attempts, head, touched, rounds, failed, archive, design, issues, visit, hist>>
      /\ run' = NoRun /\ binding' \in {binding, NoReview} /\ visit.at = "idle"
      /\ head \in Heads /\ binding.head \in Heads
  BY DEF ReviewEnds, Inconclusive, ReviewerAsks, Undecided, ReviewInv, ReviewTypeOK, VisitOK
<1>2. state' \in {state, "waiting", "needs_you"} /\ state # "merged" /\ left' \in Nat
  BY DEF ReviewEnds, Inconclusive, ReviewerAsks, Upset, ReviewInv, ReviewTypeOK, VisitOK
<1>3. once' \in OnceType
  <2>1. once \in OnceType /\ once.seen \in [Heads -> Nat]
    BY OnceKept DEF OnceType
  <2>2. \A n \in Nat : [once.seen EXCEPT ![binding.head] = n] \in [Heads -> Nat]
    BY <2>1
  <2>3. \A f \in [Heads -> Nat] : [once EXCEPT !.seen = f] \in OnceType
    BY <2>1 DEF OnceType
  <2>4. once.seen[binding.head] + 1 \in Nat /\ InconclusiveCap + 1 \in Nat
    BY <1>1, <2>1 DEF ConvergenceAssumption
  <2>5. \/ once' = once
        \/ \E n \in Nat : once' = [once EXCEPT !.seen = [once.seen EXCEPT ![binding.head] = n]]
    BY <2>4 DEF Inconclusive, ReviewerAsks
  <2> QED BY <2>1, <2>2, <2>3, <2>5
<1>4. ReviewTypeOK'
  BY <1>1, <1>2, <1>3, Typed DEF ReviewInv, ReviewTypeOK
<1> QED BY <1>1, <1>2, <1>4, Typed, Quietly DEF Heads

(* A verdict: its findings go to the archive, those filed may leave it.        *)
LEMMA DecidesKeeps == ASSUME ConvergenceAssumption, ReviewInv, ReviewEnds, Decides PROVE ReviewInv'
<1>1. PICK findings \in Reports(binding.head) :
        /\ binding' = [binding EXCEPT !.verdict = IF Blocking(findings) = {} THEN "pass" ELSE "fail",
                                      !.findings = findings]
        /\ archive' = Unfiled \cup {[id |-> <<"run", run.id>>, head |-> binding.head,
                                     rows |-> {Row(f, f.severity) : f \in findings}]}
        /\ failed' = IF (IF Blocking(findings) = {} THEN "pass" ELSE "fail") = "pass" THEN failed
                     ELSE Append(IF failed = <<>> THEN <<>> ELSE <<failed[Len(failed)]>>,
                                 [head |-> binding.head, findings |-> findings])
  BY DEF ReviewEnds, Decides
<1>2. /\ UNCHANGED <<state, attempts, head, touched, rounds, design, once, issues, visit, left>>
      /\ run' = NoRun /\ hist' = [hist EXCEPT !.runs = run.id, !.heads = @ \cup {binding.head}]
  BY DEF ReviewEnds, Decides
<1>3. /\ binding \in BindingType /\ binding.head \in Heads /\ run.id = binding.id /\ run.id \in Nat
      /\ visit.at = "idle" /\ state # "merged"
  BY DEF ReviewEnds, ReviewInv, ReviewTypeOK, VisitOK, RunType
<1>4. findings \in SUBSET Findings
  BY <1>3 DEF ConvergenceAssumption, Heads
<1>5. /\ binding' \in BindingType /\ binding'.head = binding.head /\ binding'.id = binding.id
      /\ binding'.findings = findings
  BY <1>1, <1>3, <1>4 DEF BindingType
<1>6. /\ hist' \in [runs : Nat, heads : SUBSET Heads, merged : VisitType]
      /\ hist'.heads = hist.heads \cup {binding.head}
  BY <1>2, <1>3 DEF ReviewInv, ReviewTypeOK
<1>7. failed' \in Seq(FailedType) /\ (Blocking(findings) # {} => failed' # <<>>) /\ (failed # <<>> => failed' # <<>>)
  <2>1. [head |-> binding.head, findings |-> findings] \in FailedType
    BY <1>3, <1>4 DEF FailedType
  <2>2. failed \in Seq(FailedType)
    BY DEF ReviewInv, ReviewTypeOK
  <2>3. (IF failed = <<>> THEN <<>> ELSE <<failed[Len(failed)]>>) \in Seq(FailedType)
    BY <2>2
  <2>4. CASE Blocking(findings) = {}
    BY <1>1, <2>2, <2>4
  <2>5. CASE Blocking(findings) # {}
    <3> DEFINE last == IF failed = <<>> THEN <<>> ELSE <<failed[Len(failed)]>>
               new == [head |-> binding.head, findings |-> findings]
    <3>1. failed' = Append(last, new)
      BY <1>1, <2>5
    <3> HIDE DEF last, new
    <3>2. last \in Seq(FailedType) /\ new \in FailedType
      BY <2>1, <2>3 DEF last, new
    <3>3. failed' \in Seq(FailedType) /\ Len(failed') = Len(last) + 1 /\ Len(last) \in Nat
      BY <3>1, <3>2
    <3>4. failed' # <<>>
      BY <3>3
    <3> QED BY <3>3, <3>4
  <2> QED BY <2>4, <2>5
<1> DEFINE rows == {Row(f, f.severity) : f \in findings}
           new == [id |-> <<"run", run.id>>, head |-> binding.head, rows |-> rows]
<1>8. /\ rows \in SUBSET RowType
      /\ \A row \in rows : ~row.url /\ ~row.linked /\ row.marked = row.effective
      /\ \A f \in findings : \E row \in rows : row.finding = f
  <2>1. \A f \in findings : /\ Row(f, f.severity) \in RowType /\ Row(f, f.severity).finding = f
                            /\ ~Row(f, f.severity).url /\ ~Row(f, f.severity).linked
                            /\ Row(f, f.severity).marked = Row(f, f.severity).effective
    BY <1>4 DEF Row, RowType, Findings
  <2> QED BY <2>1
<1>9. new \in RecType /\ new.id = <<"run", run.id>> /\ new.head = binding.head /\ new.rows = rows
  <2> HIDE DEF rows
  <2> QED BY <1>3, <1>8 DEF RecType
<1>10. archive' = Unfiled \cup {new} /\ Unfiled \subseteq archive
  BY <1>1 DEF Unfiled
<1> HIDE DEF new, rows
<1>11. ReviewTypeOK'
  BY <1>2, <1>5, <1>6, <1>7, <1>9, <1>10, Typed DEF ReviewInv, ReviewTypeOK
<1>12. VisitOK' /\ LookedOK' /\ BasisOK' /\ BlockersAccounted' /\ FollowUpFiledOnce'
  BY <1>2, <1>3, Typed DEF ReviewInv, VisitOK, LookedOK, BasisOK, BlockersAccounted,
     FollowUpFiledOnce
<1>13. VerdictOK'
  <2>1. new \in RecordOf(<<"run", binding.id>>)'
    BY <1>3, <1>5, <1>9, <1>10 DEF RecordOf
  <2>2. Blocking(binding.findings)' # {} => failed' # <<>>
    BY <1>5, <1>7 DEF Blocking
  <2> QED BY <1>5, <1>6, <1>8, <1>9, <2>1, <2>2 DEF VerdictOK
<1>14. RowsOK'
  <2>1. ASSUME NEW rec \in archive', NEW row \in rec.rows
        PROVE  (row.linked => row.url) /\ (row.url => Marker(row) \in DOMAIN issues)
    <3>1. CASE rec = new
      BY <1>8, <1>9, <2>1, <3>1
    <3>2. CASE rec # new
      BY <1>10, <2>1, <3>2 DEF ReviewInv, RowsOK
    <3> QED BY <3>1, <3>2
  <2> QED BY <1>2, <2>1 DEF RowsOK, Marker
<1>15. RoundsOK'
  BY <1>2, <1>6 DEF ReviewInv, RoundsOK
<1>16. RoundsAreHeads'
  <2>1. ASSUME NEW rec \in archive', NEW row \in rec.rows,
               row.finding.severity = "blocking", row.marked = "blocking", row.effective = "follow-up"
        PROVE  Cardinality({g \in hist'.heads : g <= rec.head}) >= Threshold
    <3> DEFINE before == {g \in hist.heads : g <= rec.head}
               after  == {g \in hist'.heads : g <= rec.head}
    <3>1. rec \in archive
      BY <1>8, <1>9, <1>10, <2>1
    <3>2. Cardinality(before) >= Threshold
      BY <2>1, <3>1 DEF ReviewInv, RoundsAreHeads
    <3>3. before \subseteq after /\ after \subseteq Heads
      BY <1>6
    <3>4. IsFiniteSet(Heads)
      <4>1. 1 \in Int /\ MaxHeads \in Int
        BY DEF ConvergenceAssumption
      <4> QED BY <4>1, FS_Interval DEF Heads
    <3> HIDE DEF before, after
    <3>5. Cardinality(before) \in Nat /\ Cardinality(after) \in Nat /\ Cardinality(before) <= Cardinality(after)
      BY <3>3, <3>4, FS_Subset, FS_CardinalityType
    <3>6. Cardinality(after) >= Threshold
      BY <3>2, <3>5 DEF ConvergenceAssumption
    <3> QED BY <3>6 DEF after
  <2> QED BY <2>1 DEF RoundsAreHeads
<1> QED BY <1>11, <1>12, <1>13, <1>14, <1>15, <1>16 DEF ReviewInv

------------------------------------------------------------------------------
(* The waivers.                                                               *)

LEMMA LastOfFailed ==
  ASSUME ReviewInv, Refused
  PROVE  LastFailed.findings \in SUBSET Findings /\ looked \in Heads
<1>1. failed \in Seq(FailedType) /\ failed # <<>> /\ looked \in Heads
  BY DEF Refused, looked, ReviewInv, ReviewTypeOK, VisitOK, LookedOK
<1>2. failed[Len(failed)] \in FailedType
  BY <1>1
<1> QED BY <1>1, <1>2 DEF LastFailed, FailedType

LEMMA OwnerWaivesKeeps == ASSUME ConvergenceAssumption, ReviewInv, OwnerWaives PROVE ReviewInv'
<1>1. /\ Refused /\ Waive("owner", Blocking(LastFailed.findings), "owner")
      /\ UNCHANGED <<state, attempts, head, touched, run, binding, rounds, failed, once, issues, hist>>
      /\ design' \in [Heads -> DesignType] /\ once' \in OnceType /\ left' \in Nat
  BY DEF OwnerWaives, ReviewInv, ReviewTypeOK
<1>2. Blocking(LastFailed.findings) \in SUBSET Findings
  BY <1>1, LastOfFailed DEF Blocking
<1> QED BY <1>1, <1>2, Waives

LEMMA DesignWaivesKeeps == ASSUME ConvergenceAssumption, ReviewInv, DesignWaives PROVE ReviewInv'
<1>1. /\ Refused /\ Waive("design", design[looked].findings, "waiver") /\ ~Protected(visit.blockers)
      /\ UNCHANGED <<state, attempts, head, touched, run, binding, rounds, failed, once, issues, hist>>
      /\ design' \in [Heads -> DesignType] /\ once' \in OnceType /\ left' \in Nat
      /\ design \in [Heads -> DesignType]
  BY DEF DesignWaives, Waivable, ReviewInv, ReviewTypeOK
<1>2. design[looked].findings \in SUBSET Findings
  BY <1>1, LastOfFailed DEF DesignType
<1> QED BY <1>1, <1>2, Waives

LEMMA ExhaustedWaivesKeeps == ASSUME ConvergenceAssumption, ReviewInv, ExhaustedWaives PROVE ReviewInv'
<1> DEFINE d == [disposition |-> "followups", findings |-> Blocking(LastFailed.findings), consumed |-> FALSE]
<1>1. /\ Refused /\ Waive("exhausted", d.findings, "waiver") /\ ~Protected(visit.blockers)
      /\ UNCHANGED <<state, attempts, head, touched, run, binding, rounds, failed, issues, hist>>
      /\ design' = [design EXCEPT ![looked] = d] /\ left' \in Nat /\ design \in [Heads -> DesignType]
      /\ once' = Opened
  BY DEF ExhaustedWaives, Exhausted, Normally, Unparked, Planned, Fixing, Undesigned, Upset, Waivable,
     ReviewInv, ReviewTypeOK
<1>2. d.findings \in SUBSET Findings
  BY <1>1, LastOfFailed DEF Blocking
<1>3. d \in DesignType
  BY <1>2 DEF DesignType
<1> HIDE DEF d
<1>4. design' \in [Heads -> DesignType] /\ once' \in OnceType
  BY <1>1, <1>3, LastOfFailed, OnceKept
<1> QED BY <1>1, <1>2, <1>4, Waives

------------------------------------------------------------------------------
LEMMA ReviewNextKeeps == ASSUME ConvergenceAssumption, ReviewInv, [ReviewNext]_reviewVars PROVE ReviewInv'
<1>1. CASE Visits
  BY <1>1, JudgeKeeps, StartsReviewKeeps, FilesKeeps, LinksKeeps, MergesKeeps, OwnerWaivesKeeps,
     DesignWaivesKeeps, StartsDesignKeeps, StartsPlannedFixKeeps, ParksKeeps, ReReviewsKeeps,
     SecondOpinionKeeps, StartsFixKeeps, StartsBuildKeeps, ExhaustedWaivesKeeps,
     ExhaustedGivesUpKeeps DEF Visits
<1>2. CASE Runs
  <2>1. CASE ReviewEnds
    BY <2>1, DecidesKeeps, UndecidedKeeps DEF ReviewEnds
  <2> QED BY <1>2, <2>1, DesignEndsKeeps, FixEndsKeeps DEF Runs
<1>3. CASE FilingFails \/ MergeWaits \/ RunWaits \/ Wakes \/ Push \/ OwnerGoes \/ FollowUps
  BY <1>3, FilingFailsKeeps, MergeWaitsKeeps, RunWaitsKeeps, WakesKeeps, PushKeeps, OwnerGoesKeeps,
     FollowUpsKeeps
<1>4. CASE UNCHANGED reviewVars
  <2>1. UNCHANGED <<state, attempts, head, touched, run, binding, rounds, failed, archive, design, once,
                    issues, visit, left, hist>>
    BY <1>4 DEF reviewVars, record
  <2>2. ReviewTypeOK'
    BY <2>1 DEF ReviewInv, ReviewTypeOK
  <2>3. (VisitOK /\ VerdictOK /\ LookedOK /\ BasisOK)'
    <3>1. VisitOK' /\ BasisOK'
      BY <2>1 DEF record, ReviewInv, VisitOK, BasisOK
    <3>2. \A f : Archived(f) => Archived(f)'
      BY <2>1 DEF record, Archived, RecordOf
    <3>3. VerdictOK'
      BY <2>1 DEF record, ReviewInv, VerdictOK, RecordOf
    <3>4. LookedOK'
      BY <2>1, <3>2 DEF record, ReviewInv, LookedOK
    <3> QED BY <3>1, <3>3, <3>4
  <2>4. (RowsOK /\ RoundsOK /\ BlockersAccounted /\ FollowUpFiledOnce /\ RoundsAreHeads)'
    BY <2>1 DEF ReviewInv, RowsOK, RoundsOK, Marker, BlockersAccounted, FollowUpFiledOnce,
       RoundsAreHeads, RecordOf
  <2> QED BY <2>2, <2>3, <2>4 DEF ReviewInv
<1> QED BY <1>1, <1>2, <1>3, <1>4 DEF ReviewNext

(* The invariant of the review rounds.                                        *)
THEOREM ReviewInvariance == ASSUME ConvergenceAssumption PROVE ReviewSpec => []ReviewInv
<1>1. ReviewInit => ReviewInv
  BY ReviewInitHolds
<1>2. ReviewInv /\ [ReviewNext]_reviewVars => ReviewInv'
  BY ReviewNextKeeps
<1> QED BY <1>1, <1>2, PTL DEF ReviewSpec

(* However often a review, a fix or filing is cut off and done again: no blocker *)
(* of the verdict merged on is lost, a finding has one issue, and it takes as    *)
(* many heads with a verdict as the policy says before one is demoted           *)
(* (review.py's effective_dispositions, ship.py's gate and file_followups).     *)
THEOREM ReviewsDemoteSoundly ==
  ASSUME ConvergenceAssumption PROVE ReviewSpec => []DemotionsAreSound
<1>1. ReviewInv => DemotionsAreSound
  BY DEF ReviewInv, DemotionsAreSound
<1> QED BY <1>1, ReviewInvariance, PTL

------------------------------------------------------------------------------
(* Claims. A review belongs to the claim and the base it was started for; what  *)
(* goes on between two steps of advance cannot change that under its lease.    *)
ClaimPhases == {"none", "waiting", "reviewing", "verdict", "rejected", "owner", "done", "exhausted"}
RecordType ==
  [phase : ClaimPhases, claim : Nat, base : Nat, run : Nat, epoch : Nat,
   verdict : {"none", "pass", "fail"}, asks : BOOLEAN, inconclusive : Nat]
ReviewerType == [id : Nat, base : Nat, claim : Nat, epoch : Nat]

ClaimsTypes ==
  /\ tip \in Nat \ {0} /\ sha \in Nat /\ epoch \in Nat /\ mine \in Nat
  /\ runs \in Nat /\ claims \in Nat
  /\ entry \in RecordType /\ reviewer \in ReviewerType

(* Epochs and runs are given out in order.                                     *)
GivenInOrder == mine <= epoch /\ entry.run <= runs /\ reviewer.id <= runs

(* While advance decides, no review runs; as long as its lease is the newest    *)
(* the item is where it took it. Once it has started a run, the lease is the   *)
(* run's.                                                                      *)
Between == pc \notin {"idle", "bind"}
Undisturbed ==
  /\ Between => reviewer.id = 0
  /\ Between /\ epoch = mine => claimed = "verifying" /\ holder = "conductor"
  /\ pc = "bind" => reviewer.id # 0 /\ reviewer.base = sha
  /\ pc = "bind" /\ epoch = mine =>
       claimed = "verifying" /\ holder = "run" /\ reviewer.claim = entry.claim

(* It decides on a verdict, and closes on a pass.                              *)
Decided ==
  /\ pc \in {"practices", "comment", "recheck", "close", "settle"} /\ epoch = mine =>
       entry.phase = "verdict"
  /\ pc \in {"practices", "close", "settle"} /\ epoch = mine => entry.verdict = "pass"

(* The run a record waits for reviews this claim, at this base.                 *)
ReviewIsOurs ==
  reviewer.id # 0 /\ entry.run = reviewer.id /\ entry.phase = "reviewing" =>
    entry.claim = reviewer.claim /\ entry.base = reviewer.base

PassOfThis(rs) ==
  \E r \in rs : r.run = entry.run /\ r.claim = entry.claim /\ r.base = entry.base /\ r.pass
VerdictIsReviewed == entry.phase = "verdict" /\ entry.verdict = "pass" => PassOfThis(reviews)

ClaimsInv ==
  /\ ClaimsTypes /\ GivenInOrder /\ Undisturbed /\ Decided /\ ReviewIsOurs /\ VerdictIsReviewed
  /\ ReviewCommentedOnce

------------------------------------------------------------------------------
LEMMA InitClaimsInv == ClaimsInit => ClaimsInv
BY DEF ClaimsInit, Unclaimed, NoReviewer, ClaimsInv, ClaimsTypes, RecordType, ReviewerType,
       ClaimPhases, GivenInOrder, Undisturbed, Between, Decided, ReviewIsOurs, VerdictIsReviewed,
       ReviewCommentedOnce

(* What the helpers make of the record.                                       *)
LEMMA RecordEdits ==
  ASSUME entry \in RecordType
  PROVE  /\ \A p \in ClaimPhases : [entry EXCEPT !.phase = p] \in RecordType
         /\ _inconclusive(entry) \in RecordType
         /\ _inconclusive(entry).run = entry.run /\ _inconclusive(entry).phase = "waiting"
         /\ _inconclusive(entry).claim = entry.claim
         /\ [entry EXCEPT !.verdict = "fail"] \in RecordType
         /\ \A v \in {"pass", "fail"}, a \in BOOLEAN :
              [entry EXCEPT !.phase = "verdict", !.verdict = v, !.asks = a] \in RecordType
         /\ [entry EXCEPT !.phase = "waiting", !.inconclusive = 0, !.run = 0, !.epoch = 0]
              \in RecordType
<1> USE DEF RecordType, ClaimPhases
<1>1. \A p \in ClaimPhases : [entry EXCEPT !.phase = p] \in RecordType
  OBVIOUS
<1>2. /\ _inconclusive(entry).run = entry.run /\ _inconclusive(entry).phase = "waiting"
      /\ _inconclusive(entry).claim = entry.claim
  BY DEF _inconclusive
<1>3. _inconclusive(entry) \in RecordType
  <2>1. entry.inconclusive + 1 \in Nat
    OBVIOUS
  <2> QED BY <2>1 DEF _inconclusive
<1>4. [entry EXCEPT !.verdict = "fail"] \in RecordType
  OBVIOUS
<1>5. ASSUME NEW v \in {"pass", "fail"}, NEW a \in BOOLEAN
      PROVE  [entry EXCEPT !.phase = "verdict", !.verdict = v, !.asks = a] \in RecordType
  OBVIOUS
<1>6. [entry EXCEPT !.phase = "waiting", !.inconclusive = 0, !.run = 0, !.epoch = 0] \in RecordType
  OBVIOUS
<1> QED BY <1>1, <1>2, <1>3, <1>4, <1>5, <1>6

(* A look at the base leaves a verdict as it was, or takes it away.            *)
LEMMA RereadShape ==
  ASSUME entry \in RecordType, NEW b \in Nat
  PROVE  /\ Reread(b) \in RecordType /\ Reread(b).run \in {0, entry.run}
         /\ Reread(b).claim = entry.claim /\ Reread(b).phase # "reviewing"
         /\ Reread(b).phase = "verdict" => Reread(b) = entry
<1> DEFINE r == Rebased(entry, b)
<1>1. r \in RecordType /\ r.run \in {0, entry.run} /\ r.claim = entry.claim
      /\ (r = entry \/ r.phase = "waiting")
  BY DEF Rebased, RecordType, ClaimPhases
<1>2. Reread(b) = IF r.phase = "reviewing" THEN _inconclusive(r) ELSE r
  BY DEF Reread
<1> HIDE DEF r
<1>3. CASE r.phase = "reviewing"
  <2>1. r = entry /\ Reread(b) = _inconclusive(entry)
    BY <1>1, <1>2, <1>3
  <2> QED BY <2>1, RecordEdits
<1>4. CASE r.phase # "reviewing"
  <2>1. Reread(b) = r
    BY <1>2, <1>4
  <2> QED BY <1>1, <1>4, <2>1
<1> QED BY <1>3, <1>4

(* A step that leaves the record, the reviewer and the reviews alone: what it   *)
(* has to keep is about advance.                                               *)
LEMMA RecordUntouched ==
  ASSUME ClaimsInv, UNCHANGED <<entry, reviewer, reviews>>, runs' = runs
  PROVE  ReviewIsOurs' /\ VerdictIsReviewed'
BY DEF ClaimsInv, ReviewIsOurs, VerdictIsReviewed, PassOfThis

LEMMA ClaimsStep == ASSUME ClaimsInv, [ClaimsNext]_claimsVars PROVE ClaimsInv'
<1> USE DEF ClaimsInv, claimsVars, advancing
<1>0. /\ ClaimsTypes /\ GivenInOrder /\ Undisturbed /\ Decided /\ ReviewIsOurs /\ VerdictIsReviewed
      /\ ReviewCommentedOnce
  OBVIOUS
<1>1. CASE UNCHANGED claimsVars
  BY <1>0, <1>1 DEF ClaimsTypes, GivenInOrder, Undisturbed, Between, Decided, ReviewIsOurs,
     VerdictIsReviewed, PassOfThis, ReviewCommentedOnce
<1>2. ASSUME UNCHANGED <<entry, reviewer, reviews, comments, runs, claims>>,
             tip' \in Nat \ {0}, sha' \in Nat, epoch' \in Nat, mine' \in Nat, mine' <= epoch',
             Undisturbed', Decided'
      PROVE  ClaimsInv'
  BY <1>0, <1>2, RecordUntouched DEF ClaimsTypes, GivenInOrder, ReviewCommentedOnce
<1>3. CASE begin
  <2>1. PICK b \in {tip, tip - 1} \ {0} :
          entry' = [Unclaimed EXCEPT !.phase = "waiting", !.claim = claims + 1, !.base = b]
    BY <1>3 DEF begin
  <2>2. entry' \in RecordType /\ entry'.run = 0 /\ entry'.phase = "waiting"
    <3>1. claims + 1 \in Nat /\ b \in Nat
      BY <1>0, <2>1 DEF ClaimsTypes
    <3> QED BY <3>1, <2>1 DEF ClaimsTypes, RecordType, ClaimPhases, Unclaimed
  <2>3. ~(pc # "idle" /\ epoch = mine)
    BY <1>0, <1>3 DEF begin, Undisturbed, Between
  <2> QED BY <1>0, <1>3, <2>2, <2>3 DEF begin, ClaimsTypes, GivenInOrder, Undisturbed, Between, Decided,
             ReviewIsOurs, VerdictIsReviewed, ReviewCommentedOnce
<1>4. CASE Take
  BY <1>0, <1>2, <1>4 DEF Take, ClaimsTypes, GivenInOrder, Undisturbed, Between, Decided
<1>5. CASE HandsOver
  BY <1>0, <1>2, <1>5 DEF HandsOver, ClaimsTypes, GivenInOrder, Undisturbed, Between, Decided
<1>6. CASE fetched_base
  <2>1. CASE _owned
    <3>1. entry' = Reread(tip) /\ entry' \in RecordType /\ entry'.run \in {0, entry.run}
          /\ entry'.phase # "reviewing" /\ (entry'.phase = "verdict" => entry' = entry)
      BY <1>0, <1>6, <2>1, RereadShape DEF fetched_base, ClaimsTypes
    <3>2. /\ UNCHANGED <<tip, claimed, holder, epoch, reviewer, runs, claims, reviews, comments, mine>>
          /\ sha' = tip /\ pc = "fetch"
          /\ pc' = IF entry'.phase = "verdict"
                   THEN IF entry'.verdict = "pass" THEN "practices" ELSE "comment"
                   ELSE IF entry'.inconclusive > ReviewInconclusiveCap THEN "exhaust" ELSE "start"
      BY <1>6, <2>1 DEF fetched_base
    <3>3. ClaimsTypes' /\ GivenInOrder' /\ Undisturbed' /\ Decided' /\ ReviewIsOurs'
      BY <1>0, <3>1, <3>2 DEF ClaimsTypes, RecordType, GivenInOrder, Undisturbed, Between, Decided, ReviewIsOurs
    <3>4. VerdictIsReviewed' /\ ReviewCommentedOnce'
      BY <1>0, <3>1, <3>2 DEF VerdictIsReviewed, PassOfThis, ReviewCommentedOnce
    <3> QED BY <3>3, <3>4
  <2>2. CASE ~_owned
    BY <1>0, <1>2, <1>6, <2>2 DEF fetched_base, ClaimsTypes, GivenInOrder, Undisturbed, Between, Decided
  <2> QED BY <2>1, <2>2
<1>7. CASE Practices
  <2>1. CASE UNCHANGED entry
    BY <1>0, <1>2, <1>7, <2>1 DEF Practices, Goto, Stop, ClaimsTypes, GivenInOrder, Undisturbed,
       Between, Decided
  <2>2. CASE entry' # entry
    <3>1. /\ entry' \in RecordType /\ entry'.run = entry.run /\ entry'.phase \in {entry.phase, "waiting"}
          /\ entry'.verdict = "fail" \/ entry'.phase = "waiting"
          /\ (Goto("comment") /\ entry'.phase = entry.phase) \/ Stop
      BY <1>0, <1>7, <2>2, RecordEdits DEF Practices, ClaimsTypes, RecordType
    <3>2. pc = "practices" /\ UNCHANGED <<tip, claimed, holder, epoch, issue, reviewer, runs, claims, reviews, comments, news>>
      BY <1>7 DEF Practices
    <3>3. reviewer.id = 0
      BY <1>0, <3>2 DEF Undisturbed, Between
    <3>4. ClaimsTypes' /\ GivenInOrder' /\ ReviewIsOurs' /\ VerdictIsReviewed' /\ ReviewCommentedOnce'
      BY <1>0, <3>1, <3>2, <3>3 DEF Goto, Stop, ClaimsTypes, GivenInOrder, ReviewIsOurs,
         VerdictIsReviewed, ReviewCommentedOnce
    <3>5. Undisturbed' /\ Decided'
      BY <1>0, <3>1, <3>2 DEF Goto, Stop, Undisturbed, Between, Decided
    <3> QED BY <3>4, <3>5
  <2> QED BY <2>1, <2>2
<1>8. CASE PostsComment
  <2>1. /\ UNCHANGED <<tip, claimed, holder, epoch, issue, entry, reviewer, runs, claims, reviews, news>>
        /\ pc = "comment" /\ (Goto("recheck") \/ Stop)
    BY <1>8 DEF PostsComment
  <2>2. ReviewCommentedOnce'
    BY <1>0, <1>8 DEF PostsComment, Posted, ReviewCommentedOnce
  <2>3. ReviewIsOurs' /\ VerdictIsReviewed'
    BY <2>1, RecordUntouched
  <2> QED BY <1>0, <2>1, <2>2, <2>3 DEF Goto, Stop, ClaimsTypes, GivenInOrder, Undisturbed, Between, Decided
<1>9. CASE Recheck \/ Settle \/ Exhaust
  <2>1. \/ UNCHANGED entry
        \/ \E p \in {"rejected", "owner", "done", "exhausted"} : entry' = [entry EXCEPT !.phase = p]
    BY <1>9 DEF Recheck, Settle, Exhaust
  <2>2. /\ UNCHANGED <<tip, epoch, reviewer, runs, claims, reviews, comments>>
        /\ \/ Stop
           \/ /\ pc = "recheck" /\ Goto("close") /\ entry.verdict = "pass"
              /\ UNCHANGED <<entry, claimed, holder>>
        /\ Between
    BY <1>9 DEF Recheck, Settle, Exhaust, Release, Between
  <2>3. entry' \in RecordType /\ entry'.run = entry.run /\ (entry' = entry \/ entry'.phase \notin {"verdict", "reviewing"})
    BY <1>0, <2>1 DEF ClaimsTypes, RecordType, ClaimPhases
  <2>4. ClaimsTypes' /\ GivenInOrder'
    BY <1>0, <2>2, <2>3 DEF Goto, Stop, ClaimsTypes, GivenInOrder
  <2>5. Undisturbed' /\ Decided'
    BY <1>0, <2>2 DEF Goto, Stop, Undisturbed, Between, Decided
  <2>6. ReviewIsOurs' /\ VerdictIsReviewed' /\ ReviewCommentedOnce'
    BY <1>0, <2>2, <2>3 DEF ReviewIsOurs, VerdictIsReviewed, PassOfThis, ReviewCommentedOnce
  <2> QED BY <2>4, <2>5, <2>6
<1>10. CASE close_issue \/ NoReviewerYet
  BY <1>0, <1>2, <1>10 DEF close_issue, NoReviewerYet, Goto, Stop, ClaimsTypes, GivenInOrder, Undisturbed, Between, Decided
<1>11. CASE _wake_review_inconclusive
  <2>1. entry' \in RecordType /\ entry'.run \in {0, entry.run}
        /\ (entry' = entry \/ entry'.phase = "waiting")
    BY <1>0, <1>11, RecordEdits DEF _wake_review_inconclusive, ClaimsTypes, RecordType
  <2>2. ~(pc # "idle" /\ epoch = mine)
    BY <1>0, <1>11 DEF _wake_review_inconclusive, Undisturbed, Between
  <2>3. UNCHANGED <<tip, holder, epoch, issue, reviewer, runs, claims, advancing, reviews, comments>>
    BY <1>11 DEF _wake_review_inconclusive
  <2>4. ClaimsTypes' /\ GivenInOrder' /\ Undisturbed' /\ Decided'
    BY <1>0, <2>1, <2>2, <2>3 DEF ClaimsTypes, GivenInOrder, Undisturbed, Between, Decided
  <2> QED BY <1>0, <2>1, <2>3, <2>4 DEF ReviewIsOurs, VerdictIsReviewed, PassOfThis, ReviewCommentedOnce
<1>12. CASE start
  <2>1. CASE _owned
    <3>1. /\ reviewer' = [id |-> runs + 1, base |-> sha, claim |-> entry.claim, epoch |-> epoch + 1]
          /\ runs' = runs + 1 /\ epoch' = epoch + 1 /\ mine' = epoch + 1 /\ pc' = "bind" /\ holder' = "run"
          /\ UNCHANGED <<tip, claimed, entry, claims, reviews, comments, sha>> /\ pc = "start"
      BY <1>12, <2>1 DEF start
    <3>2. claimed = "verifying"
      BY <1>0, <2>1, <3>1 DEF Undisturbed, Between, _owned
    <3>3. reviewer' \in ReviewerType /\ entry.claim \in Nat /\ entry.run \in Nat
      BY <1>0, <3>1 DEF ClaimsTypes, RecordType, ReviewerType
    <3>4. ClaimsTypes' /\ GivenInOrder'
      BY <1>0, <3>1, <3>3 DEF ClaimsTypes, GivenInOrder
    <3>5. Undisturbed' /\ Decided' /\ ReviewIsOurs'
      BY <1>0, <3>1, <3>2, <3>3 DEF ClaimsTypes, GivenInOrder, Undisturbed, Between, Decided, ReviewIsOurs
    <3> QED BY <1>0, <3>1, <3>4, <3>5 DEF VerdictIsReviewed, PassOfThis, ReviewCommentedOnce
  <2>2. CASE ~_owned
    BY <1>0, <1>2, <1>12, <2>2 DEF start, Stop, ClaimsTypes, GivenInOrder, Undisturbed, Between, Decided
  <2> QED BY <2>1, <2>2
<1>13. CASE prepare
  <2>1. /\ pc = "bind" /\ Stop
        /\ UNCHANGED <<tip, claimed, epoch, issue, runs, claims, reviews, comments, news>>
    BY <1>13 DEF prepare
  <2>2. CASE entry.base = sha /\ holder = "run" /\ epoch = mine
    <3>1. entry' = [entry EXCEPT !.phase = "reviewing", !.run = reviewer.id, !.epoch = epoch]
          /\ UNCHANGED <<holder, reviewer>>
      BY <1>13, <2>2 DEF prepare
    <3>2. entry' \in RecordType /\ entry'.run = reviewer.id /\ entry'.phase = "reviewing"
          /\ entry'.claim = entry.claim /\ entry'.base = entry.base
      BY <1>0, <3>1 DEF ClaimsTypes, RecordType, ReviewerType, ClaimPhases
    <3> QED BY <1>0, <2>1, <2>2, <3>1, <3>2 DEF Stop, ClaimsTypes, GivenInOrder, Undisturbed, Between, Decided,
               ReviewIsOurs, VerdictIsReviewed, ReviewCommentedOnce
  <2>3. CASE ~(entry.base = sha /\ holder = "run" /\ epoch = mine)
    <3>1. reviewer' = NoReviewer /\ UNCHANGED entry
      BY <1>13, <2>3 DEF prepare
    <3>2. reviewer' \in ReviewerType /\ reviewer'.id = 0
      BY <3>1 DEF NoReviewer, ReviewerType
    <3> QED BY <1>0, <2>1, <3>1, <3>2 DEF Stop, ClaimsTypes, GivenInOrder, Undisturbed, Between, Decided,
               ReviewIsOurs, VerdictIsReviewed, PassOfThis, ReviewCommentedOnce
  <2> QED BY <2>2, <2>3
<1>14. CASE finish
  <2>1. pc = "idle" /\ reviewer.id # 0 /\ reviewer' = NoReviewer
        /\ UNCHANGED <<tip, epoch, issue, runs, claims, advancing, comments, news>>
    BY <1>0, <1>14 DEF finish, Undisturbed, Between
  <2>2. reviewer' \in ReviewerType /\ reviewer'.id = 0
    BY <2>1 DEF NoReviewer, ReviewerType
  <2> DEFINE ours == entry.run = reviewer.id /\ entry.epoch = reviewer.epoch /\ entry.phase = "reviewing"
             said(p) == [run |-> reviewer.id, claim |-> reviewer.claim, base |-> reviewer.base, pass |-> p]
  <2>3. PICK says \in {"pass", "fail", "none"}, asks \in BOOLEAN :
          IF Fenced THEN UNCHANGED <<entry, claimed, holder, reviews>>
          ELSE /\ entry' = IF ~ours THEN entry
                            ELSE IF says = "none" THEN _inconclusive(entry)
                            ELSE [entry EXCEPT !.phase = "verdict", !.verdict = says, !.asks = asks]
               /\ reviews' = IF says = "none" THEN reviews ELSE reviews \cup {said(says = "pass")}
    BY <1>14 DEF finish
  <2>4. entry' \in RecordType /\ entry'.run = entry.run
    <3>1. entry \in RecordType
      BY <1>0 DEF ClaimsTypes
    <3>2. CASE entry' = entry
      BY <3>1, <3>2
    <3>3. CASE entry' = _inconclusive(entry)
      BY <3>1, <3>3, RecordEdits
    <3>4. CASE /\ says \in {"pass", "fail"}
               /\ entry' = [entry EXCEPT !.phase = "verdict", !.verdict = says, !.asks = asks]
      <4>1. entry' \in RecordType
        BY <3>1, <3>4, RecordEdits
      <4>2. entry'.run = entry.run
        BY <3>1, <3>4 DEF RecordType
      <4> QED BY <4>1, <4>2
    <3> QED BY <2>3, <3>2, <3>3, <3>4
  <2>5. VerdictIsReviewed'
    <3>1. reviews \subseteq reviews'
      BY <2>3
    <3>2. CASE entry' = entry
      BY <1>0, <3>1, <3>2 DEF VerdictIsReviewed, PassOfThis
    <3>3. CASE entry' # entry
      <4>1. ours /\ ~Fenced
        BY <2>3, <3>3
      <4>2. CASE says = "none"
        BY <1>0, <2>3, <4>1, <4>2, RecordEdits DEF VerdictIsReviewed, ClaimsTypes
      <4>3. CASE says # "none"
        <5>1. entry' = [entry EXCEPT !.phase = "verdict", !.verdict = says, !.asks = asks]
              /\ said(says = "pass") \in reviews'
          BY <2>3, <4>1, <4>3
        <5>2. entry'.verdict = says /\ entry'.run = reviewer.id /\ entry'.claim = reviewer.claim
              /\ entry'.base = reviewer.base
          BY <1>0, <2>1, <4>1, <5>1 DEF ClaimsTypes, RecordType, ReviewIsOurs
        <5>3. ASSUME says = "pass" PROVE PassOfThis(reviews)'
          BY <5>1, <5>2, <5>3 DEF PassOfThis
        <5> QED BY <5>2, <5>3 DEF VerdictIsReviewed
      <4> QED BY <4>2, <4>3
    <3> QED BY <3>2, <3>3
  <2> QED BY <1>0, <2>1, <2>2, <2>4, <2>5 DEF ClaimsTypes, GivenInOrder, Undisturbed, Between, Decided,
             ReviewIsOurs, ReviewCommentedOnce
<1>15. CASE RunLost
  <2>1. pc = "idle" /\ reviewer' = NoReviewer
        /\ UNCHANGED <<tip, epoch, entry, runs, claims, advancing, reviews, comments>>
    BY <1>0, <1>15 DEF RunLost, Undisturbed, Between
  <2>2. reviewer' \in ReviewerType /\ reviewer'.id = 0
    BY <2>1 DEF NoReviewer, ReviewerType
  <2> QED BY <1>0, <2>1, <2>2 DEF ClaimsTypes, GivenInOrder, Undisturbed, Between, Decided,
             ReviewIsOurs, VerdictIsReviewed, PassOfThis, ReviewCommentedOnce
<1>16. CASE BaseMoves
  BY <1>0, <1>2, <1>16 DEF BaseMoves, ClaimsTypes, GivenInOrder, Undisturbed, Between, Decided
<1>17. CASE SessionClaims
  BY <1>0, <1>2, <1>17 DEF SessionClaims, ClaimsTypes, GivenInOrder, Undisturbed, Between, Decided
<1>18. CASE SessionWorks \/ SessionLeaves \/ OwnerAnswers
  BY <1>0, <1>2, <1>18 DEF SessionWorks, SessionLeaves, OwnerAnswers, Release, ClaimsTypes,
     GivenInOrder, Undisturbed, Between, Decided
<1>19. CASE ProcessDies
  <2>1. /\ Stop /\ UNCHANGED <<tip, epoch, entry, runs, claims, reviews, comments>>
        /\ reviewer' \in {reviewer, NoReviewer}
    BY <1>19 DEF ProcessDies
  <2>2. reviewer' \in ReviewerType /\ (reviewer' = reviewer \/ reviewer'.id = 0)
    BY <1>0, <2>1 DEF NoReviewer, ReviewerType, ClaimsTypes
  <2> QED BY <1>0, <2>1, <2>2 DEF Stop, ClaimsTypes, GivenInOrder, Undisturbed, Between, Decided,
             ReviewIsOurs, VerdictIsReviewed, PassOfThis, ReviewCommentedOnce
<1> QED BY <1>1, <1>3, <1>4, <1>5, <1>6, <1>7, <1>8, <1>9, <1>10, <1>11, <1>12, <1>13, <1>14, <1>15,
           <1>16, <1>17, <1>18, <1>19 DEF ClaimsNext, Advance

(* Every state of a claim keeps the memories of its lease, its run and its      *)
(* verdict apart from those of earlier ones.                                   *)
THEOREM ClaimsInvariance == ClaimsSpec => []ClaimsInv
<1> QED BY InitClaimsInv, ClaimsStep, PTL DEF ClaimsSpec

(* A claim is settled as done only on the pass of a review of this claim at the *)
(* base the record names, and a review is commented once, whatever moves, is    *)
(* lost or cut off meanwhile.                                                  *)
THEOREM DoneOnItsReview == ClaimsSpec => ClaimsAreReviewed
<1>1. ClaimsInv /\ [ClaimsNext]_claimsVars
        => [(claimed # "done" /\ claimed' = "done") =>
              \E r \in reviews : /\ r.run = entry.run /\ r.claim = entry.claim
                                 /\ r.base = entry.base /\ r.pass]_claimsVars
  <2> SUFFICES ASSUME ClaimsInv, ClaimsNext, claimed # "done", claimed' = "done"
               PROVE  PassOfThis(reviews)
    BY DEF PassOfThis
  <2>1. Settle /\ _owned
    BY DEF ClaimsNext, Advance, begin, Take, HandsOver, fetched_base, Practices, PostsComment, Recheck,
       close_issue, Settle, Exhaust, start, NoReviewerYet, prepare, _wake_review_inconclusive,
       finish, RunLost, BaseMoves, SessionClaims, SessionWorks, SessionLeaves, OwnerAnswers, ProcessDies
  <2>2. entry.phase = "verdict" /\ entry.verdict = "pass"
    BY <2>1 DEF Settle, _owned, ClaimsInv, Decided
  <2> QED BY <2>2 DEF ClaimsInv, VerdictIsReviewed
<1>2. ClaimsInv => ReviewCommentedOnce
  BY DEF ClaimsInv
<1>3. ClaimsSpec => DoneIsReviewed
  BY <1>1, ClaimsInvariance, PTL DEF ClaimsSpec, DoneIsReviewed
<1>4. ClaimsSpec => []ReviewCommentedOnce
  BY <1>2, ClaimsInvariance, PTL
<1> QED BY <1>3, <1>4 DEF ClaimsAreReviewed
==============================================================================
