---------------------------- MODULE MCReadings -----------------------------
(* What the program concludes from what it reads: which platform may take a     *)
(* run, from usage readings and holds (Router); how long items waited and for   *)
(* what, from what each tick saw (Capacity); whether a login's window may be    *)
(* opened by a paid turn (Warmup); whether a dependency change is clear, from   *)
(* two snapshots and the registry (Vetting); whether a branch is protected,     *)
(* from what GitHub lets it read (Protection). They share no state the          *)
(* properties tell apart, so one of them is explored at a time: part names it,  *)
(* and the others stay as they started.                                       *)
EXTENDS Router, Warmup, Vetting, Protection, Capacity, Integers, TLC

VARIABLES part

------------------------------------------------------------------------------
(* Four platforms of two accounts and three projects, one per account mode.    *)
Base == [kind |-> "other", account |-> "me", group |-> "g", slot |-> "s", enabled |-> TRUE,
         tier |-> 1, min |-> 1, max |-> 3, approval |-> FALSE, metered |-> TRUE, paid |-> FALSE,
         windows |-> {"5h"}, soft |-> 2, hard |-> 3, progressive |-> FALSE, managed |-> FALSE,
         login |-> FALSE, sort_model |-> "m", build_model |-> "m"]
FourPlatforms ==
  [claude |-> [Base EXCEPT !.kind = "claude", !.group = "c", !.slot = "c", !.tier = 3, !.paid = TRUE,
                           !.windows = {"5h", "weekly"}, !.progressive = TRUE,
                           !.sort_model = "big", !.build_model = "small"],
   codex |-> [Base EXCEPT !.kind = "codex", !.group = "x", !.slot = "x", !.tier = 2],
   cline |-> [Base EXCEPT !.metered = FALSE, !.group = "f", !.slot = "f", !.max = 1,
                          !.managed = TRUE, !.login = TRUE],
   work |-> [Base EXCEPT !.kind = "claude", !.account = "work", !.group = "w", !.slot = "w",
                         !.metered = FALSE, !.tier = 2, !.approval = FALSE]]
NoTable == [plan |-> <<"claude">>]
TwoPolicies ==
  [a |-> [accounts |-> <<"me">>, mode |-> "order", routing |-> NoTable, measured |-> TRUE, explore |-> TRUE],
   b |-> [accounts |-> <<"me", "work">>, mode |-> "equal", routing |-> NoTable, measured |-> FALSE,
          explore |-> TRUE],
   c |-> [accounts |-> <<"work", "me">>, mode |-> "priority", measured |-> FALSE, explore |-> FALSE,
          routing |-> [build |-> <<"work", "codex">>, plan |-> <<"claude">>]]]
BothRoutes ==
  [me |-> [build |-> <<"cline", "codex", "claude">>, plan |-> <<"claude", "codex">>,
           sort |-> <<"cline", "claude">>, review |-> <<"codex", "claude", "cline">>],
   work |-> [build |-> <<"work">>]]
Verdicts == [claude |-> [status |-> "good", cost |-> 3], codex |-> [status |-> "unproven", cost |-> 2],
             cline |-> [status |-> "below", cost |-> 1], work |-> [status |-> "unproven", cost |-> 4]]
Ask(j, role, pin, size, tier, busy, excl) ==
  [project |-> j, role |-> role, pin |-> pin, size |-> size, tier |-> tier, busy |-> busy, exclude |-> excl]
SomeRequests ==
  {Ask("a", "build", "none", 2, 2, {}, {}), Ask("a", "review", "none", 0, 0, {}, {"codex"}),
   Ask("a", "fix", "none", 2, 2, {"codex"}, {}), Ask("a", "sort", "none", 2, 0, {}, {}),
   Ask("a", "design", "none", 3, 0, {}, {}), Ask("b", "fix", "cline", 3, 2, {}, {}),
   Ask("b", "build", "none", 2, 0, {}, {}), Ask("c", "plan", "none", 0, 0, {}, {}),
   Ask("c", "build", "claude", 1, 0, {}, {})}
SomeReadings == {[pct |-> 0, left |-> 1], [pct |-> 2, left |-> 3], [pct |-> 4, left |-> 0]}

(* Who can take a wait of a cause: a tier, or nobody. *)
SomeTiers == [quota |-> {2}, deps |-> {}, paused |-> {}]

(* A directory declares the package directly or only locks it, or its text is   *)
(* compared and never parsed.                                                 *)
Empty == [declares |-> "absent", locks |-> [l \in {"a", "b"} |-> 0],
          pins |-> [l \in {"a", "b"} |-> NoPin], catalog |-> NoPin, manifest |-> 0,
          unsupported |-> 0]
Direct == {[Empty EXCEPT !.declares = d, !.locks = l] :
             d \in {"absent", "any", "==1", "==2"}, l \in [{"a", "b"} -> 0..2]}
Pinned(v, r) == [version |-> v, revision |-> r]
Pins == {NoFile, NoPin, Pinned(1, 1), Pinned(2, 1), Pinned(2, 2)}
Resolved == {[Empty EXCEPT !.pins = p, !.catalog = cm[1], !.manifest = cm[2]] :
               p \in [{"a", "b"} -> Pins],
               cm \in {<<NoPin, 0>>, <<NoPin, 1>>, <<Pinned(1, 0), 0>>, <<Pinned(2, 0), 0>>}}
SomeSnapshots == Direct \cup Resolved \cup {[Empty EXCEPT !.unsupported = 1]}
Clean == [published |-> TRUE, revision |-> 1, recent |-> FALSE, advisories |-> {}]
Evidence == {Clean, [Clean EXCEPT !.recent = TRUE], [Clean EXCEPT !.published = FALSE],
             [Clean EXCEPT !.advisories = {{"LOW", "MODERATE"}}],
             [Clean EXCEPT !.advisories = {{"LOW", "HIGH"}, {"NONE"}}],
             [Clean EXCEPT !.advisories = {{}}]}
SomeRegistries == {(1 :> Clean) @@ (2 :> e) : e \in Evidence}

OneDir == {"root"}
Specifiers == "absent" :> {} @@ "any" :> {1, 2} @@ "==1" :> {1} @@ "==2" :> {2}

SomeClassics ==
  {NoClassic, [NoClassic EXCEPT !.on = TRUE],
   [NoClassic EXCEPT !.on = TRUE, !.checks = TRUE, !.reviews = TRUE, !.test = TRUE]}
  \cup [on : {TRUE}, checks : {TRUE}, test : BOOLEAN, strict : BOOLEAN, admins : BOOLEAN,
        force : BOOLEAN, deletion : BOOLEAN, reviews : {FALSE}]
Blocking == {"non_fast_forward", "deletion"}
SomeRulesets ==
  {<<>>}
  \cup {<<Ruleset({"tests"} \cup Blocking, s, b)>> : s, b \in BOOLEAN}
  \cup {<<Ruleset(k, FALSE, b)>> :
          k \in {{"lint"}, Blocking, {"required_signatures"}}, b \in BOOLEAN}
  \cup {<<Ruleset({"tests"}, s, b), Ruleset(Blocking, FALSE, c)>> : s, b, c \in BOOLEAN}

(* TLC evaluates anew, at each use of a constant, the definition the          *)
(* configuration gives it: these only name values that it computes once.      *)
ThePlatforms == FourPlatforms
ThePolicies == TwoPolicies
TheRoutes == BothRoutes
TheVerdicts == Verdicts
TheRequests == SomeRequests
TheReadings == SomeReadings

ASSUME ReadingsAssumption ==
  RouterAssumption /\ CapacityAssumption /\ WarmupAssumption /\ VettingAssumption

------------------------------------------------------------------------------
readingsVars == <<part, routerVars, capacityVars, warmupVars, vettingVars, protectionVars>>

VettingStarts ==
  \/ part = "vetting" /\ VettingInit
  \/ /\ part # "vetting"
     /\ before = [d \in {"root"} |-> Empty] /\ after = before
     /\ registry = (1 :> Clean) @@ (2 :> Clean)
     /\ stage = "changed" /\ todo = {} /\ verdict = "none"

ProtectionStarts ==
  \/ part = "protection" /\ ProtectionInit
  \/ /\ part # "protection"
     /\ repo = [squash |-> "no", classic |-> NoClassic, rulesets |-> <<>>]
     /\ hidden = {} /\ jobs = [known |-> TRUE, ci_unknown |-> FALSE] /\ finding = "none"

ReadingsInit ==
  /\ part \in {"router", "capacity", "warmup", "vetting", "protection"}
  /\ asked = IF part = "router" THEN Asked ELSE {}
  /\ RouterInit /\ CapacityInit /\ WarmupInit
  /\ VettingStarts /\ ProtectionStarts

Routing ==
  part = "router" /\ UNCHANGED <<part, capacityVars, warmupVars, vettingVars, protectionVars>>
History ==
  part = "capacity" /\ UNCHANGED <<part, routerVars, warmupVars, vettingVars, protectionVars>>
Nudging ==
  part = "warmup" /\ UNCHANGED <<part, routerVars, capacityVars, vettingVars, protectionVars>>
Judging ==
  part = "vetting" /\ UNCHANGED <<part, routerVars, capacityVars, warmupVars, protectionVars>>
Auditing ==
  part = "protection" /\ UNCHANGED <<part, routerVars, capacityVars, warmupVars, vettingVars>>

ReadingsNext ==
  \/ Routing /\ RouterNext
  \/ History /\ CapacityNext
  \/ Nudging /\ WarmupNext
  \/ Judging /\ VettingNext
  \/ Auditing /\ ProtectionNext

ReadingsSpec == ReadingsInit /\ [][ReadingsNext]_readingsVars
============================================================================
