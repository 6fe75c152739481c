------------------------------ MODULE Protection ------------------------------
(* The branch-protection check of the practices audit (practices_audit.py):    *)
(* from what GitHub lets the audit read of a repository's merge settings, its  *)
(* classic protection and its rulesets, to the finding pass, gap or unknown.   *)
(* What is really set and what can be read are apart: a reading may be denied. *)
EXTENDS Naturals, FiniteSets, Sequences

CONSTANTS Classics,  \* classic protections to look at, NoClassic among them
          Rulesets   \* sequences of the rulesets to look at

VARIABLES repo,      \* how the repository is really set up
          hidden,    \* what the audit is not allowed to read
          jobs,      \* the PR's test jobs are known; ci_unknown: there may be others
          finding    \* the audit's finding, "none" before it

protectionVars == <<repo, hidden, jobs, finding>>

NoClassic == [on |-> FALSE, checks |-> FALSE, test |-> FALSE, strict |-> FALSE,
              admins |-> FALSE, force |-> FALSE, deletion |-> FALSE, reviews |-> FALSE]

(* checks: some check is required; test: a PR test job is.                    *)
(* strict: "up to date before merging"; force, deletion: what is blocked;      *)
(* bypass: the ruleset names somebody who may bypass it.                       *)
Ruleset(kinds, strict, bypass) == [kinds |-> kinds, strict |-> strict, bypass |-> bypass]

------------------------------------------------------------------------------
(* Three-valued votes. *)

(* _flag *)
_flag(value, readable) ==
  IF ~readable THEN "unknown" ELSE IF value THEN "safe" ELSE "unsafe"

(* Every part of one provider has to be safe. *)
_all(votes) ==
  IF "unsafe" \in votes THEN "unsafe"
  ELSE IF votes = {"safe"} THEN "safe" ELSE "unknown"

(* Mutant: a provider nothing is known of does not count against the others.  *)
_alternative_Optimistic(votes) == IF "unsafe" \in votes THEN "unsafe" ELSE "safe"

(* One provider is enough. *)
_alternative(votes) ==
  IF "safe" \in votes THEN "safe"
  ELSE IF "unsafe" \in votes THEN "unsafe" ELSE "unknown"

------------------------------------------------------------------------------
Sets == DOMAIN repo.rulesets
Supplies(r, kind) == kind \in repo.rulesets[r].kinds

(* The effective rules leave out who may bypass them, so the ruleset is read. *)
_ruleset_unbypassable(r) == _flag(~repo.rulesets[r].bypass, "bypass" \notin hidden)

(* Classic protection answers 404 where there is none, and is then empty.     *)
Admins == _flag(repo.classic.admins, repo.classic.on /\ "admins" \notin hidden)

ClassicVote(value) == _all({_flag(value, repo.classic.on), Admins})

(* A gate is one provider that requires a PR test job.                        *)
Gate ==
  _alternative(
    (IF repo.classic.test THEN {ClassicVote(repo.classic.strict)} ELSE {})
    \cup {_all({_flag(repo.rulesets[r].strict, TRUE), _ruleset_unbypassable(r)}) :
            r \in {r \in Sets : Supplies(r, "tests")}})

Safeguard(classic, kind) ==
  _alternative({ClassicVote(classic)}
               \cup {_ruleset_unbypassable(r) : r \in {r \in Sets : Supplies(r, kind)}})

_hardening ==
  {Gate, Safeguard(repo.classic.force, "non_fast_forward"),
   Safeguard(repo.classic.deletion, "deletion")}

(* Some check, and a PR test job, is among the required ones.                 *)
Contexts == repo.classic.checks \/ \E r \in Sets : repo.rulesets[r].kinds \cap {"tests", "lint"} # {}
Gated == repo.classic.test \/ \E r \in Sets : Supplies(r, "tests")

_protection ==
  IF "settings" \in hidden \/ (~repo.classic.on /\ Sets = {}) THEN "unknown"
  ELSE IF repo.squash = "no" \/ ~Contexts THEN "gap"
  ELSE IF repo.squash = "unknown" \/ ~jobs.known \/ (jobs.ci_unknown /\ ~Gated) THEN "unknown"
  ELSE IF ~Gated \/ "unsafe" \in _hardening THEN "gap"
  ELSE IF "unknown" \in _hardening
          \/ repo.classic.reviews
          \/ \E r \in Sets : Supplies(r, "required_signatures") THEN "unknown"
  ELSE "pass"

ProtectionInit ==
  /\ repo \in [squash : {"yes", "no", "unknown"}, classic : Classics, rulesets : Rulesets]
  /\ hidden \in SUBSET {"settings", "admins", "bypass"}
  /\ jobs \in [known : BOOLEAN, ci_unknown : BOOLEAN]
  /\ ~jobs.known => ~Gated
  /\ finding = "none"

Audit ==
  /\ finding = "none"
  /\ finding' = _protection
  /\ UNCHANGED <<repo, hidden, jobs>>

ProtectionNext == Audit

ProtectionSpec == ProtectionInit /\ [][ProtectionNext]_protectionVars

------------------------------------------------------------------------------
(* Who may do what, by GitHub's own rules: what one provider blocks, another   *)
(* cannot allow; classic protection spares the administrators unless told not *)
(* to, and a ruleset those it names.                                          *)
Actors == [admin : BOOLEAN, named : BOOLEAN]

HeldByClassic(a) == repo.classic.on /\ (a.admin => repo.classic.admins)
HeldBy(r, a) == a.named => ~repo.rulesets[r].bypass

May(a, classic, kind) ==
  /\ ~(HeldByClassic(a) /\ classic)
  /\ \A r \in Sets : Supplies(r, kind) => ~HeldBy(r, a)

MaySkipTests(a) == May(a, repo.classic.test, "tests")

(* A merge of a branch that is behind its base was never tested as merged.    *)
MayMergeStale(a) ==
  /\ ~(HeldByClassic(a) /\ repo.classic.test /\ repo.classic.strict)
  /\ \A r \in Sets : Supplies(r, "tests") /\ repo.rulesets[r].strict => ~HeldBy(r, a)

(* A pass is never given on a guess: nobody, whoever he is, can then put an    *)
(* untested state on the default branch, rewrite it or delete it, however the *)
(* safeguards are spread over classic protection and rulesets and whatever of *)
(* them the audit could not read (_hardening, _alternative).                  *)
PassMeansProtected ==
  finding = "pass" =>
    \A a \in Actors :
      /\ ~MaySkipTests(a) /\ ~MayMergeStale(a)
      /\ ~May(a, repo.classic.force, "non_fast_forward")
      /\ ~May(a, repo.classic.deletion, "deletion")
=============================================================================
