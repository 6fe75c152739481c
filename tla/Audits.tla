-------------------------------- MODULE Audits --------------------------------
(* The passes Mahler files about its own upkeep, one project: the maintenance   *)
(* passes (tick.py queue_maintenance), the platform audit and the practices     *)
(* audit with its report and proposals. Issues are filed on GitHub, checkpoints *)
(* are kept in the ledger, and the ledger sees an issue only after a sync.      *)
EXTENDS Integers, Sequences, FiniteSets

CONSTANTS Maintenance,   \* the configured passes, in order; "escapes" reviews an interval
          Checks,        \* what the practices audit looks at
          Cadence, Cooldown, Threshold,
          MaxDate, MaxMerges, MaxMoves  \* bounds

(* no configured pass has the name of the practices audit                       *)
AuditsAssumption ==
  /\ Maintenance \in Seq(STRING) /\ \A i \in DOMAIN Maintenance : Maintenance[i] # "practices"
  /\ {Cadence, Cooldown, Threshold, MaxDate, MaxMerges, MaxMoves} \subseteq Nat

VARIABLES date,
          issues,      \* GitHub: filed passes [pass, id, open, since, from, to]; since: closed on
          books,      \* ids of the issues the ledger knows, with their state as of the last sync
          filedAt, merged,  \* checkpoints: day of the last filing, merges since
          walk, at, now, noted,  \* the tick: step, index of the pass, its time, passes_filed
          marker, url,  \* kv of the practices audit under way
          audits,      \* report markers given out
          gap,         \* the checks that do not pass
          proposals,   \* GitHub: [check, copy, open]
          rest, errors,  \* file_audit: checks to go, whether one failed
          upset,       \* history: a sync failed or an answer was lost
          merges, moves

auditVars == <<date, issues, books, filedAt, merged, walk, at, now, noted, marker, url, audits, gap,
          proposals, rest, errors, upset, merges, moves>>
ticking == <<walk, at, now, noted, rest, errors>>
practices == <<marker, url, audits, proposals>>
checkpoints == <<filedAt, merged>>
world == <<date, gap, merges>>

Kinds == {Maintenance[i] : i \in DOMAIN Maintenance} \cup {"platform", "practices"}
Report == "practices"
AuditsInit ==
  /\ date = 0 /\ issues = {} /\ books = {}
  /\ filedAt = [p \in Kinds |-> 0] /\ merged = [p \in Kinds |-> 0]
  /\ walk = "idle" /\ at = 0 /\ now = 0 /\ noted = FALSE
  /\ marker = 0 /\ url = FALSE /\ audits = 0 /\ gap \in SUBSET Checks /\ proposals = {}
  /\ rest = {} /\ errors = FALSE /\ upset = FALSE /\ merges = 0 /\ moves = 0

Moves == moves < MaxMoves /\ moves' = moves + 1
WalkTo(where) == walk' = where /\ UNCHANGED <<at, now, noted, rest, errors>>
EndTick == walk' = "idle" /\ at' = 0 /\ now' = 0 /\ noted' = FALSE /\ rest' = {} /\ errors' = FALSE

------------------------------------------------------------------------------
(* A pass is due after Cadence days or Threshold merges since it was last filed *)
maintenance_due(p) == date - filedAt[p] >= Cadence \/ merged[p] >= Threshold
set_maintenance_checkpoint(p, t) ==
  filedAt' = [filedAt EXCEPT ![p] = t] /\ merged' = [merged EXCEPT ![p] = 0]
(* one pass in flight per project, whatever its kind: what the ledger knows     *)
_has_open_pass == \E i \in books : i.open
Recent(p) == \E i \in books : i.pass = p /\ (i.open \/ date - i.since < Cooldown)

Issue(p, from) == [pass |-> p, id |-> Cardinality(issues) + 1, open |-> TRUE, since |-> 0,
                   from |-> from, to |-> now]

(* The tick starts with a sync, which may fail *)
sync ==
  /\ walk = "idle" /\ walk' = "maintenance" /\ at' = 1 /\ now' = date /\ UNCHANGED <<noted, rest, errors>>
  /\ \/ books' = issues /\ UNCHANGED <<upset, moves>>
     \/ Moves /\ UNCHANGED books /\ upset' = TRUE
  /\ UNCHANGED <<issues, checkpoints, practices, world>>

(* queue_maintenance: the first due pass is filed; a failed request goes on to  *)
(* the next pass. The interval of "escapes" ends at the tick's time, and so     *)
(* does its checkpoint, however long the filing took.                           *)
ThisPass == Maintenance[at]
SkipPass ==
  /\ walk = "maintenance"
  /\ IF noted \/ _has_open_pass \/ at > Len(Maintenance) THEN WalkTo("platform")
     ELSE /\ (Recent(ThisPass) \/ ~maintenance_due(ThisPass))
          /\ at' = at + 1 /\ UNCHANGED <<walk, now, noted, rest, errors>>
  /\ UNCHANGED <<issues, books, checkpoints, practices, upset, world, moves>>
Fileable == /\ walk = "maintenance" /\ ~noted /\ ~_has_open_pass /\ at <= Len(Maintenance)
            /\ ~Recent(ThisPass) /\ maintenance_due(ThisPass)
PassIssue == Issue(ThisPass, IF ThisPass = "escapes" THEN filedAt[ThisPass] ELSE now)
queue_maintenance ==
  /\ Fileable /\ issues' = issues \cup {PassIssue} /\ WalkTo("checkpoint")
  /\ UNCHANGED <<books, checkpoints, practices, upset, world, moves>>
RequestFails ==
  /\ Fileable /\ Moves /\ at' = at + 1 /\ UNCHANGED <<walk, now, noted, rest, errors>>
  /\ \/ UNCHANGED <<issues, upset>>
     \/ issues' = issues \cup {PassIssue} /\ upset' = TRUE  \* the answer was lost
  /\ UNCHANGED <<books, checkpoints, practices, world>>

(* Mutant: the checkpoint is the time it is written.                          *)
CheckpointTime_Now == date

CheckpointTime == IF ThisPass = "escapes" THEN now ELSE date
NotePass == noted' = TRUE
Checkpoint ==
  /\ walk = "checkpoint" /\ set_maintenance_checkpoint(ThisPass, CheckpointTime)
  /\ walk' = "platform" /\ NotePass /\ UNCHANGED <<at, now, rest, errors>>
  /\ UNCHANGED <<issues, books, practices, upset, world, moves>>

(* platform_audit.queue: the issue, then the checkpoint                         *)
queue_platform ==
  /\ walk = "platform" /\ UNCHANGED <<at, now, rest, errors>>
  /\ IF noted \/ _has_open_pass \/ ~maintenance_due("platform")
     THEN walk' = "practices" /\ UNCHANGED <<issues, noted, upset, moves>>
     ELSE \/ /\ issues' = issues \cup {Issue("platform", now)} /\ NotePass /\ walk' = "filed"
             /\ UNCHANGED <<upset, moves>>
          \/ /\ Moves /\ walk' = "practices" /\ UNCHANGED noted
             /\ \/ UNCHANGED <<issues, upset>>
                \/ issues' = issues \cup {Issue("platform", now)} /\ upset' = TRUE
  /\ UNCHANGED <<books, checkpoints, practices, world>>
reset_platform ==
  /\ walk = "filed" /\ WalkTo("practices") /\ set_maintenance_checkpoint("platform", date)
  /\ UNCHANGED <<issues, books, practices, upset, world, moves>>

(* practices_audit._queue: an audit under way is resumed before anything else;  *)
(* the marker of its report is kept before the report is filed                  *)
_queue ==
  /\ walk = "practices"
  /\ IF noted \/ (marker = 0 /\ ~url /\ (~maintenance_due(Report) \/ _has_open_pass
                                          \/ date - filedAt[Report] < Cooldown))
     THEN EndTick /\ UNCHANGED <<marker, audits>>
     ELSE /\ walk' = "report" /\ NotePass /\ UNCHANGED <<at, now, rest, errors>>
          /\ IF marker = 0 /\ ~url THEN marker' = audits + 1 /\ audits' = audits + 1
             ELSE UNCHANGED <<marker, audits>>
  /\ UNCHANGED <<issues, books, checkpoints, url, proposals, upset, world, moves>>

(* file_audit: the report first, found again by its marker *)
Reports == {i \in issues : i.pass = Report /\ i.from = marker}
ReportIssue == Issue(Report, marker)
FileReport ==
  /\ walk = "report" /\ walk' = "proposals" /\ rest' = Checks /\ UNCHANGED <<at, now, noted, errors>>
  /\ issues' = IF url \/ Reports # {} THEN issues ELSE issues \cup {ReportIssue}
  /\ UNCHANGED <<books, checkpoints, practices, upset, world, moves>>
ReportFails ==
  /\ walk = "report" /\ ~url /\ Reports = {} /\ Moves /\ EndTick
  /\ \/ UNCHANGED <<issues, upset>>
     \/ issues' = issues \cup {ReportIssue} /\ upset' = TRUE
  /\ UNCHANGED <<books, checkpoints, practices, world>>

(* one proposal per check, for ever: a gap files it or adds to it, a pass       *)
(* closes it; a failure is noted and the others go on                           *)
proposals_of(c) == {p \in proposals : p.check = c}
Proposed(c) ==
  IF c \notin gap THEN {IF p.check = c THEN [p EXCEPT !.open = FALSE] ELSE p : p \in proposals}
  ELSE IF proposals_of(c) # {} THEN proposals
  ELSE proposals \cup {[check |-> c, copy |-> Cardinality(proposals), open |-> TRUE]}
file_audit ==
  /\ walk = "proposals"
  /\ \E c \in rest : /\ rest' = rest \ {c}
                     /\ \/ proposals' = Proposed(c) /\ UNCHANGED <<errors, moves>>
                        \/ Moves /\ errors' = TRUE /\ proposals' \in {proposals, Proposed(c)}
  /\ UNCHANGED <<walk, at, now, noted, issues, books, checkpoints, marker, url, audits, upset, world>>
NothingFailed == ~errors
Conclude ==
  /\ walk = "proposals" /\ rest = {}
  /\ url' = TRUE /\ IF NothingFailed THEN WalkTo("conclude") ELSE EndTick
  /\ UNCHANGED <<issues, books, checkpoints, marker, audits, proposals, upset, world, moves>>
ClearKeys == marker' = 0 /\ url' = FALSE
SetCheckpoint ==
  /\ walk = "conclude" /\ WalkTo("clear") /\ set_maintenance_checkpoint(Report, date)
  /\ UNCHANGED <<issues, books, practices, upset, world, moves>>
Clear ==
  /\ walk = "clear" /\ ClearKeys /\ EndTick
  /\ UNCHANGED <<issues, books, checkpoints, audits, proposals, upset, world, moves>>

TickDies ==
  /\ walk # "idle" /\ Moves /\ EndTick
  /\ UNCHANGED <<issues, books, checkpoints, practices, upset, world>>

------------------------------------------------------------------------------
(* The environment *)
(* bound: time passes and work is shipped between ticks and while a pass is filed *)
DatePasses == /\ date < MaxDate /\ walk \in {"idle", "checkpoint", "conclude"} /\ date' = date + 1
       /\ UNCHANGED <<issues, books, checkpoints, ticking, practices, gap, upset, merges, moves>>
record_shipped ==
  /\ walk \in {"idle", "checkpoint", "conclude"} /\ merges < MaxMerges /\ merges' = merges + 1
  /\ merged' = [p \in Kinds |-> merged[p] + 1]
  /\ UNCHANGED <<issues, books, filedAt, ticking, practices, date, gap, upset, moves>>
PassDone ==
  /\ walk = "idle"
  /\ \E i \in issues : i.open /\ issues' = (issues \ {i}) \cup {[i EXCEPT !.open = FALSE, !.since = date]}
  /\ UNCHANGED <<books, checkpoints, ticking, practices, upset, world, moves>>
GapChanges ==
  /\ Moves /\ \E c \in Checks : gap' = (IF c \in gap THEN gap \ {c} ELSE gap \cup {c})
  /\ UNCHANGED <<issues, books, checkpoints, ticking, practices, date, upset, merges>>

Tick == \/ sync \/ SkipPass \/ queue_maintenance \/ Checkpoint \/ queue_platform \/ reset_platform \/ _queue
        \/ FileReport \/ file_audit \/ Conclude \/ SetCheckpoint \/ Clear
AuditsNext == \/ Tick \/ RequestFails \/ ReportFails \/ TickDies
              \/ DatePasses \/ record_shipped \/ PassDone \/ GapChanges
(* ticks run *)
AuditsFairness == WF_auditVars(Tick)
AuditsSpec == AuditsInit /\ [][AuditsNext]_auditVars /\ AuditsFairness

------------------------------------------------------------------------------
(* The intervals the escapes passes review leave no gap: each starts where an   *)
(* earlier one ended, over slow filings, lost answers and crashes.              *)
EscapesCovered ==
  \A i \in issues : i.pass = "escapes" =>
    i.from = 0 \/ \E j \in issues : j.pass = "escapes" /\ j.id < i.id /\ j.to >= i.from

(* D20: one pass in flight per project, as long as syncs work and no answer of  *)
(* GitHub is lost; the report of a resumed audit is filed next to another pass. *)
OnePassInFlight == ~upset => Cardinality({i \in issues : i.open /\ i.pass # Report}) <= 1

(* An audit has one report and a check one proposal, over crashes, lost answers *)
(* and resumed audits.                                                          *)
AuditFiledOnce ==
  /\ \A i, j \in issues : i.pass = Report /\ j.pass = Report /\ i.from = j.from => i = j
  /\ \A p, q \in proposals : p.check = q.check => p = q

(* The three together: what a pass reviews leaves no gap, and nothing is filed  *)
(* twice or beside another.                                                    *)
AuditsAreWhole == EscapesCovered /\ OnePassInFlight /\ AuditFiledOnce

(* An audit once begun is brought to its end. *)
AuditsFinish == []<>(marker = 0 /\ ~url)
==============================================================================
