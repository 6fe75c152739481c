------------------------------ MODULE Releases ------------------------------
(* The release ledger of src/mahler/releases.py for one project: the rolling  *)
(* draft that shipments fill, and publish_release, which two processes call:  *)
(* the CLI (no transaction around it) and the tick's outbox (one write        *)
(* transaction around the whole handler, calls to GitHub included).           *)
(* A merge commit is the number of merges so far; the notes of a release are  *)
(* the set of its lines.                                                      *)
EXTENDS Naturals, Sequences, FiniteSets

CONSTANTS Items,      \* issues that ship
          Labels,     \* the type labels of each
          Versions,   \* versions the owner may type, as tuples of their parts
          MaxMerges,  \* bound: merges to the base branch
          MaxFaults   \* bound: crashes and lost answers

Kinds == {"feature", "bug", "chore"}

ReleasesAssumption ==
  /\ Items \subseteq Nat \ {0}
  /\ Labels \in [Items -> SUBSET Kinds]
  /\ \A v \in Versions : v \in Seq(Nat) /\ Len(v) \in {2, 3}
  /\ MaxMerges \in Nat /\ MaxFaults \in Nat

VARIABLES main,      \* the head of the base branch
          entry,     \* release_items: the row of each item
          releases,  \* the releases table, oldest first
          adopted,   \* kv release_baseline_checked
          hub,       \* GitHub: the tag of each version and its release
          queued,    \* the pending cut_release action
          job,       \* publish_release as each caller is running it
          faults     \* what remains of MaxFaults

ledger == <<entry, releases, adopted, queued>>
releasesVars == <<main, ledger, hub, job, faults>>

Callers == {"cli", "outbox"}

(* A row that no shipment has written yet has no merge.                       *)
NoEntry == [merge |-> 0, at |-> 0, release |-> 0]
NoTag == [tagged |-> FALSE, sha |-> 0, released |-> FALSE, notes |-> {}]
NoCut == [version |-> <<>>, sha |-> 0, items |-> {}, notes |-> {}]
NoJob == [at |-> "idle", version |-> <<>>, sha |-> 0, items |-> {}, notes |-> {}, known |-> FALSE]

------------------------------------------------------------------------------
(* Versions, sections and the draft.                                          *)

(* X.Y and X.Y.0 are the same precedence. *)
version_key(v) == IF Len(v) = 3 THEN v ELSE Append(v, 0)

Below(a, b) ==
  LET x == version_key(a) y == version_key(b)
  IN \E k \in 1..3 : x[k] < y[k] /\ \A j \in 1..(k - 1) : x[j] = y[j]

(* ReleaseItem.is_maintenance, is_feature, is_fix and is_other. *)
Section(i) ==
  CASE "chore" \in Labels[i] -> "maintenance"
    [] "chore" \notin Labels[i] /\ "feature" \in Labels[i] -> "features"
    [] "chore" \notin Labels[i] /\ "feature" \notin Labels[i] /\ "bug" \in Labels[i] -> "fixes"
    [] OTHER -> "other"

synthesize_notes(items) == {<<Section(i), i, entry[i].merge>> : i \in items}

unreleased_items == {i \in Items : entry[i].merge > 0 /\ entry[i].release = 0}

(* The draft is read by shipped_at, which a second shipment does not move. *)
Newest(items) == CHOOSE i \in items : \A j \in items : entry[j].at <= entry[i].at

Latest == releases[Len(releases)]

checkpoint_sha ==
  CASE unreleased_items # {} -> entry[Newest(unreleased_items)].merge
    [] unreleased_items = {} /\ releases # <<>> -> Latest.sha
    [] OTHER -> 0

propose_next_version ==
  IF releases = <<>> THEN <<0, 1, 0>>
  ELSE LET newest == Latest.version IN
    CASE Len(newest) = 2 -> <<newest[1], newest[2] + 1>>
      [] Len(newest) = 3 /\ \E i \in unreleased_items : Section(i) = "features" ->
           <<newest[1], newest[2] + 1, 0>>
      [] OTHER -> <<newest[1], newest[2], newest[3] + 1>>

(* The versions the page offers next to the proposed one. *)
semver_options ==
  {propose_next_version} \cup
  IF releases = <<>> THEN {<<0, 1, 1>>, <<0, 2, 0>>, <<1, 0, 0>>}
  ELSE LET newest == Latest.version IN
    IF Len(newest) = 2 THEN {<<newest[1], newest[2] + 1>>, <<newest[1] + 1, 0>>}
    ELSE {<<newest[1], newest[2], newest[3] + 1>>, <<newest[1], newest[2] + 1, 0>>, <<newest[1] + 1, 0, 0>>}

Recorded(v) == \E k \in DOMAIN releases : releases[k].version = v
RowOf(v) == releases[CHOOSE k \in DOMAIN releases : releases[k].version = v]

(* What publish_release refuses before it asks GitHub anything. *)
TooOld(v) ==
  /\ releases # <<>>
  /\ \/ Below(v, Latest.version)
     \/ version_key(v) = version_key(Latest.version) /\ ~Recorded(v)

------------------------------------------------------------------------------
ReleasesInit ==
  /\ main = 0
  /\ entry = [i \in Items |-> NoEntry]
  /\ releases = <<>>
  /\ adopted = FALSE
  /\ \/ hub = [v \in Versions |-> NoTag]
     \/ \E v \in Versions, released \in BOOLEAN :
          hub = [[w \in Versions |-> NoTag] EXCEPT ![v] =
                   [tagged |-> TRUE, sha |-> 0, released |-> released, notes |-> {}]]
  /\ queued = NoCut
  /\ job = [c \in Callers |-> NoJob]
  /\ faults = MaxFaults

(* The outbox's transaction keeps every other writer of the ledger out. *)
Locked == job["outbox"].at # "idle"

snapshot_release_item(i) ==
  entry' = IF entry[i].release > 0 THEN entry
           ELSE [entry EXCEPT ![i].merge = main', ![i].at = IF @ = 0 THEN main' ELSE @]

(* record_release_item_if_needed: a write that fails does not stop the ship. *)
Ship(i) ==
  /\ main < MaxMerges /\ ~Locked
  /\ main' = main + 1
  /\ snapshot_release_item(i) \/ UNCHANGED entry
  /\ UNCHANGED <<releases, adopted, queued, hub, job, faults>>

(* _bootstrap_release_baseline: history that Mahler did not write. *)
AdoptBaseline ==
  /\ ~Locked /\ ~adopted /\ releases = <<>>
  /\ LET there == {v \in Versions : hub[v].released} IN
       \/ there = {} /\ UNCHANGED releases
       \/ \E v \in there :
            releases' = <<[version |-> v, sha |-> hub[v].sha, notes |-> hub[v].notes]>>
  /\ adopted' = TRUE
  /\ UNCHANGED <<main, entry, hub, queued, job, faults>>

(* The notes the page shows may be those from before an item shipped again:   *)
(* neither its number nor the checkpoint tells the two drafts apart.          *)
Shown ==
  LET newest == entry[Newest(unreleased_items)]
      again == {i \in unreleased_items : entry[i].at < newest.at /\ newest.merge < entry[i].merge}
  IN {{<<Section(i), i, IF i \in old THEN entry[i].at ELSE entry[i].merge>> : i \in unreleased_items} :
        old \in SUBSET again}

(* actions.cut_release with what console/state._releases had put on the page; *)
(* the owner may type another version than the proposal.                      *)
Cut(v) ==
  /\ ~Locked /\ queued = NoCut
  /\ unreleased_items # {}
  /\ releases # <<>> => Below(Latest.version, v)
  /\ ~Recorded(v)
  /\ \E notes \in Shown :
       queued' = [version |-> v, sha |-> checkpoint_sha, items |-> unreleased_items, notes |-> notes]
  /\ UNCHANGED <<main, entry, releases, adopted, hub, job, faults>>

------------------------------------------------------------------------------
(* publish_release.                                                           *)

Ends(c) ==
  /\ job' = [job EXCEPT ![c] = NoJob]
  /\ queued' = IF c = "outbox" THEN NoCut ELSE queued

(* The notes of the record win over the draft's, and the caller's over both. *)
Begin(c, v, sha, items, notes) ==
  /\ job[c].at = "idle"
  /\ ~TooOld(v)
  /\ job' = [job EXCEPT ![c] = [at |-> "look", version |-> v, sha |-> sha, items |-> items,
                                notes |-> notes, known |-> Recorded(v)]]
  /\ UNCHANGED <<main, ledger, hub, faults>>

(* cmd_release --publish: the base branch's head and the draft as it is now. *)
CliBegins ==
  \E v \in Versions :
    Begin("cli", v, main, unreleased_items,
          IF Recorded(v) /\ RowOf(v).notes # {} THEN RowOf(v).notes
          ELSE synthesize_notes(unreleased_items))

(* outbox.cut_release: what the owner saw; a version that is too old fails. *)
OutboxBegins ==
  /\ queued # NoCut
  /\ \/ Begin("outbox", queued.version, queued.sha, queued.items, queued.notes)
     \/ /\ TooOld(queued.version) /\ job["outbox"].at = "idle"
        /\ Ends("outbox")
        /\ UNCHANGED <<main, entry, releases, adopted, hub, faults>>

(* Mutant: the notes of a release that is there already are not compared. *)
Conflict_TrustsNotes(c) ==
  LET j == job[c] there == hub[j.version] IN
  \/ there.tagged /\ there.sha # j.sha
  \/ ~there.released /\ j.known /\ RowOf(j.version).sha # j.sha

(* ReleaseConflictError. *)
Conflict(c) ==
  LET j == job[c] there == hub[j.version] IN
  \/ there.tagged /\ there.sha # j.sha
  \/ there.released /\ there.notes # j.notes
  \/ ~there.released /\ j.known /\ RowOf(j.version).sha # j.sha

Look(c) ==
  /\ job[c].at = "look"
  /\ IF Conflict(c) \/ (hub[job[c].version].released /\ job[c].known)
     THEN Ends(c)
     ELSE /\ job' = [job EXCEPT ![c].at = IF hub[job[c].version].released THEN "seal" ELSE "create"]
          /\ UNCHANGED queued
  /\ UNCHANGED <<main, entry, releases, adopted, hub, faults>>

(* gh release create refuses a version that has its release by now. *)
Create(c) ==
  LET j == job[c] IN
  /\ j.at = "create"
  /\ IF hub[j.version].released
     THEN Ends(c) /\ UNCHANGED <<hub, faults>>
     ELSE /\ hub' = [hub EXCEPT ![j.version] =
                       [tagged |-> TRUE, sha |-> IF hub[j.version].tagged THEN @.sha ELSE j.sha,
                        released |-> TRUE, notes |-> j.notes]]
          /\ \/ /\ UNCHANGED faults
                /\ IF j.known THEN Ends(c)
                   ELSE job' = [job EXCEPT ![c].at = "seal"] /\ UNCHANGED queued
             \/ faults > 0 /\ faults' = faults - 1 /\ Ends(c)
  /\ UNCHANGED <<main, entry, releases, adopted>>

create_release(c) ==
  LET j == job[c] IN
  /\ releases' = Append(releases, [version |-> j.version, sha |-> j.sha, notes |-> j.notes])
  /\ entry' = [i \in Items |-> IF i \in j.items \cap unreleased_items
                               THEN [entry[i] EXCEPT !.release = Len(releases')] ELSE entry[i]]

(* One transaction; a version recorded meanwhile breaks UNIQUE and the caller. *)
Seal(c) ==
  /\ job[c].at = "seal"
  /\ c = "cli" => ~Locked
  /\ IF Recorded(job[c].version) THEN UNCHANGED <<entry, releases>> ELSE create_release(c)
  /\ Ends(c)
  /\ UNCHANGED <<main, adopted, hub, faults>>

(* The process dies: the outbox's transaction is rolled back, its action stays. *)
Crash(c) ==
  /\ job[c].at # "idle" /\ faults > 0
  /\ faults' = faults - 1
  /\ job' = [job EXCEPT ![c] = NoJob]
  /\ UNCHANGED <<main, ledger, hub>>

ReleasesNext ==
  \/ \E i \in Items : Ship(i)
  \/ AdoptBaseline \/ CliBegins \/ OutboxBegins
  \/ \E v \in Versions : Cut(v)
  \/ \E c \in Callers : Look(c) \/ Create(c) \/ Seal(c) \/ Crash(c)

ReleasesSpec == ReleasesInit /\ [][ReleasesNext]_releasesVars

------------------------------------------------------------------------------
(* Properties.                                                                *)

(* An item belongs to one release for its whole life, whoever publishes at    *)
(* the same time and however often it ships again (create_release and         *)
(* snapshot_release_item write only rows without a release).                  *)
SealedOnce ==
  [][\A i \in Items : entry[i].release > 0 => entry'[i].release = entry[i].release]_releasesVars

(* The published notes tell of every item their release has taken: an item    *)
(* that ships while a release is on its way stays in the draft, and the notes *)
(* of a release that was published before a crash are compared, not trusted.  *)
NotesCoverSealed ==
  \A i \in Items : entry[i].release > 0 =>
    LET v == releases[entry[i].release].version
    IN \E line \in hub[v].notes : line[2] = i

(* What the ledger records as published is what GitHub shows: the same commit *)
(* and the same notes, after crashes and with the CLI and the outbox          *)
(* publishing at the same time.                                               *)
RecordedAsPublished ==
  \A k \in DOMAIN releases :
    LET r == releases[k]
    IN hub[r.version].released /\ hub[r.version].sha = r.sha /\ hub[r.version].notes = r.notes

(* Every version the page offers is above the last recorded one, in the       *)
(* project's own scheme, two parts or three.                                  *)
OffersMoveOn ==
  releases # <<>> => \A v \in semver_options : Below(Latest.version, v) /\ Len(v) = Len(Latest.version)

(* The four together: whoever publishes, crashes and publishes again, what a   *)
(* release says it shipped stays true, and the next one goes above it.        *)
ReleasesAreTrue == SealedOnce /\ [](NotesCoverSealed /\ RecordedAsPublished /\ OffersMoveOn)
=============================================================================
