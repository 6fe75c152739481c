------------------------------- MODULE Vetting -------------------------------
(* dependency_vetting.py: what a change does to the dependencies of a project,  *)
(* and whether each one it adds or moves has safe evidence in the registries.   *)
(* Text is read as what it says: a manifest declares a range or an exact        *)
(* version, a lock file resolves names to versions, a pin also has a revision.  *)
EXTENDS Integers, FiniteSets

CONSTANTS Dirs,       \* the manifest directories (_project_dir)
          Versions,   \* versions of a package, 1 up
          Locks,      \* the lock files of a directory
          Snapshots,  \* the contents a directory may have, before or after
          Registries, \* what the registry may say: [version -> evidence]
          Satisfies   \* [declaration -> versions it admits]

(* a directory: [declares, locks, pins, catalog, manifest, unsupported]          *)
(*  declares: of a direct npm or PyPI dependency, "absent" or a declaration      *)
(*  locks:    [Locks -> version of it, 0 for none]                               *)
(*  pins:     [Locks -> resolved Swift or Gradle pin, NoPin for none in the      *)
(*            file, NoFile without the file]                                    *)
(*  catalog:  the Gradle catalog's pin; manifest, unsupported: the text of files *)
(*            that are compared and never parsed                                 *)
NoPin == [version |-> 0, revision |-> 0]
NoFile == [version |-> 0, revision |-> 1]
Nothing == {NoPin, NoFile}

Level == [NONE |-> 0, LOW |-> 1, MODERATE |-> 2, HIGH |-> 3, CRITICAL |-> 4, UNKNOWN |-> 5]
Pin == [version : Versions \cup {0}, revision : Nat]
VettingAssumption ==
  /\ IsFiniteSet(Locks) /\ 0 \notin Versions
  /\ Snapshots \subseteq [declares : DOMAIN Satisfies, locks : [Locks -> Versions \cup {0}],
                        pins : [Locks -> Pin], catalog : Pin, manifest : Nat, unsupported : Nat]
  /\ Registries \subseteq [Versions -> [published : BOOLEAN, revision : Nat, recent : BOOLEAN,
                                       advisories : SUBSET SUBSET DOMAIN Level]]

VARIABLES before, after, registry, stage, todo, verdict
vettingVars == <<before, after, registry, stage, todo, verdict>>

VettingInit ==
  /\ before \in [Dirs -> Snapshots] /\ after \in [Dirs -> Snapshots]
  /\ registry \in Registries /\ stage = "changed" /\ todo = {} /\ verdict = "none"

------------------------------------------------------------------------------
(* _changed_project_dependencies: of one directory, the dependencies it adds or *)
(* moves, or an error where the files do not settle them                        *)

Exact(d) == {v \in Versions : Satisfies[d] = {v}}
(* _npm_versions, _python_versions: what the lock files agree on *)
LockedTo(s) == {s.locks[l] : l \in Locks} \ {0}
AmbiguousLocks(s) == s.declares # "absent" /\ Cardinality(LockedTo(s)) > 1
(* the locked version, else an exact declaration, else none *)
_direct_version(s) ==
  IF LockedTo(s) # {} THEN CHOOSE v \in LockedTo(s) : TRUE
  ELSE IF s.declares # "absent" /\ Exact(s.declares) # {} THEN CHOOSE v \in Exact(s.declares) : TRUE
  ELSE 0

Dep(v, r) == [version |-> v, revision |-> r]
(* Mutant: only a change of the declaration is looked at.                     *)
DirectChanged_Declared(old, new) == new.declares # "absent" /\ old.declares # new.declares

DirectChanged(old, new) ==
  /\ new.declares # "absent"
  /\ \/ old.declares # new.declares
     \/ _direct_version(old) # _direct_version(new)
DirectChanges(old, new) ==
  IF DirectChanged(old, new) THEN {Dep(_direct_version(new), 0)} ELSE {}
_version_matches(s) == _direct_version(s) = 0 \/ _direct_version(s) \in Satisfies[s.declares]

(* _changed_resolved_dependencies: pins are compared file by file *)
PinChanges(old, new) == {new.pins[l] : l \in {l \in Locks : old.pins[l] # new.pins[l]}} \ Nothing
(* _catalog_dependencies: the catalog's own pin, which no lock may contradict *)
CatalogChanges(old, new) == IF old.catalog = new.catalog THEN {} ELSE {new.catalog} \ {NoPin}
StaleLock(old, new) ==
  \E c \in CatalogChanges(old, new), l \in Locks :
    new.pins[l] \notin Nothing /\ new.pins[l].version # c.version
(* A lock file says something else than before, if only that a pin is gone; one *)
(* that is gone says nothing, and one that was not there had said nothing.      *)
Resolves(pin) == IF pin = NoFile THEN NoPin ELSE pin
ResolvedChanged(old, new) ==
  \E l \in Locks : new.pins[l] # NoFile /\ Resolves(old.pins[l]) # Resolves(new.pins[l])

Ambiguous(old, new) ==
  \/ old.unsupported # new.unsupported
  \/ old.manifest # new.manifest /\ ~ResolvedChanged(old, new)
  \/ AmbiguousLocks(old) \/ AmbiguousLocks(new)
  \/ Cardinality(PinChanges(old, new)) > 1
  \/ StaleLock(old, new)
  \/ DirectChanged(old, new) /\ ~_version_matches(new)
_changed_project_dependencies(old, new) ==
  DirectChanges(old, new) \cup PinChanges(old, new) \cup CatalogChanges(old, new)

(* changed_dependencies: each directory by itself; an unchanged one is not read *)
Touched == {d \in Dirs : before[d] # after[d]}
changed_dependencies ==
  UNION {_changed_project_dependencies(before[d], after[d]) : d \in Touched}

------------------------------------------------------------------------------
(* vet *)

Verdict(v) == /\ stage' = "done" /\ verdict' = v /\ UNCHANGED <<before, after, registry, todo>>

(* reading the files raises, finds nothing to vet, or gives the list *)
FilesFail == /\ stage = "changed" /\ \E d \in Touched : Ambiguous(before[d], after[d])
             /\ Verdict("error")
Unresolved == {dep \in changed_dependencies : dep.version = 0}
ReadChanges ==
  /\ stage = "changed" /\ \A d \in Touched : ~Ambiguous(before[d], after[d])
  /\ IF Unresolved # {} THEN Verdict("error")
     ELSE IF changed_dependencies = {} THEN Verdict("clear")
     ELSE /\ stage' = "ask" /\ todo' = changed_dependencies /\ verdict' = "clear"
          /\ UNCHANGED <<before, after, registry>>

(* _metadata: the package exists, its version is published and dated, and a     *)
(* pinned revision is the one the release has                                   *)
_resolved_metadata(dep) == dep.revision = 0 \/ dep.revision = registry[dep.version].revision
_metadata(dep) == registry[dep.version].published /\ _resolved_metadata(dep)
(* _severity: the worst of what the sources say; nothing said, or a vector that *)
(* cannot be scored, is worst                                                   *)
_severity(says) == IF says = {} THEN "UNKNOWN"
                   ELSE CHOOSE l \in says : \A k \in says : Level[k] <= Level[l]
_advisories(dep) == \E says \in registry[dep.version].advisories :
                      _severity(says) \in {"HIGH", "CRITICAL", "UNKNOWN"}
(* the package, not the version, must be known for 14 days *)
Recent(dep) == registry[dep.version].recent
Blocked(dep) == Recent(dep) \/ _advisories(dep)

vet_one ==
  /\ stage = "ask" /\ todo # {}
  /\ \E dep \in todo :
       IF ~_metadata(dep) THEN Verdict("error")
       ELSE /\ todo' = todo \ {dep}
            /\ verdict' = IF Blocked(dep) THEN "blocked" ELSE verdict
            /\ UNCHANGED <<before, after, registry, stage>>
(* a registry that does not answer fails closed *)
LookupFails == stage = "ask" /\ todo # {} /\ Verdict("error")
Vetted == stage = "ask" /\ todo = {} /\ Verdict(verdict)

VettingNext == FilesFail \/ ReadChanges \/ vet_one \/ LookupFails \/ Vetted
VettingSpec == VettingInit /\ [][VettingNext]_vettingVars /\ WF_vettingVars(VettingNext)

------------------------------------------------------------------------------
(* What a project asks for, read off its files without comparing them: the npm   *)
(* or PyPI dependency it declares itself, and every Swift or Gradle pin. An       *)
(* installer also fetches an npm or PyPI package that is only locked, for        *)
(* another package's sake: the vetting looks at none of those.                  *)
AsksFor(s) ==
  (IF s.declares = "absent" THEN {}
   ELSE IF LockedTo(s) # {} THEN {Dep(v, 0) : v \in LockedTo(s)}
   ELSE {Dep(v, 0) : v \in Satisfies[s.declares]})
  \cup (({s.pins[l] : l \in Locks} \cup {s.catalog}) \ Nothing)
Sound(dep) ==
  LET e == registry[dep.version]
  IN  /\ e.published /\ ~e.recent /\ (dep.revision = 0 \/ dep.revision = e.revision)
      /\ \A says \in e.advisories : says # {} /\ says \subseteq {"NONE", "LOW", "MODERATE"}

(* A change is cleared only if every version it makes the project ask for that  *)
(* it did not ask for before has safe evidence, whichever file moved it, also a  *)
(* package that was locked all along and is declared now.                       *)
ClearMeansSound ==
  stage = "done" /\ verdict = "clear" =>
    \A d \in Dirs : \A dep \in AsksFor(after[d]) \ AsksFor(before[d]) : Sound(dep)
==============================================================================
