------------------------------- MODULE MCBooks -------------------------------
(* The books that more than one process writes: the reservations of a credit  *)
(* pool under three concurrent requests (Credits), the releases of a project   *)
(* published by the CLI and by the outbox (Releases), and the lease table that  *)
(* two machines share (RemoteLedger).  Nothing connects them, so one of them    *)
(* is explored at a time: part names it, the others stay as they started.      *)
EXTENDS Credits, RemoteLedger, Releases, TLC

VARIABLE part

ASSUME BooksAssumption == CreditsAssumption /\ RemoteAssumption /\ ReleasesAssumption

(* A version of a two-part scheme, and one of a three-part scheme above it.     *)
FeatureAndFix == <<{"feature"}, {"bug"}>>
BothSchemes == {<<0, 1>>, <<0, 1, 1>>}

Symmetry == Permutations(Requests)

booksVars == <<part, vars, releasesVars, remoteVars>>

BooksInit ==
  /\ part \in {"credits", "releases", "leases"}
  /\ Init /\ ReleasesInit /\ RemoteInit
  /\ part # "releases" => \A v \in Versions : ~hub[v].tagged
  /\ part # "leases" => local.state = "ready"

Pool == part = "credits" /\ UNCHANGED <<part, releasesVars, remoteVars>>
Draft == part = "releases" /\ UNCHANGED <<part, vars, remoteVars>>
Table == part = "leases" /\ UNCHANGED <<part, vars, releasesVars>>

BooksNext ==
  \/ Pool /\ Next
  \/ Draft /\ ReleasesNext
  \/ Table /\ RemoteNext

BooksSpec == BooksInit /\ [][BooksNext]_booksVars
=============================================================================
