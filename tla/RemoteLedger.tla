----------------------------- MODULE RemoteLedger -----------------------------
(* One project worked from two machines (ledger.py RoutedLedger, DESIGN D24):   *)
(* the host keeps the lease table; a laptop relays its lease operations over    *)
(* SSH, where a request or its answer may be lost or come to the host after the *)
(* laptop gave up on it, and keeps everything else in its own ledger.          *)
EXTENDS Naturals, FiniteSets

CONSTANTS Ttl,       \* auto_lease_minutes and interactive_lease_minutes
          MaxEpoch,  \* bound: grants
          MaxLost    \* bound: calls lost

RemoteAssumption == Ttl \in Nat \ {0} /\ MaxEpoch \in Nat /\ MaxLost \in Nat

VARIABLES lease,   \* the host's lease on the item, and its items.epoch
          epoch,
          token,   \* the epoch each process believes it holds, 0 if none
          call,    \* the request each laptop process waits on
          adrift,  \* requests the laptop gave up on that the host may still run
          local,   \* the item in the laptop's ledger: state, and the remembered epoch
          gap,     \* history: the host had no live lease since the sweep asked
          lost     \* calls lost so far

remoteVars == <<lease, epoch, token, call, adrift, local, gap, lost>>

(* The host's conductor; the laptop's conductor, a session and the tick's      *)
(* orphan sweep.                                                              *)
Laptop == {"conductor", "session", "sweep"}
Writers == {"host", "conductor", "session"}

NoCall == [op |-> "none", epoch |-> 0, result |-> "none"]
Names(p) == IF p = "host" THEN "conductor" ELSE p

(* Mutant: the laptop's names go over as they are.                            *)
_holder_Bare(p) == <<Names(p)>>

(* _holder: the laptop's holders are prefixed with its client id. *)
_holder(p) == IF p = "host" THEN <<Names(p)>> ELSE <<"laptop", Names(p)>>

NoRow == [holder |-> <<>>, kind |-> "auto", epoch |-> 0, left |-> 0]
Live == lease.left > 0

RemoteInit ==
  /\ lease = NoRow /\ epoch = 0
  /\ token = [p \in Writers |-> 0]
  /\ call = [p \in Laptop |-> NoCall]
  /\ adrift = {}
  /\ local \in [state : {"ready", "verifying"}, epoch : {0}]
  /\ gap = FALSE /\ lost = 0

------------------------------------------------------------------------------
(* The host's table (Ledger), as an operation of process p finds it.           *)
Kind(p) == IF p = "session" THEN "interactive" ELSE "auto"
Mine(p) == lease # NoRow /\ lease.holder = _holder(p)

Renewed(p) == Live /\ Mine(p)
Refused(p) == Live /\ ~Mine(p) /\ ~(lease.kind = "auto" /\ Kind(p) = "interactive")

claim(p) ==
  IF Renewed(p) THEN lease' = [lease EXCEPT !.left = Ttl] /\ UNCHANGED epoch
  ELSE IF Refused(p) THEN UNCHANGED <<lease, epoch>>
  ELSE /\ epoch < MaxEpoch
       /\ epoch' = epoch + 1
       /\ lease' = [holder |-> _holder(p), kind |-> Kind(p), epoch |-> epoch + 1, left |-> Ttl]

Granted(p) == IF Renewed(p) THEN lease.epoch ELSE IF Refused(p) THEN 0 ELSE epoch + 1

heartbeat(p, e) ==
  /\ lease' = IF Mine(p) /\ lease.epoch = e THEN [lease EXCEPT !.left = Ttl] ELSE lease
  /\ UNCHANGED epoch

(* With no epoch given (0) the holder alone decides. *)
release(p, e) ==
  /\ lease' = IF Mine(p) /\ e \in {0, lease.epoch} THEN NoRow ELSE lease
  /\ UNCHANGED epoch

(* remote_lease_operation, and its answer. *)
Runs(p, c) ==
  \/ c.op = "claim" /\ claim(p)
  \/ c.op = "heartbeat" /\ heartbeat(p, c.epoch)
  \/ c.op = "release" /\ release(p, c.epoch)
  \/ c.op = "lease" /\ UNCHANGED <<lease, epoch>>

Holds(p, c) == Mine(p) /\ c.epoch \in {0, lease.epoch}
Answer(p, c) ==
  CASE c.op = "claim" -> [result |-> IF Granted(p) > 0 THEN "yes" ELSE "no", epoch |-> Granted(p)]
    [] c.op = "lease" -> [result |-> IF Live THEN "yes" ELSE "no", epoch |-> 0]
    [] OTHER -> [result |-> IF Holds(p, c) THEN "yes" ELSE "no", epoch |-> c.epoch]

Gap == gap' = (gap \/ ~Live)

remote_lease_operation ==
  /\ \E p \in Laptop :
       /\ call[p].op # "none" /\ call[p].result = "none"
       /\ Runs(p, call[p])
       /\ LET a == Answer(p, call[p]) IN
            call' = [call EXCEPT ![p].result = a.result, ![p].epoch = a.epoch]
  /\ Gap
  /\ UNCHANGED <<token, adrift, local, lost>>

RunsAdrift ==
  /\ \E a \in adrift : Runs(a[1], a[2]) /\ adrift' = adrift \ {a}
  /\ Gap
  /\ UNCHANGED <<token, call, local, lost>>

------------------------------------------------------------------------------
(* The laptop.                                                                *)
Calls(p, op, e) ==
  /\ call[p] = NoCall
  /\ call' = [call EXCEPT ![p] = [op |-> op, epoch |-> e, result |-> "none"]]
  /\ UNCHANGED <<lease, epoch, adrift, lost>>

Answered(p, op, result) == call[p].op = op /\ call[p].result = result
Returned(p) == call' = [call EXCEPT ![p] = NoCall]

(* cmd_claim; the ship pass on an item in verifying (_ship_lease).             *)
Claim ==
  /\ \/ Calls("session", "claim", 0)
     \/ local.state = "verifying" /\ Calls("conductor", "claim", 0)
  /\ Gap
  /\ UNCHANGED <<token, local>>

Beat ==
  /\ \E p \in {"conductor", "session"} : token[p] # 0 /\ Calls(p, "heartbeat", token[p])
  /\ Gap
  /\ UNCHANGED <<token, local>>

(* cmd_release; cmd_ship, which gives no epoch.                               *)
Release ==
  /\ \/ /\ token["session"] # 0 /\ Calls("session", "release", token["session"])
        /\ UNCHANGED local
     \/ /\ token["session"] # 0 /\ Calls("session", "release", 0)
        /\ local' = [local EXCEPT !.state = "verifying"]
  /\ token' = [token EXCEPT !["session"] = 0]
  /\ Gap

(* A granted claim is remembered: an older answer never lowers the epoch.      *)
ClaimGranted ==
  /\ \E p \in {"conductor", "session"} :
       /\ Answered(p, "claim", "yes")
       /\ token' = [token EXCEPT ![p] = call[p].epoch]
       /\ local' = [state |-> IF p = "session" THEN "working" ELSE local.state,
                    epoch |-> IF call[p].epoch > local.epoch THEN call[p].epoch ELSE local.epoch]
       /\ Returned(p)
  /\ Gap
  /\ UNCHANGED <<lease, epoch, adrift, lost>>

(* Refused: the conductor leaves the item to the session that holds it.        *)
ClaimRefused ==
  /\ \E p \in {"conductor", "session"} :
       /\ Answered(p, "claim", "no")
       /\ token' = [token EXCEPT ![p] = 0]
       /\ local' = [local EXCEPT !.state = IF p = "conductor" THEN "working" ELSE @]
       /\ Returned(p)
  /\ Gap
  /\ UNCHANGED <<lease, epoch, adrift, lost>>

BeatAnswered ==
  /\ \E p \in {"conductor", "session"} :
       /\ call[p].op = "heartbeat" /\ call[p].result # "none"
       /\ token' = [token EXCEPT ![p] = IF call[p].result = "yes" THEN @ ELSE 0]
       /\ Returned(p)
  /\ Gap
  /\ UNCHANGED <<lease, epoch, adrift, local, lost>>

Released ==
  /\ call["session"].op = "release" /\ call["session"].result # "none"
  /\ local' = [local EXCEPT !.state =
                 IF @ = "working" /\ call["session"].result = "yes" THEN "ready" ELSE @]
  /\ Returned("session")
  /\ Gap
  /\ UNCHANGED <<lease, epoch, token, adrift, lost>>

(* RemoteLedgerError: the caller has neither the lease nor its renewal.        *)
CallFails ==
  /\ lost < MaxLost /\ lost' = lost + 1
  /\ \E p \in Laptop :
       /\ call[p].op # "none"
       /\ adrift' = IF call[p].result = "none" THEN adrift \cup {<<p, call[p]>>} ELSE adrift
       /\ token' = IF call[p].op = "heartbeat" THEN [token EXCEPT ![p] = 0] ELSE token
       /\ call' = [call EXCEPT ![p] = IF p = "sweep" THEN [@ EXCEPT !.result = "error"] ELSE NoCall]
  /\ Gap
  /\ UNCHANGED <<lease, epoch, local>>

SessionDies ==
  /\ token["session"] # 0 /\ call["session"] = NoCall
  /\ token' = [token EXCEPT !["session"] = 0]
  /\ Gap
  /\ UNCHANGED <<lease, epoch, call, adrift, local, lost>>

(* sweep_orphans, on an item in working with no run here.                      *)
SweepAsks ==
  /\ local.state = "working"
  /\ Calls("sweep", "lease", 0)
  /\ gap' = ~Live
  /\ UNCHANGED <<token, local>>

(* Mutant: no lease came back, whatever the reason.                           *)
Absent_Trusting == call["sweep"].result # "yes"

(* orphan_working_items: a failed lookup is no proof of absence. *)
Absent == call["sweep"].result = "no"

SweepEnds ==
  /\ call["sweep"].result # "none"
  /\ local' = [local EXCEPT !.state = IF Absent THEN "ready" ELSE @]
  /\ Returned("sweep")
  /\ Gap
  /\ UNCHANGED <<lease, epoch, token, adrift, lost>>

------------------------------------------------------------------------------
(* The host's own conductor, and time.                                        *)
HostClaims ==
  /\ claim("host")
  /\ token' = [token EXCEPT !["host"] = Granted("host")]
  /\ Gap
  /\ UNCHANGED <<call, adrift, local, lost>>

HostReleases ==
  /\ token["host"] # 0
  /\ release("host", token["host"])
  /\ token' = [token EXCEPT !["host"] = 0]
  /\ Gap
  /\ UNCHANGED <<call, adrift, local, lost>>

HostReaps ==
  /\ lease # NoRow /\ ~Live
  /\ lease' = NoRow
  /\ Gap
  /\ UNCHANGED <<epoch, token, call, adrift, local, lost>>

Tick ==
  /\ Live
  /\ lease' = [lease EXCEPT !.left = @ - 1]
  /\ Gap
  /\ UNCHANGED <<epoch, token, call, adrift, local, lost>>

RemoteNext ==
  \/ remote_lease_operation \/ RunsAdrift
  \/ Claim \/ Beat \/ Release \/ ClaimGranted \/ ClaimRefused \/ BeatAnswered \/ Released
  \/ CallFails \/ SessionDies \/ SweepAsks \/ SweepEnds
  \/ HostClaims \/ HostReleases \/ HostReaps \/ Tick

RemoteSpec == RemoteInit /\ [][RemoteNext]_remoteVars

------------------------------------------------------------------------------
(* lease_check, with the epoch a process remembers. *)
Passes(p) == token[p] # 0 /\ Live /\ lease.epoch = token[p]

(* Of all the processes of both machines at most one passes the fence after any *)
(* step, whatever was lost or ran late ("Remote holder ids are prefixed with a  *)
(* stable client_id", D24: the conductors of both have the same name).          *)
OneWriterAcrossMachines == [][Cardinality({p \in Writers : Passes(p)'}) <= 1]_remoteVars

(* The laptop's orphan sweep takes an item from nobody whose lease the host     *)
(* kept alive all the while it looked ("Treating that absence as an orphan      *)
(* resets actively held interactive work", orphan_working_items).              *)
SweepSparesHeld == [][SweepEnds /\ local'.state # local.state => gap]_remoteVars

(* The machines agree on who holds the item: the two together.                *)
MachinesAgree == OneWriterAcrossMachines /\ SweepSparesHeld
=============================================================================
