----------------------------- MODULE SocketBind -----------------------------
(***************************************************************************)
(* How tractusd takes its address: bind_default_listener of                *)
(* tractusd/src/server.rs, one step per system call, for several daemons   *)
(* started on one path.  Binding a Unix socket makes its file; listening   *)
(* is a second call, and before it a connection is refused.  Nobody        *)
(* removes the file when a daemon ends, so the next one may find it stale. *)
(***************************************************************************)
EXTENDS Naturals, FiniteSets

CONSTANTS
  Daemon,         \* tractusd processes
  Foreign,        \* those that serve another workspace on this path
  Contract,       \* ids that can be registered
  MaxDeaths,      \* bound: daemons that are killed while they serve
  NoFile,         \* no socket file
  Stale           \* the file of a daemon that is gone

ASSUME SocketAssumption ==
  /\ Foreign \subseteq Daemon /\ MaxDeaths \in Nat
  /\ NoFile \notin Daemon /\ Stale \notin Daemon /\ NoFile # Stale

VARIABLES
  address,      \* whose socket the path names
  daemon,       \* how far each daemon has come
  registered,   \* the named contracts each daemon holds
  deaths,       \* daemons that were killed
  raced         \* auxiliary: two daemons were starting at once

socketVars == <<address, daemon, registered, deaths, raced>>

Starting(d) == daemon[d] \in {"probing", "connecting", "unlinking", "binding", "listening"}

SocketTypeOK ==
  /\ address \in Daemon \union {NoFile, Stale}
  /\ daemon \in [Daemon -> {"off", "probing", "connecting", "unlinking", "binding",
                            "listening", "serving", "gone"}]
  /\ registered \in [Daemon -> SUBSET Contract]
  /\ deaths \in 0 .. MaxDeaths /\ raced \in BOOLEAN

\* Nothing on the path, the file of an earlier daemon, or another workspace's
\* daemon.
SocketInit ==
  /\ address \in {NoFile, Stale} \union Foreign
  /\ daemon = [d \in Daemon |-> IF d = address THEN "serving" ELSE "off"]
  /\ registered = [d \in Daemon |-> {}]
  /\ deaths = 0 /\ raced = FALSE

\* connect(2) succeeds: the path names a socket that listens.
Live == address \in Daemon /\ daemon[address] = "serving"

Become(d, from, to) == daemon[d] = from /\ daemon' = [daemon EXCEPT ![d] = to]

Spawn(d) ==
  /\ Become(d, "off", "probing")
  /\ raced' = (raced \/ \E e \in Daemon : Starting(e))
  /\ UNCHANGED <<address, registered, deaths>>

\* socket_path.exists()
Probe(d) ==
  /\ Become(d, "probing", IF address = NoFile THEN "binding" ELSE "connecting")
  /\ UNCHANGED <<address, registered, deaths, raced>>

\* Mutant: whatever file is there is taken for a stale one.
ConnectUnasked(d) ==
  /\ Become(d, "connecting", "unlinking")
  /\ UNCHANGED <<address, registered, deaths, raced>>

\* A live peer keeps its address: this daemon ends with AddrInUse.
Connect(d) ==
  /\ Become(d, "connecting", IF Live THEN "gone" ELSE "unlinking")
  /\ UNCHANGED <<address, registered, deaths, raced>>

\* remove_file: whatever the path names by now.
Unlink(d) ==
  /\ Become(d, "unlinking", IF address = NoFile THEN "gone" ELSE "binding")
  /\ address' = NoFile
  /\ UNCHANGED <<registered, deaths, raced>>

Bind(d) ==
  /\ Become(d, "binding", IF address = NoFile THEN "listening" ELSE "gone")
  /\ address' = IF address = NoFile THEN d ELSE address
  /\ UNCHANGED <<registered, deaths, raced>>

Listen(d) ==
  /\ Become(d, "listening", "serving")
  /\ UNCHANGED <<address, registered, deaths, raced>>

\* set_contract under a name, at whichever daemon the path leads to.
SetContractAt(k) ==
  /\ Live /\ address \notin Foreign
  /\ registered' = [registered EXCEPT ![address] = @ \union {k}]
  /\ UNCHANGED <<address, daemon, deaths, raced>>

\* A daemon that is killed forgets its contracts and leaves its file.
Killed(d) ==
  /\ daemon' = [daemon EXCEPT ![d] = "gone"]
  /\ registered' = [registered EXCEPT ![d] = {}]
  /\ UNCHANGED <<address, raced>>

Die(d) ==
  /\ daemon[d] = "serving" /\ deaths < MaxDeaths
  /\ deaths' = deaths + 1
  /\ Killed(d)

DaemonStep(d) == Probe(d) \/ Connect(d) \/ Unlink(d) \/ Bind(d) \/ Listen(d)

-----------------------------------------------------------------------------
KeepsPeer ==
  \A d \in Daemon :
    address = d /\ daemon[d] = "serving" /\ daemon'[d] = "serving" => address' = d

\* "Never unlink a live peer's address" (bind_default_listener), as far as it
\* holds: no step takes the path from a daemon that listens on it and lives on,
\* whatever files dead ones have left, unless two daemons were starting at once:
\* then one may bind it between the other's refused connect and its unlink.
LiveSocketKeptAlone == [][raced \/ KeepsPeer]_address
=============================================================================
