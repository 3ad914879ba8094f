------------------------------ MODULE ShimServer ------------------------------
(***************************************************************************)
(* The shim servers of one group, which share one socket address: the      *)
(* start action that spawns a server and waits for the end of its output,  *)
(* the server's take-over of the address or its retreat before a server    *)
(* that is up, and its shutdown, which removes the socket by name.         *)
(*                                                                         *)
(* Start s runs in bundle s and spawns server s there.  The socket is a    *)
(* file that outlives its listener; who bound it is what TLA+ can see and  *)
(* the code cannot.  The connect of a probe is one step, the sleeps        *)
(* between probes are not modelled.  The daemon reads the log of a server  *)
(* it has started and is where the server connects to first.               *)
(***************************************************************************)
EXTENDS Naturals

CONSTANTS
  Starts,
  NoServer,
  Probes,        \* how often a server tries the address in use (200)
  MaxCrashes     \* bound on the processes killed, the daemon among them

ASSUME ConstantsAssumption ==
  /\ NoServer \notin Starts
  /\ Probes \in Nat \ {0}
  /\ MaxCrashes \in Nat

VARIABLES
  daemon,     \* containerd: "up" or "down"
  start,      \* the start action: "idle", "spawned", "ended" (its child's
              \* output has), "returned" or "failed"
  server,     \* what each server is doing, "unborn" before it is spawned
  probes,     \* the probes each server has made
  socket,     \* the server that bound the socket file, NoServer without a file
  listening,  \* the servers whose listener is open
  address,    \* the bundles that have an address file
  crashes,    \* history: the servers killed
  calm        \* history: no two servers have contended for the address

vars == <<daemon, start, server, probes, socket, listening, address, crashes, calm>>
files == <<socket, listening, address>>

ServerPcs == {"unborn", "logging", "connecting", "binding", "probing", "removing", "rebinding", "bound", "adopting",
              "serving", "stopping", "unlinking", "gone", "failed", "killed"}

Init ==
  /\ daemon = "up"
  /\ start = [s \in Starts |-> "idle"]
  /\ server = [s \in Starts |-> "unborn"]
  /\ probes = [s \in Starts |-> 0]
  /\ socket = NoServer
  /\ listening = {} /\ address = {}
  /\ crashes = 0 /\ calm = TRUE

Goes(s, from, to) == server[s] = from /\ server' = [server EXCEPT ![s] = to]
Up(s) == server[s] = "serving" /\ socket = s
InFlight == {s \in Starts : start[s] \in {"spawned", "ended"}}

(* The starts of a group are calm when each is made alone or while a       *)
(* server is up, which stays up if more than one is in flight.  So         *)
(* containerd makes them: a pod's sandbox first, its containers after it.  *)
StartsCalmly == InFlight = {} \/ \E s \in Starts : Up(s)
FallsCalmly == \A s, t \in InFlight : s = t

(* The process of server s is killed, if it is still there.                *)
Dies(s) ==
  /\ server' = [server EXCEPT ![s] = IF @ \in {"gone", "failed"} THEN @ ELSE "killed"]
  /\ listening' = listening \ {s}
  /\ crashes' = crashes + 1
  /\ calm' = (calm /\ FallsCalmly)

------------------------------------------------------------------------------
(* start_shim: spawn the server and read its output to the end, which is   *)
(* when it has started or is gone; then write the address file and reply.  *)
Start(s) ==
  /\ daemon = "up" /\ start[s] = "idle"
  /\ start' = [start EXCEPT ![s] = "spawned"]
  /\ Goes(s, "unborn", "logging")
  /\ calm' = (calm /\ StartsCalmly)
  /\ UNCHANGED <<daemon, files, probes, crashes>>

(* confine_shim fails, at any point the server has reached: it is killed,  *)
(* its listener closes and its socket file stays.                          *)
ConfineFails(s) ==
  /\ start[s] = "spawned" /\ crashes < MaxCrashes
  /\ start' = [start EXCEPT ![s] = "failed"]
  /\ Dies(s)
  /\ UNCHANGED <<daemon, probes, socket, address>>

OutputEnds(s) ==
  /\ start[s] = "spawned"
  /\ server[s] \in {"serving", "stopping", "unlinking", "gone", "failed", "killed"}
  /\ start' = [start EXCEPT ![s] = "ended"]
  /\ UNCHANGED <<daemon, files, server, probes, crashes, calm>>

StartReturns(s) ==
  /\ start[s] = "ended"
  /\ start' = [start EXCEPT ![s] = "returned"]
  /\ address' = address \cup {s}
  /\ UNCHANGED <<daemon, server, probes, socket, listening, crashes, calm>>

------------------------------------------------------------------------------
(* logger::init: the open of the log, a FIFO, waits for its reader.        *)
OpensLog(s) ==
  /\ daemon = "up"
  /\ Goes(s, "logging", "connecting")
  /\ UNCHANGED <<daemon, files, start, probes, crashes, calm>>

(* There is no log; the shim cannot be made a subreaper.                   *)
SetupFails(s) ==
  /\ crashes < MaxCrashes
  /\ Goes(s, "logging", "failed")
  /\ crashes' = crashes + 1
  /\ UNCHANGED <<daemon, files, start, probes, calm>>

connect == daemon = "up"

(* RemotePublisher::new; then the task service is made.                    *)
PublisherConnects(s) ==
  /\ Goes(s, "connecting", IF connect THEN "binding" ELSE "failed")
  /\ UNCHANGED <<daemon, files, start, probes, crashes, calm>>

(* create_server: bind fails where there is a file, listener or not.       *)
Binds(s) ==
  /\ socket = NoServer
  /\ socket' = s /\ listening' = listening \cup {s}

Bind(s) ==
  /\ Goes(s, "binding", "bound") /\ Binds(s)
  /\ UNCHANGED <<daemon, start, probes, address, crashes, calm>>

(* Mutant: an address in use is taken for that of a dead server.           *)
Mut_AddrInUse(s) ==
  /\ socket # NoServer
  /\ Goes(s, "binding", "removing")
  /\ UNCHANGED <<daemon, files, start, probes, crashes, calm>>

AddrInUse(s) ==
  /\ socket # NoServer
  /\ Goes(s, "binding", "probing")
  /\ UNCHANGED <<daemon, files, start, probes, crashes, calm>>

(* wait_socket_working.                                                    *)
Connects(s) ==
  /\ socket \in listening
  /\ Goes(s, "probing", "adopting")
  /\ UNCHANGED <<daemon, files, start, probes, crashes, calm>>

(* Mutant: probing without end.                                            *)
Mut_ConnectFails(s) ==
  /\ socket \notin listening
  /\ Goes(s, "probing", "probing")
  /\ UNCHANGED <<daemon, files, start, probes, crashes, calm>>

ConnectFails(s) ==
  /\ socket \notin listening
  /\ probes' = [probes EXCEPT ![s] = @ + 1]
  /\ Goes(s, "probing", IF probes[s] + 1 < Probes THEN "probing" ELSE "removing")
  /\ UNCHANGED <<daemon, files, start, crashes, calm>>

(* A server is up: its address goes to the bundle and this one leaves.     *)
Adopts(s) ==
  /\ Goes(s, "adopting", "gone")
  /\ address' = address \cup {s}
  /\ UNCHANGED <<daemon, start, probes, socket, listening, crashes, calm>>

(* remove_socket, by name.  A server that shuts down is to have removed    *)
(* its own within the second the probes take.                              *)
RemovesSocket == socket' = NoServer

Removes(s) ==
  /\ Goes(s, "removing", "rebinding") /\ RemovesSocket
  /\ calm' = (calm /\ \A t \in Starts : server[t] # "unlinking")
  /\ UNCHANGED <<daemon, start, probes, listening, address, crashes>>

Rebinds(s) ==
  /\ Goes(s, "rebinding", "bound") /\ Binds(s)
  /\ UNCHANGED <<daemon, start, probes, address, crashes, calm>>

RebindFails(s) ==
  /\ socket # NoServer
  /\ Goes(s, "rebinding", "failed")
  /\ UNCHANGED <<daemon, files, start, probes, crashes, calm>>

(* The server runs and its standard output is closed.                      *)
Serves(s) ==
  /\ Goes(s, "bound", "serving")
  /\ UNCHANGED <<daemon, files, start, probes, crashes, calm>>

(* Task.shutdown with no container left.                                   *)
ExitSignal(s) ==
  /\ start[s] = "returned"
  /\ Goes(s, "serving", "stopping")
  /\ calm' = (calm /\ FallsCalmly)
  /\ UNCHANGED <<daemon, files, start, probes, crashes>>

ShutDown(s) ==
  /\ Goes(s, "stopping", "unlinking")
  /\ listening' = listening \ {s}
  /\ UNCHANGED <<daemon, start, probes, socket, address, crashes, calm>>

(* The address is read from the bundle's file.                             *)
Unlinks(s) ==
  /\ Goes(s, "unlinking", "gone")
  /\ IF s \in address THEN RemovesSocket ELSE UNCHANGED socket
  /\ UNCHANGED <<daemon, start, probes, listening, address, crashes, calm>>

(* A server is killed: its listener closes, its socket file stays.         *)
Killed(s) ==
  /\ crashes < MaxCrashes
  /\ server[s] \notin {"unborn", "gone", "failed", "killed"}
  /\ Dies(s)
  /\ UNCHANGED <<daemon, start, probes, socket, address>>

DaemonKilled ==
  /\ daemon = "up" /\ crashes < MaxCrashes
  /\ daemon' = "down" /\ crashes' = crashes + 1
  /\ UNCHANGED <<files, start, server, probes, calm>>

StartStep(s) == OutputEnds(s) \/ StartReturns(s)

ServerStep(s) ==
  \/ OpensLog(s) \/ PublisherConnects(s)
  \/ Bind(s) \/ AddrInUse(s) \/ Connects(s) \/ ConnectFails(s) \/ Adopts(s)
  \/ Removes(s) \/ Rebinds(s) \/ RebindFails(s) \/ Serves(s) \/ ShutDown(s) \/ Unlinks(s)

Next ==
  \/ DaemonKilled
  \/ \E s \in Starts : Start(s) \/ StartStep(s) \/ ServerStep(s) \/ ExitSignal(s)
                        \/ SetupFails(s) \/ ConfineFails(s) \/ Killed(s)

Spec == Init /\ [][Next]_vars

(* A process that can go on does; nobody has to start or stop a shim.      *)
Fairness == \A s \in Starts : WF_vars(StartStep(s)) /\ WF_vars(ServerStep(s))

FairSpec == Spec /\ Fairness
------------------------------------------------------------------------------
(***************************************************************************)
(* Properties                                                              *)
(***************************************************************************)
TypeOK ==
  /\ daemon \in {"up", "down"}
  /\ start \in [Starts -> {"idle", "spawned", "ended", "returned", "failed"}]
  /\ server \in [Starts -> ServerPcs]
  /\ probes \in [Starts -> 0..Probes]
  /\ socket \in Starts \cup {NoServer}
  /\ listening \in SUBSET Starts /\ address \in SUBSET Starts
  /\ crashes \in 0..MaxCrashes /\ calm \in BOOLEAN

(* A server that runs owns the socket of the address it was started for:   *)
(* neither the start of another, nor the end of one, the socket a killed   *)
(* one has left included, takes it away, as long as no two contend.  And a *)
(* socket file is gone with its server, unless that was killed: no later   *)
(* start has to wait for one that nobody serves.                           *)
Reachable ==
  /\ TypeOK
  /\ calm => \A s \in Starts : server[s] \in {"bound", "serving"} => socket = s
  /\ \A s \in Starts : socket = s => server[s] \notin {"gone", "failed"}

(* A start ends, whatever becomes of its server and of the others: what it *)
(* reads ends when its server serves, leaves or dies.  Without the daemon  *)
(* a server may wait for a reader of its log, and nobody for the start.    *)
StartEnds ==
  \A s \in Starts :
    start[s] = "spawned" ~> \/ start[s] \in {"returned", "failed"}
                            \/ daemon = "down" /\ server[s] = "logging"
==============================================================================
