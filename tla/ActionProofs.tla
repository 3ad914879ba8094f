---------------------------- MODULE ActionProofs ----------------------------
(***************************************************************************)
(* Theorems about the start and delete actions of the shim: about          *)
(* ShimServer, for any set of starts, any number of probes and of crashes; *)
(* and about BundleCleanup, for any set of tasks, any requests and any     *)
(* number of kills.                                                        *)
(***************************************************************************)
EXTENDS ShimServer, BundleCleanup, TLAPS

(* Who is still starting is spawned and not returned.                      *)
Starting == {"logging", "connecting", "binding", "probing", "adopting", "removing", "rebinding",
             "bound"}
Bound == {"bound", "serving", "stopping"}

StartInv ==
  \A s \in Starts :
    /\ server[s] \in Starting => start[s] = "spawned"
    /\ server[s] \in {"stopping", "unlinking"} => start[s] = "returned"
    /\ start[s] = "returned" => s \in address
    /\ server[s] \in {"unborn", "logging", "connecting", "binding", "probing"} =>
         probes[s] < Probes

(* A socket file is that of a server that has it, or was killed with it;   *)
(* its listener is open until the server stops.                            *)
SocketInv ==
  \A s \in Starts :
    /\ socket = s => server[s] \in Bound \cup {"unlinking", "killed"}
    /\ server[s] \in Bound => s \in listening

(* While servers have not contended, each that has bound owns the file.    *)
OwnsSocket == \A s \in Starts : server[s] \in Bound \cup {"unlinking"} => socket = s

(* Until then, who takes over the file of a dead server is alone.          *)
AloneAtTakeover ==
  \A t \in Starts : server[t] \in {"removing", "rebinding"} =>
    /\ \A s \in InFlight : s = t
    /\ \A s \in Starts : server[s] \notin Bound

(* Starts overlap only while a server is up.                               *)
OverlapGuarded == FallsCalmly \/ \E s \in Starts : Up(s)

CalmInv == calm => OwnsSocket /\ AloneAtTakeover /\ OverlapGuarded

IInv == TypeOK /\ StartInv /\ SocketInv /\ CalmInv
------------------------------------------------------------------------------
(* The first state satisfies the invariant: nobody has started yet.        *)
LEMMA InitInv == Init => IInv
  BY ConstantsAssumption
  DEF Init, IInv, TypeOK, StartInv, SocketInv, CalmInv, OwnsSocket, AloneAtTakeover,
      OverlapGuarded, FallsCalmly, InFlight, Starting, Bound, ServerPcs

(* A probe that fails is counted while there is one left.                  *)
LEMMA TypeStep ==
  ASSUME TypeOK, StartInv, [Next]_vars
  PROVE  TypeOK'
<1>Start. ASSUME NEW s \in Starts, Start(s) PROVE TypeOK'
  BY <1>Start DEF Start, Goes, files, TypeOK, StartInv, ServerPcs
<1>ConfineFails. ASSUME NEW s \in Starts, ConfineFails(s) PROVE TypeOK'
  BY <1>ConfineFails, ConstantsAssumption DEF ConfineFails, Goes, Dies, files, TypeOK, StartInv,
     ServerPcs
<1>OutputEnds. ASSUME NEW s \in Starts, OutputEnds(s) PROVE TypeOK'
  BY <1>OutputEnds DEF OutputEnds, Goes, files, TypeOK, StartInv, ServerPcs
<1>StartReturns. ASSUME NEW s \in Starts, StartReturns(s) PROVE TypeOK'
  BY <1>StartReturns DEF StartReturns, Goes, files, TypeOK, StartInv, ServerPcs
<1>OpensLog. ASSUME NEW s \in Starts, OpensLog(s) PROVE TypeOK'
  BY <1>OpensLog DEF OpensLog, Goes, files, TypeOK, StartInv, ServerPcs
<1>SetupFails. ASSUME NEW s \in Starts, SetupFails(s) PROVE TypeOK'
  BY <1>SetupFails, ConstantsAssumption DEF SetupFails, Goes, files, TypeOK, StartInv, ServerPcs
<1>PublisherConnects. ASSUME NEW s \in Starts, PublisherConnects(s) PROVE TypeOK'
  BY <1>PublisherConnects DEF PublisherConnects, Goes, connect, files, TypeOK, StartInv, ServerPcs
<1>Bind. ASSUME NEW s \in Starts, Bind(s) PROVE TypeOK'
  BY <1>Bind DEF Bind, Goes, Binds, files, TypeOK, StartInv, ServerPcs
<1>AddrInUse. ASSUME NEW s \in Starts, AddrInUse(s) PROVE TypeOK'
  BY <1>AddrInUse DEF AddrInUse, Goes, files, TypeOK, StartInv, ServerPcs
<1>Connects. ASSUME NEW s \in Starts, Connects(s) PROVE TypeOK'
  BY <1>Connects DEF Connects, Goes, files, TypeOK, StartInv, ServerPcs
<1>ConnectFails. ASSUME NEW s \in Starts, ConnectFails(s) PROVE TypeOK'
  BY <1>ConnectFails, ConstantsAssumption DEF ConnectFails, Goes, files, TypeOK, StartInv,
     ServerPcs
<1>Adopts. ASSUME NEW s \in Starts, Adopts(s) PROVE TypeOK'
  BY <1>Adopts DEF Adopts, Goes, files, TypeOK, StartInv, ServerPcs
<1>Removes. ASSUME NEW s \in Starts, Removes(s) PROVE TypeOK'
  BY <1>Removes DEF Removes, Goes, RemovesSocket, files, TypeOK, StartInv, ServerPcs
<1>Rebinds. ASSUME NEW s \in Starts, Rebinds(s) PROVE TypeOK'
  BY <1>Rebinds DEF Rebinds, Goes, Binds, files, TypeOK, StartInv, ServerPcs
<1>RebindFails. ASSUME NEW s \in Starts, RebindFails(s) PROVE TypeOK'
  BY <1>RebindFails DEF RebindFails, Goes, files, TypeOK, StartInv, ServerPcs
<1>Serves. ASSUME NEW s \in Starts, Serves(s) PROVE TypeOK'
  BY <1>Serves DEF Serves, Goes, files, TypeOK, StartInv, ServerPcs
<1>ExitSignal. ASSUME NEW s \in Starts, ExitSignal(s) PROVE TypeOK'
  BY <1>ExitSignal DEF ExitSignal, Goes, files, TypeOK, StartInv, ServerPcs
<1>ShutDown. ASSUME NEW s \in Starts, ShutDown(s) PROVE TypeOK'
  BY <1>ShutDown DEF ShutDown, Goes, files, TypeOK, StartInv, ServerPcs
<1>Unlinks. ASSUME NEW s \in Starts, Unlinks(s) PROVE TypeOK'
  BY <1>Unlinks DEF Unlinks, Goes, RemovesSocket, files, TypeOK, StartInv, ServerPcs
<1>Killed. ASSUME NEW s \in Starts, Killed(s) PROVE TypeOK'
  BY <1>Killed, ConstantsAssumption DEF Killed, Goes, Dies, files, TypeOK, StartInv, ServerPcs
<1>Daemon. ASSUME DaemonKilled PROVE TypeOK'
  BY <1>Daemon, ConstantsAssumption DEF DaemonKilled, files, TypeOK, StartInv, ServerPcs
<1>Stutter. ASSUME UNCHANGED vars PROVE TypeOK'
  BY <1>Stutter DEF vars, files, TypeOK, StartInv, ServerPcs
<1> QED
  BY <1>Start, <1>ConfineFails, <1>OutputEnds, <1>StartReturns, <1>OpensLog, <1>SetupFails,
     <1>PublisherConnects,
     <1>Bind, <1>AddrInUse, <1>Connects, <1>ConnectFails, <1>Adopts, <1>Removes, <1>Rebinds,
     <1>RebindFails, <1>Serves, <1>ExitSignal, <1>ShutDown, <1>Unlinks, <1>Killed, <1>Daemon,
     <1>Stutter
  DEF Next, StartStep, ServerStep

(* A server that is to stop was returned, and so has its address file.     *)
LEMMA StartInvStep ==
  ASSUME TypeOK, StartInv, [Next]_vars
  PROVE  StartInv'
<1>Start. ASSUME NEW s \in Starts, Start(s) PROVE StartInv'
  BY <1>Start DEF Start, Goes, files, TypeOK, StartInv, Starting
<1>ConfineFails. ASSUME NEW s \in Starts, ConfineFails(s) PROVE StartInv'
  BY <1>ConfineFails DEF ConfineFails, Goes, Dies, files, TypeOK, StartInv, Starting
<1>OutputEnds. ASSUME NEW s \in Starts, OutputEnds(s) PROVE StartInv'
  BY <1>OutputEnds DEF OutputEnds, Goes, files, TypeOK, StartInv, Starting
<1>StartReturns. ASSUME NEW s \in Starts, StartReturns(s) PROVE StartInv'
  BY <1>StartReturns DEF StartReturns, Goes, files, TypeOK, StartInv, Starting
<1>OpensLog. ASSUME NEW s \in Starts, OpensLog(s) PROVE StartInv'
  BY <1>OpensLog DEF OpensLog, Goes, files, TypeOK, StartInv, Starting
<1>SetupFails. ASSUME NEW s \in Starts, SetupFails(s) PROVE StartInv'
  BY <1>SetupFails DEF SetupFails, Goes, files, TypeOK, StartInv, Starting
<1>PublisherConnects. ASSUME NEW s \in Starts, PublisherConnects(s) PROVE StartInv'
  BY <1>PublisherConnects DEF PublisherConnects, Goes, connect, files, TypeOK, StartInv, Starting
<1>Bind. ASSUME NEW s \in Starts, Bind(s) PROVE StartInv'
  BY <1>Bind DEF Bind, Goes, Binds, files, TypeOK, StartInv, Starting
<1>AddrInUse. ASSUME NEW s \in Starts, AddrInUse(s) PROVE StartInv'
  BY <1>AddrInUse DEF AddrInUse, Goes, files, TypeOK, StartInv, Starting
<1>Connects. ASSUME NEW s \in Starts, Connects(s) PROVE StartInv'
  BY <1>Connects DEF Connects, Goes, files, TypeOK, StartInv, Starting
<1>ConnectFails. ASSUME NEW s \in Starts, ConnectFails(s) PROVE StartInv'
  BY <1>ConnectFails DEF ConnectFails, Goes, files, TypeOK, StartInv, Starting
<1>Adopts. ASSUME NEW s \in Starts, Adopts(s) PROVE StartInv'
  BY <1>Adopts DEF Adopts, Goes, files, TypeOK, StartInv, Starting
<1>Removes. ASSUME NEW s \in Starts, Removes(s) PROVE StartInv'
  BY <1>Removes DEF Removes, Goes, RemovesSocket, files, TypeOK, StartInv, Starting
<1>Rebinds. ASSUME NEW s \in Starts, Rebinds(s) PROVE StartInv'
  BY <1>Rebinds DEF Rebinds, Goes, Binds, files, TypeOK, StartInv, Starting
<1>RebindFails. ASSUME NEW s \in Starts, RebindFails(s) PROVE StartInv'
  BY <1>RebindFails DEF RebindFails, Goes, files, TypeOK, StartInv, Starting
<1>Serves. ASSUME NEW s \in Starts, Serves(s) PROVE StartInv'
  BY <1>Serves DEF Serves, Goes, files, TypeOK, StartInv, Starting
<1>ExitSignal. ASSUME NEW s \in Starts, ExitSignal(s) PROVE StartInv'
  BY <1>ExitSignal DEF ExitSignal, Goes, files, TypeOK, StartInv, Starting
<1>ShutDown. ASSUME NEW s \in Starts, ShutDown(s) PROVE StartInv'
  BY <1>ShutDown DEF ShutDown, Goes, files, TypeOK, StartInv, Starting
<1>Unlinks. ASSUME NEW s \in Starts, Unlinks(s) PROVE StartInv'
  BY <1>Unlinks DEF Unlinks, Goes, RemovesSocket, files, TypeOK, StartInv, Starting
<1>Killed. ASSUME NEW s \in Starts, Killed(s) PROVE StartInv'
  BY <1>Killed DEF Killed, Goes, Dies, files, TypeOK, StartInv, Starting
<1>Daemon. ASSUME DaemonKilled PROVE StartInv'
  BY <1>Daemon DEF DaemonKilled, files, TypeOK, StartInv, Starting
<1>Stutter. ASSUME UNCHANGED vars PROVE StartInv'
  BY <1>Stutter DEF vars, files, TypeOK, StartInv, Starting
<1> QED
  BY <1>Start, <1>ConfineFails, <1>OutputEnds, <1>StartReturns, <1>OpensLog, <1>SetupFails,
     <1>PublisherConnects,
     <1>Bind, <1>AddrInUse, <1>Connects, <1>ConnectFails, <1>Adopts, <1>Removes, <1>Rebinds,
     <1>RebindFails, <1>Serves, <1>ExitSignal, <1>ShutDown, <1>Unlinks, <1>Killed, <1>Daemon,
     <1>Stutter
  DEF Next, StartStep, ServerStep

(* A server leaves by itself only without a socket, or after its removal:  *)
(* it finds the address.                                                   *)
LEMMA SocketInvStep ==
  ASSUME TypeOK, StartInv, SocketInv, [Next]_vars
  PROVE  SocketInv'
<1>Start. ASSUME NEW s \in Starts, Start(s) PROVE SocketInv'
  BY <1>Start DEF Start, Goes, files, TypeOK, StartInv, SocketInv, Bound
<1>ConfineFails. ASSUME NEW s \in Starts, ConfineFails(s) PROVE SocketInv'
  BY <1>ConfineFails DEF ConfineFails, Goes, Dies, files, TypeOK, StartInv, SocketInv, Bound
<1>OutputEnds. ASSUME NEW s \in Starts, OutputEnds(s) PROVE SocketInv'
  BY <1>OutputEnds DEF OutputEnds, Goes, files, TypeOK, StartInv, SocketInv, Bound
<1>StartReturns. ASSUME NEW s \in Starts, StartReturns(s) PROVE SocketInv'
  BY <1>StartReturns DEF StartReturns, Goes, files, TypeOK, StartInv, SocketInv, Bound
<1>OpensLog. ASSUME NEW s \in Starts, OpensLog(s) PROVE SocketInv'
  BY <1>OpensLog DEF OpensLog, Goes, files, TypeOK, StartInv, SocketInv, Bound
<1>SetupFails. ASSUME NEW s \in Starts, SetupFails(s) PROVE SocketInv'
  BY <1>SetupFails DEF SetupFails, Goes, files, TypeOK, StartInv, SocketInv, Bound
<1>PublisherConnects. ASSUME NEW s \in Starts, PublisherConnects(s) PROVE SocketInv'
  BY <1>PublisherConnects DEF PublisherConnects, Goes, connect, files, TypeOK, StartInv,
     SocketInv, Bound
<1>Bind. ASSUME NEW s \in Starts, Bind(s) PROVE SocketInv'
  BY <1>Bind DEF Bind, Goes, Binds, files, TypeOK, StartInv, SocketInv, Bound
<1>AddrInUse. ASSUME NEW s \in Starts, AddrInUse(s) PROVE SocketInv'
  BY <1>AddrInUse DEF AddrInUse, Goes, files, TypeOK, StartInv, SocketInv, Bound
<1>Connects. ASSUME NEW s \in Starts, Connects(s) PROVE SocketInv'
  BY <1>Connects DEF Connects, Goes, files, TypeOK, StartInv, SocketInv, Bound
<1>ConnectFails. ASSUME NEW s \in Starts, ConnectFails(s) PROVE SocketInv'
  BY <1>ConnectFails DEF ConnectFails, Goes, files, TypeOK, StartInv, SocketInv, Bound
<1>Adopts. ASSUME NEW s \in Starts, Adopts(s) PROVE SocketInv'
  BY <1>Adopts DEF Adopts, Goes, files, TypeOK, StartInv, SocketInv, Bound
<1>Removes. ASSUME NEW s \in Starts, Removes(s) PROVE SocketInv'
  BY <1>Removes, ConstantsAssumption DEF Removes, Goes, RemovesSocket, files, TypeOK, StartInv,
     SocketInv, Bound
<1>Rebinds. ASSUME NEW s \in Starts, Rebinds(s) PROVE SocketInv'
  BY <1>Rebinds DEF Rebinds, Goes, Binds, files, TypeOK, StartInv, SocketInv, Bound
<1>RebindFails. ASSUME NEW s \in Starts, RebindFails(s) PROVE SocketInv'
  BY <1>RebindFails DEF RebindFails, Goes, files, TypeOK, StartInv, SocketInv, Bound
<1>Serves. ASSUME NEW s \in Starts, Serves(s) PROVE SocketInv'
  BY <1>Serves DEF Serves, Goes, files, TypeOK, StartInv, SocketInv, Bound
<1>ExitSignal. ASSUME NEW s \in Starts, ExitSignal(s) PROVE SocketInv'
  BY <1>ExitSignal DEF ExitSignal, Goes, files, TypeOK, StartInv, SocketInv, Bound
<1>ShutDown. ASSUME NEW s \in Starts, ShutDown(s) PROVE SocketInv'
  BY <1>ShutDown DEF ShutDown, Goes, files, TypeOK, StartInv, SocketInv, Bound
<1>Unlinks. ASSUME NEW s \in Starts, Unlinks(s) PROVE SocketInv'
  BY <1>Unlinks, ConstantsAssumption DEF Unlinks, Goes, RemovesSocket, files, TypeOK, StartInv,
     SocketInv, Bound
<1>Killed. ASSUME NEW s \in Starts, Killed(s) PROVE SocketInv'
  BY <1>Killed DEF Killed, Goes, Dies, files, TypeOK, StartInv, SocketInv, Bound
<1>Daemon. ASSUME DaemonKilled PROVE SocketInv'
  BY <1>Daemon DEF DaemonKilled, files, TypeOK, StartInv, SocketInv, Bound
<1>Stutter. ASSUME UNCHANGED vars PROVE SocketInv'
  BY <1>Stutter DEF vars, files, TypeOK, StartInv, SocketInv, Bound
<1> QED
  BY <1>Start, <1>ConfineFails, <1>OutputEnds, <1>StartReturns, <1>OpensLog, <1>SetupFails,
     <1>PublisherConnects,
     <1>Bind, <1>AddrInUse, <1>Connects, <1>ConnectFails, <1>Adopts, <1>Removes, <1>Rebinds,
     <1>RebindFails, <1>Serves, <1>ExitSignal, <1>ShutDown, <1>Unlinks, <1>Killed, <1>Daemon,
     <1>Stutter
  DEF Next, StartStep, ServerStep

(* A start, a fall and a removal are calm only by what they find; what one *)
(* finds stays as it is as long as the others are calm.                    *)
LEMMA CalmInvStep ==
  ASSUME TypeOK, StartInv, SocketInv, CalmInv, [Next]_vars
  PROVE  CalmInv'
<1>Start. ASSUME NEW s \in Starts, Start(s) PROVE CalmInv'
  BY <1>Start, ZenonT(30) DEF Start, Goes, files, TypeOK, StartInv,
     SocketInv, CalmInv, OwnsSocket, AloneAtTakeover, OverlapGuarded, Bound, Starting,
     FallsCalmly, StartsCalmly, InFlight, Up
<1>ConfineFails. ASSUME NEW s \in Starts, ConfineFails(s) PROVE CalmInv'
  <2> SUFFICES ASSUME calm' PROVE (OwnsSocket /\ AloneAtTakeover /\ OverlapGuarded)'
    BY DEF CalmInv
  <2>1. calm /\ FallsCalmly /\ socket' = socket
    BY <1>ConfineFails DEF ConfineFails, Dies
  <2>2. \A t \in Starts : server'[t] = server[t] \/ server'[t] = "killed"
    BY <1>ConfineFails DEF ConfineFails, Dies, TypeOK
  <2>3. InFlight' \subseteq InFlight
    BY <1>ConfineFails DEF ConfineFails, InFlight, TypeOK
  <2>4. OwnsSocket'
    BY <2>1, <2>2 DEF CalmInv, OwnsSocket, Bound
  <2>5. AloneAtTakeover'
    BY <2>1, <2>2, <2>3 DEF CalmInv, AloneAtTakeover, Bound
  <2>6. OverlapGuarded'
    BY <2>1, <2>3 DEF OverlapGuarded, FallsCalmly
  <2> QED
    BY <2>4, <2>5, <2>6
<1>OutputEnds. ASSUME NEW s \in Starts, OutputEnds(s) PROVE CalmInv'
  BY <1>OutputEnds DEF OutputEnds, Goes, files, TypeOK, StartInv,
     SocketInv, CalmInv, OwnsSocket, AloneAtTakeover, OverlapGuarded, Bound, Starting,
     FallsCalmly, StartsCalmly, InFlight, Up
<1>StartReturns. ASSUME NEW s \in Starts, StartReturns(s) PROVE CalmInv'
  BY <1>StartReturns DEF StartReturns, Goes, files, TypeOK, StartInv,
     SocketInv, CalmInv, OwnsSocket, AloneAtTakeover, OverlapGuarded, Bound, Starting,
     FallsCalmly, StartsCalmly, InFlight, Up
<1>OpensLog. ASSUME NEW s \in Starts, OpensLog(s) PROVE CalmInv'
  BY <1>OpensLog DEF OpensLog, Goes, files, TypeOK, StartInv,
     SocketInv, CalmInv, OwnsSocket, AloneAtTakeover, OverlapGuarded, Bound, Starting,
     FallsCalmly, StartsCalmly, InFlight, Up
<1>SetupFails. ASSUME NEW s \in Starts, SetupFails(s) PROVE CalmInv'
  BY <1>SetupFails DEF SetupFails, Goes, files, TypeOK, StartInv,
     SocketInv, CalmInv, OwnsSocket, AloneAtTakeover, OverlapGuarded, Bound, Starting,
     FallsCalmly, StartsCalmly, InFlight, Up
<1>PublisherConnects. ASSUME NEW s \in Starts, PublisherConnects(s) PROVE CalmInv'
  BY <1>PublisherConnects DEF PublisherConnects, Goes, connect, files, TypeOK, StartInv,
     SocketInv, CalmInv, OwnsSocket, AloneAtTakeover, OverlapGuarded, Bound, Starting,
     FallsCalmly, StartsCalmly, InFlight, Up
<1>Bind. ASSUME NEW s \in Starts, Bind(s) PROVE CalmInv'
  BY <1>Bind, ConstantsAssumption DEF Bind, Goes, Binds, files, TypeOK, StartInv,
     SocketInv, CalmInv, OwnsSocket, AloneAtTakeover, OverlapGuarded, Bound, Starting,
     FallsCalmly, StartsCalmly, InFlight, Up
<1>AddrInUse. ASSUME NEW s \in Starts, AddrInUse(s) PROVE CalmInv'
  BY <1>AddrInUse DEF AddrInUse, Goes, files, TypeOK, StartInv,
     SocketInv, CalmInv, OwnsSocket, AloneAtTakeover, OverlapGuarded, Bound, Starting,
     FallsCalmly, StartsCalmly, InFlight, Up
<1>Connects. ASSUME NEW s \in Starts, Connects(s) PROVE CalmInv'
  BY <1>Connects DEF Connects, Goes, files, TypeOK, StartInv,
     SocketInv, CalmInv, OwnsSocket, AloneAtTakeover, OverlapGuarded, Bound, Starting,
     FallsCalmly, StartsCalmly, InFlight, Up
<1>ConnectFails. ASSUME NEW s \in Starts, ConnectFails(s) PROVE CalmInv'
  BY <1>ConnectFails DEF ConnectFails, Goes, files, TypeOK, StartInv,
     SocketInv, CalmInv, OwnsSocket, AloneAtTakeover, OverlapGuarded, Bound, Starting,
     FallsCalmly, StartsCalmly, InFlight, Up
<1>Adopts. ASSUME NEW s \in Starts, Adopts(s) PROVE CalmInv'
  BY <1>Adopts DEF Adopts, Goes, files, TypeOK, StartInv,
     SocketInv, CalmInv, OwnsSocket, AloneAtTakeover, OverlapGuarded, Bound, Starting,
     FallsCalmly, StartsCalmly, InFlight, Up
<1>Removes. ASSUME NEW s \in Starts, Removes(s) PROVE CalmInv'
  <2> SUFFICES ASSUME calm' PROVE (OwnsSocket /\ AloneAtTakeover /\ OverlapGuarded)'
    BY DEF CalmInv
  <2>1. calm /\ start' = start /\ \A t \in Starts : server[t] # "unlinking"
    BY <1>Removes DEF Removes
  <2>2. server[s] = "removing" /\ server' = [server EXCEPT ![s] = "rebinding"]
    BY <1>Removes DEF Removes, Goes
  <2>3. /\ \A t \in InFlight : t = s
        /\ \A t \in Starts : server[t] \notin Bound
    BY <2>1, <2>2 DEF CalmInv, AloneAtTakeover
  <2>4. OwnsSocket'
    BY <2>1, <2>2, <2>3 DEF TypeOK, OwnsSocket, Bound
  <2>5. AloneAtTakeover'
    BY <2>1, <2>2, <2>3 DEF TypeOK, CalmInv, AloneAtTakeover, InFlight, Bound
  <2>6. OverlapGuarded'
    BY <2>1, <2>3 DEF OverlapGuarded, FallsCalmly, InFlight
  <2> QED
    BY <2>4, <2>5, <2>6
<1>Rebinds. ASSUME NEW s \in Starts, Rebinds(s) PROVE CalmInv'
  BY <1>Rebinds, ConstantsAssumption DEF Rebinds, Goes, Binds, files, TypeOK, StartInv,
     SocketInv, CalmInv, OwnsSocket, AloneAtTakeover, OverlapGuarded, Bound, Starting,
     FallsCalmly, StartsCalmly, InFlight, Up
<1>RebindFails. ASSUME NEW s \in Starts, RebindFails(s) PROVE CalmInv'
  BY <1>RebindFails DEF RebindFails, Goes, files, TypeOK, StartInv,
     SocketInv, CalmInv, OwnsSocket, AloneAtTakeover, OverlapGuarded, Bound, Starting,
     FallsCalmly, StartsCalmly, InFlight, Up
<1>Serves. ASSUME NEW s \in Starts, Serves(s) PROVE CalmInv'
  BY <1>Serves DEF Serves, Goes, files, TypeOK, StartInv,
     SocketInv, CalmInv, OwnsSocket, AloneAtTakeover, OverlapGuarded, Bound, Starting,
     FallsCalmly, StartsCalmly, InFlight, Up
<1>ExitSignal. ASSUME NEW s \in Starts, ExitSignal(s) PROVE CalmInv'
  BY <1>ExitSignal, ZenonT(30) DEF ExitSignal, Goes, files, TypeOK, StartInv,
     SocketInv, CalmInv, OwnsSocket, AloneAtTakeover, OverlapGuarded, Bound, Starting,
     FallsCalmly, StartsCalmly, InFlight, Up
<1>ShutDown. ASSUME NEW s \in Starts, ShutDown(s) PROVE CalmInv'
  BY <1>ShutDown DEF ShutDown, Goes, files, TypeOK, StartInv,
     SocketInv, CalmInv, OwnsSocket, AloneAtTakeover, OverlapGuarded, Bound, Starting,
     FallsCalmly, StartsCalmly, InFlight, Up
<1>Unlinks. ASSUME NEW s \in Starts, Unlinks(s) PROVE CalmInv'
  <2> SUFFICES ASSUME calm' PROVE (OwnsSocket /\ AloneAtTakeover /\ OverlapGuarded)'
    BY DEF CalmInv
  <2>1. calm /\ socket = s /\ start' = start
    BY <1>Unlinks DEF Unlinks, Goes, CalmInv, OwnsSocket
  <2>2. server[s] = "unlinking" /\ server' = [server EXCEPT ![s] = "gone"]
    BY <1>Unlinks DEF Unlinks, Goes
  <2>3. \A t \in Starts \ {s} : server[t] \notin Bound \cup {"unlinking"}
    BY <2>1 DEF CalmInv, OwnsSocket
  <2>4. OwnsSocket'
    BY <2>2, <2>3 DEF TypeOK, OwnsSocket, Bound
  <2>5. AloneAtTakeover'
    BY <2>1, <2>2 DEF TypeOK, CalmInv, AloneAtTakeover, InFlight, Bound
  <2>6. ~ \E t \in Starts : Up(t)
    BY <2>1, <2>2 DEF Up
  <2>7. OverlapGuarded'
    BY <2>1, <2>6 DEF CalmInv, OverlapGuarded, FallsCalmly, InFlight
  <2> QED
    BY <2>4, <2>5, <2>7
<1>Killed. ASSUME NEW s \in Starts, Killed(s) PROVE CalmInv'
  <2> SUFFICES ASSUME calm' PROVE (OwnsSocket /\ AloneAtTakeover /\ OverlapGuarded)'
    BY DEF CalmInv
  <2>1. calm /\ FallsCalmly /\ start' = start /\ socket' = socket
    BY <1>Killed DEF Killed, Dies
  <2>2. server' = [server EXCEPT ![s] = "killed"]
    BY <1>Killed DEF Killed, Dies, TypeOK
  <2>3. OwnsSocket'
    BY <2>1, <2>2 DEF TypeOK, CalmInv, OwnsSocket, Bound
  <2>4. AloneAtTakeover'
    BY <2>1, <2>2 DEF TypeOK, CalmInv, AloneAtTakeover, InFlight, Bound
  <2>5. OverlapGuarded'
    BY <2>1 DEF OverlapGuarded, FallsCalmly, InFlight
  <2> QED
    BY <2>3, <2>4, <2>5
<1>Daemon. ASSUME DaemonKilled PROVE CalmInv'
  BY <1>Daemon DEF DaemonKilled, files, TypeOK, StartInv,
     SocketInv, CalmInv, OwnsSocket, AloneAtTakeover, OverlapGuarded, Bound, Starting,
     FallsCalmly, StartsCalmly, InFlight, Up
<1>Stutter. ASSUME UNCHANGED vars PROVE CalmInv'
  BY <1>Stutter DEF vars, files, TypeOK, StartInv,
     SocketInv, CalmInv, OwnsSocket, AloneAtTakeover, OverlapGuarded, Bound, Starting,
     FallsCalmly, StartsCalmly, InFlight, Up
<1> QED
  BY <1>Start, <1>ConfineFails, <1>OutputEnds, <1>StartReturns, <1>OpensLog, <1>SetupFails,
     <1>PublisherConnects,
     <1>Bind, <1>AddrInUse, <1>Connects, <1>ConnectFails, <1>Adopts, <1>Removes, <1>Rebinds,
     <1>RebindFails, <1>Serves, <1>ExitSignal, <1>ShutDown, <1>Unlinks, <1>Killed, <1>Daemon,
     <1>Stutter
  DEF Next, StartStep, ServerStep

(* What the starts and servers rely on holds in every reachable state.     *)
THEOREM Invariant == Spec => []IInv
<1>1. Init => IInv
  BY InitInv
<1>2. IInv /\ [Next]_vars => IInv'
  BY TypeStep, StartInvStep, SocketInvStep, CalmInvStep DEF IInv
<1> QED
  BY <1>1, <1>2, PTL DEF Spec

(* A server that runs owns the socket of its address as long as no two     *)
(* contend, and one that has left by itself has left no socket.            *)
THEOREM ServersAreReachable == Spec => []Reachable
<1>1. IInv => Reachable
  BY DEF IInv, TypeOK, SocketInv, CalmInv, OwnsSocket, Bound, Reachable
<1> QED
  BY <1>1, Invariant, PTL
------------------------------------------------------------------------------
(* The delete action.                                                      *)
(* The types of the variables.                                             *)
BundleTypes ==
  /\ request \in [Tasks -> Requests]
  /\ shim \in {"up", "down"}
  /\ pc \in [Tasks -> {"new", "options", "runtime", "mount", "client", "create", "created",
                      "deleted", "failed"}]
  /\ work \in [Tasks -> {"none", "options", "runtime", "mount"}]
  /\ action \in [Tasks -> {"none", "delete", "umount", "replied", "error"}]
  /\ options = [t \in Tasks |-> options[t]] /\ runtime = [t \in Tasks |-> runtime[t]]
  /\ read = [t \in Tasks |-> read[t]]

(* The files are whole and say what was asked, and they are all there      *)
(* before the runtime has the task.                                        *)
OptionsWritten(t) == options[t] = JsonOptions(Options(request[t]))
RuntimeWritten(t) == runtime[t] = request[t].binary
Recorded(t) == t \in running \/ \E c \in containers : c.task = t

FilesInv ==
  \A t \in Tasks :
    /\ options[t] = NoFile \/ OptionsWritten(t)
    /\ runtime[t] = NoFile \/ RuntimeWritten(t)
    /\ pc[t] = "runtime" \/ work[t] = "runtime" => OptionsWritten(t)
    /\ pc[t] \in {"mount", "client", "create", "created"} \/ work[t] = "mount" \/ Recorded(t) =>
         OptionsWritten(t) /\ RuntimeWritten(t)

ContainersInv == \A c \in containers : c = Client(c.task) /\ c.task \in Tasks

(* A delete action runs when the create it cleans up after goes no further.*)
ActionInv ==
  /\ shim = "down" => \A t \in Tasks : work[t] = "none"
  /\ \A t \in Tasks :
       /\ action[t] # "none" => shim = "down" \/ pc[t] \in {"failed", "deleted"}
       /\ action[t] \notin {"none", "error"} /\ Recorded(t) =>
            read[t] = [binary |-> request[t].binary, root |-> request[t].root]
       /\ action[t] = "error" => create_runc(t, read[t], t).binary \notin installed

(* What the action has done stays done, but for what outlives it.          *)
DoneInv ==
  \A t \in Tasks :
    /\ action[t] \in {"umount", "replied"} /\ t \notin outlived => t \notin running
    /\ action[t] \in {"umount", "replied"} /\ t \notin faulted \cup outlived /\ SameDirectory(t) =>
         \A c \in containers : c.task # t
    /\ action[t] = "replied" /\ t \notin outlived => work[t] # "mount"
    /\ action[t] = "replied" /\ t \notin faulted \cup outlived => t \notin mounted

CleanupInv == BundleTypes /\ FilesInv /\ ContainersInv /\ ActionInv /\ DoneInv
----------------------------------------------------------------------------
(* Every process resolves an absolute directory alike.                     *)
LEMMA AbsoluteStays ==
  ASSUME NEW root, IsAbsolute(root), NEW here, NEW there
  PROVE  abs_path_buf(here, root) = abs_path_buf(there, root)
  BY DEF abs_path_buf, IsAbsolute

(* The client depends on the directory, not on how it is written.          *)
LEMMA SameClient ==
  ASSUME NEW t \in Tasks, SameDirectory(t)
  PROVE  create_runc(t, request[t], t) = Client(t)
<1>1. IsAbsolute(IF request[t].root = NoName THEN DefaultRoot ELSE request[t].root)
  BY RequestsAssumption DEF SameDirectory
<1> QED
  BY <1>1, AbsoluteStays DEF create_runc, Client

(* The client says which task it is for.                                   *)
LEMMA ClientOf == \A t : Client(t).task = t
  BY DEF Client, create_runc

(* Options that are written parse, and name the directory that was asked.  *)
LEMMA OptionsReadBack ==
  ASSUME BundleTypes, NEW t \in Tasks, OptionsWritten(t)
  PROVE  Parses(options[t]) /\ RootIn(options[t]) = request[t].root
<1>1. request[t] \in Requests
  BY DEF BundleTypes
<1>2. options[t] \notin {NoFile, Torn}
  BY <1>1, RequestsAssumption DEF OptionsWritten
<1>3. DOMAIN options[t] = Fields
  BY DEF OptionsWritten, JsonOptions
<1>4. options[t]["root"] = request[t].root
  BY DEF OptionsWritten, JsonOptions, Options, Fields
<1> QED
  BY <1>2, <1>3, <1>4 DEF Parses, RootIn

(* The first state satisfies the invariant: no bundle has a file.          *)
LEMMA CleanupInitInv == CleanupInit => CleanupInv
  BY DEF CleanupInit, CleanupInv, BundleTypes, FilesInv, ContainersInv, ActionInv, DoneInv,
         Recorded

(* Every step keeps the types.                                             *)
LEMMA BundleTypesStep ==
  ASSUME BundleTypes, [CleanupNext]_cleanupVars
  PROVE  BundleTypes'
<1>Begin. ASSUME NEW t \in Tasks, Begin(t) PROVE BundleTypes'
  BY <1>Begin DEF Begin, CreateGoes, given, bundleFiles, cleaning, bundles, BundleTypes
<1>WriteOptions. ASSUME NEW t \in Tasks, WriteOptions(t) PROVE BundleTypes'
  BY <1>WriteOptions DEF WriteOptions, Works, given, bundleFiles, cleaning, bundles, BundleTypes
<1>WriteRuntime. ASSUME NEW t \in Tasks, WriteRuntime(t) PROVE BundleTypes'
  BY <1>WriteRuntime DEF WriteRuntime, Works, given, bundleFiles, cleaning, bundles, BundleTypes
<1>MountRootfs. ASSUME NEW t \in Tasks, MountRootfs(t) PROVE BundleTypes'
  BY <1>MountRootfs DEF MountRootfs, Works, given, bundleFiles, cleaning, bundles, BundleTypes
<1>WorkFails. ASSUME NEW t \in Tasks, WorkFails(t) PROVE BundleTypes'
  BY <1>WorkFails DEF WorkFails, Works, given, bundleFiles, cleaning, bundles, BundleTypes
<1>RuncCreate. ASSUME NEW t \in Tasks, RuncCreate(t) PROVE BundleTypes'
  BY <1>RuncCreate DEF RuncCreate, CreateGoes, given, bundleFiles, cleaning, bundles, BundleTypes
<1>NoBinary. ASSUME NEW t \in Tasks, NoBinary(t) PROVE BundleTypes'
  BY <1>NoBinary DEF NoBinary, CreateGoes, given, bundleFiles, cleaning, bundles, BundleTypes
<1>Timeout. ASSUME NEW t \in Tasks, Timeout(t) PROVE BundleTypes'
  BY <1>Timeout DEF Timeout, CreateGoes, given, bundleFiles, cleaning, bundles, BundleTypes
<1>Records. ASSUME NEW t \in Tasks, Records(t) PROVE BundleTypes'
  BY <1>Records DEF Records, given, bundleFiles, cleaning, bundles, BundleTypes
<1>RuncEnds. ASSUME NEW t \in Tasks, RuncEnds(t) PROVE BundleTypes'
  BY <1>RuncEnds DEF RuncEnds, given, bundleFiles, cleaning, bundles, BundleTypes
<1>TaskDelete. ASSUME NEW t \in Tasks, TaskDelete(t) PROVE BundleTypes'
  BY <1>TaskDelete DEF TaskDelete, CreateGoes, given, bundleFiles, cleaning, bundles, BundleTypes
<1>ReadBundle. ASSUME NEW t \in Tasks, ReadBundle(t) PROVE BundleTypes'
  BY <1>ReadBundle DEF ReadBundle, given, bundleFiles, cleaning, bundles, BundleTypes
<1>RuncDelete. ASSUME NEW t \in Tasks, RuncDelete(t) PROVE BundleTypes'
  BY <1>RuncDelete DEF RuncDelete, given, bundleFiles, cleaning, bundles, BundleTypes
<1>Umount. ASSUME NEW t \in Tasks, Umount(t) PROVE BundleTypes'
  BY <1>Umount DEF Umount, given, bundleFiles, cleaning, bundles, BundleTypes
<1>KillAction. ASSUME NEW t \in Tasks, KillAction(t) PROVE BundleTypes'
  BY <1>KillAction DEF KillAction, given, bundleFiles, cleaning, bundles, BundleTypes
<1>Kill. ASSUME Kill PROVE BundleTypes'
  BY <1>Kill DEF Kill, given, bundleFiles, cleaning, bundles, BundleTypes
<1>Stutter. ASSUME UNCHANGED cleanupVars PROVE BundleTypes'
  BY <1>Stutter DEF cleanupVars, given, bundleFiles, cleaning, bundles, BundleTypes
<1> QED
  BY <1>Begin, <1>WriteOptions, <1>WriteRuntime, <1>MountRootfs, <1>WorkFails, <1>RuncCreate,
     <1>NoBinary, <1>Timeout, <1>Records, <1>RuncEnds, <1>TaskDelete, <1>ReadBundle, <1>RuncDelete,
     <1>Umount, <1>KillAction, <1>Kill, <1>Stutter
  DEF CleanupNext

(* A create writes its files before it calls the runtime; a thread that    *)
(* works on for a dropped one writes the same.                             *)
LEMMA FilesStep ==
  ASSUME BundleTypes, FilesInv, ContainersInv, [CleanupNext]_cleanupVars
  PROVE  FilesInv'
<1>Begin. ASSUME NEW t \in Tasks, Begin(t) PROVE FilesInv'
  BY <1>Begin
  DEF Begin, CreateGoes, given, bundleFiles, cleaning, bundles, BundleTypes, FilesInv,
      ContainersInv, OptionsWritten, RuntimeWritten, Recorded
<1>WriteOptions. ASSUME NEW t \in Tasks, WriteOptions(t) PROVE FilesInv'
  BY <1>WriteOptions
  DEF WriteOptions, Works, given, bundleFiles, cleaning, bundles, BundleTypes, FilesInv,
      ContainersInv, OptionsWritten, RuntimeWritten, Recorded
<1>WriteRuntime. ASSUME NEW t \in Tasks, WriteRuntime(t) PROVE FilesInv'
  BY <1>WriteRuntime
  DEF WriteRuntime, Works, given, bundleFiles, cleaning, bundles, BundleTypes, FilesInv,
      ContainersInv, OptionsWritten, RuntimeWritten, Recorded
<1>MountRootfs. ASSUME NEW t \in Tasks, MountRootfs(t) PROVE FilesInv'
  BY <1>MountRootfs
  DEF MountRootfs, Works, given, bundleFiles, cleaning, bundles, BundleTypes, FilesInv,
      ContainersInv, OptionsWritten, RuntimeWritten, Recorded
<1>WorkFails. ASSUME NEW t \in Tasks, WorkFails(t) PROVE FilesInv'
  BY <1>WorkFails
  DEF WorkFails, Works, given, bundleFiles, cleaning, bundles, BundleTypes, FilesInv,
      ContainersInv, OptionsWritten, RuntimeWritten, Recorded
<1>RuncCreate. ASSUME NEW t \in Tasks, RuncCreate(t) PROVE FilesInv'
  BY <1>RuncCreate
  DEF RuncCreate, CreateGoes, given, bundleFiles, cleaning, bundles, BundleTypes, FilesInv,
      ContainersInv, OptionsWritten, RuntimeWritten, Recorded
<1>NoBinary. ASSUME NEW t \in Tasks, NoBinary(t) PROVE FilesInv'
  BY <1>NoBinary
  DEF NoBinary, CreateGoes, given, bundleFiles, cleaning, bundles, BundleTypes, FilesInv,
      ContainersInv, OptionsWritten, RuntimeWritten, Recorded
<1>Timeout. ASSUME NEW t \in Tasks, Timeout(t) PROVE FilesInv'
  BY <1>Timeout
  DEF Timeout, CreateGoes, given, bundleFiles, cleaning, bundles, BundleTypes, FilesInv,
      ContainersInv, OptionsWritten, RuntimeWritten, Recorded
<1>Records. ASSUME NEW t \in Tasks, Records(t) PROVE FilesInv'
  BY <1>Records, ClientOf
  DEF Records, given, bundleFiles, cleaning, bundles, BundleTypes, FilesInv, ContainersInv,
      OptionsWritten, RuntimeWritten, Recorded
<1>RuncEnds. ASSUME NEW t \in Tasks, RuncEnds(t) PROVE FilesInv'
  BY <1>RuncEnds
  DEF RuncEnds, given, bundleFiles, cleaning, bundles, BundleTypes, FilesInv, ContainersInv,
      OptionsWritten, RuntimeWritten, Recorded
<1>TaskDelete. ASSUME NEW t \in Tasks, TaskDelete(t) PROVE FilesInv'
  BY <1>TaskDelete
  DEF TaskDelete, CreateGoes, given, bundleFiles, cleaning, bundles, BundleTypes, FilesInv,
      ContainersInv, OptionsWritten, RuntimeWritten, Recorded
<1>ReadBundle. ASSUME NEW t \in Tasks, ReadBundle(t) PROVE FilesInv'
  BY <1>ReadBundle
  DEF ReadBundle, given, bundleFiles, cleaning, bundles, BundleTypes, FilesInv, ContainersInv,
      OptionsWritten, RuntimeWritten, Recorded
<1>RuncDelete. ASSUME NEW t \in Tasks, RuncDelete(t) PROVE FilesInv'
  BY <1>RuncDelete
  DEF RuncDelete, given, bundleFiles, cleaning, bundles, BundleTypes, FilesInv, ContainersInv,
      OptionsWritten, RuntimeWritten, Recorded
<1>Umount. ASSUME NEW t \in Tasks, Umount(t) PROVE FilesInv'
  BY <1>Umount
  DEF Umount, given, bundleFiles, cleaning, bundles, BundleTypes, FilesInv, ContainersInv,
      OptionsWritten, RuntimeWritten, Recorded
<1>KillAction. ASSUME NEW t \in Tasks, KillAction(t) PROVE FilesInv'
  BY <1>KillAction
  DEF KillAction, given, bundleFiles, cleaning, bundles, BundleTypes, FilesInv, ContainersInv,
      OptionsWritten, RuntimeWritten, Recorded
<1>Kill. ASSUME Kill PROVE FilesInv'
  BY <1>Kill
  DEF Kill, given, bundleFiles, cleaning, bundles, BundleTypes, FilesInv, ContainersInv,
      OptionsWritten, RuntimeWritten, Recorded
<1>Stutter. ASSUME UNCHANGED cleanupVars PROVE FilesInv'
  BY <1>Stutter
  DEF cleanupVars, given, bundleFiles, cleaning, bundles, BundleTypes, FilesInv, ContainersInv,
      OptionsWritten, RuntimeWritten, Recorded
<1> QED
  BY <1>Begin, <1>WriteOptions, <1>WriteRuntime, <1>MountRootfs, <1>WorkFails, <1>RuncCreate,
     <1>NoBinary, <1>Timeout, <1>Records, <1>RuncEnds, <1>TaskDelete, <1>ReadBundle, <1>RuncDelete,
     <1>Umount, <1>KillAction, <1>Kill, <1>Stutter
  DEF CleanupNext

(* Only the runtime of a create makes a record.                            *)
LEMMA ContainersStep ==
  ASSUME ContainersInv, [CleanupNext]_cleanupVars
  PROVE  ContainersInv'
<1>Begin. ASSUME NEW t \in Tasks, Begin(t) PROVE ContainersInv'
  BY <1>Begin DEF Begin, CreateGoes, given, bundleFiles, cleaning, bundles, ContainersInv, Client
<1>WriteOptions. ASSUME NEW t \in Tasks, WriteOptions(t) PROVE ContainersInv'
  BY <1>WriteOptions
  DEF WriteOptions, Works, given, bundleFiles, cleaning, bundles, ContainersInv, Client
<1>WriteRuntime. ASSUME NEW t \in Tasks, WriteRuntime(t) PROVE ContainersInv'
  BY <1>WriteRuntime
  DEF WriteRuntime, Works, given, bundleFiles, cleaning, bundles, ContainersInv, Client
<1>MountRootfs. ASSUME NEW t \in Tasks, MountRootfs(t) PROVE ContainersInv'
  BY <1>MountRootfs
  DEF MountRootfs, Works, given, bundleFiles, cleaning, bundles, ContainersInv, Client
<1>WorkFails. ASSUME NEW t \in Tasks, WorkFails(t) PROVE ContainersInv'
  BY <1>WorkFails
  DEF WorkFails, Works, given, bundleFiles, cleaning, bundles, ContainersInv, Client
<1>RuncCreate. ASSUME NEW t \in Tasks, RuncCreate(t) PROVE ContainersInv'
  BY <1>RuncCreate
  DEF RuncCreate, CreateGoes, given, bundleFiles, cleaning, bundles, ContainersInv, Client
<1>NoBinary. ASSUME NEW t \in Tasks, NoBinary(t) PROVE ContainersInv'
  BY <1>NoBinary
  DEF NoBinary, CreateGoes, given, bundleFiles, cleaning, bundles, ContainersInv, Client
<1>Timeout. ASSUME NEW t \in Tasks, Timeout(t) PROVE ContainersInv'
  BY <1>Timeout
  DEF Timeout, CreateGoes, given, bundleFiles, cleaning, bundles, ContainersInv, Client
<1>Records. ASSUME NEW t \in Tasks, Records(t) PROVE ContainersInv'
  BY <1>Records, ClientOf DEF Records, given, bundleFiles, cleaning, bundles, ContainersInv, Client
<1>RuncEnds. ASSUME NEW t \in Tasks, RuncEnds(t) PROVE ContainersInv'
  BY <1>RuncEnds DEF RuncEnds, given, bundleFiles, cleaning, bundles, ContainersInv, Client
<1>TaskDelete. ASSUME NEW t \in Tasks, TaskDelete(t) PROVE ContainersInv'
  BY <1>TaskDelete
  DEF TaskDelete, CreateGoes, given, bundleFiles, cleaning, bundles, ContainersInv, Client
<1>ReadBundle. ASSUME NEW t \in Tasks, ReadBundle(t) PROVE ContainersInv'
  BY <1>ReadBundle DEF ReadBundle, given, bundleFiles, cleaning, bundles, ContainersInv, Client
<1>RuncDelete. ASSUME NEW t \in Tasks, RuncDelete(t) PROVE ContainersInv'
  BY <1>RuncDelete DEF RuncDelete, given, bundleFiles, cleaning, bundles, ContainersInv, Client
<1>Umount. ASSUME NEW t \in Tasks, Umount(t) PROVE ContainersInv'
  BY <1>Umount DEF Umount, given, bundleFiles, cleaning, bundles, ContainersInv, Client
<1>KillAction. ASSUME NEW t \in Tasks, KillAction(t) PROVE ContainersInv'
  BY <1>KillAction DEF KillAction, given, bundleFiles, cleaning, bundles, ContainersInv, Client
<1>Kill. ASSUME Kill PROVE ContainersInv'
  BY <1>Kill DEF Kill, given, bundleFiles, cleaning, bundles, ContainersInv, Client
<1>Stutter. ASSUME UNCHANGED cleanupVars PROVE ContainersInv'
  BY <1>Stutter DEF cleanupVars, given, bundleFiles, cleaning, bundles, ContainersInv, Client
<1> QED
  BY <1>Begin, <1>WriteOptions, <1>WriteRuntime, <1>MountRootfs, <1>WorkFails, <1>RuncCreate,
     <1>NoBinary, <1>Timeout, <1>Records, <1>RuncEnds, <1>TaskDelete, <1>ReadBundle, <1>RuncDelete,
     <1>Umount, <1>KillAction, <1>Kill, <1>Stutter
  DEF CleanupNext

(* The action finds what the create of a task on record has left it.       *)
LEMMA ActionStep ==
  ASSUME BundleTypes, FilesInv, ContainersInv, ActionInv, [CleanupNext]_cleanupVars
  PROVE  ActionInv'
<1>Begin. ASSUME NEW t \in Tasks, Begin(t) PROVE ActionInv'
  BY <1>Begin
  DEF Begin, CreateGoes, given, bundleFiles, cleaning, bundles, BundleTypes, ContainersInv,
      ActionInv, Recorded
<1>WriteOptions. ASSUME NEW t \in Tasks, WriteOptions(t) PROVE ActionInv'
  BY <1>WriteOptions
  DEF WriteOptions, Works, given, bundleFiles, cleaning, bundles, BundleTypes, ContainersInv,
      ActionInv, Recorded
<1>WriteRuntime. ASSUME NEW t \in Tasks, WriteRuntime(t) PROVE ActionInv'
  BY <1>WriteRuntime
  DEF WriteRuntime, Works, given, bundleFiles, cleaning, bundles, BundleTypes, ContainersInv,
      ActionInv, Recorded
<1>MountRootfs. ASSUME NEW t \in Tasks, MountRootfs(t) PROVE ActionInv'
  BY <1>MountRootfs
  DEF MountRootfs, Works, given, bundleFiles, cleaning, bundles, BundleTypes, ContainersInv,
      ActionInv, Recorded
<1>WorkFails. ASSUME NEW t \in Tasks, WorkFails(t) PROVE ActionInv'
  BY <1>WorkFails
  DEF WorkFails, Works, given, bundleFiles, cleaning, bundles, BundleTypes, ContainersInv,
      ActionInv, Recorded
<1>RuncCreate. ASSUME NEW t \in Tasks, RuncCreate(t) PROVE ActionInv'
  BY <1>RuncCreate
  DEF RuncCreate, CreateGoes, given, bundleFiles, cleaning, bundles, BundleTypes, ContainersInv,
      ActionInv, Recorded
<1>NoBinary. ASSUME NEW t \in Tasks, NoBinary(t) PROVE ActionInv'
  BY <1>NoBinary
  DEF NoBinary, CreateGoes, given, bundleFiles, cleaning, bundles, BundleTypes, ContainersInv,
      ActionInv, Recorded
<1>Timeout. ASSUME NEW t \in Tasks, Timeout(t) PROVE ActionInv'
  BY <1>Timeout
  DEF Timeout, CreateGoes, given, bundleFiles, cleaning, bundles, BundleTypes, ContainersInv,
      ActionInv, Recorded
<1>Records. ASSUME NEW t \in Tasks, Records(t) PROVE ActionInv'
  BY <1>Records, ClientOf
  DEF Records, given, bundleFiles, cleaning, bundles, BundleTypes, ContainersInv, ActionInv,
      Recorded
<1>RuncEnds. ASSUME NEW t \in Tasks, RuncEnds(t) PROVE ActionInv'
  BY <1>RuncEnds
  DEF RuncEnds, given, bundleFiles, cleaning, bundles, BundleTypes, ContainersInv, ActionInv,
      Recorded
<1>TaskDelete. ASSUME NEW t \in Tasks, TaskDelete(t) PROVE ActionInv'
  BY <1>TaskDelete
  DEF TaskDelete, CreateGoes, given, bundleFiles, cleaning, bundles, BundleTypes, ContainersInv,
      ActionInv, Recorded
<1>ReadBundle. ASSUME NEW t \in Tasks, ReadBundle(t) PROVE ActionInv'
  <2>1. FilesInv => options[t] = NoFile \/ OptionsWritten(t)
    BY DEF FilesInv
  <2>2. Parses(options[t])
    BY <2>1, OptionsReadBack, CleanupAssumption DEF Parses
  <2>3. action'[t] = "error" => create_runc(t, read'[t], t).binary \notin installed
    BY <1>ReadBundle, <2>2 DEF ReadBundle, BundleTypes
  <2>4. CASE Recorded(t)
    <3>1. OptionsWritten(t) /\ runtime[t] = request[t].binary
      BY <2>4 DEF FilesInv, RuntimeWritten
    <3>2. RootIn(options[t]) = request[t].root
      BY <3>1, OptionsReadBack
    <3>3. (IF runtime[t] = NoFile THEN NoName ELSE runtime[t]) = request[t].binary
      BY <3>1, CleanupAssumption DEF BundleTypes
    <3>4. read'[t] = [binary |-> request[t].binary, root |-> request[t].root]
      BY <1>ReadBundle, <2>2, <3>2, <3>3 DEF ReadBundle, BundleTypes
    <3> QED
      BY <1>ReadBundle, <2>3, <3>4 DEF ReadBundle, given, bundles, BundleTypes, ActionInv, Recorded
  <2>5. CASE ~ Recorded(t)
    BY <1>ReadBundle, <2>3, <2>5 DEF ReadBundle, given, bundles, BundleTypes, ActionInv, Recorded
  <2> QED
    BY <2>4, <2>5
<1>RuncDelete. ASSUME NEW t \in Tasks, RuncDelete(t) PROVE ActionInv'
  BY <1>RuncDelete
  DEF RuncDelete, given, bundleFiles, cleaning, bundles, BundleTypes, ContainersInv, ActionInv,
      Recorded
<1>Umount. ASSUME NEW t \in Tasks, Umount(t) PROVE ActionInv'
  BY <1>Umount
  DEF Umount, given, bundleFiles, cleaning, bundles, BundleTypes, ContainersInv, ActionInv,
      Recorded
<1>KillAction. ASSUME NEW t \in Tasks, KillAction(t) PROVE ActionInv'
  BY <1>KillAction
  DEF KillAction, given, bundleFiles, cleaning, bundles, BundleTypes, ContainersInv, ActionInv,
      Recorded
<1>Kill. ASSUME Kill PROVE ActionInv'
  BY <1>Kill
  DEF Kill, given, bundleFiles, cleaning, bundles, BundleTypes, ContainersInv, ActionInv, Recorded
<1>Stutter. ASSUME UNCHANGED cleanupVars PROVE ActionInv'
  BY <1>Stutter
  DEF cleanupVars, given, bundleFiles, cleaning, bundles, BundleTypes, ContainersInv, ActionInv,
      Recorded
<1> QED
  BY <1>Begin, <1>WriteOptions, <1>WriteRuntime, <1>MountRootfs, <1>WorkFails, <1>RuncCreate,
     <1>NoBinary, <1>Timeout, <1>Records, <1>RuncEnds, <1>TaskDelete, <1>ReadBundle, <1>RuncDelete,
     <1>Umount, <1>KillAction, <1>Kill, <1>Stutter
  DEF CleanupNext

(* What runs or works on when the action looks is marked by it.            *)
LEMMA DoneStep ==
  ASSUME BundleTypes, ContainersInv, ActionInv, DoneInv, [CleanupNext]_cleanupVars
  PROVE  DoneInv'
<1>Begin. ASSUME NEW t \in Tasks, Begin(t) PROVE DoneInv'
  BY <1>Begin
  DEF Begin, CreateGoes, given, bundleFiles, cleaning, bundles, BundleTypes, ContainersInv,
      ActionInv, DoneInv, Recorded, SameDirectory
<1>WriteOptions. ASSUME NEW t \in Tasks, WriteOptions(t) PROVE DoneInv'
  BY <1>WriteOptions
  DEF WriteOptions, Works, given, bundleFiles, cleaning, bundles, BundleTypes, ContainersInv,
      ActionInv, DoneInv, Recorded, SameDirectory
<1>WriteRuntime. ASSUME NEW t \in Tasks, WriteRuntime(t) PROVE DoneInv'
  BY <1>WriteRuntime
  DEF WriteRuntime, Works, given, bundleFiles, cleaning, bundles, BundleTypes, ContainersInv,
      ActionInv, DoneInv, Recorded, SameDirectory
<1>MountRootfs. ASSUME NEW t \in Tasks, MountRootfs(t) PROVE DoneInv'
  BY <1>MountRootfs
  DEF MountRootfs, Works, given, bundleFiles, cleaning, bundles, BundleTypes, ContainersInv,
      ActionInv, DoneInv, Recorded, SameDirectory
<1>WorkFails. ASSUME NEW t \in Tasks, WorkFails(t) PROVE DoneInv'
  BY <1>WorkFails
  DEF WorkFails, Works, given, bundleFiles, cleaning, bundles, BundleTypes, ContainersInv,
      ActionInv, DoneInv, Recorded, SameDirectory
<1>RuncCreate. ASSUME NEW t \in Tasks, RuncCreate(t) PROVE DoneInv'
  BY <1>RuncCreate
  DEF RuncCreate, CreateGoes, given, bundleFiles, cleaning, bundles, BundleTypes, ContainersInv,
      ActionInv, DoneInv, Recorded, SameDirectory
<1>NoBinary. ASSUME NEW t \in Tasks, NoBinary(t) PROVE DoneInv'
  BY <1>NoBinary
  DEF NoBinary, CreateGoes, given, bundleFiles, cleaning, bundles, BundleTypes, ContainersInv,
      ActionInv, DoneInv, Recorded, SameDirectory
<1>Timeout. ASSUME NEW t \in Tasks, Timeout(t) PROVE DoneInv'
  BY <1>Timeout
  DEF Timeout, CreateGoes, given, bundleFiles, cleaning, bundles, BundleTypes, ContainersInv,
      ActionInv, DoneInv, Recorded, SameDirectory
<1>Records. ASSUME NEW t \in Tasks, Records(t) PROVE DoneInv'
  BY <1>Records, ClientOf
  DEF Records, given, bundleFiles, cleaning, bundles, BundleTypes, ContainersInv, ActionInv,
      DoneInv, Recorded, SameDirectory
<1>RuncEnds. ASSUME NEW t \in Tasks, RuncEnds(t) PROVE DoneInv'
  BY <1>RuncEnds
  DEF RuncEnds, given, bundleFiles, cleaning, bundles, BundleTypes, ContainersInv, ActionInv,
      DoneInv, Recorded, SameDirectory
<1>TaskDelete. ASSUME NEW t \in Tasks, TaskDelete(t) PROVE DoneInv'
  BY <1>TaskDelete
  DEF TaskDelete, CreateGoes, given, bundleFiles, cleaning, bundles, BundleTypes, ContainersInv,
      ActionInv, DoneInv, Recorded, SameDirectory
<1>ReadBundle. ASSUME NEW t \in Tasks, ReadBundle(t) PROVE DoneInv'
  BY <1>ReadBundle
  DEF ReadBundle, given, bundleFiles, cleaning, bundles, BundleTypes, ContainersInv, ActionInv,
      DoneInv, Recorded, SameDirectory
<1>RuncDelete. ASSUME NEW t \in Tasks, RuncDelete(t) PROVE DoneInv'
  <2>1. t \notin running \/ t \in outlived'
    BY <1>RuncDelete DEF RuncDelete
  <2>2. ASSUME NEW c \in containers', c.task = t, t \notin faulted', SameDirectory(t)
        PROVE  FALSE
    <3>1. c \in containers /\ c # create_runc(t, read[t], t)
      BY <1>RuncDelete, <2>2 DEF RuncDelete
    <3>2. read[t] = [binary |-> request[t].binary, root |-> request[t].root]
      BY <1>RuncDelete, <2>2, <3>1 DEF RuncDelete, ActionInv, Recorded
    <3>3. read[t] = request[t]
      BY <3>2, RequestsAssumption DEF BundleTypes
    <3> QED
      BY <2>2, <3>1, <3>3, SameClient DEF ContainersInv
  <2>3. SameDirectory(t)' => SameDirectory(t)
    BY <1>RuncDelete DEF RuncDelete, given, SameDirectory
  <2> QED
    BY <1>RuncDelete, <2>1, <2>2, <2>3
    DEF RuncDelete, given, bundles, BundleTypes, DoneInv, SameDirectory
<1>Umount. ASSUME NEW t \in Tasks, Umount(t) PROVE DoneInv'
  BY <1>Umount
  DEF Umount, given, bundleFiles, cleaning, bundles, BundleTypes, ContainersInv, ActionInv,
      DoneInv, Recorded, SameDirectory
<1>KillAction. ASSUME NEW t \in Tasks, KillAction(t) PROVE DoneInv'
  BY <1>KillAction
  DEF KillAction, given, bundleFiles, cleaning, bundles, BundleTypes, ContainersInv, ActionInv,
      DoneInv, Recorded, SameDirectory
<1>Kill. ASSUME Kill PROVE DoneInv'
  BY <1>Kill
  DEF Kill, given, bundleFiles, cleaning, bundles, BundleTypes, ContainersInv, ActionInv, DoneInv,
      Recorded, SameDirectory
<1>Stutter. ASSUME UNCHANGED cleanupVars PROVE DoneInv'
  BY <1>Stutter
  DEF cleanupVars, given, bundleFiles, cleaning, bundles, BundleTypes, ContainersInv, ActionInv,
      DoneInv, Recorded, SameDirectory
<1> QED
  BY <1>Begin, <1>WriteOptions, <1>WriteRuntime, <1>MountRootfs, <1>WorkFails, <1>RuncCreate,
     <1>NoBinary, <1>Timeout, <1>Records, <1>RuncEnds, <1>TaskDelete, <1>ReadBundle, <1>RuncDelete,
     <1>Umount, <1>KillAction, <1>Kill, <1>Stutter
  DEF CleanupNext

(* The files, the records and the actions are as the parts of CleanupInv say.    *)
THEOREM CleanupInvariant == CleanupSpec => []CleanupInv
<1>1. CleanupInit => CleanupInv
  BY CleanupInitInv
<1>2. CleanupInv /\ [CleanupNext]_cleanupVars => CleanupInv'
  BY BundleTypesStep, FilesStep, ContainersStep, ActionStep, DoneStep DEF CleanupInv
<1> QED
  BY <1>1, <1>2, PTL DEF CleanupSpec

(* An action that has answered, none of whose steps failed, has left no    *)
(* record of the task with any runtime and no mount in its bundle.         *)
THEOREM ActionsCleanUp == CleanupSpec => []CleanupComplete
<1>1. CleanupInv => CleanupComplete
  BY DEF CleanupInv, DoneInv, CleanupComplete
<1> QED
  BY <1>1, CleanupInvariant, PTL

(* The only error of an action is a runtime that is not installed.         *)
THEOREM ActionsAnswer == CleanupSpec => []DeleteAnswers
<1>1. CleanupInv => DeleteAnswers
  BY DEF CleanupInv, ActionInv, DeleteAnswers, BundleTypes
<1> QED
  BY <1>1, CleanupInvariant, PTL
==============================================================================
