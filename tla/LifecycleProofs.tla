--------------------------- MODULE LifecycleProofs ---------------------------
(***************************************************************************)
(* Theorems about Lifecycle, for any number of processes, VLANs, starts,   *)
(* faults, edits, self tests and reads of a connection, and for all times  *)
(* of which one read and the deadline together stay below the time procd   *)
(* grants.                                                                 *)
(***************************************************************************)
EXTENDS Lifecycle, TLAPS

Places == {"off", "load", "line", "link", "vlan", "setup", "clear", "bind",
           "top", "turn", "wait", "del", "unlink"}

\* A process that has made its data-plane link, and has not yet deleted its VLAN.
Holding == {"vlan", "setup", "clear", "bind", "top", "turn", "wait", "del"}

LifeType ==
  /\ pc \in [Procs -> Places]
  /\ vlan \in [Procs -> Vlans \cup {Nothing}]
  /\ \A p \in Procs : pc[p] \notin {"off", "load"} => vlan[p] \in Vlans
  /\ bound \in [Procs -> BOOLEAN]
  /\ linkOk \in [Procs -> BOOLEAN]
  /\ term \in [Procs -> BOOLEAN]
  /\ iface \in [Vlans -> {"none", "down", "up"}]
  /\ late \in Nat
  /\ uci.vlan \in Vlans

-----------------------------------------------------------------------------
(* The inductive invariants.                                               *)

\* The socket file leads to a daemon that bound it, and nobody has made one while a
\* process is between its remove_file and its bind.
SockInv ==
  \A p \in Procs \ fouled :
    /\ pc[p] = "bind" => sock = Nothing
    /\ pc[p] \in {"top", "turn", "wait", "del", "unlink"} => bound[p] /\ sock = p

\* The interface is there from add_vlan on, and up from set_up on.
IfaceInv ==
  \A p \in Procs \ fouled :
    /\ pc[p] = "setup" => iface[vlan[p]] # "none"
    /\ pc[p] \in {"clear", "bind", "top", "turn", "wait", "del"} => iface[vlan[p]] = "up"

\* The VLAN of the link is the one the process uses, from the link-add on.
LinkInv ==
  /\ \A p \in Procs : pc[p] \in {"off", "load", "line", "link"} => ~linkOk[p]
  /\ \A p \in Procs \ fouled : linkOk[p] => vlan[p] = link

\* An interface is held by a process that has yet to delete it, by a self test that
\* has yet to remove it, or was left.
LeakInv ==
  \A v \in Vlans : iface[v] # "none" =>
    \/ v \in left
    \/ \E p \in Procs : pc[p] \in Holding /\ vlan[p] = v
    \/ v = TestVlan /\ tpc \in {"updown", "remove"}

\* A service that was in its control loop when told to stop, and that neither ubusd nor
\* a client that sends its line in pieces holds up, has spent at most one read and one
\* deadline.
StopInv ==
  /\ ~killed
  /\ (term[Service] /\ excuse = {}) =>
       \/ pc[Service] = "turn" /\ late = 0
       \/ pc[Service] \in {"top", "wait"} /\ late <= ClientTime
       \/ pc[Service] \in {"del", "unlink"} /\ late <= ClientTime + Deadline
-----------------------------------------------------------------------------
(* Types.                                                                  *)

\* Every step keeps the types.
LEMMA TypeStep == LifeType /\ [Next]_vars => LifeType'
<1> SUFFICES ASSUME LifeType, [Next]_vars PROVE LifeType'
  OBVIOUS
<1> USE DEF LifeType, Places, procVars, worldVars, adminVars, ghostVars, counters
<1>1. CASE Admin
  <2>1. CASE StartService
    BY <2>1, ProcsAssumption, VlansAssumption, TimesAssumption DEF StartService, Spawn, Alive, Goto
  <2>2. CASE Respawn
    BY <2>2, ProcsAssumption, VlansAssumption, TimesAssumption DEF Respawn, Spawn, Alive, Goto
  <2>3. CASE StopService
    BY <2>3, ProcsAssumption DEF StopService, Alive
  <2>4. ASSUME NEW p \in Procs, StartByHand(p) PROVE LifeType'
    BY <2>4, ProcsAssumption, VlansAssumption, TimesAssumption DEF StartByHand, Spawn, Alive, Goto
  <2>5. ASSUME NEW p \in Procs, Terminate(p) PROVE LifeType'
    BY <2>5, ProcsAssumption, VlansAssumption, TimesAssumption DEF Terminate
  <2>6. ASSUME NEW v \in Vlans, NEW b \in BOOLEAN, NEW m \in BOOLEAN, Edit(v, b, m) PROVE LifeType'
    BY <2>6, ProcsAssumption, VlansAssumption, TimesAssumption DEF Edit
  <2> QED  BY <1>1, <2>1, <2>2, <2>3, <2>4, <2>5, <2>6 DEF Admin
<1>2. CASE Kill
  BY <1>2, ProcsAssumption, VlansAssumption, TimesAssumption DEF Kill, Dies, Gone, Goto
<1>3. CASE Test
  <2>1. CASE TestDelete
    BY <2>1, ProcsAssumption, VlansAssumption, TimesAssumption DEF TestDelete, TestStep, Foul
  <2>2. CASE TestAdd
    BY <2>2, ProcsAssumption, VlansAssumption, TimesAssumption DEF TestAdd
  <2>3. CASE TestUpDown
    BY <2>3, ProcsAssumption, VlansAssumption, TimesAssumption DEF TestUpDown, TestStep, Foul
  <2>4. CASE TestRemove
    BY <2>4, ProcsAssumption, VlansAssumption, TimesAssumption DEF TestRemove, TestStep, Foul
  <2>5. CASE TestDies
    BY <2>5, ProcsAssumption, VlansAssumption, TimesAssumption DEF TestDies
  <2>6. ASSUME NEW v \in Vlans, TestBoard(v) PROVE LifeType'
    BY <2>6, ProcsAssumption, VlansAssumption, TimesAssumption DEF TestBoard, TestStep, Alive
  <2> QED  BY <1>3, <2>1, <2>2, <2>3, <2>4, <2>5, <2>6 DEF Test
<1>4. ASSUME NEW p \in Procs, Crash(p) PROVE LifeType'
  BY <1>4, ProcsAssumption, VlansAssumption, TimesAssumption DEF Crash, Dies, Gone, Goto
<1>5. ASSUME NEW p \in Procs, Step(p) PROVE LifeType'
  <2>1. ASSUME NEW b \in BOOLEAN, LoadConfig(p, b) PROVE LifeType'
    <3>1. /\ UNCHANGED <<iface, sock, link, uci, tpc, left, killed>>
          /\ fouled' = fouled \ {p} /\ pc[p] = "load"
      BY <2>1 DEF LoadConfig, At
    <3>2. CASE /\ Goto(p, "line") /\ vlan' = [vlan EXCEPT ![p] = uci.vlan]
               /\ UNCHANGED <<bound, term, linkOk, late, excuse>>
      BY <3>1, <3>2 DEF Goto
    <3>3. CASE Gone(p)
      BY <3>1, <3>3, ProcsAssumption DEF Gone, Goto
    <3> QED  BY <2>1, <3>2, <3>3 DEF LoadConfig
  <2>2. ASSUME NEW b \in BOOLEAN, ConfigureLine(p, b) PROVE LifeType'
    BY <2>2, ProcsAssumption, VlansAssumption, TimesAssumption
      DEF ConfigureLine, At, Goto, AfterLine, Spend
  <2>3. ASSUME NEW b \in BOOLEAN, AddVlan(p, b) PROVE LifeType'
    BY <2>3, ProcsAssumption, VlansAssumption, TimesAssumption DEF AddVlan, At, Goto, VlanStep
  <2>4. ASSUME NEW b \in BOOLEAN, BindSocket(p, b) PROVE LifeType'
    BY <2>4, ProcsAssumption, VlansAssumption, TimesAssumption DEF BindSocket, At, Goto, Others
  <2>5. ASSUME NEW b \in BOOLEAN, WaitWorker(p, b) PROVE LifeType'
    BY <2>5, ProcsAssumption, VlansAssumption, TimesAssumption
      DEF WaitWorker, At, Goto, Spend, ShutdownWait
  <2>6. ASSUME NEW b \in BOOLEAN, DeleteVlan(p, b) PROVE LifeType'
    BY <2>6, ProcsAssumption, VlansAssumption, TimesAssumption
      DEF DeleteVlan, At, Goto, Others, VlanToDelete
  <2>7. ASSUME NEW n \in 0 .. MaxReads, NEW b \in BOOLEAN, LoopTurn(p, n, b) PROVE LifeType'
    BY <2>7, ProcsAssumption, VlansAssumption, TimesAssumption DEF LoopTurn, At, Goto, Spend
  <2>8. ASSUME NEW v \in Vlans \cup {Nothing}, AddLink(p, v) PROVE LifeType'
    BY <2>8, ProcsAssumption, VlansAssumption, TimesAssumption
      DEF AddLink, At, Goto, VlanInUse, Spend, Others, Alive
  <2>9. ASSUME NEW b \in BOOLEAN, SetVlanUp(p, b) PROVE LifeType'
    BY <2>9, ProcsAssumption, VlansAssumption, TimesAssumption DEF SetVlanUp, At, Goto
  <2>10. CASE ClearSocket(p)
    BY <2>10, ProcsAssumption, VlansAssumption, TimesAssumption
      DEF ClearSocket, At, Goto, SockAfterClear, Others
  <2>11. CASE LoopTop(p)
    BY <2>11, ProcsAssumption, VlansAssumption, TimesAssumption DEF LoopTop, At, Goto
  <2>12. CASE UnlinkSocket(p)
    BY <2>12, ProcsAssumption, VlansAssumption, TimesAssumption
      DEF UnlinkSocket, At, Goto, Gone, Others
  <2> QED  BY <1>5, <2>1, <2>2, <2>3, <2>4, <2>5, <2>6, <2>7, <2>8, <2>9, <2>10, <2>11, <2>12 DEF Step
<1>6. CASE UNCHANGED vars
  BY <1>6, ProcsAssumption, VlansAssumption, TimesAssumption DEF vars
<1> HIDE DEF LifeType
<1> QED  BY <1>1, <1>2, <1>3, <1>4, <1>5, <1>6 DEF Next

\* Processes and world keep their types.
LEMMA TypeInvariant == Spec => []LifeType
<1>1. Init => LifeType
  BY DEF Init, LifeType, Places
<1> QED  BY <1>1, TypeStep, PTL DEF Spec

-----------------------------------------------------------------------------
(* The control socket.                                                     *)

\* remove_file and bind of one process foul what they take from another.
LEMMA SockStep == LifeType /\ SockInv /\ [Next]_vars => SockInv'
<1> SUFFICES ASSUME LifeType, SockInv, [Next]_vars PROVE SockInv'
  OBVIOUS
<1> USE DEF SockInv, LifeType, procVars, worldVars, adminVars, ghostVars, counters
<1>1. CASE Admin
  <2>1. CASE StartService
    BY <2>1, ProcsAssumption DEF StartService, Spawn, Alive, Goto
  <2>2. CASE Respawn
    BY <2>2, ProcsAssumption DEF Respawn, Spawn, Alive, Goto
  <2>3. CASE StopService
    BY <2>3, ProcsAssumption DEF StopService, Alive, Startup
  <2>4. ASSUME NEW p \in Procs, StartByHand(p) PROVE SockInv'
    BY <2>4, ProcsAssumption DEF StartByHand, Spawn, Alive, Goto
  <2>5. ASSUME NEW p \in Procs, Terminate(p) PROVE SockInv'
    BY <2>5, ProcsAssumption DEF Terminate
  <2>6. ASSUME NEW v \in Vlans, NEW b \in BOOLEAN, NEW m \in BOOLEAN, Edit(v, b, m) PROVE SockInv'
    BY <2>6, ProcsAssumption DEF Edit
  <2> QED  BY <1>1, <2>1, <2>2, <2>3, <2>4, <2>5, <2>6 DEF Admin
<1>2. CASE Kill
  BY <1>2, ProcsAssumption DEF Kill, Dies, Gone, Goto
<1>3. CASE Test
  <2>1. CASE TestDelete
    BY <2>1, ProcsAssumption DEF TestDelete, TestStep, Foul
  <2>2. CASE TestAdd
    BY <2>2, ProcsAssumption DEF TestAdd
  <2>3. CASE TestUpDown
    BY <2>3, ProcsAssumption DEF TestUpDown, TestStep, Foul
  <2>4. CASE TestRemove
    BY <2>4, ProcsAssumption DEF TestRemove, TestStep, Foul
  <2>5. CASE TestDies
    BY <2>5, ProcsAssumption DEF TestDies
  <2>6. ASSUME NEW v \in Vlans, TestBoard(v) PROVE SockInv'
    BY <2>6, ProcsAssumption DEF TestBoard, TestStep, Alive
  <2> QED  BY <1>3, <2>1, <2>2, <2>3, <2>4, <2>5, <2>6 DEF Test
<1>4. ASSUME NEW p \in Procs, Crash(p) PROVE SockInv'
  BY <1>4, ProcsAssumption DEF Crash, Dies, Gone, Goto
<1>5. ASSUME NEW p \in Procs, Step(p) PROVE SockInv'
  <2>1. ASSUME NEW b \in BOOLEAN, LoadConfig(p, b) PROVE SockInv'
    BY <2>1, ProcsAssumption DEF LoadConfig, At, Goto, Gone
  <2>2. ASSUME NEW b \in BOOLEAN, ConfigureLine(p, b) PROVE SockInv'
    BY <2>2, ProcsAssumption DEF ConfigureLine, At, Goto, AfterLine, Spend
  <2>3. ASSUME NEW b \in BOOLEAN, AddVlan(p, b) PROVE SockInv'
    BY <2>3, ProcsAssumption DEF AddVlan, At, Goto, VlanStep
  <2>4. ASSUME NEW b \in BOOLEAN, BindSocket(p, b) PROVE SockInv'
    BY <2>4, ProcsAssumption DEF BindSocket, At, Goto, Others
  <2>5. ASSUME NEW b \in BOOLEAN, WaitWorker(p, b) PROVE SockInv'
    BY <2>5, ProcsAssumption DEF WaitWorker, At, Goto, Spend, ShutdownWait
  <2>6. ASSUME NEW b \in BOOLEAN, DeleteVlan(p, b) PROVE SockInv'
    BY <2>6, ProcsAssumption DEF DeleteVlan, At, Goto, Others, VlanToDelete
  <2>7. ASSUME NEW n \in 0 .. MaxReads, NEW b \in BOOLEAN, LoopTurn(p, n, b) PROVE SockInv'
    BY <2>7, ProcsAssumption DEF LoopTurn, At, Goto, Spend
  <2>8. ASSUME NEW v \in Vlans \cup {Nothing}, AddLink(p, v) PROVE SockInv'
    BY <2>8, ProcsAssumption DEF AddLink, At, Goto, VlanInUse, Spend, Others, Alive
  <2>9. ASSUME NEW b \in BOOLEAN, SetVlanUp(p, b) PROVE SockInv'
    BY <2>9, ProcsAssumption DEF SetVlanUp, At, Goto
  <2>10. CASE ClearSocket(p)
    BY <2>10, ProcsAssumption DEF ClearSocket, At, Goto, SockAfterClear, Others
  <2>11. CASE LoopTop(p)
    BY <2>11, ProcsAssumption DEF LoopTop, At, Goto
  <2>12. CASE UnlinkSocket(p)
    BY <2>12, ProcsAssumption DEF UnlinkSocket, At, Goto, Gone, Others
  <2> QED  BY <1>5, <2>1, <2>2, <2>3, <2>4, <2>5, <2>6, <2>7, <2>8, <2>9, <2>10, <2>11, <2>12 DEF Step
<1>6. CASE UNCHANGED vars
  BY <1>6, ProcsAssumption DEF vars
<1> HIDE DEF SockInv
<1> QED  BY <1>1, <1>2, <1>3, <1>4, <1>5, <1>6 DEF Next

\* A daemon in its control loop that no other process interfered with has a listener,
\* and the socket file leads to it, whatever died before it.
THEOREM ReachableCorrect == Spec => []Reachable
<1>1. Init => SockInv
  BY DEF Init, SockInv
<1>2. SockInv => Reachable
  BY DEF SockInv, Reachable, Running
<1> QED  BY <1>1, <1>2, TypeInvariant, SockStep, PTL DEF Spec

-----------------------------------------------------------------------------
(* The transport VLAN.                                                     *)

\* Whoever takes an interface away or down fouls those that use it.
LEMMA IfaceStep == LifeType /\ IfaceInv /\ [Next]_vars => IfaceInv'
<1> SUFFICES ASSUME LifeType, IfaceInv, [Next]_vars PROVE IfaceInv'
  OBVIOUS
<1> USE DEF IfaceInv, LifeType, procVars, worldVars, adminVars, ghostVars, counters
<1>1. CASE Admin
  <2>1. CASE StartService
    BY <2>1, VlansAssumption DEF StartService, Spawn, Alive, Goto
  <2>2. CASE Respawn
    BY <2>2, VlansAssumption DEF Respawn, Spawn, Alive, Goto
  <2>3. CASE StopService
    BY <2>3, VlansAssumption DEF StopService, Alive, Startup
  <2>4. ASSUME NEW p \in Procs, StartByHand(p) PROVE IfaceInv'
    BY <2>4, VlansAssumption DEF StartByHand, Spawn, Alive, Goto
  <2>5. ASSUME NEW p \in Procs, Terminate(p) PROVE IfaceInv'
    BY <2>5, VlansAssumption DEF Terminate
  <2>6. ASSUME NEW v \in Vlans, NEW b \in BOOLEAN, NEW m \in BOOLEAN, Edit(v, b, m) PROVE IfaceInv'
    BY <2>6, VlansAssumption DEF Edit
  <2> QED  BY <1>1, <2>1, <2>2, <2>3, <2>4, <2>5, <2>6 DEF Admin
<1>2. CASE Kill
  BY <1>2, VlansAssumption DEF Kill, Dies, Gone, Goto
<1>3. CASE Test
  <2>1. CASE TestDelete
    BY <2>1, VlansAssumption DEF TestDelete, TestStep, Foul
  <2>2. CASE TestAdd
    BY <2>2, VlansAssumption DEF TestAdd
  <2>3. CASE TestUpDown
    BY <2>3, VlansAssumption DEF TestUpDown, TestStep, Foul
  <2>4. CASE TestRemove
    BY <2>4, VlansAssumption DEF TestRemove, TestStep, Foul
  <2>5. CASE TestDies
    BY <2>5, VlansAssumption DEF TestDies
  <2>6. ASSUME NEW v \in Vlans, TestBoard(v) PROVE IfaceInv'
    BY <2>6, VlansAssumption DEF TestBoard, TestStep, Alive
  <2> QED  BY <1>3, <2>1, <2>2, <2>3, <2>4, <2>5, <2>6 DEF Test
<1>4. ASSUME NEW p \in Procs, Crash(p) PROVE IfaceInv'
  BY <1>4, VlansAssumption DEF Crash, Dies, Gone, Goto
<1>5. ASSUME NEW p \in Procs, Step(p) PROVE IfaceInv'
  <2>1. ASSUME NEW b \in BOOLEAN, LoadConfig(p, b) PROVE IfaceInv'
    BY <2>1, VlansAssumption DEF LoadConfig, At, Goto, Gone
  <2>2. ASSUME NEW b \in BOOLEAN, ConfigureLine(p, b) PROVE IfaceInv'
    BY <2>2, VlansAssumption DEF ConfigureLine, At, Goto, AfterLine, Spend
  <2>3. ASSUME NEW b \in BOOLEAN, AddVlan(p, b) PROVE IfaceInv'
    BY <2>3, VlansAssumption DEF AddVlan, At, Goto, VlanStep
  <2>4. ASSUME NEW b \in BOOLEAN, BindSocket(p, b) PROVE IfaceInv'
    BY <2>4, VlansAssumption DEF BindSocket, At, Goto, Others
  <2>5. ASSUME NEW b \in BOOLEAN, WaitWorker(p, b) PROVE IfaceInv'
    BY <2>5, VlansAssumption DEF WaitWorker, At, Goto, Spend, ShutdownWait
  <2>6. ASSUME NEW b \in BOOLEAN, DeleteVlan(p, b) PROVE IfaceInv'
    BY <2>6, VlansAssumption DEF DeleteVlan, At, Goto, Others, VlanToDelete
  <2>7. ASSUME NEW n \in 0 .. MaxReads, NEW b \in BOOLEAN, LoopTurn(p, n, b) PROVE IfaceInv'
    BY <2>7, VlansAssumption DEF LoopTurn, At, Goto, Spend
  <2>8. ASSUME NEW v \in Vlans \cup {Nothing}, AddLink(p, v) PROVE IfaceInv'
    BY <2>8, VlansAssumption DEF AddLink, At, Goto, VlanInUse, Spend, Others, Alive
  <2>9. ASSUME NEW b \in BOOLEAN, SetVlanUp(p, b) PROVE IfaceInv'
    BY <2>9, VlansAssumption DEF SetVlanUp, At, Goto
  <2>10. CASE ClearSocket(p)
    BY <2>10, VlansAssumption DEF ClearSocket, At, Goto, SockAfterClear, Others
  <2>11. CASE LoopTop(p)
    BY <2>11, VlansAssumption DEF LoopTop, At, Goto
  <2>12. CASE UnlinkSocket(p)
    BY <2>12, VlansAssumption DEF UnlinkSocket, At, Goto, Gone, Others
  <2> QED  BY <1>5, <2>1, <2>2, <2>3, <2>4, <2>5, <2>6, <2>7, <2>8, <2>9, <2>10, <2>11, <2>12 DEF Step
<1>6. CASE UNCHANGED vars
  BY <1>6, VlansAssumption DEF vars
<1> HIDE DEF IfaceInv
<1> QED  BY <1>1, <1>2, <1>3, <1>4, <1>5, <1>6 DEF Next

\* The transport VLAN interface of such a daemon is there and up, also if a process
\* that died half way made it.
THEOREM VlanReadyCorrect == Spec => []VlanReady
<1>1. Init => IfaceInv
  BY DEF Init, IfaceInv
<1>2. IfaceInv => VlanReady
  BY DEF IfaceInv, VlanReady, Running
<1> QED  BY <1>1, <1>2, TypeInvariant, IfaceStep, PTL DEF Spec

\* A link-add of another process that changes the link fouls the others.
LEMMA LinkStep == LifeType /\ LinkInv /\ [Next]_vars => LinkInv'
<1> SUFFICES ASSUME LifeType, LinkInv, [Next]_vars PROVE LinkInv'
  OBVIOUS
<1> USE DEF LinkInv, LifeType, procVars, worldVars, adminVars, ghostVars, counters
<1>1. CASE Admin
  <2>1. CASE StartService
    BY <2>1 DEF StartService, Spawn, Alive, Goto
  <2>2. CASE Respawn
    BY <2>2 DEF Respawn, Spawn, Alive, Goto
  <2>3. CASE StopService
    BY <2>3 DEF StopService, Alive, Startup
  <2>4. ASSUME NEW p \in Procs, StartByHand(p) PROVE LinkInv'
    BY <2>4 DEF StartByHand, Spawn, Alive, Goto
  <2>5. ASSUME NEW p \in Procs, Terminate(p) PROVE LinkInv'
    BY <2>5 DEF Terminate
  <2>6. ASSUME NEW v \in Vlans, NEW b \in BOOLEAN, NEW m \in BOOLEAN, Edit(v, b, m) PROVE LinkInv'
    BY <2>6 DEF Edit
  <2> QED  BY <1>1, <2>1, <2>2, <2>3, <2>4, <2>5, <2>6 DEF Admin
<1>2. CASE Kill
  BY <1>2 DEF Kill, Dies, Gone, Goto
<1>3. CASE Test
  <2>1. CASE TestDelete
    BY <2>1 DEF TestDelete, TestStep, Foul
  <2>2. CASE TestAdd
    BY <2>2 DEF TestAdd
  <2>3. CASE TestUpDown
    BY <2>3 DEF TestUpDown, TestStep, Foul
  <2>4. CASE TestRemove
    BY <2>4 DEF TestRemove, TestStep, Foul
  <2>5. CASE TestDies
    BY <2>5 DEF TestDies
  <2>6. ASSUME NEW v \in Vlans, TestBoard(v) PROVE LinkInv'
    BY <2>6 DEF TestBoard, TestStep, Alive
  <2> QED  BY <1>3, <2>1, <2>2, <2>3, <2>4, <2>5, <2>6 DEF Test
<1>4. ASSUME NEW p \in Procs, Crash(p) PROVE LinkInv'
  BY <1>4 DEF Crash, Dies, Gone, Goto
<1>5. ASSUME NEW p \in Procs, Step(p) PROVE LinkInv'
  <2>1. ASSUME NEW b \in BOOLEAN, LoadConfig(p, b) PROVE LinkInv'
    BY <2>1 DEF LoadConfig, At, Goto, Gone
  <2>2. ASSUME NEW b \in BOOLEAN, ConfigureLine(p, b) PROVE LinkInv'
    BY <2>2 DEF ConfigureLine, At, Goto, AfterLine, Spend
  <2>3. ASSUME NEW b \in BOOLEAN, AddVlan(p, b) PROVE LinkInv'
    BY <2>3 DEF AddVlan, At, Goto, VlanStep
  <2>4. ASSUME NEW b \in BOOLEAN, BindSocket(p, b) PROVE LinkInv'
    BY <2>4 DEF BindSocket, At, Goto, Others
  <2>5. ASSUME NEW b \in BOOLEAN, WaitWorker(p, b) PROVE LinkInv'
    BY <2>5 DEF WaitWorker, At, Goto, Spend, ShutdownWait
  <2>6. ASSUME NEW b \in BOOLEAN, DeleteVlan(p, b) PROVE LinkInv'
    BY <2>6 DEF DeleteVlan, At, Goto, Others, VlanToDelete
  <2>7. ASSUME NEW n \in 0 .. MaxReads, NEW b \in BOOLEAN, LoopTurn(p, n, b) PROVE LinkInv'
    BY <2>7 DEF LoopTurn, At, Goto, Spend
  <2>8. ASSUME NEW v \in Vlans \cup {Nothing}, AddLink(p, v) PROVE LinkInv'
    BY <2>8 DEF AddLink, At, Goto, VlanInUse, Spend, Others, Alive
  <2>9. ASSUME NEW b \in BOOLEAN, SetVlanUp(p, b) PROVE LinkInv'
    BY <2>9 DEF SetVlanUp, At, Goto
  <2>10. CASE ClearSocket(p)
    BY <2>10 DEF ClearSocket, At, Goto, SockAfterClear, Others
  <2>11. CASE LoopTop(p)
    BY <2>11 DEF LoopTop, At, Goto
  <2>12. CASE UnlinkSocket(p)
    BY <2>12 DEF UnlinkSocket, At, Goto, Gone, Others
  <2> QED  BY <1>5, <2>1, <2>2, <2>3, <2>4, <2>5, <2>6, <2>7, <2>8, <2>9, <2>10, <2>11, <2>12 DEF Step
<1>6. CASE UNCHANGED vars
  BY <1>6 DEF vars
<1> HIDE DEF LinkInv
<1> QED  BY <1>1, <1>2, <1>3, <1>4, <1>5, <1>6 DEF Next

\* Host and board agree on the transport VLAN of a daemon whose link-add was answered,
\* also if the board chose another VLAN.
THEOREM VlanLinkCorrect == Spec => []VlanMatchesLink
<1>1. Init => LinkInv
  BY DEF Init, LinkInv
<1>2. LinkInv => VlanMatchesLink
  BY DEF LinkInv, VlanMatchesLink
<1> QED  BY <1>1, <1>2, TypeInvariant, LinkStep, PTL DEF Spec

\* Who stops holding an interface has deleted it or is recorded as having left it.
LEMMA LeakStep == LifeType /\ LeakInv /\ [Next]_vars => LeakInv'
<1> SUFFICES ASSUME LifeType, LeakInv, [Next]_vars PROVE LeakInv'
  OBVIOUS
<1> USE DEF LeakInv, LifeType, Holding, procVars, worldVars, adminVars, ghostVars, counters
<1>1. CASE Admin
  <2>1. CASE StartService
    BY <2>1, VlansAssumption DEF StartService, Spawn, Alive, Goto
  <2>2. CASE Respawn
    BY <2>2, VlansAssumption DEF Respawn, Spawn, Alive, Goto
  <2>3. CASE StopService
    BY <2>3, VlansAssumption DEF StopService, Alive, Startup
  <2>4. ASSUME NEW p \in Procs, StartByHand(p) PROVE LeakInv'
    BY <2>4, VlansAssumption DEF StartByHand, Spawn, Alive, Goto
  <2>5. ASSUME NEW p \in Procs, Terminate(p) PROVE LeakInv'
    BY <2>5, VlansAssumption DEF Terminate
  <2>6. ASSUME NEW v \in Vlans, NEW b \in BOOLEAN, NEW m \in BOOLEAN, Edit(v, b, m) PROVE LeakInv'
    BY <2>6, VlansAssumption DEF Edit
  <2> QED  BY <1>1, <2>1, <2>2, <2>3, <2>4, <2>5, <2>6 DEF Admin
<1>2. CASE Kill
  BY <1>2, VlansAssumption DEF Kill, Dies, Gone, Goto
<1>3. CASE Test
  <2>1. CASE TestDelete
    BY <2>1, VlansAssumption DEF TestDelete, TestStep, Foul
  <2>2. CASE TestAdd
    BY <2>2, VlansAssumption DEF TestAdd
  <2>3. CASE TestUpDown
    BY <2>3, VlansAssumption DEF TestUpDown, TestStep, Foul
  <2>4. CASE TestRemove
    BY <2>4, VlansAssumption DEF TestRemove, TestStep, Foul
  <2>5. CASE TestDies
    BY <2>5, VlansAssumption DEF TestDies
  <2>6. ASSUME NEW v \in Vlans, TestBoard(v) PROVE LeakInv'
    BY <2>6, VlansAssumption DEF TestBoard, TestStep, Alive
  <2> QED  BY <1>3, <2>1, <2>2, <2>3, <2>4, <2>5, <2>6 DEF Test
<1>4. ASSUME NEW p \in Procs, Crash(p) PROVE LeakInv'
  BY <1>4, VlansAssumption DEF Crash, Dies, Gone, Goto
<1>5. ASSUME NEW p \in Procs, Step(p) PROVE LeakInv'
  <2>1. ASSUME NEW b \in BOOLEAN, LoadConfig(p, b) PROVE LeakInv'
    BY <2>1, VlansAssumption DEF LoadConfig, At, Goto, Gone
  <2>2. ASSUME NEW b \in BOOLEAN, ConfigureLine(p, b) PROVE LeakInv'
    BY <2>2, VlansAssumption DEF ConfigureLine, At, Goto, AfterLine, Spend
  <2>3. ASSUME NEW b \in BOOLEAN, AddVlan(p, b) PROVE LeakInv'
    BY <2>3, VlansAssumption DEF AddVlan, At, Goto, VlanStep
  <2>4. ASSUME NEW b \in BOOLEAN, BindSocket(p, b) PROVE LeakInv'
    BY <2>4, VlansAssumption DEF BindSocket, At, Goto, Others
  <2>5. ASSUME NEW b \in BOOLEAN, WaitWorker(p, b) PROVE LeakInv'
    BY <2>5, VlansAssumption DEF WaitWorker, At, Goto, Spend, ShutdownWait
  <2>6. ASSUME NEW b \in BOOLEAN, DeleteVlan(p, b) PROVE LeakInv'
    BY <2>6, VlansAssumption DEF DeleteVlan, At, Goto, Others, VlanToDelete
  <2>7. ASSUME NEW n \in 0 .. MaxReads, NEW b \in BOOLEAN, LoopTurn(p, n, b) PROVE LeakInv'
    BY <2>7, VlansAssumption DEF LoopTurn, At, Goto, Spend
  <2>8. ASSUME NEW v \in Vlans \cup {Nothing}, AddLink(p, v) PROVE LeakInv'
    BY <2>8, VlansAssumption DEF AddLink, At, Goto, VlanInUse, Spend, Others, Alive
  <2>9. ASSUME NEW b \in BOOLEAN, SetVlanUp(p, b) PROVE LeakInv'
    BY <2>9, VlansAssumption DEF SetVlanUp, At, Goto
  <2>10. CASE ClearSocket(p)
    BY <2>10, VlansAssumption DEF ClearSocket, At, Goto, SockAfterClear, Others
  <2>11. CASE LoopTop(p)
    BY <2>11, VlansAssumption DEF LoopTop, At, Goto
  <2>12. CASE UnlinkSocket(p)
    BY <2>12, VlansAssumption DEF UnlinkSocket, At, Goto, Gone, Others
  <2> QED  BY <1>5, <2>1, <2>2, <2>3, <2>4, <2>5, <2>6, <2>7, <2>8, <2>9, <2>10, <2>11, <2>12 DEF Step
<1>6. CASE UNCHANGED vars
  BY <1>6, VlansAssumption DEF vars
<1> HIDE DEF LeakInv
<1> QED  BY <1>1, <1>2, <1>3, <1>4, <1>5, <1>6 DEF Next

\* No transport VLAN outlives its daemon, unless a crash or a failing call left it.
THEOREM NoLeakCorrect == Spec => []NoLeak
<1>1. Init => LeakInv
  BY DEF Init, LeakInv
<1>2. LeakInv => NoLeak
  BY DEF LeakInv, NoLeak, Holding
<1> QED  BY <1>1, <1>2, TypeInvariant, LeakStep, PTL DEF Spec

-----------------------------------------------------------------------------
(* Stopping in time.                                                       *)

\* Every second a stopping service spends is accounted for.
LEMMA StopStep == LifeType /\ StopInv /\ [Next]_vars => StopInv'
<1> SUFFICES ASSUME LifeType, StopInv, [Next]_vars PROVE StopInv'
  OBVIOUS
<1> USE DEF StopInv, LifeType, procVars, worldVars, adminVars, ghostVars, counters
<1>1. CASE Admin
  <2>1. CASE StartService
    BY <2>1, ProcsAssumption, TimesAssumption, StopAssumption DEF StartService, Spawn, Alive, Goto
  <2>2. CASE Respawn
    BY <2>2, ProcsAssumption, TimesAssumption, StopAssumption DEF Respawn, Spawn, Alive, Goto
  <2>3. CASE StopService
    <3>1. UNCHANGED <<killed, pc>> /\ late' = 0
      BY <2>3 DEF StopService
    <3>2. term'[Service] => pc[Service] # "off"
      BY <2>3, ProcsAssumption DEF StopService, Alive
    <3>3. pc[Service] \in Startup => excuse' # {}
      BY <2>3 DEF StopService
    <3>4. pc[Service] \in Places /\ 0 <= ClientTime /\ 0 <= ClientTime + Deadline
      BY ProcsAssumption, TimesAssumption
    <3> QED  BY <3>1, <3>2, <3>3, <3>4 DEF Startup, Places
  <2>4. ASSUME NEW p \in Procs, StartByHand(p) PROVE StopInv'
    BY <2>4, ProcsAssumption, TimesAssumption, StopAssumption DEF StartByHand, Spawn, Alive, Goto
  <2>5. ASSUME NEW p \in Procs, Terminate(p) PROVE StopInv'
    BY <2>5, ProcsAssumption, TimesAssumption, StopAssumption DEF Terminate
  <2>6. ASSUME NEW v \in Vlans, NEW b \in BOOLEAN, NEW m \in BOOLEAN, Edit(v, b, m) PROVE StopInv'
    BY <2>6, ProcsAssumption, TimesAssumption, StopAssumption DEF Edit
  <2> QED  BY <1>1, <2>1, <2>2, <2>3, <2>4, <2>5, <2>6 DEF Admin
<1>2. CASE Kill
  <3>1. excuse # {}
    <4>1. term[Service] /\ late >= TermTimeout
      BY <1>2 DEF Kill
    <4>2. {ClientTime, Deadline, TermTimeout, late} \subseteq Nat
      BY TimesAssumption
    <4> QED  BY <4>1, <4>2, StopAssumption
  <3>2. killed' = (killed \/ excuse = {})
    BY <1>2 DEF Kill
  <3>3. ~killed'
    BY <3>1, <3>2
  <3>4. ~term'[Service]
    BY <1>2, ProcsAssumption DEF Kill, Dies, Gone
  <3> QED  BY <3>3, <3>4
<1>3. CASE Test
  <2>1. CASE TestDelete
    BY <2>1, ProcsAssumption, TimesAssumption, StopAssumption DEF TestDelete, TestStep, Foul
  <2>2. CASE TestAdd
    BY <2>2, ProcsAssumption, TimesAssumption, StopAssumption DEF TestAdd
  <2>3. CASE TestUpDown
    BY <2>3, ProcsAssumption, TimesAssumption, StopAssumption DEF TestUpDown, TestStep, Foul
  <2>4. CASE TestRemove
    BY <2>4, ProcsAssumption, TimesAssumption, StopAssumption DEF TestRemove, TestStep, Foul
  <2>5. CASE TestDies
    BY <2>5, ProcsAssumption, TimesAssumption, StopAssumption DEF TestDies
  <2>6. ASSUME NEW v \in Vlans, TestBoard(v) PROVE StopInv'
    BY <2>6, ProcsAssumption, TimesAssumption, StopAssumption DEF TestBoard, TestStep, Alive
  <2> QED  BY <1>3, <2>1, <2>2, <2>3, <2>4, <2>5, <2>6 DEF Test
<1>4. ASSUME NEW p \in Procs, Crash(p) PROVE StopInv'
  BY <1>4, ProcsAssumption, TimesAssumption, StopAssumption DEF Crash, Dies, Gone, Goto
<1>5. ASSUME NEW p \in Procs, Step(p) PROVE StopInv'
  <2>1. ASSUME NEW b \in BOOLEAN, LoadConfig(p, b) PROVE StopInv'
    BY <2>1, ProcsAssumption, TimesAssumption, StopAssumption DEF LoadConfig, At, Goto, Gone
  <2>2. ASSUME NEW b \in BOOLEAN, ConfigureLine(p, b) PROVE StopInv'
    BY <2>2, ProcsAssumption, TimesAssumption, StopAssumption
      DEF ConfigureLine, At, Goto, AfterLine, Spend
  <2>3. ASSUME NEW b \in BOOLEAN, AddVlan(p, b) PROVE StopInv'
    BY <2>3, ProcsAssumption, TimesAssumption, StopAssumption DEF AddVlan, At, Goto, VlanStep
  <2>4. ASSUME NEW b \in BOOLEAN, BindSocket(p, b) PROVE StopInv'
    BY <2>4, ProcsAssumption, TimesAssumption, StopAssumption DEF BindSocket, At, Goto, Others
  <2>5. ASSUME NEW b \in BOOLEAN, WaitWorker(p, b) PROVE StopInv'
    BY <2>5, ProcsAssumption, TimesAssumption, StopAssumption
      DEF WaitWorker, At, Goto, Spend, ShutdownWait
  <2>6. ASSUME NEW b \in BOOLEAN, DeleteVlan(p, b) PROVE StopInv'
    BY <2>6, ProcsAssumption, TimesAssumption, StopAssumption
      DEF DeleteVlan, At, Goto, Others, VlanToDelete
  <2>7. ASSUME NEW n \in 0 .. MaxReads, NEW b \in BOOLEAN, LoopTurn(p, n, b) PROVE StopInv'
    <3>1. /\ UNCHANGED <<killed, term>> /\ pc[p] = "turn" /\ pc' = [pc EXCEPT ![p] = "top"]
          /\ p # Service => UNCHANGED <<late, excuse>>
      BY <2>7 DEF LoopTurn, At, Goto, Spend
    <3>2. CASE p # Service
      BY <3>1, <3>2, ProcsAssumption
    <3>3. CASE p = Service /\ term[p] /\ n <= 1 /\ ~b
      <4>1. late' = late + (n * ClientTime + 0)
        BY <2>7, <3>3 DEF LoopTurn, Spend
      <4>2. n * ClientTime + 0 <= ClientTime /\ n * ClientTime + 0 \in Nat
        <5>1. n \in 0 .. 1 /\ ClientTime \in Nat
          BY <3>3, BoundsAssumption, TimesAssumption
        <5>2. CASE n = 0
          BY <5>1, <5>2
        <5>3. CASE n = 1
          BY <5>1, <5>3
        <5> QED  BY <5>1, <5>2, <5>3
      <4>3. excuse \subseteq excuse'
        BY <2>7, <3>3 DEF LoopTurn
      <4>4. excuse = {} => late = 0
        BY <3>1, <3>3
      <4>5. late' <= ClientTime \/ excuse # {}
        BY <4>1, <4>2, <4>4
      <4> QED  BY <3>1, <3>3, <4>3, <4>5, ProcsAssumption
    <3>4. CASE p = Service /\ term[p] /\ (n > 1 \/ b)
      <4>1. excuse' = excuse \cup {e \in {"client"} : n > 1} \cup {e \in {"ubus"} : b}
        BY <2>7, <3>4 DEF LoopTurn
      <4>2. excuse' # {}
        BY <3>4, <4>1
      <4> QED  BY <3>1, <4>2
    <3>5. CASE p = Service /\ ~term[p]
      BY <3>1, <3>5
    <3>6. n \in Int /\ (n <= 1 \/ n > 1)
      BY BoundsAssumption
    <3> QED  BY <3>2, <3>3, <3>4, <3>5, <3>6
  <2>8. ASSUME NEW v \in Vlans \cup {Nothing}, AddLink(p, v) PROVE StopInv'
    BY <2>8, ProcsAssumption, TimesAssumption, StopAssumption
      DEF AddLink, At, Goto, VlanInUse, Spend, Others, Alive
  <2>9. ASSUME NEW b \in BOOLEAN, SetVlanUp(p, b) PROVE StopInv'
    BY <2>9, ProcsAssumption, TimesAssumption, StopAssumption DEF SetVlanUp, At, Goto
  <2>10. CASE ClearSocket(p)
    BY <2>10, ProcsAssumption, TimesAssumption, StopAssumption
      DEF ClearSocket, At, Goto, SockAfterClear, Others
  <2>11. CASE LoopTop(p)
    BY <2>11, ProcsAssumption, TimesAssumption, StopAssumption DEF LoopTop, At, Goto
  <2>12. CASE UnlinkSocket(p)
    BY <2>12, ProcsAssumption, TimesAssumption, StopAssumption
      DEF UnlinkSocket, At, Goto, Gone, Others
  <2> QED  BY <1>5, <2>1, <2>2, <2>3, <2>4, <2>5, <2>6, <2>7, <2>8, <2>9, <2>10, <2>11, <2>12 DEF Step
<1>6. CASE UNCHANGED vars
  BY <1>6, ProcsAssumption, TimesAssumption, StopAssumption DEF vars
<1> HIDE DEF StopInv
<1> QED  BY <1>1, <1>2, <1>3, <1>4, <1>5, <1>6 DEF Next

\* procd never has to kill a service whose control loop was running when it was told
\* to stop, silent client and silent board included, unless ubusd stalls it or a client
\* feeds it a line in pieces.
THEOREM GracefulStopCorrect == Spec => []GracefulStop
<1>1. Init => StopInv
  BY ProcsAssumption DEF Init, StopInv
<1>2. StopInv => GracefulStop
  BY DEF StopInv, GracefulStop
<1> QED  BY <1>1, <1>2, TypeInvariant, StopStep, PTL DEF Spec
=============================================================================
