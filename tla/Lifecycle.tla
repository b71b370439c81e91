----------------------------- MODULE Lifecycle ------------------------------
(***************************************************************************)
(* Starting, stopping and crashing: what run() (daemon.rs) does to the     *)
(* world before and after its control loop, as seen by several processes.  *)
(*                                                                         *)
(* The world is shared: the host's transport VLAN interfaces, the control  *)
(* socket's file, the board's data-plane link (its line is Daemon's        *)
(* subject).  Service is the instance that                                 *)
(* procd starts and respawns (dsl_control); the other instances are        *)
(* started from a shell, as is the self test, which uses the same          *)
(* interfaces and the same board.  A process may die at any step.          *)
(*                                                                         *)
(* Time is counted, in seconds, only from the moment procd tells the       *)
(* service to terminate: procd kills what is still alive at TermTimeout.   *)
(***************************************************************************)
EXTENDS Integers, FiniteSets

CONSTANTS
  Procs,        \* daemon processes
  Service,      \* the one run by procd
  Vlans,        \* transport VLAN ids
  TestVlan,     \* test_vid of the self test
  Nothing,      \* no VLAN, no socket file, no configuration
  RequestTime,  \* longest board request at startup: (retries + 1) * timeout
  ClientTime,   \* timeout of one read from an accepted control connection
  UbusTime,     \* longest wait of the ubus poll for its peer to read
  Deadline,     \* SHUTDOWN_DEADLINE
  TermTimeout,  \* term_timeout of the procd instance
  MaxStarts,    \* bound: process starts
  MaxFaults,    \* bound: crashes and failing system calls
  MaxEdits,     \* bound: configuration edits
  MaxTests,     \* bound: self tests
  MaxReads      \* bound: reads that a control connection takes

ASSUME ProcsAssumption == Service \in Procs /\ Nothing \notin Procs
ASSUME VlansAssumption == TestVlan \in Vlans /\ Nothing \notin Vlans
ASSUME TimesAssumption ==
  {RequestTime, ClientTime, UbusTime, Deadline, TermTimeout} \subseteq Nat
\* The constants of the code: one read of 5 s and a deadline of 3 s fit the 10 s that
\* procd grants.  A second read does not.
ASSUME StopAssumption == ClientTime + Deadline < TermTimeout
ASSUME BoundsAssumption ==
  {MaxStarts, MaxFaults, MaxEdits, MaxTests, MaxReads} \subseteq Nat

VARIABLES
  pc,        \* where each process is in run(); "off" when there is none
  vlan,      \* each process' transport VLAN: the one asked for, then the one assigned
  bound,     \* the process has a listener
  term,      \* SHOULD_EXIT
  iface,     \* state of each transport VLAN interface: "none", "down", "up"
  sock,      \* who the socket file leads to: a process, "dead", or Nothing
  link,      \* the board: VLAN of its data-plane link
  uci,       \* the configuration on disk: its VLAN, and whether it is valid
  mgmt,      \* the management interface exists
  enabled,   \* procd keeps the service running
  late,      \* seconds since procd asked the service to terminate
  tpc,       \* where the self test is
  linkOk,    \* the board answered the process' link-add
  fouled,    \* processes whose world another process, or a failing call, changed
  left,      \* VLAN interfaces that a crash or a failing call left behind
  excuse,    \* why the service may be slow: "start", "client", "ubus"
  killed,    \* procd had to kill a service that had no excuse
  starts, faults, edits, tests

procVars  == <<pc, vlan, bound, term, linkOk>>
worldVars == <<iface, sock, link>>
adminVars == <<uci, mgmt, enabled>>
ghostVars == <<fouled, left, excuse, killed>>
counters  == <<starts, faults, edits, tests>>
vars == <<procVars, worldVars, adminVars, late, tpc, ghostVars, counters>>

Alive(p) == pc[p] # "off"
Others(p) == Procs \ {p}
Startup == {"load", "line", "link", "vlan", "setup", "clear", "bind"}

\* Steps of a process that procd has not killed yet.
At(p, where) == pc[p] = where /\ (p = Service => late < TermTimeout)
Goto(p, where) == pc' = [pc EXCEPT ![p] = where]

\* The service spends d seconds; they count once it has been told to terminate.
Spend(p, d) == late' = IF p = Service /\ term[p] THEN late + d ELSE late

\* A system call that may fail, at most MaxFaults times.
Faulty(fails) == faults' = IF fails THEN faults + 1 ELSE faults
MayFail(fails) == fails => faults < MaxFaults

\* A process that has ended has no variables.
Gone(p) ==
  /\ Goto(p, "off")
  /\ vlan' = [vlan EXCEPT ![p] = Nothing]
  /\ bound' = [bound EXCEPT ![p] = FALSE]
  /\ term' = [term EXCEPT ![p] = FALSE]
  /\ linkOk' = [linkOk EXCEPT ![p] = FALSE]
  /\ IF p = Service THEN late' = 0 /\ excuse' = {} ELSE UNCHANGED <<late, excuse>>

-----------------------------------------------------------------------------
Init ==
  /\ pc = [p \in Procs |-> "off"]
  /\ vlan = [p \in Procs |-> Nothing]
  /\ bound = [p \in Procs |-> FALSE]
  /\ term = [p \in Procs |-> FALSE]
  /\ linkOk = [p \in Procs |-> FALSE]
  /\ iface = [v \in Vlans |-> "none"]
  /\ sock = Nothing /\ link = Nothing
  /\ uci \in [vlan : Vlans, valid : {TRUE}]
  /\ mgmt = TRUE /\ enabled = FALSE /\ late = 0 /\ tpc = "idle"
  /\ fouled = {} /\ left = {} /\ excuse = {} /\ killed = FALSE
  /\ starts = 0 /\ faults = 0 /\ edits = 0 /\ tests = 0

-----------------------------------------------------------------------------
(* procd, the operator and netifd.                                         *)

\* A process begins run(): no flag is set and it owns nothing yet.
Spawn(p) ==
  /\ ~Alive(p)
  /\ starts < MaxStarts /\ starts' = starts + 1
  /\ Goto(p, "load")
  /\ UNCHANGED <<vlan, bound, term, linkOk, worldVars, uci, late, tpc, ghostVars, faults,
                 edits, tests>>

\* start_service: the management VLAN is made if its parent is there.
StartService ==
  /\ ~enabled
  /\ enabled' = TRUE
  /\ mgmt' \in {mgmt, TRUE}
  /\ Spawn(Service)

\* procd respawns an instance that ended while the service is enabled.
Respawn ==
  /\ enabled
  /\ Spawn(Service)
  /\ UNCHANGED <<mgmt, enabled>>

\* rbctl-dsl daemon, from a shell.
StartByHand(p) ==
  /\ p # Service
  /\ Spawn(p)
  /\ UNCHANGED <<mgmt, enabled>>

\* The service is stopped: SIGTERM, and procd starts counting.
StopService ==
  /\ enabled
  /\ enabled' = FALSE
  /\ term' = [term EXCEPT ![Service] = Alive(Service)]
  /\ late' = 0
  /\ excuse' = (IF pc[Service] \in Startup THEN {"start"} ELSE {})
  /\ UNCHANGED <<pc, vlan, bound, linkOk, worldVars, uci, mgmt, tpc, fouled, left, killed, counters>>

\* SIGTERM or SIGINT to an instance started from a shell.
Terminate(p) ==
  /\ p # Service /\ Alive(p) /\ ~term[p]
  /\ term' = [term EXCEPT ![p] = TRUE]
  /\ UNCHANGED <<pc, vlan, bound, linkOk, worldVars, adminVars, late, tpc, ghostVars, counters>>

\* uci commit, and the management interface coming and going.
Edit(v, valid, m) ==
  /\ edits < MaxEdits /\ edits' = edits + 1
  /\ uci' = [vlan |-> v, valid |-> valid]
  /\ mgmt' = m
  /\ UNCHANGED <<procVars, worldVars, enabled, late, tpc, ghostVars, starts, faults, tests>>

-----------------------------------------------------------------------------
(* run(), before the control loop.                                         *)

\* Load, validate, check the management interface, open the board socket.  Every
\* failure here ends the process before it has touched anything.
LoadConfig(p, fails) ==
  /\ At(p, "load")
  /\ MayFail(fails) /\ Faulty(fails)
  /\ IF uci.valid /\ mgmt /\ ~fails
     THEN /\ Goto(p, "line") /\ vlan' = [vlan EXCEPT ![p] = uci.vlan]
          /\ UNCHANGED <<bound, term, linkOk, late, excuse>>
     ELSE Gone(p)
  /\ fouled' = fouled \ {p}
  /\ UNCHANGED <<worldVars, adminVars, tpc, left, killed, starts, edits, tests>>

\* Mutant of AfterLine: a board that does not answer ends the start.
AfterLineOrExit(ok) == IF ok THEN "link" ELSE "off"

\* The start goes on whatever line_config_up returned.
AfterLine(ok) == "link"

\* line_config_up: a failure takes all attempts and is only logged.
ConfigureLine(p, ok) ==
  /\ At(p, "line")
  /\ Goto(p, AfterLine(ok))
  /\ Spend(p, IF ok THEN 0 ELSE RequestTime)
  /\ UNCHANGED <<vlan, bound, term, linkOk, worldVars, adminVars, tpc, ghostVars, counters>>

\* Mutant of VlanInUse: the VLAN asked for is used although the board assigned another.
VlanAskedFor(p, assigned) == vlan[p]

\* unwrap_or(transport_vlan): the board's choice, if it made one.
VlanInUse(p, assigned) == IF assigned = Nothing THEN vlan[p] ELSE assigned

\* ptm_link_add or atm_link_add, answered with a VLAN or not answered.
AddLink(p, assigned) ==
  /\ At(p, "link")
  /\ Goto(p, "vlan")
  /\ vlan' = [vlan EXCEPT ![p] = VlanInUse(p, assigned)]
  /\ linkOk' = [linkOk EXCEPT ![p] = assigned # Nothing]
  /\ link' \in (IF assigned # Nothing THEN {assigned} ELSE {link} \cup Vlans)
  /\ \E d \in {0, RequestTime} : Spend(p, d)
  /\ fouled' = IF link' # link THEN fouled \cup {q \in Others(p) : Alive(q)} ELSE fouled
  /\ UNCHANGED <<bound, term, iface, sock, adminVars, tpc, left, excuse, killed, counters>>

\* Mutant of VlanStep: an interface that is already there is taken to be ready.
VlanStepDone(v, fails) == IF fails \/ iface[v] # "none" THEN "clear" ELSE "setup"

\* create_vlan_iface after add_vlan: EEXIST is benign, other errors end it.
VlanStep(v, fails) == IF fails THEN "clear" ELSE "setup"

\* create_vlan_iface: add_vlan ...
AddVlan(p, fails) ==
  /\ At(p, "vlan")
  /\ MayFail(fails) /\ Faulty(fails)
  /\ iface' = IF ~fails /\ iface[vlan[p]] = "none"
              THEN [iface EXCEPT ![vlan[p]] = "down"] ELSE iface
  /\ Goto(p, VlanStep(vlan[p], fails))
  /\ fouled' = IF fails THEN fouled \cup {p} ELSE fouled
  /\ UNCHANGED <<vlan, bound, term, linkOk, sock, link, adminVars, late, tpc, left,
                 excuse, killed, starts, edits, tests>>

\* ... then set_up, which also fails if the interface has gone meanwhile.  The start
\* goes on all the same.
SetVlanUp(p, fails) ==
  /\ At(p, "setup")
  /\ MayFail(fails) /\ Faulty(fails)
  /\ Goto(p, "clear")
  /\ iface' = IF fails \/ iface[vlan[p]] = "none" THEN iface ELSE [iface EXCEPT ![vlan[p]] = "up"]
  /\ fouled' = IF fails THEN fouled \cup {p} ELSE fouled
  /\ UNCHANGED <<vlan, bound, term, linkOk, sock, link, adminVars, late, tpc, left,
                 excuse, killed, starts, edits, tests>>

\* Mutant of SockAfterClear: the file of a dead daemon is left in place.
SockKept == sock

\* remove_file at the beginning of IpcListener::bind.
SockAfterClear == Nothing

\* IpcListener::bind: any old socket file is removed ...
ClearSocket(p) ==
  /\ At(p, "clear")
  /\ Goto(p, "bind")
  /\ sock' = SockAfterClear
  /\ fouled' = fouled \cup (Others(p) \cap {sock})
  /\ UNCHANGED <<vlan, bound, term, linkOk, iface, link, adminVars, late, tpc, left,
                 excuse, killed, counters>>

\* ... and a new one made, unless one has appeared again.  Then the shared state,
\* ubus, the TC-layer event and the worker; none of it can fail the start.
BindSocket(p, fails) ==
  /\ At(p, "bind")
  /\ MayFail(fails) /\ Faulty(fails)
  /\ Goto(p, "top")
  /\ IF ~fails /\ sock = Nothing
     THEN /\ sock' = p /\ bound' = [bound EXCEPT ![p] = TRUE]
          /\ fouled' = fouled \cup {q \in Others(p) : pc[q] = "bind"}
     ELSE /\ fouled' = IF fails \/ sock \in Others(p) THEN fouled \cup {p} ELSE fouled
          /\ UNCHANGED <<sock, bound>>
  /\ UNCHANGED <<vlan, term, linkOk, iface, link, adminVars, late, tpc, left, excuse,
                 killed, starts, edits, tests>>

-----------------------------------------------------------------------------
(* The control loop, as far as time is concerned, and the shutdown.        *)

\* while !SHOULD_EXIT
LoopTop(p) ==
  /\ At(p, "top")
  /\ Goto(p, IF term[p] THEN "wait" ELSE "turn")
  /\ UNCHANGED <<vlan, bound, term, linkOk, worldVars, adminVars, late, tpc, ghostVars, counters>>

\* One turn: accept_one finds no client (reads = 0), or reads its line.  The timeout is
\* of each read, and read_line reads until it has a newline: a silent client costs one
\* timeout, one that sends its line in pieces up to one for each.  Then poll_one may
\* wait for a ubusd that does not read its answer.
LoopTurn(p, reads, stalled) ==
  /\ At(p, "turn")
  /\ reads > 0 => bound[p]
  /\ Goto(p, "top")
  /\ Spend(p, reads * ClientTime + (IF stalled THEN UbusTime ELSE 0))
  /\ excuse' = IF p = Service /\ term[p]
               THEN excuse \cup {e \in {"client"} : reads > 1} \cup {e \in {"ubus"} : stalled}
               ELSE excuse
  /\ UNCHANGED <<vlan, bound, term, linkOk, worldVars, adminVars, tpc, fouled, left, killed, counters>>

\* Mutant of ShutdownWait: the wait covers a whole request of the worker.
ShutdownWaitRequest == RequestTime

\* recv_timeout(SHUTDOWN_DEADLINE)
ShutdownWait == Deadline

\* The worker's line_config_down, waited for no longer than the deadline.
WaitWorker(p, done) ==
  /\ At(p, "wait")
  /\ Goto(p, "del")
  /\ Spend(p, IF done THEN 0 ELSE ShutdownWait)
  /\ UNCHANGED <<vlan, bound, term, linkOk, worldVars, adminVars, tpc, ghostVars, counters>>

\* Mutant of VlanToDelete: the interface of the present configuration is deleted.
VlanOfConfig(p) == uci.vlan

\* delete_vlan_iface(parent, vlan)
VlanToDelete(p) == vlan[p]

\* delete_vlan_iface; a missing interface is no error.
DeleteVlan(p, fails) ==
  /\ At(p, "del")
  /\ MayFail(fails) /\ Faulty(fails)
  /\ Goto(p, "unlink")
  /\ LET v == VlanToDelete(p)
     IN  IF fails
         THEN left' = left \cup {v} /\ UNCHANGED <<iface, fouled>>
         ELSE /\ iface' = [iface EXCEPT ![v] = "none"]
              /\ left' = left \ {v}
              /\ fouled' = fouled \cup {q \in Others(p) : vlan[q] = v}
  /\ UNCHANGED <<vlan, bound, term, linkOk, sock, link, adminVars, late, tpc, excuse,
                 killed, starts, edits, tests>>

\* remove_file(SOCK_PATH), whoever bound it; the process ends.
UnlinkSocket(p) ==
  /\ At(p, "unlink")
  /\ Gone(p)
  /\ sock' = Nothing
  /\ fouled' = (fouled \ {p}) \cup (Others(p) \cap {sock})
  /\ UNCHANGED <<iface, link, adminVars, tpc, left, killed, counters>>

\* The process ends where it is: nothing is undone.
Dies(p) ==
  /\ Gone(p)
  /\ fouled' = fouled \ {p}
  /\ sock' = IF sock = p THEN "dead" ELSE sock
  /\ left' = left \cup ({vlan[p]} \cap {v \in Vlans : iface[v] # "none"})
  /\ UNCHANGED <<iface, link, adminVars, tpc, starts, edits, tests>>

\* A panic (the release profile aborts), a failed allocation, SIGKILL by hand.
Crash(p) ==
  /\ Alive(p)
  /\ MayFail(TRUE) /\ Faulty(TRUE)
  /\ Dies(p)
  /\ UNCHANGED killed

\* procd's patience is over.
Kill ==
  /\ Alive(Service) /\ term[Service] /\ late >= TermTimeout
  /\ Dies(Service)
  /\ killed' = (killed \/ excuse = {})
  /\ UNCHANGED faults

-----------------------------------------------------------------------------
(* rbctl-dsl selftest, one at a time.                                      *)

TestStep(from, to) == tpc = from /\ tpc' = to

\* Every daemon that uses VLAN v, or is about to, loses what it made of it.
Foul(v) == fouled' = fouled \cup {p \in Procs : vlan[p] = v}

\* test_vlan: delete the interface, whoever made it ...
TestDelete ==
  /\ TestStep("idle", "add")
  /\ tests < MaxTests /\ tests' = tests + 1
  /\ iface' = [iface EXCEPT ![TestVlan] = "none"]
  /\ left' = left \ {TestVlan}
  /\ Foul(TestVlan)
  /\ UNCHANGED <<procVars, sock, link, adminVars, late, excuse, killed, starts, faults, edits>>

\* ... make it; if a daemon has made it meanwhile the test ends here ...
TestAdd ==
  /\ tpc = "add"
  /\ IF iface[TestVlan] = "none"
     THEN iface' = [iface EXCEPT ![TestVlan] = "down"] /\ tpc' = "updown"
     ELSE tpc' = "board" /\ UNCHANGED iface
  /\ UNCHANGED <<procVars, sock, link, adminVars, late, ghostVars, counters>>

\* ... set it up and down, and delete it.
TestUpDown ==
  /\ TestStep("updown", "remove")
  /\ iface' = IF iface[TestVlan] = "none" THEN iface ELSE [iface EXCEPT ![TestVlan] = "down"]
  /\ Foul(TestVlan)
  /\ UNCHANGED <<procVars, sock, link, adminVars, late, left, excuse, killed, counters>>

TestRemove ==
  /\ TestStep("remove", "board")
  /\ iface' = [iface EXCEPT ![TestVlan] = "none"]
  /\ left' = left \ {TestVlan}
  /\ Foul(TestVlan)
  /\ UNCHANGED <<procVars, sock, link, adminVars, late, excuse, killed, counters>>

\* test_board: its own line_config_up and atm_link_add, answered or not.
TestBoard(assigned) ==
  /\ TestStep("board", "idle")
  /\ link' \in {link, assigned}
  /\ fouled' = IF link' # link THEN {p \in Procs : Alive(p)} ELSE fouled
  /\ UNCHANGED <<procVars, iface, sock, adminVars, late, left, excuse, killed, counters>>

\* The self test is interrupted.
TestDies ==
  /\ tpc # "idle" /\ tpc' = "idle"
  /\ MayFail(TRUE) /\ Faulty(TRUE)
  /\ left' = left \cup ({TestVlan} \cap {v \in Vlans : iface[v] # "none"})
  /\ UNCHANGED <<procVars, worldVars, adminVars, late, fouled, excuse, killed, starts, edits, tests>>

-----------------------------------------------------------------------------
Admin ==
  \/ StartService \/ Respawn \/ StopService
  \/ \E p \in Procs : StartByHand(p) \/ Terminate(p)
  \/ \E v \in Vlans, b, m \in BOOLEAN : Edit(v, b, m)

Step(p) ==
  \/ \E b \in BOOLEAN :
       \/ LoadConfig(p, b) \/ ConfigureLine(p, b) \/ AddVlan(p, b) \/ SetVlanUp(p, b)
       \/ BindSocket(p, b) \/ WaitWorker(p, b) \/ DeleteVlan(p, b)
       \/ \E n \in 0 .. MaxReads : LoopTurn(p, n, b)
  \/ \E v \in Vlans \cup {Nothing} : AddLink(p, v)
  \/ ClearSocket(p) \/ LoopTop(p) \/ UnlinkSocket(p)

Test ==
  \/ TestDelete \/ TestAdd \/ TestUpDown \/ TestRemove \/ TestDies
  \/ \E v \in Vlans : TestBoard(v)

Next == Admin \/ Kill \/ Test \/ \E p \in Procs : Step(p) \/ Crash(p)

Spec == Init /\ [][Next]_vars

\* A process that is alive keeps running, and procd respawns and kills.
FairSpec ==
  /\ Spec
  /\ WF_vars(Respawn) /\ WF_vars(Kill)
  /\ \A p \in Procs : WF_vars(Step(p))

-----------------------------------------------------------------------------
Running(p) == pc[p] \in {"top", "turn"}

\* Whatever died before it and whatever it left behind, a daemon in its control
\* loop that no other process interfered with is reachable: it has a listener and
\* the socket file leads to it.
Reachable == \A p \in Procs \ fouled : Running(p) => bound[p] /\ sock = p

\* Under the same conditions its transport VLAN interface is there and up, also
\* when a process that died between add_vlan and set_up made it.
VlanReady == \A p \in Procs \ fouled : Running(p) => iface[vlan[p]] = "up"

\* Host and board agree on the transport VLAN of a daemon whose link-add was
\* answered, for as long as it runs, also if the board assigned another VLAN than
\* the one asked for.
VlanMatchesLink ==
  \A p \in Procs \ fouled : (linkOk[p] /\ pc[p] \notin {"off", "load", "line", "link"}) => vlan[p] = link

\* No transport VLAN outlives its daemon: an interface that exists belongs to a
\* process that will delete it, or was left by a crash or a failing call, however
\* many instances and self tests created and deleted the same one.
NoLeak ==
  \A v \in Vlans : iface[v] # "none" =>
    \/ v \in left
    \/ \E p \in Procs : pc[p] \notin {"off", "load", "line", "link"} /\ vlan[p] = v
    \/ v = TestVlan /\ tpc # "idle"

\* procd never has to kill a service whose control loop was running when it was
\* told to stop, silent client and silent board included, unless ubusd stalls it or
\* a client feeds it a line in pieces: each piece is granted its own ClientTime.
GracefulStop == ~killed

\* A service that stays enabled comes to its control loop even if the board never
\* answers, as long as its configuration is valid, the management interface is
\* there and procd has respawns left.
ServiceRuns ==
  (enabled /\ starts < MaxStarts /\ faults = MaxFaults /\ edits = MaxEdits /\ uci.valid /\ mgmt)
    ~> (Running(Service) \/ ~enabled)
=============================================================================
