------------------------------ MODULE Monitor -------------------------------
(***************************************************************************)
(* How the line's state reaches those who look at it: the worker's poll    *)
(* (board_worker.rs) publishes it in the shared state, which the ubus      *)
(* object (ubus_obj.rs) and the control socket's STATUS (build_snapshot)   *)
(* render, and emits hotplug events, each of which is a process of its own *)
(* (hotplug.rs) that ends in the LED script or in the TC-layer hooks.      *)
(*                                                                         *)
(* Daemon models when the worker polls and bounces; here it may do either  *)
(* at any time, and what it tells the world is followed to the end.        *)
(***************************************************************************)
EXTENDS Integers, FiniteSets

CONSTANTS
  Statuses,   \* link statuses the board reports
  MaxNow,     \* bound: the clock, in seconds
  MaxEvents,  \* bound: events emitted
  MaxBounces, \* bound: reloads and restarts of the line
  Nothing     \* nothing polled, not up, nothing announced

ASSUME StatusesAssumption ==
  Statuses \subseteq {"Up", "NoSignal", "Initializing", "EstablishingLink", "Unknown"}
ASSUME BoundsAssumption == {MaxNow, MaxEvents, MaxBounces} \subseteq Nat
ASSUME NothingAssumption == Nothing \notin Nat /\ Nothing \notin Statuses /\ Nothing # "Up"

VARIABLES
  now,        \* the clock
  truth,      \* the board: state of the line
  lastStatus, \* worker: last_status
  upSince,    \* worker: up_since
  tcEmitted,  \* worker: tc_emitted
  xfer,       \* worker: cfg.xfer_mode
  pub,        \* the shared DslState
  scripts,    \* notify scripts that are running
  emitted,    \* events emitted so far; names the next one
  led,        \* what the LED shows
  bounces,
  \* what an observer remembers
  downPoll,   \* time of the last poll that did not find the line up
  sawDown,    \* a poll since the last bounce did not find the line up
  lastTc,     \* the mode the last TC-layer event announced
  batch       \* line events emitted since no line script was running

workerVars == <<lastStatus, upSince, tcEmitted, xfer>>
ghosts == <<downPoll, sawDown, lastTc, batch>>
vars == <<now, truth, workerVars, pub, scripts, emitted, led, bounces, ghosts>>

Modes == {"atm", "ptm"}
\* LineEvent::as_str
LineEvents == {"UP", "TRAINING", "HANDSHAKE", "DOWN"}

\* link_status_to_event
EventOf(s) ==
  CASE s = "Up" -> "UP"
    [] s = "Initializing" -> "TRAINING"
    [] s = "EstablishingLink" -> "HANDSHAKE"
    [] OTHER -> "DOWN"

\* tc_layer_status: PTM is announced as EFM.
TcLayer(m) == IF m = "atm" THEN "ATM" ELSE "EFM"

\* led_dsl.sh
LedMode(e) ==
  CASE e = "HANDSHAKE" -> "slow"
    [] e = "TRAINING"  -> "fast"
    [] e = "UP"        -> "on"
    [] OTHER           -> "off"

\* map_link_status: the number of the state in the Lantiq enumeration, and up.
Lstate(s) ==
  CASE s = "NoSignal"         -> [num |-> 3, up |-> FALSE]
    [] s = "EstablishingLink" -> [num |-> 4, up |-> FALSE]
    [] s = "Initializing"     -> [num |-> 5, up |-> FALSE]
    [] s = "Up"               -> [num |-> 7, up |-> TRUE]
    [] OTHER                  -> [num |-> -1, up |-> FALSE]

-----------------------------------------------------------------------------
(* What the readers of the shared state are told.                          *)

\* build_metrics_reply, for the ubus method metrics.
Metrics ==
  IF pub.line = Nothing
  THEN [num |-> 0, up |-> FALSE, uptime |-> 0]
  ELSE [num |-> Lstate(pub.line).num, up |-> Lstate(pub.line).up, uptime |-> pub.uptime]

\* build_snapshot, for STATUS.
Snapshot ==
  IF pub.line = Nothing
  THEN [num |-> 0, up |-> FALSE, uptime |-> 0, xfer |-> pub.xfer]
  ELSE [num |-> Lstate(pub.line).num, up |-> Lstate(pub.line).up, uptime |-> pub.uptime,
        xfer |-> pub.xfer]

-----------------------------------------------------------------------------
\* The worker before its first poll; run() has emitted the TC-layer event.
Init ==
  /\ now = 0
  /\ truth \in Statuses
  /\ lastStatus = Nothing /\ upSince = Nothing /\ tcEmitted = FALSE
  /\ xfer \in Modes
  /\ pub = [line |-> Nothing, uptime |-> 0, xfer |-> xfer]
  /\ scripts = {[id |-> 0, kind |-> "tc", event |-> TcLayer(xfer)]}
  /\ emitted = 1
  /\ led = "off" /\ bounces = 0
  /\ downPoll = 0 /\ sawDown = TRUE /\ lastTc = xfer /\ batch = {"DOWN"}

\* Time passes.
Tick ==
  /\ now < MaxNow
  /\ now' = now + 1
  /\ UNCHANGED <<truth, workerVars, pub, scripts, emitted, led, bounces, ghosts>>

\* The line changes.
LineChanges(s) ==
  /\ truth' = s
  /\ UNCHANGED <<now, workerVars, pub, scripts, emitted, led, bounces, ghosts>>

\* Mutant of UpSince: a line that went down keeps its starting time.
UpSinceKept(s) == IF s = "Up" /\ upSince = Nothing THEN now ELSE upSince

\* up_since after a poll that found s.
UpSince(s) ==
  IF s # "Up" THEN Nothing
  ELSE IF upSince = Nothing THEN now ELSE upSince

\* Mutant of Transition: only going up and leaving up count.
TransitionOfUp(s) == (s = "Up") # (lastStatus = "Up")

\* Some(status) != self.last_status
Transition(s) == s # lastStatus

\* Mutant of TcDue: the event is sent once in the life of the daemon.
TcDueOnce(s) == Transition(s) /\ s = "Up" /\ ~tcEmitted /\ bounces = 0

\* A TC-layer event goes with this transition.
TcDue(s) == Transition(s) /\ s = "Up" /\ ~tcEmitted

\* emit_status, and emit_tc_layer if due: each spawns a script.
NewScripts(s) ==
  (IF Transition(s) THEN {[id |-> emitted, kind |-> "line", event |-> EventOf(s)]} ELSE {})
  \cup (IF TcDue(s) THEN {[id |-> emitted + 1, kind |-> "tc", event |-> TcLayer(xfer)]} ELSE {})

LineScripts == {x \in scripts : x.kind = "line"}

\* maybe_poll_board, the board answering: publish, then tell the scripts.
Poll ==
  /\ emitted + 2 <= MaxEvents
  /\ lastStatus' = truth
  /\ upSince' = UpSince(truth)
  /\ pub' = [line |-> truth, uptime |-> IF UpSince(truth) = Nothing THEN 0 ELSE now - UpSince(truth),
             xfer |-> xfer]
  /\ scripts' = scripts \cup NewScripts(truth)
  /\ emitted' = emitted + Cardinality(NewScripts(truth))
  /\ tcEmitted' = (tcEmitted \/ TcDue(truth))
  /\ downPoll' = IF truth = "Up" THEN downPoll ELSE now
  /\ sawDown' = (sawDown \/ truth # "Up")
  /\ lastTc' = IF TcDue(truth) THEN xfer ELSE lastTc
  /\ batch' = IF ~Transition(truth) THEN batch
              ELSE {EventOf(truth)} \cup (IF LineScripts = {} THEN {} ELSE batch)
  /\ UNCHANGED <<now, truth, xfer, led, bounces>>

\* handle_reload with a changed configuration: the line goes down and up again,
\* the new mode is published and a TC-layer event is owed.
Reload(m) ==
  /\ bounces < MaxBounces /\ bounces' = bounces + 1
  /\ truth' \in Statuses
  /\ xfer' = m
  /\ pub' = [pub EXCEPT !.xfer = m]
  /\ tcEmitted' = FALSE
  /\ sawDown' = FALSE
  /\ UNCHANGED <<now, lastStatus, upSince, scripts, emitted, led, downPoll, lastTc, batch>>

\* handle_restart
Restart ==
  /\ bounces < MaxBounces /\ bounces' = bounces + 1
  /\ truth' \in Statuses
  /\ tcEmitted' = FALSE
  /\ sawDown' = FALSE
  /\ UNCHANGED <<now, lastStatus, upSince, xfer, pub, scripts, emitted, led, downPoll, lastTc, batch>>

\* A script comes to the point where it acts, and ends.
ScriptActs(x) ==
  /\ x \in scripts
  /\ scripts' = scripts \ {x}
  /\ led' = IF x.kind = "line" THEN LedMode(x.event) ELSE led
  /\ UNCHANGED <<now, truth, workerVars, pub, emitted, bounces, ghosts>>

Next ==
  \/ Tick \/ Poll \/ Restart
  \/ \E s \in Statuses : LineChanges(s)
  \/ \E m \in Modes : Reload(m)
  \/ \E x \in scripts : ScriptActs(x)

Spec == Init /\ [][Next]_vars

-----------------------------------------------------------------------------
\* The uptime that STATUS and ubus show never counts time before a poll that found
\* the line down, and is shown only with a line that is up.
UptimeCounts ==
  \A v \in {Snapshot, Metrics} :
    /\ v.uptime <= now - downPoll
    /\ ~v.up => v.uptime = 0

\* Once a poll has seen the line down after the last bounce, a line that is seen
\* up has had the mode now in use announced to the TC-layer hooks.
TcAnnounced == (lastStatus = "Up" /\ sawDown) => (tcEmitted /\ lastTc = xfer)

\* What the LED is to show for a status (the table at the head of led_dsl.sh).
LedFor(s) ==
  IF s = "Up" THEN "on"
  ELSE IF s = "Initializing" THEN "fast"
  ELSE IF s = "EstablishingLink" THEN "slow" ELSE "off"

\* When no line script is running, the LED shows what the last poll saw, or, if
\* scripts ran at the same time, what one of the polls since then saw: a status
\* no poll saw is never shown and a change is never missed.
LedSettles ==
  (LineScripts = {} /\ lastStatus # Nothing) =>
    /\ LedFor(lastStatus) \in {LedMode(e) : e \in batch}
    /\ led \in {LedMode(e) : e \in batch}
    /\ Cardinality(batch) = 1 => led = LedFor(lastStatus)
=============================================================================
