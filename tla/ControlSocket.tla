--------------------------- MODULE ControlSocket ----------------------------
(***************************************************************************)
(* The control socket (ipc.rs) from both ends: the clients - rbctl-dsl     *)
(* status, reload, restart-line, stop, firmware-upgrade - with the exit    *)
(* code they give their caller (main.rs), and the control loop of one      *)
(* daemon, which serves one connection per turn and may die at any step.   *)
(* A client may also be anything else that connects and sends no line:     *)
(* nothing at all, or pieces of one that never ends.                       *)
(*                                                                         *)
(* What a STATUS reply says is a version of the shared state, which the    *)
(* worker replaces by newer ones; Monitor models its contents, and Daemon  *)
(* the firmware thread and what becomes of a command once it is queued.    *)
(***************************************************************************)
EXTENDS Integers, Sequences, FiniteSets

CONSTANTS
  Clients,    \* connections, each used once
  Silent,     \* those that never send a line
  MaxVersion, \* bound: versions of the shared state
  MaxPieces   \* bound: pieces without a newline that one of them sends

ASSUME SilentAssumption == Silent \subseteq Clients
ASSUME BoundAssumption == MaxVersion \in Nat /\ MaxPieces \in Nat

VARIABLES
  \* the daemon
  pc,       \* control loop: "turn", "accept", "read", "act", "dead"
  stop,     \* SHOULD_EXIT
  version,  \* version of the shared state
  snap,     \* version of the snapshot of this turn
  serving,  \* the connection that was accepted
  fwpc,     \* firmware threads: "none", "check", "stream", "ended"
  \* the kernel
  backlog,  \* connections waiting to be accepted
  conn,     \* each connection as the client sees it: "none", "open", "closed", "reset"
  unread,   \* the client's line is in the daemon's receive queue
  pieces,   \* pieces of a line: queued, if one is in that queue; left to send
  inbox,    \* lines on their way to the client
  \* the clients
  cpc,      \* "idle", "connected", "waiting", "done"
  cmd,      \* the command
  exit,     \* exit code, -1 while there is none
  \* what an observer remembers
  acted,    \* commands the control loop carried out
  flashed,  \* upgrades the worker reported as done
  floor,    \* version when each client connected, or the snapshot then about to be used
  crashed   \* the daemon did not end by itself

daemonVars == <<pc, stop, version, snap, serving, fwpc>>
kernelVars == <<backlog, conn, unread, pieces, inbox>>
clientVars == <<cpc, cmd, exit>>
ghosts == <<acted, flashed, floor, crashed>>
vars == <<daemonVars, kernelVars, clientVars, ghosts>>

\* IpcCmd, and FIRMWARE <path>.
Commands == {"STATUS", "RELOAD", "RESTART", "STOP", "FIRMWARE"}

\* A line a client may read; v is the version a status describes.
Line == [kind : {"OK", "STATUS", "PROGRESS", "DONE", "ERR"}, v : 0 .. MaxVersion]
Plain(k) == [kind |-> k, v |-> 0]

Init ==
  /\ pc = "turn" /\ stop = FALSE /\ version = 0 /\ snap = 0
  /\ serving = "nobody"
  /\ fwpc = [c \in Clients |-> "none"]
  /\ backlog = <<>>
  /\ conn = [c \in Clients |-> "none"]
  /\ unread = [c \in Clients |-> FALSE]
  /\ pieces = [c \in Clients |-> [queued |-> FALSE, left |-> MaxPieces]]
  /\ inbox = [c \in Clients |-> <<>>]
  /\ cpc = [c \in Clients |-> "idle"]
  /\ cmd \in {f \in [Clients -> Commands] : \A c \in Silent : f[c] = "STATUS"}
  /\ exit = [c \in Clients |-> -1]
  /\ acted = {} /\ flashed = {} /\ floor = [c \in Clients |-> 0] /\ crashed = FALSE

Dead == pc = "dead"

\* Over a connection that has ended no more pieces come.
NoPieces == [queued |-> FALSE, left |-> 0]

\* Write a line to a client; nothing happens if it has gone.
Write(c, l) == inbox' = IF cpc[c] = "done" THEN inbox ELSE [inbox EXCEPT ![c] = Append(@, l)]

\* The daemon closes a connection: the client is told that it was reset if it
\* had sent something that was never read.
AfterClose(c) == IF unread[c] \/ pieces[c].queued THEN "reset" ELSE "closed"
Close(c) == conn' = [conn EXCEPT ![c] = AfterClose(c)]

-----------------------------------------------------------------------------
(* The daemon.                                                             *)

\* The worker publishes something new.
Publish ==
  /\ ~Dead
  /\ version < MaxVersion /\ version' = version + 1
  /\ UNCHANGED <<pc, stop, snap, serving, fwpc, kernelVars, clientVars, ghosts>>

\* The process ends: every connection is closed by the kernel.
Ends ==
  /\ pc' = "dead"
  /\ conn' = [c \in Clients |-> IF conn[c] = "open" THEN AfterClose(c) ELSE conn[c]]
  /\ backlog' = <<>>
  /\ pieces' = [c \in Clients |-> NoPieces]
  /\ UNCHANGED <<stop, version, snap, serving, fwpc, unread, inbox, clientVars, acted, flashed, floor>>

\* Mutant of SnapOf: the snapshot is built once, before the loop.
SnapOfFirst == snap

\* build_snapshot
SnapOf == version

\* The top of the loop: leave it, or build the snapshot for this turn.
TurnBegins ==
  /\ pc = "turn" /\ ~stop
  /\ pc' = "accept"
  /\ snap' = SnapOf
  /\ UNCHANGED <<stop, version, serving, fwpc, kernelVars, clientVars, ghosts>>

LoopEnds ==
  /\ pc = "turn" /\ stop
  /\ Ends
  /\ UNCHANGED crashed

\* accept_one: nobody there.
AcceptNobody ==
  /\ pc = "accept" /\ backlog = <<>>
  /\ pc' = "turn"
  /\ UNCHANGED <<stop, version, snap, serving, fwpc, kernelVars, clientVars, ghosts>>

\* accept_one: the first in the queue.
Accept ==
  /\ pc = "accept" /\ backlog # <<>>
  /\ pc' = "read"
  /\ serving' = Head(backlog)
  /\ backlog' = Tail(backlog)
  /\ UNCHANGED <<stop, version, snap, fwpc, conn, unread, pieces, inbox, clientVars, ghosts>>

\* Mutant of ReadTimesOut: no read timeout is set.
ReadNeverTimesOut == FALSE

\* set_read_timeout(5 s)
ReadTimesOut == TRUE

\* handle_client: read_line has read something without a newline and reads again,
\* with the whole of the read timeout before it.
ReadPiece ==
  /\ pc = "read" /\ pieces[serving].queued
  /\ pieces' = [pieces EXCEPT ![serving].queued = FALSE]
  /\ UNCHANGED <<daemonVars, backlog, conn, unread, inbox, clientVars, ghosts>>

\* handle_client: nothing within the read timeout, or, before that, the end of a
\* client that goes away, which may come at any time (what it sent is no command, and
\* is answered with an error that nobody reads).  The connection is dropped.
ReadNothing ==
  /\ pc = "read" /\ ~unread[serving] /\ ~pieces[serving].queued
  /\ ReadTimesOut
  /\ pc' = "turn"
  /\ Close(serving)
  /\ pieces' = [pieces EXCEPT ![serving] = NoPieces]
  /\ serving' = "nobody"
  /\ UNCHANGED <<stop, version, snap, fwpc, backlog, unread, inbox, clientVars, ghosts>>

\* handle_client: STATUS.  A client that has gone makes the write fail, which is logged.
ServeStatus ==
  /\ pc = "read" /\ unread[serving] /\ cmd[serving] = "STATUS"
  /\ pc' = "turn"
  /\ unread' = [unread EXCEPT ![serving] = FALSE]
  /\ Write(serving, [kind |-> "STATUS", v |-> snap])
  /\ conn' = [conn EXCEPT ![serving] = "closed"]
  /\ serving' = "nobody"
  /\ UNCHANGED <<stop, version, snap, fwpc, backlog, pieces, clientVars, ghosts>>

\* handle_client: RELOAD, RESTART and STOP are acknowledged first, whether or
\* not the client is still there to read it ...
Acknowledge ==
  /\ pc = "read" /\ unread[serving] /\ cmd[serving] \in {"RELOAD", "RESTART", "STOP"}
  /\ pc' = "act"
  /\ unread' = [unread EXCEPT ![serving] = FALSE]
  /\ Write(serving, Plain("OK"))
  /\ conn' = [conn EXCEPT ![serving] = "closed"]
  /\ UNCHANGED <<stop, version, snap, serving, fwpc, backlog, pieces, clientVars, ghosts>>

\* ... and carried out after handle_client has returned.
Act ==
  /\ pc = "act"
  /\ pc' = "turn"
  /\ stop' = (stop \/ cmd[serving] = "STOP")
  /\ acted' = acted \cup {serving}
  /\ serving' = "nobody"
  /\ UNCHANGED <<version, snap, fwpc, kernelVars, clientVars, flashed, floor, crashed>>

\* handle_client: FIRMWARE.  A thread takes the connection over.
ServeFirmware ==
  /\ pc = "read" /\ unread[serving] /\ cmd[serving] = "FIRMWARE"
  /\ pc' = "turn"
  /\ unread' = [unread EXCEPT ![serving] = FALSE]
  /\ fwpc' = [fwpc EXCEPT ![serving] = "check"]
  /\ acted' = acted \cup {serving}
  /\ serving' = "nobody"
  /\ UNCHANGED <<stop, version, snap, backlog, pieces, conn, inbox, clientVars, flashed, floor, crashed>>

\* handle_firmware_ipc, as far as its client can tell: refused ...
FwEnds(c, l) ==
  /\ fwpc' = [fwpc EXCEPT ![c] = "ended"]
  /\ Write(c, l)
  /\ Close(c)

FwRefuse(c) ==
  /\ ~Dead /\ fwpc[c] = "check"
  /\ FwEnds(c, Plain("ERR"))
  /\ UNCHANGED <<pc, stop, version, snap, serving, backlog, unread, pieces, clientVars, ghosts>>

\* ... or accepted, ...
FwAccept(c) ==
  /\ ~Dead /\ fwpc[c] = "check"
  /\ fwpc' = [fwpc EXCEPT ![c] = "stream"]
  /\ Write(c, Plain("OK"))
  /\ UNCHANGED <<pc, stop, version, snap, serving, backlog, conn, unread, pieces, clientVars, ghosts>>

\* ... told of the progress, unless it has gone, which ends the thread ...
FwProgress(c) ==
  /\ ~Dead /\ fwpc[c] = "stream"
  /\ IF cpc[c] = "done"
     THEN fwpc' = [fwpc EXCEPT ![c] = "ended"] /\ UNCHANGED inbox
     ELSE Len(inbox[c]) = 0 /\ Write(c, Plain("PROGRESS")) /\ UNCHANGED fwpc
  /\ UNCHANGED <<pc, stop, version, snap, serving, backlog, conn, unread, pieces, clientVars, ghosts>>

\* ... and told the result, or nothing when the worker has gone.
FwResult(c, ok) ==
  /\ ~Dead /\ fwpc[c] = "stream"
  /\ FwEnds(c, Plain(IF ok THEN "DONE" ELSE "ERR"))
  /\ flashed' = IF ok THEN flashed \cup {c} ELSE flashed
  /\ UNCHANGED <<pc, stop, version, snap, serving, backlog, unread, pieces, clientVars,
                 acted, floor, crashed>>

FwEof(c) ==
  /\ ~Dead /\ fwpc[c] = "stream" /\ stop
  /\ fwpc' = [fwpc EXCEPT ![c] = "ended"]
  /\ Close(c)
  /\ UNCHANGED <<pc, stop, version, snap, serving, backlog, unread, pieces, inbox, clientVars, ghosts>>

Crash == ~Dead /\ Ends /\ crashed' = TRUE

-----------------------------------------------------------------------------
(* The clients: send_command and send_firmware.                            *)

Exits(c, code) ==
  /\ cpc' = [cpc EXCEPT ![c] = "done"]
  /\ exit' = [exit EXCEPT ![c] = code]

\* UnixStream::connect: an error without a daemon.
Connect(c) ==
  /\ cpc[c] = "idle"
  /\ IF Dead
     THEN Exits(c, 1) /\ UNCHANGED <<conn, backlog, floor>>
     ELSE /\ cpc' = [cpc EXCEPT ![c] = "connected"]
          /\ conn' = [conn EXCEPT ![c] = "open"]
          /\ backlog' = Append(backlog, c)
          /\ floor' = [floor EXCEPT ![c] = IF pc = "accept" THEN snap ELSE version]
          /\ UNCHANGED exit
  /\ UNCHANGED <<daemonVars, unread, pieces, inbox, cmd, acted, flashed, crashed>>

\* write_all of the command: an error if the daemon has closed the connection.
Send(c) ==
  /\ cpc[c] = "connected" /\ c \notin Silent
  /\ IF conn[c] = "open"
     THEN /\ cpc' = [cpc EXCEPT ![c] = "waiting"]
          /\ unread' = [unread EXCEPT ![c] = TRUE]
          /\ UNCHANGED exit
     ELSE Exits(c, 1) /\ UNCHANGED unread
  /\ UNCHANGED <<daemonVars, backlog, pieces, conn, inbox, cmd, ghosts>>

\* Something that only holds the connection sends part of a line.
SendPiece(c) ==
  /\ cpc[c] = "connected" /\ c \in Silent /\ conn[c] = "open"
  /\ pieces[c].left > 0
  /\ pieces' = [pieces EXCEPT ![c] = [queued |-> TRUE, left |-> @.left - 1]]
  /\ UNCHANGED <<daemonVars, backlog, conn, unread, inbox, clientVars, ghosts>>

\* Mutant of ExitCode: whatever is not an error is a success.
ExitCodeLenient(c) == IF \E i \in DOMAIN inbox[c] : inbox[c][i].kind = "ERR" THEN 1 ELSE 0

\* ipc_exit looks for ERR in the reply, which may be empty; firmware-upgrade
\* insists on DONE.
ExitCode(c) ==
  IF cmd[c] = "FIRMWARE"
  THEN IF \E i \in DOMAIN inbox[c] : inbox[c][i].kind = "DONE" THEN 0 ELSE 1
  ELSE IF \E i \in DOMAIN inbox[c] : inbox[c][i].kind = "ERR" THEN 1 ELSE 0

\* A firmware client prints what it reads and goes on.
ReadProgress(c) ==
  /\ cpc[c] = "waiting" /\ cmd[c] = "FIRMWARE"
  /\ inbox[c] # <<>> /\ Head(inbox[c]).kind \in {"OK", "PROGRESS"}
  /\ inbox' = [inbox EXCEPT ![c] = Tail(@)]
  /\ UNCHANGED <<daemonVars, backlog, conn, unread, pieces, clientVars, ghosts>>

\* End of the reply: exit with what it says; a reset is an error.
ReadEnd(c) ==
  /\ cpc[c] = "waiting" /\ conn[c] # "open"
  /\ ~(cmd[c] = "FIRMWARE" /\ inbox[c] # <<>> /\ Head(inbox[c]).kind \in {"OK", "PROGRESS"})
  /\ Exits(c, IF conn[c] = "reset" THEN 1 ELSE ExitCode(c))
  /\ UNCHANGED <<daemonVars, kernelVars, cmd, ghosts>>

\* set_read_timeout: 5 s, or 600 s between two lines for firmware-upgrade.
GiveUp(c) ==
  /\ cpc[c] = "waiting" /\ conn[c] = "open"
  /\ inbox[c] = <<>>
  /\ Exits(c, 1)
  /\ UNCHANGED <<daemonVars, kernelVars, cmd, ghosts>>

-----------------------------------------------------------------------------
LoopStep ==
  \/ TurnBegins \/ LoopEnds \/ AcceptNobody \/ Accept
  \/ ReadPiece \/ ReadNothing \/ ServeStatus \/ Acknowledge \/ Act \/ ServeFirmware

FwStep(c) ==
  \/ FwRefuse(c) \/ FwAccept(c) \/ FwProgress(c) \/ FwEof(c)
  \/ \E b \in BOOLEAN : FwResult(c, b)

ClientStep(c) ==
  \/ Connect(c) \/ Send(c) \/ SendPiece(c) \/ ReadProgress(c) \/ ReadEnd(c) \/ GiveUp(c)

Next == Publish \/ LoopStep \/ Crash \/ \E c \in Clients : FwStep(c) \/ ClientStep(c)

Spec == Init /\ [][Next]_vars

\* The control thread is scheduled, and so are the clients once connected.
FairSpec ==
  /\ Spec
  /\ WF_vars(LoopStep)
  /\ \A c \in Clients : WF_vars(Send(c))

-----------------------------------------------------------------------------
\* Exit code 0 means what its caller takes it to mean: the upgrade was reported
\* done by the worker, the status was shown, the command was carried out or is
\* the one being carried out - unless the daemon crashed.
ExitZeroMeans ==
  \A c \in Clients : exit[c] = 0 =>
    CASE cmd[c] = "FIRMWARE" -> c \in flashed
      [] cmd[c] = "STATUS"   -> inbox[c] # <<>> \/ crashed
      [] OTHER               -> c \in acted \/ (pc = "act" /\ serving = c) \/ crashed

\* A status describes the daemon as it was when its client connected, or later,
\* however long the queue before it, unless accept was being called just then.
StatusNotOlder ==
  \A c \in Clients : (cmd[c] = "STATUS" /\ inbox[c] # <<>>) => inbox[c][1].v >= floor[c]

\* A command that was sent is carried out, although its client may have given up
\* waiting and though silent connections, or some that send part of a line, are
\* queued before it, unless the daemon ends.  It takes clients that stop sending: the
\* read timeout is one read's, so one that sends a byte now and then, and never a
\* newline, holds the loop for as long as it likes.
CommandsTaken ==
  \A c \in Clients :
    (cpc[c] = "waiting" /\ cmd[c] # "STATUS") ~> (c \in acted \/ pc = "dead" \/ conn[c] # "open")
=============================================================================
