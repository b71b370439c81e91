------------------------------- MODULE Daemon -------------------------------
(***************************************************************************)
(* The running daemon: the control thread (daemon.rs), the board worker    *)
(* thread (board_worker.rs), one thread per firmware request, the signal   *)
(* handlers, and the state they share - three flags, the command channel,  *)
(* the firmware status - from the moment the control loop starts to the    *)
(* exit of the process.                                                    *)
(*                                                                         *)
(* The worker is the only user of the board.  A board operation is one     *)
(* step here: it is applied and reported, applied though an error is       *)
(* reported, or neither, which is what BoardRequest shows a call to do.    *)
(* Time spent in an operation is time spent before its step.               *)
(***************************************************************************)
EXTENDS Integers, Sequences, FiniteSets

CONSTANTS
  Clients,     \* connections that may ask for a firmware upgrade
  Fitting,     \* those whose image has no chunk larger than a frame may carry; with the
               \* code's CHUNK_SIZE and TX_BUF_SIZE there are none (FirmwareUpload!NoPanic)
  Configs,     \* the UCI configurations in use
  Statuses,    \* the link statuses the board reports
  MaxStimuli,  \* bound: signals, commands and edits from outside
  MaxProgress, \* bound: progress events of one upgrade
  Nothing      \* no line settings, no VLAN, no operation under way

\* What the daemon's decisions depend on in a DslConfig: mod and xfer stand for
\* the settings config_changed compares, sra for those sent to the board but not
\* compared, vlan for the transport VLAN.
Config == [mod : {"adsl", "vdsl", "multi"}, xfer : {"atm", "ptm"}, sra : BOOLEAN, vlan : Nat]

ASSUME ConfigsAssumption == Configs \subseteq Config
ASSUME StatusesAssumption ==
  Statuses \subseteq {"Up", "NoSignal", "Initializing", "EstablishingLink", "Unknown"}
ASSUME FittingAssumption == Fitting \subseteq Clients
ASSUME BoundsAssumption == MaxStimuli \in Nat /\ MaxProgress \in Nat

VARIABLES
  mpc,         \* control thread: "top", "serve", "wait", "cleanup", "exited", "aborted"
  exitFlag,    \* SHOULD_EXIT
  reloadFlag,  \* SHOULD_RELOAD
  chan,        \* the mpsc command channel
  wpc,         \* worker: "top", "recv", "down", "up", "fw", "tell", "poll", "final", "gone"
  cfg,         \* worker: the configuration it believes in
  job,         \* worker: the operation under way
  lastStatus,  \* worker: last_status, "none" before the first poll
  tcEmitted,   \* worker: tc_emitted
  progress,    \* worker: progress events sent for this upgrade
  fw,          \* shared state: fw_status
  cpc,         \* firmware request threads
  reply,       \* their reply channels
  verdict,     \* what each client was finally told
  uci,         \* the UCI configuration on disk
  asked,       \* a reload was requested since uci last changed
  board,       \* line settings the board runs, or Nothing
  upOk,        \* the last line_config_up succeeded, and no upgrade came after it
  final,       \* how the line_config_down at exit went: "none", "ok", "err"
  led,         \* the last line event handed to the notify script
  tc,          \* the last TC-layer event handed to it
  abandoned,   \* the control thread did not wait for the worker
  hostVlan,    \* transport VLAN interface of the host, or Nothing
  sockFile,    \* the IPC socket file exists
  stimuli      \* stimuli so far

mainVars   == <<mpc, abandoned, hostVlan, sockFile>>
flagVars   == <<exitFlag, reloadFlag>>
workerVars == <<wpc, cfg, job, lastStatus, tcEmitted, progress>>
boardVars  == <<board, upOk, final>>
clientVars == <<cpc, verdict>>
eventVars  == <<led, tc>>
userVars   == <<uci, asked, stimuli>>
vars == <<mainVars, flagVars, chan, workerVars, fw, clientVars, reply, userVars,
          boardVars, eventVars>>

Reload  == [kind |-> "reload"]
Restart == [kind |-> "restart"]
Upgrade(c) == [kind |-> "firmware", client |-> c]

Alive == mpc \notin {"exited", "aborted"}

\* Mutant of Send: a queue of one command that drops what does not fit.
SendOrDrop(q, m) == IF wpc = "gone" \/ q # <<>> THEN q ELSE Append(q, m)

\* A sender's view of the channel: messages to a worker that is gone are dropped.
Send(q, m) == IF wpc = "gone" THEN q ELSE Append(q, m)

\* The part of a configuration that opcode 1 carries.
Wire(c) == [mod |-> c.mod, sra |-> c.sra]

\* config_changed
ConfigChanged(old, new) == old.mod # new.mod \/ old.xfer # new.xfer

\* validate_line_config and validate_xfer_mode, as run() applies them at startup.
Valid(c) == (c.mod = "vdsl" => c.xfer = "ptm") /\ (c.mod = "adsl" => c.xfer = "atm")

\* link_status_to_event
EventOf(s) ==
  CASE s = "Up" -> "UP"
    [] s = "Initializing" -> "TRAINING"
    [] s = "EstablishingLink" -> "HANDSHAKE"
    [] OTHER -> "DOWN"

-----------------------------------------------------------------------------
\* The daemon as run() leaves it at the control loop: a valid configuration (the
\* default one if UCI could not be read), a line_config_up that may have failed,
\* an initial TC-layer event, a control socket unless bind failed.  The signal
\* handlers were installed first, so a signal may already have arrived.
Init ==
  /\ mpc = "top" /\ abandoned = FALSE /\ sockFile \in BOOLEAN
  /\ exitFlag \in BOOLEAN /\ reloadFlag \in BOOLEAN
  /\ chan = <<>>
  /\ wpc = "top" /\ job = Nothing /\ lastStatus = "none"
  /\ tcEmitted = FALSE /\ progress = 0
  /\ cfg \in {c \in Configs : Valid(c)}
  /\ fw = "idle"
  /\ cpc = [c \in Clients |-> "absent"]
  /\ reply = [c \in Clients |-> <<>>]
  /\ verdict = [c \in Clients |-> "none"]
  /\ uci \in Configs /\ asked = reloadFlag /\ stimuli = 0
  /\ upOk \in BOOLEAN
  /\ board = Wire(cfg) \/ (~upOk /\ board = Nothing)
  /\ final = "none"
  /\ led = "none" /\ tc = cfg.xfer
  /\ hostVlan = cfg.vlan

Stimulus == Alive /\ stimuli < MaxStimuli /\ stimuli' = stimuli + 1

-----------------------------------------------------------------------------
(* Outside: the operator and procd.                                        *)

\* uci commit
EditUci(c) ==
  /\ Stimulus
  /\ c # uci
  /\ uci' = c
  /\ asked' = FALSE
  /\ UNCHANGED <<mainVars, flagVars, chan, workerVars, fw, clientVars, reply,
                 boardVars, eventVars>>

\* SIGHUP: handle_sighup
Sighup ==
  /\ Stimulus
  /\ reloadFlag' = TRUE
  /\ asked' = TRUE
  /\ UNCHANGED <<mainVars, exitFlag, chan, workerVars, fw, clientVars, reply, uci,
                 boardVars, eventVars>>

\* SIGTERM, SIGINT: handle_sigterm
Sigterm ==
  /\ Stimulus
  /\ exitFlag' = TRUE
  /\ UNCHANGED <<mainVars, reloadFlag, chan, workerVars, fw, clientVars, reply, uci,
                 asked, boardVars, eventVars>>

-----------------------------------------------------------------------------
(* The control thread.                                                     *)

\* Top of the control loop: forward the reload flag.
MainForward ==
  /\ mpc = "top"
  /\ ~exitFlag
  /\ mpc' = "serve"
  /\ reloadFlag' = FALSE
  /\ chan' = IF reloadFlag THEN Send(chan, Reload) ELSE chan
  /\ UNCHANGED <<abandoned, hostVlan, sockFile, exitFlag, workerVars, fw, clientVars,
                 reply, userVars, boardVars, eventVars>>

\* accept_one found no client, or one that asked for the status or nonsense.
MainServeNothing ==
  /\ mpc = "serve"
  /\ mpc' = "top"
  /\ UNCHANGED <<abandoned, hostVlan, sockFile, flagVars, chan, workerVars, fw,
                 clientVars, reply, userVars, boardVars, eventVars>>

\* RELOAD
MainServeReload ==
  /\ mpc = "serve" /\ sockFile
  /\ Stimulus
  /\ mpc' = "top"
  /\ chan' = Send(chan, Reload)
  /\ asked' = TRUE
  /\ UNCHANGED <<abandoned, hostVlan, sockFile, flagVars, workerVars, fw, clientVars,
                 reply, uci, boardVars, eventVars>>

\* RESTART
MainServeRestart ==
  /\ mpc = "serve" /\ sockFile
  /\ Stimulus
  /\ mpc' = "top"
  /\ chan' = Send(chan, Restart)
  /\ UNCHANGED <<abandoned, hostVlan, sockFile, flagVars, workerVars, fw, clientVars,
                 reply, uci, asked, boardVars, eventVars>>

\* STOP
MainServeStop ==
  /\ mpc = "serve" /\ sockFile
  /\ Stimulus
  /\ mpc' = "top"
  /\ exitFlag' = TRUE
  /\ UNCHANGED <<abandoned, hostVlan, sockFile, reloadFlag, chan, workerVars, fw,
                 clientVars, reply, uci, asked, boardVars, eventVars>>

\* FIRMWARE <path>: a thread of its own takes the connection over.
MainServeFirmware(c) ==
  /\ mpc = "serve" /\ sockFile
  /\ Stimulus
  /\ cpc[c] = "absent"
  /\ mpc' = "top"
  /\ cpc' = [cpc EXCEPT ![c] = "check"]
  /\ UNCHANGED <<abandoned, hostVlan, sockFile, flagVars, chan, workerVars, fw, verdict,
                 reply, uci, asked, boardVars, eventVars>>

\* The control loop ends: the Down event, then the wait for the worker.
MainShutdown ==
  /\ mpc = "top"
  /\ exitFlag
  /\ mpc' = "wait"
  /\ led' = "DOWN"
  /\ UNCHANGED <<abandoned, hostVlan, sockFile, flagVars, chan, workerVars, fw,
                 clientVars, reply, userVars, boardVars, tc>>

\* Mutant of WorkerDone: the worker reports before its line_config_down.
WorkerDoneEarly == wpc \in {"final", "gone"}

\* The message on worker_done_rx, sent when the worker's run() returned.
WorkerDone == wpc = "gone"

\* Mutant of DeadlinePasses: a wait with no deadline.
DeadlineNeverPasses == FALSE

\* SHUTDOWN_DEADLINE may pass before the worker is done.
DeadlinePasses == TRUE

\* recv_timeout(SHUTDOWN_DEADLINE): the worker is done, or the deadline passed.
MainWait ==
  /\ mpc = "wait"
  /\ WorkerDone \/ DeadlinePasses
  /\ mpc' = "cleanup"
  /\ abandoned' = ~WorkerDone
  /\ UNCHANGED <<hostVlan, sockFile, flagVars, chan, workerVars, fw, clientVars, reply,
                 userVars, boardVars, eventVars>>

\* The VLAN and the socket file are removed and the process exits.
MainCleanup ==
  /\ mpc = "cleanup"
  /\ mpc' = "exited"
  /\ hostVlan' = Nothing
  /\ sockFile' = FALSE
  /\ UNCHANGED <<abandoned, flagVars, chan, workerVars, fw, clientVars, reply, userVars,
                 boardVars, eventVars>>

-----------------------------------------------------------------------------
(* The board worker.                                                       *)

\* while !SHOULD_EXIT
WorkerTop ==
  /\ Alive /\ wpc = "top"
  /\ wpc' = IF exitFlag THEN "final" ELSE "recv"
  /\ UNCHANGED <<mainVars, flagVars, chan, cfg, job, lastStatus, tcEmitted, progress, fw,
                 clientVars, reply, userVars, boardVars, eventVars>>

\* recv_timeout(WORKER_TICK) ran out.
WorkerIdle ==
  /\ Alive /\ wpc = "recv"
  /\ chan = <<>>
  /\ wpc' = "poll"
  /\ UNCHANGED <<mainVars, flagVars, chan, cfg, job, lastStatus, tcEmitted, progress, fw,
                 clientVars, reply, userVars, boardVars, eventVars>>

\* handle_reload: nothing happens if UCI cannot be read (loaded = FALSE) or no
\* compared setting changed; else the line is taken down and up again.
WorkerReload(loaded) ==
  /\ Alive /\ wpc = "recv"
  /\ chan # <<>> /\ Head(chan) = Reload
  /\ chan' = Tail(chan)
  /\ IF loaded /\ ConfigChanged(cfg, uci)
     THEN wpc' = "down" /\ job' = [kind |-> "reload", new |-> uci]
     ELSE wpc' = "poll" /\ job' = Nothing
  /\ asked' = (asked /\ loaded)
  /\ UNCHANGED <<mainVars, flagVars, cfg, lastStatus, tcEmitted, progress, fw, clientVars,
                 reply, uci, stimuli, boardVars, eventVars>>

\* handle_restart
WorkerRestart ==
  /\ Alive /\ wpc = "recv"
  /\ chan # <<>> /\ Head(chan) = Restart
  /\ chan' = Tail(chan)
  /\ wpc' = "down"
  /\ job' = [kind |-> "restart", new |-> cfg]
  /\ UNCHANGED <<mainVars, flagVars, cfg, lastStatus, tcEmitted, progress, fw, clientVars,
                 reply, userVars, boardVars, eventVars>>

\* line_config_down inside a reload or restart; its result is ignored.
WorkerLineDown ==
  /\ Alive /\ wpc = "down"
  /\ wpc' = "up"
  /\ board' \in {board, Nothing}
  /\ UNCHANGED <<mainVars, flagVars, chan, cfg, job, lastStatus, tcEmitted, progress, fw,
                 clientVars, reply, userVars, upOk, final, eventVars>>

\* tc_emitted after a reload or restart.
TcAfterBounce(emitted) == FALSE

\* Mutant of CfgAfterBounce: the worker keeps believing in the old settings.
CfgAfterBounceOld(j) == cfg

\* The configuration the worker believes in after a reload or restart.
CfgAfterBounce(j) == j.new

\* line_config_up inside a reload or restart; its result is ignored, and a
\* reload then adopts the new configuration.
WorkerLineUp(ok) ==
  /\ Alive /\ wpc = "up"
  /\ wpc' = "poll"
  /\ IF ok THEN board' = Wire(job.new) ELSE board' \in {board, Wire(job.new)}
  /\ upOk' = ok
  /\ cfg' = CfgAfterBounce(job)
  /\ job' = Nothing
  /\ tcEmitted' = TcAfterBounce(tcEmitted)
  /\ UNCHANGED <<mainVars, flagVars, chan, lastStatus, progress, fw, clientVars, reply,
                 userVars, final, eventVars>>

\* handle_firmware_upgrade begins.
WorkerFwBegin ==
  /\ Alive /\ wpc = "recv"
  /\ chan # <<>> /\ Head(chan).kind = "firmware"
  /\ chan' = Tail(chan)
  /\ wpc' = "fw"
  /\ job' = Head(chan)
  /\ progress' = 0
  /\ fw' = "upgrading"
  /\ UNCHANGED <<mainVars, flagVars, cfg, lastStatus, tcEmitted, clientVars, reply,
                 userVars, boardVars, eventVars>>

\* The progress callback: after the announcement, and then only if chunks fit.  The
\* client's end of the channel may be gone.
WorkerFwProgress ==
  /\ Alive /\ wpc = "fw"
  /\ progress = 0 \/ job.client \in Fitting
  /\ progress < MaxProgress
  /\ progress' = progress + 1
  /\ reply' = [reply EXCEPT ![job.client] = IF cpc[job.client] = "stream"
                                            THEN Append(@, "progress") ELSE @]
  /\ UNCHANGED <<mainVars, flagVars, chan, wpc, cfg, job, lastStatus, tcEmitted, fw,
                 clientVars, userVars, boardVars, eventVars>>

\* The first chunk does not fit the transmit buffer: the assertion of
\* build_command_frame fails in the worker's thread, and panic = "abort" takes the
\* whole process down with whatever it would have cleaned up.
WorkerFwAbort ==
  /\ Alive /\ wpc = "fw"
  /\ job.client \notin Fitting
  /\ mpc' = "aborted"
  /\ UNCHANGED <<abandoned, hostVlan, sockFile, flagVars, chan, workerVars, fw, clientVars,
                 reply, userVars, boardVars, eventVars>>

\* firmware_upgrade returns, with an error or past its last chunk: the status is
\* stored ...  A board that got as far as the last stage reboots and comes back
\* without its line settings.
WorkerFwEnd(res) ==
  /\ Alive /\ wpc = "fw"
  /\ res = "done" => job.client \in Fitting
  /\ wpc' = "tell"
  /\ fw' = res
  /\ board' \in {board, Nothing}
  /\ upOk' = FALSE
  /\ UNCHANGED <<mainVars, flagVars, chan, cfg, job, lastStatus, tcEmitted, progress,
                 clientVars, reply, userVars, final, eventVars>>

\* Mutant of Tell: only success is reported.
TellSuccess(q, res) == IF res = "done" THEN Append(q, res) ELSE q

\* reply_tx.send
Tell(q, res) == Append(q, res)

\* ... then the client is told.
WorkerFwTell ==
  /\ Alive /\ wpc = "tell"
  /\ wpc' = "poll"
  /\ reply' = [reply EXCEPT ![job.client] = IF cpc[job.client] = "stream"
                                            THEN Tell(@, fw) ELSE @]
  /\ job' = Nothing
  /\ UNCHANGED <<mainVars, flagVars, chan, cfg, lastStatus, tcEmitted, progress, fw,
                 clientVars, userVars, boardVars, eventVars>>

\* maybe_poll_board: not due yet, or no usable answer.
WorkerPollNothing ==
  /\ Alive /\ wpc = "poll"
  /\ wpc' = "top"
  /\ UNCHANGED <<mainVars, flagVars, chan, cfg, job, lastStatus, tcEmitted, progress, fw,
                 clientVars, reply, userVars, boardVars, eventVars>>

\* Some(status) != self.last_status
Transition(s) == s # lastStatus

\* maybe_poll_board: the board answered with status s.
WorkerPoll(s) ==
  /\ Alive /\ wpc = "poll"
  /\ board = Nothing => s # "Up"
  /\ wpc' = "top"
  /\ lastStatus' = s
  /\ led' = IF Transition(s) THEN EventOf(s) ELSE led
  /\ IF Transition(s) /\ s = "Up" /\ ~tcEmitted
     THEN tc' = cfg.xfer /\ tcEmitted' = TRUE
     ELSE UNCHANGED <<tc, tcEmitted>>
  /\ UNCHANGED <<mainVars, flagVars, chan, cfg, job, progress, fw, clientVars, reply,
                 userVars, boardVars>>

\* The worker's last act: one line_config_down, then its channel end is dropped
\* with everything still queued in it.
WorkerFinal(ok) ==
  /\ Alive /\ wpc = "final"
  /\ wpc' = "gone"
  /\ chan' = <<>>
  /\ final' = IF ok THEN "ok" ELSE "err"
  /\ IF ok THEN board' = Nothing ELSE board' \in {board, Nothing}
  /\ UNCHANGED <<mainVars, flagVars, cfg, job, lastStatus, tcEmitted, progress, fw,
                 clientVars, reply, userVars, upOk, eventVars>>

-----------------------------------------------------------------------------
(* handle_firmware_ipc, one thread per request.                            *)

ClientEnds(c, v) ==
  /\ cpc' = [cpc EXCEPT ![c] = "done"]
  /\ verdict' = [verdict EXCEPT ![c] = v]

\* Is an upgrade already running?
ClientCheck(c) ==
  /\ Alive /\ cpc[c] = "check"
  /\ IF fw = "upgrading"
     THEN ClientEnds(c, "ERR")
     ELSE cpc' = [cpc EXCEPT ![c] = "load"] /\ UNCHANGED verdict
  /\ UNCHANGED <<mainVars, flagVars, chan, workerVars, fw, reply, userVars, boardVars,
                 eventVars>>

\* Read and validate the image.
ClientLoad(c, good) ==
  /\ Alive /\ cpc[c] = "load"
  /\ IF good
     THEN cpc' = [cpc EXCEPT ![c] = "send"] /\ UNCHANGED verdict
     ELSE ClientEnds(c, "ERR")
  /\ UNCHANGED <<mainVars, flagVars, chan, workerVars, fw, reply, userVars, boardVars,
                 eventVars>>

\* OK to the client, the image to the worker.
ClientSend(c) ==
  /\ Alive /\ cpc[c] = "send"
  /\ IF wpc = "gone"
     THEN ClientEnds(c, "ERR")
     ELSE cpc' = [cpc EXCEPT ![c] = "stream"] /\ UNCHANGED verdict
  /\ chan' = Send(chan, Upgrade(c))
  /\ UNCHANGED <<mainVars, flagVars, workerVars, fw, reply, userVars, boardVars, eventVars>>

\* Stream one event; a progress line that cannot be written ends the thread.
ClientStream(c, connected) ==
  /\ Alive /\ cpc[c] = "stream"
  /\ reply[c] # <<>>
  /\ reply' = [reply EXCEPT ![c] = Tail(@)]
  /\ CASE Head(reply[c]) = "done"   -> ClientEnds(c, "DONE")
       [] Head(reply[c]) = "failed" -> ClientEnds(c, "ERR")
       [] OTHER -> IF connected THEN UNCHANGED clientVars ELSE ClientEnds(c, "left")
  /\ UNCHANGED <<mainVars, flagVars, chan, workerVars, fw, userVars, boardVars, eventVars>>

Queued(c)  == \E i \in DOMAIN chan : chan[i] = Upgrade(c)
Serving(c) == wpc \in {"fw", "tell"} /\ job = Upgrade(c)

\* Every sender of the reply channel is gone: the thread ends without a word.
ClientEof(c) ==
  /\ Alive /\ cpc[c] = "stream"
  /\ reply[c] = <<>> /\ ~Queued(c) /\ ~Serving(c)
  /\ ClientEnds(c, "eof")
  /\ UNCHANGED <<mainVars, flagVars, chan, workerVars, fw, reply, userVars, boardVars,
                 eventVars>>

-----------------------------------------------------------------------------
Outside == (\E c \in Configs : EditUci(c)) \/ Sighup \/ Sigterm

\* What the control thread does by itself, without a client asking for it.
MainStep == MainForward \/ MainServeNothing \/ MainShutdown \/ MainWait \/ MainCleanup

MainServes ==
  \/ MainServeReload \/ MainServeRestart \/ MainServeStop
  \/ \E c \in Clients : MainServeFirmware(c)

WorkerStep ==
  \/ WorkerTop \/ WorkerIdle \/ WorkerRestart \/ WorkerLineDown
  \/ \E b \in BOOLEAN : WorkerReload(b) \/ WorkerLineUp(b) \/ WorkerFinal(b)
  \/ WorkerFwBegin \/ WorkerFwProgress \/ WorkerFwAbort \/ WorkerFwTell
  \/ \E res \in {"done", "failed"} : WorkerFwEnd(res)
  \/ WorkerPollNothing \/ \E s \in Statuses : WorkerPoll(s)

ClientStep(c) ==
  \/ ClientCheck(c) \/ ClientSend(c) \/ ClientEof(c)
  \/ \E b \in BOOLEAN : ClientLoad(c, b) \/ ClientStream(c, b)

Next == Outside \/ MainStep \/ MainServes \/ WorkerStep \/ \E c \in Clients : ClientStep(c)

Spec == Init /\ [][Next]_vars

\* The control thread is scheduled; nothing is assumed of worker and board.
MainFairSpec == Spec /\ WF_vars(MainStep)

\* The other threads are scheduled; board operations and upgrades end
\* (BoardRequest, FirmwareUpload).
OthersFair ==
  /\ WF_vars(WorkerStep)
  /\ \A c \in Clients : WF_vars(ClientStep(c))

-----------------------------------------------------------------------------
\* A reload is in the flag, in the channel, or being carried out.
ReloadPending ==
  \/ reloadFlag
  \/ \E i \in DOMAIN chan : chan[i] = Reload
  \/ wpc \in {"down", "up"} /\ job.kind = "reload"

\* No reload is lost between the signal handler or the control socket, the
\* flag, the channel and the worker: when none is under way and one was asked
\* for since UCI last changed, the worker runs the compared settings of UCI.
ReloadNotLost ==
  (asked /\ ~ReloadPending /\ wpc # "gone") => ~ConfigChanged(cfg, uci)

\* While the last line_config_up succeeded and no upgrade came after it, the board runs the
\* settings the worker believes in, whatever bounces and reloads went before.
BoardMatchesCfg ==
  (upOk /\ wpc \in {"top", "recv", "fw", "tell", "poll", "final"}) => board = Wire(cfg)

\* A firmware client that was told OK and still waits has its request queued,
\* in service, or answered, unless the worker has already gone.
NoClientForgotten ==
  \A c \in Clients : cpc[c] = "stream" =>
    \/ Queued(c) \/ Serving(c) \/ wpc = "gone"
    \/ \E i \in DOMAIN reply[c] : reply[c][i] \in {"done", "failed"}

\* A clean exit comes after the worker's last line_config_down, and leaves the
\* line down if that call was answered, whatever was queued or under way.
CleanExitLineDown ==
  (mpc = "exited" /\ ~abandoned) => final # "none" /\ (final = "ok" => board = Nothing)

\* A stop request ends the process whatever the worker and the board do, also
\* if neither ever takes another step.
StopExits == exitFlag ~> ~Alive

\* Every reload asked for is carried out, unless UCI cannot be read or is edited
\* again, or the daemon is told to stop or an upload aborts it: no firmware upgrade
\* or line restart queued before it holds it up for ever.
ReloadApplied ==
  OthersFair => asked ~> (~ConfigChanged(cfg, uci) \/ ~asked \/ exitFlag \/ ~Alive)

\* What a firmware client may be told in the end: DONE only if its image could be sent.
Answers(c) == {"ERR", "left"} \cup {v \in {"DONE"} : c \in Fitting}

\* Every firmware client that was told OK is told the result, unless the daemon is
\* stopped, or dies in the upload of an image whose chunks do not fit a frame: its own
\* or one that was accepted beside it.  As the code stands no image fits, so the
\* result can only be an error before the first chunk.
UpgradeAnswered ==
  OthersFair => \A c \in Clients :
    (cpc[c] = "stream") ~>
      (verdict[c] \in Answers(c) \/ exitFlag \/ (mpc = "aborted" /\ Clients # Fitting))
=============================================================================
