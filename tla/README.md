# rbctl-dsl: a TLA+ verification project

`rbctl-dsl` controls a DSL modem board that sits behind an Ethernet link. The
daemon sends raw frames (EtherType 0x88B5) to the board, keeps the DSL line as
UCI configures it, tells OpenWrt about the line through hotplug scripts and
ubus, takes commands on a Unix socket, and can upload firmware to the board.
This directory models the daemon from its start to its end: its threads, the
lossy wire to the board, signals, shutdown and crashes, several instances at a
time, both ends of the control socket, the way from UCI options to the wire and
from the board's status to the LED, the byte-level formats, and the offline
firmware extractor. TLC checks the models; TLAPS proves their safety properties for
every value of the constants, all but one: that damaged frames are detected rests
on the polynomial of the CRC, which TLC checks exhaustively at a small width.

Paths below are relative to `src/rbctl-feed/rbctl-dsl/crates/` unless they start
with `docs/` or `plans/`.

## The system

| Component | State | Operations | What is hard |
|---|---|---|---|
| Board request protocol (`rbctl_dsl/src/board.rs`, `rbctl_proto/src/frame.rs`) | sequence counter, retry budget, socket queue | `request` and the typed opcodes on it | lost, late, repeated and corrupted frames; our own frames come back; foreign frames; a respawned daemon |
| Firmware upload (`board.rs` `firmware_upgrade`, `rbctl_proto/src/firmware.rs`) | stage, chunk index, saved budget; the board's flash | announce, stream, verify, complete | a request failing in the middle, a board that falls behind, chunk arithmetic, buffer sizes |
| Control thread (`daemon.rs`) | three atomic flags, command channel, host VLAN, socket file | startup, control loop, firmware request threads, shutdown | signals at any moment; a deadline that races the worker |
| Board worker (`board_worker.rs`) | current configuration, last status, `tc_emitted`, channel | reload, restart, firmware, poll, final line-down | results that are ignored; stale configuration; long operations |
| Control socket (`ipc.rs`, `main.rs`) | one accepted client per loop turn; the socket's backlog | STATUS, RELOAD, RESTART, STOP, FIRMWARE; the clients' exit codes | check-then-act on the upgrade status; silent clients; a daemon that dies between acknowledgement and action |
| Status and hotplug (`board_worker.rs`, `ubus_obj.rs`, `hotplug.rs`, `files/*.sh`) | published line object, uptime, `tc_emitted`; the LED | publish, line event, TC-layer event, render | events are processes nothing orders; polls miss what happens between them |
| Startup and service lifecycle (`daemon.rs` `run`, `files/dsl_control`) | VLAN interface, socket file, board link, signal flags | load, configure, link-add, VLAN, bind, shutdown | crashes anywhere, procd's respawn and its patience, two instances, stale leftovers |
| Configuration (`uci_cfg.rs`, `rbctl_proto/src/validate.rs`, `files/dsl_defaults`) | none of its own; the options are in UCI | build from UCI and overrides; validate | options defaulted from one another; tables; a reload that skips the checks of a start |
| Frame, checksum, pack, unpack (`rbctl_proto`) | none | build, parse, verify | lengths and offsets in padded, cut and damaged frames |
| ubus transport (`transport.rs`) | receive buffer, remaining bytes of a reply | recv, send, poll | partial reads and writes, a full buffer, a peer that stops reading or closes |
| Netlink attributes (`tinyln_rs/src/attr.rs`) | message, open nests | put, nest, iterate | lengths filled in later, padding, puts that found no room |
| Self test (`selftest.rs`) | none | deletes, makes and removes a VLAN; configures the board | uses what a running daemon uses |
| Packet capture, logging, command line, raw socket (`af_packet`) | none | diagnostics and wrappers of system calls | - |
| `src/fwextract` | container, output files | parse, decrypt, split, write | sums of lengths from the file, in-place CBC, a write that fails or a kill in between |

How they interact. Signal handlers set flags. The control thread turns the
reload flag and the socket's commands into messages on one mpsc channel; the
worker takes them one at a time and is the only user of the board. A FIRMWARE
command gets a thread of its own, which checks `fw_status` in the shared state,
queues the image with a reply channel, and streams what comes back. The worker
polls the line once a second between commands and emits hotplug events on
changes; each event is a process. What it knows it leaves in a shared state that
STATUS and ubus render. `SHOULD_EXIT` ends both loops independently; the control
thread waits for the worker, but not longer than `SHUTDOWN_DEADLINE`. Every
instance, and the self test, works on the same VLAN interfaces, socket file and
board.

What makes each part correct: a call that reports success tells the truth about
the board; no reload is lost; what the worker believes about the line is what
the board runs; uptime, LED and TC-layer hooks follow what the polls saw; a
firmware client that was told OK gets a result; an exit code of 0 means that the
command was carried out; a stop stops, and a clean stop leaves the line down; a
daemon nobody interfered with is reachable and has its VLAN, and nothing
outlives its owner unaccounted for; an upgrade reported as done is complete;
what is sent to the board is a legal combination of settings, and the one the
operator asked for; bytes arrive as they were sent or not at all; the images the
extractor writes make up the container. `PROJECT.json` lists the hazards line by
line with the properties that cover them.

## Modules

| Module | Models |
|---|---|
| `BoardRpc` | what `Board::request` promises: numbered calls, executed in order, an answer only for the last one executed |
| `BoardRequest` | `request` and the reading of its answers over the wire |
| `BoardRequestProofs` | theorems about `BoardRequest` and `FrameCodec` |
| `Daemon` | control thread, worker, firmware request threads, signals, shutdown |
| `DaemonProofs` | theorems about `Daemon` |
| `MCDaemon` | configurations for TLC |
| `FirmwareUpload` | `Board::firmware_upgrade` and the board's flash |
| `FirmwareUploadProofs` | theorems about `FirmwareUpload` |
| `LineConfig` | UCI options, overrides, `DslConfig::build`, validation, the payloads of opcodes 1, 5 and 15; start, reload, restart |
| `MCLineConfig` | option texts and command lines for TLC |
| `LineConfigProofs` | theorems about `LineConfig` |
| `Lifecycle` | `run` outside its loop, for several processes; procd, crashes, the self test |
| `LifecycleProofs` | theorems about `Lifecycle` |
| `Monitor` | what becomes of a polled status: shared state, STATUS, ubus, scripts, LED |
| `MonitorProofs` | theorems about `Monitor` |
| `ControlSocket` | clients with their exit codes, and the control loop that serves them |
| `FrameCodec` | a board frame built, damaged or cut, parsed and verified |
| `Crc` | the checksum, at a width TLC can exhaust |
| `UbusTransport` | the ubus connection between two kernel buffers |
| `NetlinkAttr` | netlink attributes put and iterated over |
| `SocketProofs` | theorems about what goes through sockets: `ControlSocket`, `UbusTransport`, `NetlinkAttr` |
| `MCWire` | `FrameCodec`, `UbusTransport` and `NetlinkAttr` for TLC; they share no state, and a behaviour runs one of them (`part`) |
| `FwExtract`, `MCFwExtract` | one run of the firmware extractor; containers and command lines for TLC |
| `FwExtractProofs` | theorems about `FwExtract` |

How they fit together: `BoardRequest` implements `BoardRpc` (`INSTANCE` with a
refinement mapping, checked and proved). `Daemon` takes a board operation as one
step with a result, as `BoardRpc` promises it, and an upload as `FirmwareUpload`
ends it. `Monitor` and `ControlSocket` follow in detail what `Daemon` abbreviates:
the events of a poll, and the connections of a turn. `Lifecycle` has what comes
before and after `Daemon`'s loops. `BoardRequest` takes a corrupted answer as one
whose checksum fails; when it does is `FrameCodec`'s subject.

### BoardRequest

One host thread is inside `request` or idle (`pc`). `Call` is the entry of
`request`: a fresh sequence number. `Transmit` and `SendError` are the two ends
of `sock.send`; `ReceiveOther`, `ReceiveAnswer`, `ReceiveTimeout` and
`ReceiveError` are the arms of the receive loop. `Matches` is the test a frame
must pass, `StripEcho` and `Decode` what the typed opcodes make of its payload.
Frames carry the number of their call in `id`, which is not on the wire: the
program compares `seq` only, and `id` lets properties say which call an answer
really belongs to. `toBoard` and `toHost` keep order (one link, no routing),
lose their head at any time, and a corrupted answer keeps its header and loses
`intact`. A corrupted header is an ignored frame and so a lost one.

The board, the link and other stations are external and are modelled from how
the code uses them: the board executes or refuses a command and answers with the
same opcode and number, with or without repeating the opcode in the payload as
the comment on `strip_echo` describes. `Restart` is the end of a process anywhere and
the start of the next: a new counter and a new socket. What the old socket had received
is gone; what is still under way is not (`Orphaned`), unless `SettledRestarts` holds and
the new process starts on an empty link. procd's respawn delay is far longer than a
frame's stay there; a `restart` of the service and an instance started by hand do not
wait. The run and the theorems assume `SettledRestarts`, since without it the code does not
keep the properties (see the disagreements below).

### Daemon

Every thread is a program counter: `mpc` (control thread), `wpc` (worker), `cpc`
(one per firmware client). A step ends where another thread could see a
difference: `handle_reload` is `WorkerReload` (read UCI and decide),
`WorkerLineDown`, `WorkerLineUp`. A board operation is one step that succeeds,
fails after it took effect, or fails without effect; that is `BoardRpc`'s
promise, so the wire is not repeated here. Time in an operation is time before
its step.

A configuration is reduced to what decisions depend on: `mod` and `xfer` for the
settings `config_changed` compares, `sra` for those it sends and does not
compare, `vlan`. A notify script is assumed to be configured. `upOk`, `final`,
`asked`, `abandoned` and `verdict` record history for the properties.
`SHOULD_RESTART_LINE` is set by no code and its forwarding is left out; the
worker's Disconnected arm cannot happen while the control thread lives. Init is
`run` at the start of the control loop; signals may already have arrived.
An upload ends in an error, in success, or with its first chunk in the failed
assertion of `build_command_frame`, which aborts the process (`WorkerFwAbort`). The clients
whose images escape that are `Fitting`. With the code's sizes, as `FirmwareFrame`
shows, there are none: every upload that gets past its announcement aborts the
daemon. The runs have both kinds of clients, so that what the code does with a
finished upload is checked too.

### FirmwareUpload

One request is one step. `Begin` saves the budget; `Announce`, `Stream`, `Verify`
and `Complete` are the answered requests, `RequestFails` is every `?`. Image
bytes are offsets, so the chunk arithmetic is the code's own. The board is
external: announce erases, or keeps what is there of the same image from an upload
that was cut short, so that acknowledgements may be behind the sender or ahead of
it; a chunk is written or dropped, verify tells whether the image is complete,
complete switches to it or fails to.

### LineConfig

Options are texts. `Words`, `Trim` and `Number` are what `split_whitespace`,
`trim` and `parse` return for the texts in use; the `Parse...` operators, `LineMode`
and the `...Text` operators follow `build`, and `BuildOk` collects its `?`s. A set of
profiles is a set of names until `Bitmask` makes it a number. Payloads are
sequences of bytes. `FirstBoot` is what `files/dsl_defaults` leaves behind. `Start`
is `run` up to the link-add, `StartRefused` its exits after a failed validation,
`StartFails` those for want of an interface or a socket; `Reload`, `RestartLine`
and `Stop` are the worker's. The module is sequential and records what is
transmitted, not what becomes of it: `Daemon` has the threads and the failures.
In `Daemon` a configuration is an abstraction of the one here: its `mod` stands for
modulation, annex and profiles, its `sra` for bitswap and SRA.

### Lifecycle

Each process is a program counter through `run`: `LoadConfig`, `ConfigureLine`,
`AddLink`, `AddVlan`, `SetVlanUp`, `ClearSocket`, `BindSocket`, the loop as far as
it takes time (`LoopTop`, `LoopTurn`), `WaitWorker`, `DeleteVlan`, `UnlinkSocket`.
The world they share is `iface` (the VLAN interfaces), `sock` (whom the socket file
leads to) and `link` (the VLAN of the board's link). `Service` is procd's instance:
`StartService`, `Respawn`, `StopService`, and `Kill` when `late`, the seconds since
SIGTERM, reaches `TermTimeout`. Time is not counted before that. Other instances
come from a shell. `Crash` ends a process anywhere and undoes nothing; system
calls that the code lets fail do. The self test is one more actor.

`fouled`, `left`, `excuse` and `killed` record history. A process is fouled when
another one took something it uses, or one of its own calls failed: the code has
no lock against a second instance, so the properties speak of the others.
`left` are interfaces a crash or a failing call left behind. `excuse` is why a stop
may be slow: it hit the service during startup, whose requests are not
interruptible; `ubusd` does not read; or a client fed the loop its line in pieces.
The socket's timeout is one of each read (`ipc.rs:149`), and `read_line` reads until it
has a newline, so `LoopTurn` takes up to `MaxReads` timeouts: a silent client costs one,
for which a stop needs no excuse, and there is no bound on the others.

### Monitor

`Poll` is `maybe_poll_board` with an answer: it updates `lastStatus` and `upSince`,
publishes, and starts the scripts that are due. `Reload` and `Restart` are bounces
as the monitoring sees them: the line may have any state afterwards and a TC-layer
event is owed. `ScriptActs` takes any running script, since nothing orders
processes. `Metrics` and `Snapshot` are what the two readers make of the shared
state; of the texts only state, uptime and mode are kept. `downPoll`, `sawDown`,
`lastTc` and `batch` (the events since no line script was running) are an observer's
memory. What polls and bounces follow one another is left open here: `Daemon`
has the worker's loop, and its order is one of those.

### ControlSocket

The loop is `TurnBegins` (snapshot), `Accept`, then one of the `Serve...` actions;
a command other than STATUS is acknowledged before it is carried out
(`Acknowledge`, `Act`), and FIRMWARE goes to a thread (`FwStep`). Clients connect,
send, read to the end of the reply or give up (`GiveUp`), and exit (`ExitCode`). A
connection that the daemon closes with unread input is reset. The shared state
is a version number, so a property can say how old a status is. `Silent` clients
connect and never send a whole line: nothing, or pieces of one (`SendPiece`), each of
which keeps `read_line` reading (`ReadPiece`) until a read times out or the client goes
(`ReadNothing`). `Crash` ends the daemon at any step.

### FrameCodec, UbusTransport, NetlinkAttr

A frame of `FrameCodec` is built, padded, then damaged by a burst, or cut, and
received. Offsets, the covered region and the two cells the checksum is stored in are
the code's; the checksum itself is the parameter `Checksum`, for which TLC has `Crc4`:
the code's register and reflected division with a byte scaled to two bits and the
CRC to four. `UbusTransport` has `fill_rx`, `recv` and `send` step by step between two
kernel buffers that ubusd fills and empties as it likes; a cell names its message
and place, so loss, repetition and reordering show. A read may fail, as on a reset
connection, and drops whole frames that are buffered (`FillRxFails`). `NetlinkAttr` keeps the message as
cells of two bytes beside the tree of what was put; `Visit` is the iterator, also over
every nest, from any cell on. A nest's length is cut to the width of its field
(`LenMod`, 2^16 in the code). `nla_put` and `nla_ok` are libnl-tiny's and external.

### FwExtract

One run: `ParseArg` per token, `ReadContainer`, `Decrypt`, `Layout`, then for every
output `CreateFile` and `FillFile`, either of which may fail, and `Kill`. Lengths
are scaled by constants; the signature and AES are external, the latter a small
invertible cipher. Chunk parsing, splitting and CBC are the code's: `ChunkFrom` is
one turn of the loop in `parse_chunks`, `Chunks` the function that goes on from each
offset. An output file is its cells and whether this run `touched` it, so that a file
left by an earlier run cannot be taken for one of this run. What is printed is left
out, but not that printing panics when stdout or stderr cannot be written (`Exit`,
`Continue`, `FillFile`), also after a file was written. `--output` may name the file that
`--all` adds (`args.same`).

## Runs

Passing runs, with their bounds and distinct states:

| Run | Shows | Bounds | States |
|---|---|---|---|
| `BoardRequest` | `OkMeansApplied`, `WireInv`, `ImplementsRpc`, `RequestReturns` | 3 calls, 2 sequence numbers (so they wrap), 1 retransmission, 2 frames per direction, a foreign frame | 330,634 |
| `Daemon` | `ReloadNotLost`, `BoardMatchesCfg`, `NoClientForgotten`, `CleanExitLineDown` | 3 stimuli, 3 configurations, 2 statuses, 1 client | 2,507,583 |
| `DaemonLive` | `StopExits`, `UpgradeAnswered`, `ReloadApplied` | 2 stimuli, 2 configurations, 2 clients, of which one has an image that fits | 247,416 |
| `FirmwareUpload` | `AllSentAtVerify`, `DoneMeansFlashed`, `UploadEnds` | 3 image lengths around a chunk boundary, 2 uploads, the second on what the first left or on an erased flash | 3,366 |
| `LineConfig` | `LineRules`, `ReloadIsRestart`, `RefusalIsContradiction`, `TransportVlan`, `LinkFitsLine` | 2 edits of 11 options with 2 to 5 texts each, 3 command lines, both first-boot states | 36,361 |
| `Lifecycle` | `Reachable`, `VlanReady`, `VlanMatchesLink`, `NoLeak` | service and an instance by hand, 2 starts, 2 faults, 2 VLANs, a self test | 2,955,108 |
| `LifecycleLive` | `GracefulStop`, `ServiceRuns` | the service alone with the code's times, 2 starts, a fault, an edit, a self test, up to 3 reads of a line | 597,634 |
| `Monitor` | `UptimeCounts`, `TcAnnounced`, `LedSettles` | 4 statuses, 6 events, 2 bounces, 2 seconds | 3,201,104 |
| `ControlSocket` | `ExitZeroMeans`, `StatusNotOlder`, `CommandsTaken` | 2 clients with any commands, one that sends no line or a piece of one, 2 versions of the state | 651,064 |
| `FwExtract` | `PartitionOut`, `AbortLeavesOutput`, `SecondAfterFirst`, `DecryptInverts` | chunk areas of every kind, bodies of up to 4 cells, every command line of up to 3 tokens and the longer ones with a key, an `--output` that names another output | 579,480 |
| `Wire` | `AcceptsWhatWasSent`, `DamageDetected`, `StreamsInOrder`, `ReadsWhatWasPut`, `PollReturns` | cells of 4 values, all payloads of up to 3 of them with every burst of 2 and every cut; 5 messages of 1 to 3 cells in reads of 2 through pipes of 3; a netlink message of 10 cells, 2 types, 4 payloads, any nesting | 581,511 |

The bounds are enough for the cases the properties are about: two calls in
sequence with a frame of the first still under way, and a third that reuses its
number; an edit and a reload on each side of a bounce; a client queued behind
a restart or a reload; two options at odds, or one changed before and one after
a start; a last chunk that is full, one byte short and one byte long; a crash
and the start that finds what it left, two instances at once, each with a self
test in between; a line that goes up, bounces, is seen down and up again with
two scripts running; a command queued behind a silent client and one that has
given up; two upgrades accepted at once; a message that straddles two reads, and a reply that takes two writes.
`Lifecycle` sets the program's times to 0: its properties do not depend on them, and
`LifecycleLive` has the code's (8 s for a request with all its attempts, 5 s for a
read and for ubus, a deadline of 3 s, procd's 10 s). `CHECK_DEADLOCK FALSE` is set
where the program stops: a daemon that has exited, an upload or an extraction that
is over, a frame that was received, a netlink message that is built, bounds that are
used up.

One run expects a violation: `FirmwareFrame` has the code's sizes and shows that the
first full chunk of a firmware image does not fit the transmit buffer, so that the
assertion in `build_command_frame` aborts the daemon (`NoPanic`; see "findings").

## Where code and documents disagree

Met while modelling; the models have what the code does.

- `board.rs:415`: an answer that starts with a status byte equal to the opcode, and
  does not repeat the opcode, loses that byte as an echo and is read without a
  status; `docs/rbctl-dsl.md:377-378` promises "stable offsets". The theorems about
  `BoardRequest` assume `UnambiguousStatuses` for this reason.
- `frame.rs:137`: a daemon started right after another ended counts from 1 again, and
  takes a late answer to the other's call of the same number and opcode for its own:
  a call may report success although its command was lost. `OkMeansApplied` is
  violated without `SettledRestarts` (a call is sent and executed, the process
  restarts, its first call is sent, and the old answer arrives).
- `daemon.rs:220`: a second upgrade is accepted before the worker has marked the
  first; `plans/firmware-upgrade-plan.md:234` allows one. Each still gets its own
  result (`NoClientForgotten`).
- `daemon.rs:512`: the worker's event may come after the final Down;
  `docs/rbctl-dsl.md:316`.
- `board_worker.rs:172`: nothing configures the board again after an upgrade has
  rebooted it; `plans/firmware-upgrade-plan.md:335`.
- `uci_cfg.rs:249`: the VDSL2 tones of an ADSL line are dropped, not rejected;
  `plans/rbctl-daemon-plan.md:422`.
- A stop may take longer than `SHUTDOWN_DEADLINE`, which
  `plans/daemon-event-loop-plan.md:227` gives it: a silent client holds the loop before
  the wait begins, one that sends a piece of a line every few seconds holds it for
  as long as it likes (`ipc.rs:182`), and the requests of a start are not interrupted
  at all, so procd may kill a service it stops then (`excuse` in `Lifecycle`).
- A second daemon takes over the socket of the first, and the one that exits first
  removes the file of the other (`fouled`); `ipc.rs:1-2` speaks of one daemon.
- An acknowledgement behind the current chunk is ignored (`NextChunk`);
  `plans/firmware-upgrade-plan.md:132` resumes from it. The stage timeouts are
  assigned to a field and never given to the socket (`Enter`; `:120-127`). The
  status of the last answer is not checked (`Complete`; `:319`). The announced size
  counts the 256-byte header that is not streamed (`Begin`, `Content`;
  `docs/commands/firmware.md:108`).
- A reload never recreates the transport VLAN (`hostVlan`;
  `plans/rbctl-daemon-plan.md:416-417`) and validates nothing (`Reload` of
  `LineConfig`): options a start refuses, such as a VDSL line with ATM, are transmitted,
  where `:380-381` has the reload fail and send nothing. `ReloadIsRestart` speaks of
  options that pass the checks of a start. A reload that changes the transfer mode adds no link of
  the new kind (`LinkFitsLine` speaks of starts only).
- A request that fails inside an upload leaves the stage's retry budget in force
  (`RequestFails`): after an unanswered chunk every later call makes 21 attempts.
- `files/dsl_defaults:46` says that the ATM section is generated ahead of a switch to
  ATM, but the `xfer_mode` it has just written keeps it from doing so (`FirstBoot`).
- A line that is up at the polls before and after a bounce makes no transition, so
  the TC-layer hooks are not told until it has been seen down (`sawDown` in
  `TcAnnounced`). Scripts of quick changes may finish in either order, so the LED may
  settle on the older of them (`batch` in `LedSettles`).
- A client whose connection is closed without a reply exits with 0 (`crashed` in
  `ExitZeroMeans`).
- `src/fwextract/src/main.rs:613` and the messages after it panic when they cannot be
  printed, with a file already written: exit code 101 does not mean that nothing was
  touched (`AbortLeavesOutput` excepts these). With `-a`, `-o <stem>_main.bin` has the host
  image written over the remote one, and the tool reports both (`PartitionOut`).
- After an error of the ubus connection the loop goes on polling it, possibly in
  the middle of a message (`failed` in `StreamsInOrder`).

## Fairness

`RequestReturns`: the thread inside `request` runs, `send` returns, and `recv`
returns within `SO_RCVTIMEO`; foreign frames are finitely many, since each one
restarts the timeout. `UploadEnds`: the worker runs and each request returns.
`StopExits` assumes only that the control thread runs: the worker and the board may
stop for ever. `UpgradeAnswered` and `ReloadApplied` state the further assumption
they need (`OthersFair`): every thread runs; that board operations end is
`RequestReturns`, that uploads end is `UploadEnds`. `ServiceRuns`: procd respawns and
kills, and a process that is alive runs; it supposes respawns left within the
bound, a valid configuration and the management interface, and nothing of the
board. `CommandsTaken`: the control thread runs, a client that has connected sends, and
clients that send pieces of a line send finitely many (`MaxPieces`); one that never
stops holds the loop, and nothing in the code prevents it. `PollReturns`: the control thread runs; ubusd may do nothing for ever. No
fairness is assumed of operators, signals, edits, clients otherwise, or of any
operation succeeding.

## Proofs

`BoardRequestProofs` proves for every set of opcodes and statuses, retry budget,
number space and bound:

- `TypeCorrect`: `Spec => []TypeOK`.
- `WireCorrect`: `Spec => []WireInv`, from `UnambiguousStatuses` - no status byte
  equals an opcode whose status is read. Without it a refused command reads as
  carried out (the first disagreement above) - and from `SettledRestarts`.
- `OkCorrect`: `Spec => []OkMeansApplied`, from the same two.
- `RequestImplementsRpc`: `BoardRequest` implements `BoardRpc`, from the same two.
- `FramesAccepted`: `FrameSpec => []AcceptsWhatWasSent` (below).

`OkMeansApplied` speaks of a finished call only and is not inductive: when an
answer is received, one must already know that it is truthful. `WireInv` adds
what is true of the frames under way. Commands are in issue order, none older
than the last one executed (`CommandsInOrder`), so what the board executes next
never undoes a later command. Every answer belongs to an executed call and,
if it belongs to the latest, says what the board's line is (`AnswersTruthful`).
The step from "same sequence number" to "same call" is the lemma `SeqWindow`:
two numbers less than `SeqMod` apart with equal residues are equal; frames older
than that are excluded by `NoFrameOutlivesWrap`, the assumption that no frame is
under way for the century a 32-bit counter takes to come round. That is an assumption
about the link, as `SettledRestarts` is one about when processes start; the theorems
show nothing about a link or a restart that breaks them.

`FramesAccepted` holds for every checksum function, width of a cell, padding, burst and
cut. `FrameInv` says that every cell outside the damage is the one that was sent and
that the verdict is `Judge` of what arrived. The rest is arithmetic of offsets: what
`CrcCovered` selects, before the checksum is stored, after, and in what was received, is
the same although padding may be cut or damaged. `FrameAssumption` bounds a payload by what its length
field can hold, as the buffer of the code does.

`LineConfigProofs` proves for every set of option texts and command lines and any
number of edits:

- `LineCorrect`: `Spec => []LineInv`, the inductive invariant: while the daemon runs
  the last opcode 1 is that of `cfg`, `cfg` is in the range of `build` (two
  modulations, five annexes), and if the options were read since they changed,
  `config_changed` finds no difference between them and `cfg`.
- `ReloadCorrect` (`ReloadIsRestart`), from `LineInv` and the lemma that settings
  `config_changed` takes for equal make the same compared bytes. It is about options
  that a start accepts; of the others a restart would transmit nothing.
- `LineRulesCorrect` (`LineRules`), from `LineInv` and the range of `build`: a reload
  validates nothing, and what keeps rules 1 and 2 is that no text parses to
  anything else.
- `LinkFitsCorrect` (`LinkFitsLine`), an action property.
- `RefusalCorrect` (`RefusalIsContradiction`): what `build` makes fails no rule but
  the third, and that one only for options given by hand.
- `TransportVlanCorrect` (`TransportVlan`): `build` keeps every index in 0 .. 7 whatever
  its text (`VlanBaseRange`), and the two bytes of 2000 + index read back as that
  number (`VlanBytes`), at the offset of either opcode (`LinkAddVlan`).

`MonitorProofs` proves for every set of statuses, any length of time and any number
of events and bounces:

- `UptimeCorrect` (`UptimeCounts`). The published uptime alone is not inductive: the
  next one is computed from `up_since`. `UptimeInv` adds that `up_since` lies between
  the last poll that found the line down and now, which every poll keeps and a
  bounce does not touch.
- `TcCorrect` (`TcAnnounced`). `TcInv` adds that `tc_emitted` means that the mode in use
  was the last announced; a bounce that changes the mode resets it.
- `LedCorrect` (`LedSettles`). `LedInv` ties the running scripts to the batch: whichever
  acts last, what it shows is an event of the batch, and the last poll's event is
  one. Whether there is only one is a matter of cardinality (`FiniteSetTheorems`).

`FirmwareUploadProofs` proves for every image length, header, chunk and buffer size
and any number of uploads:

- `AllSentCorrect` (`AllSentAtVerify`) and `DoneCorrect` (`DoneMeansFlashed`). That all
  bytes were sent when verify begins follows from what held at every chunk:
  `UploadInv` says that every byte of the chunks before `chunk_idx` was sent or is in
  the board's flash. `ChunkStep` shows that no acknowledgement makes the index skip
  a chunk the board has not got (an acknowledgement ahead of the sender stands for
  chunks without a gap before them), and that the
  chunks below the number of chunks are all of the image (ceiling division).

`DaemonProofs` proves for every set of configurations, statuses and clients and any
number of stimuli:

- `ReloadCorrect` (`ReloadNotLost`). During a bounce `cfg` is still the old one, so the
  property says nothing then and cannot be kept by the step that ends the bounce.
  `ReloadInv` speaks of `Target`, the configuration the worker has once its bounce is
  over, and is kept by every hand-over: handler to flag, flag to channel,
  channel to worker.
- `BoardCorrect` (`BoardMatchesCfg`) and `CleanExitCorrect` (`CleanExitLineDown`), from
  `LineInv`: the worker is gone exactly when it has made its last call, a last call
  that succeeded left the line down, and a control thread that is past its wait and
  did not abandon the worker saw it go.
- `ClientsCorrect` (`NoClientForgotten`), for any number of concurrent firmware clients,
  where TLC has two at most: a request in the channel stays there until the worker takes
  it (`InHand`), and a result once in the reply channel stays until it is read.

`LifecycleProofs` proves for every set of processes and VLANs and any number of
starts, faults, edits and self tests:

- `ReachableCorrect` (`Reachable`), from `SockInv`: between `remove_file` and `bind` there is
  no socket file, so the bind is the daemon's own; from then until its unlink the
  file leads to it. Without the first half the second is not inductive.
- `VlanReadyCorrect` (`VlanReady`), from `IfaceInv`: the interface is there after
  `add_vlan`, made or found, and up after `set_up`.
- `VlanLinkCorrect` (`VlanMatchesLink`), from `LinkInv`: nobody's `linkOk` survives into
  its next start.
- `NoLeakCorrect` (`NoLeak`), from `LeakInv`, which names the exact steps between which an
  interface has a holder.
- `GracefulStopCorrect` (`GracefulStop`), from `StopInv`: a bound on the seconds since SIGTERM
  for each place of the shutdown, which adds up to one read and one deadline. It
  rests on `StopAssumption`, `ClientTime + Deadline < TermTimeout`, which the constants of
  the code satisfy (5 s + 3 s < 10 s); with longer ones procd would lose patience
  first. A stop that meets a client's second read has its excuse on record, and the
  theorem says nothing of it.

The other assumptions are that `Nothing` is neither a process nor a VLAN and that
times are naturals.

`SocketProofs` proves of `ControlSocket`, for every set of clients, silent ones among
them, and any number of versions of the shared state:

- `ExitZeroCorrect` (`ExitZeroMeans`). A client exits on what it finds in its connection,
  long after the daemon wrote it. `ReplyInv` says what a connection means
  meanwhile: one that is closed carried its command or its reply, a DONE line in
  it stands for a flashed board, a reset one of another command for a dead daemon.
- `StatusCorrect` (`StatusNotOlder`), from `VersionInv`: the snapshot a turn takes is as
  new as what any client could know that is already in the backlog. A client that
  connects while accept is being called may get that snapshot and is measured by it.

of `UbusTransport`, for all sizes of messages, replies, reads, pipes and buffer, the
empty pipe included (`UbusAssumption`: a message, a reply and a read have at least a
cell):

- `StreamsCorrect` (`StreamsInOrder`). What was handed out says nothing about what is
  still to come, so the invariant follows the stream from end to end: what `recv` has
  returned, `rxBuf` and the kernel's buffer make up what ubusd wrote, in this order
  (`RxInv`); what ubusd has read, the kernel's buffer and what `send` has yet to write
  make up the replies begun (`TxInv`). Both hold until the connection has failed.

and of `NetlinkAttr`, for every room, set of payloads and depth of nesting
(`NetlinkAssumption`: a type is below the flag that marks a nest, and the room in a
message, a page in the code, below what a length field can hold):

- `NetlinkReads` (`ReadsWhatWasPut`). That the message reads back as what was put is not
  inductive: while a nest is open its header is not filled in, and an attribute
  is appended behind others. `Reads(s, l)` says that the iterator, whatever follows s,
  reads l there and goes on behind it; `NetlinkInv` says so of every stretch of the
  message between the headers of the open nests. Closing a nest turns two stretches
  into one (`EndsNest`).

`FwExtractProofs` proves for every set of containers, command lines, keys and recovered
messages and any lengths of header, signature, block and key:

- `AbortCorrect` (`AbortLeavesOutput`), `SecondCorrect` (`SecondAfterFirst`) and
  `PartitionCorrect` (`PartitionOut`), from one invariant, `RunInv`. `Progress` says which
  files are complete for each number of files written, of two that are different
  files; a run that has touched one has a remote image and a version line that does
  not panic; `DataOk` that both images
  fit into the container and that decryption has left the tag alone, so that the
  sizes read before it still hold after it.
- `TagLen`: however a file's chunks are cut, `parse_chunks` returns a length, and one
  no smaller than the tag header. `ChunksExist` and `ChunksDefined` show that its
  recursion is well founded, since each turn goes on at a greater offset.

- `DecryptCorrect` (`DecryptInverts`). `CipherInv` says that the container in memory is the
  one that was read until `Decrypt` replaced it, with a key and a vector from the salt
  of a recovered message. What remains is pure: a block is the inverse of its cipher
  for every key (`BlockInverts`, from arithmetic modulo `Base`), the decrypted container
  has at every place the cell of the right block (`DecryptedCells`), and the ciphertext
  satisfies the equation that defines encrypting it again, whose solution is
  unique (`ChainIsEncryption`, `EncryptionUnique`). `LayoutAssumption` says that the cells
  of containers and of recovered messages are bytes.

The functions the models define by recursion (`Chunks`, `Joined`, `Visit`, `Encryption`) are
reasoned about without induction as a rule of inference, which the provers cannot
instantiate: each lemma takes the least counterexample (`LeastNatural`, from the
library's `WFMin`) and contradicts it.

Only model-checked:

- Liveness (`RequestReturns`, `StopExits`, `UpgradeAnswered`, `ReloadApplied`, `UploadEnds`,
  `ServiceRuns`, `CommandsTaken`, `PollReturns`): fairness and ENABLED are beyond the
  prover.
- `DamageDetected`: that a burst changes the checksum is a fact about the polynomial of
  the CRC, and the bitwise operators are beyond the provers. `FramesAccepted` needs
  no property of the checksum.

## Not modelled

- `af_packet`: wrappers of system calls; what they return is in `BoardRequest`.
- The field offsets of `unpack.rs`: straight-line reads of fixed places, behind the
  length checks that `BoardRequest` has.
- The wording of STATUS and of the ubus metrics, apart from state, uptime and mode;
  packet capture and logging, which write what they are given.
- The handshake and the codec of the ubus crate, libuci and libnl-tiny: external.
- The RSA arithmetic of the extractor, and the Python examples.
- A second concurrent firmware client in the run `Daemon`, which with two exceeds what
  TLC does in minutes; `DaemonLive` has two, and `ClientsCorrect` any number.

## Plan

The modelling is as complete as it is meant to be, and every safety property but
`DamageDetected` is proved. What is left:

1. What a theorem about the composition would say: that the board operations of
   `Daemon` are calls of `BoardRpc`, and the connections of its turns those of
   `ControlSocket`.
2. That a CRC of any width with a suitable polynomial detects every burst no longer
   than itself, with the division stated over sequences of bits instead of numbers.
