---------------------------- MODULE BoardRequest ----------------------------
(***************************************************************************)
(* The request/response protocol between the daemon and the remote board:  *)
(* Board<T>::request (board.rs) over a raw Ethernet socket, and the typed  *)
(* opcodes built on it.                                                    *)
(*                                                                         *)
(* One frame is sent per attempt, every attempt of a call carries the same *)
(* sequence number, and the receive loop discards whatever is not the      *)
(* response to that number.  The wire keeps order in each direction and    *)
(* loses, delays and corrupts frames; the kernel copies our own frames     *)
(* back to us; other stations' frames show up in the receive queue.        *)
(*                                                                         *)
(* toHost is the wire towards the host together with the socket's receive  *)
(* queue: recv may time out although toHost is not empty, when all of it   *)
(* is still on the wire.                                                   *)
(***************************************************************************)
EXTENDS Integers, Sequences

CONSTANTS
  Ops,        \* the opcodes in use
  Statuses,   \* the status bytes the board answers with; 0 is success
  MaxRetries, \* largest retry budget (set_retries)
  SeqMod,     \* number of sequence numbers; u32 in the code
  SettledRestarts, \* a new process starts only when the old one's frames have gone
  MaxCalls,   \* bound: calls per process lifetime
  MaxNet,     \* bound: frames in flight per direction
  MaxJunk     \* bound: foreign frames received per process lifetime

ASSUME OpsAssumption == Ops \subseteq Nat
ASSUME StatusAssumption == Statuses \subseteq Nat
ASSUME RetriesAssumption == MaxRetries \in Nat
ASSUME SeqModAssumption == SeqMod \in Nat \ {0}
ASSUME RestartsAssumption == SettledRestarts \in BOOLEAN
ASSUME BoundsAssumption == MaxCalls \in Nat /\ MaxNet \in Nat /\ MaxJunk \in Nat

VARIABLES
  pc,       \* "idle", or where in request() the host is: "send", "recv"
  op,       \* opcode of the latest call
  cur,      \* number of the latest call; SeqCounter holds it modulo SeqMod
  attempt,  \* index of the retransmission loop
  retries,  \* Board.retries
  outcome,  \* how the latest call ended
  toBoard,  \* frames on their way to the board
  toHost,   \* frames on their way to the host or in its receive queue
  junk,     \* foreign frames received so far
  line,     \* the board: state of the DSL line
  execd     \* the board: number of the latest command it executed

hostVars  == <<pc, op, cur, attempt, retries, outcome>>
boardVars == <<line, execd>>
vars == <<pc, op, cur, attempt, retries, outcome, toBoard, toHost, junk,
          line, execd>>

StatusOps == {1, 3}  \* line config up, down: a status byte is checked
DataOps   == {2, 4}  \* line object, channel stats: a length is checked
NeedLen   == 2       \* stands for the 63 and 28 bytes the parsers require

\* A frame as Frame::parse sees it, and whether its checksum still holds.  id is
\* not on the wire: it is the number of the call the frame belongs to.
Frame == [kind : {"cmd", "resp", "junk"}, op : Nat, seq : Nat, body : Seq(Nat),
          intact : BOOLEAN, id : Nat]

\* SeqCounter::next: the counter starts at 0 and wraps.
SeqOf(n) == n % SeqMod

\* build_command_frame, and the copy of it the kernel hands back.
CommandFrame ==
  [kind |-> "cmd", op |-> op, seq |-> SeqOf(cur), body |-> <<op>>,
   intact |-> TRUE, id |-> cur]

JunkFrame ==
  [kind |-> "junk", op |-> 0, seq |-> 0, body |-> <<>>,
   intact |-> FALSE, id |-> 0]

\* strip_echo: the opcode byte is dropped when it leads the payload.
StripEcho(body, o) ==
  IF body # <<>> /\ body[1] = o THEN Tail(body) ELSE body

\* The typed opcodes' reading of a response payload.
Decode(o, body) ==
  LET data == StripEcho(body, o)
  IN  IF \/ o \in StatusOps /\ data # <<>> /\ data[1] # 0
         \/ o \in DataOps /\ Len(data) < NeedLen
      THEN "refused"
      ELSE "ok"

\* What the board sends back for opcode o and status st: op 2 repeats the
\* opcode, ops 4 and 5 do not, the other opcodes may.  A refused data request
\* is cut short.
ReplyBody(o, st, echo) ==
  IF o \in DataOps /\ st = 0
  THEN IF echo THEN <<o, 0, 0>> ELSE <<0, 0>>
  ELSE IF echo THEN <<o, st>> ELSE <<st>>

Echoing(o) == IF o = 2 THEN {TRUE} ELSE IF o \in {4, 5} THEN {FALSE} ELSE BOOLEAN

\* The board's line after it accepted opcode o.
Effect(o, l) == IF o = 1 THEN "up" ELSE IF o = 3 THEN "down" ELSE l

\* Mutants of Matches: the sequence number, or the direction, is not compared.
MatchesAnySeq(f) == f.kind = "resp" /\ f.op = op
MatchesEcho(f)   == f.kind # "junk" /\ f.op = op /\ f.seq = SeqOf(cur)

\* The condition under which request() accepts a received frame.
Matches(f) == f.kind = "resp" /\ f.op = op /\ f.seq = SeqOf(cur)

\* The retransmission loop, for attempt in 0..=self.retries, goes round again.
MoreAttempts == attempt < retries

\* The 32-bit counter comes round after 2^32 calls, more than a century of
\* polling: no frame is still under way by then.
NoFrameOutlivesWrap ==
  /\ \A i \in 1 .. Len(toBoard) : toBoard[i].id > cur + 1 - SeqMod
  /\ \A i \in 1 .. Len(toHost) : toHost[i].kind = "resp" => toHost[i].id > cur + 1 - SeqMod

-----------------------------------------------------------------------------
Init ==
  /\ pc = "idle" /\ op \in Ops /\ cur = 0 /\ attempt = 0
  /\ retries = MaxRetries /\ outcome = "idle"
  /\ toBoard = <<>> /\ toHost = <<>> /\ junk = 0
  /\ line \in {"up", "down"} /\ execd = 0

\* set_retries, called between requests.
SetRetries(r) ==
  /\ pc = "idle"
  /\ retries' = r
  /\ UNCHANGED <<pc, op, cur, attempt, outcome, toBoard, toHost, junk, boardVars>>

\* A typed opcode calls request(): a fresh sequence number, first attempt.
Call(o) ==
  /\ pc = "idle"
  /\ cur < MaxCalls
  /\ NoFrameOutlivesWrap
  /\ pc' = "send"
  /\ op' = o
  /\ cur' = cur + 1
  /\ attempt' = 0
  /\ outcome' = "none"
  /\ UNCHANGED <<retries, toBoard, toHost, junk, boardVars>>

\* sock.send succeeds; the kernel may hand us a copy of the frame.
Transmit ==
  /\ pc = "send"
  /\ Len(toBoard) < MaxNet
  /\ pc' = "recv"
  /\ toBoard' = Append(toBoard, CommandFrame)
  /\ \/ toHost' = toHost
     \/ Len(toHost) < MaxNet /\ toHost' = Append(toHost, CommandFrame)
  /\ UNCHANGED <<op, cur, attempt, retries, outcome, junk, boardVars>>

Return(res) ==
  /\ pc' = "idle"
  /\ outcome' = res
  /\ UNCHANGED <<op, cur, attempt, retries, toBoard, junk, boardVars>>

\* sock.send fails: the call ends there.
SendError ==
  /\ pc = "send"
  /\ Return("io")
  /\ UNCHANGED toHost

\* recv_into returned a frame that is not the answer: keep receiving.
ReceiveOther ==
  /\ pc = "recv"
  /\ toHost # <<>>
  /\ ~Matches(Head(toHost))
  /\ toHost' = Tail(toHost)
  /\ UNCHANGED <<hostVars, toBoard, junk, boardVars>>

\* recv_into returned the answer: a bad checksum ends the call at once.
ReceiveAnswer ==
  /\ pc = "recv"
  /\ toHost # <<>>
  /\ Matches(Head(toHost))
  /\ toHost' = Tail(toHost)
  /\ Return(IF Head(toHost).intact THEN Decode(op, Head(toHost).body) ELSE "badframe")

\* Mutant of ReceiveTimeout: a retransmission does not count as an attempt.
ReceiveTimeoutUncounted ==
  /\ pc = "recv"
  /\ MoreAttempts
  /\ pc' = "send"
  /\ UNCHANGED <<op, cur, attempt, retries, outcome, toBoard, toHost, junk, boardVars>>

\* recv_into timed out: retransmit, or give up after the last attempt.
ReceiveTimeout ==
  /\ pc = "recv"
  /\ \/ /\ MoreAttempts
        /\ attempt' = attempt + 1
        /\ pc' = "send"
        /\ UNCHANGED <<op, cur, retries, outcome, toBoard, junk, boardVars>>
     \/ /\ ~MoreAttempts
        /\ Return("timeout")
  /\ UNCHANGED toHost

\* A signal interrupts recv (the handlers are installed without SA_RESTART).
ReceiveError ==
  /\ pc = "recv"
  /\ Return("io")
  /\ UNCHANGED toHost

-----------------------------------------------------------------------------
\* The board takes the next command, executes or refuses it, and answers with
\* the command's opcode and sequence number.
BoardExecute ==
  /\ toBoard # <<>>
  /\ Len(toHost) < MaxNet
  /\ LET f == Head(toBoard)
     IN  \E st \in Statuses : \E echo \in Echoing(f.op) :
           /\ line' = IF st = 0 THEN Effect(f.op, line) ELSE line
           /\ execd' = f.id
           /\ toHost' = Append(toHost, [f EXCEPT !.kind = "resp",
                                        !.body = ReplyBody(f.op, st, echo)])
  /\ toBoard' = Tail(toBoard)
  /\ UNCHANGED <<hostVars, junk>>

\* A frame is lost.  A corrupted command, and a response whose header was
\* corrupted, are ignored by their receivers and so are lost too.
Lose ==
  /\ \/ toBoard # <<>> /\ toBoard' = Tail(toBoard) /\ UNCHANGED toHost
     \/ toHost # <<>> /\ toHost' = Tail(toHost) /\ UNCHANGED toBoard
  /\ UNCHANGED <<hostVars, junk, boardVars>>

\* The payload or checksum of a response is corrupted.
Corrupt ==
  /\ toHost # <<>>
  /\ toHost' = [toHost EXCEPT ![1].intact = FALSE]
  /\ UNCHANGED <<hostVars, toBoard, junk, boardVars>>

\* A frame that is not ours, or not a frame at all, reaches the socket.
Foreign ==
  /\ junk < MaxJunk
  /\ Len(toHost) < MaxNet
  /\ junk' = junk + 1
  /\ toHost' = Append(toHost, JunkFrame)
  /\ UNCHANGED <<hostVars, toBoard, boardVars>>

\* Frames of an earlier process belong to no call of this one.
Orphaned(frames) == [i \in 1 .. Len(frames) |-> [frames[i] EXCEPT !.id = 0]]

\* The process dies, anywhere, and is started again: the counter starts over, what
\* the old socket had received is gone, and what is still on the wire is not, unless
\* the new process comes late enough.  procd's respawn delay sees to that; a restart
\* of the service and a start by hand do not wait.
Restart ==
  /\ pc' = "idle" /\ cur' = 0 /\ attempt' = 0
  /\ retries' = MaxRetries /\ outcome' = "idle"
  /\ junk' = 0 /\ execd' = 0
  /\ toBoard' = Orphaned(toBoard)
  /\ \E n \in 0 .. Len(toHost) : toHost' = Orphaned(SubSeq(toHost, n + 1, Len(toHost)))
  /\ SettledRestarts => toBoard = <<>> /\ toHost' = <<>>
  /\ UNCHANGED <<op, line>>

Host ==
  \/ \E o \in Ops : Call(o)
  \/ \E r \in 0 .. MaxRetries : SetRetries(r)
  \/ Transmit \/ SendError
  \/ ReceiveOther \/ ReceiveAnswer \/ ReceiveTimeout \/ ReceiveError

Environment == BoardExecute \/ Lose \/ Corrupt \/ Foreign \/ Restart

Next == Host \/ Environment

Spec == Init /\ [][Next]_vars

\* The thread inside request() keeps running: send returns, and recv returns a
\* frame, an error, or WouldBlock once SO_RCVTIMEO has passed.
HostStep ==
  Transmit \/ SendError \/ ReceiveOther \/ ReceiveAnswer \/ ReceiveTimeout \/ ReceiveError

FairSpec == Spec /\ WF_vars(HostStep)

-----------------------------------------------------------------------------
\* Every variable holds a value of its type; in particular no attempt index
\* ever leaves the 0..=retries loop of request().
TypeOK ==
  /\ pc \in {"idle", "send", "recv"}
  /\ op \in Ops
  /\ cur \in Nat
  /\ retries \in 0 .. MaxRetries
  /\ attempt \in Nat
  /\ pc # "idle" => attempt <= retries
  /\ outcome \in {"idle", "none", "ok", "refused", "timeout", "badframe", "io"}
  /\ pc = "idle" <=> outcome # "none"
  /\ toBoard \in Seq(Frame)
  /\ toHost \in Seq(Frame)
  /\ junk \in Nat
  /\ line \in {"up", "down"}
  /\ execd \in Nat

\* A call reports success only for the command the board executed last: neither
\* a late answer to an earlier call, nor a duplicate caused by retransmission,
\* nor a command still under way from a call that gave up can make a finished
\* line_config_up or line_config_down disagree with the board's line.
OkMeansApplied ==
  (pc = "idle" /\ outcome = "ok") =>
    /\ execd = cur
    /\ op \in StatusOps => line = Effect(op, line)

\* The commands under way are in the order they were issued, none older than the
\* one the board executed last, and every attempt of a call is the same command.
CommandsInOrder ==
  /\ \A i \in 1 .. Len(toBoard) :
       /\ toBoard[i].seq = SeqOf(toBoard[i].id)
       /\ toBoard[i].id \in execd .. cur
       /\ toBoard[i].id > cur - SeqMod
       /\ toBoard[i].id = cur => toBoard[i].op = op
  /\ \A i, j \in 1 .. Len(toBoard) : i <= j => toBoard[i].id <= toBoard[j].id

\* Every answer under way is to a command the board has executed, and while an
\* answer that the latest call would read as success is under way, the board's
\* line is as that call wants it.
AnswersTruthful ==
  \A i \in 1 .. Len(toHost) :
    toHost[i].kind = "resp" =>
      /\ toHost[i].seq = SeqOf(toHost[i].id)
      /\ toHost[i].id \in 0 .. execd
      /\ toHost[i].id > cur - SeqMod
      /\ toHost[i].id = cur =>
           /\ toHost[i].op = op
           /\ Decode(op, toHost[i].body) = "ok" => line = Effect(op, line)

\* The two channels and the outcome, together: the inductive invariant.
WireInv ==
  /\ execd <= cur
  /\ CommandsInOrder
  /\ AnswersTruthful
  /\ OkMeansApplied

\* The status bytes strip_echo cannot mistake for an echoed opcode.
UnambiguousStatuses == Statuses \cap StatusOps = {}

\* Board::request implements the numbered-call specification BoardRpc.
Rpc == INSTANCE BoardRpc WITH cur <- cur, execd <- execd, outcome <- outcome

ImplementsRpc == Rpc!Spec

\* Every call returns, whatever is lost, as long as foreign frames do not keep
\* arriving (each one restarts the receive timeout).
RequestReturns == (pc # "idle") ~> (pc = "idle")
=============================================================================
