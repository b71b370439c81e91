---------------------------- MODULE UbusTransport ----------------------------
(***************************************************************************)
(* The daemon's end of the ubus socket (transport.rs) and the control      *)
(* loop's poll of it: poll_one receives a frame if a whole one is there    *)
(* and sends the reply, and the loop ignores what it returns (daemon.rs).  *)
(*                                                                         *)
(* ubusd and the kernel's two socket buffers are the environment, and so   *)
(* are Codec and poll_one, which belong to the ubus crate.  A message is   *)
(* its cells; cell i of message k is [msg |-> k, at |-> i].                *)
(***************************************************************************)
EXTENDS Integers, Sequences, SequencesExt

CONSTANTS
  Sizes,    \* sizes of the messages ubusd sends, in order
  ReplyLen, \* size of a reply
  Chunk,    \* bytes one read takes
  MaxMsg,   \* MAX_MSG_LEN
  Pipe,     \* room in each of the kernel's buffers
  MaxWaits, \* one-millisecond sleeps before send's deadline
  MaxReplies \* bound: replies sent

ASSUME UbusAssumption ==
  /\ Sizes \in Seq(Nat \ {0}) /\ {ReplyLen, Chunk} \subseteq Nat \ {0}
  /\ {MaxMsg, Pipe, MaxWaits, MaxReplies} \subseteq Nat

VARIABLES
  up,      \* cells ubusd has written and the daemon has not read
  written, \* cells ubusd has written so far
  closed,  \* ubusd is gone
  rxBuf,
  got,     \* messages recv has returned
  failed,  \* an error of recv or send other than the close
  sawClose,\* recv has returned Closed
  upc,     \* where poll_one is
  out,     \* cells of the reply still to be written
  waits,   \* sleeps left
  replies, \* replies whose send has returned Ok
  begun,   \* replies begun
  down,    \* cells the daemon has written and ubusd has not read
  heard    \* cells ubusd has read

rxVars == <<up, written, closed, rxBuf, got, sawClose>>
txVars == <<out, waits, replies, begun, down, heard>>
ubusVars == <<rxVars, failed, upc, txVars>>

\* The cells of message k of size n.
Cells(k, n) == [i \in 1 .. n |-> [msg |-> k, at |-> i]]

\* The first n of the sequences in s, end to end, for each n.
Joined(s) ==
  LET joined[n \in 0 .. Len(s)] == IF n = 0 THEN <<>> ELSE joined[n - 1] \o s[n]
  IN joined

\* ubusd's first n messages, all that ubusd will write, and the first n replies.
Messages(n) == Joined([k \in 1 .. Len(Sizes) |-> Cells(k, Sizes[k])])[n]
Stream == Messages(Len(Sizes))
Replies(n) == Joined([k \in 1 .. MaxReplies |-> Cells(k, ReplyLen)])[n]

RxBufCap == MaxMsg * 2

UbusInit ==
  /\ up = <<>> /\ written = 0 /\ closed = FALSE /\ rxBuf = <<>> /\ got = <<>>
  /\ failed = FALSE /\ sawClose = FALSE /\ upc = "idle"
  /\ out = <<>> /\ waits = MaxWaits /\ replies = 0 /\ begun = 0 /\ down = <<>> /\ heard = <<>>

-----------------------------------------------------------------------------
(* ubusd *)

PeerWrites ==
  /\ ~closed /\ written < Len(Stream) /\ Len(up) < Pipe
  /\ written' = written + 1
  /\ up' = Append(up, Stream[written'])
  /\ UNCHANGED <<closed, rxBuf, got, sawClose, failed, upc, txVars>>

PeerReads ==
  /\ ~closed /\ down # <<>>
  /\ heard' = Append(heard, Head(down)) /\ down' = Tail(down)
  /\ UNCHANGED <<rxVars, failed, upc, out, waits, replies, begun>>

\* ubusd stops, after any of its writes.
PeerCloses ==
  /\ ~closed
  /\ closed' = TRUE
  /\ UNCHANGED <<up, written, rxBuf, got, sawClose, failed, upc, txVars>>

-----------------------------------------------------------------------------
(* recv *)

\* The control loop polls the connection.
Poll ==
  /\ upc = "idle" /\ begun < MaxReplies
  /\ upc' = "fill"
  /\ UNCHANGED <<rxVars, failed, txVars>>

Fail == failed' = TRUE /\ upc' = "idle"

\* fill_rx reads once more; beyond the cap, what is buffered is dropped.
FillRx ==
  /\ upc = "fill" /\ up # <<>>
  /\ \E n \in 1 .. Chunk :
       /\ n <= Len(up) /\ (n < Chunk => n = Len(up))
       /\ up' = SubSeq(up, n + 1, Len(up))
       /\ IF Len(rxBuf) + n > RxBufCap
          THEN rxBuf' = <<>> /\ Fail
          ELSE rxBuf' = rxBuf \o SubSeq(up, 1, n) /\ UNCHANGED <<failed, upc>>
  /\ UNCHANGED <<written, closed, got, sawClose, txVars>>

\* fill_rx ends: nothing to read, or the end of the stream.
FillRxEnds ==
  /\ upc = "fill" /\ up = <<>>
  /\ upc' = IF closed THEN "eof" ELSE "frame"
  /\ UNCHANGED <<rxVars, failed, txVars>>

\* fill_rx ends: read fails (ECONNRESET, when ubusd closed with replies unread);
\* recv drops what is buffered.
FillRxFails ==
  /\ upc = "fill"
  /\ rxBuf' = <<>> /\ Fail
  /\ UNCHANGED <<up, written, closed, got, sawClose, txVars>>

\* Codec::read_frame: the buffer begins with a whole message, or with part of
\* one, or (after an error) with anything.
Whole == rxBuf # <<>> /\ rxBuf[1].at = 1 /\ Len(rxBuf) >= Sizes[rxBuf[1].msg]
OutOfStep == rxBuf # <<>> /\ rxBuf[1].at # 1
Short == ~Whole /\ ~OutOfStep

\* A reply is begun: send with a fresh deadline.
BeginSend ==
  /\ upc' = "send"
  /\ begun' = begun + 1
  /\ out' = Cells(begun', ReplyLen)
  /\ waits' = MaxWaits
  /\ UNCHANGED <<replies, down, heard>>

\* Mutant of Answers: the end of the stream is noticed before the frames.
AnswersUntilEof == upc = "frame"

\* The points at which recv looks for a frame.
Answers == upc \in {"frame", "eof"}

RecvFrame ==
  /\ Answers /\ Whole
  /\ LET k == rxBuf[1].msg
     IN /\ got' = Append(got, k)
        /\ rxBuf' = SubSeq(rxBuf, Sizes[k] + 1, Len(rxBuf))
  /\ BeginSend
  /\ UNCHANGED <<up, written, closed, sawClose, failed>>

RecvNothing ==
  /\ upc \in {"frame", "eof"} /\ (Short \/ ~Answers)
  /\ sawClose' = (sawClose \/ upc = "eof")
  /\ upc' = "idle"
  /\ UNCHANGED <<up, written, closed, rxBuf, got, failed, txVars>>

\* What is not the beginning of a message is malformed, incomplete, or passes
\* for one.
RecvOutOfStep ==
  /\ Answers /\ OutOfStep
  /\ \/ rxBuf' = <<>> /\ Fail /\ UNCHANGED <<got, txVars>>
     \/ upc' = "idle" /\ UNCHANGED <<rxBuf, got, failed, txVars>>
     \/ got' = Append(got, 0) /\ rxBuf' = <<>> /\ BeginSend /\ UNCHANGED failed
  /\ UNCHANGED <<up, written, closed, sawClose>>

-----------------------------------------------------------------------------
(* send *)

\* Mutant of Rest: a partial write starts the reply again.
RestFromStart(n) == IF n < Len(out) THEN out ELSE <<>>

\* What a write of n bytes leaves to be written.
Rest(n) == SubSeq(out, n + 1, Len(out))

\* A write takes as much as the kernel has room for, or less.
SendSome ==
  /\ upc = "send" /\ ~closed /\ out # <<>> /\ Len(down) < Pipe
  /\ \E n \in 1 .. Len(out) :
       /\ Len(down) + n <= Pipe
       /\ down' = down \o SubSeq(out, 1, n)
       /\ out' = Rest(n)
  /\ UNCHANGED <<rxVars, failed, upc, waits, replies, begun, heard>>

\* Mutant of SendTimedOut: the deadline is never looked at.
SendNeverTimesOut == FALSE

SendTimedOut == waits = 0

\* The kernel has no room: sleep, or give up with part of the reply written.
SendBlocks ==
  /\ upc = "send" /\ ~closed /\ out # <<>> /\ Len(down) = Pipe
  /\ IF SendTimedOut THEN Fail /\ UNCHANGED waits
     ELSE waits' = (IF waits > 0 THEN waits - 1 ELSE 0) /\ UNCHANGED <<failed, upc>>
  /\ UNCHANGED <<rxVars, out, replies, begun, down, heard>>

SendBroken ==
  /\ upc = "send" /\ closed /\ out # <<>>
  /\ Fail
  /\ UNCHANGED <<rxVars, txVars>>

SendDone ==
  /\ upc = "send" /\ out = <<>>
  /\ replies' = replies + 1
  /\ upc' = "idle"
  /\ UNCHANGED <<rxVars, failed, out, waits, begun, down, heard>>

PollStep ==
  \/ FillRx \/ FillRxEnds \/ FillRxFails \/ RecvFrame \/ RecvNothing \/ RecvOutOfStep
  \/ SendSome \/ SendBlocks \/ SendBroken \/ SendDone

UbusNext == PollStep \/ Poll \/ PeerWrites \/ PeerReads \/ PeerCloses

\* The control thread is scheduled; ubusd owes nobody anything.
Fairness == WF_ubusVars(PollStep)

UbusSpec == UbusInit /\ [][UbusNext]_ubusVars /\ Fairness

-----------------------------------------------------------------------------
(* Properties *)

\* As long as nothing has failed, recv has returned ubusd's messages one by
\* one, in order, and not one is lost between the socket, rxBuf and the
\* caller, however the stream is cut into reads; and recv has reported the
\* close only after every message written before it.
ReceivedInOrder ==
  ~failed =>
    /\ got = [i \in 1 .. Len(got) |-> i]
    /\ IsPrefix(Messages(Len(got)) \o rxBuf, Stream)
    /\ sawClose => Short

\* As long as nothing has failed, what ubusd has read is the replies, whole
\* and in order, and it gets the rest of those send has reported as sent: a
\* write that takes only part of a reply neither loses nor repeats any of it.
SentInOrder ==
  ~failed => /\ heard \o down \o out = Replies(begun)
             /\ IsPrefix(Replies(replies), heard \o down)

\* Before the first error, nothing is lost, repeated or reordered either way,
\* however reads and writes cut the two streams up and whenever ubusd closes.
StreamsInOrder == ReceivedInOrder /\ SentInOrder

\* A poll of the connection comes to an end, whatever ubusd does: an ubusd
\* that stops reading holds the control loop no longer than send's deadline.
PollReturns == upc # "idle" ~> upc = "idle"
=============================================================================
