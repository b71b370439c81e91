------------------------- MODULE BoardRequestProofs -------------------------
(***************************************************************************)
(* Proofs that Board::request reports an outcome only for the command the  *)
(* board executed last, for every set of opcodes, every retry budget,      *)
(* every width of the sequence counter and every amount of frames under    *)
(* way; and that the frames it is made of are read as they were built.     *)
(***************************************************************************)
EXTENDS BoardRequest, FrameCodec, TLAPS

-----------------------------------------------------------------------------
(* Facts about the operators.                                              *)

\* Two calls whose numbers differ by less than SeqMod and whose frames carry the
\* same sequence number are the same call.
LEMMA SeqWindow ==
  ASSUME NEW a \in Nat, NEW b \in Nat, b - SeqMod < a, a <= b,
         SeqOf(a) = SeqOf(b)
  PROVE  a = b
<1> DEFINE qa == a \div SeqMod
           qb == b \div SeqMod
<1>1. SeqMod \in Nat /\ SeqMod > 0
  BY SeqModAssumption
<1>2. qa \in Int /\ qb \in Int /\ a = SeqMod * qa + (a % SeqMod) /\ b = SeqMod * qb + (b % SeqMod)
  BY <1>1
<1> HIDE DEF qa, qb
<1>3. b - a = SeqMod * (qb - qa)
  BY <1>1, <1>2 DEF SeqOf
<1>4. qb - qa < 1
  <2>1. SUFFICES ASSUME qb - qa >= 1 PROVE FALSE
    BY <1>2
  <2>2. SeqMod * (qb - qa) >= SeqMod
    BY <1>1, <1>2, <2>1
  <2> QED
    BY <1>1, <1>3, <2>2
<1>5. qb - qa > -1
  <2>1. SUFFICES ASSUME qb - qa <= -1 PROVE FALSE
    BY <1>2
  <2>2. SeqMod * (qb - qa) <= -SeqMod
    BY <1>1, <1>2, <2>1
  <2> QED
    BY <1>1, <1>3, <2>2
<1>6. qa = qb
  BY <1>2, <1>4, <1>5
<1> QED
  BY <1>1, <1>2, <1>3, <1>6

\* Sequence numbers are natural numbers.
LEMMA SeqOfType == ASSUME NEW n \in Nat PROVE SeqOf(n) \in Nat
BY SeqModAssumption DEF SeqOf

\* The frame request() transmits is a frame.
LEMMA CommandFrameType ==
  ASSUME op \in Ops, cur \in Nat
  PROVE  CommandFrame \in Frame
<1>1. op \in Nat /\ SeqOf(cur) \in Nat
  BY OpsAssumption, SeqOfType
<1>2. <<op>> \in Seq(Nat)
  BY <1>1
<1> QED
  BY <1>1, <1>2 DEF CommandFrame, Frame

\* A foreign frame is a frame.
LEMMA JunkFrameType == JunkFrame \in Frame
<1>1. <<>> \in Seq(Nat)
  OBVIOUS
<1> QED
  BY <1>1 DEF JunkFrame, Frame

\* The board's payload is a string of bytes.
LEMMA ReplyBodyType ==
  ASSUME NEW o \in Nat, NEW st \in Nat, NEW echo \in BOOLEAN
  PROVE  ReplyBody(o, st, echo) \in Seq(Nat)
BY DEF ReplyBody

\* A frame of an earlier process is a frame.
LEMMA OrphanedType ==
  ASSUME NEW s \in Seq(Frame)
  PROVE  Orphaned(s) \in Seq(Frame)
<1>1. Len(s) \in Nat /\ \A i \in 1 .. Len(s) : s[i] \in Frame
  OBVIOUS
<1>2. \A i \in 1 .. Len(s) : [s[i] EXCEPT !.id = 0] \in Frame
  BY <1>1 DEF Frame
<1> QED
  BY <1>1, <1>2 DEF Orphaned

\* Removing the first frame of a channel leaves a channel, shifted by one.
LEMMA TailFacts ==
  ASSUME NEW S, NEW s \in Seq(S), s # <<>>
  PROVE  /\ Tail(s) \in Seq(S)
         /\ Head(s) = s[1] /\ Head(s) \in S
         /\ Len(s) \in Nat /\ Len(s) >= 1 /\ Len(Tail(s)) = Len(s) - 1
         /\ \A i \in 1 .. Len(Tail(s)) : Tail(s)[i] = s[i + 1]
OBVIOUS

\* Adding a frame at the end leaves the others where they were.
LEMMA AppendFacts ==
  ASSUME NEW S, NEW s \in Seq(S), NEW e \in S
  PROVE  /\ Append(s, e) \in Seq(S)
         /\ Len(s) \in Nat /\ Len(Append(s, e)) = Len(s) + 1
         /\ \A i \in 1 .. Len(s) : Append(s, e)[i] = s[i]
         /\ Append(s, e)[Len(s) + 1] = e
OBVIOUS

\* Corrupting the first frame of a channel changes nothing but its checksum.
LEMMA CorruptFacts ==
  ASSUME NEW s \in Seq(Frame), s # <<>>
  PROVE  LET t == [s EXCEPT ![1].intact = FALSE]
         IN  /\ t \in Seq(Frame)
             /\ Len(t) = Len(s)
             /\ \A i \in 1 .. Len(s) :
                  /\ t[i].kind = s[i].kind /\ t[i].op = s[i].op /\ t[i].id = s[i].id
                  /\ t[i].seq = s[i].seq /\ t[i].body = s[i].body
<1> DEFINE g == [s[1] EXCEPT !.intact = FALSE]
           t == [s EXCEPT ![1] = g]
<1>1. s[1] \in Frame /\ Len(s) \in Nat /\ DOMAIN s = 1 .. Len(s)
  OBVIOUS
<1>2. g \in Frame /\ g.kind = s[1].kind /\ g.op = s[1].op /\ g.id = s[1].id
      /\ g.seq = s[1].seq /\ g.body = s[1].body
  BY <1>1 DEF Frame
<1> HIDE DEF g
<1>3. t \in Seq(Frame) /\ Len(t) = Len(s)
  BY <1>1, <1>2
<1>4. \A i \in 1 .. Len(s) : t[i] = IF i = 1 THEN g ELSE s[i]
  BY <1>1
<1> QED
  BY <1>2, <1>3, <1>4 DEF g

-----------------------------------------------------------------------------
(* Type correctness.                                                       *)

\* Every step of the host, the wire and the board keeps the types.
LEMMA TypeStep == TypeOK /\ [Next]_vars => TypeOK'
<1> SUFFICES ASSUME TypeOK, [Next]_vars PROVE TypeOK'
  OBVIOUS
<1> USE DEF TypeOK, hostVars, boardVars
<1>1. CASE UNCHANGED vars
  BY <1>1 DEF vars
<1>2. ASSUME NEW o \in Ops, Call(o) PROVE TypeOK'
  BY <1>2 DEF Call
<1>3. ASSUME NEW r \in 0 .. MaxRetries, SetRetries(r) PROVE TypeOK'
  BY <1>3 DEF SetRetries
<1>4. CASE Transmit
  <2>1. CommandFrame \in Frame
    BY CommandFrameType
  <2>2. toBoard' \in Seq(Frame)
    BY <1>4, <2>1, AppendFacts DEF Transmit
  <2>3. toHost' \in Seq(Frame)
    BY <1>4, <2>1, AppendFacts, ZenonT(60) DEF Transmit
  <2>4. pc = "send" /\ pc' = "recv"
    BY <1>4 DEF Transmit
  <2>5. UNCHANGED <<op, cur, attempt, retries, outcome, junk, boardVars>>
    BY <1>4 DEF Transmit
  <2> QED
    BY <2>2, <2>3, <2>4, <2>5
<1>5. CASE SendError
  BY <1>5 DEF SendError, Return
<1>6. CASE ReceiveOther
  BY <1>6 DEF ReceiveOther
<1>7. CASE ReceiveAnswer
  BY <1>7 DEF ReceiveAnswer, Return, Decode
<1>8. CASE ReceiveTimeout
  <2>1. retries \in Nat
    BY RetriesAssumption
  <2> QED
    BY <1>8, <2>1 DEF ReceiveTimeout, Return, MoreAttempts
<1>9. CASE ReceiveError
  BY <1>9 DEF ReceiveError, Return
<1>10. CASE BoardExecute
  <2> DEFINE f == Head(toBoard)
  <2>1. f \in Frame /\ Tail(toBoard) \in Seq(Frame)
    BY <1>10, TailFacts DEF BoardExecute
  <2>2. PICK st \in Statuses, echo \in Echoing(f.op) :
          /\ line' = IF st = 0 THEN Effect(f.op, line) ELSE line
          /\ execd' = f.id
          /\ toHost' = Append(toHost, [f EXCEPT !.kind = "resp",
                                       !.body = ReplyBody(f.op, st, echo)])
    BY <1>10 DEF BoardExecute
  <2>3. ReplyBody(f.op, st, echo) \in Seq(Nat)
    <3>1. f.op \in Nat
      BY <2>1 DEF Frame
    <3>2. st \in Nat /\ echo \in BOOLEAN
      BY StatusAssumption DEF Echoing
    <3> QED
      BY <3>1, <3>2, ReplyBodyType
  <2>4. [f EXCEPT !.kind = "resp", !.body = ReplyBody(f.op, st, echo)] \in Frame
    BY <2>1, <2>3 DEF Frame
  <2>5. execd' \in Nat /\ line' \in {"up", "down"}
    BY <2>1, <2>2 DEF Frame, Effect
  <2>6. toHost' \in Seq(Frame)
    <3> HIDE DEF f
    <3> QED BY <2>2, <2>4
  <2> QED
    BY <1>10, <2>1, <2>5, <2>6 DEF BoardExecute
<1>11. CASE Lose
  <2>1. CASE toBoard # <<>> /\ toBoard' = Tail(toBoard) /\ UNCHANGED toHost
    BY <1>11, <2>1 DEF Lose
  <2>2. CASE toHost # <<>> /\ toHost' = Tail(toHost) /\ UNCHANGED toBoard
    BY <1>11, <2>2 DEF Lose
  <2> QED
    BY <1>11, <2>1, <2>2 DEF Lose
<1>12. CASE Corrupt
  BY <1>12, CorruptFacts DEF Corrupt
<1>13. CASE Foreign
  BY <1>13, JunkFrameType DEF Foreign
<1>14. CASE Restart
  <2>1. toBoard' \in Seq(Frame)
    BY <1>14, OrphanedType DEF Restart
  <2>2. toHost' \in Seq(Frame)
    <3>1. PICK n \in 0 .. Len(toHost) : toHost' = Orphaned(SubSeq(toHost, n + 1, Len(toHost)))
      BY <1>14 DEF Restart
    <3>2. SubSeq(toHost, n + 1, Len(toHost)) \in Seq(Frame)
      OBVIOUS
    <3> QED  BY <3>1, <3>2, OrphanedType
  <2> QED
    BY <1>14, <2>1, <2>2, RetriesAssumption DEF Restart
<1> HIDE DEF TypeOK
<1> QED
  BY <1>1, <1>2, <1>3, <1>4, <1>5, <1>6, <1>7, <1>8, <1>9, <1>10, <1>11, <1>12,
     <1>13, <1>14 DEF Next, Host, Environment

\* request() keeps its state well typed; in particular its retransmission loop
\* never runs past the retry budget.
THEOREM TypeCorrect == Spec => []TypeOK
<1>1. Init => TypeOK
  BY RetriesAssumption DEF Init, TypeOK
<1> QED
  BY <1>1, TypeStep, PTL DEF Spec

-----------------------------------------------------------------------------
(* The wire invariant.                                                     *)

\* A line opcode's answer reads as success only if the board accepted it.
LEMMA DecodeTruthful ==
  ASSUME UnambiguousStatuses,
         NEW o \in StatusOps, NEW st \in Statuses, NEW echo \in BOOLEAN,
         Decode(o, ReplyBody(o, st, echo)) = "ok"
  PROVE  st = 0
<1>1. o \in Nat /\ o \notin DataOps /\ st \in Nat /\ st # o
  BY StatusAssumption DEF StatusOps, DataOps, UnambiguousStatuses
<1>2. StripEcho(ReplyBody(o, st, echo), o) = <<st>>
  <2>1. CASE echo
    <3>1. ReplyBody(o, st, echo) = <<o, st>>
      BY <1>1, <2>1 DEF ReplyBody
    <3>2. Tail(<<o, st>>) = <<st>>
      BY <1>1
    <3> QED
      BY <1>1, <3>1, <3>2 DEF StripEcho
  <2>2. CASE ~echo
    <3>1. ReplyBody(o, st, echo) = <<st>>
      BY <1>1, <2>2 DEF ReplyBody
    <3> QED
      BY <1>1, <3>1 DEF StripEcho
  <2> QED
    BY <2>1, <2>2
<1> QED
  BY <1>2 DEF Decode

\* Taking the first command off the wire, or none, keeps the order of commands.
LEMMA CommandsKept ==
  ASSUME TypeOK, CommandsInOrder, UNCHANGED <<op, cur, execd>>,
         toBoard' = toBoard \/ (toBoard # <<>> /\ toBoard' = Tail(toBoard))
  PROVE  CommandsInOrder'
<1>1. CASE toBoard' = toBoard
  BY <1>1 DEF CommandsInOrder
<1>2. CASE toBoard # <<>> /\ toBoard' = Tail(toBoard)
  <2>1. /\ Len(toBoard) \in Nat /\ Len(toBoard') = Len(toBoard) - 1
        /\ \A i \in 1 .. Len(toBoard') : toBoard'[i] = toBoard[i + 1]
    BY <1>2, TailFacts DEF TypeOK
  <2>2. \A i \in 1 .. Len(toBoard') : i + 1 \in 1 .. Len(toBoard)
    BY <2>1
  <2>3. \A i \in 1 .. Len(toBoard') :
          /\ toBoard'[i].seq = SeqOf(toBoard'[i].id)
          /\ toBoard'[i].id \in execd .. cur
          /\ toBoard'[i].id > cur - SeqMod
          /\ toBoard'[i].id = cur => toBoard'[i].op = op
    BY <2>1, <2>2 DEF CommandsInOrder
  <2>4. \A i, j \in 1 .. Len(toBoard') : i <= j => toBoard'[i].id <= toBoard'[j].id
    BY <2>1, <2>2, SMTT(30) DEF CommandsInOrder
  <2> QED
    BY <2>3, <2>4 DEF CommandsInOrder, SeqOf
<1> QED
  BY <1>1, <1>2

\* Taking a frame off the receive queue, or adding one that is no answer, keeps
\* the answers truthful.
LEMMA AnswersKept ==
  ASSUME TypeOK, AnswersTruthful, UNCHANGED <<op, cur, execd, line>>,
         \/ toHost' = toHost
         \/ toHost # <<>> /\ toHost' = Tail(toHost)
         \/ \E e \in Frame : e.kind # "resp" /\ toHost' = Append(toHost, e)
  PROVE  AnswersTruthful'
<1>1. CASE toHost' = toHost
  BY <1>1 DEF AnswersTruthful
<1>2. CASE toHost # <<>> /\ toHost' = Tail(toHost)
  <2>1. /\ Len(toHost) \in Nat /\ Len(toHost') = Len(toHost) - 1
        /\ \A i \in 1 .. Len(toHost') : toHost'[i] = toHost[i + 1]
    BY <1>2, TailFacts DEF TypeOK
  <2>2. \A i \in 1 .. Len(toHost') : i + 1 \in 1 .. Len(toHost)
    BY <2>1
  <2> QED
    BY <2>1, <2>2 DEF AnswersTruthful
<1>3. ASSUME NEW e \in Frame, e.kind # "resp", toHost' = Append(toHost, e)
      PROVE  AnswersTruthful'
  <2>1. /\ Len(toHost) \in Nat /\ Len(toHost') = Len(toHost) + 1
        /\ \A i \in 1 .. Len(toHost) : toHost'[i] = toHost[i]
        /\ toHost'[Len(toHost) + 1] = e
    BY <1>3, AppendFacts DEF TypeOK
  <2>2. \A i \in 1 .. Len(toHost') : i \in 1 .. Len(toHost) \/ i = Len(toHost) + 1
    BY <2>1
  <2> QED
    BY <1>3, <2>1, <2>2 DEF AnswersTruthful
<1> QED
  BY <1>1, <1>2, <1>3

\* The frame request() accepts is the board's answer to this very call.
LEMMA AnswerIsCurrent ==
  ASSUME TypeOK, WireInv, toHost # <<>>, Matches(Head(toHost))
  PROVE  /\ execd = cur
         /\ Decode(op, Head(toHost).body) = "ok" => line = Effect(op, line)
<1> DEFINE f == toHost[1]
<1>1. Head(toHost) = f /\ f \in Frame /\ 1 \in 1 .. Len(toHost)
  BY TailFacts DEF TypeOK
<1>2. f.kind = "resp" /\ f.seq = SeqOf(cur)
  BY <1>1 DEF Matches
<1>3. /\ f.seq = SeqOf(f.id) /\ f.id \in 0 .. execd /\ f.id > cur - SeqMod
      /\ f.id = cur => (Decode(op, f.body) = "ok" => line = Effect(op, line))
  BY <1>1, <1>2 DEF WireInv, AnswersTruthful
<1>4. cur \in Nat /\ execd \in Nat /\ execd <= cur /\ SeqMod \in Nat
  BY SeqModAssumption DEF TypeOK, WireInv
<1>5. f.id \in Nat /\ f.id <= cur /\ cur - SeqMod < f.id
  BY <1>3, <1>4
<1>6. f.id = cur
  BY <1>2, <1>3, <1>4, <1>5, SeqWindow
<1> QED
  BY <1>1, <1>3, <1>4, <1>6

\* Every step keeps the wire invariant, if no status byte looks like an opcode.
LEMMA WireStep ==
  ASSUME UnambiguousStatuses, SettledRestarts, TypeOK, TypeOK', WireInv, [Next]_vars
  PROVE  WireInv'
<1> USE DEF WireInv, OkMeansApplied
<1>1. CASE UNCHANGED vars
  BY <1>1, CommandsKept, AnswersKept DEF vars
<1>2. ASSUME NEW o \in Ops, Call(o) PROVE WireInv'
  <2>1. /\ cur \in Nat /\ cur' = cur + 1 /\ op' = o /\ pc' = "send" /\ NoFrameOutlivesWrap
        /\ UNCHANGED <<toBoard, toHost, line, execd>> /\ SeqMod \in Nat /\ execd \in Nat
    BY <1>2, SeqModAssumption DEF Call, TypeOK, boardVars
  <2>2. CommandsInOrder'
    <3>1. \A i \in 1 .. Len(toBoard) : toBoard[i].id \in Nat
      <4>1. \A i \in 1 .. Len(toBoard) : toBoard[i] \in Frame
        BY DEF TypeOK
      <4> QED
        BY <4>1 DEF Frame
    <3>2. \A i \in 1 .. Len(toBoard) :
            /\ toBoard[i].seq = SeqOf(toBoard[i].id)
            /\ toBoard[i].id \in execd .. cur + 1 /\ toBoard[i].id # cur + 1
            /\ toBoard[i].id > cur + 1 - SeqMod
      BY <2>1, <3>1 DEF CommandsInOrder, NoFrameOutlivesWrap
    <3> QED
      BY <2>1, <3>2 DEF CommandsInOrder, SeqOf
  <2>3. AnswersTruthful'
    <3>1. \A i \in 1 .. Len(toHost) : toHost[i].kind = "resp" =>
            /\ toHost[i].seq = SeqOf(toHost[i].id)
            /\ toHost[i].id \in 0 .. execd /\ toHost[i].id # cur + 1
            /\ toHost[i].id > cur + 1 - SeqMod
      BY <2>1 DEF AnswersTruthful, NoFrameOutlivesWrap
    <3> QED
      BY <2>1, <3>1 DEF AnswersTruthful, SeqOf
  <2> QED
    BY <2>1, <2>2, <2>3
<1>3. ASSUME NEW r \in 0 .. MaxRetries, SetRetries(r) PROVE WireInv'
  BY <1>3, CommandsKept, AnswersKept DEF SetRetries, boardVars
<1>4. CASE Transmit
  <2>1. /\ CommandFrame \in Frame /\ CommandFrame.kind = "cmd" /\ CommandFrame.id = cur
        /\ CommandFrame.op = op /\ CommandFrame.seq = SeqOf(cur)
    BY CommandFrameType DEF TypeOK, CommandFrame
  <2>2. UNCHANGED <<op, cur, execd, line, outcome>> /\ pc' = "recv"
    BY <1>4 DEF Transmit, boardVars
  <2>3. AnswersTruthful'
    BY <1>4, <2>1, <2>2, AnswersKept DEF Transmit
  <2>4. CommandsInOrder'
    <3>1. /\ Len(toBoard) \in Nat /\ Len(toBoard') = Len(toBoard) + 1
          /\ \A i \in 1 .. Len(toBoard) : toBoard'[i] = toBoard[i]
          /\ toBoard'[Len(toBoard) + 1] = CommandFrame
      BY <1>4, <2>1, AppendFacts DEF Transmit, TypeOK
    <3>2. \A i \in 1 .. Len(toBoard') : i \in 1 .. Len(toBoard) \/ i = Len(toBoard) + 1
      BY <3>1
    <3>3. cur \in Nat /\ execd \in Nat /\ execd <= cur /\ SeqMod \in Nat \ {0}
      BY SeqModAssumption DEF TypeOK
    <3>4. cur \in execd .. cur /\ cur > cur - SeqMod
      BY <3>3
    <3>5. \A i \in 1 .. Len(toBoard') :
            /\ toBoard'[i].seq = SeqOf(toBoard'[i].id)
            /\ toBoard'[i].id \in execd .. cur
            /\ toBoard'[i].id > cur - SeqMod
            /\ toBoard'[i].id = cur => toBoard'[i].op = op
      BY <2>1, <3>1, <3>2, <3>4 DEF CommandsInOrder
    <3>6. ASSUME NEW i \in 1 .. Len(toBoard'), NEW j \in 1 .. Len(toBoard'), i <= j
          PROVE  toBoard'[i].id <= toBoard'[j].id
      <4>1. CASE j \in 1 .. Len(toBoard)
        <5>1. i \in 1 .. Len(toBoard)
          BY <3>1, <3>6, <4>1
        <5> QED
          BY <3>1, <3>6, <4>1, <5>1 DEF CommandsInOrder
      <4>2. CASE j = Len(toBoard) + 1
        <5>1. toBoard'[j].id = cur
          BY <2>1, <3>1, <4>2
        <5> QED
          BY <3>3, <3>5, <3>6, <5>1
      <4> QED
        BY <3>2, <4>1, <4>2
    <3> QED
      BY <2>2, <3>5, <3>6 DEF CommandsInOrder, SeqOf
  <2> QED
    BY <2>2, <2>3, <2>4
<1>5. CASE SendError
  BY <1>5, CommandsKept, AnswersKept DEF SendError, Return, boardVars
<1>6. CASE ReceiveOther
  BY <1>6, CommandsKept, AnswersKept DEF ReceiveOther, hostVars, boardVars
<1>7. CASE ReceiveAnswer
  <2>1. /\ execd = cur
        /\ Decode(op, Head(toHost).body) = "ok" => line = Effect(op, line)
    BY <1>7, AnswerIsCurrent DEF ReceiveAnswer
  <2>2. CommandsInOrder' /\ AnswersTruthful'
    BY <1>7, CommandsKept, AnswersKept DEF ReceiveAnswer, Return, boardVars
  <2> QED
    BY <1>7, <2>1, <2>2 DEF ReceiveAnswer, Return, boardVars, Effect
<1>8. CASE ReceiveTimeout
  BY <1>8, CommandsKept, AnswersKept DEF ReceiveTimeout, Return, boardVars
<1>9. CASE ReceiveError
  BY <1>9, CommandsKept, AnswersKept DEF ReceiveError, Return, boardVars
<1>10. CASE BoardExecute
  <2> DEFINE f == toBoard[1]
  <2>1. /\ f = Head(toBoard) /\ f \in Frame /\ 1 \in 1 .. Len(toBoard)
        /\ Len(toBoard) \in Nat /\ toBoard' = Tail(toBoard) /\ Len(toBoard') = Len(toBoard) - 1
        /\ \A i \in 1 .. Len(toBoard') : toBoard'[i] = toBoard[i + 1]
    BY <1>10, TailFacts DEF BoardExecute, TypeOK
  <2>2. PICK st \in Statuses, echo \in Echoing(f.op) :
          /\ line' = IF st = 0 THEN Effect(f.op, line) ELSE line
          /\ execd' = f.id
          /\ toHost' = Append(toHost, [f EXCEPT !.kind = "resp",
                                       !.body = ReplyBody(f.op, st, echo)])
    BY <1>10, <2>1 DEF BoardExecute
  <2> DEFINE e == [f EXCEPT !.kind = "resp", !.body = ReplyBody(f.op, st, echo)]
  <2>3. UNCHANGED <<pc, op, cur, outcome>>
    BY <1>10 DEF BoardExecute, hostVars
  <2>4. /\ cur \in Nat /\ execd \in Nat /\ f.id \in Nat
        /\ f.seq = SeqOf(f.id) /\ execd <= f.id /\ f.id <= cur /\ f.id > cur - SeqMod
        /\ f.id = cur => f.op = op
    BY <2>1 DEF CommandsInOrder, TypeOK, Frame
  <2>5. e \in Frame /\ e.id = f.id /\ e.op = f.op /\ e.seq = f.seq
        /\ e.body = ReplyBody(f.op, st, echo)
    <3>1. f.op \in Nat /\ st \in Nat /\ echo \in BOOLEAN
      BY <2>1, StatusAssumption DEF Frame, Echoing
    <3>2. ReplyBody(f.op, st, echo) \in Seq(Nat)
      BY <3>1, ReplyBodyType
    <3> QED
      BY <2>1, <3>2 DEF Frame
  <2>6. CommandsInOrder'
    <3>1. \A i \in 1 .. Len(toBoard') : i + 1 \in 1 .. Len(toBoard) /\ 1 <= i + 1
      BY <2>1
    <3>2. \A i \in 1 .. Len(toBoard') :
            /\ toBoard'[i].seq = SeqOf(toBoard'[i].id)
            /\ toBoard'[i].id \in f.id .. cur
            /\ toBoard'[i].id > cur - SeqMod
            /\ toBoard'[i].id = cur => toBoard'[i].op = op
      BY <2>1, <2>4, <3>1 DEF CommandsInOrder
    <3>3. \A i, j \in 1 .. Len(toBoard') : i <= j => toBoard'[i].id <= toBoard'[j].id
      BY <2>1, <3>1 DEF CommandsInOrder
    <3> QED
      BY <2>2, <2>3, <3>2, <3>3 DEF CommandsInOrder, SeqOf
  <2>7. Effect(op, Effect(op, line)) = Effect(op, line)
    BY DEF Effect
  <2>8. \* a call already applied stays applied
        execd = cur /\ line = Effect(op, line) => line' = Effect(op, line')
    BY <2>2, <2>4, <2>7
  <2>9. \* a success the board just reported is applied
        f.id = cur /\ Decode(op, e.body) = "ok" => line' = Effect(op, line')
    <3>1. CASE op \in StatusOps
      <4>1. echo \in BOOLEAN
        BY DEF Echoing
      <4>2. f.id = cur /\ Decode(op, e.body) = "ok" => st = 0
        BY <2>4, <2>5, <3>1, <4>1, DecodeTruthful
      <4> QED
        BY <2>2, <2>4, <2>7, <4>2
    <3>2. CASE op \notin StatusOps
      BY <3>2 DEF StatusOps, Effect
    <3> QED
      BY <3>1, <3>2
  <2>10. AnswersTruthful'
    <3>1. /\ Len(toHost) \in Nat /\ Len(toHost') = Len(toHost) + 1
          /\ \A i \in 1 .. Len(toHost) : toHost'[i] = toHost[i]
          /\ toHost'[Len(toHost) + 1] = e
      <4> HIDE DEF e
      <4> QED BY <2>2, <2>5, AppendFacts DEF TypeOK, e
    <3>2. \A i \in 1 .. Len(toHost') : i \in 1 .. Len(toHost) \/ i = Len(toHost) + 1
      BY <3>1
    <3> HIDE DEF e, f
    <3>3. ASSUME NEW i \in 1 .. Len(toHost), toHost[i].kind = "resp"
          PROVE  /\ toHost[i].seq = SeqOf(toHost[i].id)
                 /\ toHost[i].id \in 0 .. f.id
                 /\ toHost[i].id > cur - SeqMod
                 /\ toHost[i].id = cur =>
                      /\ toHost[i].op = op
                      /\ Decode(op, toHost[i].body) = "ok" => line' = Effect(op, line')
      BY <2>4, <2>8, <3>3 DEF AnswersTruthful
    <3>4. /\ e.seq = SeqOf(e.id) /\ e.id \in 0 .. f.id /\ e.id > cur - SeqMod
          /\ e.id = cur =>
               /\ e.op = op
               /\ Decode(op, e.body) = "ok" => line' = Effect(op, line')
      BY <2>4, <2>5, <2>9
    <3>5. ASSUME NEW i \in 1 .. Len(toHost'), toHost'[i].kind = "resp"
          PROVE  /\ toHost'[i].seq = SeqOf(toHost'[i].id)
                 /\ toHost'[i].id \in 0 .. f.id
                 /\ toHost'[i].id > cur - SeqMod
                 /\ toHost'[i].id = cur =>
                      /\ toHost'[i].op = op
                      /\ Decode(op, toHost'[i].body) = "ok" => line' = Effect(op, line')
      <4>1. CASE i \in 1 .. Len(toHost)
        BY <3>1, <3>3, <3>5, <4>1
      <4>2. CASE i = Len(toHost) + 1
        BY <3>1, <3>4, <4>2
      <4> QED
        BY <3>2, <4>1, <4>2
    <3> QED
      BY <2>2, <2>3, <3>5 DEF AnswersTruthful, SeqOf, Decode, StripEcho
  <2>11. OkMeansApplied'
    <3>1. (pc = "idle" /\ outcome = "ok") => execd' = cur /\ execd = cur
      BY <2>2, <2>4
    <3> QED
      BY <2>3, <2>8, <3>1 DEF Effect
  <2> QED
    BY <2>2, <2>3, <2>4, <2>6, <2>10, <2>11
<1>11. CASE Lose
  BY <1>11, CommandsKept, AnswersKept DEF Lose, hostVars, boardVars
<1>12. CASE Corrupt
  <2>1. /\ Len(toHost') = Len(toHost)
        /\ \A i \in 1 .. Len(toHost) :
             /\ toHost'[i].kind = toHost[i].kind /\ toHost'[i].op = toHost[i].op
             /\ toHost'[i].id = toHost[i].id /\ toHost'[i].seq = toHost[i].seq
             /\ toHost'[i].body = toHost[i].body
    BY <1>12, CorruptFacts DEF Corrupt, TypeOK
  <2>2. UNCHANGED <<pc, op, cur, outcome, line, execd, toBoard>>
    BY <1>12 DEF Corrupt, hostVars, boardVars
  <2>3. AnswersTruthful'
    BY <2>1, <2>2, SMTT(30) DEF AnswersTruthful, SeqOf, Decode, StripEcho
  <2> QED
    BY <2>2, <2>3, CommandsKept
<1>13. CASE Foreign
  <2>1. JunkFrame \in Frame /\ JunkFrame.kind # "resp"
    BY JunkFrameType DEF JunkFrame
  <2> QED
    BY <1>13, <2>1, CommandsKept, AnswersKept DEF Foreign, hostVars, boardVars
<1>14. CASE Restart
  <2>1. Len(toBoard') = 0 /\ Len(toHost') = 0 /\ 1 .. 0 = {}
    BY <1>14 DEF Restart, Orphaned
  <2> QED
    BY <1>14, <2>1 DEF Restart, CommandsInOrder, AnswersTruthful
<1> HIDE DEF WireInv, OkMeansApplied
<1> QED
  BY <1>1, <1>2, <1>3, <1>4, <1>5, <1>6, <1>7, <1>8, <1>9, <1>10, <1>11, <1>12,
     <1>13, <1>14 DEF Next, Host, Environment

\* The wire invariant holds of every behaviour of request(), the wire and the
\* board: commands reach the board in issue order, and answers tell the truth.
THEOREM WireCorrect == UnambiguousStatuses /\ SettledRestarts => (Spec => []WireInv)
<1> SUFFICES ASSUME UnambiguousStatuses, SettledRestarts PROVE Spec => []WireInv
  OBVIOUS
<1>1. Init => WireInv
  <2> SUFFICES ASSUME Init PROVE WireInv
    OBVIOUS
  <2>1. Len(toBoard) = 0 /\ Len(toHost) = 0 /\ 1 .. 0 = {} /\ execd <= cur /\ outcome # "ok"
    BY DEF Init
  <2> QED
    BY <2>1 DEF WireInv, CommandsInOrder, AnswersTruthful, OkMeansApplied
<1>2. TypeOK /\ TypeOK' /\ WireInv /\ [Next]_vars => WireInv'
  BY WireStep
<1> QED
  BY <1>1, <1>2, TypeCorrect, PTL DEF Spec

\* A call that reports success was the last command the board executed, and the
\* board's line is as the call asked, for every retry budget, every width of the
\* sequence counter, and any loss, delay, duplication and corruption.
THEOREM OkCorrect == UnambiguousStatuses /\ SettledRestarts => (Spec => []OkMeansApplied)
<1> SUFFICES ASSUME UnambiguousStatuses, SettledRestarts PROVE Spec => []OkMeansApplied
  OBVIOUS
<1>1. WireInv => OkMeansApplied
  BY DEF WireInv
<1> QED
  BY <1>1, WireCorrect, PTL

-----------------------------------------------------------------------------
(* Refinement.                                                             *)

\* Every step of the protocol is a step of the abstract calls, or changes
\* nothing they can see.
LEMMA RpcStep ==
  ASSUME TypeOK, WireInv, [Next]_vars
  PROVE  [Rpc!Next]_(Rpc!vars)
<1> USE DEF Rpc!Next, Rpc!vars
<1>1. CASE UNCHANGED vars
  BY <1>1 DEF vars
<1>2. ASSUME NEW o \in Ops, Call(o) PROVE [Rpc!Next]_(Rpc!vars)
  BY <1>2 DEF Call, Rpc!Call, TypeOK, boardVars
<1>3. ASSUME NEW r \in 0 .. MaxRetries, SetRetries(r) PROVE [Rpc!Next]_(Rpc!vars)
  BY <1>3 DEF SetRetries, boardVars
<1>4. CASE Transmit
  BY <1>4 DEF Transmit, boardVars
<1>5. CASE SendError
  BY <1>5 DEF SendError, Return, boardVars, Rpc!ReturnErr, Rpc!Errors, TypeOK
<1>6. CASE ReceiveOther
  BY <1>6 DEF ReceiveOther, hostVars, boardVars
<1>7. CASE ReceiveAnswer
  <2>1. execd = cur /\ outcome = "none" /\ UNCHANGED <<cur, execd>>
    BY <1>7, AnswerIsCurrent DEF ReceiveAnswer, Return, boardVars, TypeOK
  <2>2. outcome' \in {"ok", "refused"} \/ outcome' = "badframe"
    BY <1>7 DEF ReceiveAnswer, Return, Decode
  <2> QED
    BY <2>1, <2>2 DEF Rpc!ReturnAnswer, Rpc!ReturnErr, Rpc!Answers, Rpc!Errors
<1>8. CASE ReceiveTimeout
  BY <1>8 DEF ReceiveTimeout, Return, boardVars, Rpc!ReturnErr, Rpc!Errors, TypeOK
<1>9. CASE ReceiveError
  BY <1>9 DEF ReceiveError, Return, boardVars, Rpc!ReturnErr, Rpc!Errors, TypeOK
<1>10. CASE BoardExecute
  <2>1. Head(toBoard) = toBoard[1] /\ 1 \in 1 .. Len(toBoard)
    BY <1>10, TailFacts DEF BoardExecute, TypeOK
  <2>2. Head(toBoard).id \in execd .. cur
    BY <2>1 DEF WireInv, CommandsInOrder
  <2>3. execd' = Head(toBoard).id /\ UNCHANGED <<cur, outcome>>
    BY <1>10 DEF BoardExecute, hostVars
  <2> QED
    BY <2>2, <2>3 DEF Rpc!Execute
<1>11. CASE Lose
  BY <1>11 DEF Lose, hostVars, boardVars
<1>12. CASE Corrupt
  BY <1>12 DEF Corrupt, hostVars, boardVars
<1>13. CASE Foreign
  BY <1>13 DEF Foreign, hostVars, boardVars
<1>14. CASE Restart
  BY <1>14 DEF Restart, Rpc!Restart
<1> HIDE DEF Rpc!Next, Rpc!vars
<1> QED
  BY <1>1, <1>2, <1>3, <1>4, <1>5, <1>6, <1>7, <1>8, <1>9, <1>10, <1>11, <1>12,
     <1>13, <1>14 DEF Next, Host, Environment

\* The protocol implements the abstract calls: an answer is returned only for
\* the latest executed command, and the board never goes back to an older one.
THEOREM RequestImplementsRpc == UnambiguousStatuses /\ SettledRestarts => (Spec => ImplementsRpc)
<1> SUFFICES ASSUME UnambiguousStatuses, SettledRestarts PROVE Spec => Rpc!Spec
  BY DEF ImplementsRpc
<1>1. Init => Rpc!Init
  BY DEF Init, Rpc!Init
<1>2. TypeOK /\ WireInv /\ [Next]_vars => [Rpc!Next]_(Rpc!vars)
  BY RpcStep
<1> QED
  BY <1>1, <1>2, TypeCorrect, WireCorrect, PTL DEF Spec, Rpc!Spec

-----------------------------------------------------------------------------
(* The frame, cell by cell.                                                *)

\* The frame before its checksum is set, the checksum's two cells, and the frame as
\* transmitted.
Unsigned(s) == <<3, Command, s.op, s.seq, Len(s.payload) % CellMod, 0, 0>> \o s.payload
SignedWith(s) == Bytes(CrcCovered(Unsigned(s)))
Sent(s) == Pad(BuildCommandFrame(s.op, s.seq, s.payload))

Orders == [op : Cell, seq : Seqs, payload : Payloads]

\* Cells of a frame: the checksum's may be any value.
WideCell(s) == Nat \cup {SignedWith(s)[1], SignedWith(s)[2]}

\* The cell at place k has arrived as it was sent.
Spared(k) == ~(damage.from < k /\ k <= damage.to)

Judge(f) == IF ~Parses(f) THEN "no frame"
            ELSE IF ~VerifyChecksum(f) THEN "bad checksum" ELSE "accepted"

\* What is not damaged is as it was sent, and the verdict is the one on what arrived.
FrameInv ==
  /\ damage \in [from : Nat, to : Nat]
  /\ verdict # "unsent" =>
       /\ sent \in Orders
       /\ frame \in Seq(WideCell(sent)) /\ Len(frame) <= Len(Sent(sent))
       /\ \A k \in 1 .. Len(frame) : Spared(k) => frame[k] = Sent(sent)[k]
       /\ verdict # "sent" => verdict = Judge(frame)

-----------------------------------------------------------------------------
\* Two sequences end to end.
LEMMA ConcatFacts ==
  ASSUME NEW C, NEW a \in Seq(C), NEW b \in Seq(C)
  PROVE  /\ a \o b \in Seq(C) /\ Len(a \o b) = Len(a) + Len(b)
         /\ \A i \in 1 .. Len(a) : (a \o b)[i] = a[i]
         /\ \A i \in 1 .. Len(b) : (a \o b)[Len(a) + i] = b[i]
<1>1. Len(a) \in Nat /\ Len(b) \in Nat
  OBVIOUS
<1>2. \A i \in 1 .. Len(b) : (a \o b)[Len(a) + i] = b[i]
  BY <1>1
<1> QED  BY <1>2

\* Slices of two frames that agree there.
LEMMA SlicesAgree ==
  ASSUME NEW S, NEW f \in Seq(S), NEW T, NEW g \in Seq(T), NEW a \in Nat, NEW b \in Nat, a <= b,
         b <= Len(f), b <= Len(g), \A k \in a + 1 .. b : f[k] = g[k]
  PROVE  Slice(f, a, b) = Slice(g, a, b)
<1>1. Slice(f, a, b) = [i \in 1 .. b - a |-> f[a + i]]
  BY DEF Slice
<1>2. Slice(g, a, b) = [i \in 1 .. b - a |-> g[a + i]]
  BY DEF Slice
<1>3. \A i \in 1 .. b - a : f[a + i] = g[a + i]
  OBVIOUS
<1> QED  BY <1>1, <1>2, <1>3

\* A frame before its checksum is set.
LEMMA UnsignedFacts ==
  ASSUME NEW s \in Orders
  PROVE  /\ s.payload \in Seq(Nat) /\ Len(s.payload) \in Nat
         /\ Unsigned(s) \in Seq(Nat) /\ Len(Unsigned(s)) = 7 + Len(s.payload)
         /\ Unsigned(s)[3] = s.op /\ Unsigned(s)[4] = s.seq
         /\ Unsigned(s)[5] = Len(s.payload)
         /\ \A i \in 1 .. Len(s.payload) : Unsigned(s)[7 + i] = s.payload[i]
<1> DEFINE p == s.payload
           l == Len(p) % CellMod
           h == <<3, Command, s.op, s.seq, l, 0, 0>>
<1>1. p \in Seq(Nat) /\ Len(p) \in Nat /\ Len(p) < CellMod /\ CellMod \in Nat \ {0}
  BY FrameAssumption DEF Orders
<1>2. l = Len(p)
  <2> DEFINE n == Len(p)
  <2>1. n \in Nat /\ n < CellMod /\ CellMod \in Nat \ {0}
    BY <1>1
  <2> HIDE DEF n
  <2>2. n % CellMod = n
    BY <2>1
  <2> QED  BY <2>2 DEF n
<1>3. s.op \in Nat /\ s.seq \in Nat
  <2>1. s.op \in Cell /\ s.seq \in Seqs
    BY DEF Orders
  <2>2. Cell \subseteq Nat /\ Seqs \subseteq Nat
    BY <1>1, FrameAssumption DEF Cell
  <2> QED  BY <2>1, <2>2
<1> HIDE DEF l, p
<1>4. h \in Seq(Nat) /\ Len(h) = 7 /\ h[3] = s.op /\ h[4] = s.seq /\ h[5] = l
  <2>1. Len(h) = 7 /\ h[3] = s.op /\ h[4] = s.seq /\ h[5] = l
    OBVIOUS
  <2>2. 3 \in Nat /\ Command \in Nat /\ l \in Nat /\ 0 \in Nat
    BY <1>1, <1>2 DEF Command
  <2>3. h \in Seq(Nat)
    BY <1>3, <2>2
  <2> QED  BY <2>1, <2>3
<1>5. Unsigned(s) = h \o p
  BY DEF Unsigned, l, p
<1> HIDE DEF h
<1>6. /\ h \o p \in Seq(Nat) /\ Len(h \o p) = 7 + Len(p)
      /\ \A i \in 1 .. 7 : (h \o p)[i] = h[i]
      /\ \A i \in 1 .. Len(p) : (h \o p)[7 + i] = p[i]
  <2>1. h \in Seq(Nat) /\ p \in Seq(Nat)
    BY <1>1, <1>4
  <2>2. /\ h \o p \in Seq(Nat) /\ Len(h \o p) = Len(h) + Len(p)
        /\ \A i \in 1 .. Len(h) : (h \o p)[i] = h[i]
        /\ \A i \in 1 .. Len(p) : (h \o p)[Len(h) + i] = p[i]
    BY <2>1, ConcatFacts
  <2>3. Len(h) = 7
    BY <1>4
  <2> QED  BY <2>2, <2>3, Zenon
<1>7. (h \o p)[3] = h[3] /\ (h \o p)[4] = h[4] /\ (h \o p)[5] = h[5]
  <2>1. 3 \in 1 .. 7 /\ 4 \in 1 .. 7 /\ 5 \in 1 .. 7
    OBVIOUS
  <2> QED  BY <1>6, <2>1, Zenon
<1> QED  BY <1>1, <1>2, <1>4, <1>5, <1>6, <1>7 DEF p

\* The frame as transmitted: its checksum is that of the frame before it was set, and
\* padding follows.
LEMMA SentFacts ==
  ASSUME NEW s \in Orders
  PROVE  /\ Sent(s) \in Seq(WideCell(s)) /\ Len(Sent(s)) \in Nat
         /\ 7 + Len(s.payload) <= Len(Sent(s))
         /\ Sent(s)[6] = SignedWith(s)[1] /\ Sent(s)[7] = SignedWith(s)[2]
         /\ \A i \in 1 .. 7 + Len(s.payload) : i \notin {6, 7} => Sent(s)[i] = Unsigned(s)[i]
<1> DEFINE u == Unsigned(s)
           n == 7 + Len(s.payload)
           c == SignedWith(s)
           b == BuildCommandFrame(s.op, s.seq, s.payload)
           z == IF Len(b) < MinFrame THEN MinFrame - Len(b) ELSE 0
           pad == [i \in 1 .. z |-> 0]
<1>1. u \in Seq(Nat) /\ Len(u) = n /\ n \in Nat /\ n >= 7
  BY UnsignedFacts
<1>2. b = [[u EXCEPT ![6] = c[1]] EXCEPT ![7] = c[2]]
  BY DEF BuildCommandFrame, SetChecksum, SignedWith, Unsigned, OffChecksum
<1> HIDE DEF u, n, c, b
<1>3. c[1] \in WideCell(s) /\ c[2] \in WideCell(s) /\ Nat \subseteq WideCell(s)
  BY DEF WideCell, c
<1> DEFINE W == WideCell(s)
<1> HIDE DEF W
<1>4. u \in [1 .. n -> W] /\ 6 \in 1 .. n /\ 7 \in 1 .. n
  BY <1>1, <1>3 DEF W
<1>5. /\ b \in [1 .. n -> W] /\ b[6] = c[1] /\ b[7] = c[2]
      /\ \A i \in 1 .. n : i \notin {6, 7} => b[i] = u[i]
  BY <1>2, <1>3, <1>4 DEF W
<1>6. b \in Seq(W) /\ Len(b) = n
  <2>1. n \in Nat /\ b \in [1 .. n -> W]
    BY <1>1, <1>5
  <2> QED  BY <2>1
<1>7. z \in Nat /\ 0 \in W
  BY <1>1, <1>3, <1>6, FrameAssumption DEF W
<1> HIDE DEF z
<1>8. pad \in Seq(W) /\ Len(pad) = z
  BY <1>7
<1>9. Sent(s) = b \o pad
  BY DEF Sent, Pad, b, pad, z
<1> HIDE DEF pad
<1>10. /\ b \o pad \in Seq(W) /\ Len(b \o pad) = n + z
       /\ \A i \in 1 .. n : (b \o pad)[i] = b[i]
  BY <1>6, <1>8
<1>11. Len(Sent(s)) \in Nat /\ n <= Len(Sent(s))
  BY <1>1, <1>7, <1>9, <1>10
<1> QED  BY <1>4, <1>5, <1>9, <1>10, <1>11 DEF W, n, c, u

\* The cells between the addresses and the padding decide: a frame in which they are
\* as they were sent is accepted and read as it was sent.
LEMMA CoveredDecides ==
  ASSUME NEW s \in Orders, NEW f \in Seq(WideCell(s)), 7 + Len(s.payload) <= Len(f),
         \A k \in 2 .. 7 + Len(s.payload) : f[k] = Sent(s)[k]
  PROVE  /\ Judge(f) = "accepted" /\ PayloadOf(f) = s.payload
         /\ At(f, OffSubtype) = s.op /\ At(f, OffSeq) = s.seq
<1> DEFINE u == Unsigned(s)
           l == Len(s.payload)
           c == SignedWith(s)
<1>1. /\ s.payload \in Seq(Nat) /\ l \in Nat /\ u \in Seq(Nat) /\ Len(u) = 7 + l
      /\ u[3] = s.op /\ u[4] = s.seq /\ u[5] = l
      /\ \A i \in 1 .. l : u[7 + i] = s.payload[i]
  BY UnsignedFacts
<1>2. /\ Sent(s)[6] = c[1] /\ Sent(s)[7] = c[2]
      /\ \A i \in 1 .. 7 + l : i \notin {6, 7} => Sent(s)[i] = u[i]
  BY SentFacts
<1>3. 7 + l <= Len(f) /\ \A k \in 2 .. 7 + l : f[k] = Sent(s)[k]
  OBVIOUS
<1>4. c = <<c[1], c[2]>>
  BY DEF SignedWith, Bytes
<1>5. c = Bytes(CrcCovered(u))
  BY DEF SignedWith
<1> DEFINE W == WideCell(s)
<1>6. f \in Seq(W)
  OBVIOUS
<1> HIDE DEF u, l, c, W
<1>7. /\ f[6] = c[1] /\ f[7] = c[2] /\ f[3] = u[3] /\ f[4] = u[4] /\ f[5] = l
      /\ \A k \in 2 .. 7 + l : k \notin {6, 7} => f[k] = u[k]
  <2>1. l \in Nat
    BY <1>1
  <2>2. \A k \in 2 .. 7 : k \in 2 .. 7 + l
    BY <2>1
  <2>3. \A k \in 2 .. 7 + l : k \in 1 .. 7 + l
    BY <2>1
  <2>4. \A k \in 2 .. 7 + l : k \notin {6, 7} => f[k] = u[k]
    BY <1>2, <1>3, <2>3
  <2>5. 3 \in 2 .. 7 /\ 4 \in 2 .. 7 /\ 5 \in 2 .. 7 /\ 6 \in 2 .. 7 /\ 7 \in 2 .. 7
    OBVIOUS
  <2>6. f[6] = c[1] /\ f[7] = c[2]
    BY <1>2, <1>3, <2>2, <2>5
  <2>7. 3 \notin {6, 7} /\ 4 \notin {6, 7} /\ 5 \notin {6, 7}
    OBVIOUS
  <2>8. f[3] = u[3] /\ f[4] = u[4] /\ f[5] = u[5]
    BY <2>2, <2>4, <2>5, <2>7
  <2> QED  BY <1>1, <2>4, <2>6, <2>8
<1>8. At(f, OffPayloadLen) = l /\ At(u, OffPayloadLen) = l
  BY <1>1, <1>7 DEF At, OffPayloadLen
<1>9. Slice(f, 1, 5) = Slice(u, 1, 5)
  <2> DEFINE a == 1
             e == 5
  <2>1. \A k \in a + 1 .. e : f[k] = u[k]
    BY <1>1, <1>7, SMTT(30)
  <2>2. a \in Nat /\ e \in Nat /\ a <= e /\ e <= Len(f) /\ e <= Len(u)
    BY <1>1, <1>3, <1>6
  <2>3. u \in Seq(Nat)
    BY <1>1
  <2> HIDE DEF a, e
  <2>4. Slice(f, a, e) = Slice(u, a, e)
    BY <1>6, <2>1, <2>2, <2>3, SlicesAgree, Zenon
  <2> QED  BY <2>4 DEF a, e
<1>10. Slice(f, 7, 7 + l) = Slice(u, 7, 7 + l)
  <2> DEFINE e == 7 + l
  <2>1. e \in Nat /\ 7 <= e /\ e <= Len(f) /\ e <= Len(u)
    BY <1>1, <1>3
  <2>2. \A k \in 7 + 1 .. e : f[k] = u[k]
    BY <1>1, <1>7
  <2> HIDE DEF e
  <2>3. u \in Seq(Nat) /\ 7 \in Nat
    BY <1>1
  <2>4. Slice(f, 7, e) = Slice(u, 7, e)
    BY <1>6, <2>1, <2>2, <2>3, SlicesAgree, ZenonT(40)
  <2> QED  BY <2>4 DEF e
<1>11. CoverEnd(f) = 7 + l /\ CoverEnd(u) = 7 + l
  BY <1>1, <1>8 DEF CoverEnd, OffMagic, CoverHeaderBytes
<1>12. CrcCovered(f) = CrcCovered(u)
  BY <1>9, <1>10, <1>11 DEF CrcCovered, OffMagic, OffChecksum
<1>13. Slice(f, 5, 7) = <<f[6], f[7]>>
  <2>1. 7 <= Len(f) /\ Len(f) \in Nat
    BY <1>1, <1>3, <1>6
  <2>2. Slice(f, 5, 7) \in Seq(W) /\ Len(Slice(f, 5, 7)) = 2
    BY <1>6, <2>1 DEF Slice
  <2>3. Slice(f, 5, 7)[1] = f[6] /\ Slice(f, 5, 7)[2] = f[7]
    BY <1>6, <2>1 DEF Slice
  <2> QED  BY <2>2, <2>3
<1>14. Slice(f, OffChecksum, OffChecksum + 2) = Bytes(CrcCovered(f))
  BY <1>4, <1>5, <1>7, <1>12, <1>13 DEF OffChecksum
<1>15. Parses(f) /\ VerifyChecksum(f)
  <2>1. Len(f) \in Nat
    BY <1>6
  <2>2. Parses(f)
    BY <1>1, <1>3, <1>8, <2>1 DEF Parses, HeaderLen, OffPayload
  <2>3. Len(f) >= 1 + 6 /\ Len(f) - (1 + 6) >= l
    BY <1>1, <1>3, <2>1
  <2> QED  BY <1>8, <1>14, <2>2, <2>3 DEF VerifyChecksum, OffMagic, CoverHeaderBytes
<1>16. PayloadOf(f) = s.payload
  <2>1. PayloadOf(f) = Slice(u, 7, 7 + l)
    BY <1>8, <1>10 DEF PayloadOf, OffPayload
  <2>2. Slice(u, 7, 7 + l) = [i \in 1 .. l |-> u[7 + i]]
    BY <1>1 DEF Slice
  <2>3. s.payload = [i \in 1 .. l |-> s.payload[i]]
    <3> DEFINE q == s.payload
    <3>1. q \in Seq(Nat)
      BY <1>1
    <3> HIDE DEF q
    <3>2. q = [i \in 1 .. Len(q) |-> q[i]]
      BY <3>1
    <3> QED  BY <3>2 DEF l, q
  <2> QED  BY <1>1, <2>1, <2>2, <2>3
<1> QED  BY <1>1, <1>7, <1>15, <1>16 DEF Judge, At, OffSubtype, OffSeq

\* Every step keeps what is not damaged as it was sent.
LEMMA FrameStep ==
  ASSUME FrameInv, [FrameNext]_frameVars
  PROVE  FrameInv'
<1>1. CASE UNCHANGED frameVars
  BY <1>1 DEF frameVars, FrameInv, Spared
<1>2. CASE Build
  <2>1. PICK o \in Cell, q \in Seqs, p \in Payloads :
          /\ sent' = [op |-> o, seq |-> q, payload |-> p]
          /\ frame' = Pad(BuildCommandFrame(o, q, p))
    BY <1>2 DEF Build
  <2> DEFINE s == [op |-> o, seq |-> q, payload |-> p]
  <2>2. s \in Orders /\ sent' = s /\ frame' = Sent(s)
    BY <2>1 DEF Orders, Sent
  <2> HIDE DEF s
  <2>3. verdict' = "sent" /\ verdict = "unsent" /\ damage' = damage
    BY <1>2 DEF Build
  <2>4. Sent(s) \in Seq(WideCell(s)) /\ Len(Sent(s)) \in Nat
    BY <2>2, SentFacts
  <2> QED  BY <2>2, <2>3, <2>4 DEF FrameInv
<1>3. CASE Damage
  <2>1. /\ verdict = "sent" /\ UNCHANGED <<sent, verdict>> /\ damage = Intact
    BY <1>3 DEF Damage
  <2>2. PICK i \in DOMAIN frame, j \in DOMAIN frame : \E v \in [i .. j -> Cell] :
          /\ i <= j
          /\ frame' = [k \in DOMAIN frame |-> IF k \in i .. j THEN v[k] ELSE frame[k]]
          /\ damage' = [from |-> i - 1, to |-> j]
    BY <1>3 DEF Damage
  <2>3. PICK v \in [i .. j -> Cell] :
          /\ i <= j
          /\ frame' = [k \in DOMAIN frame |-> IF k \in i .. j THEN v[k] ELSE frame[k]]
          /\ damage' = [from |-> i - 1, to |-> j]
    BY <2>2
  <2>4. /\ sent \in Orders /\ frame \in Seq(WideCell(sent)) /\ Len(frame) <= Len(Sent(sent))
        /\ \A k \in 1 .. Len(frame) : Spared(k) => frame[k] = Sent(sent)[k]
    BY <2>1 DEF FrameInv
  <2> DEFINE W == WideCell(sent)
             n == Len(frame)
  <2>5. n \in Nat /\ DOMAIN frame = 1 .. n /\ i \in 1 .. n /\ j \in 1 .. n /\ frame \in [1 .. n -> W]
    BY <2>4
  <2>6. Cell \subseteq W
    BY FrameAssumption DEF Cell, WideCell
  <2> HIDE DEF W, n
  <2>7. frame' \in [1 .. n -> W]
    BY <2>3, <2>5, <2>6
  <2>8. frame' \in Seq(W) /\ Len(frame') = n
    BY <2>5, <2>7
  <2>9. \A k \in 1 .. n : Spared(k)
    BY <2>1 DEF Spared, Intact
  <2>10. ASSUME NEW k \in 1 .. n, Spared(k)' PROVE frame'[k] = Sent(sent)[k]
    <3>1. ~(i - 1 < k /\ k <= j)
      BY <2>3, <2>10 DEF Spared
    <3>2. k \notin i .. j
      BY <2>5, <3>1
    <3>3. frame'[k] = frame[k]
      BY <2>3, <2>5, <3>2
    <3> QED  BY <2>4, <2>9, <3>3 DEF n
  <2>11. damage' \in [from : Nat, to : Nat]
    <3>1. i - 1 \in Nat /\ j \in Nat
      BY <2>5
    <3> QED  BY <2>3, <3>1
  <2> QED  BY <2>1, <2>4, <2>8, <2>10, <2>11 DEF FrameInv, W, n
<1>4. CASE Cut
  <2>1. verdict = "sent" /\ UNCHANGED <<sent, verdict>> /\ damage = Intact
    BY <1>4 DEF Cut
  <2>2. PICK n \in 0 .. Len(frame) - 1 :
          frame' = Slice(frame, 0, n) /\ damage' = [from |-> n, to |-> Len(frame)]
    BY <1>4 DEF Cut
  <2>3. /\ sent \in Orders /\ frame \in Seq(WideCell(sent)) /\ Len(frame) <= Len(Sent(sent))
        /\ \A k \in 1 .. Len(frame) : Spared(k) => frame[k] = Sent(sent)[k]
    BY <2>1 DEF FrameInv
  <2> DEFINE W == WideCell(sent)
             g == frame
  <2>4. g \in Seq(W) /\ Len(g) \in Nat /\ n \in Nat /\ n <= Len(g)
    BY <2>2, <2>3
  <2>5. frame' = SubSeq(g, 1, n)
    BY <2>2 DEF Slice
  <2> HIDE DEF W, g
  <2>6. SubSeq(g, 1, n) \in Seq(W) /\ Len(SubSeq(g, 1, n)) = n /\ \A k \in 1 .. n : SubSeq(g, 1, n)[k] = g[k]
    BY <2>4
  <2>7. \A k \in 1 .. n : Spared(k) /\ k \in 1 .. Len(g)
    BY <2>1, <2>4 DEF Spared, Intact
  <2>8. \A k \in 1 .. n : frame'[k] = Sent(sent)[k]
    BY <2>3, <2>5, <2>6, <2>7 DEF g
  <2>9. Len(Sent(sent)) \in Nat
    BY <2>3, SentFacts
  <2>10. Len(frame') = n /\ n <= Len(Sent(sent)) /\ frame' \in Seq(W)
    BY <2>3, <2>4, <2>5, <2>6, <2>9 DEF g
  <2>11. damage' \in [from : Nat, to : Nat]
    BY <2>2, <2>4 DEF g
  <2> QED  BY <2>1, <2>3, <2>8, <2>10, <2>11 DEF FrameInv, W
<1>5. CASE Receive
  <2>1. verdict = "sent" /\ verdict' = Judge(frame) /\ UNCHANGED <<sent, frame, damage>>
    BY <1>5 DEF Receive, Judge
  <2>2. Judge(frame)' = Judge(frame)
    BY <2>1 DEF Judge, Parses, VerifyChecksum, CrcCovered, CoverEnd, At, Slice
  <2>3. \A k : Spared(k)' = Spared(k)
    BY <2>1 DEF Spared
  <2> QED  BY <2>1, <2>2, <2>3 DEF FrameInv
<1> QED  BY <1>1, <1>2, <1>3, <1>4, <1>5 DEF FrameNext

\* A frame that arrives whole, or damaged or cut only in the addresses or the padding,
\* is accepted and read as it was sent: for every checksum, every width of a cell, and
\* all payloads whose length fits its field.
THEOREM FramesAccepted == FrameSpec => []AcceptsWhatWasSent
<1>1. FrameInit => FrameInv
  BY DEF FrameInit, FrameInv, Intact
<1>2. FrameInv /\ [FrameNext]_frameVars => FrameInv'
  BY FrameStep
<1>3. FrameInv => AcceptsWhatWasSent
  <2> SUFFICES ASSUME FrameInv, verdict \notin {"unsent", "sent"},
                      ~Hit(OffMagic, EndOfSent), Len(frame) >= EndOfSent
               PROVE  /\ verdict = "accepted" /\ PayloadOf(frame) = sent.payload
                      /\ At(frame, OffSubtype) = sent.op /\ At(frame, OffSeq) = sent.seq
    BY DEF AcceptsWhatWasSent
  <2>1. /\ sent \in Orders /\ damage \in [from : Nat, to : Nat]
        /\ frame \in Seq(WideCell(sent)) /\ verdict = Judge(frame)
        /\ \A k \in 1 .. Len(frame) : Spared(k) => frame[k] = Sent(sent)[k]
    BY DEF FrameInv
  <2> DEFINE e == 7 + Len(sent.payload)
  <2>2. e \in Nat /\ EndOfSent = e /\ e <= Len(frame) /\ Len(frame) \in Nat
    <3>1. Len(sent.payload) \in Nat
      BY <2>1, UnsignedFacts
    <3> QED  BY <2>1, <3>1 DEF EndOfSent, OffPayload
  <2>3. damage.from \in Nat /\ damage.to \in Nat /\ ~(damage.from < e /\ 1 < damage.to)
    BY <2>1, <2>2 DEF Hit, OffMagic
  <2> HIDE DEF e
  <2>4. \A k \in 2 .. e : Spared(k) /\ k \in 1 .. Len(frame)
    BY <2>2, <2>3 DEF Spared
  <2>5. \A k \in 2 .. e : frame[k] = Sent(sent)[k]
    BY <2>1, <2>4
  <2>6. /\ Judge(frame) = "accepted" /\ PayloadOf(frame) = sent.payload
        /\ At(frame, OffSubtype) = sent.op /\ At(frame, OffSeq) = sent.seq
    BY <2>1, <2>2, <2>5, CoveredDecides DEF e
  <2> QED  BY <2>1, <2>6
<1> QED  BY <1>1, <1>2, <1>3, PTL DEF FrameSpec
=============================================================================
