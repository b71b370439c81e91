----------------------------- MODULE SocketProofs -----------------------------
(***************************************************************************)
(* Theorems about the three sockets of the daemon: the control socket, for *)
(* any clients, silent ones among them, and any number of versions of the  *)
(* shared state; the ubus socket, for any sizes of messages, reads and     *)
(* buffers; and the netlink socket, for messages of any size, with any     *)
(* payloads and nests of any depth.                                        *)
(***************************************************************************)
EXTENDS ControlSocket, UbusTransport, NetlinkAttr, WellFoundedInduction, TLAPS

CtlType ==
  /\ pc \in {"turn", "accept", "read", "act", "dead"}
  /\ version \in 0 .. MaxVersion /\ snap \in 0 .. MaxVersion
  /\ pc \in {"read", "act"} => serving \in Clients
  /\ backlog \in Seq(Clients)
  /\ fwpc \in [Clients -> {"none", "check", "stream", "ended"}]
  /\ conn \in [Clients -> {"none", "open", "closed", "reset"}]
  /\ unread \in [Clients -> BOOLEAN]
  /\ pieces \in [Clients -> [queued : BOOLEAN, left : 0 .. MaxPieces]]
  /\ inbox \in [Clients -> Seq(Line)]
  /\ cpc \in [Clients -> {"idle", "connected", "waiting", "done"}]
  /\ cmd \in [Clients -> Commands]
  /\ exit \in [Clients -> {-1, 0, 1}]
  /\ floor \in [Clients -> 0 .. MaxVersion]

HasKind(q, k) == \E i \in DOMAIN q : q[i].kind = k

\* The command of client c has been carried out or is about to be, or the daemon crashed.
Carried(c) == c \in acted \/ (pc = "act" /\ serving = c) \/ crashed

\* The client reads the end of its reply, or has read it and taken it for a success.
Finished(c) == exit[c] = 0 \/ (cpc[c] = "waiting" /\ conn[c] = "closed")

\* What an open and a closed connection tell about the command sent over it.
ReplyInv ==
  \A c \in Clients :
    /\ fwpc[c] # "none" => cmd[c] = "FIRMWARE"
    /\ cpc[c] = "waiting" => conn[c] # "none"
    /\ (cmd[c] # "FIRMWARE" /\ conn[c] = "reset") => pc = "dead"
    /\ (cmd[c] # "FIRMWARE" /\ cpc[c] = "waiting" /\ conn[c] = "open") => unread[c]
    /\ HasKind(inbox[c], "DONE") => c \in flashed
    /\ (exit[c] = 0 /\ cmd[c] = "FIRMWARE") => c \in flashed
    /\ (Finished(c) /\ cmd[c] = "STATUS") => inbox[c] # <<>>
    /\ (Finished(c) /\ cmd[c] \in {"RELOAD", "RESTART", "STOP"}) => Carried(c)

\* The snapshot in use is no older than what the client that is served could know.
VersionInv ==
  /\ snap <= version
  /\ \A c \in Clients : floor[c] <= version
  /\ pc = "accept" => \A c \in Clients : floor[c] <= snap
  /\ pc = "read" => floor[serving] <= snap /\ cpc[serving] # "idle"
  /\ \A i \in DOMAIN backlog : cpc[backlog[i]] # "idle"
  /\ \A c \in Clients : fwpc[c] # "none" => cmd[c] = "FIRMWARE"
  /\ \A c \in Clients : (cmd[c] = "STATUS" /\ inbox[c] # <<>>) =>
       cpc[c] # "idle" /\ inbox[c][1].v >= floor[c]
-----------------------------------------------------------------------------
(* Replies.                                                                *)

\* A line written at the end of a reply, and a line read from its beginning.
LEMMA LineFacts ==
  ASSUME NEW q \in Seq(Line), NEW l \in Line, NEW k
  PROVE  /\ Append(q, l) \in Seq(Line) /\ Append(q, l) # <<>>
         /\ Append(q, l)[1] = (IF q = <<>> THEN l ELSE q[1])
         /\ HasKind(Append(q, l), k) => HasKind(q, k) \/ l.kind = k
         /\ q # <<>> => Tail(q) \in Seq(Line) /\ (HasKind(Tail(q), k) => HasKind(q, k))
<1>1. /\ Append(q, l) \in Seq(Line) /\ Append(q, l) # <<>>
      /\ Len(q) \in Nat /\ DOMAIN q = 1 .. Len(q) /\ DOMAIN Append(q, l) = 1 .. Len(q) + 1
      /\ \A i \in 1 .. Len(q) : Append(q, l)[i] = q[i]
      /\ Append(q, l)[Len(q) + 1] = l
      /\ q = <<>> <=> Len(q) = 0
  OBVIOUS
<1>2. Append(q, l)[1] = (IF q = <<>> THEN l ELSE q[1])
  BY <1>1
<1>3. ASSUME HasKind(Append(q, l), k) PROVE HasKind(q, k) \/ l.kind = k
  <2>1. PICK i \in 1 .. Len(q) + 1 : Append(q, l)[i].kind = k
    BY <1>1, <1>3 DEF HasKind
  <2>2. CASE i = Len(q) + 1
    BY <1>1, <2>1, <2>2
  <2>3. CASE i # Len(q) + 1
    <3>1. i \in 1 .. Len(q)
      BY <1>1, <2>3
    <3> QED  BY <1>1, <2>1, <3>1 DEF HasKind
  <2> QED  BY <2>2, <2>3
<1>4. ASSUME q # <<>> PROVE Tail(q) \in Seq(Line) /\ (HasKind(Tail(q), k) => HasKind(q, k))
  <2>1. /\ Tail(q) \in Seq(Line) /\ DOMAIN Tail(q) = 1 .. Len(q) - 1
        /\ \A i \in 1 .. Len(q) - 1 : Tail(q)[i] = q[i + 1]
    BY <1>4
  <2>2. ASSUME NEW i \in 1 .. Len(q) - 1, Tail(q)[i].kind = k PROVE HasKind(q, k)
    <3>1. i + 1 \in 1 .. Len(q) /\ q[i + 1].kind = k
      BY <1>1, <2>1, <2>2
    <3> QED  BY <1>1, <3>1 DEF HasKind
  <2> QED  BY <2>1, <2>2 DEF HasKind
<1> QED  BY <1>1, <1>2, <1>3, <1>4

\* The lines the daemon writes are lines.
LEMMA LinesAre ==
  ASSUME CtlType
  PROVE  /\ \A k \in {"OK", "STATUS", "PROGRESS", "DONE", "ERR"} : Plain(k) \in Line /\ Plain(k).kind = k
         /\ [kind |-> "STATUS", v |-> snap] \in Line
BY BoundAssumption DEF CtlType, Plain, Line

\* What a write changes: nothing if the client has gone.
LEMMA WriteFacts ==
  ASSUME CtlType, NEW c \in Clients, NEW l \in Line, Write(c, l)
  PROVE  /\ inbox' \in [Clients -> Seq(Line)]
         /\ \A d \in Clients : d # c \/ cpc[c] = "done" => inbox'[d] = inbox[d]
         /\ cpc[c] # "done" => /\ inbox'[c] # <<>>
                               /\ inbox'[c][1] = (IF inbox[c] = <<>> THEN l ELSE inbox[c][1])
         /\ \A d \in Clients : HasKind(inbox'[d], "DONE") =>
              HasKind(inbox[d], "DONE") \/ (d = c /\ l.kind = "DONE")
<1>1. inbox \in [Clients -> Seq(Line)] /\ inbox[c] \in Seq(Line)
  BY DEF CtlType
<1>2. CASE cpc[c] = "done"
  BY <1>1, <1>2 DEF Write
<1>3. CASE cpc[c] # "done"
  <2>1. inbox' = [inbox EXCEPT ![c] = Append(inbox[c], l)]
    BY <1>3 DEF Write
  <2>2. inbox'[c] = Append(inbox[c], l) /\ \A d \in Clients : d # c => inbox'[d] = inbox[d]
    BY <1>1, <2>1
  <2>3. Append(inbox[c], l) \in Seq(Line)
    BY <1>1
  <2> QED  BY <1>1, <1>3, <2>1, <2>2, <2>3, LineFacts
<1> QED  BY <1>2, <1>3

\* Every step keeps the types.
LEMMA TypeStep == CtlType /\ [Next]_vars => CtlType'
<1> SUFFICES ASSUME CtlType, [Next]_vars PROVE CtlType'
  OBVIOUS
<1> USE BoundAssumption DEF CtlType, daemonVars, kernelVars, clientVars, ghosts
<1>1. CASE Publish
  BY <1>1 DEF Publish
<1>2. CASE LoopStep
  <2>1. CASE TurnBegins
    BY <2>1 DEF TurnBegins, SnapOf
  <2>2. CASE LoopEnds
    BY <2>2 DEF LoopEnds, Ends, AfterClose, NoPieces
  <2>3. CASE AcceptNobody
    BY <2>3 DEF AcceptNobody
  <2>4. CASE Accept
    BY <2>4 DEF Accept
  <2>5. CASE ReadNothing
    BY <2>5 DEF ReadNothing, Close, AfterClose, NoPieces
  <2>6. CASE ServeStatus
    <3>1. inbox' \in [Clients -> Seq(Line)]
      BY <2>6, WriteFacts, LinesAre DEF ServeStatus
    <3> QED  BY <2>6, <3>1 DEF ServeStatus
  <2>7. CASE Acknowledge
    <3>1. inbox' \in [Clients -> Seq(Line)]
      BY <2>7, WriteFacts, LinesAre DEF Acknowledge
    <3> QED  BY <2>7, <3>1 DEF Acknowledge
  <2>8. CASE Act
    BY <2>8 DEF Act
  <2>9. CASE ServeFirmware
    BY <2>9 DEF ServeFirmware
  <2>10. CASE ReadPiece
    <3>1. pieces' \in [Clients -> [queued : BOOLEAN, left : 0 .. MaxPieces]]
      <4> HIDE DEF CtlType
      <4>1. /\ pieces \in [Clients -> [queued : BOOLEAN, left : 0 .. MaxPieces]]
            /\ pieces' = [pieces EXCEPT ![serving].queued = FALSE]
        BY <2>10 DEF ReadPiece, CtlType
      <4> QED  BY <4>1
    <3> QED  BY <2>10, <3>1 DEF ReadPiece
  <2> QED  BY <1>2, <2>1, <2>2, <2>3, <2>4, <2>5, <2>6, <2>7, <2>8, <2>9, <2>10 DEF LoopStep
<1>3. CASE Crash
  BY <1>3 DEF Crash, Ends, AfterClose, NoPieces
<1>4. ASSUME NEW c \in Clients, FwStep(c) PROVE CtlType'
  <2>1. CASE FwRefuse(c)
    <3>1. inbox' \in [Clients -> Seq(Line)]
      BY <2>1, WriteFacts, LinesAre DEF FwRefuse, FwEnds
    <3> QED  BY <2>1, <3>1 DEF FwRefuse, FwEnds, Close, AfterClose
  <2>2. CASE FwAccept(c)
    <3>1. inbox' \in [Clients -> Seq(Line)]
      BY <2>2, WriteFacts, LinesAre DEF FwAccept
    <3> QED  BY <2>2, <3>1 DEF FwAccept
  <2>3. CASE FwProgress(c)
    <3>1. inbox' \in [Clients -> Seq(Line)]
      BY <2>3, WriteFacts, LinesAre DEF FwProgress
    <3> QED  BY <2>3, <3>1 DEF FwProgress
  <2>4. CASE FwEof(c)
    BY <2>4 DEF FwEof, Close, AfterClose
  <2>5. ASSUME NEW b \in BOOLEAN, FwResult(c, b) PROVE CtlType'
    <3>1. PICK l \in Line : FwEnds(c, l)
      BY <2>5, LinesAre DEF FwResult
    <3>2. inbox' \in [Clients -> Seq(Line)]
      BY <3>1, WriteFacts DEF FwEnds
    <3>3. UNCHANGED <<pc, version, snap, serving, backlog, unread, pieces, cpc, cmd, exit, floor>>
      BY <2>5 DEF FwResult
    <3> QED  BY <3>1, <3>2, <3>3 DEF FwEnds, Close, AfterClose
  <2> QED  BY <1>4, <2>1, <2>2, <2>3, <2>4, <2>5 DEF FwStep
<1>5. ASSUME NEW c \in Clients, ClientStep(c) PROVE CtlType'
  <2>1. CASE Connect(c)
    <3>1. UNCHANGED <<pc, version, snap, serving, fwpc, unread, inbox, cmd>>
      BY <2>1 DEF Connect
    <3>2. CASE Dead
      BY <2>1, <3>1, <3>2 DEF Connect, Exits
    <3>3. CASE ~Dead
      <4>1. Append(backlog, c) \in Seq(Clients)
        OBVIOUS
      <4>2. PICK n \in 0 .. MaxVersion : floor' = [floor EXCEPT ![c] = n]
        BY <2>1, <3>3 DEF Connect
      <4> QED  BY <2>1, <3>1, <3>3, <4>1, <4>2, ZenonT(30) DEF Connect
    <3> QED  BY <3>2, <3>3
  <2>2. CASE Send(c)
    BY <2>2 DEF Send, Exits
  <2>3. CASE SendPiece(c)
    BY <2>3 DEF SendPiece
  <2>4. CASE ReadProgress(c)
    BY <2>4 DEF ReadProgress
  <2>5. CASE ReadEnd(c)
    BY <2>5 DEF ReadEnd, Exits, ExitCode
  <2>6. CASE GiveUp(c)
    BY <2>6 DEF GiveUp, Exits
  <2> QED  BY <1>5, <2>1, <2>2, <2>3, <2>4, <2>5, <2>6 DEF ClientStep
<1>6. CASE UNCHANGED vars
  BY <1>6 DEF vars
<1> HIDE DEF CtlType
<1> QED  BY <1>1, <1>2, <1>3, <1>4, <1>5, <1>6 DEF Next

\* Daemon, kernel and clients keep their types.
LEMMA TypeInvariant == Spec => []CtlType
<1>1. Init => CtlType
  BY BoundAssumption DEF Init, CtlType, Commands
<1> QED  BY <1>1, TypeStep, PTL DEF Spec

-----------------------------------------------------------------------------
(* Exit codes.                                                             *)

\* A command is read before its connection is closed without a reset.
LEMMA ReplyStep == CtlType /\ ReplyInv /\ [Next]_vars => ReplyInv'
<1> SUFFICES ASSUME CtlType, ReplyInv, [Next]_vars PROVE ReplyInv'
  OBVIOUS
<1> USE DEF ReplyInv, CtlType, Carried, Finished, daemonVars, kernelVars, clientVars, ghosts
<1>1. CASE Publish
  BY <1>1 DEF Publish
<1>2. CASE LoopStep
  <2>1. CASE TurnBegins
    BY <2>1 DEF TurnBegins, SnapOf
  <2>2. CASE LoopEnds
    BY <2>2 DEF LoopEnds, Ends, AfterClose, NoPieces
  <2>3. CASE AcceptNobody
    BY <2>3 DEF AcceptNobody
  <2>4. CASE Accept
    BY <2>4 DEF Accept
  <2>5. CASE ReadNothing
    <3>1. /\ pc = "read" /\ ~unread[serving] /\ conn' = [conn EXCEPT ![serving] = "closed"]
          /\ UNCHANGED <<fwpc, unread, inbox, cpc, cmd, exit, acted, flashed, crashed>>
      BY <2>5 DEF ReadNothing, Close, AfterClose, NoPieces
    <3>2. \A d \in Clients : Finished(d)' /\ cmd[d] # "FIRMWARE" => Finished(d)
      BY <3>1
    <3> QED  BY <3>1, <3>2
  <2>6. CASE ServeStatus
    <3>1. PICK l \in Line : l.kind = "STATUS" /\ Write(serving, l)
      BY <2>6, LinesAre DEF ServeStatus
    <3>2. /\ \A d \in Clients : /\ HasKind(inbox'[d], "DONE") => HasKind(inbox[d], "DONE")
                                /\ inbox[d] # <<>> => inbox'[d] # <<>>
          /\ cpc[serving] # "done" => inbox'[serving] # <<>>
      BY <2>6, <3>1, WriteFacts DEF ServeStatus
    <3> QED  BY <2>6, <3>2 DEF ServeStatus
  <2>7. CASE Acknowledge
    <3>1. PICK l \in Line : l.kind = "OK" /\ Write(serving, l)
      BY <2>7, LinesAre DEF Acknowledge, FwEnds
    <3>2. \A d \in Clients : /\ HasKind(inbox'[d], "DONE") => HasKind(inbox[d], "DONE")
                             /\ inbox[d] # <<>> => inbox'[d] # <<>>
      BY <3>1, WriteFacts, <2>7 DEF Acknowledge
    <3> QED  BY <2>7, <3>2 DEF Acknowledge, FwEnds, Close, AfterClose
  <2>8. CASE Act
    BY <2>8 DEF Act
  <2>9. CASE ServeFirmware
    BY <2>9 DEF ServeFirmware
  <2>10. CASE ReadPiece
    BY <2>10 DEF ReadPiece
  <2> QED  BY <1>2, <2>1, <2>2, <2>3, <2>4, <2>5, <2>6, <2>7, <2>8, <2>9, <2>10 DEF LoopStep
<1>3. CASE Crash
  BY <1>3 DEF Crash, Ends, AfterClose, NoPieces
<1>4. ASSUME NEW c \in Clients, FwStep(c) PROVE ReplyInv'
  <2>1. CASE FwRefuse(c)
    <3>1. PICK l \in Line : l.kind = "ERR" /\ Write(c, l)
      BY <2>1, LinesAre DEF FwRefuse, FwEnds
    <3>2. \A d \in Clients : /\ HasKind(inbox'[d], "DONE") => HasKind(inbox[d], "DONE")
                             /\ inbox[d] # <<>> => inbox'[d] # <<>>
      BY <3>1, WriteFacts, <2>1 DEF FwRefuse
    <3> QED  BY <2>1, <3>2 DEF FwRefuse, FwEnds, Close, AfterClose
  <2>2. CASE FwAccept(c)
    <3>1. PICK l \in Line : l.kind = "OK" /\ Write(c, l)
      BY <2>2, LinesAre DEF FwAccept, FwEnds
    <3>2. \A d \in Clients : /\ HasKind(inbox'[d], "DONE") => HasKind(inbox[d], "DONE")
                             /\ inbox[d] # <<>> => inbox'[d] # <<>>
      BY <3>1, WriteFacts, <2>2 DEF FwAccept
    <3> QED  BY <2>2, <3>2 DEF FwAccept, FwEnds, Close, AfterClose
  <2>3. CASE FwProgress(c)
    <3>1. UNCHANGED <<pc, serving, conn, unread, cpc, cmd, exit, acted, flashed, crashed>>
      BY <2>3 DEF FwProgress
    <3>2. cmd[c] = "FIRMWARE" /\ \A d \in Clients : fwpc'[d] # "none" => fwpc[d] # "none"
      BY <2>3 DEF FwProgress
    <3>3. CASE inbox' = inbox
      BY <3>1, <3>2, <3>3
    <3>4. CASE Write(c, Plain("PROGRESS"))
      <4>1. PICK l \in Line : l.kind = "PROGRESS" /\ Write(c, l)
        BY <3>4, LinesAre
      <4>2. \A d \in Clients : /\ HasKind(inbox'[d], "DONE") => HasKind(inbox[d], "DONE")
                               /\ inbox[d] # <<>> => inbox'[d] # <<>>
        BY <4>1, WriteFacts
      <4> QED  BY <3>1, <3>2, <4>2
    <3> QED  BY <2>3, <3>3, <3>4 DEF FwProgress
  <2>4. CASE FwEof(c)
    BY <2>4 DEF FwEof, Close, AfterClose
  <2>5. ASSUME NEW b \in BOOLEAN, FwResult(c, b) PROVE ReplyInv'
    <3>1. PICK l \in Line : FwEnds(c, l) /\ (l.kind = "DONE" => c \in flashed')
      BY <2>5, LinesAre DEF FwResult
    <3>2. /\ UNCHANGED <<pc, serving, unread, cpc, cmd, exit, acted, crashed>>
          /\ fwpc[c] # "none" /\ flashed \subseteq flashed'
      BY <2>5 DEF FwResult
    <3>3. \A d \in Clients :
            /\ HasKind(inbox'[d], "DONE") => HasKind(inbox[d], "DONE") \/ (d = c /\ l.kind = "DONE")
            /\ inbox[d] # <<>> => inbox'[d] # <<>>
      BY <3>1, WriteFacts DEF FwEnds
    <3>4. /\ cmd[c] = "FIRMWARE" /\ conn'[c] # "none"
          /\ \A d \in Clients : d # c => conn'[d] = conn[d] /\ fwpc'[d] = fwpc[d]
      BY <3>1, <3>2 DEF FwEnds, Close, AfterClose
    <3> QED  BY <3>1, <3>2, <3>3, <3>4
  <2> QED  BY <1>4, <2>1, <2>2, <2>3, <2>4, <2>5 DEF FwStep
<1>5. ASSUME NEW c \in Clients, ClientStep(c) PROVE ReplyInv'
  <2>1. CASE Connect(c)
    BY <2>1, SMTT(20) DEF Connect, Exits
  <2>2. CASE Send(c)
    BY <2>2 DEF Send, Exits
  <2>3. CASE SendPiece(c)
    BY <2>3 DEF SendPiece
  <2>4. CASE ReadProgress(c)
    <3>1. /\ UNCHANGED <<pc, serving, fwpc, conn, unread, cpc, cmd, exit, acted, flashed, crashed>>
          /\ cmd[c] = "FIRMWARE" /\ inbox[c] # <<>> /\ inbox' = [inbox EXCEPT ![c] = Tail(inbox[c])]
      BY <2>4 DEF ReadProgress
    <3>2. HasKind(Tail(inbox[c]), "DONE") => HasKind(inbox[c], "DONE")
      <4>1. inbox[c] \in Seq(Line) /\ Head(inbox[c]) \in Line
        BY <3>1
      <4> QED  BY <3>1, <4>1, LineFacts
    <3> QED  BY <3>1, <3>2
  <2>5. CASE ReadEnd(c)
    <3>1. /\ UNCHANGED <<pc, serving, fwpc, conn, unread, inbox, cmd, acted, flashed, crashed>>
          /\ cpc[c] = "waiting" /\ conn[c] # "open" /\ cpc' = [cpc EXCEPT ![c] = "done"]
          /\ exit' = [exit EXCEPT ![c] = IF conn[c] = "reset" THEN 1 ELSE ExitCode(c)]
      BY <2>5 DEF ReadEnd, Exits
    <3>2. conn[c] # "none"
      BY <3>1
    <3>3. exit'[c] = 0 => conn[c] = "closed" /\ ExitCode(c) = 0
      BY <3>1, <3>2
    <3>4. ExitCode(c) = 0 /\ cmd[c] = "FIRMWARE" => HasKind(inbox[c], "DONE")
      BY DEF ExitCode, HasKind
    <3>5. \A d \in Clients : d # c => exit'[d] = exit[d] /\ cpc'[d] = cpc[d]
      BY <3>1
    <3>6. cpc'[c] = "done"
      BY <3>1
    <3> QED  BY <3>1, <3>3, <3>4, <3>5, <3>6
  <2>6. CASE GiveUp(c)
    BY <2>6 DEF GiveUp, Exits
  <2> QED  BY <1>5, <2>1, <2>2, <2>3, <2>4, <2>5, <2>6 DEF ClientStep
<1>6. CASE UNCHANGED vars
  BY <1>6 DEF vars
<1> HIDE DEF ReplyInv
<1> QED  BY <1>1, <1>2, <1>3, <1>4, <1>5, <1>6 DEF Next

\* Exit code 0 means that the command did what it says, unless the daemon crashed.
THEOREM ExitZeroCorrect == Spec => []ExitZeroMeans
<1>1. Init => ReplyInv
  BY DEF Init, ReplyInv, HasKind, Finished
<1>2. CtlType /\ ReplyInv => ExitZeroMeans
  BY DEF CtlType, ReplyInv, Finished, Carried, Commands, ExitZeroMeans
<1> QED  BY <1>1, <1>2, TypeInvariant, ReplyStep, PTL DEF Spec

-----------------------------------------------------------------------------
(* The age of a status.                                                    *)

\* The snapshot of a turn is made after every client it can serve has connected.
LEMMA VersionStep == CtlType /\ VersionInv /\ [Next]_vars => VersionInv'
<1> SUFFICES ASSUME CtlType, VersionInv, [Next]_vars PROVE VersionInv'
  OBVIOUS
<1> USE DEF VersionInv, CtlType, daemonVars, kernelVars, clientVars, ghosts
<1>1. CASE Publish
  BY <1>1 DEF Publish
<1>2. CASE LoopStep
  <2>1. CASE TurnBegins
    BY <2>1 DEF TurnBegins, SnapOf
  <2>2. CASE LoopEnds
    BY <2>2 DEF LoopEnds, Ends, AfterClose, NoPieces
  <2>3. CASE AcceptNobody
    BY <2>3 DEF AcceptNobody
  <2>4. CASE Accept
    <3> HIDE DEF CtlType, VersionInv
    <3>1. /\ backlog \in Seq(Clients) /\ backlog # <<>>
          /\ backlog' = Tail(backlog) /\ serving' = Head(backlog)
      BY <2>4 DEF Accept, CtlType
    <3>2. /\ serving' = backlog[1] /\ serving' \in Clients /\ 1 \in DOMAIN backlog
          /\ \A i \in DOMAIN backlog' : backlog'[i] = backlog[i + 1] /\ i + 1 \in DOMAIN backlog
      BY <3>1
    <3>3. \A i \in DOMAIN backlog' : cpc[backlog'[i]] # "idle"
      BY <3>2 DEF VersionInv
    <3>4. floor[serving'] <= snap /\ cpc[serving'] # "idle"
      BY <2>4, <3>2 DEF Accept, VersionInv
    <3>5. /\ pc' = "read"
          /\ UNCHANGED <<version, snap, floor, cpc, fwpc, cmd, inbox>>
      BY <2>4 DEF Accept, clientVars, ghosts
    <3> QED  BY <3>3, <3>4, <3>5 DEF VersionInv
  <2>5. CASE ReadNothing
    BY <2>5 DEF ReadNothing, Close, AfterClose, NoPieces
  <2>6. CASE ServeStatus
    BY <2>6 DEF ServeStatus, Write
  <2>7. CASE Acknowledge
    BY <2>7 DEF Acknowledge, Write, Plain
  <2>8. CASE Act
    BY <2>8 DEF Act
  <2>9. CASE ServeFirmware
    BY <2>9 DEF ServeFirmware
  <2>10. CASE ReadPiece
    BY <2>10 DEF ReadPiece
  <2> QED  BY <1>2, <2>1, <2>2, <2>3, <2>4, <2>5, <2>6, <2>7, <2>8, <2>9, <2>10 DEF LoopStep
<1>3. CASE Crash
  BY <1>3 DEF Crash, Ends, AfterClose, NoPieces
<1>4. ASSUME NEW c \in Clients, FwStep(c) PROVE VersionInv'
  <2>1. CASE FwRefuse(c)
    BY <2>1 DEF FwRefuse, FwEnds, Write, Close, AfterClose, Plain
  <2>2. CASE FwAccept(c)
    BY <2>2 DEF FwAccept, Write, Plain
  <2>3. CASE FwProgress(c)
    BY <2>3 DEF FwProgress, Write, Plain
  <2>4. CASE FwEof(c)
    BY <2>4 DEF FwEof, Close, AfterClose
  <2>5. ASSUME NEW b \in BOOLEAN, FwResult(c, b) PROVE VersionInv'
    BY <2>5 DEF FwResult, FwEnds, Write, Close, AfterClose, Plain
  <2> QED  BY <1>4, <2>1, <2>2, <2>3, <2>4, <2>5 DEF FwStep
<1>5. ASSUME NEW c \in Clients, ClientStep(c) PROVE VersionInv'
  <2>1. CASE Connect(c)
    <3>1. UNCHANGED <<pc, version, snap, serving, fwpc, inbox, cmd>> /\ cpc[c] = "idle"
      BY <2>1 DEF Connect
    <3>2. CASE Dead
      BY <2>1, <3>1, <3>2 DEF Connect, Exits
    <3>3. CASE ~Dead
      <4>1. /\ cpc' = [cpc EXCEPT ![c] = "connected"] /\ backlog' = Append(backlog, c)
            /\ floor' = [floor EXCEPT ![c] = IF pc = "accept" THEN snap ELSE version]
        BY <2>1, <3>3 DEF Connect
      <4>2. /\ \A d \in Clients : d # c => floor'[d] = floor[d] /\ cpc'[d] = cpc[d]
            /\ floor'[c] = IF pc = "accept" THEN snap ELSE version
            /\ cpc'[c] = "connected"
        BY <4>1
      <4>3. \A i \in DOMAIN backlog' : cpc'[backlog'[i]] # "idle"
        <5>1. \A d \in Clients : cpc[d] # "idle" \/ d = c => cpc'[d] # "idle"
          BY <4>2
        <5>2. \A i \in DOMAIN backlog' : 
                 backlog'[i] = c \/ (i \in DOMAIN backlog /\ backlog'[i] = backlog[i] /\ backlog[i] \in Clients)
          BY <4>1
        <5> QED  BY <5>1, <5>2, ZenonT(30)
      <4>4. pc = "read" => serving \in Clients /\ serving # c
        BY <3>1
      <4>5. snap <= version /\ snap <= snap /\ version <= version
        OBVIOUS
      <4>6. /\ \A d \in Clients : floor'[d] <= version
            /\ pc = "accept" => \A d \in Clients : floor'[d] <= snap
        <5>1. floor'[c] <= version /\ (pc = "accept" => floor'[c] <= snap)
          BY <4>2, <4>5, Zenon
        <5> QED  BY <4>2, <5>1, Zenon
      <4>7. \A d \in Clients : (cmd[d] = "STATUS" /\ inbox[d] # <<>>) => d # c
        BY <3>1
      <4> QED  BY <3>1, <4>2, <4>3, <4>4, <4>6, <4>7
    <3> QED  BY <3>2, <3>3
  <2>2. CASE Send(c)
    BY <2>2, SMTT(30) DEF Send, Exits
  <2>3. CASE SendPiece(c)
    BY <2>3 DEF SendPiece
  <2>4. CASE ReadProgress(c)
    BY <2>4 DEF ReadProgress
  <2>5. CASE ReadEnd(c)
    BY <2>5 DEF ReadEnd, Exits, ExitCode
  <2>6. CASE GiveUp(c)
    BY <2>6 DEF GiveUp, Exits
  <2> QED  BY <1>5, <2>1, <2>2, <2>3, <2>4, <2>5, <2>6 DEF ClientStep
<1>6. CASE UNCHANGED vars
  BY <1>6 DEF vars
<1> HIDE DEF VersionInv
<1> QED  BY <1>1, <1>2, <1>3, <1>4, <1>5, <1>6 DEF Next

\* A status describes the daemon as it was when its client connected, or later, unless
\* accept was being called just then.
THEOREM StatusCorrect == Spec => []StatusNotOlder
<1>1. Init => VersionInv
  BY DEF Init, VersionInv
<1>2. VersionInv => StatusNotOlder
  BY DEF VersionInv, StatusNotOlder
<1> QED  BY <1>1, <1>2, TypeInvariant, VersionStep, PTL DEF Spec

-----------------------------------------------------------------------------
(* The ubus connection.                                                    *)

UbusCell == [msg : Nat, at : Nat]

\* Cells before those in rxBuf.
Taken == Len(Messages(Len(got)))

\* What recv has returned, what is in rxBuf and what the kernel still has make up what
\* ubusd has written.
RxInv ==
  /\ got \in Seq(Nat) /\ Len(got) <= Len(Sizes) /\ got = [i \in 1 .. Len(got) |-> i]
  /\ rxBuf \in Seq(UbusCell) /\ up \in Seq(UbusCell) /\ written \in 0 .. Len(Stream)
  /\ Taken + Len(rxBuf) + Len(up) = written
  /\ \A i \in 1 .. Len(rxBuf) : rxBuf[i] = Stream[Taken + i]
  /\ \A i \in 1 .. Len(up) : up[i] = Stream[Taken + Len(rxBuf) + i]
  /\ upc = "eof" => closed /\ up = <<>>
  /\ sawClose => closed /\ up = <<>> /\ Short

\* What ubusd has read, what the kernel still has and what send has yet to write make
\* up the replies begun.
TxInv ==
  /\ begun \in 0 .. MaxReplies /\ replies \in Nat
  /\ upc \in {"fill", "frame", "eof"} => begun < MaxReplies
  /\ begun = replies + (IF upc = "send" THEN 1 ELSE 0)
  /\ upc # "send" => out = <<>>
  /\ heard \in Seq(UbusCell) /\ down \in Seq(UbusCell) /\ out \in Seq(UbusCell)
  /\ Len(out) <= ReplyLen
  /\ heard \o down \o out = Replies(begun)

UbusInv ==
  /\ upc \in {"idle", "fill", "frame", "eof", "send"} /\ failed \in BOOLEAN
  /\ ~failed => RxInv /\ TxInv
-----------------------------------------------------------------------------
(* Messages end to end.                                                    *)

\* A set of naturals that is not empty has a least element.
LEMMA LeastNatural ==
  ASSUME NEW T \in SUBSET Nat, T # {}
  PROVE  \E x \in T : \A y \in T : x <= y
<1>1. PICK x \in T : \A y \in T : ~(<<y, x>> \in OpToRel(<, Nat))
  BY NatLessThanWellFounded, WFMin, Zenon
<1>2. ASSUME NEW y \in T PROVE x <= y
  <2>1. ~(y < x)
    BY <1>1 DEF OpToRel
  <2> QED  BY <2>1
<1> QED  BY <1>2

\* One more sequence at the end.
JoinNext(s, f, n) == IF n = 0 THEN <<>> ELSE f[n - 1] \o s[n]

\* The recursion has a solution.
LEMMA JoinedExists ==
  ASSUME NEW S, NEW s \in Seq(S)
  PROVE  \E f : f = [n \in 0 .. Len(s) |-> JoinNext(s, f, n)]
<1> DEFINE N == Len(s)
           Good(f, m) == /\ f = [n \in 0 .. N |-> f[n]]
                         /\ \A n \in 0 .. N : n < m => f[n] = JoinNext(s, f, n)
           T == {m \in Nat : m <= N + 1 /\ ~\E f : Good(f, m)}
<1>0. N \in Nat
  OBVIOUS
<1> HIDE DEF N
<1>1. T = {}
  <2> SUFFICES ASSUME T # {} PROVE FALSE
    OBVIOUS
  <2>1. PICK m \in T : \A n \in T : m <= n
    BY LeastNatural
  <2>2. m # 0
    <3> DEFINE f == [n \in 0 .. N |-> <<>>]
    <3>1. f = [n \in 0 .. N |-> f[n]] /\ \A n \in 0 .. N : ~(n < 0)
      OBVIOUS
    <3>2. Good(f, 0)
      BY <3>1
    <3> QED  BY <3>2
  <2>3. m - 1 \in Nat /\ m - 1 <= N + 1 /\ ~(m <= m - 1)
    BY <1>0, <2>2
  <2>4. m - 1 \notin T
    BY <2>1, <2>3
  <2>5. PICK f : Good(f, m - 1)
    BY <2>3, <2>4
  <2> DEFINE g == [n \in 0 .. N |-> IF n = m - 1 THEN JoinNext(s, f, n) ELSE f[n]]
  <2>6. ASSUME NEW n \in 0 .. N, n < m PROVE g[n] = JoinNext(s, g, n)
    <3>1. JoinNext(s, f, n) = JoinNext(s, g, n)
      <4>1. CASE n = 0
        BY <4>1 DEF JoinNext
      <4>2. CASE n # 0
        <5>1. n - 1 \in 0 .. N /\ n - 1 # m - 1
          BY <1>0, <2>3, <2>6, <4>2
        <5>2. g[n - 1] = f[n - 1]
          BY <5>1
        <5> QED  BY <4>2, <5>2 DEF JoinNext
      <4> QED  BY <4>1, <4>2
    <3>2. g[n] = JoinNext(s, f, n)
      <4>1. CASE n = m - 1
        BY <4>1
      <4>2. CASE n # m - 1
        <5>1. n < m - 1
          BY <2>3, <2>6, <4>2
        <5> QED  BY <2>5, <4>2, <5>1
      <4> QED  BY <4>1, <4>2
    <3> QED  BY <3>1, <3>2
  <2>7. g = [n \in 0 .. N |-> g[n]]
    OBVIOUS
  <2> HIDE DEF g
  <2>8. Good(g, m)
    BY <2>6, <2>7
  <2> QED  BY <2>8
<1>2. N + 1 \in Nat /\ N + 1 <= N + 1 /\ \A n \in 0 .. N : n < N + 1
  BY <1>0
<1>3. PICK f : Good(f, N + 1)
  BY <1>1, <1>2
<1>4. \A n \in 0 .. N : f[n] = JoinNext(s, f, n)
  BY <1>2, <1>3
<1>5. f = [n \in 0 .. N |-> JoinNext(s, f, n)]
  BY <1>3, <1>4
<1> QED  BY <1>5 DEF N

\* So Joined is such a function.
LEMMA JoinedDefined ==
  ASSUME NEW S, NEW s \in Seq(S)
  PROVE  \A n \in 0 .. Len(s) : Joined(s)[n] = IF n = 0 THEN <<>> ELSE Joined(s)[n - 1] \o s[n]
<1>1. Joined(s) = CHOOSE f : f = [n \in 0 .. Len(s) |-> JoinNext(s, f, n)]
  BY Zenon DEF Joined, JoinNext
<1>2. Joined(s) = [n \in 0 .. Len(s) |-> JoinNext(s, Joined(s), n)]
  BY <1>1, JoinedExists, Zenon
<1> QED  BY <1>2, Zenon DEF JoinNext

\* Joining sequences of cells makes sequences of cells, each of which begins with the
\* one before it.
LEMMA JoinedFacts ==
  ASSUME NEW C, NEW s \in Seq(Seq(C)), NEW n \in 0 .. Len(s)
  PROVE  /\ Joined(s)[n] \in Seq(C)
         /\ \A m \in 0 .. n : /\ Len(Joined(s)[m]) <= Len(Joined(s)[n])
                             /\ \A i \in 1 .. Len(Joined(s)[m]) : Joined(s)[n][i] = Joined(s)[m][i]
<1> DEFINE N == Len(s)
           J(m) == Joined(s)[m]
           Starts(a, b) == Len(a) <= Len(b) /\ \A i \in 1 .. Len(a) : b[i] = a[i]
           Good(k) == J(k) \in Seq(C) /\ \A m \in 0 .. k : Starts(J(m), J(k))
           T == {k \in Nat : k <= N /\ ~Good(k)}
<1>0. N \in Nat
  OBVIOUS
<1>1. J(0) = <<>> /\ \A k \in 1 .. N : J(k) = J(k - 1) \o s[k]
  <2>1. \A k \in 0 .. N : J(k) = IF k = 0 THEN <<>> ELSE J(k - 1) \o s[k]
    BY JoinedDefined
  <2> HIDE DEF J, N
  <2>2. 0 \in 0 .. N /\ \A k \in 1 .. N : k \in 0 .. N /\ k # 0
    BY <1>0
  <2>3. J(0) = <<>>
    BY <2>1, <2>2
  <2>4. \A k \in 1 .. N : J(k) = J(k - 1) \o s[k]
    BY <2>1, <2>2
  <2> QED  BY <2>3, <2>4
<1>2. \A k \in 1 .. N : s[k] \in Seq(C)
  OBVIOUS
<1>3. ASSUME NEW a \in Seq(C), NEW b \in Seq(C)
      PROVE  a \o b \in Seq(C) /\ Starts(a, a \o b) /\ Starts(a \o b, a \o b)
  OBVIOUS
<1>4. ASSUME NEW a \in Seq(C), NEW b \in Seq(C), NEW c \in Seq(C), Starts(a, b), Starts(b, c)
      PROVE  Starts(a, c)
  BY <1>4
<1> DEFINE e == <<>>
<1>e. e \in Seq(C) /\ Starts(e, e)
  OBVIOUS
<1> HIDE DEF N, J, Starts
<1>5. T = {}
  <2> SUFFICES ASSUME T # {} PROVE FALSE
    OBVIOUS
  <2>1. PICK k \in T : \A j \in T : k <= j
    BY LeastNatural
  <2>2. CASE k = 0
    <3>1. J(0) \in Seq(C) /\ Starts(J(0), J(0))
      BY <1>1, <1>e
    <3>2. \A m \in 0 .. 0 : m = 0
      OBVIOUS
    <3> QED  BY <2>2, <3>1, <3>2
  <2>3. CASE k # 0
    <3>1. k - 1 \in Nat /\ k - 1 <= N /\ k \in 1 .. N /\ ~(k <= k - 1)
      BY <1>0, <2>3
    <3>2. Good(k - 1)
      BY <2>1, <3>1
    <3>3. J(k) \in Seq(C) /\ Starts(J(k - 1), J(k)) /\ Starts(J(k), J(k))
      BY <1>1, <1>2, <1>3, <3>1, <3>2
    <3>4. ASSUME NEW m \in 0 .. k PROVE Starts(J(m), J(k))
      <4>1. CASE m = k
        BY <3>3, <4>1
      <4>2. CASE m # k
        <5>1. m \in 0 .. k - 1 /\ m \in Nat /\ m <= N /\ ~(k <= m)
          BY <1>0, <3>1, <4>2
        <5>2. Good(m)
          BY <2>1, <5>1
        <5>3. J(m) \in Seq(C) /\ Starts(J(m), J(k - 1))
          BY <3>2, <5>1, <5>2
        <5> QED  BY <1>4, <3>2, <3>3, <5>3
      <4> QED  BY <4>1, <4>2
    <3> QED  BY <3>3, <3>4
  <2> QED  BY <2>2, <2>3
<1>6. n \in Nat /\ n <= N
  BY DEF N
<1>7. Good(n)
  BY <1>5, <1>6
<1> QED  BY <1>7 DEF J, Starts

\* The cells of a message.
LEMMA CellsFacts ==
  ASSUME NEW k \in Nat, NEW n \in Nat
  PROVE  /\ Cells(k, n) \in Seq(UbusCell) /\ Len(Cells(k, n)) = n
         /\ \A i \in 1 .. n : Cells(k, n)[i] = [msg |-> k, at |-> i]
<1>1. \A i \in 1 .. n : [msg |-> k, at |-> i] \in UbusCell
  BY DEF UbusCell
<1>2. Cells(k, n) \in [1 .. n -> UbusCell]
  BY <1>1 DEF Cells
<1>3. \A i \in 1 .. n : Cells(k, n)[i] = [msg |-> k, at |-> i]
  BY DEF Cells
<1> QED  BY <1>2, <1>3

\* The stream: where each message begins, and the cells there.
LEMMA MessageFacts ==
  ASSUME NEW n \in 0 .. Len(Sizes)
  PROVE  /\ Messages(0) = <<>> /\ Stream \in Seq(UbusCell) /\ Messages(n) \in Seq(UbusCell)
         /\ Len(Messages(n)) <= Len(Stream)
         /\ \A i \in 1 .. Len(Messages(n)) : Stream[i] = Messages(n)[i]
         /\ n < Len(Sizes) =>
              /\ Len(Messages(n + 1)) = Len(Messages(n)) + Sizes[n + 1]
              /\ Len(Messages(n + 1)) <= Len(Stream)
              /\ \A i \in 1 .. Sizes[n + 1] :
                   Stream[Len(Messages(n)) + i] = [msg |-> n + 1, at |-> i]
<1> DEFINE s == [k \in 1 .. Len(Sizes) |-> Cells(k, Sizes[k])]
           N == Len(Sizes)
<1>0. N \in Nat /\ \A k \in 1 .. N : Sizes[k] \in Nat \ {0}
  BY UbusAssumption
<1>1. \A k \in 1 .. N : Cells(k, Sizes[k]) \in Seq(UbusCell)
  <2> TAKE k \in 1 .. N
  <2>1. k \in Nat /\ Sizes[k] \in Nat
    BY <1>0
  <2> QED  BY <2>1, CellsFacts
<1>2. s \in Seq(Seq(UbusCell)) /\ Len(s) = N
  BY <1>0, <1>1
<1>3. \A k \in 1 .. N : s[k] = Cells(k, Sizes[k])
  OBVIOUS
<1>4. \A k \in 0 .. N : Messages(k) = Joined(s)[k]
  BY DEF Messages
<1> HIDE DEF s
<1>5. \A k \in 0 .. N : Joined(s)[k] = IF k = 0 THEN <<>> ELSE Joined(s)[k - 1] \o s[k]
  BY <1>2, JoinedDefined
<1>6. Messages(0) = <<>>
  BY <1>0, <1>4, <1>5
<1>7. \A k \in 0 .. N : /\ Messages(k) \in Seq(UbusCell) /\ Len(Messages(k)) <= Len(Stream)
                        /\ \A i \in 1 .. Len(Messages(k)) : Stream[i] = Messages(k)[i]
  <2> TAKE k \in 0 .. N
  <2>1. N \in 0 .. N /\ Stream = Joined(s)[N]
    BY <1>0, <1>4 DEF Stream
  <2>2. k \in 0 .. Len(s) /\ N \in 0 .. Len(s)
    BY <1>2, <2>1
  <2>3. Joined(s)[k] \in Seq(UbusCell)
    BY <1>2, <2>2, JoinedFacts
  <2>4. /\ Len(Joined(s)[k]) <= Len(Joined(s)[N])
        /\ \A i \in 1 .. Len(Joined(s)[k]) : Joined(s)[N][i] = Joined(s)[k][i]
    BY <1>2, <2>2, JoinedFacts
  <2> QED  BY <1>4, <2>1, <2>3, <2>4
<1>8. Stream \in Seq(UbusCell)
  BY <1>0, <1>7 DEF Stream
<1>9. ASSUME n < N
      PROVE  /\ Len(Messages(n + 1)) = Len(Messages(n)) + Sizes[n + 1]
             /\ Len(Messages(n + 1)) <= Len(Stream)
             /\ \A i \in 1 .. Sizes[n + 1] :
                  Stream[Len(Messages(n)) + i] = [msg |-> n + 1, at |-> i]
  <2> DEFINE c == Cells(n + 1, Sizes[n + 1])
             a == Messages(n)
             b == Messages(n + 1)
  <2>1. n + 1 \in 0 .. N /\ n + 1 \in 1 .. N /\ (n + 1) - 1 = n /\ n + 1 # 0
    BY <1>0, <1>9
  <2>2. b = a \o c
    <3>1. Joined(s)[n + 1] = Joined(s)[n] \o s[n + 1]
      BY <1>5, <2>1
    <3> QED  BY <1>3, <1>4, <2>1, <3>1
  <2>3. Sizes[n + 1] \in Nat /\ c \in Seq(UbusCell) /\ a \in Seq(UbusCell) /\ b \in Seq(UbusCell)
    BY <1>0, <1>1, <1>7, <2>1
  <2>4. Len(c) = Sizes[n + 1] /\ \A i \in 1 .. Sizes[n + 1] : c[i] = [msg |-> n + 1, at |-> i]
    <3>1. n + 1 \in Nat
      BY <2>1
    <3> QED  BY <2>3, <3>1, CellsFacts, Zenon
  <2>5. Len(b) <= Len(Stream) /\ \A i \in 1 .. Len(b) : Stream[i] = b[i]
    BY <1>7, <2>1
  <2> HIDE DEF a, b, c
  <2>6. Len(b) = Len(a) + Len(c) /\ \A i \in 1 .. Len(c) : b[Len(a) + i] = c[i] /\ Len(a) + i \in 1 .. Len(b)
    BY <2>2, <2>3
  <2>7. \A i \in 1 .. Sizes[n + 1] : Stream[Len(a) + i] = [msg |-> n + 1, at |-> i]
    BY <2>4, <2>5, <2>6
  <2> QED  BY <2>4, <2>5, <2>6, <2>7 DEF a, b
<1> QED  BY <1>6, <1>7, <1>8, <1>9

\* The replies.
LEMMA ReplyFacts ==
  /\ Replies(0) = <<>>
  /\ \A n \in 0 .. MaxReplies : Replies(n) \in Seq(UbusCell)
  /\ \A n \in 0 .. MaxReplies : n < MaxReplies =>
       /\ Cells(n + 1, ReplyLen) \in Seq(UbusCell) /\ Len(Cells(n + 1, ReplyLen)) = ReplyLen
       /\ Replies(n + 1) = Replies(n) \o Cells(n + 1, ReplyLen)
<1> DEFINE s == [k \in 1 .. MaxReplies |-> Cells(k, ReplyLen)]
           N == MaxReplies
<1>0. N \in Nat /\ ReplyLen \in Nat
  BY UbusAssumption
<1>1. \A k \in 1 .. N : Cells(k, ReplyLen) \in Seq(UbusCell) /\ Len(Cells(k, ReplyLen)) = ReplyLen
  BY <1>0, CellsFacts
<1>2. s \in Seq(Seq(UbusCell)) /\ Len(s) = N
  BY <1>0, <1>1
<1>3. \A k \in 1 .. N : s[k] = Cells(k, ReplyLen)
  OBVIOUS
<1>4. \A k \in 0 .. N : Replies(k) = Joined(s)[k]
  BY DEF Replies
<1> HIDE DEF s
<1>5. \A k \in 0 .. N : Joined(s)[k] = IF k = 0 THEN <<>> ELSE Joined(s)[k - 1] \o s[k]
  BY <1>2, JoinedDefined
<1>6. Replies(0) = <<>>
  BY <1>0, <1>4, <1>5
<1>7. \A k \in 0 .. N : Replies(k) \in Seq(UbusCell)
  <2> TAKE k \in 0 .. N
  <2>1. Joined(s)[k] \in Seq(UbusCell)
    BY <1>2, JoinedFacts
  <2> QED  BY <1>4, <2>1
<1>8. ASSUME NEW n \in 0 .. N, n < N
      PROVE  /\ Cells(n + 1, ReplyLen) \in Seq(UbusCell) /\ Len(Cells(n + 1, ReplyLen)) = ReplyLen
             /\ Replies(n + 1) = Replies(n) \o Cells(n + 1, ReplyLen)
  <2>1. n + 1 \in 0 .. N /\ n + 1 \in 1 .. N /\ (n + 1) - 1 = n /\ n + 1 # 0
    BY <1>0, <1>8
  <2>2. Joined(s)[n + 1] = Joined(s)[n] \o s[n + 1]
    BY <1>5, <2>1
  <2> QED  BY <1>1, <1>3, <1>4, <2>1, <2>2
<1> QED  BY <1>6, <1>7, <1>8

-----------------------------------------------------------------------------
(* Reading.                                                                *)

\* A read moves cells from the front of one sequence to the end of another.
LEMMA MoveFacts ==
  ASSUME NEW C, NEW a \in Seq(C), NEW b \in Seq(C), NEW n \in 1 .. Len(b)
  PROVE  /\ a \o SubSeq(b, 1, n) \in Seq(C) /\ SubSeq(b, n + 1, Len(b)) \in Seq(C)
         /\ Len(a \o SubSeq(b, 1, n)) = Len(a) + n
         /\ Len(SubSeq(b, n + 1, Len(b))) = Len(b) - n
         /\ \A i \in 1 .. Len(a) : (a \o SubSeq(b, 1, n))[i] = a[i]
         /\ \A i \in 1 .. n : (a \o SubSeq(b, 1, n))[Len(a) + i] = b[i]
         /\ \A i \in 1 .. Len(b) - n : SubSeq(b, n + 1, Len(b))[i] = b[n + i]
<1>1. Len(a) \in Nat /\ Len(b) \in Nat /\ n \in Nat
  OBVIOUS
<1>2. SubSeq(b, 1, n) \in Seq(C) /\ Len(SubSeq(b, 1, n)) = n /\ \A i \in 1 .. n : SubSeq(b, 1, n)[i] = b[i]
  OBVIOUS
<1>3. SubSeq(b, n + 1, Len(b)) \in Seq(C) /\ Len(SubSeq(b, n + 1, Len(b))) = Len(b) - n
  OBVIOUS
<1>4. \A i \in 1 .. Len(b) - n : SubSeq(b, n + 1, Len(b))[i] = b[n + i]
  BY <1>1
<1> DEFINE c == SubSeq(b, 1, n)
<1> HIDE DEF c
<1>5. c \in Seq(C) /\ Len(c) = n /\ \A i \in 1 .. n : c[i] = b[i]
  BY <1>2 DEF c
<1>6. /\ a \o c \in Seq(C) /\ Len(a \o c) = Len(a) + n
      /\ \A i \in 1 .. Len(a) : (a \o c)[i] = a[i]
      /\ \A i \in 1 .. n : (a \o c)[Len(a) + i] = b[i]
  <2>1. c \in Seq(C) /\ Len(c) = n
    BY <1>5
  <2>2. /\ a \o c \in Seq(C) /\ Len(a \o c) = Len(a) + Len(c)
        /\ \A i \in 1 .. Len(a) : (a \o c)[i] = a[i]
    BY <2>1
  <2>3. \A i \in 1 .. Len(c) : (a \o c)[Len(a) + i] = c[i]
    BY <2>1
  <2> QED  BY <1>5, <2>1, <2>2, <2>3
<1> QED  BY <1>3, <1>4, <1>6 DEF c

\* A step that leaves the incoming stream alone.
LEMMA RxSame ==
  ASSUME RxInv, UNCHANGED <<up, written, rxBuf, got>>, closed => closed',
         upc' = "eof" => closed' /\ up' = <<>>, sawClose' => sawClose
  PROVE  RxInv'
<1>1. Taken' = Taken /\ Short' = Short
  BY DEF Taken, Short, Whole, OutOfStep
<1> QED  BY <1>1 DEF RxInv

\* A step that leaves the outgoing stream alone.
LEMMA TxSame ==
  ASSUME TxInv, UNCHANGED txVars, upc # "send", upc' # "send",
         upc' \in {"fill", "frame", "eof"} => begun < MaxReplies
  PROVE  TxInv'
<1>1. UNCHANGED <<begun, replies, out, heard, down>>
  BY DEF txVars
<1> QED  BY <1>1 DEF TxInv

\* ubusd writes one more cell.
LEMMA RxPeerWrites ==
  ASSUME RxInv, PeerWrites
  PROVE  RxInv'
<1>1. /\ ~closed /\ written < Len(Stream) /\ written' = written + 1
      /\ up' = Append(up, Stream[written + 1]) /\ UNCHANGED <<closed, rxBuf, got, sawClose, upc>>
  BY DEF PeerWrites
<1>2. /\ rxBuf \in Seq(UbusCell) /\ up \in Seq(UbusCell) /\ written \in Nat
      /\ Len(rxBuf) \in Nat /\ Len(up) \in Nat
  BY DEF RxInv
<1>3. Stream \in Seq(UbusCell) /\ Len(Stream) \in Nat /\ Taken \in Nat
  <2>1. Len(got) \in 0 .. Len(Sizes)
    BY UbusAssumption DEF RxInv
  <2>2. Stream \in Seq(UbusCell) /\ Messages(Len(got)) \in Seq(UbusCell)
    BY <2>1, MessageFacts
  <2> QED  BY <2>2 DEF Taken
<1> DEFINE c == Stream[written + 1]
<1>4. c \in UbusCell
  <2>1. written + 1 \in 1 .. Len(Stream)
    BY <1>1, <1>2, <1>3
  <2> QED  BY <1>3, <2>1
<1>5. up' = Append(up, c)
  BY <1>1
<1> HIDE DEF c
<1>6. /\ up' \in Seq(UbusCell) /\ Len(up') = Len(up) + 1 /\ up'[Len(up) + 1] = c
      /\ \A i \in 1 .. Len(up) : up'[i] = up[i]
  BY <1>2, <1>4, <1>5
<1>7. Taken' = Taken
  BY <1>1 DEF Taken
<1>8. Taken + Len(rxBuf) + Len(up) = written
  BY DEF RxInv
<1>9. \A i \in 1 .. Len(up') : up'[i] = Stream[Taken + Len(rxBuf) + i]
  <2> TAKE i \in 1 .. Len(up')
  <2>1. CASE i = Len(up) + 1
    <3>1. Taken + Len(rxBuf) + i = written + 1
      BY <1>2, <1>3, <1>8, <2>1
    <3> QED  BY <1>6, <2>1, <3>1 DEF c
  <2>2. CASE i # Len(up) + 1
    <3>1. i \in 1 .. Len(up)
      BY <1>2, <1>6, <2>2
    <3> QED  BY <1>6, <3>1 DEF RxInv
  <2> QED  BY <2>1, <2>2
<1>10. written' \in 0 .. Len(Stream) /\ Taken' + Len(rxBuf') + Len(up') = written'
  BY <1>1, <1>2, <1>3, <1>6, <1>7, <1>8
<1>11. ~sawClose' /\ upc' # "eof"
  BY <1>1 DEF RxInv
<1> QED  BY <1>1, <1>6, <1>7, <1>9, <1>10, <1>11 DEF RxInv

\* fill_rx moves cells from the socket to rxBuf.
LEMMA RxFill ==
  ASSUME RxInv, FillRx, ~failed'
  PROVE  RxInv'
<1>1. PICK n \in 1 .. Chunk :
        /\ n <= Len(up) /\ up' = SubSeq(up, n + 1, Len(up)) /\ rxBuf' = rxBuf \o SubSeq(up, 1, n)
        /\ upc' = upc
  BY DEF FillRx, Fail
<1>2. up # <<>> /\ upc = "fill" /\ UNCHANGED <<written, closed, got, sawClose>>
  BY DEF FillRx
<1>3. /\ rxBuf \in Seq(UbusCell) /\ up \in Seq(UbusCell) /\ written \in Nat
      /\ Len(rxBuf) \in Nat /\ Len(up) \in Nat
  BY DEF RxInv
<1>4. Taken \in Nat /\ Taken' = Taken
  <2>1. Len(got) \in 0 .. Len(Sizes)
    BY UbusAssumption DEF RxInv
  <2>2. Messages(Len(got)) \in Seq(UbusCell)
    BY <2>1, MessageFacts
  <2> QED  BY <1>2, <2>2 DEF Taken
<1>5. n \in Nat /\ n \in 1 .. Len(up)
  BY <1>1, <1>3, UbusAssumption
<1>6. /\ rxBuf' \in Seq(UbusCell) /\ up' \in Seq(UbusCell)
      /\ Len(rxBuf') = Len(rxBuf) + n /\ Len(up') = Len(up) - n
      /\ \A i \in 1 .. Len(rxBuf) : rxBuf'[i] = rxBuf[i]
      /\ \A i \in 1 .. n : rxBuf'[Len(rxBuf) + i] = up[i]
      /\ \A i \in 1 .. Len(up) - n : up'[i] = up[n + i]
  BY <1>1, <1>3, <1>5, MoveFacts, SMTT(30)
<1>7. \A i \in 1 .. Len(rxBuf') : rxBuf'[i] = Stream[Taken + i]
  <2> TAKE i \in 1 .. Len(rxBuf')
  <2>1. CASE i <= Len(rxBuf)
    <3>1. i \in 1 .. Len(rxBuf)
      BY <1>3, <2>1
    <3> QED  BY <1>6, <3>1 DEF RxInv
  <2>2. CASE ~(i <= Len(rxBuf))
    <3> DEFINE j == i - Len(rxBuf)
    <3>1. j \in 1 .. n /\ j \in 1 .. Len(up) /\ i = Len(rxBuf) + j
          /\ Taken + Len(rxBuf) + j = Taken + i
      BY <1>3, <1>4, <1>5, <1>6, <2>2
    <3> HIDE DEF j
    <3>2. rxBuf'[i] = up[j]
      BY <1>6, <3>1
    <3>3. up[j] = Stream[Taken + Len(rxBuf) + j]
      BY <3>1 DEF RxInv
    <3> QED  BY <3>1, <3>2, <3>3
  <2> QED  BY <2>1, <2>2
<1>8. \A i \in 1 .. Len(up') : up'[i] = Stream[Taken + Len(rxBuf') + i]
  <2> TAKE i \in 1 .. Len(up')
  <2>1. n + i \in 1 .. Len(up) /\ Taken + Len(rxBuf) + (n + i) = Taken + Len(rxBuf') + i
        /\ i \in 1 .. Len(up) - n
    BY <1>3, <1>4, <1>5, <1>6
  <2>2. up'[i] = up[n + i]
    BY <1>6, <2>1
  <2>3. up[n + i] = Stream[Taken + Len(rxBuf) + (n + i)]
    BY <2>1 DEF RxInv
  <2> QED  BY <2>1, <2>2, <2>3
<1>9. Taken' + Len(rxBuf') + Len(up') = written'
  <2>1. Taken + Len(rxBuf) + Len(up) = written
    BY DEF RxInv
  <2> QED  BY <1>2, <1>3, <1>4, <1>5, <1>6, <2>1
<1>10. ~sawClose' /\ upc' # "eof"
  BY <1>1, <1>2 DEF RxInv
<1> QED  BY <1>2, <1>4, <1>6, <1>7, <1>8, <1>9, <1>10 DEF RxInv

\* The buffer begins with the next message.
LEMMA RxHead ==
  ASSUME RxInv, rxBuf # <<>>
  PROVE  /\ Len(got) \in Nat /\ Len(got) + 1 <= Len(Sizes) /\ Len(got) + 1 \in 1 .. Len(Sizes)
         /\ Sizes[Len(got) + 1] \in Nat \ {0}
         /\ rxBuf[1] = [msg |-> Len(got) + 1, at |-> 1]
         /\ Len(Messages(Len(got) + 1)) = Taken + Sizes[Len(got) + 1]
<1> DEFINE g == Len(got)
<1>1. g \in 0 .. Len(Sizes) /\ Len(Sizes) \in Nat /\ rxBuf \in Seq(UbusCell)
  BY UbusAssumption DEF RxInv
<1>2. Len(rxBuf) \in Nat /\ Len(rxBuf) >= 1
  BY <1>1
<1>3. /\ Messages(g) \in Seq(UbusCell) /\ Stream \in Seq(UbusCell)
      /\ g < Len(Sizes) =>
           /\ Len(Messages(g + 1)) = Len(Messages(g)) + Sizes[g + 1]
           /\ \A i \in 1 .. Sizes[g + 1] : Stream[Len(Messages(g)) + i] = [msg |-> g + 1, at |-> i]
  BY <1>1, MessageFacts
<1>4. Taken = Len(Messages(g)) /\ Taken \in Nat
  BY <1>3 DEF Taken
<1>5. Taken < Len(Stream)
  BY <1>2, <1>4 DEF RxInv
<1>6. g # Len(Sizes)
  BY <1>4, <1>5 DEF Stream
<1>7. g < Len(Sizes) /\ g + 1 \in 1 .. Len(Sizes) /\ g \in Nat
  BY <1>1, <1>6
<1>8. Sizes[g + 1] \in Nat \ {0}
  BY <1>7, UbusAssumption
<1>9. rxBuf[1] = Stream[Taken + 1]
  BY <1>2 DEF RxInv
<1>10. 1 \in 1 .. Sizes[g + 1]
  BY <1>8
<1>11. Stream[Taken + 1] = [msg |-> g + 1, at |-> 1]
  BY <1>3, <1>4, <1>7, <1>10
<1> QED  BY <1>3, <1>4, <1>7, <1>8, <1>9, <1>11

\* Codec::read_frame takes the next message, all of it and no more.
LEMMA RxRecv ==
  ASSUME RxInv, RecvFrame, ~failed'
  PROVE  RxInv'
<1> DEFINE g == Len(got)
           z == Sizes[g + 1]
<1>1. rxBuf # <<>> /\ Whole
  BY DEF RecvFrame, Whole
<1>2. /\ g \in Nat /\ g + 1 <= Len(Sizes) /\ z \in Nat \ {0}
      /\ rxBuf[1] = [msg |-> g + 1, at |-> 1]
      /\ Len(Messages(g + 1)) = Taken + z /\ g + 1 \in 1 .. Len(Sizes)
  BY <1>1, RxHead
<1>3. rxBuf[1].msg = g + 1
  BY <1>2
<1>4. /\ got' = Append(got, g + 1) /\ rxBuf' = SubSeq(rxBuf, z + 1, Len(rxBuf))
      /\ upc' = "send" /\ UNCHANGED <<up, written, closed, sawClose>> /\ Len(rxBuf) >= z
  BY <1>1, <1>3 DEF RecvFrame, BeginSend, Whole
<1>5. /\ rxBuf \in Seq(UbusCell) /\ got \in Seq(Nat) /\ Len(rxBuf) \in Nat /\ Len(up) \in Nat
      /\ up \in Seq(UbusCell)
  BY DEF RxInv
<1>6. got' \in Seq(Nat) /\ Len(got') = g + 1 /\ got' = [i \in 1 .. Len(got') |-> i]
  <2>1. got' \in Seq(Nat) /\ Len(got') = g + 1 /\ got'[g + 1] = g + 1
        /\ \A i \in 1 .. g : got'[i] = got[i]
    BY <1>2, <1>4, <1>5
  <2>2. \A i \in 1 .. g : got[i] = i
    BY DEF RxInv
  <2>3. \A i \in 1 .. g + 1 : got'[i] = i
    BY <1>2, <2>1, <2>2
  <2> QED  BY <2>1, <2>3
<1>7. Taken' = Taken + z /\ Taken \in Nat
  <2>1. g \in 0 .. Len(Sizes)
    BY <1>2, UbusAssumption
  <2>2. Messages(g) \in Seq(UbusCell)
    BY <2>1, MessageFacts
  <2> QED  BY <1>2, <1>6, <2>2 DEF Taken
<1> HIDE DEF g, z
<1>8. /\ rxBuf' \in Seq(UbusCell) /\ Len(rxBuf') = Len(rxBuf) - z
      /\ \A i \in 1 .. Len(rxBuf) - z : rxBuf'[i] = rxBuf[z + i]
  BY <1>2, <1>4, <1>5
<1>9. \A i \in 1 .. Len(rxBuf') : rxBuf'[i] = Stream[Taken' + i]
  <2> TAKE i \in 1 .. Len(rxBuf')
  <2>1. z + i \in 1 .. Len(rxBuf) /\ Taken + (z + i) = Taken' + i /\ i \in 1 .. Len(rxBuf) - z
    BY <1>2, <1>4, <1>5, <1>7, <1>8
  <2>2. rxBuf[z + i] = Stream[Taken + (z + i)]
    BY <2>1 DEF RxInv
  <2> QED  BY <1>8, <2>1, <2>2
<1>10. \A i \in 1 .. Len(up') : up'[i] = Stream[Taken' + Len(rxBuf') + i]
  <2> TAKE i \in 1 .. Len(up')
  <2>1. i \in 1 .. Len(up) /\ Taken + Len(rxBuf) + i = Taken' + Len(rxBuf') + i /\ up' = up
    <3>1. up' = up /\ Taken' = Taken + z /\ Len(rxBuf') = Len(rxBuf) - z
      BY <1>4, <1>7, <1>8
    <3>2. Taken \in Nat /\ z \in Nat /\ Len(rxBuf) \in Nat /\ i \in 1 .. Len(up)
      BY <1>2, <1>5, <1>7, <3>1
    <3>3. Taken + Len(rxBuf) + i = (Taken + z) + (Len(rxBuf) - z) + i
      BY <3>2
    <3> QED  BY <3>1, <3>2, <3>3
  <2>2. up[i] = Stream[Taken + Len(rxBuf) + i]
    BY <2>1 DEF RxInv
  <2> QED  BY <2>1, <2>2
<1>11. Taken' + Len(rxBuf') + Len(up') = written' /\ written' \in 0 .. Len(Stream)
  <2>1. Taken + Len(rxBuf) + Len(up) = written /\ written \in 0 .. Len(Stream)
    BY DEF RxInv
  <2>2. written' = written /\ up' = up
    BY <1>4
  <2>3. (Taken + z) + (Len(rxBuf) - z) + Len(up) = Taken + Len(rxBuf) + Len(up)
    BY <1>2, <1>5, <1>7
  <2> QED  BY <1>7, <1>8, <2>1, <2>2, <2>3
<1>12. ~sawClose'
  BY <1>1, <1>4 DEF RxInv, Short
<1> QED  BY <1>2, <1>4, <1>5, <1>6, <1>8, <1>9, <1>10, <1>11, <1>12 DEF RxInv

-----------------------------------------------------------------------------
(* Writing.                                                                *)

\* Cells that move from the front of the second of two sequences to the end of the
\* first leave the two, end to end, as they were.
LEMMA MoveJoins ==
  ASSUME NEW C, NEW a \in Seq(C), NEW b \in Seq(C), NEW n \in 1 .. Len(b)
  PROVE  (a \o SubSeq(b, 1, n)) \o SubSeq(b, n + 1, Len(b)) = a \o b
<1> DEFINE c == a \o SubSeq(b, 1, n)
           d == SubSeq(b, n + 1, Len(b))
<1>1. Len(a) \in Nat /\ Len(b) \in Nat /\ n \in Nat /\ n <= Len(b)
  OBVIOUS
<1>2. /\ c \in Seq(C) /\ d \in Seq(C) /\ Len(c) = Len(a) + n /\ Len(d) = Len(b) - n
      /\ \A i \in 1 .. Len(a) : c[i] = a[i]
      /\ \A i \in 1 .. n : c[Len(a) + i] = b[i]
      /\ \A i \in 1 .. Len(b) - n : d[i] = b[n + i]
  BY MoveFacts, SMTT(30)
<1> HIDE DEF c, d
<1>t. c \in Seq(C) /\ d \in Seq(C)
  BY <1>2
<1>3. c \o d \in Seq(C) /\ a \o b \in Seq(C) /\ Len(c \o d) = Len(a) + Len(b) /\ Len(a \o b) = Len(a) + Len(b)
  <2>1. Len(c \o d) = Len(c) + Len(d) /\ c \o d \in Seq(C)
    BY <1>t
  <2>2. Len(c) + Len(d) = Len(a) + Len(b)
    BY <1>1, <1>2
  <2> QED  BY <2>1, <2>2
<1>4. ASSUME NEW i \in 1 .. Len(a) + Len(b) PROVE (c \o d)[i] = (a \o b)[i]
  <2>1. CASE i <= Len(a)
    BY <1>1, <1>2, <2>1
  <2>2. CASE ~(i <= Len(a)) /\ i <= Len(a) + n
    <3> DEFINE j == i - Len(a)
    <3>1. j \in 1 .. n /\ i = Len(a) + j /\ j \in 1 .. Len(b) /\ i \in 1 .. Len(c)
      BY <1>1, <1>2, <2>2
    <3> HIDE DEF j
    <3>2. (c \o d)[i] = c[i]
      BY <1>2, <3>1
    <3>3. (a \o b)[i] = b[j]
      BY <3>1
    <3> QED  BY <1>2, <3>1, <3>2, <3>3
  <2>3. CASE ~(i <= Len(a) + n)
    <3> DEFINE j == i - (Len(a) + n)
    <3>1. j \in 1 .. Len(d) /\ i = Len(c) + j /\ n + j \in 1 .. Len(b) /\ i = Len(a) + (n + j)
          /\ j \in 1 .. Len(b) - n
      BY <1>1, <1>2, <2>3
    <3> HIDE DEF j
    <3>2. (c \o d)[i] = d[j]
      BY <1>t, <3>1
    <3>3. (a \o b)[i] = b[n + j]
      <4> DEFINE k == n + j
      <4>1. k \in 1 .. Len(b) /\ i = Len(a) + k
        BY <3>1
      <4> HIDE DEF k
      <4>2. (a \o b)[i] = b[k]
        BY <4>1
      <4> QED  BY <4>2 DEF k
    <3> QED  BY <1>2, <3>1, <3>2, <3>3
  <2> QED  BY <2>1, <2>2, <2>3
<1>5. c \o d = a \o b
  <2> DEFINE x == c \o d
             y == a \o b
             m == Len(a) + Len(b)
  <2>1. x \in Seq(C) /\ y \in Seq(C) /\ Len(x) = m /\ Len(y) = m
    BY <1>3
  <2>2. \A i \in 1 .. m : x[i] = y[i]
    BY <1>4
  <2> HIDE DEF x, y, m
  <2>3. x = y
    BY <2>1, <2>2
  <2> QED  BY <2>3 DEF x, y
<1> QED  BY <1>5 DEF c, d

\* ubusd reads a cell.
LEMMA TxPeerReads ==
  ASSUME TxInv, PeerReads
  PROVE  TxInv'
<1>1. /\ down # <<>> /\ heard' = Append(heard, Head(down)) /\ down' = Tail(down)
      /\ UNCHANGED <<upc, out, replies, begun>>
  BY DEF PeerReads
<1>2. heard \in Seq(UbusCell) /\ down \in Seq(UbusCell) /\ out \in Seq(UbusCell)
  BY DEF TxInv
<1>3. heard' \in Seq(UbusCell) /\ down' \in Seq(UbusCell) /\ heard' \o down' = heard \o down
  BY <1>1, <1>2
<1>4. heard' \o down' \o out' = heard \o down \o out
  BY <1>1, <1>3
<1> QED  BY <1>1, <1>3, <1>4 DEF TxInv

\* poll_one begins a reply.
LEMMA TxBegin ==
  ASSUME TxInv, upc \in {"frame", "eof"}, BeginSend
  PROVE  TxInv'
<1>1. /\ upc' = "send" /\ begun' = begun + 1 /\ out' = Cells(begun + 1, ReplyLen)
      /\ UNCHANGED <<replies, down, heard>>
  BY DEF BeginSend
<1>2. /\ begun \in 0 .. MaxReplies /\ begun < MaxReplies /\ MaxReplies \in Nat /\ ReplyLen \in Nat
      /\ out = <<>> /\ replies \in Nat /\ begun = replies
      /\ heard \in Seq(UbusCell) /\ down \in Seq(UbusCell)
      /\ heard \o down \o out = Replies(begun)
  BY UbusAssumption DEF TxInv
<1> DEFINE r == Cells(begun + 1, ReplyLen)
<1>3. /\ r \in Seq(UbusCell) /\ Len(r) = ReplyLen /\ Replies(begun + 1) = Replies(begun) \o r
  BY <1>2, ReplyFacts
<1>4. out' = r
  BY <1>1
<1> HIDE DEF r
<1>5. heard \o down \in Seq(UbusCell) /\ (heard \o down) \o <<>> = heard \o down
  BY <1>2
<1>6. heard' \o down' \o out' = Replies(begun')
  BY <1>1, <1>2, <1>3, <1>4, <1>5
<1>7. begun' \in 0 .. MaxReplies /\ begun' = replies' + 1
  BY <1>1, <1>2
<1> QED  BY <1>1, <1>2, <1>3, <1>4, <1>6, <1>7 DEF TxInv

\* A write takes the front of what is left of the reply.
LEMMA TxSend ==
  ASSUME TxInv, SendSome
  PROVE  TxInv'
<1>1. PICK n \in 1 .. Len(out) : down' = down \o SubSeq(out, 1, n) /\ out' = SubSeq(out, n + 1, Len(out))
  BY DEF SendSome, Rest
<1>2. upc = "send" /\ UNCHANGED <<upc, replies, begun, heard>>
  BY DEF SendSome
<1>3. /\ heard \in Seq(UbusCell) /\ down \in Seq(UbusCell) /\ out \in Seq(UbusCell)
      /\ heard \o down \o out = Replies(begun) /\ Len(out) <= ReplyLen
  BY DEF TxInv
<1>4. down' \in Seq(UbusCell) /\ out' \in Seq(UbusCell) /\ Len(out') = Len(out) - n
  <2> DEFINE d == down
             o == out
  <2>1. d \in Seq(UbusCell) /\ o \in Seq(UbusCell) /\ n \in 1 .. Len(o)
    BY <1>1, <1>3
  <2> HIDE DEF d, o
  <2>2. /\ d \o SubSeq(o, 1, n) \in Seq(UbusCell) /\ SubSeq(o, n + 1, Len(o)) \in Seq(UbusCell)
        /\ Len(SubSeq(o, n + 1, Len(o))) = Len(o) - n
    BY <2>1, MoveFacts
  <2> QED  BY <1>1, <2>2 DEF d, o
<1>5. down' \o out' = down \o out
  BY <1>1, <1>3, MoveJoins
<1>t. /\ heard \in Seq(UbusCell) /\ down \in Seq(UbusCell) /\ out \in Seq(UbusCell)
      /\ down' \in Seq(UbusCell) /\ out' \in Seq(UbusCell)
  BY <1>3, <1>4
<1>6. (heard \o down') \o out' = heard \o (down' \o out')
  BY <1>t, SMTT(30)
<1>7. (heard \o down) \o out = heard \o (down \o out)
  BY <1>t
<1>8. heard' \o down' \o out' = Replies(begun)
  BY <1>2, <1>3, <1>5, <1>6, <1>7
<1>9. Len(out') <= ReplyLen
  BY <1>3, <1>4, UbusAssumption, SMTT(20)
<1> QED  BY <1>2, <1>3, <1>4, <1>8, <1>9 DEF TxInv

\* send returns.
LEMMA TxDone ==
  ASSUME TxInv, SendDone
  PROVE  TxInv'
<1>1. /\ upc = "send" /\ out = <<>> /\ replies' = replies + 1 /\ upc' = "idle"
      /\ UNCHANGED <<out, begun, down, heard>>
  BY DEF SendDone
<1> QED  BY <1>1 DEF TxInv

-----------------------------------------------------------------------------
(* The invariant.                                                          *)

\* At start nothing is on its way.
LEMMA UbusStart ==
  ASSUME UbusInit
  PROVE  UbusInv
<1>1. /\ up = <<>> /\ written = 0 /\ closed = FALSE /\ rxBuf = <<>> /\ got = <<>>
      /\ failed = FALSE /\ sawClose = FALSE /\ upc = "idle"
      /\ out = <<>> /\ replies = 0 /\ begun = 0 /\ down = <<>> /\ heard = <<>>
  BY DEF UbusInit
<1>2. 0 \in 0 .. Len(Sizes)
  BY UbusAssumption
<1>3. Messages(0) = <<>> /\ Stream \in Seq(UbusCell)
  BY <1>2, MessageFacts
<1>4. Len(got) = 0 /\ Taken = 0
  BY <1>1, <1>3 DEF Taken
<1>5. RxInv
  <2>1. got \in Seq(Nat) /\ got = [i \in 1 .. Len(got) |-> i]
    BY <1>1
  <2>2. rxBuf \in Seq(UbusCell) /\ up \in Seq(UbusCell) /\ Len(rxBuf) = 0 /\ Len(up) = 0
    BY <1>1
  <2>3. written \in 0 .. Len(Stream) /\ Taken + Len(rxBuf) + Len(up) = written /\ Len(got) <= Len(Sizes)
    BY <1>1, <1>2, <1>3, <1>4, <2>2, UbusAssumption
  <2> QED  BY <1>1, <2>1, <2>2, <2>3 DEF RxInv
<1>6. TxInv
  <2>1. heard \o down \o out = Replies(begun)
    BY <1>1, ReplyFacts
  <2>2. 0 \in 0 .. MaxReplies /\ Len(out) <= ReplyLen /\ out \in Seq(UbusCell)
    BY <1>1, UbusAssumption
  <2> QED  BY <1>1, <2>1, <2>2 DEF TxInv
<1> QED  BY <1>1, <1>5, <1>6 DEF UbusInv

\* An error is not taken back.
LEMMA UbusTypes ==
  ASSUME UbusInv, [UbusNext]_ubusVars
  PROVE  /\ upc' \in {"idle", "fill", "frame", "eof", "send"} /\ failed' \in BOOLEAN
         /\ failed => failed'
<1>1. upc \in {"idle", "fill", "frame", "eof", "send"} /\ failed \in BOOLEAN
  BY DEF UbusInv
<1>2. CASE UNCHANGED ubusVars
  BY <1>1, <1>2 DEF ubusVars
<1>3. CASE Poll \/ PeerWrites \/ PeerReads \/ PeerCloses
  BY <1>1, <1>3 DEF Poll, PeerWrites, PeerReads, PeerCloses
<1>4. CASE FillRx \/ FillRxEnds \/ FillRxFails
  BY <1>1, <1>4 DEF FillRx, FillRxEnds, FillRxFails, Fail
<1>5. CASE RecvFrame \/ RecvNothing \/ RecvOutOfStep
  BY <1>1, <1>5 DEF RecvFrame, RecvNothing, RecvOutOfStep, Fail, BeginSend
<1>6. CASE SendSome \/ SendBlocks \/ SendBroken \/ SendDone
  BY <1>1, <1>6 DEF SendSome, SendBlocks, SendBroken, SendDone, Fail
<1> QED  BY <1>2, <1>3, <1>4, <1>5, <1>6 DEF UbusNext, PollStep

\* A step of ubusd.
LEMMA PeerStep ==
  ASSUME RxInv, TxInv, PeerWrites \/ PeerReads \/ PeerCloses
  PROVE  RxInv' /\ TxInv'
<1>1. CASE PeerWrites
  <2>1. RxInv'
    BY <1>1, RxPeerWrites
  <2>2. UNCHANGED <<upc, begun, replies, out, heard, down>>
    BY <1>1 DEF PeerWrites, txVars
  <2> QED  BY <2>1, <2>2 DEF TxInv
<1>2. CASE PeerReads
  <2>1. UNCHANGED <<up, written, closed, rxBuf, got, sawClose, upc>>
    BY <1>2 DEF PeerReads, rxVars
  <2>2. upc' = "eof" => closed' /\ up' = <<>>
    BY <2>1 DEF RxInv
  <2>3. RxInv'
    BY <2>1, <2>2, RxSame
  <2> QED  BY <1>2, <2>3, TxPeerReads
<1>3. CASE PeerCloses
  <2>1. UNCHANGED <<up, written, rxBuf, got, sawClose, upc>> /\ closed' = TRUE
    BY <1>3 DEF PeerCloses
  <2>2. upc' = "eof" => closed' /\ up' = <<>>
    BY <2>1 DEF RxInv
  <2>3. RxInv'
    BY <2>1, <2>2, RxSame
  <2>4. UNCHANGED <<begun, replies, out, heard, down>>
    BY <1>3 DEF PeerCloses, txVars
  <2> QED  BY <2>1, <2>3, <2>4 DEF TxInv
<1> QED  BY <1>1, <1>2, <1>3

\* A step of poll_one up to recv's return.
LEMMA RecvStep ==
  ASSUME RxInv, TxInv, ~failed',
         \/ Poll \/ FillRx \/ FillRxEnds \/ FillRxFails
         \/ RecvFrame \/ RecvNothing \/ RecvOutOfStep
  PROVE  RxInv' /\ TxInv'
<1>1. CASE Poll
  <2>1. /\ upc = "idle" /\ upc' = "fill" /\ begun < MaxReplies /\ UNCHANGED txVars
        /\ UNCHANGED <<up, written, closed, rxBuf, got, sawClose>>
    BY <1>1 DEF Poll, rxVars
  <2> QED  BY <2>1, RxSame, TxSame
<1>2. CASE FillRx
  <2>1. upc = "fill" /\ upc' = "fill" /\ UNCHANGED txVars
    BY <1>2 DEF FillRx, Fail
  <2>2. begun < MaxReplies
    BY <2>1 DEF TxInv
  <2> QED  BY <1>2, <2>1, <2>2, RxFill, TxSame
<1>3. CASE FillRxEnds
  <2>1. /\ upc = "fill" /\ up = <<>> /\ upc' = (IF closed THEN "eof" ELSE "frame") /\ UNCHANGED txVars
        /\ UNCHANGED <<up, written, closed, rxBuf, got, sawClose>>
    BY <1>3 DEF FillRxEnds, rxVars
  <2>2. begun < MaxReplies /\ upc' # "send" /\ (upc' = "eof" => closed' /\ up' = <<>>)
    BY <2>1 DEF TxInv
  <2> QED  BY <2>1, <2>2, RxSame, TxSame
<1>4. CASE RecvFrame
  <2>1. upc \in {"frame", "eof"} /\ BeginSend
    BY <1>4 DEF RecvFrame, Answers
  <2> QED  BY <1>4, <2>1, RxRecv, TxBegin
<1>5. CASE RecvNothing
  <2>1. /\ upc \in {"frame", "eof"} /\ upc' = "idle" /\ sawClose' = (sawClose \/ upc = "eof")
        /\ UNCHANGED <<up, written, closed, rxBuf, got>> /\ UNCHANGED txVars /\ Short
    BY <1>5 DEF RecvNothing, Answers
  <2>2. TxInv'
    BY <2>1, TxSame
  <2>3. Taken' = Taken /\ Short'
    BY <2>1 DEF Taken, Short, Whole, OutOfStep
  <2>4. sawClose' => closed' /\ up' = <<>>
    BY <2>1 DEF RxInv
  <2> QED  BY <2>1, <2>2, <2>3, <2>4 DEF RxInv
<1>6. CASE RecvOutOfStep
  <2>1. rxBuf # <<>> /\ rxBuf[1].at # 1
    BY <1>6 DEF RecvOutOfStep, OutOfStep
  <2>2. rxBuf[1] = [msg |-> Len(got) + 1, at |-> 1]
    BY <2>1, RxHead
  <2> QED  BY <2>1, <2>2
<1>7. CASE FillRxFails
  BY <1>7 DEF FillRxFails, Fail
<1> QED  BY <1>1, <1>2, <1>3, <1>4, <1>5, <1>6, <1>7

\* A step of send.
LEMMA SendStep ==
  ASSUME RxInv, TxInv, ~failed', SendSome \/ SendBlocks \/ SendBroken \/ SendDone
  PROVE  RxInv' /\ TxInv'
<1>1. UNCHANGED <<up, written, closed, rxBuf, got, sawClose>> /\ upc' \in {"send", "idle"}
  BY DEF SendSome, SendBlocks, SendBroken, SendDone, Fail, rxVars
<1>2. RxInv'
  BY <1>1, RxSame
<1>3. CASE SendSome
  BY <1>2, <1>3, TxSend
<1>4. CASE SendBlocks
  <2>1. UNCHANGED <<upc, begun, replies, out, heard, down>>
    BY <1>4 DEF SendBlocks, Fail
  <2> QED  BY <1>2, <2>1 DEF TxInv
<1>5. CASE SendBroken
  BY <1>5 DEF SendBroken, Fail
<1>6. CASE SendDone
  BY <1>2, <1>6, TxDone
<1> QED  BY <1>3, <1>4, <1>5, <1>6

\* Every step keeps the two streams together.
LEMMA UbusStep ==
  ASSUME UbusInv, [UbusNext]_ubusVars
  PROVE  UbusInv'
<1>1. /\ upc' \in {"idle", "fill", "frame", "eof", "send"} /\ failed' \in BOOLEAN
      /\ failed => failed'
  BY UbusTypes
<1>2. ASSUME ~failed' PROVE RxInv' /\ TxInv'
  <2>1. RxInv /\ TxInv
    BY <1>1, <1>2 DEF UbusInv
  <2>2. CASE UNCHANGED ubusVars
    <3>1. UNCHANGED <<up, written, closed, rxBuf, got, sawClose, upc, begun, replies, out, heard, down>>
      BY <2>2 DEF ubusVars, rxVars, txVars
    <3>2. upc' = "eof" => closed' /\ up' = <<>>
      BY <2>1, <3>1 DEF RxInv
    <3>3. RxInv'
      BY <2>1, <3>1, <3>2, RxSame
    <3> QED  BY <2>1, <3>1, <3>3 DEF TxInv
  <2>3. CASE PeerWrites \/ PeerReads \/ PeerCloses
    BY <2>1, <2>3, PeerStep
  <2>4. CASE \/ Poll \/ FillRx \/ FillRxEnds \/ FillRxFails
             \/ RecvFrame \/ RecvNothing \/ RecvOutOfStep
    BY <1>2, <2>1, <2>4, RecvStep
  <2>5. CASE SendSome \/ SendBlocks \/ SendBroken \/ SendDone
    BY <1>2, <2>1, <2>5, SendStep
  <2> QED  BY <2>2, <2>3, <2>4, <2>5 DEF UbusNext, PollStep
<1> QED  BY <1>1, <1>2 DEF UbusInv

\* A prefix, cell by cell.
LEMMA PrefixByCell ==
  ASSUME NEW C, NEW a \in Seq(C), NEW b \in Seq(C), Len(a) <= Len(b),
         \A i \in 1 .. Len(a) : a[i] = b[i]
  PROVE  IsPrefix(a, b)
<1>1. a = SubSeq(b, 1, Len(a))
  OBVIOUS
<1> QED  BY <1>1 DEF IsPrefix

\* Nothing is lost, repeated or reordered on the incoming stream.
LEMMA ReceivedFromInv ==
  ASSUME RxInv
  PROVE  ReceivedInOrder
<1> DEFINE a == Messages(Len(got))
           b == a \o rxBuf
<1>1. Len(got) \in 0 .. Len(Sizes) /\ rxBuf \in Seq(UbusCell)
  BY UbusAssumption DEF RxInv
<1>2. /\ Stream \in Seq(UbusCell) /\ a \in Seq(UbusCell)
      /\ \A i \in 1 .. Len(a) : Stream[i] = a[i]
  BY <1>1, MessageFacts
<1>3. Taken = Len(a)
  BY DEF Taken
<1>4. /\ Len(a) + Len(rxBuf) + Len(up) = written /\ written \in 0 .. Len(Stream) /\ Len(up) \in Nat
      /\ \A i \in 1 .. Len(rxBuf) : rxBuf[i] = Stream[Len(a) + i]
  BY <1>3 DEF RxInv
<1> HIDE DEF a
<1>5. b \in Seq(UbusCell) /\ Len(b) = Len(a) + Len(rxBuf)
  BY <1>1, <1>2
<1>6. Len(b) <= Len(Stream)
  BY <1>1, <1>2, <1>4, <1>5
<1>7. ASSUME NEW i \in 1 .. Len(b) PROVE b[i] = Stream[i]
  <2>1. CASE i <= Len(a)
    BY <1>1, <1>2, <1>5, <2>1
  <2>2. CASE ~(i <= Len(a))
    <3> DEFINE j == i - Len(a)
    <3>1. j \in 1 .. Len(rxBuf) /\ i = Len(a) + j
      BY <1>1, <1>2, <1>5, <2>2
    <3> HIDE DEF j
    <3>2. b[i] = rxBuf[j]
      BY <1>1, <1>2, <3>1
    <3> QED  BY <1>4, <3>1, <3>2
  <2> QED  BY <2>1, <2>2
<1> HIDE DEF b
<1>8. IsPrefix(b, Stream)
  BY <1>2, <1>5, <1>6, <1>7, PrefixByCell
<1> QED  BY <1>8 DEF RxInv, ReceivedInOrder, a, b

\* Nothing is lost, repeated or reordered on the outgoing stream.
LEMMA SentFromInv ==
  ASSUME TxInv
  PROVE  SentInOrder
<1> DEFINE a == Replies(replies)
           b == heard \o down
<1>1. /\ heard \in Seq(UbusCell) /\ down \in Seq(UbusCell) /\ out \in Seq(UbusCell)
      /\ b \o out = Replies(begun) /\ Len(out) <= ReplyLen
      /\ begun \in 0 .. MaxReplies /\ replies \in Nat /\ MaxReplies \in Nat /\ ReplyLen \in Nat
  BY UbusAssumption DEF TxInv
<1>2. b \in Seq(UbusCell)
  BY <1>1
<1>3. a \in Seq(UbusCell) /\ Len(a) <= Len(b) /\ \A i \in 1 .. Len(a) : a[i] = b[i]
  <2>1. CASE upc = "send"
    <3> DEFINE r == Cells(replies + 1, ReplyLen)
    <3>1. begun = replies + 1 /\ replies \in 0 .. MaxReplies /\ replies < MaxReplies
      BY <1>1, <2>1 DEF TxInv
    <3>2. a \in Seq(UbusCell) /\ r \in Seq(UbusCell) /\ Len(r) = ReplyLen /\ Replies(begun) = a \o r
      BY <3>1, ReplyFacts
    <3> HIDE DEF a, b, r
    <3>3. b \o out = a \o r
      BY <1>1, <3>2
    <3>4. Len(b) + Len(out) = Len(a) + Len(r)
      <4>1. out \in Seq(UbusCell) /\ a \in Seq(UbusCell) /\ r \in Seq(UbusCell)
        BY <1>1, <3>2
      <4>2. Len(b \o out) = Len(b) + Len(out) /\ Len(a \o r) = Len(a) + Len(r)
        BY <1>2, <4>1
      <4> QED  BY <3>3, <4>2
    <3>5. Len(a) <= Len(b)
      BY <1>1, <1>2, <3>2, <3>4
    <3>6. \A i \in 1 .. Len(a) : (a \o r)[i] = a[i] /\ (b \o out)[i] = b[i]
      BY <1>1, <1>2, <3>2, <3>5
    <3> QED  BY <3>2, <3>3, <3>5, <3>6
  <2>2. CASE upc # "send"
    <3>1. begun = replies /\ out = <<>>
      BY <1>1, <2>2 DEF TxInv
    <3>2. b \o out = b
      BY <1>2, <3>1
    <3>3. a = b
      BY <1>1, <3>1, <3>2
    <3> QED  BY <1>2, <3>3
  <2> QED  BY <2>1, <2>2
<1> HIDE DEF a, b
<1>4. IsPrefix(a, b)
  BY <1>2, <1>3, PrefixByCell
<1> QED  BY <1>1, <1>4 DEF SentInOrder, a, b

\* Before the first error, recv returns ubusd's messages and ubusd reads the replies,
\* whole, once each and in order, however reads and writes cut the streams up, for
\* every list of message sizes, read size, buffer cap and socket buffer.
THEOREM StreamsCorrect == UbusSpec => []StreamsInOrder
<1>1. UbusInit => UbusInv
  BY UbusStart
<1>2. UbusInv /\ [UbusNext]_ubusVars => UbusInv'
  BY UbusStep
<1>3. UbusInv => StreamsInOrder
  <2> SUFFICES ASSUME UbusInv PROVE StreamsInOrder
    OBVIOUS
  <2>1. CASE failed
    BY <2>1 DEF StreamsInOrder, ReceivedInOrder, SentInOrder
  <2>2. CASE ~failed
    BY <2>2, ReceivedFromInv, SentFromInv DEF StreamsInOrder, UbusInv
  <2> QED  BY <2>1, <2>2
<1> QED  BY <1>1, <1>2, <1>3, PTL DEF UbusSpec

-----------------------------------------------------------------------------
(* Netlink attributes.                                                     *)

\* A sequence, whatever its elements are.
ElementsOf(q) == {q[i] : i \in DOMAIN q}
IsSeq(q) == q \in Seq(ElementsOf(q))

\* One unfolding of the iterator.
FirstAttr(f, s) ==
  LET nested == s[2] >= Nested
  IN [type |-> s[2], data |-> IF nested THEN <<>> ELSE Payload(s),
      nest |-> IF nested THEN f[Payload(s)] ELSE <<>>]
VisitNext(f, s) == IF ~NlaOk(s) THEN <<>> ELSE <<FirstAttr(f, s)>> \o f[Skip(s)]

\* Whatever follows, the iterator goes through s, reads l there, and goes on behind it.
Reads(s, l) ==
  /\ s \in Message /\ IsSeq(l) /\ Len(s) % 2 = 0
  /\ \A t \in Message : s \o t \in Message => Visit[s \o t] = l \o Visit[t]

\* Where the cells of list i begin and end: the first list is the whole message, the
\* others are one per open nest, and each ends where the next nest's header begins.
Begin(i) == IF i = 1 THEN 0 ELSE nests[i - 1] + 2
End(i) == IF i = Len(lists) THEN Len(buf) ELSE nests[i]
Segment(i) == SubSeq(buf, Begin(i) + 1, End(i))

\* The iterator reads in every segment what has been put there.
NetlinkInv ==
  /\ buf \in Message /\ Len(buf) % 2 = 0
  /\ nests \in Seq(Nat) /\ IsSeq(lists) /\ Len(lists) = Len(nests) + 1
  /\ \A i \in 1 .. Len(lists) : Begin(i) <= End(i) /\ End(i) <= Len(buf) /\ Reads(Segment(i), lists[i])
  /\ \A i \in 1 .. Len(nests) : nests[i] + 2 <= Len(buf) /\ buf[nests[i] + 2] >= Nested
  /\ \A i, j \in 1 .. Len(nests) : i < j => nests[i] + 2 <= nests[j]

-----------------------------------------------------------------------------
(* Sequences.                                                              *)

\* A sequence of anything is one.
LEMMA SeqIsSeq ==
  ASSUME NEW C, NEW q \in Seq(C)
  PROVE  IsSeq(q) /\ Len(q) \in Nat
<1>1. Len(q) \in Nat /\ q \in [1 .. Len(q) -> C]
  OBVIOUS
<1>2. \A i \in 1 .. Len(q) : q[i] \in ElementsOf(q)
  BY <1>1 DEF ElementsOf
<1>3. q \in [1 .. Len(q) -> ElementsOf(q)]
  BY <1>1, <1>2
<1>4. q \in Seq(ElementsOf(q))
  BY <1>1, <1>3
<1> QED  BY <1>1, <1>4 DEF IsSeq

\* Two sequences end to end.
LEMMA ConcatFacts ==
  ASSUME NEW C, NEW a \in Seq(C), NEW b \in Seq(C)
  PROVE  /\ a \o b \in Seq(C) /\ Len(a \o b) = Len(a) + Len(b)
         /\ \A i \in 1 .. Len(a) : (a \o b)[i] = a[i]
         /\ \A i \in 1 .. Len(b) : (a \o b)[Len(a) + i] = b[i]
<1>1. Len(a) \in Nat /\ Len(b) \in Nat
  OBVIOUS
<1>2. \A i \in 1 .. Len(b) : (a \o b)[Len(a) + i] = b[i]
  BY <1>1
<1> QED  BY <1>2

\* Lists of attributes end to end.
LEMMA ListFacts ==
  ASSUME NEW l, NEW m, NEW x, IsSeq(l), IsSeq(m)
  PROVE  /\ IsSeq(<<x>> \o m) /\ IsSeq(Append(l, x)) /\ Append(l, x) \o m = l \o (<<x>> \o m)
         /\ l \o <<>> = l
<1> DEFINE C == ElementsOf(l) \cup ElementsOf(m) \cup {x}
<1>1. l \in Seq(C) /\ m \in Seq(C) /\ x \in C
  <2>1. ElementsOf(l) \subseteq C /\ ElementsOf(m) \subseteq C
    OBVIOUS
  <2> DEFINE A == ElementsOf(l)
             B == ElementsOf(m)
             D == C
  <2>2. l \in Seq(A) /\ m \in Seq(B) /\ A \subseteq D /\ B \subseteq D
    BY <2>1 DEF IsSeq
  <2> HIDE DEF A, B, D
  <2>3. l \in Seq(D) /\ m \in Seq(D)
    BY <2>2
  <2> QED  BY <2>3 DEF D
<1> HIDE DEF C
<1>2. <<x>> \in Seq(C) /\ Append(l, x) \in Seq(C) /\ Append(l, x) = l \o <<x>>
  BY <1>1
<1>3. <<x>> \o m \in Seq(C)
  BY <1>1, <1>2, ConcatFacts
<1>4. (l \o <<x>>) \o m = l \o (<<x>> \o m)
  <2> DEFINE y == <<x>>
  <2>1. l \in Seq(C) /\ y \in Seq(C) /\ m \in Seq(C)
    BY <1>1, <1>2
  <2> HIDE DEF y
  <2>2. (l \o y) \o m = l \o (y \o m)
    BY <2>1
  <2> QED  BY <2>2 DEF y
<1>5. l \o <<>> = l
  BY <1>1
<1> QED  BY <1>2, <1>3, <1>4, <1>5, SeqIsSeq

\* Equal cell by cell.
LEMMA SameCells ==
  ASSUME NEW C, NEW a \in Seq(C), NEW b \in Seq(C), Len(a) = Len(b),
         \A i \in 1 .. Len(a) : a[i] = b[i]
  PROVE  a = b
OBVIOUS

\* Two even numbers have an even sum.
LEMMA EvenSum ==
  ASSUME NEW m \in Nat, NEW k \in Nat, m % 2 = 0, k % 2 = 0
  PROVE  (m + k) % 2 = 0
OBVIOUS

\* A part of a message.
LEMMA PartFacts ==
  ASSUME NEW C, NEW b \in Seq(C), NEW m \in Nat, NEW n \in Nat, m <= n, n <= Len(b)
  PROVE  /\ SubSeq(b, m + 1, n) \in Seq(C) /\ Len(SubSeq(b, m + 1, n)) = n - m
         /\ \A i \in 1 .. n - m : SubSeq(b, m + 1, n)[i] = b[m + i]
<1>1. Len(b) \in Nat
  OBVIOUS
<1>2. SubSeq(b, m + 1, n) \in Seq(C) /\ Len(SubSeq(b, m + 1, n)) = n - m
  BY <1>1
<1>3. \A i \in 1 .. n - m : SubSeq(b, m + 1, n)[i] = b[m + i]
  BY <1>1
<1> QED  BY <1>2, <1>3

-----------------------------------------------------------------------------
(* The iterator.                                                           *)

\* What is behind an attribute, and what is in it, is shorter.
LEMMA IteratorMoves ==
  ASSUME NEW s \in Message, NlaOk(s)
  PROVE  /\ Payload(s) \in Message /\ Len(Payload(s)) < Len(s)
         /\ Skip(s) \in Message /\ Len(Skip(s)) < Len(s)
<1>1. /\ s \in Seq(Nat) /\ Len(s) \in Nat /\ Len(s) <= Room /\ Room \in Nat
      /\ Len(s) >= 2 /\ s[1] >= 2 /\ s[1] <= Len(s) /\ s[1] \in Nat
  BY NetlinkAssumption DEF Message, NlaOk, HdrLen
<1> DEFINE l == s[1]
<1>2. l \in Nat /\ l >= 2 /\ l <= Len(s)
  BY <1>1
<1> HIDE DEF l
<1>3. Payload(s) = SubSeq(s, 2 + 1, l)
  BY DEF Payload, HdrLen, l
<1>4. Payload(s) \in Seq(Nat) /\ Len(Payload(s)) = l - 2
  <2>1. 2 \in Nat /\ 2 <= l
    BY <1>2
  <2> QED  BY <1>1, <1>2, <1>3, <2>1, PartFacts, SMTT(30)
<1>5. Align(l) \in Nat /\ Align(l) >= 2
  BY <1>2 DEF Align
<1>6. Skip(s) \in Seq(Nat) /\ Len(Skip(s)) < Len(s)
  <2>1. Skip(s) = SubSeq(s, Align(l) + 1, Len(s))
    BY DEF Skip, l
  <2> DEFINE g == Align(l)
  <2>2. g \in Nat /\ g >= 2 /\ s \in Seq(Nat) /\ Len(s) \in Nat /\ Len(s) >= 2
    BY <1>1, <1>5
  <2> HIDE DEF g
  <2>3. SubSeq(s, g + 1, Len(s)) \in Seq(Nat) /\ Len(SubSeq(s, g + 1, Len(s))) < Len(s)
    BY <2>2
  <2> QED  BY <2>1, <2>3 DEF g
<1>7. Len(Payload(s)) \in Nat /\ Len(Skip(s)) \in Nat
  BY <1>4, <1>6
<1> QED  BY <1>1, <1>2, <1>4, <1>6, <1>7 DEF Message

\* The iterator looks at shorter messages only.
LEMMA NextDepends ==
  ASSUME NEW s \in Message, NEW f, NEW g, \A t \in Message : Len(t) < Len(s) => f[t] = g[t]
  PROVE  VisitNext(f, s) = VisitNext(g, s)
<1>1. CASE ~NlaOk(s)
  BY <1>1 DEF VisitNext
<1>2. CASE NlaOk(s)
  <2>1. f[Payload(s)] = g[Payload(s)] /\ f[Skip(s)] = g[Skip(s)]
    BY <1>2, IteratorMoves
  <2>2. FirstAttr(f, s) = FirstAttr(g, s)
    BY <2>1 DEF FirstAttr
  <2> QED  BY <2>1, <2>2 DEF VisitNext
<1> QED  BY <1>1, <1>2

\* The recursion has a solution.
LEMMA VisitExists == \E f : f = [s \in Message |-> VisitNext(f, s)]
<1> DEFINE Good(f, m) == /\ f = [s \in Message |-> f[s]]
                         /\ \A s \in Message : Len(s) < m => f[s] = VisitNext(f, s)
           T == {m \in Nat : m <= Room + 1 /\ ~\E f : Good(f, m)}
<1>0. Room \in Nat /\ \A s \in Message : Len(s) \in Nat /\ Len(s) <= Room
  BY NetlinkAssumption DEF Message
<1>1. T = {}
  <2> SUFFICES ASSUME T # {} PROVE FALSE
    OBVIOUS
  <2>1. PICK m \in T : \A n \in T : m <= n
    BY LeastNatural
  <2>2. m # 0
    <3> DEFINE f == [s \in Message |-> <<>>]
    <3>1. f = [s \in Message |-> f[s]] /\ \A s \in Message : ~(Len(s) < 0)
      BY <1>0
    <3>2. Good(f, 0)
      BY <3>1
    <3> QED  BY <3>2
  <2>3. m - 1 \in Nat /\ m - 1 <= Room + 1 /\ ~(m <= m - 1)
    BY <1>0, <2>2
  <2>4. m - 1 \notin T
    BY <2>1, <2>3
  <2>5. PICK f : Good(f, m - 1)
    BY <2>3, <2>4
  <2> DEFINE g == [s \in Message |-> IF Len(s) = m - 1 THEN VisitNext(f, s) ELSE f[s]]
  <2>6. ASSUME NEW s \in Message, Len(s) < m PROVE g[s] = VisitNext(g, s)
    <3>1. VisitNext(f, s) = VisitNext(g, s)
      <4>1. ASSUME NEW t \in Message, Len(t) < Len(s) PROVE f[t] = g[t]
        <5>1. Len(t) # m - 1
          BY <1>0, <2>3, <2>6, <4>1
        <5> QED  BY <5>1
      <4> HIDE DEF g
      <4> QED  BY <4>1, NextDepends
    <3>2. g[s] = VisitNext(f, s)
      <4>1. CASE Len(s) = m - 1
        BY <4>1
      <4>2. CASE Len(s) # m - 1
        <5>1. Len(s) < m - 1
          BY <1>0, <2>3, <2>6, <4>2
        <5> QED  BY <2>5, <4>2, <5>1
      <4> QED  BY <4>1, <4>2
    <3> QED  BY <3>1, <3>2
  <2>7. g = [s \in Message |-> g[s]]
    OBVIOUS
  <2> HIDE DEF g
  <2>8. Good(g, m)
    BY <2>6, <2>7
  <2> QED  BY <2>8
<1>2. Room + 1 \in Nat /\ Room + 1 <= Room + 1 /\ \A s \in Message : Len(s) < Room + 1
  BY <1>0
<1>3. PICK f : Good(f, Room + 1)
  BY <1>1, <1>2
<1>4. \A s \in Message : f[s] = VisitNext(f, s)
  BY <1>2, <1>3
<1>5. f = [s \in Message |-> VisitNext(f, s)]
  BY <1>3, <1>4
<1> QED  BY <1>5

\* So Visit is such a function.
LEMMA VisitDefined == \A s \in Message : Visit[s] = VisitNext(Visit, s)
<1>1. Visit = CHOOSE f : f = [s \in Message |-> VisitNext(f, s)]
  BY Zenon DEF Visit, VisitNext, FirstAttr
<1>2. Visit = [s \in Message |-> VisitNext(Visit, s)]
  BY <1>1, VisitExists, Zenon
<1> QED  BY <1>2, Zenon

\* The iterator visits a list.
LEMMA VisitIsSeq == \A s \in Message : IsSeq(Visit[s])
<1> DEFINE T == {m \in Nat : \E s \in Message : Len(s) = m /\ ~IsSeq(Visit[s])}
<1>0. \A s \in Message : Len(s) \in Nat
  BY DEF Message
<1>1. T = {}
  <2> SUFFICES ASSUME T # {} PROVE FALSE
    OBVIOUS
  <2>1. PICK m \in T : \A n \in T : m <= n
    BY LeastNatural
  <2>2. PICK s \in Message : Len(s) = m /\ ~IsSeq(Visit[s])
    OBVIOUS
  <2>3. Visit[s] = VisitNext(Visit, s)
    BY VisitDefined
  <2>4. CASE ~NlaOk(s)
    <3> DEFINE e == <<>>
    <3>1. e \in Seq(Nat)
      OBVIOUS
    <3>2. IsSeq(e)
      BY <3>1, SeqIsSeq
    <3> QED  BY <2>2, <2>3, <2>4, <3>2 DEF VisitNext
  <2>5. CASE NlaOk(s)
    <3>1. Skip(s) \in Message /\ Len(Skip(s)) < Len(s)
      BY <2>5, IteratorMoves
    <3>2. Len(Skip(s)) \in Nat /\ ~(m <= Len(Skip(s)))
      BY <1>0, <2>2, <3>1
    <3>3. IsSeq(Visit[Skip(s)])
      BY <2>1, <3>1, <3>2
    <3>4. IsSeq(<<FirstAttr(Visit, s)>> \o Visit[Skip(s)])
      BY <3>3, ListFacts
    <3> QED  BY <2>2, <2>3, <2>5, <3>4 DEF VisitNext
  <2> QED  BY <2>4, <2>5
<1> QED  BY <1>0, <1>1

\* The cells of an attribute, padding included, with payload d.
IsAttr(a, d) ==
  /\ a \in Seq(Nat) /\ d \in Seq(Nat) /\ Len(a) = Align(2 + Len(d)) /\ a[1] = 2 + Len(d)
  /\ \A i \in 1 .. Len(d) : a[2 + i] = d[i]

\* An attribute at the front of a message: d in it and t behind it.
LEMMA AttrAtFront ==
  ASSUME NEW a, NEW d, IsAttr(a, d), NEW t \in Seq(Nat), NEW s, s = a \o t
  PROVE  NlaOk(s) /\ s[2] = a[2] /\ Payload(s) = d /\ Skip(s) = t
<1> DEFINE n == Len(d)
           z == Len(a)
<1>0. a \in Seq(Nat) /\ d \in Seq(Nat)
  BY DEF IsAttr
<1>1. n \in Nat /\ z \in Nat /\ Len(t) \in Nat
  BY <1>0
<1>2. z = Align(2 + n) /\ z >= 2 + n /\ a[1] = 2 + n
  <2>1. z = Align(2 + n) /\ a[1] = 2 + n
    BY DEF IsAttr
  <2> HIDE DEF n, z
  <2>2. Align(2 + n) >= 2 + n
    BY <1>1 DEF Align
  <2> QED  BY <2>1, <2>2
<1>3. \A i \in 1 .. n : a[2 + i] = d[i]
  BY DEF IsAttr
<1>4. /\ s \in Seq(Nat) /\ Len(s) = z + Len(t) /\ \A i \in 1 .. z : s[i] = a[i]
      /\ \A i \in 1 .. Len(t) : s[z + i] = t[i]
  <2>1. /\ a \o t \in Seq(Nat) /\ Len(a \o t) = Len(a) + Len(t)
        /\ \A i \in 1 .. Len(a) : (a \o t)[i] = a[i]
        /\ \A i \in 1 .. Len(t) : (a \o t)[Len(a) + i] = t[i]
    BY <1>0, ConcatFacts
  <2> QED  BY <2>1, Zenon
<1> HIDE DEF n, z
<1>5. 1 \in 1 .. z /\ 2 \in 1 .. z
  BY <1>1, <1>2
<1>6. s[1] = 2 + n /\ s[2] = a[2]
  BY <1>2, <1>4, <1>5
<1>7. Len(s) \in Nat /\ Len(s) >= 2 + n
  BY <1>1, <1>2, <1>4
<1>8. NlaOk(s)
  BY <1>1, <1>6, <1>7 DEF NlaOk, HdrLen
<1>9. Payload(s) = d
  <2> DEFINE q == SubSeq(s, 2 + 1, 2 + n)
  <2>1. Payload(s) = q
    BY <1>6 DEF Payload, HdrLen
  <2> DEFINE e == 2 + n
             b == 2
  <2>2. e \in Nat /\ b \in Nat /\ b <= e /\ e <= Len(s) /\ e - b = n /\ q = SubSeq(s, b + 1, e)
    BY <1>1, <1>7
  <2> HIDE DEF e, q, b
  <2>3. /\ SubSeq(s, b + 1, e) \in Seq(Nat) /\ Len(SubSeq(s, b + 1, e)) = e - b
        /\ \A i \in 1 .. e - b : SubSeq(s, b + 1, e)[i] = s[b + i]
    <3>1. s \in Seq(Nat)
      BY <1>4
    <3> QED  BY <2>2, <3>1, PartFacts
  <2>4. q \in Seq(Nat) /\ Len(q) = n /\ \A i \in 1 .. n : q[i] = s[2 + i]
    BY <2>2, <2>3 DEF b
  <2>5. \A i \in 1 .. n : 2 + i \in 1 .. z
    BY <1>1, <1>2
  <2>6. \A i \in 1 .. n : q[i] = d[i]
    BY <1>3, <1>4, <2>4, <2>5
  <2>7. d \in Seq(Nat) /\ Len(d) = n
    BY <1>0 DEF n
  <2>8. q = d
    BY <2>4, <2>6, <2>7, SameCells
  <2> QED  BY <2>1, <2>8
<1>10. Skip(s) = t
  <2> DEFINE q == SubSeq(s, z + 1, Len(s))
             e == Len(s)
  <2>1. Skip(s) = q
    BY <1>2, <1>6 DEF Skip
  <2>2. e \in Nat /\ z <= e /\ e <= Len(s) /\ e - z = Len(t) /\ q = SubSeq(s, z + 1, e)
    BY <1>1, <1>4
  <2> HIDE DEF e, q
  <2>3. /\ SubSeq(s, z + 1, e) \in Seq(Nat) /\ Len(SubSeq(s, z + 1, e)) = e - z
        /\ \A i \in 1 .. e - z : SubSeq(s, z + 1, e)[i] = s[z + i]
    <3>1. s \in Seq(Nat) /\ z \in Nat /\ e \in Nat /\ z <= e /\ e <= Len(s)
      BY <1>1, <1>4, <2>2
    <3> QED  BY <3>1, PartFacts, ZenonT(40)
  <2>4. q \in Seq(Nat) /\ Len(q) = Len(t) /\ \A i \in 1 .. Len(t) : q[i] = t[i]
    BY <1>4, <2>2, <2>3
  <2>5. q = t
    BY <2>4, SameCells
  <2> QED  BY <2>1, <2>5
<1> QED  BY <1>6, <1>8, <1>9, <1>10

\* Nothing is read where there is nothing.
LEMMA ReadsNothing == /\ <<>> \in Message /\ Visit[<<>>] = <<>>
                      /\ Reads(<<>>, <<>>)
<1> DEFINE e == <<>>
<1>1. e \in Seq(Nat) /\ Len(e) = 0 /\ Len(e) % 2 = 0
  OBVIOUS
<1>2. e \in Message
  BY <1>1, NetlinkAssumption DEF Message
<1>3. Visit[e] = <<>>
  <2>1. ~NlaOk(e)
    BY <1>1 DEF NlaOk, HdrLen
  <2> QED  BY <1>2, <2>1, VisitDefined DEF VisitNext
<1>4. IsSeq(e)
  BY <1>1, SeqIsSeq
<1>5. ASSUME NEW t \in Message PROVE Visit[e \o t] = e \o Visit[t]
  <2>1. t \in Seq(Nat)
    BY DEF Message
  <2>2. e \o t = t
    BY <2>1
  <2>3. Visit[t] \in Seq(ElementsOf(Visit[t]))
    BY VisitIsSeq DEF IsSeq
  <2> DEFINE v == Visit[t]
             C == ElementsOf(Visit[t])
  <2>4. v \in Seq(C)
    BY <2>3
  <2> HIDE DEF v, C
  <2>5. e \o v = v
    BY <2>4
  <2> QED  BY <2>2, <2>5 DEF v
<1> QED  BY <1>1, <1>2, <1>3, <1>4, <1>5 DEF Reads

\* What the receiver makes of an attribute with type y and payload d.
Received(y, d) ==
  [type |-> y, data |-> IF y >= Nested THEN <<>> ELSE d, nest |-> IF y >= Nested THEN Visit[d] ELSE <<>>]

\* An attribute put behind what is read already is read after it.
LEMMA ReadsAttr ==
  ASSUME NEW s, NEW l, Reads(s, l), NEW a, NEW d, IsAttr(a, d), s \o a \in Message
  PROVE  Reads(s \o a, Append(l, Received(a[2], d)))
<1> DEFINE x == Received(a[2], d)
<1>1. s \in Seq(Nat) /\ Len(s) \in Nat /\ Len(s) % 2 = 0 /\ IsSeq(l)
  BY DEF Reads, Message
<1>t. s \in Seq(Nat) /\ a \in Seq(Nat) /\ d \in Seq(Nat)
  BY <1>1 DEF IsAttr
<1>2. Len(s \o a) = Len(s) + Len(a) /\ Len(a) \in Nat /\ Len(d) \in Nat /\ s \o a \in Seq(Nat)
  BY <1>t
<1>3. Len(s \o a) % 2 = 0
  <2> DEFINE n == Len(d)
             m == Len(s)
             k == Len(a)
  <2>1. n \in Nat /\ m \in Nat /\ m % 2 = 0 /\ k = Align(2 + n) /\ Len(s \o a) = m + k
    BY <1>1, <1>2 DEF IsAttr
  <2> HIDE DEF n, m, k
  <2>2. k % 2 = 0 /\ k \in Nat
    BY <2>1 DEF Align
  <2>3. (m + k) % 2 = 0
    BY <2>1, <2>2, EvenSum
  <2> QED  BY <2>1, <2>3
<1>4. ASSUME NEW t \in Message, (s \o a) \o t \in Message
      PROVE  Visit[(s \o a) \o t] = Append(l, x) \o Visit[t]
  <2>1. t \in Seq(Nat) /\ Len(t) \in Nat
    BY DEF Message
  <2> DEFINE u == a \o t
  <2>2. u \in Seq(Nat) /\ Len(u) = Len(a) + Len(t)
    BY <1>t, <2>1
  <2>3. (s \o a) \o t = s \o u
    BY <1>t, <2>1, SMTT(20)
  <2>4. NlaOk(u) /\ u[2] = a[2] /\ Payload(u) = d /\ Skip(u) = t
    BY <2>1, AttrAtFront
  <2> HIDE DEF u
  <2>5. u \in Message
    <3>0. u \in Seq(Nat) /\ s \in Seq(Nat)
      BY <1>t, <2>2
    <3>1. s \o u \in Message /\ Len(s \o u) = Len(s) + Len(u) /\ Len(u) \in Nat
      BY <1>4, <2>3, <3>0
    <3>2. Len(s \o u) <= Room /\ Room \in Nat
      BY <3>1, NetlinkAssumption DEF Message
    <3>3. Len(u) <= Room
      BY <1>1, <3>1, <3>2
    <3> QED  BY <2>2, <3>3 DEF Message
  <2>6. Visit[s \o u] = l \o Visit[u]
    BY <1>4, <2>3, <2>5 DEF Reads
  <2>7. Visit[u] = <<x>> \o Visit[t]
    <3>1. FirstAttr(Visit, u) = x
      BY <2>4 DEF FirstAttr, Received
    <3>2. Visit[u] = VisitNext(Visit, u)
      BY <2>5, VisitDefined
    <3> HIDE DEF x
    <3> QED  BY <2>4, <3>1, <3>2 DEF VisitNext
  <2> HIDE DEF x
  <2>8. IsSeq(Visit[t])
    BY VisitIsSeq
  <2>9. Append(l, x) \o Visit[t] = l \o (<<x>> \o Visit[t])
    <3> DEFINE v == Visit[t]
    <3>1. IsSeq(l) /\ IsSeq(v)
      BY <1>1, <2>8
    <3> HIDE DEF v
    <3>2. Append(l, x) \o v = l \o (<<x>> \o v)
      BY <3>1, ListFacts
    <3> QED  BY <3>2 DEF v
  <2> QED  BY <2>3, <2>6, <2>7, <2>9
<1> HIDE DEF x
<1>5. IsSeq(Append(l, x))
  BY <1>1, ListFacts
<1>6. Reads(s \o a, Append(l, x))
  BY <1>3, <1>4, <1>5 DEF Reads
<1> QED  BY <1>6 DEF x

\* What is read in a message is what the receiver visits.
LEMMA ReadsAll ==
  ASSUME NEW s, NEW l, Reads(s, l)
  PROVE  Visit[s] = l
<1>1. s \in Message /\ s \in Seq(Nat) /\ IsSeq(l)
  BY DEF Reads, Message
<1>2. s \o <<>> = s
  BY <1>1
<1>3. <<>> \in Message /\ Visit[<<>>] = <<>>
  BY ReadsNothing
<1>4. Visit[s \o <<>>] = l \o Visit[<<>>]
  BY <1>1, <1>2, <1>3 DEF Reads
<1>5. l \o <<>> = l
  BY <1>1, ListFacts
<1> QED  BY <1>2, <1>3, <1>4, <1>5

-----------------------------------------------------------------------------
(* The writers.                                                            *)

\* Parts of two messages that agree there.
LEMMA PartsAgree ==
  ASSUME NEW b \in Seq(Nat), NEW c \in Seq(Nat), NEW m \in Nat, NEW n \in Nat, m <= n,
         n <= Len(b), n <= Len(c)
  PROVE  (\A k \in m + 1 .. n : b[k] = c[k]) =>
           SubSeq(b, m + 1, n) = SubSeq(c, m + 1, n)
<1>1. /\ SubSeq(b, m + 1, n) \in Seq(Nat) /\ Len(SubSeq(b, m + 1, n)) = n - m
      /\ \A i \in 1 .. n - m : SubSeq(b, m + 1, n)[i] = b[m + i]
  BY PartFacts
<1>2. /\ SubSeq(c, m + 1, n) \in Seq(Nat) /\ Len(SubSeq(c, m + 1, n)) = n - m
      /\ \A i \in 1 .. n - m : SubSeq(c, m + 1, n)[i] = c[m + i]
  BY PartFacts
<1> SUFFICES ASSUME \A k \in m + 1 .. n : b[k] = c[k]
             PROVE  SubSeq(b, m + 1, n) = SubSeq(c, m + 1, n)
  OBVIOUS
<1>3. \A i \in 1 .. n - m : b[m + i] = c[m + i]
  OBVIOUS
<1> DEFINE x == SubSeq(b, m + 1, n)
           y == SubSeq(c, m + 1, n)
<1>4. x \in Seq(Nat) /\ y \in Seq(Nat) /\ Len(x) = Len(y) /\ \A i \in 1 .. Len(x) : x[i] = y[i]
  BY <1>1, <1>2, <1>3, Zenon
<1> HIDE DEF x, y
<1>5. x = y
  BY <1>4, SameCells
<1> QED  BY <1>5 DEF x, y

\* Two neighbouring parts of a message.
LEMMA PartsJoin ==
  ASSUME NEW b \in Seq(Nat), NEW m \in Nat, NEW n \in Nat, NEW k \in Nat, m <= n, n <= k, k <= Len(b)
  PROVE  SubSeq(b, m + 1, k) = SubSeq(b, m + 1, n) \o SubSeq(b, n + 1, k)
<1> DEFINE x == SubSeq(b, m + 1, n)
           y == SubSeq(b, n + 1, k)
           z == SubSeq(b, m + 1, k)
<1>0. Len(b) \in Nat /\ m <= k /\ n <= Len(b)
  OBVIOUS
<1>1. x \in Seq(Nat) /\ Len(x) = n - m /\ \A i \in 1 .. n - m : x[i] = b[m + i]
  BY <1>0, PartFacts
<1>2. y \in Seq(Nat) /\ Len(y) = k - n /\ \A i \in 1 .. k - n : y[i] = b[n + i]
  BY <1>0, PartFacts
<1>3. z \in Seq(Nat) /\ Len(z) = k - m /\ \A i \in 1 .. k - m : z[i] = b[m + i]
  BY <1>0, PartFacts
<1> HIDE DEF x, y, z
<1>4. /\ x \o y \in Seq(Nat) /\ Len(x \o y) = Len(x) + Len(y)
      /\ \A i \in 1 .. Len(x) : (x \o y)[i] = x[i]
      /\ \A i \in 1 .. Len(y) : (x \o y)[Len(x) + i] = y[i]
  <2>1. x \in Seq(Nat) /\ y \in Seq(Nat)
    BY <1>1, <1>2
  <2> QED  BY <2>1, ConcatFacts
<1>5. Len(x \o y) = k - m
  <2>1. Len(x) = n - m /\ Len(y) = k - n /\ Len(x \o y) = Len(x) + Len(y)
    BY <1>1, <1>2, <1>4
  <2>2. (n - m) + (k - n) = k - m
    OBVIOUS
  <2> QED  BY <2>1, <2>2
<1>6. ASSUME NEW i \in 1 .. k - m PROVE z[i] = (x \o y)[i]
  <2>1. CASE i <= n - m
    <3>1. i \in 1 .. n - m
      BY <2>1
    <3> QED  BY <1>1, <1>3, <1>4, <3>1
  <2>2. CASE ~(i <= n - m)
    <3> DEFINE j == i - (n - m)
    <3>1. j \in 1 .. k - n /\ i = Len(x) + j /\ n + j = m + i
      BY <1>1, <2>2
    <3> HIDE DEF j
    <3>2. (x \o y)[i] = y[j]
      BY <1>2, <1>4, <3>1
    <3>3. y[j] = b[n + j]
      BY <1>2, <3>1
    <3> QED  BY <1>3, <3>1, <3>2, <3>3
  <2> QED  BY <2>1, <2>2
<1> DEFINE w == x \o y
<1>7. z \in Seq(Nat) /\ w \in Seq(Nat) /\ Len(z) = Len(w) /\ \A i \in 1 .. Len(z) : z[i] = w[i]
  BY <1>3, <1>4, <1>5, <1>6
<1> HIDE DEF w
<1>8. z = w
  BY <1>7, SameCells
<1> QED  BY <1>8 DEF w, x, y, z

\* An attribute joins the last list.
LEMMA JoinsFacts ==
  ASSUME NEW ls, NEW x, IsSeq(ls), Len(ls) >= 1
  PROVE  /\ IsSeq(Joins(ls, x)) /\ Len(Joins(ls, x)) = Len(ls)
         /\ \A i \in 1 .. Len(ls) : Joins(ls, x)[i] = IF i = Len(ls) THEN Append(ls[i], x) ELSE ls[i]
<1> DEFINE n == Len(ls)
           e == Joins(ls, x)
           E == ElementsOf(ls) \cup {Append(ls[n], x)}
<1>1. n \in Nat /\ n >= 1 /\ ls \in [1 .. n -> ElementsOf(ls)]
  BY DEF IsSeq
<1>2. e = [ls EXCEPT ![n] = Append(ls[n], x)]
  BY DEF Joins
<1> DEFINE y == Append(ls[n], x)
<1> HIDE DEF n, e, y
<1>3. /\ e \in [1 .. n -> ElementsOf(ls) \cup {y}]
      /\ \A i \in 1 .. n : e[i] = IF i = n THEN y ELSE ls[i]
  BY <1>1, <1>2 DEF y
<1>4. e \in Seq(ElementsOf(ls) \cup {y}) /\ Len(e) = n
  BY <1>1, <1>3
<1>5. IsSeq(e)
  BY <1>4, SeqIsSeq
<1> QED  BY <1>3, <1>4, <1>5 DEF n, e, y

\* A list of lists grows or shrinks at its end.
LEMMA ListsFacts ==
  ASSUME NEW ls, NEW x, IsSeq(ls)
  PROVE  /\ IsSeq(Append(ls, x)) /\ Len(Append(ls, x)) = Len(ls) + 1 /\ Append(ls, x)[Len(ls) + 1] = x
         /\ \A i \in 1 .. Len(ls) : Append(ls, x)[i] = ls[i]
         /\ Len(ls) >= 1 =>
              /\ IsSeq(Front(ls)) /\ Len(Front(ls)) = Len(ls) - 1
              /\ \A i \in 1 .. Len(ls) - 1 : Front(ls)[i] = ls[i]
<1> DEFINE E == ElementsOf(ls) \cup {x}
           A == ElementsOf(ls)
<1>0. A \subseteq E /\ x \in E /\ ls \in Seq(A)
  BY DEF IsSeq
<1> HIDE DEF E, A
<1>1. ls \in Seq(E) /\ Len(ls) \in Nat
  BY <1>0
<1>2. /\ Append(ls, x) \in Seq(E) /\ Len(Append(ls, x)) = Len(ls) + 1 /\ Append(ls, x)[Len(ls) + 1] = x
      /\ \A i \in 1 .. Len(ls) : Append(ls, x)[i] = ls[i]
  <2>1. x \in E
    BY <1>0
  <2>2. Append(ls, x) \in Seq(E) /\ Len(Append(ls, x)) = Len(ls) + 1
    BY <1>1, <2>1
  <2>3. Append(ls, x)[Len(ls) + 1] = x
    BY <1>1, <2>1
  <2>4. \A i \in 1 .. Len(ls) : Append(ls, x)[i] = ls[i]
    BY <1>1, <2>1
  <2> QED  BY <2>2, <2>3, <2>4
<1>3. ASSUME Len(ls) >= 1
      PROVE  /\ Front(ls) \in Seq(E) /\ Len(Front(ls)) = Len(ls) - 1
             /\ \A i \in 1 .. Len(ls) - 1 : Front(ls)[i] = ls[i]
  <2> DEFINE n == Len(ls) - 1
             o == 0
  <2>1. o \in Nat /\ n \in Nat /\ o <= n /\ n <= Len(ls) /\ n - o = n
    BY <1>1, <1>3
  <2>2. Front(ls) = SubSeq(ls, o + 1, n)
    BY DEF Front
  <2>3. \A i \in 1 .. n : o + i = i
    OBVIOUS
  <2> HIDE DEF n, o
  <2>4. /\ SubSeq(ls, o + 1, n) \in Seq(E) /\ Len(SubSeq(ls, o + 1, n)) = n - o
        /\ \A i \in 1 .. n - o : SubSeq(ls, o + 1, n)[i] = ls[o + i]
    BY <1>1, <2>1, PartFacts
  <2>5. Front(ls) \in Seq(E) /\ Len(Front(ls)) = n /\ \A i \in 1 .. n : Front(ls)[i] = ls[i]
    BY <2>1, <2>2, <2>3, <2>4
  <2> QED  BY <2>5 DEF n
<1> QED  BY <1>2, <1>3, SeqIsSeq

\* What the invariant says of the sizes.
LEMMA NetlinkSizes ==
  ASSUME NetlinkInv
  PROVE  /\ buf \in Seq(Nat) /\ Len(buf) \in Nat /\ Len(buf) <= Room /\ Room \in Nat
         /\ Align(Len(buf)) = Len(buf)
         /\ nests \in Seq(Nat) /\ Len(nests) \in Nat /\ IsSeq(lists)
         /\ Len(lists) = Len(nests) + 1 /\ Len(lists) \in Nat
         /\ \A i \in 1 .. Len(lists) : /\ Begin(i) \in Nat /\ End(i) \in Nat /\ Begin(i) <= End(i)
                                       /\ End(i) <= Len(buf) /\ Reads(Segment(i), lists[i])
<1>1. /\ buf \in Seq(Nat) /\ Len(buf) \in Nat /\ Len(buf) <= Room /\ Room \in Nat /\ Len(buf) % 2 = 0
      /\ nests \in Seq(Nat) /\ Len(nests) \in Nat /\ IsSeq(lists) /\ Len(lists) = Len(nests) + 1
  BY NetlinkAssumption DEF NetlinkInv, Message
<1>2. Align(Len(buf)) = Len(buf)
  BY <1>1 DEF Align
<1>3. ASSUME NEW i \in 1 .. Len(lists) PROVE Begin(i) \in Nat /\ End(i) \in Nat
  <2>1. Begin(i) \in Nat
    <3>1. CASE i = 1
      BY <3>1 DEF Begin
    <3>2. CASE i # 1
      <4>1. i - 1 \in 1 .. Len(nests)
        BY <1>1, <3>2
      <4>2. nests[i - 1] \in Nat
        BY <1>1, <4>1
      <4> QED  BY <3>2, <4>2 DEF Begin
    <3> QED  BY <3>1, <3>2
  <2>2. End(i) \in Nat
    <3>1. CASE i = Len(lists)
      BY <1>1, <3>1 DEF End
    <3>2. CASE i # Len(lists)
      <4>1. i \in 1 .. Len(nests)
        BY <1>1, <3>2
      <4>2. nests[i] \in Nat
        BY <1>1, <4>1
      <4> QED  BY <3>2, <4>2 DEF End
    <3> QED  BY <3>1, <3>2
  <2> QED  BY <2>1, <2>2
<1>4. \A i \in 1 .. Len(lists) : Begin(i) <= End(i) /\ End(i) <= Len(buf) /\ Reads(Segment(i), lists[i])
  BY DEF NetlinkInv
<1>5. Len(lists) \in Nat
  BY <1>1
<1> QED  BY <1>1, <1>2, <1>3, <1>4, <1>5

\* The attribute nla_put writes.
LEMMA PutFacts ==
  ASSUME NEW y \in Nat, NEW d \in Seq(Nat), NEW b \in Seq(Nat)
  PROVE  \E a : /\ IsAttr(a, d) /\ a[2] = y
                /\ b \o <<HdrLen + Len(d), y>> \o d \o [i \in 1 .. (Len(d) % 2) |-> 0] = b \o a
<1> DEFINE h == <<HdrLen + Len(d), y>>
           n == Len(d)
           e == [i \in 1 .. (n % 2) |-> 0]
           g == h \o d
           a == g \o e
<1>1. n \in Nat /\ n % 2 \in Nat /\ h = <<2 + n, y>>
  BY DEF HdrLen
<1>2. h \in Seq(Nat) /\ Len(h) = 2 /\ h[1] = 2 + n /\ h[2] = y
  BY <1>1
<1>3. e \in Seq(Nat) /\ Len(e) = n % 2
  BY <1>1
<1> HIDE DEF h, e
<1>t. h \in Seq(Nat) /\ e \in Seq(Nat)
  BY <1>2, <1>3
<1>4. /\ g \in Seq(Nat) /\ Len(g) = Len(h) + Len(d)
      /\ \A i \in 1 .. Len(h) : g[i] = h[i]
      /\ \A i \in 1 .. Len(d) : g[Len(h) + i] = d[i]
  BY <1>t, ConcatFacts
<1>5. /\ g \in Seq(Nat) /\ Len(g) = 2 + n /\ g[1] = 2 + n /\ g[2] = y
      /\ \A i \in 1 .. n : g[2 + i] = d[i]
  <2>1. Len(h) = 2
    BY <1>2
  <2>2. 1 \in 1 .. Len(h) /\ 2 \in 1 .. Len(h)
    BY <2>1
  <2>3. g[1] = h[1] /\ g[2] = h[2]
    BY <1>4, <2>2
  <2> QED  BY <1>2, <1>4, <2>1, <2>3
<1> HIDE DEF g
<1>6. /\ a \in Seq(Nat) /\ Len(a) = Len(g) + Len(e)
      /\ \A i \in 1 .. Len(g) : a[i] = g[i]
  <2>1. g \in Seq(Nat) /\ e \in Seq(Nat)
    BY <1>t, <1>5
  <2> QED  BY <2>1, ConcatFacts
<1>7. Len(a) = Align(2 + n)
  <2>1. (2 + n) % 2 = n % 2
    BY <1>1
  <2>2. Len(a) = (2 + n) + (n % 2)
    BY <1>3, <1>5, <1>6
  <2> QED  BY <2>1, <2>2 DEF Align
<1>8. a[1] = 2 + n /\ a[2] = y /\ \A i \in 1 .. n : a[2 + i] = d[i]
  <2>1. 1 \in 1 .. Len(g) /\ 2 \in 1 .. Len(g) /\ \A i \in 1 .. n : 2 + i \in 1 .. Len(g)
    BY <1>1, <1>5
  <2>2. a[1] = g[1] /\ a[2] = g[2]
    BY <1>6, <2>1
  <2>3. \A i \in 1 .. n : a[2 + i] = g[2 + i]
    BY <1>6, <2>1
  <2> QED  BY <1>5, <2>2, <2>3
<1>9. ((b \o h) \o d) \o e = b \o a
  <2>1. h \in Seq(Nat) /\ d \in Seq(Nat) /\ e \in Seq(Nat) /\ b \in Seq(Nat)
    BY <1>t
  <2>2. (b \o h) \o d = b \o (h \o d)
    BY <2>1, SMTT(30)
  <2>3. g \in Seq(Nat)
    BY <1>5
  <2>4. (b \o g) \o e = b \o (g \o e)
    BY <2>1, <2>3, SMTT(20)
  <2> QED  BY <2>2, <2>4 DEF g
<1> HIDE DEF a
<1>10. IsAttr(a, d)
  BY <1>6, <1>7, <1>8 DEF IsAttr
<1> QED  BY <1>8, <1>9, <1>10 DEF h, e

\* Put with room for the attribute: the last segment grows.
LEMMA PutStep ==
  ASSUME NetlinkInv, NEW y \in Types, NEW d \in Data, NlaFits(d), buf' = NlaPut(y, d),
         lists' = Joins(lists, Attr(y, d)), nests' = nests
  PROVE  NetlinkInv'
<1> DEFINE k == Len(lists)
           N == Len(buf)
<1>1. /\ buf \in Seq(Nat) /\ N \in Nat /\ N <= Room /\ Room \in Nat /\ Align(N) = N
      /\ nests \in Seq(Nat) /\ Len(nests) \in Nat /\ IsSeq(lists) /\ k = Len(nests) + 1 /\ k \in Nat
      /\ \A i \in 1 .. k : /\ Begin(i) \in Nat /\ End(i) \in Nat /\ Begin(i) <= End(i)
                           /\ End(i) <= N /\ Reads(Segment(i), lists[i])
  BY NetlinkSizes
<1>2. y \in Nat /\ d \in Seq(Nat) /\ ~(y >= Nested)
  BY NetlinkAssumption
<1>3. PICK a : IsAttr(a, d) /\ a[2] = y /\ buf' = buf \o a
  <2>1. buf \in Seq(Nat)
    BY <1>1
  <2>2. \E a : IsAttr(a, d) /\ a[2] = y /\ NlaPut(y, d) = buf \o a
    BY <1>2, <2>1, PutFacts, Zenon DEF NlaPut
  <2> QED  BY <2>2
<1>4. a \in Seq(Nat) /\ Len(a) \in Nat /\ Len(a) = Align(2 + Len(d)) /\ Len(d) \in Nat
  BY <1>3 DEF IsAttr
<1>5. N + Len(a) <= Room
  BY <1>1, <1>4 DEF NlaFits, HdrLen
<1>6. /\ buf' \in Seq(Nat) /\ Len(buf') = N + Len(a)
      /\ \A i \in 1 .. N : buf'[i] = buf[i]
      /\ \A i \in 1 .. Len(a) : buf'[N + i] = a[i]
  <2>1. buf \in Seq(Nat) /\ a \in Seq(Nat)
    BY <1>1, <1>4
  <2>2. /\ buf \o a \in Seq(Nat) /\ Len(buf \o a) = Len(buf) + Len(a)
        /\ \A i \in 1 .. Len(buf) : (buf \o a)[i] = buf[i]
        /\ \A i \in 1 .. Len(a) : (buf \o a)[Len(buf) + i] = a[i]
    BY <2>1, ConcatFacts
  <2> QED  BY <1>3, <2>2, Zenon
<1>7. buf' \in Message
  BY <1>5, <1>6 DEF Message
<1> DEFINE x == Attr(y, d)
<1>8. /\ IsSeq(lists') /\ Len(lists') = k
      /\ \A i \in 1 .. k : lists'[i] = IF i = k THEN Append(lists[i], x) ELSE lists[i]
  <2>1. Len(lists) >= 1
    BY <1>1
  <2> QED  BY <1>1, <2>1, JoinsFacts
<1>9. Received(a[2], d) = x
  BY <1>2, <1>3 DEF Received, Attr
<1> DEFINE b2 == buf'
           M == Len(buf')
<1>10. b2 \in Seq(Nat) /\ M \in Nat /\ M = N + Len(a) /\ N <= M /\ M = Len(b2)
  BY <1>1, <1>4, <1>6
<1>11. \A i \in 1 .. k : Begin(i)' = Begin(i) /\ End(i)' = IF i = k THEN M ELSE End(i)
  BY <1>8 DEF Begin, End
<1>12. SubSeq(b2, N + 1, M) = a
  <2>1. /\ SubSeq(b2, N + 1, M) \in Seq(Nat) /\ Len(SubSeq(b2, N + 1, M)) = M - N
        /\ \A i \in 1 .. M - N : SubSeq(b2, N + 1, M)[i] = b2[N + i]
    <3> HIDE DEF b2, N, M
    <3>1. M <= Len(b2)
      BY <1>10
    <3> QED  BY <1>1, <1>10, <3>1, PartFacts
  <2>2. M - N = Len(a)
    BY <1>1, <1>4, <1>10
  <2> DEFINE q == SubSeq(b2, N + 1, M)
  <2>3. q \in Seq(Nat) /\ Len(q) = Len(a) /\ \A i \in 1 .. Len(a) : q[i] = a[i]
    BY <1>6, <2>1, <2>2
  <2> HIDE DEF q
  <2>4. q = a
    BY <1>4, <2>3, SameCells
  <2> QED  BY <2>4 DEF q
<1>13. ASSUME NEW i \in 1 .. k PROVE SubSeq(b2, Begin(i) + 1, End(i)) = Segment(i)
  <2> DEFINE m == Begin(i)
             n == End(i)
             b1 == buf
  <2>1. m \in Nat /\ n \in Nat /\ m <= n /\ n <= Len(b1) /\ n <= Len(b2) /\ b1 \in Seq(Nat) /\ b2 \in Seq(Nat)
    BY <1>1, <1>10
  <2>2. \A j \in m + 1 .. n : b2[j] = b1[j]
    <3> TAKE j \in m + 1 .. n
    <3>1. j \in 1 .. N
      BY <1>1, <2>1
    <3> QED  BY <1>6, <3>1
  <2> HIDE DEF m, n, b1, b2
  <2>3. SubSeq(b2, m + 1, n) = SubSeq(b1, m + 1, n)
    BY <2>1, <2>2, PartsAgree
  <2> QED  BY <2>3 DEF m, n, b1, Segment
<1>14. ASSUME NEW i \in 1 .. k
       PROVE  Begin(i)' <= End(i)' /\ End(i)' <= Len(buf') /\ Reads(Segment(i), lists[i])'
  <2> DEFINE m == Begin(i)
             n == End(i)
  <2>0. m \in Nat /\ n \in Nat /\ m <= n /\ n <= N /\ Reads(Segment(i), lists[i])
    BY <1>1
  <2>1. CASE i # k
    <3>1. Begin(i)' = Begin(i) /\ End(i)' = End(i) /\ lists'[i] = lists[i]
      BY <1>8, <1>11, <2>1
    <3>2. Segment(i)' = Segment(i)
      BY <1>13, <3>1 DEF Segment
    <3>3. Reads(Segment(i), lists[i])' <=> Reads(Segment(i), lists[i])
      BY <3>1, <3>2 DEF Reads
    <3> QED  BY <1>1, <1>10, <2>0, <3>1, <3>3
  <2>2. CASE i = k
    <3>1. Begin(i)' = m /\ End(i)' = M /\ lists'[i] = Append(lists[i], x) /\ n = N
      BY <1>8, <1>11, <2>2 DEF End
    <3>2. Segment(i)' = SubSeq(b2, m + 1, M)
      BY <3>1 DEF Segment
    <3>3. SubSeq(b2, m + 1, M) = SubSeq(b2, m + 1, N) \o SubSeq(b2, N + 1, M)
      <4> HIDE DEF b2, m, n, M, N
      <4>1. /\ b2 \in Seq(Nat) /\ m \in Nat /\ N \in Nat /\ M \in Nat
            /\ m <= N /\ N <= M /\ M <= Len(b2)
        BY <1>1, <1>10, <2>0, <3>1
      <4> QED  BY <4>1, PartsJoin
    <3>4. Segment(i)' = Segment(i) \o a
      BY <1>12, <1>13, <3>1, <3>2, <3>3
    <3>5. Segment(i) \o a \in Message
      <4> DEFINE q == SubSeq(b2, m + 1, M)
      <4>1. q \in Seq(Nat) /\ Len(q) = M - m
        <5>1. N \in Nat /\ b2 \in Seq(Nat) /\ m \in Nat /\ M \in Nat /\ M <= Len(b2)
          BY <1>1, <1>10, <2>0
        <5>2. m <= N /\ N <= M
          BY <1>10, <2>0, <3>1
        <5> HIDE DEF b2, m, M, N
        <5>3. m <= M
          BY <5>1, <5>2
        <5> QED  BY <5>1, <5>3, PartFacts
      <4>2. M - m <= Room
        <5>1. M = N + Len(a) /\ N + Len(a) <= Room
          BY <1>5, <1>10
        <5>2. M \in Nat /\ m \in Nat /\ Room \in Nat /\ M <= Room
          BY <1>1, <1>10, <2>0, <5>1
        <5> HIDE DEF M, m
        <5> QED  BY <5>2
      <4> QED  BY <3>2, <3>4, <4>1, <4>2 DEF Message
    <3>6. Reads(Segment(i) \o a, Append(lists[i], x))
      BY <1>3, <1>9, <2>0, <3>5, ReadsAttr
    <3>7. Reads(Segment(i), lists[i])'
      BY <3>1, <3>4, <3>6 DEF Reads
    <3> QED  BY <1>1, <1>10, <2>0, <3>1, <3>7
  <2> QED  BY <2>1, <2>2
<1>15. Len(buf') % 2 = 0
  <2>1. Len(a) % 2 = 0
    BY <1>4 DEF Align
  <2>2. N % 2 = 0
    BY DEF NetlinkInv
  <2>3. N \in Nat /\ Len(a) \in Nat /\ Len(buf') = N + Len(a)
    BY <1>1, <1>4, <1>6
  <2> HIDE DEF N
  <2> QED  BY <2>1, <2>2, <2>3, EvenSum
<1>16. \A i \in 1 .. Len(nests) : nests[i] + 2 <= Len(buf') /\ buf'[nests[i] + 2] >= Nested
  <2> TAKE i \in 1 .. Len(nests)
  <2>1. nests[i] + 2 <= N /\ buf[nests[i] + 2] >= Nested /\ nests[i] \in Nat
    <3>1. nests \in Seq(Nat)
      BY <1>1
    <3>2. nests[i] \in Nat
      BY <3>1
    <3>3. nests[i] + 2 <= N /\ buf[nests[i] + 2] >= Nested
      BY DEF NetlinkInv
    <3> QED  BY <3>2, <3>3
  <2>2. nests[i] + 2 \in 1 .. N
    <3>1. N \in Nat
      BY <1>1
    <3> HIDE DEF N
    <3> QED  BY <2>1, <3>1
  <2>3. buf'[nests[i] + 2] = buf[nests[i] + 2]
    BY <1>6, <2>2
  <2>4. nests[i] + 2 <= N + Len(a)
    <3>1. N \in Nat /\ Len(a) \in Nat
      BY <1>1, <1>4
    <3> HIDE DEF N
    <3> QED  BY <2>1, <3>1
  <2> QED  BY <1>6, <2>1, <2>3, <2>4
<1>17. \A i, j \in 1 .. Len(nests) : i < j => nests[i] + 2 <= nests[j]
  BY DEF NetlinkInv
<1> QED  BY <1>1, <1>7, <1>8, <1>14, <1>15, <1>16, <1>17 DEF NetlinkInv

\* Two messages that agree up to a segment's end have the same segment.
LEMMA SegmentSame ==
  ASSUME NEW b \in Seq(Nat), NEW c \in Seq(Nat), NEW m \in Nat, NEW n \in Nat, NEW e \in Nat,
         m <= n, n <= e, e <= Len(b), e <= Len(c), \A j \in 1 .. e : c[j] = b[j]
  PROVE  SubSeq(c, m + 1, n) = SubSeq(b, m + 1, n)
<1>1. \A j \in m + 1 .. n : c[j] = b[j]
  <2> TAKE j \in m + 1 .. n
  <2>1. j \in Int /\ m + 1 <= j /\ j <= n
    OBVIOUS
  <2>2. 1 <= j /\ j <= e
    BY <2>1
  <2>3. j \in 1 .. e
    BY <2>1, <2>2
  <2> QED  BY <2>3
<1>2. n <= Len(b) /\ n <= Len(c)
  OBVIOUS
<1> QED  BY <1>1, <1>2, PartsAgree

\* nest_start with room for the header: an empty segment begins behind it.
LEMMA NestStartStep ==
  ASSUME NetlinkInv, NEW y \in Types, NlaFits(<<>>), nests' = Append(nests, NestOffset),
         buf' = NlaPut(y + Nested, <<>>), lists' = Append(lists, <<>>)
  PROVE  NetlinkInv'
<1> DEFINE k == Len(lists)
           N == Len(buf)
<1>1. /\ buf \in Seq(Nat) /\ N \in Nat /\ N <= Room /\ Room \in Nat /\ Align(N) = N
      /\ nests \in Seq(Nat) /\ Len(nests) \in Nat /\ IsSeq(lists) /\ k = Len(nests) + 1 /\ k \in Nat
      /\ \A i \in 1 .. k : /\ Begin(i) \in Nat /\ End(i) \in Nat /\ Begin(i) <= End(i)
                           /\ End(i) <= N /\ Reads(Segment(i), lists[i])
  BY NetlinkSizes
<1> DEFINE d == <<>>
<1>2. y + Nested \in Nat /\ y + Nested >= Nested /\ d \in Seq(Nat) /\ Len(d) = 0
  BY NetlinkAssumption
<1>3. PICK a : IsAttr(a, d) /\ a[2] = y + Nested /\ buf' = buf \o a
  <2>1. buf \in Seq(Nat)
    BY <1>1
  <2>2. \E a : IsAttr(a, d) /\ a[2] = y + Nested /\ NlaPut(y + Nested, d) = buf \o a
    BY <1>2, <2>1, PutFacts, Zenon DEF NlaPut
  <2> QED  BY <2>2
<1>4. a \in Seq(Nat) /\ Len(a) = 2
  <2>1. a \in Seq(Nat) /\ Len(a) = Align(2 + 0)
    BY <1>2, <1>3 DEF IsAttr
  <2> QED  BY <2>1 DEF Align
<1>5. N + 2 <= Room
  <2>1. Align(2) = 2
    BY DEF Align
  <2> QED  BY <1>1, <1>2, <2>1 DEF NlaFits, HdrLen
<1>6. /\ buf' \in Seq(Nat) /\ Len(buf') = N + 2
      /\ \A i \in 1 .. N : buf'[i] = buf[i]
      /\ buf'[N + 2] = y + Nested
  <2>1. buf \in Seq(Nat) /\ a \in Seq(Nat)
    BY <1>1, <1>4
  <2>2. /\ buf \o a \in Seq(Nat) /\ Len(buf \o a) = Len(buf) + Len(a)
        /\ \A i \in 1 .. Len(buf) : (buf \o a)[i] = buf[i]
        /\ \A i \in 1 .. Len(a) : (buf \o a)[Len(buf) + i] = a[i]
    BY <2>1, ConcatFacts
  <2>3. 2 \in 1 .. Len(a)
    BY <1>4
  <2>4. (buf \o a)[Len(buf) + 2] = a[2]
    BY <2>2, <2>3, Zenon
  <2> QED  BY <1>3, <1>4, <2>2, <2>4, Zenon
<1>7. buf' \in Message /\ Len(buf') % 2 = 0
  <2>1. N % 2 = 0
    BY DEF NetlinkInv
  <2>2. (N + 2) % 2 = 0
    BY <1>1, <2>1
  <2> QED  BY <1>5, <1>6, <2>2 DEF Message
<1>8. /\ IsSeq(lists') /\ Len(lists') = k + 1 /\ lists'[k + 1] = <<>>
      /\ \A i \in 1 .. k : lists'[i] = lists[i]
  BY <1>1, ListsFacts
<1>9. /\ nests' \in Seq(Nat) /\ Len(nests') = k /\ nests'[k] = N
      /\ \A i \in 1 .. k - 1 : nests'[i] = nests[i]
  <2> DEFINE o == NestOffset
             q == nests
  <2>1. o = N /\ o \in Nat /\ q \in Seq(Nat) /\ Len(q) = k - 1 /\ nests' = Append(q, o) /\ (k - 1) + 1 = k
    BY <1>1 DEF NestOffset
  <2> HIDE DEF o, q
  <2>2. /\ Append(q, o) \in Seq(Nat) /\ Len(Append(q, o)) = Len(q) + 1 /\ Append(q, o)[Len(q) + 1] = o
    BY <2>1
  <2>3. \A i \in 1 .. Len(q) : Append(q, o)[i] = q[i]
    BY <2>1
  <2> QED  BY <2>1, <2>2, <2>3 DEF q
<1>10. ASSUME NEW i \in 1 .. k PROVE Begin(i)' = Begin(i) /\ End(i)' = End(i)
  <2>1. Begin(i)' = Begin(i)
    <3>1. CASE i = 1
      BY <3>1 DEF Begin
    <3>2. CASE i # 1
      <4>1. i - 1 \in 1 .. k - 1
        BY <1>1, <3>2
      <4> QED  BY <1>9, <3>2, <4>1 DEF Begin
    <3> QED  BY <3>1, <3>2
  <2>2. End(i)' = nests'[i]
    <3>1. i # k + 1
      BY <1>1
    <3> QED  BY <1>8, <3>1 DEF End
  <2>3. End(i) = IF i = k THEN N ELSE nests[i]
    BY DEF End
  <2>4. CASE i = k
    BY <1>9, <2>1, <2>2, <2>3, <2>4
  <2>5. CASE i # k
    <3>1. i \in 1 .. k - 1
      BY <1>1, <2>5
    <3> QED  BY <1>9, <2>1, <2>2, <2>3, <2>5, <3>1
  <2> QED  BY <2>4, <2>5
<1>11. ASSUME NEW i \in 1 .. k
       PROVE  Begin(i)' <= End(i)' /\ End(i)' <= Len(buf') /\ Reads(Segment(i), lists[i])'
  <2> DEFINE m == Begin(i)
             n == End(i)
             b1 == buf
             b2 == buf'
  <2>1. m \in Nat /\ n \in Nat /\ m <= n /\ n <= N /\ Reads(Segment(i), lists[i])
    BY <1>1
  <2>2. b1 \in Seq(Nat) /\ b2 \in Seq(Nat) /\ N <= Len(b1) /\ N <= Len(b2) /\ \A j \in 1 .. N : b2[j] = b1[j]
    <3>1. N \in Nat /\ b1 \in Seq(Nat) /\ N = Len(b1)
      BY <1>1
    <3>2. b2 \in Seq(Nat) /\ Len(b2) = N + 2 /\ \A j \in 1 .. N : b2[j] = b1[j]
      BY <1>6
    <3> HIDE DEF b1, b2, N
    <3>3. N <= N /\ N <= N + 2
      BY <3>1
    <3> QED  BY <3>1, <3>2, <3>3
  <2>3. SubSeq(b2, m + 1, n) = SubSeq(b1, m + 1, n)
    <3> HIDE DEF b1, b2, m, n, N
    <3> QED  BY <1>1, <2>1, <2>2, SegmentSame
  <2>4. Segment(i)' = Segment(i)
    BY <1>10, <2>3 DEF Segment
  <2>5. Reads(Segment(i), lists[i])' <=> Reads(Segment(i), lists[i])
    BY <1>8, <2>4 DEF Reads
  <2>6. n <= N + 2
    BY <1>1, <2>1
  <2> QED  BY <1>6, <1>10, <2>1, <2>5, <2>6
<1>12. ASSUME NEW i \in Nat, i = k + 1
       PROVE  /\ Begin(i)' = N + 2 /\ End(i)' = N + 2 /\ Len(buf') = N + 2
              /\ Reads(Segment(i), lists[i])'
  <2>1. i # 1 /\ i - 1 = k
    BY <1>1, <1>12
  <2>2. Begin(i)' = nests'[k] + 2
    BY <2>1 DEF Begin
  <2>3. End(i)' = Len(buf')
    <3>1. i = Len(lists')
      BY <1>8, <1>12
    <3> QED  BY <3>1 DEF End
  <2>4. nests'[k] = N /\ Len(buf') = N + 2 /\ lists'[i] = <<>>
    BY <1>6, <1>8, <1>9, <1>12
  <2>5. Begin(i)' = N + 2 /\ End(i)' = N + 2
    BY <2>2, <2>3, <2>4
  <2> DEFINE b2 == buf'
             e == N + 2
  <2>6. b2 \in Seq(Nat) /\ e \in Nat /\ Len(b2) = e
    BY <1>1, <1>6
  <2>7. Segment(i)' = SubSeq(b2, e + 1, e)
    BY <2>5 DEF Segment
  <2>8. SubSeq(b2, e + 1, e) = <<>>
    <3> HIDE DEF b2, e
    <3>1. e + 1 > e
      BY <2>6
    <3> QED  BY <2>6, <3>1
  <2>9. Reads(<<>>, <<>>)
    BY ReadsNothing
  <2>10. Reads(Segment(i), lists[i])'
    BY <2>4, <2>7, <2>8, <2>9, Zenon DEF Reads
  <2> QED  BY <2>4, <2>5, <2>10
<1>14. ASSUME NEW i \in 1 .. k + 1
       PROVE  Begin(i)' <= End(i)' /\ End(i)' <= Len(buf') /\ Reads(Segment(i), lists[i])'
  <2>1. CASE i = k + 1
    <3>1. i \in Nat /\ N + 2 \in Nat /\ N + 2 <= N + 2
      BY <1>1
    <3> QED  BY <1>12, <2>1, <3>1
  <2>2. CASE i # k + 1
    <3>1. i \in 1 .. k
      BY <1>1, <2>2
    <3> QED  BY <1>11, <3>1
  <2> QED  BY <2>1, <2>2
<1>15. ASSUME NEW i \in 1 .. k - 1
       PROVE  nests[i] + 2 <= N /\ buf[nests[i] + 2] >= Nested /\ nests[i] \in Nat
  <2>1. i \in 1 .. Len(nests) /\ nests \in Seq(Nat)
    BY <1>1
  <2>2. nests[i] \in Nat
    BY <2>1
  <2> QED  BY <2>1, <2>2 DEF NetlinkInv
<1>16. ASSUME NEW i \in 1 .. k PROVE nests'[i] + 2 <= Len(buf') /\ buf'[nests'[i] + 2] >= Nested
  <2>1. CASE i = k
    <3>1. nests'[i] = N /\ buf'[N + 2] = y + Nested /\ Len(buf') = N + 2 /\ N + 2 <= N + 2
      BY <1>1, <1>6, <1>9, <2>1
    <3>2. y + Nested >= Nested
      BY <1>2
    <3> QED  BY <3>1, <3>2
  <2>2. CASE i # k
    <3>1. i \in 1 .. k - 1
      BY <1>1, <2>2
    <3>a. nests[i] + 2 <= N /\ buf[nests[i] + 2] >= Nested /\ nests[i] \in Nat /\ N \in Nat
      BY <1>1, <1>15, <3>1
    <3>2. nests'[i] = nests[i]
      BY <1>9, <3>1
    <3>3. nests[i] + 2 \in 1 .. N /\ nests[i] + 2 <= N + 2
      BY <3>a
    <3>4. buf'[nests[i] + 2] = buf[nests[i] + 2] /\ Len(buf') = N + 2
      BY <1>6, <3>3
    <3> QED  BY <3>a, <3>2, <3>3, <3>4
  <2> QED  BY <2>1, <2>2
<1>17. ASSUME NEW i \in 1 .. k, NEW j \in 1 .. k, i < j PROVE nests'[i] + 2 <= nests'[j]
  <2>0. k \in Nat /\ Len(nests) = k - 1
    BY <1>1
  <2>1. i \in 1 .. k - 1
    BY <1>17, <2>0
  <2>2. nests'[i] = nests[i] /\ nests[i] + 2 <= N
    BY <1>9, <1>15, <2>1
  <2>3. CASE j = k
    <3>1. nests'[j] = N
      BY <1>9, <2>3
    <3> QED  BY <2>2, <3>1
  <2>4. CASE j # k
    <3>1. j \in 1 .. k - 1
      BY <2>0, <2>4
    <3>2. i \in 1 .. Len(nests) /\ j \in 1 .. Len(nests)
      BY <2>0, <2>1, <3>1
    <3>3. nests[i] + 2 <= nests[j]
      BY <1>17, <3>2 DEF NetlinkInv
    <3>4. nests'[j] = nests[j]
      BY <1>9, <3>1
    <3> QED  BY <2>2, <3>3, <3>4
  <2> QED  BY <2>3, <2>4
<1>18. Len(lists') = Len(nests') + 1
  BY <1>8, <1>9
<1> QED  BY <1>7, <1>8, <1>9, <1>14, <1>16, <1>17, <1>18 DEF NetlinkInv

\* c is b after the nest whose header is behind cell n has been closed.
EndsNest(b, n, c) ==
  /\ b \in Seq(Nat) /\ n \in Nat /\ n + 2 <= Len(b) /\ (Len(b) - (n + 2)) % 2 = 0
  /\ c = [b EXCEPT ![n + 1] = Len(b) - n]

\* nest_end writes the nest's length into its header: what is between the header and the
\* end becomes the payload of one attribute, and nothing before the header changes.
LEMMA ClosedNest ==
  ASSUME NEW b, NEW n, NEW c, EndsNest(b, n, c)
  PROVE  /\ c \in Seq(Nat) /\ Len(c) = Len(b) /\ \A j \in 1 .. n : c[j] = b[j]
         /\ IsAttr(SubSeq(c, n + 1, Len(b)), SubSeq(b, (n + 2) + 1, Len(b)))
         /\ SubSeq(c, n + 1, Len(b))[2] = b[n + 2]
<1> DEFINE N == Len(b)
           v == N - n
           e == n + 2
           a == SubSeq(c, n + 1, N)
           d == SubSeq(b, e + 1, N)
<1>0. /\ b \in Seq(Nat) /\ n \in Nat /\ n + 2 <= Len(b) /\ (Len(b) - (n + 2)) % 2 = 0
      /\ c = [b EXCEPT ![n + 1] = Len(b) - n]
  BY DEF EndsNest
<1>1. N \in Nat /\ v \in Nat /\ n + 1 \in 1 .. N /\ e \in Nat /\ e <= N /\ n <= N
  BY <1>0
<1>2. /\ c \in Seq(Nat) /\ Len(c) = N
      /\ \A j \in 1 .. N : c[j] = IF j = n + 1 THEN v ELSE b[j]
  <2>1. c = [b EXCEPT ![n + 1] = v]
    BY <1>0
  <2> HIDE DEF v
  <2>2. b \in [1 .. N -> Nat]
    BY <1>0
  <2> HIDE DEF N
  <2>3. c \in [1 .. N -> Nat] /\ \A j \in 1 .. N : c[j] = IF j = n + 1 THEN v ELSE b[j]
    BY <1>1, <2>1, <2>2
  <2>4. N \in Nat /\ c \in [1 .. N -> Nat]
    BY <1>1, <2>3
  <2>5. c \in Seq(Nat) /\ Len(c) = N
    BY <2>4
  <2> QED  BY <2>3, <2>5
<1>3. \A j \in 1 .. n : c[j] = b[j]
  <2> TAKE j \in 1 .. n
  <2>1. j \in 1 .. N /\ j # n + 1
    BY <1>0, <1>1
  <2> QED  BY <1>2, <2>1
<1>4. a \in Seq(Nat) /\ Len(a) = N - n /\ \A i \in 1 .. N - n : a[i] = c[n + i]
  <2> DEFINE g == c
  <2>1. g \in Seq(Nat) /\ n \in Nat /\ N \in Nat /\ n <= N /\ N <= Len(g)
    BY <1>0, <1>1, <1>2
  <2> HIDE DEF N, g
  <2>2. /\ SubSeq(g, n + 1, N) \in Seq(Nat) /\ Len(SubSeq(g, n + 1, N)) = N - n
        /\ \A i \in 1 .. N - n : SubSeq(g, n + 1, N)[i] = g[n + i]
    BY <2>1, PartFacts
  <2> QED  BY <2>2 DEF g
<1>5. d \in Seq(Nat) /\ Len(d) = N - e /\ \A i \in 1 .. N - e : d[i] = b[e + i]
  <2>1. b \in Seq(Nat) /\ N <= Len(b)
    BY <1>0, <1>1
  <2> HIDE DEF N, e
  <2> QED  BY <1>1, <2>1, PartFacts
<1>6. N - n = 2 + (N - e) /\ N - e \in Nat /\ (N - e) % 2 = 0
  BY <1>0, <1>1
<1> HIDE DEF a, d
<1>7. a[1] = v /\ a[2] = b[e]
  <2>1. 1 \in 1 .. N - n /\ 2 \in 1 .. N - n /\ e \in 1 .. N /\ e # n + 1 /\ n + 2 = e
    BY <1>0, <1>1
  <2>2. a[1] = c[n + 1] /\ a[2] = c[n + 2]
    BY <1>4, <2>1
  <2> QED  BY <1>1, <1>2, <2>1, <2>2
<1>8. ASSUME NEW i \in 1 .. Len(d) PROVE a[2 + i] = d[i]
  <2>1. i \in 1 .. N - e
    BY <1>5
  <2>2. 2 + i \in 1 .. N - n /\ n + (2 + i) = e + i /\ e + i \in 1 .. N /\ e + i # n + 1
    BY <1>0, <1>1, <2>1
  <2>3. a[2 + i] = c[e + i]
    BY <1>4, <2>2
  <2>4. c[e + i] = b[e + i]
    BY <1>2, <2>2
  <2> QED  BY <1>5, <2>1, <2>3, <2>4
<1>9. Len(a) = Align(2 + Len(d)) /\ a[1] = 2 + Len(d)
  <2> DEFINE m == N - e
  <2>1. m \in Nat /\ m % 2 = 0 /\ Len(d) = m /\ Len(a) = 2 + m /\ a[1] = 2 + m
    BY <1>4, <1>5, <1>6, <1>7
  <2> HIDE DEF m
  <2>2. (2 + m) % 2 = 0
    BY <2>1
  <2> QED  BY <2>1, <2>2 DEF Align
<1>10. IsAttr(a, d)
  BY <1>4, <1>5, <1>8, <1>9 DEF IsAttr
<1> QED  BY <1>2, <1>3, <1>7, <1>10 DEF a, d

\* nest_end: the innermost segment becomes an attribute of the list around it.
LEMMA NestEndStep ==
  ASSUME NetlinkInv, NestEnd
  PROVE  NetlinkInv'
<1> DEFINE n == Len(nests)
           N == Len(buf)
           f == nests[n]
           own == [type |-> buf[f + 2], data |-> <<>>, nest |-> lists[n + 1]]
<1>1. /\ buf \in Seq(Nat) /\ N \in Nat /\ N <= Room /\ Room \in Nat /\ Align(N) = N
      /\ nests \in Seq(Nat) /\ n \in Nat /\ IsSeq(lists) /\ Len(lists) = n + 1
  BY NetlinkSizes
<1>2. n >= 1 /\ n \in 1 .. n
  <2>1. nests # <<>>
    BY DEF NestEnd
  <2> QED  BY <1>1, <2>1
<1>3. \A i \in 1 .. n + 1 : /\ Begin(i) \in Nat /\ End(i) \in Nat /\ Begin(i) <= End(i)
                            /\ End(i) <= N /\ Reads(Segment(i), lists[i])
  BY <1>1, NetlinkSizes
<1>4. /\ f \in Nat /\ f + 2 <= N /\ buf[f + 2] >= Nested
      /\ \A i \in 1 .. n : nests[i] \in Nat /\ nests[i] + 2 <= N /\ buf[nests[i] + 2] >= Nested
      /\ \A i \in 1 .. n : i < n => nests[i] + 2 <= f
  <2>1. \A i \in 1 .. n : nests[i] \in Nat
    BY <1>1
  <2>2. \A i \in 1 .. n : nests[i] + 2 <= N /\ buf[nests[i] + 2] >= Nested
    BY DEF NetlinkInv
  <2>3. \A i \in 1 .. n : i < n => nests[i] + 2 <= f
    BY <1>2 DEF NetlinkInv
  <2> QED  BY <1>2, <2>1, <2>2, <2>3
<1>5. Last(nests) = f /\ Last(lists) = lists[n + 1]
  BY <1>1 DEF Last
<1>6. /\ buf' = [buf EXCEPT ![f + 1] = N - f]
      /\ lists' = Joins(Front(lists), own) /\ nests' = Front(nests)
  <2>1. f \in Nat /\ N \in Nat /\ f + 2 <= N /\ N < LenMod /\ LenMod \in Nat
    <3>1. Room < LenMod /\ LenMod \in Nat
      BY NetlinkAssumption
    <3> QED  BY <1>1, <1>4, <3>1
  <2>2. (N - f) % LenMod = N - f
    <3> HIDE DEF f, N
    <3>1. N - f \in 0 .. LenMod - 1 /\ LenMod > 0
      BY <2>1
    <3> QED  BY <2>1, <3>1
  <2>3. /\ buf' = [buf EXCEPT ![f + 1] = (N - f) % LenMod]
        /\ lists' = Joins(Front(lists), own) /\ nests' = Front(nests)
    BY <1>1, <1>5 DEF NestEnd
  <2> QED  BY <2>2, <2>3
<1> DEFINE b1 == buf
           b2 == buf'
           a == SubSeq(b2, f + 1, N)
           d == SubSeq(b1, (f + 2) + 1, N)
<1>7. d = Segment(n + 1) /\ Reads(d, lists[n + 1])
  <2>1. n + 1 # 1 /\ (n + 1) - 1 = n /\ n + 1 \in 1 .. n + 1
    BY <1>1, <1>2
  <2>2. Begin(n + 1) = f + 2 /\ End(n + 1) = N
    BY <1>1, <2>1 DEF Begin, End
  <2>3. d = Segment(n + 1)
    BY <2>2 DEF Segment
  <2> QED  BY <1>3, <2>1, <2>3
<1>8. (N - (f + 2)) % 2 = 0
  <2> DEFINE e == f + 2
  <2>1. b1 \in Seq(Nat) /\ e \in Nat /\ N \in Nat /\ e <= N /\ N <= Len(b1)
    BY <1>1, <1>4
  <2>2. Len(d) % 2 = 0
    BY <1>7 DEF Reads
  <2>3. Len(SubSeq(b1, e + 1, N)) = N - e
    <3> HIDE DEF b1, e, N
    <3> QED  BY <2>1, PartFacts
  <2> QED  BY <2>2, <2>3
<1>9. /\ b2 \in Seq(Nat) /\ Len(b2) = N /\ \A j \in 1 .. f : b2[j] = b1[j]
      /\ IsAttr(a, d) /\ a[2] = b1[f + 2]
  <2>1. EndsNest(b1, f, b2)
    BY <1>1, <1>4, <1>6, <1>8 DEF EndsNest
  <2>2. N = Len(b1)
    OBVIOUS
  <2> HIDE DEF b1, b2, f, N
  <2>3. /\ b2 \in Seq(Nat) /\ Len(b2) = Len(b1) /\ \A j \in 1 .. f : b2[j] = b1[j]
        /\ IsAttr(SubSeq(b2, f + 1, Len(b1)), SubSeq(b1, (f + 2) + 1, Len(b1)))
        /\ SubSeq(b2, f + 1, Len(b1))[2] = b1[f + 2]
    BY <2>1, ClosedNest, Zenon
  <2> QED  BY <2>2, <2>3, Zenon
<1>10. Received(a[2], d) = own
  <2>1. Visit[d] = lists[n + 1]
    BY <1>7, ReadsAll
  <2> QED  BY <1>4, <1>9, <2>1 DEF Received
<1>11. /\ IsSeq(lists') /\ Len(lists') = n
       /\ \A i \in 1 .. n : lists'[i] = IF i = n THEN Append(lists[i], own) ELSE lists[i]
  <2> DEFINE o == Front(lists)
             x == own
  <2>1. IsSeq(o) /\ Len(o) = n /\ \A i \in 1 .. n : o[i] = lists[i]
    <3>1. Len(lists) >= 1 /\ Len(lists) - 1 = n
      BY <1>1
    <3> QED  BY <1>1, <3>1, ListsFacts
  <2> HIDE DEF o, x
  <2>2. Len(o) >= 1
    BY <1>2, <2>1
  <2>3. /\ IsSeq(Joins(o, x)) /\ Len(Joins(o, x)) = Len(o)
        /\ \A i \in 1 .. Len(o) : Joins(o, x)[i] = IF i = Len(o) THEN Append(o[i], x) ELSE o[i]
    BY <2>1, <2>2, JoinsFacts
  <2>4. lists' = Joins(o, x)
    BY <1>6 DEF o, x
  <2>5. IsSeq(lists') /\ Len(lists') = n
    BY <2>1, <2>3, <2>4
  <2>6. ASSUME NEW i \in 1 .. n
        PROVE  lists'[i] = IF i = n THEN Append(lists[i], x) ELSE lists[i]
    BY <2>1, <2>3, <2>4
  <2> QED  BY <2>5, <2>6 DEF x
<1>12. /\ nests' \in Seq(Nat) /\ Len(nests') = n - 1
       /\ \A i \in 1 .. n - 1 : nests'[i] = nests[i]
  <2> DEFINE q == nests
             z == 0
             m == n - 1
  <2>1. q \in Seq(Nat) /\ z \in Nat /\ m \in Nat /\ z <= m /\ m <= Len(q) /\ m - z = m
    BY <1>1, <1>2
  <2>2. nests' = SubSeq(q, z + 1, m)
    BY <1>6 DEF Front
  <2>3. \A i \in 1 .. m : z + i = i
    OBVIOUS
  <2> HIDE DEF q, z, m
  <2>4. /\ SubSeq(q, z + 1, m) \in Seq(Nat) /\ Len(SubSeq(q, z + 1, m)) = m - z
        /\ \A i \in 1 .. m - z : SubSeq(q, z + 1, m)[i] = q[z + i]
    BY <2>1, PartFacts
  <2>5. nests' \in Seq(Nat) /\ Len(nests') = m /\ \A i \in 1 .. m : nests'[i] = q[i]
    BY <2>1, <2>2, <2>3, <2>4
  <2> QED  BY <2>5 DEF q, m
<1>13. ASSUME NEW i \in 1 .. n
       PROVE  /\ Begin(i)' = Begin(i) /\ End(i)' = IF i = n THEN N ELSE End(i)
              /\ End(i) <= f /\ (i = n => End(i) = f)
  <2>0. i \in Nat /\ i # n + 1 /\ i >= 1 /\ i <= n
    BY <1>1
  <2>1. Begin(i)' = Begin(i)
    <3>1. CASE i = 1
      BY <3>1 DEF Begin
    <3>2. CASE i # 1
      <4>1. i - 1 \in 1 .. n - 1
        BY <1>1, <2>0, <3>2
      <4> QED  BY <1>12, <3>2, <4>1 DEF Begin
    <3> QED  BY <3>1, <3>2
  <2>2. End(i) = nests[i]
    BY <1>1, <2>0 DEF End
  <2>3. CASE i = n
    <3>1. End(i)' = N
      BY <1>9, <1>11, <2>3 DEF End
    <3> QED  BY <1>4, <2>1, <2>2, <2>3, <3>1
  <2>4. CASE i # n
    <3>1. i \in 1 .. n - 1 /\ i < n
      BY <1>1, <2>0, <2>4
    <3>2. End(i)' = nests'[i]
      BY <1>11, <2>4 DEF End
    <3>3. nests[i] + 2 <= f /\ nests[i] \in Nat /\ f \in Nat
      BY <1>4, <3>1
    <3>4. nests[i] <= f
      BY <3>3
    <3> QED  BY <1>12, <2>1, <2>2, <2>4, <3>1, <3>2, <3>4
  <2> QED  BY <2>3, <2>4
<1>14. ASSUME NEW i \in 1 .. n
       PROVE  Begin(i)' <= End(i)' /\ End(i)' <= Len(buf') /\ Reads(Segment(i), lists[i])'
  <2> DEFINE m == Begin(i)
             e == End(i)
  <2>0. i \in 1 .. n + 1
    BY <1>1
  <2>1. m \in Nat /\ e \in Nat /\ m <= e /\ e <= N /\ e <= f /\ Reads(Segment(i), lists[i])
    BY <1>3, <1>13, <2>0
  <2>2. SubSeq(b2, m + 1, e) = SubSeq(b1, m + 1, e)
    <3>1. /\ b1 \in Seq(Nat) /\ b2 \in Seq(Nat) /\ f \in Nat /\ f <= Len(b1) /\ f <= Len(b2)
          /\ \A j \in 1 .. f : b2[j] = b1[j]
      BY <1>1, <1>4, <1>9
    <3> HIDE DEF b1, b2, m, e, f
    <3> QED  BY <2>1, <3>1, SegmentSame
  <2>3. CASE i # n
    <3>1. Begin(i)' = Begin(i) /\ End(i)' = End(i) /\ lists'[i] = lists[i]
      BY <1>11, <1>13, <2>3
    <3>2. Segment(i)' = Segment(i)
      BY <2>2, <3>1 DEF Segment
    <3>3. Reads(Segment(i), lists[i])' <=> Reads(Segment(i), lists[i])
      BY <3>1, <3>2 DEF Reads
    <3> QED  BY <1>9, <2>1, <3>1, <3>3
  <2>4. CASE i = n
    <3>1. Begin(i)' = m /\ End(i)' = N /\ e = f /\ lists'[i] = Append(lists[i], own)
      BY <1>11, <1>13, <2>4
    <3>2. Segment(i)' = SubSeq(b2, m + 1, N)
      BY <3>1 DEF Segment
    <3>3. SubSeq(b2, m + 1, N) = SubSeq(b2, m + 1, f) \o SubSeq(b2, f + 1, N)
      <4>1. /\ b2 \in Seq(Nat) /\ m \in Nat /\ f \in Nat /\ N \in Nat
            /\ m <= f /\ f <= N /\ N <= Len(b2)
        BY <1>1, <1>4, <1>9, <2>1, <3>1
      <4> HIDE DEF b2, m, f, N
      <4> QED  BY <4>1, PartsJoin
    <3>4. Segment(i) = SubSeq(b2, m + 1, f)
      BY <2>2, <3>1 DEF Segment
    <3>5. Segment(i)' = Segment(i) \o a
      BY <3>2, <3>3, <3>4
    <3>6. Segment(i) \o a \in Message
      <4> DEFINE q == SubSeq(b2, m + 1, N)
      <4>1. q \in Seq(Nat) /\ Len(q) = N - m
        <5>1. b2 \in Seq(Nat) /\ m \in Nat /\ N \in Nat /\ m <= N /\ N <= Len(b2)
          BY <1>1, <1>9, <2>1
        <5> HIDE DEF b2, m, N
        <5> QED  BY <5>1, PartFacts
      <4>2. N - m <= Room
        BY <1>1, <2>1
      <4> QED  BY <3>2, <3>5, <4>1, <4>2 DEF Message
    <3>7. Reads(Segment(i) \o a, Append(lists[i], own))
      <4>1. IsAttr(a, d) /\ Reads(Segment(i), lists[i])
        BY <1>9, <2>1
      <4> HIDE DEF a, d, own
      <4> QED  BY <1>10, <3>6, <4>1, ReadsAttr
    <3>8. Reads(Segment(i), lists[i])'
      BY <3>1, <3>5, <3>7 DEF Reads
    <3> QED  BY <1>1, <1>9, <2>1, <3>1, <3>8
  <2> QED  BY <2>3, <2>4
<1>15. buf' \in Message /\ Len(buf') % 2 = 0
  <2>1. N % 2 = 0
    BY DEF NetlinkInv
  <2> QED  BY <1>1, <1>9, <2>1 DEF Message
<1>16. ASSUME NEW i \in 1 .. n - 1 PROVE nests'[i] + 2 <= Len(buf') /\ buf'[nests'[i] + 2] >= Nested
  <2>1. i \in 1 .. n /\ i < n
    BY <1>1
  <2>2. /\ nests[i] \in Nat /\ nests[i] + 2 <= N /\ buf[nests[i] + 2] >= Nested
        /\ nests[i] + 2 <= f /\ f \in Nat
    BY <1>4, <2>1
  <2>3. nests[i] + 2 \in 1 .. f
    BY <2>2
  <2>4. b2[nests[i] + 2] = b1[nests[i] + 2] /\ Len(b2) = N
    BY <1>9, <2>3
  <2>5. nests'[i] = nests[i]
    BY <1>12
  <2> QED  BY <2>2, <2>4, <2>5
<1>17. ASSUME NEW i \in 1 .. n - 1, NEW j \in 1 .. n - 1, i < j PROVE nests'[i] + 2 <= nests'[j]
  <2>1. i \in 1 .. n /\ j \in 1 .. n
    BY <1>1
  <2>2. nests[i] + 2 <= nests[j]
    BY <1>17, <2>1 DEF NetlinkInv
  <2> QED  BY <1>12, <2>2
<1>18. Len(lists') = Len(nests') + 1
  BY <1>1, <1>11, <1>12
<1> QED  BY <1>11, <1>12, <1>14, <1>15, <1>16, <1>17, <1>18 DEF NetlinkInv

\* The invariant of the message: it holds of the empty one and every step keeps it.
LEMMA NetlinkInvariant == NetlinkSpec => []NetlinkInv
<1>1. NetlinkInit => NetlinkInv
  <2> SUFFICES ASSUME NetlinkInit PROVE NetlinkInv
    OBVIOUS
  <2> DEFINE e == <<>>
             l == << <<>> >>
  <2>1. buf = e /\ nests = e /\ lists = l /\ e \in Seq(Nat) /\ Len(e) = 0
    BY DEF NetlinkInit
  <2>2. l \in Seq({e}) /\ Len(l) = 1 /\ l[1] = e
    OBVIOUS
  <2>3. e \in Message /\ Reads(e, e)
    BY ReadsNothing
  <2>4. IsSeq(l)
    BY <2>2, SeqIsSeq
  <2>5. Begin(1) = 0 /\ End(1) = 0
    BY <2>1, <2>2 DEF Begin, End
  <2>6. Segment(1) = e
    BY <2>1, <2>5 DEF Segment
  <2>7. \A i \in 1 .. Len(lists) : Begin(i) <= End(i) /\ End(i) <= Len(buf) /\ Reads(Segment(i), lists[i])
    <3> TAKE i \in 1 .. Len(lists)
    <3>1. i = 1
      BY <2>1, <2>2
    <3>2. Reads(Segment(i), lists[i])
      BY <2>1, <2>2, <2>3, <2>6, <3>1
    <3> QED  BY <2>1, <2>5, <3>1, <3>2
  <2>8. Len(buf) % 2 = 0 /\ nests \in Seq(Nat) /\ Len(nests) = 0
    BY <2>1
  <2> QED  BY <2>1, <2>2, <2>3, <2>4, <2>7, <2>8 DEF NetlinkInv
<1>2. ASSUME NetlinkInv, [NetlinkNext]_netlinkVars PROVE NetlinkInv'
  <2>1. ASSUME UNCHANGED <<buf, nests, lists>> PROVE NetlinkInv'
    BY <1>2, <2>1 DEF NetlinkInv, Begin, End, Segment, Reads
  <2>2. CASE Put
    <3>1. PICK t \in Types, d \in Data :
            /\ IF NlaFits(d)
               THEN buf' = NlaPut(t, d) /\ lists' = Joins(lists, Attr(t, d)) /\ UNCHANGED refused
               ELSE refused' = TRUE /\ UNCHANGED <<buf, lists>>
            /\ UNCHANGED nests
      BY <2>2 DEF Put
    <3>2. CASE NlaFits(d)
      BY <1>2, <3>1, <3>2, PutStep
    <3>3. CASE ~NlaFits(d)
      BY <2>1, <3>1, <3>3
    <3> QED  BY <3>2, <3>3
  <2>3. CASE PutStringWithNul
    BY <2>1, <2>3 DEF PutStringWithNul
  <2>4. CASE NestStart
    <3>1. PICK t \in Types :
            IF NlaFits(<<>>)
            THEN /\ nests' = Append(nests, NestOffset)
                 /\ buf' = NlaPut(t + Nested, <<>>)
                 /\ lists' = Append(lists, <<>>)
                 /\ UNCHANGED refused
            ELSE refused' = TRUE /\ UNCHANGED <<buf, nests, lists>>
      BY <2>4 DEF NestStart
    <3>2. CASE NlaFits(<<>>)
      BY <1>2, <3>1, <3>2, NestStartStep
    <3>3. CASE ~NlaFits(<<>>)
      BY <2>1, <3>1, <3>3
    <3> QED  BY <3>2, <3>3
  <2>5. CASE NestEnd
    BY <1>2, <2>5, NestEndStep
  <2>6. CASE UNCHANGED netlinkVars
    BY <2>1, <2>6 DEF netlinkVars
  <2> QED  BY <1>2, <2>2, <2>3, <2>4, <2>5, <2>6 DEF NetlinkNext
<1> QED  BY <1>1, <1>2, PTL DEF NetlinkSpec

\* When every nest is closed, the receiver's iteration over the message, and over every
\* nest in it, visits exactly the attributes that put, nest_start and nest_end wrote, with
\* their payloads and at their depth, for every room, payload and depth of nesting.
THEOREM NetlinkReads == NetlinkSpec => []ReadsWhatWasPut
<1>1. ASSUME NetlinkInv PROVE ReadsWhatWasPut
  <2> SUFFICES ASSUME nests = <<>> PROVE Visit[buf] = lists[1]
    BY DEF ReadsWhatWasPut
  <2> DEFINE b == buf
  <2>1. b \in Seq(Nat) /\ Len(lists) = 1
    BY <1>1 DEF NetlinkInv, Message
  <2>2. Begin(1) = 0 /\ End(1) = Len(b)
    BY <2>1 DEF Begin, End
  <2>3. Segment(1) = SubSeq(b, 1, Len(b))
    BY <2>2 DEF Segment
  <2>4. SubSeq(b, 1, Len(b)) = b
    <3> HIDE DEF b
    <3> QED  BY <2>1
  <2>5. Reads(Segment(1), lists[1])
    BY <1>1, <2>1 DEF NetlinkInv
  <2> QED  BY <2>3, <2>4, <2>5, ReadsAll
<1> QED  BY <1>1, NetlinkInvariant, PTL

=============================================================================
