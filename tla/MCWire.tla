------------------------------- MODULE MCWire --------------------------------
(***************************************************************************)
(* The components that work cell by cell, for TLC: board frames, the ubus  *)
(* connection and netlink messages.  They share nothing, so a behaviour is *)
(* a behaviour of one of them, with the other two as they begin.           *)
(***************************************************************************)
EXTENDS FrameCodec, Crc, UbusTransport, NetlinkAttr

\* Payloads of frames up to the largest length a cell can hold.
MCPayloads == UNION {[1 .. n -> Cell] : n \in 0 .. CellMod - 1}

\* More than fits in the receive buffer, with the smallest and largest message.
MCSizes == <<1, 3, 2, 3, 2>>

\* Payloads of attributes that need padding and payloads that do not.
MCData == {<<>>, <<0>>, <<2, 1>>, <<2, 2, 2>>}

VARIABLE part  \* the component that runs

wireVars == <<part, frameVars, ubusVars, netlinkVars>>

WireInit ==
  /\ part \in {"frames", "ubus", "netlink"}
  /\ FrameInit /\ UbusInit /\ NetlinkInit

FrameStep == part = "frames" /\ FrameNext /\ UNCHANGED <<part, ubusVars, netlinkVars>>

UbusStep == part = "ubus" /\ UbusNext /\ UNCHANGED <<part, frameVars, netlinkVars>>

NetlinkStep == part = "netlink" /\ NetlinkNext /\ UNCHANGED <<part, frameVars, ubusVars>>

WireNext == FrameStep \/ UbusStep \/ NetlinkStep

WireSpec == WireInit /\ [][WireNext]_wireVars /\ WF_wireVars(UbusStep /\ PollStep)
=============================================================================
