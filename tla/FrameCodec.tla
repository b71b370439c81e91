----------------------------- MODULE FrameCodec ------------------------------
(***************************************************************************)
(* The board's frame, cell by cell (frame.rs, checksum.rs): it is built,   *)
(* padded, damaged on the wire or cut short by the receiver's buffer,      *)
(* parsed and verified.                                                    *)
(*                                                                         *)
(* The addresses and the EtherType are one cell, the sequence number and   *)
(* the payload length one each, the checksum two, as in the code.          *)
(***************************************************************************)
EXTENDS Integers, Sequences

CONSTANTS
  Checksum(_), \* compute_checksum
  CellMod,     \* values of a cell
  Payloads,    \* payloads of commands
  Seqs,        \* sequence numbers
  MinFrame,    \* MIN_FRAME
  Burst        \* neighbouring cells that may be damaged together

ASSUME FrameAssumption ==
  /\ CellMod \in Nat \ {0} /\ MinFrame \in Nat /\ Burst \in Nat /\ Seqs \subseteq Nat
  /\ \A p \in Payloads : p \in Seq(Nat) /\ Len(p) < CellMod

VARIABLES
  sent,   \* what was asked to be built
  frame,  \* the frame on the wire
  damage, \* none, or where it was hit
  verdict \* what the receiver makes of it

frameVars == <<sent, frame, damage, verdict>>

Cell == 0 .. CellMod - 1
Command == 2

\* Offsets, counted from 0.
Address == 0
OffMagic == 1
OffSubtype == 2
OffSeq == 3
OffPayloadLen == 4
OffChecksum == 5
OffPayload == 7
HeaderLen == 7
CoverHeaderBytes == 6

At(f, off) == f[off + 1]
Slice(f, a, b) == SubSeq(f, a + 1, b)

\* to_be_bytes
Bytes(c) == <<c \div CellMod, c % CellMod>>

\* Where the covered region ends (crc_covered_region, verify_checksum).
CoverEndShort(f) == At(f, OffPayloadLen) + CoverHeaderBytes

CoverEnd(f) == OffMagic + At(f, OffPayloadLen) + CoverHeaderBytes

\* crc_covered_region: the checksum's own cells count as zero.
CrcCovered(f) ==
  Checksum(Slice(f, OffMagic, OffChecksum) \o <<0, 0>> \o
           Slice(f, OffChecksum + 2, CoverEnd(f)))

\* set_checksum
SetChecksum(f) ==
  LET c == Bytes(CrcCovered(f))
  IN [f EXCEPT ![OffChecksum + 1] = c[1], ![OffChecksum + 2] = c[2]]

\* build_command_frame; the length is cut to the width of its field.
BuildCommandFrame(op, seq, payload) ==
  SetChecksum(<<3, Command, op, seq, Len(payload) % CellMod, 0, 0>> \o payload)

\* Board::request transmits at least MIN_FRAME bytes of a zeroed buffer.
Pad(f) == f \o [i \in 1 .. (IF Len(f) < MinFrame THEN MinFrame - Len(f) ELSE 0) |-> 0]

\* Frame::parse
Parses(f) == Len(f) >= HeaderLen /\ Len(f) >= OffPayload + At(f, OffPayloadLen)

\* verify_checksum
VerifyChecksum(f) ==
  /\ Len(f) >= OffMagic + CoverHeaderBytes
  /\ Len(f) - (OffMagic + CoverHeaderBytes) >= At(f, OffPayloadLen)
  /\ Slice(f, OffChecksum, OffChecksum + 2) = Bytes(CrcCovered(f))

\* Mutant of PayloadOf: the padding is taken for payload.
PayloadOfAll(f) == Slice(f, OffPayload, Len(f))

\* Frame::payload
PayloadOf(f) == Slice(f, OffPayload, OffPayload + At(f, OffPayloadLen))

-----------------------------------------------------------------------------
NotSent == [op |-> 0, seq |-> 0, payload |-> <<>>]
Intact == [from |-> 0, to |-> 0]

FrameInit == sent = NotSent /\ frame = <<>> /\ damage = Intact /\ verdict = "unsent"

Build ==
  /\ verdict = "unsent"
  /\ \E op \in Cell, seq \in Seqs, payload \in Payloads :
       /\ sent' = [op |-> op, seq |-> seq, payload |-> payload]
       /\ frame' = Pad(BuildCommandFrame(op, seq, payload))
  /\ verdict' = "sent"
  /\ UNCHANGED damage

\* A run of neighbouring cells arrives changed, at both ends at least.
Damage ==
  /\ verdict = "sent" /\ damage = Intact
  /\ \E i, j \in DOMAIN frame :
       /\ i <= j /\ j < i + Burst
       /\ \E v \in [i .. j -> Cell] :
            /\ v[i] # frame[i] /\ v[j] # frame[j]
            /\ frame' = [k \in DOMAIN frame |-> IF k \in i .. j THEN v[k] ELSE frame[k]]
       /\ damage' = [from |-> i - 1, to |-> j]
  /\ UNCHANGED <<sent, verdict>>

\* The receiver gets only the beginning of it.
Cut ==
  /\ verdict = "sent" /\ damage = Intact
  /\ \E n \in 0 .. Len(frame) - 1 :
       /\ frame' = Slice(frame, 0, n)
       /\ damage' = [from |-> n, to |-> Len(frame)]
  /\ UNCHANGED <<sent, verdict>>

\* The receive loop parses, then verifies.
Receive ==
  /\ verdict = "sent"
  /\ verdict' = IF ~Parses(frame) THEN "no frame"
                ELSE IF ~VerifyChecksum(frame) THEN "bad checksum" ELSE "accepted"
  /\ UNCHANGED <<sent, frame, damage>>

FrameNext == Build \/ Damage \/ Cut \/ Receive

FrameSpec == FrameInit /\ [][FrameNext]_frameVars

-----------------------------------------------------------------------------
(* Properties *)

Hit(a, b) == damage.from < b /\ a < damage.to

\* The offset at which the frame's covered region ends, from what was sent.
EndOfSent == OffPayload + Len(sent.payload)

\* A frame that reached the receiver whole, or damaged or cut only where the
\* checksum does not look (the addresses, the padding), is accepted, and the
\* receiver reads the payload, opcode and sequence number that were sent: for
\* whatever function compute_checksum is.
AcceptsWhatWasSent ==
  verdict \notin {"unsent", "sent"} /\ ~Hit(OffMagic, EndOfSent) /\ Len(frame) >= EndOfSent =>
    /\ verdict = "accepted"
    /\ PayloadOf(frame) = sent.payload
    /\ At(frame, OffSubtype) = sent.op /\ At(frame, OffSeq) = sent.seq

\* With the CRC for a checksum: damage no longer than it, confined to the fields
\* before the length, to the checksum, or to the payload, is never accepted, and
\* neither is a frame cut inside them.  (Damage to the length moves the end of the
\* region, and damage across a border of the checksum is not a burst of the code
\* word: neither is detected for certain.)
DamageDetected ==
  verdict = "accepted" =>
    \A region \in {<<OffMagic, OffPayloadLen>>, <<OffChecksum, OffPayload>>,
                   <<OffPayload, EndOfSent>>} :
      ~(damage # Intact /\ region[1] <= damage.from /\ damage.to <= region[2])
=============================================================================
