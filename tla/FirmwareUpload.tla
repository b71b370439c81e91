--------------------------- MODULE FirmwareUpload ---------------------------
(***************************************************************************)
(* Board::firmware_upgrade (board.rs): the four stages of opcode 8, the    *)
(* chunking of the image, the acknowledgements, and the timeout and retry  *)
(* budget each stage puts in place of the daemon's own.                    *)
(*                                                                         *)
(* A request is one step: it is answered, and then the board executed this *)
(* very request last, or it fails, and then the board may or may not have  *)
(* executed it.  That is what BoardRpc promises.  Bytes of the image are   *)
(* named by their offsets; the board's flash is the set of offsets it has  *)
(* written since it was erased.  Images are told apart by their lengths.   *)
(***************************************************************************)
EXTENDS Integers, FiniteSets, FiniteSetsExt

CONSTANTS
  Lens,        \* lengths of the images that pass validate_image
  HeaderSize,  \* length of the 2RDH header; 0x100 in the code
  ChunkSize,   \* CHUNK_SIZE
  TxBufSize,   \* TX_BUF_SIZE
  MaxUpgrades  \* bound: upgrades

ASSUME SizesAssumption ==
  /\ HeaderSize \in Nat /\ ChunkSize \in Nat \ {0} /\ TxBufSize \in Nat
  /\ \A n \in Lens : n \in Nat /\ n > HeaderSize
ASSUME BoundAssumption == MaxUpgrades \in Nat

VARIABLES
  pc,           \* "idle", the stage whose request is under way, or "panicked"
  image,        \* length of the image
  chunk,        \* chunk_idx
  retries,      \* Board.retries
  timeout,      \* Board.timeout, in ms; the socket keeps the one set at startup
  saved,        \* saved_retries and saved_timeout
  result,       \* how the last upgrade ended
  sent,         \* image bytes in the chunks the board answered
  lastAck,      \* the last acknowledgement read
  held,         \* the board: image bytes written since it erased its flash
  heldOf,       \* the board: the image they are of
  boot,         \* the board: the image it boots, "old" or "new"
  upgrades      \* upgrades so far

budgetVars == <<retries, timeout, saved>>
flashVars  == <<held, heldOf, boot>>
vars == <<pc, image, chunk, budgetVars, result, sent, lastAck, flashVars, upgrades>>

Stages == {"announce", "stream", "verify", "complete"}
StageRetries == [announce |-> 5, stream |-> 20, verify |-> 20, complete |-> 20]
StageTimeout == [announce |-> 1500, stream |-> 300, verify |-> 60000, complete |-> 60000]

NoAck       == -1
FrameHeader == 24  \* HEADER_LEN

\* The assertion of build_command_frame, for a payload of n bytes.
FrameFits(n) == FrameHeader + n <= TxBufSize

\* Mutant of TotalChunks: the division rounds down.
TotalChunksFloor(n) == (n - HeaderSize) \div ChunkSize

\* total_chunks
TotalChunks(n) == (n - HeaderSize + ChunkSize - 1) \div ChunkSize

\* The bytes of chunk k: image[offset..end].
Bytes(n, k) ==
  LET offset == HeaderSize + k * ChunkSize
  IN  offset .. Min({offset + ChunkSize, n}) - 1

\* The part of the image that follows its header.
Content(n) == HeaderSize .. n - 1

\* Mutant of NextChunk: the acknowledgement is always followed.
NextChunkResume(k, ack) == IF ack >= 0 THEN ack + 1 ELSE k + 1

\* chunk_idx after an answer: an acknowledgement moves it forward only.
NextChunk(k, ack) == (IF ack > k THEN ack ELSE k) + 1

\* Mutant of Accepted: the status is not looked at.
AcceptedAlways(r) == TRUE

\* The status check of the announce and verify stages; an answer too short to
\* hold a status passes.
Accepted(r) == r \in {"ok", "short"}

-----------------------------------------------------------------------------
(* The board.                                                              *)

\* The acknowledgement: highest chunk with no gap before it (0 if there is none).
AckOf(h) ==
  Max({0} \cup {k \in 0 .. TotalChunks(image) - 1 : \A j \in 0 .. k : Bytes(image, j) \subseteq h})

\* Announce erases the flash, unless it holds a part of this image from an upload that
\* was cut short and the board goes on from there: its acknowledgements are then ahead
\* of the sender.  A chunk is written, or dropped by a board that fell behind.
\* Complete switches to the new image, or fails to.
BoardDoes(stage) ==
  CASE stage = "announce" -> /\ held' = {} \/ (heldOf = image /\ held' = held)
                             /\ heldOf' = image /\ UNCHANGED boot
    [] stage = "stream"   -> /\ held' \in {held, held \cup Bytes(image, chunk)}
                             /\ UNCHANGED <<heldOf, boot>>
    [] stage = "verify"   -> UNCHANGED flashVars
    [] stage = "complete" -> boot' \in {boot, "new"} /\ UNCHANGED <<held, heldOf>>

\* A board that rejects a stage says so; one that accepts it may be brief.
AnnounceAnswers == {"ok", "short", "rejected"}
VerifyAnswers ==
  IF Content(image) \subseteq held THEN {"ok", "short"} ELSE {"rejected"}

-----------------------------------------------------------------------------
Init ==
  /\ pc = "idle" /\ image \in Lens /\ chunk = 0
  /\ retries = 3 /\ timeout = 2000
  /\ saved = [retries |-> 3, timeout |-> 2000]
  /\ result = "none" /\ sent = {} /\ lastAck = NoAck
  /\ held = {} /\ heldOf = 0 /\ boot = "old" /\ upgrades = 0

\* The stage's own budget; only the fields of Board are assigned.
Enter(stage) ==
  /\ pc' = stage
  /\ retries' = StageRetries[stage]
  /\ timeout' = StageTimeout[stage]
  /\ UNCHANGED saved

Restore ==
  /\ retries' = saved.retries
  /\ timeout' = saved.timeout
  /\ UNCHANGED saved

\* firmware_upgrade is called with an image of n bytes.
Begin(n) ==
  /\ pc = "idle"
  /\ upgrades < MaxUpgrades
  /\ upgrades' = upgrades + 1
  /\ image' = n
  /\ chunk' = 0 /\ sent' = {} /\ lastAck' = NoAck
  /\ result' = "none"
  /\ saved' = [retries |-> retries, timeout |-> timeout]
  /\ pc' = "announce"
  /\ retries' = StageRetries["announce"] /\ timeout' = StageTimeout["announce"]
  /\ UNCHANGED flashVars

\* The board answered the announcement.
Announce(r) ==
  /\ pc = "announce"
  /\ IF r = "rejected" THEN UNCHANGED flashVars ELSE BoardDoes("announce")
  /\ IF Accepted(r)
     THEN Enter("stream") /\ UNCHANGED result
     ELSE pc' = "idle" /\ result' = "rejected" /\ Restore
  /\ UNCHANGED <<image, chunk, sent, lastAck, upgrades>>

ChunkPayload == 3 + Cardinality(Bytes(image, chunk))

\* The board answered the chunk, briefly or with an acknowledgement.
ChunkAnswered(brief) ==
  /\ BoardDoes("stream")
  /\ sent' = sent \cup Bytes(image, chunk)
  /\ lastAck' = IF brief THEN NoAck ELSE AckOf(held')
  /\ chunk' = NextChunk(chunk, lastAck')
  /\ IF chunk' < TotalChunks(image) THEN UNCHANGED <<pc, budgetVars>> ELSE Enter("verify")

\* One turn of the streaming loop.  The frame is built first, and if it does not
\* fit its buffer the assertion aborts the process.
Stream(brief) ==
  /\ pc = "stream"
  /\ IF FrameFits(ChunkPayload)
     THEN ChunkAnswered(brief)
     ELSE pc' = "panicked" /\ UNCHANGED <<chunk, budgetVars, sent, lastAck, flashVars>>
  /\ UNCHANGED <<image, result, upgrades>>

\* The board answered the verify request.
Verify(r) ==
  /\ pc = "verify"
  /\ BoardDoes("verify")
  /\ IF Accepted(r)
     THEN Enter("complete") /\ UNCHANGED result
     ELSE pc' = "idle" /\ result' = "rejected" /\ Restore
  /\ UNCHANGED <<image, chunk, sent, lastAck, upgrades>>

\* The board answered the complete request; the status in it is handed on.
Complete ==
  /\ pc = "complete"
  /\ BoardDoes("complete")
  /\ pc' = "idle" /\ result' = "ok" /\ Restore
  /\ UNCHANGED <<image, chunk, sent, lastAck, upgrades>>

\* A request fails and `?` returns the error; the board executed it or not.
RequestFails ==
  /\ pc \in Stages
  /\ pc = "stream" => FrameFits(ChunkPayload)
  /\ BoardDoes(pc) \/ UNCHANGED flashVars
  /\ pc' = "idle"
  /\ result' = "error"
  /\ UNCHANGED <<image, chunk, budgetVars, sent, lastAck, upgrades>>

Step ==
  \/ \E r \in AnnounceAnswers : Announce(r)
  \/ \E brief \in BOOLEAN : Stream(brief)
  \/ \E r \in VerifyAnswers : Verify(r)
  \/ Complete
  \/ RequestFails

Next == (\E n \in Lens : Begin(n)) \/ Step

Spec == Init /\ [][Next]_vars

\* Every request returns (BoardRequest), so the upload keeps moving.
FairSpec == Spec /\ WF_vars(Step)

-----------------------------------------------------------------------------
\* By the time the board is asked to verify, every byte after the header has been in a
\* chunk it answered or was in its flash before: no rounding, no index skipped on an
\* acknowledgement leaves a gap, at the last, shorter chunk in particular.
AllSentAtVerify == pc \in {"verify", "complete"} => Content(image) \subseteq sent \cup held

\* An upgrade is reported done only for an image the board holds in full, although
\* chunks it dropped are not sent again and any request may have been repeated.
DoneMeansFlashed == result = "ok" => Content(image) \subseteq held

\* Every upload ends, however far behind the board falls.
UploadEnds == (pc \in Stages) ~> (pc \in {"idle", "panicked"})

\* No chunk is larger than the transmit buffer, the maximum the code says it
\* ever sends.
NoPanic == pc # "panicked"
=============================================================================
