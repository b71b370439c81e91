------------------------ MODULE FirmwareUploadProofs -------------------------
(***************************************************************************)
(* Theorems about FirmwareUpload, for any header, chunk and buffer size,   *)
(* any image lengths and any number of upgrades.                           *)
(***************************************************************************)
EXTENDS FirmwareUpload, WellFoundedInduction, TLAPS

-----------------------------------------------------------------------------
(* Numbers.                                                                *)

\* A set of naturals that is not empty has a least element.
LEMMA LeastNatural ==
  ASSUME NEW T \in SUBSET Nat, T # {}
  PROVE  \E x \in T : \A y \in T : x <= y
<1>1. PICK x \in T : \A y \in T : ~(<<y, x>> \in OpToRel(<, Nat))
  BY NatLessThanWellFounded, WFMin, Zenon
<1>2. ASSUME NEW y \in T PROVE x <= y
  <2>1. ~(y < x)
    BY <1>1 DEF OpToRel
  <2> QED  BY <2>1
<1> QED  BY <1>2

\* The Max of a set of naturals that has a bound and an element is one of them: its
\* least upper bound.
LEMMA MaxInSet ==
  ASSUME NEW S \in SUBSET Nat, S # {}, NEW b \in Nat, \A s \in S : s <= b
  PROVE  Max(S) \in S /\ \A s \in S : s <= Max(S)
<1> DEFINE U == {u \in Nat : \A s \in S : s <= u}
<1>1. PICK m \in U : \A u \in U : m <= u
  <2>1. b \in U
    OBVIOUS
  <2> QED  BY <2>1, LeastNatural
<1>2. m \in S
  <2> SUFFICES ASSUME m \notin S PROVE FALSE
    OBVIOUS
  <2>1. PICK s0 \in S : TRUE
    OBVIOUS
  <2>2. m - 1 \in Nat
    BY <2>1
  <2>3. m - 1 \in U
    BY <2>2
  <2> QED  BY <1>1, <2>2, <2>3
<1>3. \A s \in S : m >= s
  OBVIOUS
<1> QED  BY <1>2, <1>3 DEF Max

\* Division as the code's integers do it.
LEMMA DivFacts ==
  ASSUME NEW x \in Nat, NEW c \in Nat \ {0}
  PROVE  /\ x \div c \in Nat
         /\ c * (x \div c) <= x
         /\ x < c * (x \div c) + c
OBVIOUS

-----------------------------------------------------------------------------
(* Chunks.                                                                 *)

\* Chunk k has the bytes of the image between two multiples of the chunk size.
LEMMA BytesFacts ==
  ASSUME NEW n \in Nat, NEW k \in Nat, NEW b \in Nat
  PROVE  b \in Bytes(n, k) <=> /\ HeaderSize + k * ChunkSize <= b
                               /\ b < HeaderSize + k * ChunkSize + ChunkSize
                               /\ b < n
<1> DEFINE off == HeaderSize + k * ChunkSize
           e == off + ChunkSize
<1>1. off \in Nat /\ e \in Nat
  BY SizesAssumption
<1> HIDE DEF off
<1>2. Min({e, n}) = IF e <= n THEN e ELSE n
  BY <1>1 DEF Min
<1>3. Bytes(n, k) = off .. Min({e, n}) - 1
  BY DEF Bytes, off
<1> QED  BY <1>1, <1>2, <1>3 DEF off

\* Every byte after the header is in one of the total_chunks chunks: the division
\* rounds up, and the last chunk ends with the image.
LEMMA ChunksCover ==
  ASSUME NEW n \in Lens, NEW b \in Content(n)
  PROVE  /\ TotalChunks(n) \in Nat
         /\ \E k \in 0 .. TotalChunks(n) - 1 : b \in Bytes(n, k)
<1> DEFINE x == b - HeaderSize
           y == n - HeaderSize + ChunkSize - 1
           q == x \div ChunkSize
<1>1. /\ n \in Nat /\ b \in Nat /\ x \in Nat /\ y \in Nat /\ ChunkSize \in Nat \ {0}
      /\ x + ChunkSize <= y /\ b < n /\ HeaderSize \in Nat
  BY SizesAssumption DEF Content
<1>2. TotalChunks(n) \in Nat /\ y < ChunkSize * TotalChunks(n) + ChunkSize
  BY <1>1, DivFacts DEF TotalChunks
<1>3. q \in Nat /\ ChunkSize * q <= x /\ x < ChunkSize * q + ChunkSize
  BY <1>1, DivFacts
<1> HIDE DEF q
<1>4. q < TotalChunks(n)
  <2> SUFFICES ASSUME TotalChunks(n) <= q PROVE FALSE
    BY <1>2, <1>3
  <2>1. ChunkSize * TotalChunks(n) <= ChunkSize * q
    BY <1>1, <1>2, <1>3
  <2> QED  BY <1>1, <1>2, <1>3, <2>1
<1>5. b \in Bytes(n, q)
  <2>1. q * ChunkSize = ChunkSize * q
    BY <1>1, <1>3
  <2> QED  BY <1>1, <1>3, <2>1, BytesFacts
<1> QED  BY <1>2, <1>3, <1>4, <1>5

\* An acknowledgement is a chunk number, and all chunks up to it are held, unless it
\* is the 0 of a board that holds no chunk at all.
LEMMA AckFacts ==
  ASSUME NEW h, image \in Lens
  PROVE  /\ AckOf(h) \in Nat
         /\ AckOf(h) > 0 => \A j \in 0 .. AckOf(h) : Bytes(image, j) \subseteq h
<1> DEFINE K == {k \in 0 .. TotalChunks(image) - 1 : \A j \in 0 .. k : Bytes(image, j) \subseteq h}
           S == {0} \cup K
<1>1. TotalChunks(image) \in Nat
  <2>1. /\ image - HeaderSize + ChunkSize - 1 \in Nat /\ ChunkSize \in Nat \ {0}
    BY SizesAssumption
  <2> QED  BY <2>1, DivFacts DEF TotalChunks
<1>2. S \in SUBSET Nat /\ S # {} /\ \A s \in S : s <= TotalChunks(image)
  BY <1>1
<1>3. Max(S) \in S
  <2> HIDE DEF S
  <2> QED  BY <1>1, <1>2, MaxInSet
<1>4. AckOf(h) = Max(S)
  BY DEF AckOf
<1> QED  BY <1>2, <1>3, <1>4

\* An acknowledgement moves the chunk index forward, or is ignored.
LEMMA NextChunkFacts ==
  ASSUME NEW k \in Nat, NEW a \in Int
  PROVE  /\ NextChunk(k, a) \in Nat
         /\ a > k => NextChunk(k, a) - 1 = a
         /\ ~(a > k) => NextChunk(k, a) = k + 1
BY DEF NextChunk

-----------------------------------------------------------------------------
(* The upload.                                                             *)

\* While chunks are streamed, every byte of the chunks before the next one was answered
\* or is held; later stages rest on what the stage before them found.
UploadInv ==
  /\ image \in Lens /\ chunk \in Nat
  /\ pc \in Stages \cup {"idle", "panicked"}
  /\ pc = "announce" => chunk = 0
  /\ pc = "stream" => \A j \in 0 .. chunk - 1 : Bytes(image, j) \subseteq sent \cup held
  /\ AllSentAtVerify
  /\ pc = "complete" => Content(image) \subseteq held
  /\ result = "ok" => pc = "idle" /\ Content(image) \subseteq held

\* The chunk loop leaves no gap, whatever the board acknowledges, and everything has
\* been answered or is held when it ends.
LEMMA ChunkStep ==
  ASSUME UploadInv, pc = "stream", image' = image, result' = result,
         sent' = sent \cup Bytes(image, chunk), held \subseteq held',
         lastAck' \in {NoAck, AckOf(held')},
         chunk' = NextChunk(chunk, lastAck'),
         pc' = IF chunk' < TotalChunks(image) THEN "stream" ELSE "verify"
  PROVE  UploadInv'
<1> USE DEF UploadInv
<1> DEFINE B == Bytes(image, chunk)
           G(j) == Bytes(image, j) \subseteq sent' \cup held'
<1>1. sent' = sent \cup B /\ held \subseteq held'
  OBVIOUS
<1>3. lastAck' \in Int /\ (lastAck' > chunk => \A j \in 0 .. lastAck' : Bytes(image, j) \subseteq held')
  BY AckFacts DEF NoAck
<1>4. chunk' = NextChunk(chunk, lastAck')
  OBVIOUS
<1>5. chunk' \in Nat /\ \A j \in 0 .. chunk' - 1 : G(j)
  <2>1. CASE lastAck' > chunk
    <3>1. chunk' \in Nat /\ chunk' - 1 = lastAck'
      BY <1>3, <1>4, <2>1, NextChunkFacts
    <3>2. \A j \in 0 .. lastAck' : G(j)
      BY <1>3, <2>1
    <3> HIDE DEF G
    <3> QED  BY <3>1, <3>2
  <2>2. CASE ~(lastAck' > chunk)
    <3>1. chunk' = chunk + 1
      BY <1>3, <1>4, <2>2, NextChunkFacts
    <3>2. ASSUME NEW j \in 0 .. chunk' - 1 PROVE G(j)
      <4>1. CASE j = chunk
        BY <1>1, <4>1
      <4>2. CASE j # chunk
        <5>1. Bytes(image, j) \subseteq sent \cup held
          BY <3>1, <4>2
        <5> QED  BY <1>1, <5>1
      <4> QED  BY <4>1, <4>2
    <3> QED  BY <3>1, <3>2
  <2> QED  BY <2>1, <2>2
<1>6. image' = image /\ image \in Lens
  OBVIOUS
<1>7. result' # "ok"
  OBVIOUS
<1>8. CASE chunk' < TotalChunks(image)
  <2>1. pc' = "stream"
    BY <1>8
  <2> QED  BY <1>5, <1>6, <1>7, <2>1 DEF Stages, AllSentAtVerify
<1>9. CASE ~(chunk' < TotalChunks(image))
  <2>1. pc' = "verify"
    BY <1>9
  <2>2. ASSUME NEW b \in Content(image) PROVE b \in sent' \cup held'
    <3>1. PICK k \in 0 .. TotalChunks(image) - 1 : b \in Bytes(image, k)
      BY ChunksCover
    <3>2. TotalChunks(image) \in Nat
      BY ChunksCover
    <3>3. chunk' \in Nat
      BY <1>5
    <3>4. k \in 0 .. chunk' - 1
      BY <1>9, <3>1, <3>2, <3>3
    <3> QED  BY <1>5, <3>1, <3>4
  <2>3. (Content(image) \subseteq sent \cup held)'
    BY <1>6, <2>2
  <2> QED  BY <1>5, <1>6, <1>7, <2>1, <2>3 DEF Stages, AllSentAtVerify
<1> QED  BY <1>8, <1>9

\* Every step of an upload keeps the invariant.
LEMMA UploadStep == UploadInv /\ [Next]_vars => UploadInv'
<1> SUFFICES ASSUME UploadInv, [Next]_vars PROVE UploadInv'
  OBVIOUS
<1> USE DEF UploadInv, AllSentAtVerify, Stages
<1>1. ASSUME NEW n \in Lens, Begin(n) PROVE UploadInv'
  BY <1>1 DEF Begin
<1>2. ASSUME NEW r \in AnnounceAnswers, Announce(r) PROVE UploadInv'
  <2>1. CASE Accepted(r)
    <3>1. pc' = "stream" /\ chunk' = 0
      BY <1>2, <2>1 DEF Announce, Enter
    <3> QED  BY <1>2, <2>1, <3>1 DEF Announce, Accepted
  <2>2. CASE ~Accepted(r)
    BY <1>2, <2>2 DEF Announce
  <2> QED  BY <2>1, <2>2
<1>3. ASSUME NEW brief \in BOOLEAN, Stream(brief) PROVE UploadInv'
  <2>1. CASE FrameFits(ChunkPayload)
    <3>1. /\ pc = "stream" /\ ChunkAnswered(brief)
          /\ image' = image /\ result' = result
      BY <1>3, <2>1 DEF Stream
    <3>2. sent' = sent \cup Bytes(image, chunk) /\ chunk' = NextChunk(chunk, lastAck')
      BY <3>1 DEF ChunkAnswered
    <3>3. held \subseteq held'
      BY <3>1 DEF ChunkAnswered, BoardDoes
    <3>4. lastAck' \in {NoAck, AckOf(held')}
      BY <3>1 DEF ChunkAnswered
    <3>5. pc' = IF chunk' < TotalChunks(image) THEN "stream" ELSE "verify"
      BY <3>1 DEF ChunkAnswered, Enter
    <3> HIDE DEF UploadInv
    <3> QED  BY <3>1, <3>2, <3>3, <3>4, <3>5, ChunkStep
  <2>2. CASE ~FrameFits(ChunkPayload)
    BY <1>3, <2>2 DEF Stream, flashVars
  <2> QED  BY <2>1, <2>2
<1>4. ASSUME NEW r \in VerifyAnswers, Verify(r) PROVE UploadInv'
  <2>1. UNCHANGED <<held, image, chunk, sent>> /\ pc = "verify"
    BY <1>4 DEF Verify, BoardDoes, flashVars
  <2>2. CASE Accepted(r)
    <3>1. Content(image) \subseteq held
      BY <1>4, <2>2 DEF VerifyAnswers, Accepted
    <3>2. pc' = "complete" /\ result' = result
      BY <1>4, <2>2 DEF Verify, Enter
    <3> QED  BY <2>1, <3>1, <3>2
  <2>3. CASE ~Accepted(r)
    BY <1>4, <2>1, <2>3 DEF Verify
  <2> QED  BY <2>2, <2>3
<1>5. CASE Complete
  BY <1>5 DEF Complete, BoardDoes
<1>6. CASE RequestFails
  BY <1>6 DEF RequestFails
<1>7. CASE UNCHANGED vars
  BY <1>7 DEF vars, flashVars
<1> QED  BY <1>1, <1>2, <1>3, <1>4, <1>5, <1>6, <1>7 DEF Next, Step

LEMMA UploadInvariant == Spec => []UploadInv
<1>1. Init => UploadInv
  BY DEF Init, UploadInv, AllSentAtVerify, Stages
<1> QED  BY <1>1, UploadStep, PTL DEF Spec

\* For any sizes, firmware_upgrade asks the board to verify only when every byte after
\* the header has been in a chunk the board answered or was in its flash before.
THEOREM AllSentCorrect == Spec => []AllSentAtVerify
<1>1. UploadInv => AllSentAtVerify
  BY DEF UploadInv
<1> QED  BY <1>1, UploadInvariant, PTL

\* For any sizes, firmware_upgrade returns Ok only for an image the board holds in
\* full.
THEOREM DoneCorrect == Spec => []DoneMeansFlashed
<1>1. UploadInv => DoneMeansFlashed
  BY DEF UploadInv, DoneMeansFlashed
<1> QED  BY <1>1, UploadInvariant, PTL
=============================================================================
