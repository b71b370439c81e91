------------------------------ MODULE FwExtract ------------------------------
(***************************************************************************)
(* fwextract (src/fwextract/src/main.rs): one run of the tool, from its    *)
(* command line to the files it leaves behind.                             *)
(*                                                                         *)
(* A file is a sequence of cells.  The layout is the code's with its       *)
(* lengths scaled down: a 32-bit field is one cell, and the tag header,    *)
(* the chunk header, the signature, the AES block and the version's offset *)
(* are the constants below.  What is printed is left out, but not that     *)
(* printing can abort the run: println! and eprintln! panic if the message *)
(* cannot be written (a closed pipe, a full disk), and so does the slice   *)
(* of the version line.                                                    *)
(***************************************************************************)
EXTENDS Integers, Sequences

CONSTANTS
  Files,      \* containers the tool may be given
  Argvs,      \* command lines, as sequences of Tokens
  KeyFiles,   \* contents of the RSA key file
  Recovered,  \* messages a signature may decrypt to
  Base,       \* number of values of a cell
  TagHeader,  \* TAG_HEADER_LEN
  SigLen,     \* bytes of an RSA-2048 signature
  Block,      \* bytes of an AES block, and of the IV
  KeyLen,     \* bytes of the AES key
  VersionAt,  \* offset of the version in a remote image
  Magic,      \* "2RDH"
  Absent, Stale  \* contents of an output file that is not there, or is of an earlier run

ChunkHead == 2   \* type and length
TotalAt == 2     \* cell of total_image_len

ASSUME LayoutAssumption ==
  /\ {TagHeader, SigLen, Block, KeyLen, VersionAt, Base} \subseteq Nat \ {0}
  /\ TagHeader >= TotalAt
  /\ \A f \in Files : f \in Seq(0 .. Base - 1)
  /\ \A em \in Recovered : em.db \in Seq(0 .. Base - 1)

VARIABLES
  pc,    \* where main is
  argv,  \* command line not parsed yet
  args,  \* what parse_args has found
  built, \* the binary has the decrypt feature
  orig,  \* the container as read
  data,  \* the container in memory
  tag,   \* what parse_chunks returned
  written, \* output files written
  out,   \* the output files
  exit   \* exit code

vars == <<pc, argv, args, built, orig, data, tag, written, out, exit>>

\* "main path" is the path of the file that --all adds, <stem>_main.bin.
Tokens == {"--help", "--output", "--all", "--decrypt", "--rsa-key", "--split", "-x",
           "path", "main path"}
Outputs == {"named", "main", "host", "remote"}
Panic == 101

\* same: the file --output names is the one that --all adds.
NoArgs == [fw |-> FALSE, same |-> FALSE, all |-> FALSE,
           decrypt |-> FALSE, key |-> FALSE, split |-> FALSE]
NoTag == [len |-> 0, sig |-> <<>>]

\* An output file: what is in it, and whether this run created or emptied it.
File(c) == [touched |-> TRUE, cells |-> c]

Init ==
  /\ pc = "args" /\ argv \in Argvs /\ args = NoArgs /\ built \in BOOLEAN
  /\ orig = <<>> /\ data = <<>> /\ tag = NoTag /\ written = 0
  /\ \E c \in {Absent, Stale} : out = [n \in Outputs |-> [touched |-> FALSE, cells |-> c]]
  /\ exit = -1

-----------------------------------------------------------------------------
(* The container. *)

\* The cells from offset a up to offset b, both counted from 0.
Slice(d, a, b) == SubSeq(d, a + 1, b)

\* parse_chunks, one turn of its loop: the chunk at offset at and, unless it is
\* the last one, what comes after it.  The chunks end with one of type 0, one
\* whose length makes no sense, or the end of the file.
ChunkFrom(d, at, after) ==
  LET type == d[at + 1]
      len == d[at + 2]
      body == Slice(d, at + ChunkHead, at + len)
      own == IF Len(body) > SigLen THEN SubSeq(body, 1, SigLen) ELSE body
  IN IF at + ChunkHead > Len(d) THEN NoTag
     ELSE IF len < ChunkHead \/ at + len > Len(d) THEN NoTag
     ELSE IF type = 0 THEN [len |-> len, sig |-> <<>>]
     ELSE [len |-> len + after[at + len].len,
           sig |-> IF type = 1 /\ own # <<>> THEN own ELSE after[at + len].sig]

\* The chunks from each offset on.
Chunks(d) ==
  LET chunks[at \in 0 .. Len(d)] == ChunkFrom(d, at, chunks) IN chunks

\* parse_chunks: the chunks follow the tag header.
ParseChunks(d) ==
  [len |-> TagHeader + Chunks(d)[TagHeader].len, sig |-> Chunks(d)[TagHeader].sig]

HostStart == tag.len
RemoteWithoutTag == data[TotalAt]

RemoteStart == tag.len + data[TotalAt]

Host == Slice(data, HostStart, HostStart + data[TotalAt])
Remote == Slice(data, RemoteStart, Len(data))

\* Offset at which the version line's slice ends: the first zero, or twice
\* its own offset.
VersionEnd(r) ==
  LET zeros == {i \in VersionAt .. Len(r) - 1 : r[i + 1] = 0}
  IN IF zeros = {} THEN 2 * VersionAt ELSE CHOOSE i \in zeros : \A j \in zeros : i <= j

VersionPanics(r) ==
  Len(r) >= VersionAt /\ r[1] = Magic /\ VersionEnd(r) > Len(r)

-----------------------------------------------------------------------------
(* The key and the cipher. *)

\* parse_rsa_pubkey_blob
InvalidKeys == {"short", "not a blob", "no magic", "truncated"}

\* modpow with a zero modulus, or a message longer than the 256 bytes it is
\* padded to.
KeyMayPanic(k) == k \in {"empty modulus", "long modulus"}

\* extract_aes_key, from the message RSA recovered: zeros, a one, the salt.
SaltOf(em) ==
  LET nonzero == {i \in DOMAIN em.db : em.db[i] # 0}
      first == CHOOSE i \in nonzero : \A j \in nonzero : i <= j
  IN IF nonzero = {} \/ ~em.trailer THEN <<>>
     ELSE IF em.db[first] # 1 THEN <<>>
     ELSE SubSeq(em.db, first + 1, Len(em.db))

\* AES on one block, and the sum that stands for the exclusive or.
Cipher(k, b) == [i \in 1 .. Block |-> ((b[Block + 1 - i] + k[1]) % Base)]
Decipher(k, b) == [i \in 1 .. Block |-> (b[Block + 1 - i] - k[1]) % Base]
Plus(a, b) == [i \in 1 .. Block |-> (a[i] + b[i]) % Base]
Minus(a, b) == [i \in 1 .. Block |-> (a[i] - b[i]) % Base]

BlockOf(d, i) == Slice(d, (i - 1) * Block, i * Block)

\* What block i is chained with: the ciphertext before it, saved before the
\* block was overwritten.
PrevNotUpdated(d, iv, i) == iv
PrevBlock(d, iv, i) == IF i = 1 THEN iv ELSE BlockOf(d, i - 1)

\* The part that is decrypted: whole blocks from the end of the tag on.
AlignedLen(d, start) == ((Len(d) - start) \div Block) * Block

\* aes_cbc_decrypt of d from offset start on, in place.
Decrypted(d, start, k, iv) ==
  LET enc == Slice(d, start, start + AlignedLen(d, start))
  IN [j \in DOMAIN d |->
        IF j <= start \/ j > start + Len(enc) THEN d[j]
        ELSE LET i == (j - start - 1) \div Block + 1
             IN Minus(Decipher(k, BlockOf(enc, i)), PrevBlock(enc, iv, i))
                  [((j - start - 1) % Block) + 1]]

-----------------------------------------------------------------------------
(* The command line. *)

\* The process ends.
End(code) == pc' = "exit" /\ exit' = code

\* main says why and returns; a message that cannot be printed panics.
Exit(code) == End(code) \/ End(Panic)

\* main prints what it found and goes on.
Continue(stage) == (pc' = stage /\ UNCHANGED exit) \/ End(Panic)

\* parse_args, one turn of its loop.  An option takes whatever follows it.
ParseArg ==
  /\ pc = "args" /\ argv # <<>>
  /\ UNCHANGED <<built, orig, data, tag, written, out>>
  /\ LET t == Head(argv)
         more == Len(argv) > 1
         Set(f) == args' = [args EXCEPT ![f] = TRUE] /\ UNCHANGED <<pc, exit>>
         One(f) == Set(f) /\ argv' = Tail(argv)
         Two(f) == Set(f) /\ argv' = Tail(Tail(argv))
         Reject(code) == Exit(code) /\ argv' = <<>> /\ UNCHANGED args
     IN \/ t = "--help" /\ Reject(0)
        \/ t = "--all" /\ One("all")
        \/ t = "--decrypt" /\ built /\ One("decrypt")
        \/ t = "--decrypt" /\ ~built /\ Reject(2)
        \/ /\ t = "--output" /\ more
           /\ args' = [args EXCEPT !.same = (argv[2] = "main path")]
           /\ argv' = Tail(Tail(argv)) /\ UNCHANGED <<pc, exit>>
        \/ t = "--rsa-key" /\ more /\ Two("key")
        \/ t = "--split" /\ more /\ Two("split")
        \/ t \in {"--output", "--rsa-key", "--split"} /\ ~more /\ Reject(2)
        \/ t = "-x" /\ Reject(2)
        \/ t \in {"path", "main path"} /\ ~args.fw /\ One("fw")
        \/ t \in {"path", "main path"} /\ args.fw /\ Reject(2)

ArgsParsed ==
  /\ pc = "args" /\ argv = <<>>
  /\ IF args.fw /\ (args.decrypt => args.key)
     THEN pc' = "read" /\ UNCHANGED exit
     ELSE Exit(2)
  /\ UNCHANGED <<argv, args, built, orig, data, tag, written, out>>

-----------------------------------------------------------------------------
(* main *)

\* The version is printed after the files are written.
NextStageLate(s) ==
  CASE s = "tag" -> IF args.decrypt THEN "decrypt" ELSE "write"
    [] s = "decrypt" -> "write"
    [] s = "write" -> "layout"
    [] s = "layout" -> "exit"

\* The stages of main after the container has been read.
NextStage(s) ==
  CASE s = "tag" -> IF args.decrypt THEN "decrypt" ELSE "layout"
    [] s = "decrypt" -> "layout"
    [] s = "layout" -> "write"
    [] s = "write" -> "exit"

\* Both images fit in the file.
Fits(d, t) == d[TotalAt] + t.len <= Len(d)

ReadContainer ==
  /\ pc = "read"
  /\ \/ Exit(1) /\ UNCHANGED <<orig, data, tag>>
     \/ \E d \in Files :
          /\ orig' = d /\ data' = d
          /\ IF Len(d) < TagHeader THEN Exit(1) /\ UNCHANGED tag
             ELSE /\ tag' = ParseChunks(d)
                  /\ IF Fits(d, tag') THEN Continue(NextStage("tag")) ELSE Exit(1)
  /\ UNCHANGED <<argv, args, built, written, out>>

Decrypt ==
  /\ pc = "decrypt"
  /\ \E k \in KeyFiles \cup {"unreadable"} :
       \/ /\ k = "unreadable" \/ k \in InvalidKeys \/ Len(tag.sig) # SigLen
          /\ Exit(1) /\ UNCHANGED data
       \/ /\ k # "unreadable" /\ k \notin InvalidKeys /\ Len(tag.sig) = SigLen
          /\ \/ KeyMayPanic(k) /\ End(Panic) /\ UNCHANGED data
             \/ /\ k # "empty modulus"
                /\ \E em \in Recovered :
                     LET salt == SaltOf(em)
                     IN IF Len(salt) < KeyLen + Block
                        THEN Exit(1) /\ UNCHANGED data
                        ELSE /\ data' = Decrypted(data, tag.len, Slice(salt, 0, KeyLen),
                                                  Slice(salt, KeyLen, KeyLen + Block))
                             /\ Continue(NextStage("decrypt"))
  /\ UNCHANGED <<argv, args, built, orig, tag, written, out>>

\* remote_out: the file --output names, or <stem>_remote.bin.
RemoteOut == IF args.same THEN "main" ELSE "named"

\* The files main writes, in its order: two of them may be one file.
Writes ==
  LET file(n, c) == [name |-> n, content |-> c]
  IN IF args.split THEN <<file("host", Host), file("remote", Remote)>>
     ELSE <<file(RemoteOut, Remote)>> \o (IF args.all THEN <<file("main", Host)>> ELSE <<>>)

Layout ==
  /\ pc = "layout"
  /\ IF Remote = <<>> THEN Exit(0)
     ELSE IF VersionPanics(Remote) THEN End(Panic)
     ELSE Continue(NextStage("layout"))
  /\ UNCHANGED <<argv, args, built, orig, data, tag, written, out>>

\* File::create: empties the file, or fails and leaves it.
CreateFile ==
  /\ pc = "write" /\ written < Len(Writes)
  /\ \/ Exit(1) /\ UNCHANGED out
     \/ /\ out' = [out EXCEPT ![Writes[written + 1].name] = File(<<>>)]
        /\ pc' = "fill" /\ UNCHANGED exit
  /\ UNCHANGED <<argv, args, built, orig, data, tag, written>>

\* Where an error of one write leads.
AfterWriteErrorGoOn == "write"
AfterWriteError == "exit"

\* write_all and sync_all: all of the content, or an error after part of it.
\* sync_all may fail with all of it written.  Either way main says so, or panics for
\* want of somewhere to say it.
FillFile ==
  /\ pc = "fill"
  /\ LET f == Writes[written + 1]
     IN \/ /\ out' = [out EXCEPT ![f.name] = File(f.content)]
           /\ Continue("write") /\ written' = written + 1
        \/ /\ \E n \in 0 .. Len(f.content) :
                out' = [out EXCEPT ![f.name] = File(Slice(f.content, 0, n))]
           /\ pc' = AfterWriteError /\ written' = written + 1 /\ exit' \in {1, Panic}
  /\ UNCHANGED <<argv, args, built, orig, data, tag>>

AllWritten ==
  /\ pc = "write" /\ written = Len(Writes)
  /\ pc' = NextStage("write")
  /\ exit' = IF pc' = "exit" THEN 0 ELSE exit
  /\ UNCHANGED <<argv, args, built, orig, data, tag, written, out>>

\* The process is killed; what it wrote stays.
Kill ==
  /\ pc \in {"write", "fill"}
  /\ End(137)
  /\ UNCHANGED <<argv, args, built, orig, data, tag, written, out>>

Next ==
  \/ ParseArg \/ ArgsParsed \/ ReadContainer \/ Decrypt \/ Layout
  \/ CreateFile \/ FillFile \/ AllWritten \/ Kill

Spec == Init /\ [][Next]_vars

-----------------------------------------------------------------------------
(* Properties *)

\* Untouched by this run.
Untouched(n) == ~out[n].touched

\* The order in which this run writes its files.
First == IF args.split THEN "host" ELSE RemoteOut
Second == IF args.split THEN "remote" ELSE "main"

\* A run that ends with exit code 0 after reading a container with a remote
\* image has written every file it was asked for, complete, and tag header,
\* host image and remote image make up the container: nothing is lost between
\* two of them or written to both (the split of main).  The exception is an --output
\* that names the file --all adds: there the host image replaces the remote one.
PartitionOut ==
  exit = 0 /\ data # <<>> /\ Remote # <<>> =>
    LET before == Slice(data, 0, tag.len)
        wanted == {First} \cup (IF args.split \/ args.all THEN {Second} ELSE {})
    IN /\ \A n \in wanted : ~Untouched(n)
       /\ args.split => before \o out["host"].cells \o out["remote"].cells = data
       /\ ~args.split /\ args.all /\ First # Second =>
            before \o out["main"].cells \o out["named"].cells = data
       /\ ~args.split /\ ~args.all =>
            Slice(data, 0, tag.len + orig[TotalAt]) \o out[First].cells = data

\* A run that ends in a usage error, that finds no remote image, or whose remote image
\* makes the version line panic leaves every output file as it found it, and so does
\* any panic before the first file was written or given up: whatever main computes
\* from the container comes before the first File::create.  A panic after that is a
\* message about a file that was written, or could not be.
AbortLeavesOutput ==
  \/ exit = 2
  \/ tag.len > 0 /\ (Remote = <<>> \/ VersionPanics(Remote))
  \/ exit = Panic /\ written = 0
  => \A n \in Outputs : Untouched(n)

\* At every moment, also when the run is killed, a write fails or a message panics, the
\* second file has been touched only if the first one is complete: of two different
\* output files at most one is cut off.
SecondAfterFirst ==
  First # Second /\ ~Untouched(Second) =>
    /\ ~Untouched(First)
    /\ out[First].cells = (IF args.split THEN Host ELSE Remote)

\* CBC encryption of the first n blocks of p, each chained with the one before it;
\* block 0 is the vector.
Encryption(p, k, iv, n) ==
  LET enc[i \in 0 .. n] ==
        IF i = 0 THEN iv ELSE Cipher(k, Plus(BlockOf(p, i), enc[i - 1]))
  IN enc

\* Chaining the decrypted blocks again gives the container that was read, so
\* aes_cbc_decrypt undoes CBC encryption over every whole block behind the
\* tag, and nothing else is changed, a last partial block included.
DecryptInverts ==
  data # orig =>
    LET p == Slice(data, tag.len, Len(data))
        c == Slice(orig, tag.len, Len(orig))
        n == Len(p) \div Block
    IN /\ Slice(data, 0, tag.len) = Slice(orig, 0, tag.len)
       /\ Slice(p, n * Block, Len(p)) = Slice(c, n * Block, Len(c))
       /\ \E em \in Recovered :
            LET k == Slice(SaltOf(em), 0, KeyLen)
                iv == Slice(SaltOf(em), KeyLen, KeyLen + Block)
            IN /\ Len(SaltOf(em)) >= KeyLen + Block
               /\ \A i \in 1 .. n : Encryption(p, k, iv, n)[i] = BlockOf(c, i)
=============================================================================
