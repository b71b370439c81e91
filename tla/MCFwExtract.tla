----------------------------- MODULE MCFwExtract -----------------------------
(* Instances of FwExtract for TLC. *)
EXTENDS FwExtract

SeqsUpTo(S, n) == UNION {[1 .. i -> S] : i \in 0 .. n}

\* What may follow the tag header: nothing, a terminator, a signature that is
\* whole, empty, too long or cut off, unknown chunks, lengths that make no sense.
ChunkAreas ==
  {<<>>, <<0, 2>>, <<0, 3>>, <<1, 3, 2>>, <<1, 3, 2, 0, 2>>, <<1, 2, 1, 3, 3>>,
   <<1, 4, 2, 2, 0, 2>>, <<2, 2, 0, 2>>, <<1, 1>>, <<2, 4>>}

\* Remote images with and without magic and version, and two AES blocks.
Bodies == SeqsUpTo({0, 1, 3}, 3) \cup {<<0, 1, 2, 3>>, <<3, 1, 1, 1>>}

\* Two containers are shorter than the tag header.
MCFiles ==
  {<<>>, <<3>>} \cup
  {<<3, total>> \o area \o body :
     total \in 0 .. 3, area \in ChunkAreas, body \in Bodies}

MCArgvs == SeqsUpTo(Tokens, 3) \cup
  {<<"path">> \o o : o \in
     {<<"--decrypt", "--rsa-key", "path">>,
      <<"--decrypt", "--rsa-key", "path", "--split", "path">>,
      <<"--decrypt", "--rsa-key", "path", "--all", "--output", "path">>,
      <<"--all", "--output", "main path">>}}

MCKeyFiles == {"short", "not a blob", "no magic", "truncated",
               "empty modulus", "long modulus", "2048"}

\* No trailer, no separator, a short salt, and salts of the right length.
MCRecovered ==
  {[trailer |-> t, db |-> d] : t \in BOOLEAN, d \in {<<1, 1, 2, 3>>}} \cup
  {[trailer |-> TRUE, db |-> d] :
     d \in {<<0, 0, 0, 0>>, <<0, 2, 1, 1>>, <<0, 1, 1, 2>>, <<0, 1, 2, 0, 1>>}}
=============================================================================
