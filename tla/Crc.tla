-------------------------------- MODULE Crc ----------------------------------
(***************************************************************************)
(* compute_checksum (checksum.rs) at a width TLC can exhaust: a reflected  *)
(* CRC of four bits over cells of two, where the code's has sixteen over   *)
(* bytes.                                                                  *)
(***************************************************************************)
EXTENDS Integers, SequencesExt, Bitwise

\* One bit of the reflected CRC.
CrcBit(c) == IF c % 2 = 1 THEN (c \div 2) ^^ 12 ELSE c \div 2

\* Two bits of every cell; a result of two cells.
Crc4(s) == FoldLeft(LAMBDA c, b : CrcBit(CrcBit(c ^^ b)), 0, s)
=============================================================================
