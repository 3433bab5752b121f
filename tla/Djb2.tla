-------------------------------- MODULE Djb2 --------------------------------
(***************************************************************************)
(* The string hash of libvalor: djb2 (hash_djb2 in hashset.c, __hash in    *)
(* hashtable.c).  A string is the sequence of its bytes without the NUL.   *)
(* The accumulator is an unsigned integer of HashRange values: 2^32 after  *)
(* the truncation to uint32_t in the source, a smaller power of two where  *)
(* TLC's 32-bit integers need it.                                          *)
(***************************************************************************)
EXTENDS Naturals, SequencesExt

CONSTANT HashRange

ASSUME HashRangeAssumption == HashRange \in Nat \ {0}

hash_djb2(str) ==
  FoldLeft(LAMBDA hash, c : (hash * 33 + c) % HashRange, 5381, str)

=============================================================================
