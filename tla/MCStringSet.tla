----------------------------- MODULE MCStringSet -----------------------------
(***************************************************************************)
(* Names of one and two bytes with their real djb2 codes, among them "ab"  *)
(* and "bA", which have the same code.  5381 * 33 * 33 stays below         *)
(* HashRange, so the codes are the ones a 32-bit accumulator yields.       *)
(***************************************************************************)
EXTENDS StringSetImplementsCodes, Djb2

\* "ab", "bA", "a", "b"
MCStrings == { <<97, 98>>, <<98, 65>>, <<97>>, <<98>> }

\* "ab", "a", "b", "ac": no two share a code
MCStringsApart == { <<97, 98>>, <<97>>, <<98>>, <<97, 99>> }

MCHash == [str \in MCStrings |-> hash_djb2(str)]

MCHashApart == [str \in MCStringsApart |-> hash_djb2(str)]

AnyNext == {"null", "wild"}

CleanNext == {"null"}

=============================================================================
