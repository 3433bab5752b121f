------------------------------ MODULE MCEdTree ------------------------------
(***************************************************************************)
(* Buffers of three bytes over an alphabet of two bytes and NUL: digests   *)
(* of zero to two bytes, with every junk a buffer can hold after them.     *)
(*                                                                         *)
(* MCEdTree.cfg takes a header one byte short, so that one flag is lost by *)
(* a save; what is read in its place may also be what was lost.            *)
(***************************************************************************)
EXTENDS EdTreeSpec

MCAlphabet == {1, 2}

=============================================================================
