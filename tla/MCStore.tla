------------------------------ MODULE MCStore ------------------------------
(***************************************************************************)
(* Names with their real djb2 codes, "ab" and "bA" sharing one; a tree of  *)
(* one node, in which a load finds any byte.  A lost program may leave a   *)
(* file of no use, one of another database, or that one cut short.         *)
(***************************************************************************)
EXTENDS StoreImplementsThreats, Djb2

\* "ab", "bA", "a"
MCStrings == { <<97, 98>>, <<98, 65>>, <<97>> }

MCHash == [str \in MCStrings |-> hash_djb2(str)]

MCAlphabet == {1}

CleanNext == {"null"}

AnyNext == {"null", "wild"}

StrayTree == [i \in Positions |-> [data |-> 1, neighbors |-> {1}]]

StrayBegins ==
  <<[kind |-> "metadata", version |-> 0, modulo |-> 2, size |-> 1],
    NameRecord(<<97>>)>>

MCStrayFiles ==
  { Garbage,
    Append(StrayBegins, TreeRecord(StrayTree)),
    Append(StrayBegins, CutTreeRecord(StrayTree, 1)) }

=============================================================================
