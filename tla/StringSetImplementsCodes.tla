---------------------- MODULE StringSetImplementsCodes ----------------------
(***************************************************************************)
(* A stringset_t implements a hashset_t: without its strings it is the     *)
(* integer set of their codes, bucket by bucket and node by node, until a  *)
(* walk leaves a chain through an uninitialised `next`.  The calls on the  *)
(* integer set are those on the string set, with the codes for the         *)
(* strings; its lookups are answered by hashset_check.                     *)
(***************************************************************************)
EXTENDS StringSetSpec

CodesOf(aSet) ==
  [capacity |-> aSet.capacity,
   size     |-> aSet.size,
   chain    |-> [b \in DOMAIN aSet.chain |->
                   [k \in DOMAIN aSet.chain[b] |-> Hash[aSet.chain[b][k]]]]]

CodesInUse == { Hash[str] : str \in Strings }

CodeSet == INSTANCE HashSet WITH Codes <- CodesInUse

\* A string set that lost its way is to the integer set one not used any more.
statusBar == IF status = "lost" /\ set.capacity > 0 THEN "live" ELSE status

answerBar ==
  IF answer = NoAnswer THEN NoAnswer
  ELSE LET hash == Hash[answer[1]]
       IN  <<hash, CodeSet!hashset_check(CodesOf(set), hash)>>

Codes == INSTANCE HashSetSpec WITH
           Codes <- CodesInUse,
           set <- CodesOf(set), status <- statusBar, answer <- answerBar

\* Adding, looking up and destroying do to the codes of a string set what they
\* do to an integer set: the two halves of the source, written twice, agree on
\* the bucket, the end of the walk and the size (hashset.c:26-83, 93-160).
ImplementsHashSet == Codes!Spec

\* An integer set finds the codes that were added and no others, in whatever
\* order they came (hashset.c:52-83).
CodesAreThoseAdded ==
  set.capacity > 0 =>
    \A hash \in CodesInUse :
      CodeSet!hashset_check(CodesOf(set), hash)
        <=> \E str \in Added : Hash[str] = hash

=============================================================================
