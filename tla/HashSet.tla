------------------------------- MODULE HashSet -------------------------------
(***************************************************************************)
(* The value of a hashset_t (libvalor/src/hashset.c), a set of 32-bit      *)
(* codes: the chains of a stringset_t without the strings, and with a      *)
(* `next` that make_hashnode does write.                                   *)
(***************************************************************************)
EXTENDS Naturals, Sequences

CONSTANT Codes   \* the uint32_t values clients use

HashSets(n) ==
  [capacity : {n},
   size     : Nat,
   chain    : [0 .. n - 1 -> Seq(Codes)]]

create_hashset(capacity) ==
  [capacity |-> capacity,
   size     |-> 0,
   chain    |-> [b \in 0 .. capacity - 1 |-> <<>>]]

HashsetCheckFirst(set, hash) ==
  LET chain == set.chain[hash % set.capacity]
  IN  chain # <<>> /\ chain[1] = hash

\* Meant for a capacity above 0: hashset_add asserts it, hashset_check does not.
hashset_check(set, hash) ==
  \E k \in DOMAIN set.chain[hash % set.capacity] :
    set.chain[hash % set.capacity][k] = hash

HashsetAddInFront(set, hash) ==
  IF hashset_check(set, hash) THEN set
  ELSE [capacity |-> set.capacity,
        size     |-> set.size + 1,
        chain    |-> [set.chain EXCEPT ![hash % set.capacity] = <<hash>> \o @]]

hashset_add(set, hash) ==
  IF hashset_check(set, hash) THEN set
  ELSE [capacity |-> set.capacity,
        size     |-> set.size + 1,
        chain    |-> [set.chain EXCEPT ![hash % set.capacity] =
                        Append(@, hash)]]

=============================================================================
