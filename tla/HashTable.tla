------------------------------ MODULE HashTable ------------------------------
(***************************************************************************)
(* The value of a hashtable_t (libvalor/src/hashtable.c): chains of nodes  *)
(* with a key and a value, and the arrays of all keys and all values in    *)
(* the order they were added.                                              *)
(***************************************************************************)
EXTENDS VArray

CONSTANTS
  Keys,      \* the C strings used as keys
  KeyHash    \* KeyHash[key]: __hash(key)

ASSUME HashTableAssumption == KeyHash \in [Keys -> Nat]

HashTables(n, Values) ==
  [capacity : {n},
   sz       : Nat,
   base     : [0 .. n - 1 -> Seq([key : Keys, value : Values])],
   keys     : Arrays(Keys),
   values   : Arrays(Values)]

hashtbl_create(capacity) ==
  [capacity |-> capacity,
   sz       |-> 0,
   base     |-> [b \in 0 .. capacity - 1 |-> <<>>],
   keys     |-> array_create(1),
   values   |-> array_create(1)]

Nodes(tbl, key) == tbl.base[KeyHash[key] % tbl.capacity]

HashtblAddForgettingNext(tbl, key, data) ==
  [tbl EXCEPT
     !.base[KeyHash[key] % tbl.capacity] = <<[key |-> key, value |-> data]>>,
     !.keys   = array_add(@, key),
     !.values = array_add(@, data),
     !.sz     = @ + 1]

\* It does not look for the key: adding it twice leaves two nodes.
hashtbl_add(tbl, key, data) ==
  [tbl EXCEPT
     !.base[KeyHash[key] % tbl.capacity] =
        Append(@, [key |-> key, value |-> data]),
     !.keys   = array_add(@, key),
     !.values = array_add(@, data),
     !.sz     = @ + 1]

hashtbl_check_key(tbl, key) ==
  \E k \in DOMAIN Nodes(tbl, key) : Nodes(tbl, key)[k].key = key

\* The value of the first node with the key.  Meant for a key that is there:
\* the C function returns NULL or aborts on others.
hashtbl_get(tbl, key) ==
  LET nodes == Nodes(tbl, key)
      first == CHOOSE k \in DOMAIN nodes :
                 /\ nodes[k].key = key
                 /\ \A j \in 1 .. k - 1 : nodes[j].key # key
  IN  nodes[first].value

=============================================================================
