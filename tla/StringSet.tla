------------------------------ MODULE StringSet ------------------------------
(***************************************************************************)
(* The value of a stringset_t (libvalor/src/hashset.c): a hash table of    *)
(* chained nodes, each node holding a C string and its 32-bit djb2 code.   *)
(* The operators are the functions of the source with the pointer          *)
(* arguments turned into values; StringSetSpec is the state machine.       *)
(*                                                                         *)
(* make_stringnode never writes the `next` member of the node it returns   *)
(* (and allocates sizeof(hashnode_t), too little for a stringset_node_t,   *)
(* so `next` lies outside the object).  What that member holds is whatever *)
(* the allocator left there: "null", and the chain ends where it should,   *)
(* or "wild", and a walk that reads it leaves the program's defined        *)
(* behaviour.  FreshNext says which of the two the build can produce.      *)
(***************************************************************************)
EXTENDS Naturals, Sequences

CONSTANTS
  Strings,    \* the C strings clients use
  Hash,       \* Hash[s]: hash_djb2(s) truncated to uint32_t
  FreshNext   \* what `next` of a fresh stringset_node_t may hold

ASSUME StringSetAssumption ==
  /\ Hash \in [Strings -> Nat]
  /\ FreshNext \in (SUBSET {"null", "wild"}) \ {{}}

(***************************************************************************)
(* chain[b] is the list hanging off node_table[b], in list order; a bucket *)
(* is in wild when the last node of its chain has an uninitialised `next`. *)
(***************************************************************************)
StringSets(n) ==
  [capacity : {n},
   size     : Nat,
   chain    : [0 .. n - 1 -> Seq(Strings)],
   wild     : SUBSET (0 .. n - 1)]

create_stringset(capacity) ==
  [capacity |-> capacity,
   size     |-> 0,
   chain    |-> [b \in 0 .. capacity - 1 |-> <<>>],
   wild     |-> {}]

Bucket(set, str) == Hash[str] % set.capacity

Chain(set, str) == set.chain[Bucket(set, str)]

\* The strings a set holds.
Members(set) ==
  { str \in Strings :
      \E b \in DOMAIN set.chain :
        \E k \in DOMAIN set.chain[b] : set.chain[b][k] = str }

(***************************************************************************)
(* stringset_add walks the chain and returns at the first node with the    *)
(* code of str, whatever string that node holds.                           *)
(***************************************************************************)
AddStopsAtString(set, str) ==
  \E k \in DOMAIN Chain(set, str) : Chain(set, str)[k] = str

AddStops(set, str) ==
  \E k \in DOMAIN Chain(set, str) : Hash[Chain(set, str)[k]] = Hash[str]

AddGetsLost(set, str) ==
  ~AddStops(set, str) /\ Bucket(set, str) \in set.wild

WildAtCode(set, str, next) ==
  IF next = "wild" THEN set.wild \cup {Hash[str]} ELSE set.wild

\* The bucket of str has a new last node.
WildAfter(set, str, next) ==
  IF next = "wild" THEN set.wild \cup {Bucket(set, str)} ELSE set.wild

AddReplacingLast(set, str, next) ==
  IF AddStops(set, str) THEN set
  ELSE [capacity |-> set.capacity,
        size     |-> set.size + 1,
        chain    |-> [set.chain EXCEPT ![Bucket(set, str)] =
                        SubSeq(@, 1, Len(@) - 1) \o <<str>>],
        wild     |-> WildAfter(set, str, next)]

stringset_add(set, str, next) ==
  IF AddStops(set, str) THEN set
  ELSE [capacity |-> set.capacity,
        size     |-> set.size + 1,
        chain    |-> [set.chain EXCEPT ![Bucket(set, str)] = Append(@, str)],
        wild     |-> WildAfter(set, str, next)]

(***************************************************************************)
(* stringset_check stops only at a node with both the code and the string. *)
(***************************************************************************)
CheckByCodeOnly(set, str) ==
  \E k \in DOMAIN Chain(set, str) : Hash[Chain(set, str)[k]] = Hash[str]

stringset_check(set, str) ==
  \E k \in DOMAIN Chain(set, str) :
    /\ Hash[Chain(set, str)[k]] = Hash[str]
    /\ Chain(set, str)[k] = str

CheckGetsLost(set, str) ==
  ~stringset_check(set, str) /\ Bucket(set, str) \in set.wild

=============================================================================
