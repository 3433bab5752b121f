--------------------------- MODULE LibraryLemmas ---------------------------
(***************************************************************************)
(* What the functions of a stringset_t and of an ed_tree_t return, for     *)
(* every set of strings, hash function and capacity, and every depth,      *)
(* range of char, alphabet and size of the header.  The proofs about the   *)
(* programs that hold them rest on these lemmas.                           *)
(***************************************************************************)
EXTENDS StringSet, EdTree, FiniteSetTheorems, TLAPS

-----------------------------------------------------------------------------
(***************************************************************************)
(* String sets                                                             *)
(***************************************************************************)

\* stringset_add appends to one chain and leaves the others, and the result is
\* a stringset_t (hashset.c:106-128).
LEMMA AddShape ==
  ASSUME NEW capacity \in Nat, capacity > 0,
         NEW aSet \in StringSets(capacity),
         NEW str \in Strings, NEW next, ~AddStops(aSet, str)
  PROVE  /\ stringset_add(aSet, str, next) \in StringSets(capacity)
         /\ Bucket(aSet, str) \in 0 .. capacity - 1
         /\ stringset_add(aSet, str, next).size = aSet.size + 1
         /\ \A c \in 0 .. capacity - 1 :
              stringset_add(aSet, str, next).chain[c] =
                IF c = Bucket(aSet, str) THEN Append(aSet.chain[c], str)
                                         ELSE aSet.chain[c]
<1> DEFINE after == stringset_add(aSet, str, next)
           b == Bucket(aSet, str)
<1>1. aSet.capacity = capacity /\ aSet.size \in Nat
      /\ aSet.chain \in [0 .. capacity - 1 -> Seq(Strings)]
      /\ aSet.wild \in SUBSET (0 .. capacity - 1)
  BY DEF StringSets
<1>2. b \in 0 .. capacity - 1
  <2>1. Hash[str] \in Nat
    BY StringSetAssumption
  <2> QED
    BY <1>1, <2>1 DEF Bucket
<1>3. after = [capacity |-> aSet.capacity,
               size     |-> aSet.size + 1,
               chain    |-> [aSet.chain EXCEPT ![b] = Append(@, str)],
               wild     |-> WildAfter(aSet, str, next)]
  BY DEF stringset_add
<1>4. [aSet.chain EXCEPT ![b] = Append(@, str)]
        \in [0 .. capacity - 1 -> Seq(Strings)]
  BY <1>1, <1>2
<1>5. WildAfter(aSet, str, next) \in SUBSET (0 .. capacity - 1)
  BY <1>1, <1>2 DEF WildAfter
<1>6. after \in StringSets(capacity)
  BY <1>1, <1>3, <1>4, <1>5 DEF StringSets
<1>7. \A c \in 0 .. capacity - 1 :
        after.chain[c] = IF c = b THEN Append(aSet.chain[c], str)
                                  ELSE aSet.chain[c]
  BY <1>1, <1>2, <1>3
<1>8. after.size = aSet.size + 1
  BY <1>3
<1> QED
  BY <1>2, <1>6, <1>7, <1>8

\* What a walk finds afterwards: the code and the string that were added, and
\* whatever it found before (hashset.c:113-126, 130-145).
LEMMA AddEffect ==
  ASSUME NEW capacity \in Nat, capacity > 0,
         NEW aSet \in StringSets(capacity),
         NEW str \in Strings, NEW next, ~AddStops(aSet, str),
         NEW other \in Strings
  PROVE  /\ AddStops(stringset_add(aSet, str, next), other) <=>
              AddStops(aSet, other) \/ Hash[other] = Hash[str]
         /\ stringset_check(stringset_add(aSet, str, next), other) <=>
              stringset_check(aSet, other) \/ other = str
<1> DEFINE after == stringset_add(aSet, str, next)
           b == Bucket(aSet, str)
           c == Bucket(aSet, other)
<1>1. /\ aSet.capacity = capacity
      /\ aSet.chain \in [0 .. capacity - 1 -> Seq(Strings)]
  BY DEF StringSets
<1>2. /\ after.capacity = capacity
      /\ \A d \in 0 .. capacity - 1 :
           after.chain[d] = IF d = b THEN Append(aSet.chain[d], str)
                                     ELSE aSet.chain[d]
  <2>1. /\ after \in StringSets(capacity)
        /\ \A d \in 0 .. capacity - 1 :
             after.chain[d] = IF d = b THEN Append(aSet.chain[d], str)
                                       ELSE aSet.chain[d]
    BY AddShape
  <2> HIDE DEF after
  <2> QED
    BY <2>1 DEF StringSets
<1>3. c \in 0 .. capacity - 1
  <2>1. Hash[other] \in Nat
    BY StringSetAssumption
  <2> QED
    BY <1>1, <2>1 DEF Bucket
<1>4. Bucket(after, other) = c
  BY <1>1, <1>2 DEF Bucket
<1>5. Chain(aSet, other) \in Seq(Strings)
  BY <1>1, <1>3 DEF Chain
<1>6. CASE c = b
  <2>1. Chain(after, other) = Append(Chain(aSet, other), str)
    BY <1>2, <1>3, <1>4, <1>6 DEF Chain
  <2>2. DOMAIN Chain(after, other) = 1 .. Len(Chain(aSet, other)) + 1
    BY <1>5, <2>1
  <2>3. \A k \in 1 .. Len(Chain(aSet, other)) :
          Chain(after, other)[k] = Chain(aSet, other)[k]
    BY <1>5, <2>1
  <2>4. Chain(after, other)[Len(Chain(aSet, other)) + 1] = str
    BY <1>5, <2>1
  <2>5. DOMAIN Chain(aSet, other) = 1 .. Len(Chain(aSet, other))
        /\ Len(Chain(aSet, other)) \in Nat
    BY <1>5
  <2>6. AddStops(after, other) <=>
          AddStops(aSet, other) \/ Hash[other] = Hash[str]
    BY <2>2, <2>3, <2>4, <2>5 DEF AddStops
  <2>7. stringset_check(after, other) <=>
          stringset_check(aSet, other) \/ other = str
    BY <2>2, <2>3, <2>4, <2>5 DEF stringset_check
  <2> QED
    BY <2>6, <2>7
<1>7. CASE c # b
  <2>1. Chain(after, other) = Chain(aSet, other)
    BY <1>1, <1>2, <1>3, <1>4, <1>7 DEF Chain
  <2>2. Hash[other] # Hash[str]
    BY <1>7 DEF Bucket
  <2>3. other # str
    BY <2>2
  <2> QED
    BY <2>1, <2>2, <2>3 DEF AddStops, stringset_check
<1> QED
  BY <1>6, <1>7

-----------------------------------------------------------------------------
\* Every node hangs in the bucket of its string, and only a chain that has a
\* node can end in an uninitialised `next`.
InPlace(aSet) ==
  /\ \A b \in DOMAIN aSet.chain :
       \A k \in DOMAIN aSet.chain[b] : Bucket(aSet, aSet.chain[b][k]) = b
  /\ \A b \in aSet.wild : aSet.chain[b] # <<>>

\* A new set has no strings, and no walk in it meets a node
\* (hashset.c:93-103).
LEMMA CreateEffect ==
  ASSUME NEW capacity \in Nat
  PROVE  /\ create_stringset(capacity) \in StringSets(capacity)
         /\ InPlace(create_stringset(capacity))
         /\ Members(create_stringset(capacity)) = {}
         /\ capacity > 0 =>
              \A str \in Strings : ~AddStops(create_stringset(capacity), str)
<1> DEFINE aSet == create_stringset(capacity)
<1>1. aSet.capacity = capacity /\ aSet.size = 0 /\ aSet.wild = {}
      /\ aSet.chain = [b \in 0 .. capacity - 1 |-> <<>>]
  BY DEF create_stringset
<1>2. aSet.chain \in [0 .. capacity - 1 -> Seq(Strings)]
  BY <1>1
<1>3. aSet \in StringSets(capacity)
  BY <1>1, <1>2 DEF create_stringset, StringSets
<1>4. DOMAIN <<>> = {}
  OBVIOUS
<1>5. InPlace(aSet)
  BY <1>1, <1>4 DEF InPlace
<1>6. Members(aSet) = {}
  BY <1>1, <1>4 DEF Members
<1>7. ASSUME capacity > 0, NEW str \in Strings PROVE ~AddStops(aSet, str)
  <2>1. Hash[str] \in Nat
    BY StringSetAssumption
  <2>2. Bucket(aSet, str) \in 0 .. capacity - 1
    BY <1>1, <1>7, <2>1 DEF Bucket
  <2>3. Chain(aSet, str) = <<>>
    BY <1>1, <2>2 DEF Chain
  <2> QED
    BY <1>4, <2>3 DEF AddStops
<1> QED
  BY <1>3, <1>5, <1>6, <1>7

\* An addition hangs the new node in its place (hashset.c:121-126).
LEMMA AddInPlace ==
  ASSUME NEW capacity \in Nat, capacity > 0,
         NEW aSet \in StringSets(capacity), InPlace(aSet),
         NEW str \in Strings, NEW next, ~AddStops(aSet, str)
  PROVE  InPlace(stringset_add(aSet, str, next))
<1> DEFINE after == stringset_add(aSet, str, next)
           b == Bucket(aSet, str)
<1>1. /\ aSet.capacity = capacity /\ aSet.wild \subseteq 0 .. capacity - 1
      /\ aSet.chain \in [0 .. capacity - 1 -> Seq(Strings)]
  BY DEF StringSets
<1>2. /\ after \in StringSets(capacity)
      /\ b \in 0 .. capacity - 1
      /\ \A c \in 0 .. capacity - 1 :
           after.chain[c] = IF c = b THEN Append(aSet.chain[c], str)
                                     ELSE aSet.chain[c]
  BY AddShape
<1>3. after.wild \subseteq aSet.wild \cup {b}
  BY DEF stringset_add, WildAfter
<1> HIDE DEF after
<1>4. after.capacity = capacity
      /\ after.chain \in [0 .. capacity - 1 -> Seq(Strings)]
  BY <1>2 DEF StringSets
<1>5. \A any : Bucket(after, any) = Bucket(aSet, any)
  BY <1>1, <1>4 DEF Bucket
<1>6. ASSUME NEW c \in 0 .. capacity - 1, NEW k \in DOMAIN after.chain[c]
      PROVE  Bucket(after, after.chain[c][k]) = c
  <2>1. aSet.chain[c] \in Seq(Strings)
    BY <1>1
  <2>2. CASE c = b
    <3>1. after.chain[c] = Append(aSet.chain[c], str)
      BY <1>2, <2>2
    <3>2. DOMAIN after.chain[c] = 1 .. Len(aSet.chain[c]) + 1
          /\ DOMAIN aSet.chain[c] = 1 .. Len(aSet.chain[c])
          /\ Len(aSet.chain[c]) \in Nat
      BY <2>1, <3>1
    <3>3. CASE k = Len(aSet.chain[c]) + 1
      <4>1. after.chain[c][k] = str
        BY <2>1, <3>1, <3>3
      <4> QED
        BY <1>5, <2>2, <4>1
    <3>4. CASE k # Len(aSet.chain[c]) + 1
      <4>1. k \in DOMAIN aSet.chain[c]
        BY <3>2, <3>4
      <4>2. after.chain[c][k] = aSet.chain[c][k]
        BY <2>1, <3>1, <3>2, <4>1
      <4> QED
        BY <1>1, <1>5, <4>1, <4>2 DEF InPlace
    <3> QED
      BY <3>3, <3>4
  <2>3. CASE c # b
    BY <1>1, <1>2, <1>5, <2>3 DEF InPlace
  <2> QED
    BY <2>2, <2>3
<1>7. ASSUME NEW c \in after.wild PROVE after.chain[c] # <<>>
  <2>1. c \in 0 .. capacity - 1
    BY <1>1, <1>2, <1>3
  <2>2. CASE c = b
    <3>1. after.chain[c] = Append(aSet.chain[c], str)
          /\ aSet.chain[c] \in Seq(Strings)
      BY <1>1, <1>2, <2>1, <2>2
    <3> QED
      BY <3>1
  <2>3. CASE c # b
    BY <1>2, <1>3, <2>1, <2>3 DEF InPlace
  <2> QED
    BY <2>2, <2>3
<1> QED
  BY <1>4, <1>6, <1>7 DEF InPlace, after

\* What a set holds is what its lookups find (hashset.c:130-145).
LEMMA MembersAreFound ==
  ASSUME NEW capacity \in Nat, capacity > 0,
         NEW aSet \in StringSets(capacity), InPlace(aSet),
         NEW str \in Strings
  PROVE  str \in Members(aSet) <=> stringset_check(aSet, str)
<1>1. /\ aSet.capacity = capacity
      /\ aSet.chain \in [0 .. capacity - 1 -> Seq(Strings)]
  BY DEF StringSets
<1>2. Bucket(aSet, str) \in 0 .. capacity - 1
  <2>1. Hash[str] \in Nat
    BY StringSetAssumption
  <2> QED
    BY <1>1, <2>1 DEF Bucket
<1>3. ASSUME str \in Members(aSet) PROVE stringset_check(aSet, str)
  <2>1. PICK b \in DOMAIN aSet.chain :
          \E k \in DOMAIN aSet.chain[b] : aSet.chain[b][k] = str
    BY <1>3 DEF Members
  <2>2. b = Bucket(aSet, str)
    BY <2>1 DEF InPlace
  <2> QED
    BY <2>1, <2>2 DEF stringset_check, Chain
<1>4. ASSUME stringset_check(aSet, str) PROVE str \in Members(aSet)
  BY <1>1, <1>2, <1>4 DEF Members, stringset_check, Chain
<1> QED
  BY <1>3, <1>4

-----------------------------------------------------------------------------
(***************************************************************************)
(* The layout of the blob                                                  *)
(***************************************************************************)

LEMMA Quotient ==
  ASSUME NEW r \in Nat \ {0}, NEW i \in Nat, NEW j \in 0 .. r - 1
  PROVE  (i * r + j) \div r = i /\ (i * r + j) % r = j
  OBVIOUS

\* The data byte of every position is in the blob.
LEMMA DataKept == \A i \in Positions : i \in Kept
<1>1. /\ Depth \in Nat \ {0} /\ CharRange \in Nat \ {0}
      /\ Missing \in Nat /\ Missing < CharRange
  BY EdTreeAssumption DEF Missing
<1>2. Depth * CharRange >= CharRange
  BY <1>1
<1>3. Depth <= Cells - Missing /\ Cells - Missing \in Int
  BY <1>1, <1>2 DEF Cells
<1> QED
  BY <1>1, <1>3 DEF Positions, Kept

\* So is, at every position, the flag of every byte digests are made of.
LEMMA FlagKept ==
  ASSUME NEW i \in Positions, NEW j \in Bytes
  PROVE  /\ j \in Chars
         /\ FlagCell(i, j) \in Kept
         /\ ~(FlagCell(i, j) < Depth)
         /\ (FlagCell(i, j) - Depth) \div CharRange = i
         /\ (FlagCell(i, j) - Depth) % CharRange = j
<1>1. /\ Depth \in Nat \ {0} /\ CharRange \in Nat \ {0}
      /\ Missing \in Nat /\ Missing < CharRange
      /\ i \in Nat /\ i <= Depth - 1
      /\ j \in Nat /\ j <= CharRange - Missing - 1
  BY EdTreeAssumption DEF Missing, Positions, Bytes
<1>2. i * CharRange \in Nat /\ i * CharRange + CharRange <= Depth * CharRange
  <2>1. i + 1 <= Depth
    BY <1>1
  <2>2. (i + 1) * CharRange <= Depth * CharRange
    BY <1>1, <2>1
  <2>3. (i + 1) * CharRange = i * CharRange + CharRange
    BY <1>1
  <2> QED
    BY <1>1, <2>2, <2>3
<1>3. Depth * CharRange \in Nat
  BY <1>1
<1>4. j \in 0 .. CharRange - 1
  BY <1>1
<1>5. FlagCell(i, j) - Depth = i * CharRange + j
  BY <1>1, <1>2 DEF FlagCell
<1>6. FlagCell(i, j) \in Kept /\ ~(FlagCell(i, j) < Depth)
  BY <1>1, <1>2, <1>3 DEF FlagCell, Kept, Cells
<1> QED
  BY <1>1, <1>4, <1>5, <1>6, Quotient DEF Chars

\* Whatever part of a tree is in a blob, a whole tree is read from it
\* (ed_tree.c:113-142).
LEMMA LoadedShape ==
  ASSUME NEW cells, NEW junk \in Junk(cells),
         \A c \in Positions \cap DOMAIN cells : cells[c] \in Chars
  PROVE  deserialize_ed_tree(cells, junk) \in [Positions -> Nodes]
<1> DEFINE cell(c) == IF c \in DOMAIN cells THEN cells[c] ELSE junk[c]
<1>1. Positions \subseteq 0 .. Cells - 1
  <2>1. Missing \in Nat /\ Cells \in Int
    BY EdTreeAssumption DEF Missing, Cells
  <2> QED
    BY <2>1, DataKept DEF Kept
<1>2. \A i \in Positions : cell(i) \in Chars
  BY <1>1 DEF Junk
<1> HIDE DEF cell
<1>3. \A i \in Positions :
        [data |-> cell(i), neighbors |-> { j \in Chars : cell(FlagCell(i, j)) # 0 }]
          \in Nodes
  BY <1>2 DEF Nodes
<1> QED
  BY <1>3 DEF deserialize_ed_tree, cell

\* Saving a tree and loading it back keeps the data of every node and, of its
\* flags, those of the bytes digests are made of, whatever is read past the end
\* of the blob (ed_tree.c:84-142).
THEOREM RoundTrip ==
  ASSUME NEW aTree \in [Positions -> Nodes],
         NEW junk \in Junk(serialize_ed_tree(aTree))
  PROVE  LET loaded == deserialize_ed_tree(serialize_ed_tree(aTree), junk) IN
         /\ loaded \in [Positions -> Nodes]
         /\ \A i \in Positions :
              /\ loaded[i].data = aTree[i].data
              /\ loaded[i].neighbors \cap Bytes = aTree[i].neighbors \cap Bytes
<1> DEFINE cells == serialize_ed_tree(aTree)
           loaded == deserialize_ed_tree(cells, junk)
<1>1. DOMAIN cells = Kept /\ \A i \in Positions : i < Depth
  BY EdTreeAssumption DEF Positions, serialize_ed_tree
<1>2. \A i \in Positions : i \in DOMAIN cells /\ cells[i] = aTree[i].data
  BY <1>1, DataKept DEF serialize_ed_tree
<1>3. ASSUME NEW i \in Positions, NEW j \in Bytes
      PROVE  /\ FlagCell(i, j) \in DOMAIN cells
             /\ cells[FlagCell(i, j)] # 0 <=> j \in aTree[i].neighbors
  <2>1. cells[FlagCell(i, j)] = IF j \in aTree[i].neighbors THEN 1 ELSE 0
    BY FlagKept DEF serialize_ed_tree
  <2> QED
    BY <1>1, <2>1, FlagKept
<1>4. loaded \in [Positions -> Nodes]
  BY <1>2, LoadedShape DEF Nodes
<1>5. ASSUME NEW i \in Positions
      PROVE  /\ loaded[i].data = aTree[i].data
             /\ loaded[i].neighbors \cap Bytes = aTree[i].neighbors \cap Bytes
  <2> DEFINE cell(c) == IF c \in DOMAIN cells THEN cells[c] ELSE junk[c]
  <2>1. loaded[i] = [data      |-> cell(i),
                     neighbors |-> { j \in Chars : cell(FlagCell(i, j)) # 0 }]
    BY DEF deserialize_ed_tree
  <2>2. loaded[i].data = aTree[i].data
    BY <1>2, <2>1
  <2>3. \A j \in Bytes : j \in loaded[i].neighbors <=> j \in aTree[i].neighbors
    BY <1>3, <2>1, FlagKept
  <2> QED
    BY <2>2, <2>3
<1> QED
  BY <1>4, <1>5

-----------------------------------------------------------------------------
LEMMA PositionsExist == 0 \in Positions /\ create_ed_tree \in [{} -> Nodes]
<1>1. 0 \in Positions
  BY EdTreeAssumption DEF Positions
<1> QED
  BY <1>1 DEF create_ed_tree

LEMMA NotEmpty ==
  ASSUME NEW aTree \in [Positions -> Nodes]
  PROVE  ~IsEmpty(aTree)
  BY PositionsExist DEF IsEmpty

\* A distance is a number of positions.
LEMMA CountPositions ==
  ASSUME NEW S, S \subseteq Positions
  PROVE  IsFiniteSet(S) /\ Cardinality(S) \in 0 .. Depth
<1>1. Depth \in Nat \ {0}
  BY EdTreeAssumption
<1>2. IsFiniteSet(Positions) /\ Cardinality(Positions) = Depth
  BY <1>1, FS_Interval DEF Positions
<1>3. IsFiniteSet(S) /\ Cardinality(S) <= Cardinality(Positions)
  BY <1>2, FS_Subset
<1>4. Cardinality(S) \in Nat
  BY <1>3, FS_CardinalityType
<1> QED
  BY <1>1, <1>2, <1>3, <1>4

=============================================================================
