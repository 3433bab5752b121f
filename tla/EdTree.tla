------------------------------- MODULE EdTree -------------------------------
(***************************************************************************)
(* The value of an ed_tree_t (libvalor/src/ed_tree.c), the index of the    *)
(* fuzzy digests of known threats, and the byte layout it is saved in.     *)
(*                                                                         *)
(* A digest buffer has Depth bytes (FUZZY_MAX_RESULT in db.c), a byte is   *)
(* one of CharRange values (256), 0 is NUL.  A node holds the byte the     *)
(* first inserted buffer has at its position, and the set of bytes the     *)
(* later ones have there (has_neighbor_at).                                *)
(***************************************************************************)
EXTENDS Naturals, Sequences, FiniteSets

CONSTANTS
  Depth,        \* bytes in a digest buffer
  CharRange,    \* values of a char
  HeaderSkip,   \* sizeof(uint64_t): what the header is taken to occupy
  SizeofSsize,  \* sizeof(ssize_t): what the size of the blob accounts for
  Alphabet      \* the bytes digests are made of

Chars == 0 .. CharRange - 1

Positions == 0 .. Depth - 1

\* The cells at the end of the layout that the blob has no room for.
Missing == HeaderSkip - SizeofSsize

(***************************************************************************)
(* Digests are made of bytes whose flags are in the blob at every position *)
(* (on a 32-bit build the flags of the four highest bytes are not).        *)
(***************************************************************************)
ASSUME EdTreeAssumption ==
  /\ Depth \in Nat \ {0}
  /\ CharRange \in Nat \ {0}
  /\ HeaderSkip \in Nat
  /\ SizeofSsize \in 0 .. HeaderSkip
  /\ Missing < CharRange
  /\ Alphabet \subseteq 1 .. CharRange - Missing - 1

Nodes == [data : Chars, neighbors : SUBSET Chars]

\* An empty tree (root == NULL) is the function with no position.
Trees == [Positions -> Nodes] \cup [{} -> Nodes]

create_ed_tree == [i \in {} |-> [data |-> 0, neighbors |-> {}]]

IsEmpty(tree) == DOMAIN tree = {}

-----------------------------------------------------------------------------
(***************************************************************************)
(* Digest buffers: C strings with arbitrary bytes after the first NUL.     *)
(***************************************************************************)
Bytes == Alphabet \cup {0}

Buffers == { hash \in [Positions -> Bytes] : \E i \in Positions : hash[i] = 0 }

PadButLast(hash) ==
  [i \in Positions |->
     IF i < Depth - 1 /\ \E m \in 0 .. i : hash[m] = 0 THEN 0 ELSE hash[i]]

\* Zero from strlen(hash) on.
pad_hash_digest(hash) ==
  [i \in Positions |-> IF \E m \in 0 .. i : hash[m] = 0 THEN 0 ELSE hash[i]]

-----------------------------------------------------------------------------
InsertShort(tree, string) ==
  IF IsEmpty(tree)
  THEN [i \in Positions \ {Depth - 1} |->
          [data |-> string[i], neighbors |-> {}]]
  ELSE [i \in Positions |->
          [tree[i] EXCEPT !.neighbors = @ \cup {string[i]}]]

InsertOverwriting(tree, string) ==
  IF IsEmpty(tree)
  THEN [i \in Positions |-> [data |-> string[i], neighbors |-> {}]]
  ELSE [i \in Positions |->
          [data |-> tree[i].data, neighbors |-> {string[i]}]]

edt_insert_string(tree, string) ==
  IF IsEmpty(tree)
  THEN [i \in Positions |-> [data |-> string[i], neighbors |-> {}]]
  ELSE [i \in Positions |->
          [tree[i] EXCEPT !.neighbors = @ \cup {string[i]}]]

DistanceByNeighbors(tree, string) ==
  Cardinality({ i \in Positions : string[i] \notin tree[i].neighbors })

\* Meant for a tree that is not empty: the C function asserts a node.
edt_get_distance_to_existing(tree, string) ==
  Cardinality({ i \in Positions :
                  /\ tree[i].data # string[i]
                  /\ string[i] \notin tree[i].neighbors })

-----------------------------------------------------------------------------
(***************************************************************************)
(* The blob: after the header, the Depth data bytes, then CharRange flags  *)
(* for each position.  The last Missing cells are written past the end of  *)
(* the allocation and never reach the file.                                *)
(***************************************************************************)
Cells == Depth + Depth * CharRange

Kept == 0 .. Cells - Missing - 1

serialize_ed_tree(tree) ==
  [c \in Kept |->
     IF c < Depth THEN tree[c].data
     ELSE IF (c - Depth) % CharRange
               \in tree[(c - Depth) \div CharRange].neighbors THEN 1 ELSE 0]

FlagCellShort(i, j) == Depth + i * (CharRange - 1) + j

FlagCell(i, j) == Depth + i * CharRange + j

(***************************************************************************)
(* Reading a blob back.  What comes from a file may have fewer cells than  *)
(* the layout: in their place stands what the memory of the buffer, or     *)
(* past its end, happens to hold.                                          *)
(***************************************************************************)
Junk(cells) == [(0 .. Cells - 1) \ DOMAIN cells -> Chars]

deserialize_ed_tree(cells, junk) ==
  LET cell(c) == IF c \in DOMAIN cells THEN cells[c] ELSE junk[c]
  IN  [i \in Positions |->
         [data      |-> cell(i),
          neighbors |-> { j \in Chars : cell(FlagCell(i, j)) # 0 }]]

=============================================================================
