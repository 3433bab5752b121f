---------------------------- MODULE EdTree_proofs ----------------------------
(***************************************************************************)
(* Proofs about EdTreeSpec, for every depth, range of char, alphabet and   *)
(* size of the header: what a save and a load keep, what the tree accepts, *)
(* and what its distances are.                                             *)
(***************************************************************************)
EXTENDS EdTreeSpec, LibraryLemmas

-----------------------------------------------------------------------------
(***************************************************************************)
(* The invariant.  TypeOK, ColumnsExact and AnswerExact are inductive once *)
(* it is known that the tree is empty exactly when no digest was added:    *)
(* without it the first digest could hide others.                          *)
(***************************************************************************)
EmptyIffNothingStored == IsEmpty(tree) <=> stored = {}

IInv == TypeOK /\ EmptyIffNothingStored /\ ColumnsExact /\ AnswerExact

\* A padded buffer holds the bytes of its text.
LEMMA PadIsText ==
  ASSUME NEW hash \in Buffers, NEW i \in Positions
  PROVE  /\ pad_hash_digest(hash)[i] = Byte(CString(hash), i)
         /\ pad_hash_digest(hash)[i] \in Bytes
         /\ Bytes \subseteq Chars
<1>1. hash \in [Positions -> Bytes]
  BY DEF Buffers
<1>2. Bytes \subseteq Chars
  BY EdTreeAssumption DEF Bytes, Chars, Missing
<1>3. DOMAIN CString(hash) =
        { k \in Positions : \A m \in 0 .. k : hash[m] # 0 }
  BY DEF CString
<1>4. 0 \in Bytes
  BY DEF Bytes
<1>5. CASE \E m \in 0 .. i : hash[m] = 0
  <2>1. pad_hash_digest(hash)[i] = 0
    BY <1>5 DEF pad_hash_digest
  <2>2. i \notin DOMAIN CString(hash)
    BY <1>3, <1>5
  <2> QED
    BY <1>2, <1>4, <2>1, <2>2 DEF Byte
<1>6. CASE ~ \E m \in 0 .. i : hash[m] = 0
  <2>1. pad_hash_digest(hash)[i] = hash[i]
    BY <1>6 DEF pad_hash_digest
  <2>2. i \in DOMAIN CString(hash)
    BY <1>3, <1>6
  <2>3. CString(hash)[i] = hash[i]
    BY <2>2, <1>3 DEF CString
  <2> QED
    BY <1>1, <1>2, <2>1, <2>2, <2>3 DEF Byte
<1> QED
  BY <1>5, <1>6

\* What the tree accepts at a position after an insertion.
LEMMA InsertColumns ==
  ASSUME NEW aTree \in Trees, NEW hash \in Buffers
  PROVE  LET after == edt_insert_string(aTree, pad_hash_digest(hash)) IN
         /\ after \in [Positions -> Nodes]
         /\ \A i \in Positions :
              {after[i].data} \cup after[i].neighbors =
                (IF IsEmpty(aTree) THEN {}
                 ELSE {aTree[i].data} \cup aTree[i].neighbors)
                  \cup {Byte(CString(hash), i)}
<1> DEFINE string == pad_hash_digest(hash)
           after == edt_insert_string(aTree, string)
<1>1. \A i \in Positions :
        string[i] = Byte(CString(hash), i) /\ string[i] \in Chars
  BY PadIsText
<1>2. CASE IsEmpty(aTree)
  <2>1. after = [i \in Positions |-> [data |-> string[i], neighbors |-> {}]]
    BY <1>2 DEF edt_insert_string
  <2>2. after \in [Positions -> Nodes]
    BY <1>1, <2>1 DEF Nodes
  <2>3. \A i \in Positions :
          {after[i].data} \cup after[i].neighbors = {Byte(CString(hash), i)}
    BY <1>1, <2>1
  <2> QED
    BY <1>2, <2>2, <2>3
<1>3. CASE ~IsEmpty(aTree)
  <2>1. aTree \in [Positions -> Nodes]
    BY <1>3 DEF Trees, IsEmpty
  <2>2. after = [i \in Positions |->
                   [aTree[i] EXCEPT !.neighbors = @ \cup {string[i]}]]
    BY <1>3 DEF edt_insert_string
  <2>3. ASSUME NEW i \in Positions
        PROVE  /\ after[i] \in Nodes
               /\ {after[i].data} \cup after[i].neighbors =
                    ({aTree[i].data} \cup aTree[i].neighbors) \cup {string[i]}
    <3>1. aTree[i].data \in Chars /\ aTree[i].neighbors \subseteq Chars
          /\ aTree[i] \in Nodes
      BY <2>1 DEF Nodes
    <3>2. after[i] = [aTree[i] EXCEPT !.neighbors = @ \cup {string[i]}]
      BY <2>2
    <3>3. after[i].data = aTree[i].data
          /\ after[i].neighbors = aTree[i].neighbors \cup {string[i]}
          /\ after[i] \in Nodes
      BY <1>1, <3>1, <3>2 DEF Nodes
    <3> QED
      BY <3>3
  <2> QED
    BY <1>1, <1>3, <2>2, <2>3
<1> QED
  BY <1>2, <1>3

LEMMA InitIInv == Init => IInv
<1> SUFFICES ASSUME Init PROVE IInv
  OBVIOUS
<1>1. tree = create_ed_tree /\ status = "live" /\ answer = NoAnswer /\ stored = {}
  BY DEF Init
<1>2. IsEmpty(tree)
  BY <1>1 DEF IsEmpty, create_ed_tree
<1>3. TypeOK
  BY <1>1, PositionsExist DEF TypeOK, Trees
<1> QED
  BY <1>1, <1>2, <1>3
     DEF IInv, EmptyIffNothingStored, ColumnsExact, AnswerExact

LEMMA AddHashKeepsIInv ==
  ASSUME IInv, NEW hash \in Buffers, AddHash(hash)
  PROVE  IInv'
<1> DEFINE text == CString(hash)
<1>1. tree \in Trees /\ status \in {"live", "aborted"} /\ stored \subseteq CStrings
  BY DEF IInv, TypeOK
<1>2. /\ tree' = edt_insert_string(tree, pad_hash_digest(hash))
      /\ stored' = stored \cup {text}
      /\ answer' = NoAnswer
      /\ status' = status
  BY DEF AddHash
<1>3. /\ tree' \in [Positions -> Nodes]
      /\ \A i \in Positions :
           {tree'[i].data} \cup tree'[i].neighbors =
             (IF IsEmpty(tree) THEN {}
              ELSE {tree[i].data} \cup tree[i].neighbors)
               \cup {Byte(text, i)}
  BY <1>1, <1>2, InsertColumns
<1>4. ~IsEmpty(tree')
  BY <1>3, NotEmpty
<1>5. TypeOK'
  BY <1>1, <1>2, <1>3 DEF TypeOK, Trees, CStrings
<1>6. EmptyIffNothingStored'
  BY <1>2, <1>4 DEF EmptyIffNothingStored
<1>7. ASSUME NEW i \in Positions
      PROVE  ({tree'[i].data} \cup tree'[i].neighbors) \cap Bytes
               = { Byte(string, i) : string \in stored' }
  <2>1. Byte(text, i) \in Bytes
    BY PadIsText
  <2>2. { Byte(string, i) : string \in stored' }
          = { Byte(string, i) : string \in stored } \cup {Byte(text, i)}
    BY <1>2
  <2>3. CASE IsEmpty(tree)
    <3>1. stored = {}
      BY <2>3 DEF IInv, EmptyIffNothingStored
    <3> QED
      BY <1>3, <2>1, <2>2, <2>3, <3>1
  <2>4. CASE ~IsEmpty(tree)
    <3>1. ({tree[i].data} \cup tree[i].neighbors) \cap Bytes
            = { Byte(string, i) : string \in stored }
      BY <2>4 DEF IInv, ColumnsExact
    <3>2. {tree'[i].data} \cup tree'[i].neighbors
            = ({tree[i].data} \cup tree[i].neighbors) \cup {Byte(text, i)}
      BY <1>3, <2>4
    <3> QED
      BY <2>1, <2>2, <3>1, <3>2
  <2> QED
    BY <2>3, <2>4
<1>8. ColumnsExact'
  BY <1>7 DEF ColumnsExact
<1>9. AnswerExact'
  BY <1>2 DEF AnswerExact, NoAnswer
<1> QED
  BY <1>5, <1>6, <1>8, <1>9 DEF IInv

LEMMA CheckHashKeepsIInv ==
  ASSUME IInv, NEW hash \in Buffers, CheckHash(hash)
  PROVE  IInv'
<1>1. tree' = tree /\ stored' = stored
  BY DEF CheckHash
<1>2. EmptyIffNothingStored' /\ ColumnsExact'
  BY <1>1 DEF IInv, EmptyIffNothingStored, ColumnsExact
<1>3. CASE IsEmpty(tree)
  <2>1. status' = "aborted" /\ answer' = answer
    BY <1>3 DEF CheckHash
  <2>2. TypeOK'
    BY <1>1, <2>1 DEF IInv, TypeOK, NoAnswer
  <2>3. AnswerExact'
    BY <1>1, <2>1 DEF IInv, AnswerExact, NoAnswer
  <2> QED
    BY <1>2, <2>2, <2>3 DEF IInv
<1>4. CASE ~IsEmpty(tree)
  <2> DEFINE text == CString(hash)
             string == pad_hash_digest(hash)
             distance == edt_get_distance_to_existing(tree, string)
             Strange == { i \in Positions :
                            \A other \in stored : Byte(other, i) # Byte(text, i) }
  <2>1. answer' = <<text, distance>> /\ status' = status
    BY <1>4 DEF CheckHash
  <2>2. { i \in Positions : /\ tree[i].data # string[i]
                            /\ string[i] \notin tree[i].neighbors } = Strange
    <3> SUFFICES ASSUME NEW i \in Positions
                 PROVE  (string[i] \in {tree[i].data} \cup tree[i].neighbors)
                          <=> \E other \in stored : Byte(other, i) = Byte(text, i)
      OBVIOUS
    <3>1. string[i] = Byte(text, i) /\ string[i] \in Bytes
      BY PadIsText
    <3>2. ({tree[i].data} \cup tree[i].neighbors) \cap Bytes
            = { Byte(other, i) : other \in stored }
      BY <1>4 DEF IInv, ColumnsExact
    <3> QED
      BY <3>1, <3>2
  <2>3. distance = Cardinality(Strange)
    BY <2>2 DEF edt_get_distance_to_existing
  <2>4. distance \in 0 .. Depth
    BY <2>3, CountPositions
  <2>5. text \in CStrings
    BY DEF CStrings
  <2>6. TypeOK'
    BY <1>1, <2>1, <2>4, <2>5 DEF IInv, TypeOK, NoAnswer
  <2>7. AnswerExact'
    BY <1>1, <2>1, <2>3 DEF AnswerExact
  <2> QED
    BY <1>2, <2>6, <2>7 DEF IInv
<1> QED
  BY <1>3, <1>4

LEMMA ReloadKeepsIInv == IInv /\ Reload => IInv'
<1> SUFFICES ASSUME IInv, Reload PROVE IInv'
  OBVIOUS
<1>1. answer' = answer /\ stored' = stored
  BY DEF Reload
<1>2. AnswerExact'
  BY <1>1 DEF IInv, AnswerExact, NoAnswer
<1>3. CASE IsEmpty(tree)
  <2>1. status' = "aborted" /\ tree' = tree
    BY <1>3 DEF Reload
  <2> QED
    BY <1>1, <1>2, <2>1
       DEF IInv, TypeOK, NoAnswer, EmptyIffNothingStored, ColumnsExact
<1>4. CASE ~IsEmpty(tree)
  <2>1. PICK junk \in Junk(serialize_ed_tree(tree)) :
          tree' = deserialize_ed_tree(serialize_ed_tree(tree), junk)
    BY <1>4 DEF Reload
  <2>2. tree \in [Positions -> Nodes] /\ status' = status
    BY <1>4 DEF Reload, IInv, TypeOK, Trees, IsEmpty
  <2>3. /\ tree' \in [Positions -> Nodes]
        /\ \A i \in Positions :
             /\ tree'[i].data = tree[i].data
             /\ tree'[i].neighbors \cap Bytes = tree[i].neighbors \cap Bytes
    BY <2>1, <2>2, RoundTrip
  <2>4. TypeOK'
    BY <1>1, <2>2, <2>3 DEF IInv, TypeOK, Trees, NoAnswer
  <2>5. EmptyIffNothingStored'
    BY <1>1, <1>4, <2>3, NotEmpty DEF IInv, EmptyIffNothingStored
  <2>6. ASSUME NEW i \in Positions
        PROVE  ({tree'[i].data} \cup tree'[i].neighbors) \cap Bytes
                 = { Byte(string, i) : string \in stored' }
    <3>1. ({tree[i].data} \cup tree[i].neighbors) \cap Bytes
            = { Byte(string, i) : string \in stored }
      BY <1>4 DEF IInv, ColumnsExact
    <3>2. ({tree'[i].data} \cup tree'[i].neighbors) \cap Bytes
            = ({tree[i].data} \cup tree[i].neighbors) \cap Bytes
      BY <2>3
    <3> QED
      BY <1>1, <3>1, <3>2
  <2>7. ColumnsExact'
    BY <2>6 DEF ColumnsExact
  <2> QED
    BY <1>2, <2>4, <2>5, <2>7 DEF IInv
<1> QED
  BY <1>3, <1>4

\* The inductive invariant holds in every reachable state.
THEOREM IInvHolds == Spec => []IInv
<1>1. Init => IInv
  BY InitIInv
<1>2. IInv /\ [Next]_vars => IInv'
  <2> SUFFICES ASSUME IInv, [Next]_vars PROVE IInv'
    OBVIOUS
  <2>1. ASSUME NEW hash \in Buffers, AddHash(hash) PROVE IInv'
    BY <2>1, AddHashKeepsIInv
  <2>2. ASSUME NEW hash \in Buffers, CheckHash(hash) PROVE IInv'
    BY <2>2, CheckHashKeepsIInv
  <2>3. CASE Reload
    BY <2>3, ReloadKeepsIInv
  <2>4. CASE UNCHANGED vars
    BY <2>4 DEF vars, IInv, TypeOK, EmptyIffNothingStored, ColumnsExact,
                AnswerExact, NoAnswer
  <2> QED
    BY <2>1, <2>2, <2>3, <2>4 DEF Next
<1> QED
  BY <1>1, <1>2, PTL DEF Spec

\* Type correctness of the tree, the history and the distances, which are
\* between 0 and Depth (ed_tree.c).
THEOREM TypeCorrect == Spec => []TypeOK
<1>1. IInv => TypeOK
  BY DEF IInv
<1> QED
  BY <1>1, IInvHolds, PTL

\* The tree accepts at every position exactly the bytes of the digests added,
\* through any number of saves and loads, for every depth and both sizes of
\* the header (ed_tree.c:43-56, 84-142).
THEOREM ColumnsAreExact == Spec => []ColumnsExact
<1>1. IInv => ColumnsExact
  BY DEF IInv
<1> QED
  BY <1>1, IInvHolds, PTL

\* The distance of a digest is the number of positions where no digest added
\* has its byte (ed_tree.c:58-71).
THEOREM AnswersAreExact == Spec => []AnswerExact
<1>1. IInv => AnswerExact
  BY DEF IInv
<1> QED
  BY <1>1, IInvHolds, PTL

\* No digest is scored further away than it is from any digest added: no false
\* negative within the threshold (db.c:50-53, valor.c:78).
THEOREM ScoresNeverTooFar == Spec => []NeverTooFar
<1>1. IInv => NeverTooFar
  <2> SUFFICES ASSUME IInv, answer # NoAnswer, NEW string \in stored
               PROVE  answer[2] <= Differences(answer[1], string)
    BY DEF NeverTooFar
  <2> DEFINE Strange == { i \in Positions :
                            \A other \in stored :
                              Byte(other, i) # Byte(answer[1], i) }
             Different == { i \in Positions :
                              Byte(answer[1], i) # Byte(string, i) }
  <2>1. answer[2] = Cardinality(Strange)
    BY DEF IInv, AnswerExact
  <2>2. Strange \subseteq Different
    OBVIOUS
  <2>3. IsFiniteSet(Different)
    BY CountPositions
  <2>4. Cardinality(Strange) <= Cardinality(Different)
    BY <2>2, <2>3, FS_Subset
  <2> QED
    BY <2>1, <2>4 DEF Differences
<1> QED
  BY <1>1, IInvHolds, PTL

\* Adding digests only brings digests nearer, saving and loading moves none
\* (ed_tree.c:43-56, 84-142).
THEOREM ScoresOnlyEverDrop == Spec => ScoresOnlyDrop
<1> DEFINE StepDrops ==
             [~IsEmpty(tree) =>
                \A hash \in Digests :
                  LET before == edt_get_distance_to_existing(tree, hash)
                      after  == edt_get_distance_to_existing(tree', hash)
                  IN  IF stored' = stored THEN after = before
                                          ELSE after <= before]_tree
<1>1. IInv /\ IInv' /\ [Next]_vars => StepDrops
  <2> SUFFICES ASSUME IInv, IInv', [Next]_vars, ~IsEmpty(tree),
                      NEW hash \in Digests
               PROVE
                 LET before == edt_get_distance_to_existing(tree, hash)
                     after  == edt_get_distance_to_existing(tree', hash)
                 IN  IF stored' = stored THEN after = before
                                         ELSE after <= before
    OBVIOUS
  <2> DEFINE Strange(texts) ==
               { i \in Positions : hash[i] \notin { Byte(text, i) : text \in texts } }
  <2>1. stored \subseteq stored'
    BY DEF Next, AddHash, CheckHash, Reload, vars
  <2>2. \A i \in Positions : hash[i] \in Bytes
    BY PadIsText DEF Digests
  <2>3. stored' # {} /\ ~IsEmpty(tree')
    BY <2>1 DEF IInv, EmptyIffNothingStored
  <2>4. edt_get_distance_to_existing(tree, hash) = Cardinality(Strange(stored))
    <3>1. { i \in Positions : /\ tree[i].data # hash[i]
                              /\ hash[i] \notin tree[i].neighbors }
            = Strange(stored)
      BY <2>2 DEF IInv, ColumnsExact
    <3> QED
      BY <3>1 DEF edt_get_distance_to_existing
  <2>5. edt_get_distance_to_existing(tree', hash) = Cardinality(Strange(stored'))
    <3>1. { i \in Positions : /\ tree'[i].data # hash[i]
                              /\ hash[i] \notin tree'[i].neighbors }
            = Strange(stored')
      BY <2>2, <2>3 DEF IInv, ColumnsExact
    <3> QED
      BY <3>1 DEF edt_get_distance_to_existing
  <2>6. Strange(stored') \subseteq Strange(stored)
    BY <2>1
  <2>7. IsFiniteSet(Strange(stored))
    BY CountPositions
  <2>8. Cardinality(Strange(stored')) <= Cardinality(Strange(stored))
    BY <2>6, <2>7, FS_Subset
  <2> QED
    BY <2>4, <2>5, <2>8
<1> QED
  BY <1>1, IInvHolds, PTL DEF Spec, ScoresOnlyDrop

=============================================================================
