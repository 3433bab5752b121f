----------------------------- MODULE EdTreeSpec -----------------------------
(***************************************************************************)
(* The digest half of a database: adding and scoring digests, and saving   *)
(* the tree and loading it back, in any order.                             *)
(***************************************************************************)
EXTENDS EdTree

VARIABLES
  tree,     \* the ed_tree_t
  status,   \* "live", or "aborted" by assert(last_node)
  answer,   \* digest and result of the last database_check_hash, if no digest
            \* was added since
  stored    \* history: the digests added, as C strings

vars == <<tree, status, answer, stored>>

NoAnswer == <<>>

\* The text in a buffer: its bytes before the first NUL, where they stand.
CString(hash) ==
  [i \in { i \in Positions : \A m \in 0 .. i : hash[m] # 0 } |-> hash[i]]

CStrings == { CString(hash) : hash \in Buffers }

\* The byte a text has at a position of a zero-padded buffer.
Byte(string, i) == IF i \in DOMAIN string THEN string[i] ELSE 0

Init ==
  /\ tree = create_ed_tree
  /\ status = "live"
  /\ answer = NoAnswer
  /\ stored = {}

\* database_add_hash(db, hash)
AddHash(hash) ==
  /\ status = "live"
  /\ tree' = edt_insert_string(tree, pad_hash_digest(hash))
  /\ stored' = stored \cup {CString(hash)}
  /\ answer' = NoAnswer
  /\ UNCHANGED status

\* database_check_hash(db, hash)
CheckHash(hash) ==
  /\ status = "live"
  /\ IF IsEmpty(tree)
     THEN status' = "aborted" /\ UNCHANGED answer
     ELSE /\ answer' = <<CString(hash),
                         edt_get_distance_to_existing(
                           tree, pad_hash_digest(hash))>>
          /\ UNCHANGED status
  /\ UNCHANGED <<tree, stored>>

\* serialize_ed_tree, then deserialize_ed_tree of the same bytes.
Reload ==
  /\ status = "live"
  /\ IF IsEmpty(tree)
     THEN status' = "aborted" /\ UNCHANGED tree
     ELSE /\ \E junk \in Junk(serialize_ed_tree(tree)) :
               tree' = deserialize_ed_tree(serialize_ed_tree(tree), junk)
          /\ UNCHANGED status
  /\ UNCHANGED <<answer, stored>>

Next ==
  \/ \E hash \in Buffers : AddHash(hash) \/ CheckHash(hash)
  \/ Reload

Spec == Init /\ [][Next]_vars

-----------------------------------------------------------------------------
(***************************************************************************)
(* Properties                                                              *)
(***************************************************************************)

\* The tree is empty or has a node for every position, the history lists
\* digests, an answer is a digest and its distance.
TypeOK ==
  /\ tree \in Trees
  /\ status \in {"live", "aborted"}
  /\ answer \in (CStrings \X (0 .. Depth)) \cup {NoAnswer}
  /\ stored \subseteq CStrings

\* At every position, the bytes the tree accepts are the bytes of the digests
\* added, whatever was in the buffers after their NUL and through any number
\* of saves and loads (ed_tree.c:43-56, 84-142, db.c:23-29).
ColumnsExact ==
  ~IsEmpty(tree) =>
    \A i \in Positions :
      ({tree[i].data} \cup tree[i].neighbors) \cap Bytes
        = { Byte(string, i) : string \in stored }

\* The distance of a digest is the number of positions where no digest added
\* has its byte (ed_tree.c:58-71).
AnswerExact ==
  answer # NoAnswer =>
    answer[2] =
      Cardinality({ i \in Positions :
                      \A string \in stored :
                        Byte(string, i) # Byte(answer[1], i) })

Differences(a, b) ==
  Cardinality({ i \in Positions : Byte(a, i) # Byte(b, i) })

\* A threat is never scored further away than it is from any digest added: a
\* digest within the threshold of one added is within it of the tree
\* (db.c:50-53, valor.c:78).
NeverTooFar ==
  answer # NoAnswer =>
    \A string \in stored : answer[2] <= Differences(answer[1], string)

Digests == { pad_hash_digest(hash) : hash \in Buffers }

\* Adding digests only brings digests nearer, and saving and loading moves
\* none (ed_tree.c:43-56, 84-142).
ScoresOnlyDrop ==
  [][~IsEmpty(tree) =>
       \A hash \in Digests :
         LET before == edt_get_distance_to_existing(tree, hash)
             after  == edt_get_distance_to_existing(tree', hash)
         IN  IF stored' = stored THEN after = before ELSE after <= before]_tree

=============================================================================
