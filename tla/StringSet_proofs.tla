-------------------------- MODULE StringSet_proofs --------------------------
(***************************************************************************)
(* Proofs about StringSetSpec, for every set of strings, every hash        *)
(* function and every capacity.                                            *)
(*                                                                         *)
(* The invariant that is inductive ties what the two walks of the source   *)
(* find to the history: stringset_add stops exactly at the strings whose   *)
(* code was added before, stringset_check finds exactly the first of each  *)
(* code.  Both need that a string's bucket depends on its code alone.      *)
(***************************************************************************)
EXTENDS StringSetImplementsCodes, LibraryLemmas, FiniteSetTheorems, SequenceTheorems

CodesAdded == { Hash[str] : str \in Added }

\* A walk meets the code of str if and only if a string with it was added.
WalksMeetCodes ==
  \A str \in Strings :
    AddStops(set, str) <=> \E other \in Added : Hash[other] = Hash[str]

\* A walk finds str if and only if it was the first added with its code.
WalksFindFirst ==
  \A str \in Strings : stringset_check(set, str) <=> FirstWithCode(str)

IInv ==
  /\ TypeOK
  /\ InPlace(set)
  /\ set.capacity = 0 => added = <<>>
  /\ set.capacity > 0 => WalksMeetCodes /\ WalksFindFirst
  /\ IsFiniteSet(CodesAdded)
  /\ SizeCountsCodes
  /\ AnswerIsFirstWithCode

-----------------------------------------------------------------------------
LEMMA InitIInv == Init => IInv
<1> SUFFICES ASSUME Init PROVE IInv
  OBVIOUS
<1>1. PICK capacity \in Capacities : set = create_stringset(capacity)
  BY DEF Init
<1>2. capacity \in Nat
  BY <1>1, CapacitiesAssumption
<1>3. status = "live" /\ answer = NoAnswer /\ added = <<>>
  BY DEF Init
<1>4. Added = {} /\ CodesAdded = {}
  BY <1>3 DEF Added, CodesAdded
<1>5. set.capacity = capacity /\ set.size = 0 /\ set.wild = {}
      /\ set.chain = [b \in 0 .. capacity - 1 |-> <<>>]
  BY <1>1 DEF create_stringset
<1>6. TypeOK
  <2>1. set.chain \in [0 .. capacity - 1 -> Seq(Strings)]
    BY <1>2, <1>5
  <2>2. set \in StringSets(capacity)
    BY <1>1, <1>2, <1>5, <2>1 DEF create_stringset, StringSets
  <2> QED
    BY <1>1, <1>3, <2>2 DEF TypeOK
<1>9. InPlace(set)
  BY <1>1, <1>2, CreateEffect
<1>7. ASSUME set.capacity > 0 PROVE WalksMeetCodes /\ WalksFindFirst
  <2>1. ASSUME NEW str \in Strings PROVE Chain(set, str) = <<>>
    <3>1. Hash[str] \in Nat
      BY StringSetAssumption
    <3>2. Bucket(set, str) \in 0 .. capacity - 1
      BY <1>2, <1>5, <1>7, <3>1 DEF Bucket
    <3> QED
      BY <1>5, <3>2 DEF Chain
  <2>2. DOMAIN <<>> = {}
    OBVIOUS
  <2>3. \A str \in Strings : ~AddStops(set, str) /\ ~stringset_check(set, str)
    BY <2>1, <2>2 DEF AddStops, stringset_check
  <2>4. \A str : ~FirstWithCode(str)
    BY <1>3, <2>2 DEF FirstWithCode
  <2> QED
    BY <1>4, <2>3, <2>4 DEF WalksMeetCodes, WalksFindFirst
<1>8. IsFiniteSet(CodesAdded) /\ Cardinality(CodesAdded) = 0
  BY <1>4, FS_EmptySet
<1> QED
  BY <1>3, <1>5, <1>6, <1>7, <1>8, <1>9
     DEF IInv, SizeCountsCodes, CodesAdded, AnswerIsFirstWithCode

\* A step that leaves the set and the history alone keeps what they agree on.
LEMMA SameSet ==
  ASSUME IInv, set' = set, added' = added,
         status' \in {"live", "destroyed", "aborted", "lost"},
         answer' \in (Strings \X BOOLEAN) \cup {NoAnswer},
         AnswerIsFirstWithCode'
  PROVE  IInv'
<1>1. TypeOK'
  BY DEF IInv, TypeOK, NoAnswer
<1>2. (set.capacity = 0 => added = <<>>)' /\ InPlace(set)'
  BY DEF IInv, InPlace, Bucket
<1>3. (set.capacity > 0 => WalksMeetCodes /\ WalksFindFirst)'
  BY DEF IInv, WalksMeetCodes, WalksFindFirst, Added, FirstWithCode
<1>4. CodesAdded' = CodesAdded
  BY DEF CodesAdded, Added
<1>5. SizeCountsCodes'
  BY <1>4 DEF IInv, SizeCountsCodes, Added, CodesAdded
<1> QED
  BY <1>1, <1>2, <1>3, <1>4, <1>5 DEF IInv

\* The history after a first use of str.
LEMMA AppendHistory ==
  ASSUME NEW str \in Strings, added \in Seq(Strings),
         added' = Append(added, str)
  PROVE  /\ added' \in Seq(Strings)
         /\ Added' = Added \cup {str}
         /\ CodesAdded' = CodesAdded \cup {Hash[str]}
         /\ \A other :
              FirstWithCode(other)' <=>
                \/ FirstWithCode(other)
                \/ other = str /\ Hash[str] \notin CodesAdded
<1>1. added' \in Seq(Strings) /\ Len(added') = Len(added) + 1
      /\ Len(added) \in Nat
      /\ DOMAIN added = 1 .. Len(added) /\ DOMAIN added' = 1 .. Len(added) + 1
  OBVIOUS
<1>2. added'[Len(added) + 1] = str
      /\ \A k \in 1 .. Len(added) : added'[k] = added[k]
  OBVIOUS
<1>3. Added' = Added \cup {str}
  BY <1>1, <1>2 DEF Added
<1>4. CodesAdded' = CodesAdded \cup {Hash[str]}
  BY <1>3 DEF CodesAdded
<1>5. ASSUME NEW other
      PROVE  FirstWithCode(other)' <=>
               \/ FirstWithCode(other)
               \/ other = str /\ Hash[str] \notin CodesAdded
  <2>1. Hash[str] \notin CodesAdded <=>
          \A j \in 1 .. Len(added) : Hash[added[j]] # Hash[str]
    BY <1>1 DEF CodesAdded, Added
  <2>2. ASSUME FirstWithCode(other) PROVE FirstWithCode(other)'
    <3>1. PICK k \in DOMAIN added :
            /\ added[k] = other
            /\ \A j \in 1 .. k - 1 : Hash[added[j]] # Hash[other]
      BY <2>2 DEF FirstWithCode
    <3>2. k \in DOMAIN added' /\ added'[k] = other
      BY <1>1, <1>2, <3>1
    <3>3. \A j \in 1 .. k - 1 : added'[j] = added[j]
      BY <1>1, <1>2
    <3> QED
      BY <3>1, <3>2, <3>3 DEF FirstWithCode
  <2>3. ASSUME other = str, Hash[str] \notin CodesAdded PROVE FirstWithCode(other)'
    <3>1. \A j \in 1 .. Len(added) : Hash[added'[j]] # Hash[other]
      BY <1>2, <2>1, <2>3
    <3>2. Len(added) + 1 \in DOMAIN added' /\ added'[Len(added) + 1] = other
          /\ (Len(added) + 1) - 1 = Len(added)
      BY <1>1, <1>2, <2>3
    <3> QED
      BY <3>1, <3>2 DEF FirstWithCode
  <2>4. ASSUME FirstWithCode(other)'
        PROVE  FirstWithCode(other) \/ (other = str /\ Hash[str] \notin CodesAdded)
    <3>1. PICK k \in DOMAIN added' :
            /\ added'[k] = other
            /\ \A j \in 1 .. k - 1 : Hash[added'[j]] # Hash[other]
      BY <2>4 DEF FirstWithCode
    <3>2. CASE k = Len(added) + 1
      <4>1. other = str /\ \A j \in 1 .. Len(added) : Hash[added[j]] # Hash[str]
        BY <1>1, <1>2, <3>1, <3>2
      <4> QED
        BY <2>1, <4>1
    <3>3. CASE k # Len(added) + 1
      <4>1. k \in DOMAIN added /\ added[k] = other
            /\ \A j \in 1 .. k - 1 : Hash[added[j]] # Hash[other]
        BY <1>1, <1>2, <3>1, <3>3
      <4> QED
        BY <4>1 DEF FirstWithCode
    <3> QED
      BY <3>2, <3>3
  <2> QED
    BY <2>2, <2>3, <2>4
<1> QED
  BY <1>1, <1>3, <1>4, <1>5

LEMMA AddKeepsIInv ==
  ASSUME IInv, NEW str \in Strings, Add(str)
  PROVE  IInv'
<1>1. PICK capacity \in Capacities : set \in StringSets(capacity)
  BY DEF IInv, TypeOK
<1>2. capacity \in Nat /\ set.capacity = capacity /\ set.size \in Nat
  BY <1>1, CapacitiesAssumption DEF StringSets
<1>3. answer' = NoAnswer /\ AnswerIsFirstWithCode'
  BY DEF Add, AnswerIsFirstWithCode, NoAnswer
<1>4. added \in Seq(Strings) /\ status \in {"live", "destroyed", "aborted", "lost"}
  BY DEF IInv, TypeOK
<1>5. CASE status' \in {"aborted", "lost"} /\ UNCHANGED <<set, added>>
  BY <1>3, <1>5, SameSet
<1>6. CASE /\ set.capacity > 0
           /\ \E next \in FreshNext : set' = stringset_add(set, str, next)
           /\ added' = IF str \in Added THEN added ELSE Append(added, str)
           /\ UNCHANGED status
  <2>1. PICK next \in FreshNext : set' = stringset_add(set, str, next)
    BY <1>6
  <2>2. WalksMeetCodes /\ WalksFindFirst
    BY <1>6 DEF IInv
  <2>3. AddStops(set, str) <=> Hash[str] \in CodesAdded
    BY <2>2 DEF WalksMeetCodes, CodesAdded
  <2>4. CASE str \in Added
    <3>1. AddStops(set, str)
      BY <2>3, <2>4 DEF CodesAdded
    <3>2. set' = set
      BY <2>1, <3>1 DEF stringset_add
    <3>3. added' = added
      BY <1>6, <2>4
    <3> QED
      BY <1>3, <1>4, <1>6, <3>2, <3>3, SameSet
  <2>5. CASE str \notin Added
    <3>1. added' = Append(added, str)
      BY <1>6, <2>5
    <3>2. /\ added' \in Seq(Strings)
          /\ Added' = Added \cup {str}
          /\ CodesAdded' = CodesAdded \cup {Hash[str]}
          /\ \A other :
               FirstWithCode(other)' <=>
                 \/ FirstWithCode(other)
                 \/ other = str /\ Hash[str] \notin CodesAdded
      BY <1>4, <3>1, AppendHistory
    <3>3. IsFiniteSet(CodesAdded) /\ set.size = Cardinality(CodesAdded)
      BY DEF IInv, SizeCountsCodes, CodesAdded
    <3>4. CASE AddStops(set, str)
      <4>1. set' = set
        BY <2>1, <3>4 DEF stringset_add
      <4>2. Hash[str] \in CodesAdded /\ CodesAdded' = CodesAdded
        BY <2>3, <3>2, <3>4
      <4>3. TypeOK'
        BY <1>3, <1>4, <1>6, <3>2, <4>1 DEF IInv, TypeOK, NoAnswer
      <4>4. WalksMeetCodes'
        BY <2>2, <2>3, <3>2, <3>4, <4>1 DEF WalksMeetCodes, CodesAdded
      <4>5. WalksFindFirst'
        BY <2>2, <3>2, <4>1, <4>2 DEF WalksFindFirst
      <4>6. SizeCountsCodes'
        BY <3>3, <4>1, <4>2 DEF SizeCountsCodes, CodesAdded
      <4>7. InPlace(set)'
        BY <4>1 DEF IInv, InPlace, Bucket
      <4> QED
        BY <1>3, <1>6, <3>3, <4>1, <4>2, <4>3, <4>4, <4>5, <4>6, <4>7 DEF IInv
    <3>5. CASE ~AddStops(set, str)
      <4>1. set' \in StringSets(capacity) /\ set'.size = set.size + 1
        BY <1>1, <1>2, <1>6, <2>1, <3>5, AddShape
      <4>2. set'.capacity = capacity
        BY <4>1 DEF StringSets
      <4>3. \A other \in Strings :
              /\ AddStops(set', other) <=>
                   AddStops(set, other) \/ Hash[other] = Hash[str]
              /\ stringset_check(set', other) <=>
                   stringset_check(set, other) \/ other = str
        BY <1>1, <1>2, <1>6, <2>1, <3>5, AddEffect
      <4>4. TypeOK'
        BY <1>3, <1>4, <1>6, <3>2, <4>1 DEF TypeOK, NoAnswer
      <4>5. WalksMeetCodes'
        BY <2>2, <3>2, <4>3 DEF WalksMeetCodes
      <4>6. WalksFindFirst'
        BY <2>2, <2>3, <3>2, <3>5, <4>3 DEF WalksFindFirst
      <4>7. Hash[str] \notin CodesAdded
        BY <2>3, <3>5
      <4>8. IsFiniteSet(CodesAdded') /\ Cardinality(CodesAdded') = Cardinality(CodesAdded) + 1
        BY <3>2, <3>3, <4>7, FS_AddElement
      <4>9. SizeCountsCodes'
        BY <3>3, <4>1, <4>8 DEF SizeCountsCodes, CodesAdded
      <4>10. InPlace(set')
        BY <1>1, <1>2, <1>6, <2>1, <3>5, AddInPlace DEF IInv
      <4> QED
        BY <1>2, <1>3, <1>6, <4>2, <4>4, <4>5, <4>6, <4>8, <4>9, <4>10
           DEF IInv, InPlace, Bucket
    <3> QED
      BY <3>4, <3>5
  <2> QED
    BY <2>4, <2>5
<1> QED
  BY <1>5, <1>6 DEF Add

LEMMA CheckKeepsIInv ==
  ASSUME IInv, NEW str \in Strings, Check(str)
  PROVE  IInv'
<1>1. UNCHANGED <<set, added>>
      /\ status' \in {"live", "destroyed", "aborted", "lost"}
  BY DEF Check, IInv, TypeOK
<1>2. CASE UNCHANGED answer
  <2>1. AnswerIsFirstWithCode'
    BY <1>1, <1>2
       DEF IInv, AnswerIsFirstWithCode, FirstWithCode, NoAnswer
  <2> QED
    BY <1>1, <1>2, <2>1, SameSet DEF IInv, TypeOK
<1>3. CASE set.capacity > 0 /\ answer' = <<str, stringset_check(set, str)>>
  <2>1. stringset_check(set, str) \in BOOLEAN
    BY DEF stringset_check
  <2>2. stringset_check(set, str) <=> FirstWithCode(str)
    BY <1>3 DEF IInv, WalksFindFirst
  <2>3. answer'[1] = str /\ answer'[2] = stringset_check(set, str)
    BY <1>3
  <2>4. FirstWithCode(str)' <=> FirstWithCode(str)
    BY <1>1 DEF FirstWithCode
  <2>5. AnswerIsFirstWithCode'
    BY <1>1, <2>2, <2>3, <2>4 DEF AnswerIsFirstWithCode, FirstWithCode
  <2> QED
    BY <1>1, <1>3, <2>1, <2>5, SameSet
<1> QED
  BY <1>2, <1>3 DEF Check

LEMMA DestroyKeepsIInv == IInv /\ Destroy => IInv'
<1> SUFFICES ASSUME IInv, Destroy PROVE IInv'
  OBVIOUS
<1>1. UNCHANGED <<set, added, answer>> /\ status' \in {"destroyed", "lost"}
  BY DEF Destroy
<1>2. AnswerIsFirstWithCode'
  BY <1>1 DEF IInv, AnswerIsFirstWithCode, FirstWithCode, NoAnswer
<1> QED
  BY <1>1, <1>2, SameSet DEF IInv, TypeOK

\* The inductive invariant holds in every reachable state.
THEOREM IInvHolds == Spec => []IInv
<1>1. Init => IInv
  BY InitIInv
<1>2. IInv /\ [Next]_vars => IInv'
  <2> SUFFICES ASSUME IInv, [Next]_vars PROVE IInv'
    OBVIOUS
  <2>1. ASSUME NEW str \in Strings, Add(str) PROVE IInv'
    BY <2>1, AddKeepsIInv
  <2>2. ASSUME NEW str \in Strings, Check(str) PROVE IInv'
    BY <2>2, CheckKeepsIInv
  <2>3. CASE Destroy
    BY <2>3, DestroyKeepsIInv
  <2>4. CASE UNCHANGED vars
    <3>1. UNCHANGED <<set, added, answer, status>>
      BY <2>4 DEF vars
    <3>2. AnswerIsFirstWithCode'
      BY <3>1 DEF IInv, AnswerIsFirstWithCode, FirstWithCode, NoAnswer
    <3> QED
      BY <3>1, <3>2, SameSet DEF IInv, TypeOK
  <2> QED
    BY <2>1, <2>2, <2>3, <2>4 DEF Next
<1> QED
  BY <1>1, <1>2, PTL DEF Spec

\* Type correctness of the set, the history and the answers (hashset.c:93-160).
THEOREM TypeCorrect == Spec => []TypeOK
<1>1. IInv => TypeOK
  BY DEF IInv
<1> QED
  BY <1>1, IInvHolds, PTL

\* The size is the number of codes ever added, for every hash function
\* (hashset.c:106-128).
THEOREM SizeIsNumberOfCodes == Spec => []SizeCountsCodes
<1>1. IInv => SizeCountsCodes
  BY DEF IInv
<1> QED
  BY <1>1, IInvHolds, PTL

\* A lookup finds a string exactly when it was the first added with its code,
\* for every hash function and every capacity (hashset.c:106-145).
THEOREM LookupsAreFirstWithCode == Spec => []AnswerIsFirstWithCode
<1>1. IInv => AnswerIsFirstWithCode
  BY DEF IInv
<1> QED
  BY <1>1, IInvHolds, PTL

\* Adding never loses a string the set holds (hashset.c:121-126).
THEOREM MembersNeverLost == Spec => MembersAreKept
<1>1. IInv /\ [Next]_vars => [Members(set) \subseteq Members(set')]_set
  <2> SUFFICES ASSUME IInv, [Next]_vars, set' # set
               PROVE  Members(set) \subseteq Members(set')
    OBVIOUS
  <2>1. PICK str \in Strings : Add(str)
    BY DEF Next, Check, Destroy, vars
  <2>2. PICK next \in FreshNext : set' = stringset_add(set, str, next)
        /\ set.capacity > 0
    BY <2>1 DEF Add
  <2>3. ~AddStops(set, str)
    BY <2>2 DEF stringset_add
  <2>4. PICK capacity \in Capacities : set \in StringSets(capacity)
    BY DEF IInv, TypeOK
  <2>5. capacity \in Nat /\ set.capacity = capacity
        /\ set.chain \in [0 .. capacity - 1 -> Seq(Strings)]
    BY <2>4, CapacitiesAssumption DEF StringSets
  <2>6. /\ set' \in StringSets(capacity)
        /\ \A c \in 0 .. capacity - 1 :
             set'.chain[c] = IF c = Bucket(set, str)
                             THEN Append(set.chain[c], str)
                             ELSE set.chain[c]
    BY <2>2, <2>3, <2>4, <2>5, AddShape
  <2>7. set'.chain \in [0 .. capacity - 1 -> Seq(Strings)]
    BY <2>6 DEF StringSets
  <2>8. ASSUME NEW c \in 0 .. capacity - 1, NEW k \in DOMAIN set.chain[c]
        PROVE  k \in DOMAIN set'.chain[c] /\ set'.chain[c][k] = set.chain[c][k]
    <3>1. set.chain[c] \in Seq(Strings)
      BY <2>5
    <3>2. DOMAIN set.chain[c] = 1 .. Len(set.chain[c])
          /\ Len(set.chain[c]) \in Nat
      BY <3>1
    <3>3. CASE c = Bucket(set, str)
      <4>1. set'.chain[c] = Append(set.chain[c], str)
        BY <2>6, <3>3
      <4> QED
        BY <3>1, <3>2, <4>1
    <3>4. CASE c # Bucket(set, str)
      BY <2>6, <3>4
    <3> QED
      BY <3>3, <3>4
  <2> QED
    BY <2>5, <2>7, <2>8 DEF Members
<1> QED
  BY <1>1, IInvHolds, PTL DEF Spec, MembersAreKept

-----------------------------------------------------------------------------
(***************************************************************************)
(* A stringset_t without its strings is the hashset_t of their codes.      *)
(***************************************************************************)

\* The two walks meet the same codes (hashset.c:52-62, 113-119).
LEMMA WalksAgree ==
  ASSUME NEW capacity \in Nat, capacity > 0,
         NEW aSet \in StringSets(capacity), NEW str \in Strings
  PROVE  /\ Hash[str] % capacity \in 0 .. capacity - 1
         /\ CodesOf(aSet).chain[Hash[str] % capacity] =
              [k \in DOMAIN Chain(aSet, str) |-> Hash[Chain(aSet, str)[k]]]
         /\ CodeSet!hashset_check(CodesOf(aSet), Hash[str])
              <=> AddStops(aSet, str)
<1>1. aSet.capacity = capacity
      /\ aSet.chain \in [0 .. capacity - 1 -> Seq(Strings)]
  BY DEF StringSets
<1>2. Hash[str] % capacity \in 0 .. capacity - 1
  BY StringSetAssumption
<1>3. /\ CodesOf(aSet).capacity = capacity
      /\ CodesOf(aSet).chain =
           [b \in 0 .. capacity - 1 |->
              [k \in DOMAIN aSet.chain[b] |-> Hash[aSet.chain[b][k]]]]
  BY <1>1 DEF CodesOf
<1>4. Chain(aSet, str) = aSet.chain[Hash[str] % capacity]
  BY <1>1 DEF Chain, Bucket
<1>5. CodesOf(aSet).chain[Hash[str] % capacity] =
        [k \in DOMAIN Chain(aSet, str) |-> Hash[Chain(aSet, str)[k]]]
  BY <1>2, <1>3, <1>4
<1>6. CodeSet!hashset_check(CodesOf(aSet), Hash[str])
        <=> AddStops(aSet, str)
  <2> DEFINE chain == CodesOf(aSet).chain[Hash[str] % capacity]
  <2>1. CodeSet!hashset_check(CodesOf(aSet), Hash[str])
          <=> \E k \in DOMAIN chain : chain[k] = Hash[str]
    BY <1>3 DEF CodeSet!hashset_check
  <2>2. /\ DOMAIN chain = DOMAIN Chain(aSet, str)
        /\ \A k \in DOMAIN chain : chain[k] = Hash[Chain(aSet, str)[k]]
    BY <1>5
  <2> HIDE DEF chain
  <2> QED
    BY <2>1, <2>2 DEF AddStops
<1> QED
  BY <1>2, <1>5, <1>6

\* A new string set is a new integer set (hashset.c:13-23, 93-103).
LEMMA CodesOfCreate ==
  ASSUME NEW capacity \in Nat
  PROVE  CodesOf(create_stringset(capacity)) = Codes!create_hashset(capacity)
<1> DEFINE aSet == create_stringset(capacity)
<1>1. aSet.capacity = capacity /\ aSet.size = 0
      /\ aSet.chain = [b \in 0 .. capacity - 1 |-> <<>>]
  BY DEF create_stringset
<1>2. \A b \in 0 .. capacity - 1 :
        [k \in DOMAIN aSet.chain[b] |-> Hash[aSet.chain[b][k]]] = <<>>
  <2>1. DOMAIN <<>> = {}
    OBVIOUS
  <2>2. [k \in {} |-> Hash[<<>>[k]]] = <<>>
    OBVIOUS
  <2> QED
    BY <1>1, <2>1, <2>2
<1> QED
  BY <1>1, <1>2 DEF CodesOf, Codes!create_hashset

\* A chain with one more string has one more code.
LEMMA CodesOfAppend ==
  ASSUME NEW chain \in Seq(Strings), NEW str \in Strings
  PROVE  [k \in DOMAIN Append(chain, str) |-> Hash[Append(chain, str)[k]]] =
           Append([k \in DOMAIN chain |-> Hash[chain[k]]], Hash[str])
<1> DEFINE longer == Append(chain, str)
           n == Len(chain)
           codes == [k \in 1 .. n |-> Hash[chain[k]]]
           more == [k \in 1 .. n + 1 |-> Hash[longer[k]]]
<1>1. n \in Nat /\ DOMAIN chain = 1 .. n /\ DOMAIN longer = 1 .. n + 1
  OBVIOUS
<1>2. longer[n + 1] = str /\ \A k \in 1 .. n : longer[k] = chain[k]
  OBVIOUS
<1>3. \A s \in Strings : Hash[s] \in Nat
  BY StringSetAssumption
<1>4. codes \in [1 .. n -> Nat] /\ codes \in Seq(Nat) /\ Len(codes) = n
  BY <1>1, <1>3
<1>5. more \in [1 .. n + 1 -> Nat]
  <2>1. \A k \in 1 .. n + 1 : longer[k] \in Strings
    OBVIOUS
  <2> QED
    BY <1>3, <2>1
<1>6. more \in Seq(Nat) /\ Len(more) = n + 1
  <2>1. n + 1 \in Nat
    BY <1>1
  <2> HIDE DEF more
  <2> QED
    BY <1>5, <2>1
<1>7. /\ Append(codes, Hash[str]) \in Seq(Nat)
      /\ Len(Append(codes, Hash[str])) = n + 1
      /\ Append(codes, Hash[str])[n + 1] = Hash[str]
      /\ \A k \in 1 .. n : Append(codes, Hash[str])[k] = codes[k]
  <2> HIDE DEF codes
  <2> QED
    BY <1>1, <1>3, <1>4
<1>8. \A k \in 1 .. n + 1 : more[k] = Append(codes, Hash[str])[k]
  BY <1>1, <1>2, <1>7
<1>9. more = Append(codes, Hash[str])
  <2> HIDE DEF more, codes
  <2> QED
    BY <1>6, <1>7, <1>8, SeqEqual
<1> QED
  BY <1>1, <1>9

\* Adding a string is adding its code (hashset.c:52-72, 106-128).
LEMMA CodesOfAdd ==
  ASSUME NEW capacity \in Nat, capacity > 0,
         NEW aSet \in StringSets(capacity), NEW str \in Strings, NEW next
  PROVE  CodesOf(stringset_add(aSet, str, next)) =
           Codes!hashset_add(CodesOf(aSet), Hash[str])
<1> DEFINE before == CodesOf(aSet)
           after == stringset_add(aSet, str, next)
           b == Hash[str] % capacity
<1>1. aSet.capacity = capacity
      /\ aSet.chain \in [0 .. capacity - 1 -> Seq(Strings)]
  BY DEF StringSets
<1>2. b \in 0 .. capacity - 1 /\ Bucket(aSet, str) = b
  BY <1>1, WalksAgree DEF Bucket
<1>3. Codes!hashset_check(before, Hash[str]) <=> AddStops(aSet, str)
  BY WalksAgree DEF Codes!hashset_check, CodeSet!hashset_check
<1>4. CASE AddStops(aSet, str)
  BY <1>3, <1>4 DEF stringset_add, Codes!hashset_add
<1>5. CASE ~AddStops(aSet, str)
  <2>1. /\ after.size = aSet.size + 1 /\ after.capacity = capacity
        /\ after.chain \in [0 .. capacity - 1 -> Seq(Strings)]
        /\ \A c \in 0 .. capacity - 1 :
             after.chain[c] = IF c = b THEN Append(aSet.chain[c], str)
                                       ELSE aSet.chain[c]
    <3>1. /\ after \in StringSets(capacity)
          /\ after.size = aSet.size + 1
          /\ \A c \in 0 .. capacity - 1 :
               after.chain[c] = IF c = b THEN Append(aSet.chain[c], str)
                                         ELSE aSet.chain[c]
      BY <1>2, <1>5, AddShape
    <3> HIDE DEF after
    <3> QED
      BY <3>1 DEF StringSets
  <2> HIDE DEF after
  <2> DEFINE codes(chain) == [k \in DOMAIN chain |-> Hash[chain[k]]]
  <2>2. before = [capacity |-> capacity, size |-> aSet.size,
                  chain |-> [c \in 0 .. capacity - 1 |-> codes(aSet.chain[c])]]
    BY <1>1 DEF CodesOf
  <2>3. CodesOf(after) =
          [capacity |-> capacity, size |-> aSet.size + 1,
           chain |-> [c \in 0 .. capacity - 1 |-> codes(after.chain[c])]]
    BY <2>1 DEF CodesOf
  <2>4. codes(after.chain[b]) = Append(codes(aSet.chain[b]), Hash[str])
    <3>1. aSet.chain[b] \in Seq(Strings)
          /\ after.chain[b] = Append(aSet.chain[b], str)
      BY <1>1, <1>2, <2>1
    <3> QED
      BY <3>1, CodesOfAppend
  <2>5. /\ before.capacity = capacity /\ before.size = aSet.size
        /\ before.chain = [c \in 0 .. capacity - 1 |-> codes(aSet.chain[c])]
    BY <2>2
  <2>6. Codes!hashset_add(before, Hash[str]) =
          [capacity |-> capacity, size |-> aSet.size + 1,
           chain |-> [before.chain EXCEPT ![b] =
                        Append(before.chain[b], Hash[str])]]
    <3> HIDE DEF before, codes
    <3> QED
      BY <1>3, <1>5, <2>5 DEF Codes!hashset_add
  <2>7. [before.chain EXCEPT ![b] = Append(before.chain[b], Hash[str])] =
          [c \in 0 .. capacity - 1 |-> codes(after.chain[c])]
    <3> HIDE DEF codes, before
    <3>1. \A c \in 0 .. capacity - 1 :
            codes(after.chain[c]) = IF c = b THEN Append(before.chain[b], Hash[str])
                                             ELSE before.chain[c]
      <4>1. ASSUME NEW c \in 0 .. capacity - 1, c # b
            PROVE  codes(after.chain[c]) = before.chain[c]
        BY <2>1, <2>5, <4>1
      <4>2. codes(after.chain[b]) = Append(before.chain[b], Hash[str])
        BY <1>2, <2>4, <2>5
      <4> QED
        BY <4>1, <4>2
    <3> QED
      BY <1>2, <2>5, <3>1
  <2> HIDE DEF before, codes
  <2> QED
    BY <2>3, <2>6, <2>7 DEF after, before
<1> QED
  BY <1>4, <1>5

\* The codes a string set holds are those of the strings that were added, for
\* every hash function and every capacity (hashset.c:52-83).
THEOREM CodesHeldWereAdded == Spec => []CodesAreThoseAdded
<1>1. IInv => CodesAreThoseAdded
  <2> SUFFICES ASSUME IInv, set.capacity > 0, NEW hash \in CodesInUse
               PROVE  CodeSet!hashset_check(CodesOf(set), hash)
                        <=> \E str \in Added : Hash[str] = hash
    BY DEF CodesAreThoseAdded
  <2>1. PICK str \in Strings : hash = Hash[str]
    BY DEF CodesInUse
  <2>2. PICK capacity \in Capacities : set \in StringSets(capacity)
    BY DEF IInv, TypeOK
  <2>3. capacity \in Nat /\ set.capacity = capacity
    BY <2>2, CapacitiesAssumption DEF StringSets
  <2>4. CodeSet!hashset_check(CodesOf(set), hash) <=> AddStops(set, str)
    BY <2>1, <2>2, <2>3, WalksAgree
  <2> QED
    BY <2>1, <2>4 DEF IInv, WalksMeetCodes
<1> QED
  BY <1>1, IInvHolds, PTL

-----------------------------------------------------------------------------
(***************************************************************************)
(* The calls on a stringset_t are calls on the hashset_t of its codes.     *)
(***************************************************************************)

\* A string set is created as an integer set is.
LEMMA InitIsInit == Init => Codes!Init
<1> SUFFICES ASSUME Init PROVE Codes!Init
  OBVIOUS
<1>1. PICK capacity \in Capacities : set = create_stringset(capacity)
  BY DEF Init
<1>2. CodesOf(set) = Codes!create_hashset(capacity)
  BY <1>1, CodesOfCreate, CapacitiesAssumption
<1>3. statusBar = "live" /\ answerBar = Codes!NoAnswer
  BY DEF Init, statusBar, answerBar, NoAnswer, Codes!NoAnswer
<1> QED
  BY <1>1, <1>2, <1>3 DEF Codes!Init

\* stringset_add does hashset_add; one that leaves the chain through an
\* uninitialised `next` is to the codes the addition of one already there.
LEMMA AddIsAdd ==
  ASSUME IInv, NEW str \in Strings, Add(str)
  PROVE  \E hash \in CodesInUse : Codes!Add(hash)
<1>1. PICK capacity \in Capacities : set \in StringSets(capacity)
  BY DEF IInv, TypeOK
<1>2. capacity \in Nat /\ set.capacity = capacity
      /\ CodesOf(set).capacity = capacity
  BY <1>1, CapacitiesAssumption DEF StringSets, CodesOf
<1>3. status = "live" /\ answer' = NoAnswer
  BY DEF Add
<1>4. statusBar = "live" /\ answerBar' = Codes!NoAnswer
  BY <1>3 DEF statusBar, answerBar, Codes!NoAnswer, NoAnswer
<1>5. Hash[str] \in CodesInUse
  BY DEF CodesInUse
<1>6. CASE set.capacity = 0 /\ status' = "aborted" /\ UNCHANGED set
  <2>1. CodesOf(set)' = CodesOf(set) /\ statusBar' = "aborted"
    BY <1>6 DEF CodesOf, statusBar
  <2> QED
    BY <1>2, <1>4, <1>5, <1>6, <2>1 DEF Codes!Add
<1>7. CASE /\ set.capacity > 0 /\ AddGetsLost(set, str)
           /\ status' = "lost" /\ UNCHANGED set
  <2>1. CodesOf(set)' = CodesOf(set) /\ statusBar' = "live"
    BY <1>7 DEF CodesOf, statusBar
  <2>2. Bucket(set, str) \in set.wild /\ Bucket(set, str) \in 0 .. capacity - 1
    BY <1>1, <1>7 DEF AddGetsLost, StringSets
  <2>3. Chain(set, str) \in Seq(Strings) /\ Chain(set, str) # <<>>
    BY <1>1, <2>2 DEF IInv, InPlace, Chain, StringSets
  <2>4. PICK held \in Strings :
          held = Chain(set, str)[1] /\ 1 \in DOMAIN Chain(set, str)
    BY <2>3
  <2>5. Bucket(set, held) = Bucket(set, str)
    BY <1>1, <2>2, <2>4 DEF IInv, InPlace, Chain, StringSets
  <2>6. AddStops(set, held)
    BY <2>4, <2>5 DEF AddStops, Chain
  <2>7. Codes!hashset_check(CodesOf(set), Hash[held])
    BY <1>1, <1>2, <1>7, <2>6, WalksAgree
       DEF Codes!hashset_check, CodeSet!hashset_check
  <2>8. Codes!hashset_add(CodesOf(set), Hash[held]) = CodesOf(set)
    BY <2>7 DEF Codes!hashset_add
  <2>9. Hash[held] \in CodesInUse
    BY DEF CodesInUse
  <2> QED
    BY <1>2, <1>4, <1>7, <2>1, <2>8, <2>9 DEF Codes!Add
<1>8. CASE /\ set.capacity > 0 /\ UNCHANGED status
           /\ \E next \in FreshNext : set' = stringset_add(set, str, next)
  <2>1. PICK next \in FreshNext : set' = stringset_add(set, str, next)
    BY <1>8
  <2>2. CodesOf(set)' = CodesOf(stringset_add(set, str, next))
    BY <2>1 DEF CodesOf
  <2>3. CodesOf(set)' = Codes!hashset_add(CodesOf(set), Hash[str])
    BY <1>1, <1>2, <1>8, <2>2, CodesOfAdd
  <2>4. statusBar' = "live"
    BY <1>3, <1>8 DEF statusBar
  <2> QED
    BY <1>2, <1>4, <1>5, <1>8, <2>3, <2>4 DEF Codes!Add
<1> QED
  BY <1>6, <1>7, <1>8 DEF Add

\* stringset_check does hashset_check, or gets lost and changes nothing.
LEMMA CheckIsCheck ==
  ASSUME NEW str \in Strings, Check(str)
  PROVE  (\E hash \in CodesInUse : Codes!Check(hash)) \/ UNCHANGED Codes!vars
<1>1. Hash[str] \in CodesInUse /\ CodesOf(set).capacity = set.capacity
  BY DEF CodesInUse, CodesOf
<1>2. status = "live" /\ statusBar = "live" /\ set' = set
  BY DEF Check, statusBar
<1>3. CodesOf(set)' = CodesOf(set)
  BY <1>2 DEF CodesOf
<1>4. CASE UNCHANGED answer /\ status' = "lost"
  <2>1. answerBar' = answerBar
    BY <1>2, <1>3, <1>4 DEF answerBar, NoAnswer, CodeSet!hashset_check
  <2>2. CASE set.capacity = 0
    <3>1. statusBar' = "lost"
      BY <1>2, <1>4, <2>2 DEF statusBar
    <3> QED
      BY <1>1, <1>2, <1>3, <2>1, <2>2, <3>1 DEF Codes!Check
  <2>3. CASE set.capacity > 0
    <3>1. statusBar' = "live"
      BY <1>2, <1>4, <2>3 DEF statusBar
    <3> QED
      BY <1>2, <1>3, <2>1, <3>1 DEF Codes!vars
  <2> QED
    BY <1>4, <2>2, <2>3 DEF Check
<1>5. CASE /\ set.capacity > 0 /\ UNCHANGED status
           /\ answer' = <<str, stringset_check(set, str)>>
  <2>1. statusBar' = "live"
    BY <1>2, <1>5 DEF statusBar
  <2>2. answer' # NoAnswer' /\ answer'[1] = str
    BY <1>5 DEF NoAnswer
  <2>3. answerBar' =
          <<Hash[str], CodeSet!hashset_check(CodesOf(set), Hash[str])>>
    BY <1>2, <1>3, <2>2 DEF answerBar, CodeSet!hashset_check
  <2>4. answerBar' =
          <<Hash[str], Codes!hashset_check(CodesOf(set), Hash[str])>>
    BY <2>3 DEF Codes!hashset_check, CodeSet!hashset_check
  <2>5. CodesOf(set).capacity # 0
    BY <1>1, <1>5
  <2> QED
    BY <1>1, <1>2, <1>3, <2>1, <2>4, <2>5 DEF Codes!Check
<1> QED
  BY <1>4, <1>5 DEF Check

\* destroy_stringset does destroy_hashset, or gets lost in a wild chain.
LEMMA DestroyIsDestroy ==
  ASSUME IInv, Destroy
  PROVE  Codes!Destroy \/ UNCHANGED Codes!vars
<1>1. status = "live" /\ statusBar = "live" /\ set' = set /\ answer' = answer
  BY DEF Destroy, statusBar
<1>2. CodesOf(set)' = CodesOf(set)
  BY <1>1 DEF CodesOf
<1>3. answerBar' = answerBar
  BY <1>1, <1>2 DEF answerBar, NoAnswer, CodeSet!hashset_check
<1>4. CASE set.wild = {}
  <2>1. statusBar' = "destroyed"
    BY <1>4 DEF Destroy, statusBar
  <2> QED
    BY <1>1, <1>2, <1>3, <2>1 DEF Codes!Destroy
<1>5. CASE set.wild # {}
  <2>1. PICK capacity \in Capacities : set \in StringSets(capacity)
    BY DEF IInv, TypeOK
  <2>2. set.capacity > 0
    BY <1>5, <2>1, CapacitiesAssumption DEF StringSets
  <2>3. statusBar' = "live"
    BY <1>1, <1>5, <2>2 DEF Destroy, statusBar
  <2> QED
    BY <1>1, <1>2, <1>3, <2>3 DEF Codes!vars
<1> QED
  BY <1>4, <1>5

\* The string half of hashset.c does to codes what the integer half does, for
\* every hash function and every capacity: each call of a stringset_t is a call
\* of the hashset_t of its codes, or the step on which the program leaves a
\* chain through an uninitialised `next` (hashset.c:26-83, 93-160).
THEOREM CodesRefine == Spec => ImplementsHashSet
<1>1. IInv /\ [Next]_vars => [Codes!Next]_Codes!vars
  <2> SUFFICES ASSUME IInv, [Next]_vars PROVE Codes!Next \/ UNCHANGED Codes!vars
    OBVIOUS
  <2>1. ASSUME NEW str \in Strings, Add(str) PROVE Codes!Next
    BY <2>1, AddIsAdd DEF Codes!Next
  <2>2. ASSUME NEW str \in Strings, Check(str)
        PROVE  Codes!Next \/ UNCHANGED Codes!vars
    BY <2>2, CheckIsCheck DEF Codes!Next
  <2>3. CASE Destroy
    BY <2>3, DestroyIsDestroy DEF Codes!Next
  <2>4. CASE UNCHANGED vars
    <3>1. set' = set /\ status' = status /\ answer' = answer
      BY <2>4 DEF vars
    <3>2. CodesOf(set)' = CodesOf(set)
      BY <3>1 DEF CodesOf
    <3>3. statusBar' = statusBar /\ answerBar' = answerBar
      BY <3>1, <3>2 DEF statusBar, answerBar, NoAnswer, CodeSet!hashset_check
    <3> QED
      BY <3>2, <3>3 DEF Codes!vars
  <2> QED
    BY <2>1, <2>2, <2>3, <2>4 DEF Next
<1> QED
  BY <1>1, InitIsInit, IInvHolds, PTL DEF Spec, ImplementsHashSet, Codes!Spec

=============================================================================
