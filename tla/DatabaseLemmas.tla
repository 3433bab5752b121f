--------------------------- MODULE DatabaseLemmas ---------------------------
(***************************************************************************)
(* What the functions of a database_t and the records they write keep      *)
(* true, for every hash function, every capacity and every file.  Sound    *)
(* says of a database what no call breaks, WellFormed of a file what       *)
(* saving writes, whenever the program dies.                               *)
(***************************************************************************)
EXTENDS Database, LibraryLemmas, SequenceTheorems

-----------------------------------------------------------------------------
(***************************************************************************)
(* The array of names                                                      *)
(***************************************************************************)

\* Where a code comes for the first time.
FirstNames(names) ==
  { k \in DOMAIN names : \A j \in 1 .. k - 1 : Hash[names[j]] # Hash[names[k]] }

IsFirst(names, str) == \E k \in FirstNames(names) : names[k] = str

\* No two names have one code.
CodesDiffer(names) ==
  \A j, k \in DOMAIN names : Hash[names[j]] = Hash[names[k]] => j = k

\* The array with one more name.
LEMMA AppendName ==
  ASSUME NEW names \in Seq(Strings), NEW str \in Strings
  PROVE  /\ Append(names, str) \in Seq(Strings)
         /\ Len(Append(names, str)) = Len(names) + 1
         /\ CodesOfNames(Append(names, str)) = CodesOfNames(names) \cup {Hash[str]}
         /\ \A other :
              IsFirst(Append(names, str), other) <=>
                \/ IsFirst(names, other)
                \/ other = str /\ Hash[str] \notin CodesOfNames(names)
<1> DEFINE longer == Append(names, str)
           n == Len(names)
<1>1. longer \in Seq(Strings) /\ Len(longer) = n + 1 /\ n \in Nat
      /\ DOMAIN names = 1 .. n /\ DOMAIN longer = 1 .. n + 1
  OBVIOUS
<1>2. longer[n + 1] = str /\ \A k \in 1 .. n : longer[k] = names[k]
  OBVIOUS
<1> HIDE DEF longer, n
<1>3. CodesOfNames(longer) = CodesOfNames(names) \cup {Hash[str]}
  BY <1>1, <1>2 DEF CodesOfNames
<1>4. ASSUME NEW k \in 1 .. n
      PROVE  k \in FirstNames(longer) <=> k \in FirstNames(names)
  <2>1. \A j \in 1 .. k - 1 : longer[j] = names[j]
    BY <1>1, <1>2
  <2> QED
    BY <1>1, <1>2, <2>1 DEF FirstNames
<1>5. n + 1 \in FirstNames(longer) <=> Hash[str] \notin CodesOfNames(names)
  <2>1. n + 1 \in FirstNames(longer)
          <=> \A j \in 1 .. n : Hash[longer[j]] # Hash[str]
    BY <1>1, <1>2 DEF FirstNames
  <2>2. Hash[str] \notin CodesOfNames(names)
          <=> \A j \in 1 .. n : Hash[names[j]] # Hash[str]
    BY <1>1 DEF CodesOfNames
  <2> QED
    BY <1>2, <2>1, <2>2
<1>6. FirstNames(longer) \subseteq 1 .. n + 1 /\ FirstNames(names) \subseteq 1 .. n
  BY <1>1 DEF FirstNames
<1>7. ASSUME NEW other
      PROVE  IsFirst(longer, other) <=>
               \/ IsFirst(names, other)
               \/ other = str /\ Hash[str] \notin CodesOfNames(names)
  <2>1. ASSUME IsFirst(longer, other)
        PROVE  \/ IsFirst(names, other)
               \/ other = str /\ Hash[str] \notin CodesOfNames(names)
    <3>1. PICK k \in FirstNames(longer) : longer[k] = other
      BY <2>1 DEF IsFirst
    <3>2. k \in 1 .. n \/ k = n + 1
      BY <1>1, <1>6
    <3> QED
      BY <1>2, <1>4, <1>5, <3>1, <3>2 DEF IsFirst
  <2>2. ASSUME IsFirst(names, other) PROVE IsFirst(longer, other)
    BY <1>2, <1>4, <1>6, <2>2 DEF IsFirst
  <2>3. ASSUME other = str, Hash[str] \notin CodesOfNames(names)
        PROVE  IsFirst(longer, other)
    BY <1>2, <1>5, <2>3 DEF IsFirst
  <2> QED
    BY <2>1, <2>2, <2>3
<1> QED
  BY <1>1, <1>3, <1>7 DEF longer, n

\* There are as many codes as names, or fewer when two names share one.
LEMMA CountCodes ==
  ASSUME NEW names \in Seq(Strings)
  PROVE  /\ IsFiniteSet(CodesOfNames(names))
         /\ Cardinality(CodesOfNames(names)) \in 0 .. Len(names)
         /\ Cardinality(CodesOfNames(names)) = Len(names) <=> CodesDiffer(names)
<1> DEFINE n == Len(names)
           f == [k \in 1 .. n |-> Hash[names[k]]]
<1>1. n \in Nat /\ DOMAIN names = 1 .. n
  OBVIOUS
<1>2. f \in Surjection(1 .. n, CodesOfNames(names))
  BY <1>1 DEF Surjection, CodesOfNames
<1>3. IsFiniteSet(1 .. n) /\ Cardinality(1 .. n) = n
  BY <1>1, FS_Interval
<1>4. /\ IsFiniteSet(CodesOfNames(names))
      /\ Cardinality(CodesOfNames(names)) <= n
      /\ Cardinality(CodesOfNames(names)) = n
           <=> f \in Injection(1 .. n, CodesOfNames(names))
  <2> HIDE DEF f, n
  <2> QED
    BY <1>2, <1>3, FS_Surjection
<1>5. Cardinality(CodesOfNames(names)) \in Nat
  BY <1>4, FS_CardinalityType
<1>6. f \in Injection(1 .. n, CodesOfNames(names)) <=> CodesDiffer(names)
  <2>1. f \in [1 .. n -> CodesOfNames(names)]
    BY <1>2 DEF Surjection
  <2>2. \A k \in 1 .. n : f[k] = Hash[names[k]]
    OBVIOUS
  <2> HIDE DEF f
  <2> QED
    BY <1>1, <2>1, <2>2 DEF Injection, IsInjective, CodesDiffer
<1> HIDE DEF f
<1> QED
  BY <1>1, <1>4, <1>5, <1>6

-----------------------------------------------------------------------------
(***************************************************************************)
(* Databases                                                               *)
(***************************************************************************)

\* The walks in the set meet the codes of the array, and find the first name
\* of each.
WalksFollowNames(aDb) ==
  \A str \in Strings :
    /\ AddStops(aDb.name_set, str) <=> Hash[str] \in CodesOfNames(aDb.names.base)
    /\ stringset_check(aDb.name_set, str) <=> IsFirst(aDb.names.base, str)

\* The trees that can be saved.
SavedTrees == [Positions -> Nodes]

Sound(aDb) ==
  /\ aDb.modulo \in Nat /\ aDb \in Databases(aDb.modulo)
  /\ InBounds(aDb.names)
  /\ InPlace(aDb.name_set)
  /\ aDb.modulo = 0 => aDb.names.base = <<>>
  /\ aDb.modulo > 0 => WalksFollowNames(aDb)
  /\ aDb.name_set.size = Cardinality(CodesOfNames(aDb.names.base))

\* What soundness says of the parts.
LEMMA SoundParts ==
  ASSUME NEW aDb, Sound(aDb)
  PROVE  /\ aDb.version \in Versions
         /\ aDb.modulo \in Nat
         /\ aDb.name_set \in StringSets(aDb.modulo)
         /\ aDb.names.base \in Seq(Strings) /\ Len(aDb.names.base) \in Nat
         /\ aDb.names.capacity \in Nat
         /\ aDb.hash_tree \in Trees
         /\ ~IsEmpty(aDb.hash_tree) => aDb.hash_tree \in SavedTrees
         /\ aDb.name_set.size \in 0 .. Len(aDb.names.base)
  BY CountCodes DEF Sound, Databases, Arrays, Trees, IsEmpty, SavedTrees

\* A name stops the walk of an addition if a member has its code.
LEMMA StopsAtMembers ==
  ASSUME NEW capacity \in Nat, capacity > 0,
         NEW aSet \in StringSets(capacity), InPlace(aSet),
         NEW str \in Strings
  PROVE  AddStops(aSet, str) <=> \E other \in Members(aSet) : Hash[other] = Hash[str]
<1>1. /\ aSet.capacity = capacity
      /\ aSet.chain \in [0 .. capacity - 1 -> Seq(Strings)]
  BY DEF StringSets
<1>2. Bucket(aSet, str) \in 0 .. capacity - 1
  <2>1. Hash[str] \in Nat
    BY StringSetAssumption
  <2> QED
    BY <1>1, <2>1 DEF Bucket
<1>3. ASSUME AddStops(aSet, str)
      PROVE  \E other \in Members(aSet) : Hash[other] = Hash[str]
  <2>1. PICK k \in DOMAIN Chain(aSet, str) : Hash[Chain(aSet, str)[k]] = Hash[str]
    BY <1>3 DEF AddStops
  <2>2. Chain(aSet, str) \in Seq(Strings)
    BY <1>1, <1>2 DEF Chain
  <2>3. Chain(aSet, str)[k] \in Strings
    BY <2>1, <2>2
  <2>4. Chain(aSet, str)[k] \in Members(aSet)
    BY <1>1, <1>2, <2>1, <2>3 DEF Members, Chain
  <2> QED
    BY <2>1, <2>4
<1>4. ASSUME NEW other \in Members(aSet), Hash[other] = Hash[str]
      PROVE  AddStops(aSet, str)
  <2>1. stringset_check(aSet, other) /\ other \in Strings
    BY MembersAreFound DEF Members
  <2>2. Chain(aSet, other) = Chain(aSet, str)
    BY <1>4 DEF Chain, Bucket
  <2> QED
    BY <1>4, <2>1, <2>2 DEF stringset_check, AddStops
<1> QED
  BY <1>3, <1>4

\* The set follows the array (db.c:55-60).
LEMMA SetFollows ==
  ASSUME NEW aDb, Sound(aDb)
  PROVE  Members(aDb.name_set) =
           { aDb.names.base[k] : k \in FirstNames(aDb.names.base) }
<1>1. aDb.modulo \in Nat /\ aDb.name_set \in StringSets(aDb.modulo)
      /\ aDb.names.base \in Seq(Strings) /\ InPlace(aDb.name_set)
  BY SoundParts DEF Sound
<1>2. CASE aDb.modulo = 0
  <2>1. aDb.names.base = <<>>
    BY <1>2 DEF Sound
  <2>2. DOMAIN aDb.name_set.chain = {}
    BY <1>1, <1>2 DEF StringSets
  <2>3. Members(aDb.name_set) = {}
    BY <2>2 DEF Members
  <2>4. FirstNames(aDb.names.base) = {}
    BY <2>1 DEF FirstNames
  <2> QED
    BY <2>3, <2>4
<1>3. CASE aDb.modulo > 0
  <2>1. \A str \in Strings :
          str \in Members(aDb.name_set) <=> IsFirst(aDb.names.base, str)
    BY <1>1, <1>3, MembersAreFound DEF Sound, WalksFollowNames
  <2>2. \A k \in FirstNames(aDb.names.base) : aDb.names.base[k] \in Strings
    BY <1>1 DEF FirstNames
  <2>3. Members(aDb.name_set) \subseteq Strings
    BY DEF Members
  <2> QED
    BY <2>1, <2>2, <2>3 DEF IsFirst
<1> QED
  BY <1>1, <1>2, <1>3

\* A database without names and digests.
NewDatabase(version, modulo, room) ==
  [version   |-> version,
   modulo    |-> modulo,
   name_set  |-> create_stringset(modulo),
   names     |-> array_create(room),
   hash_tree |-> create_ed_tree]

\* Both functions that make a database make a new one (db.c:5-16, 92-103).
LEMMA BothMakeNew ==
  /\ \A capacity : create_database(capacity) = NewDatabase(1, capacity, 1)
  /\ \A metadata :
       FromMetadata(metadata) =
         NewDatabase(metadata.version, metadata.modulo, metadata.size)
<1>1. \A capacity : create_database(capacity) = NewDatabase(1, capacity, 1)
  BY DEF create_database, NewDatabase
<1>2. ASSUME NEW version, NEW modulo, NEW room
      PROVE  [NewDatabase(1, modulo, 1) EXCEPT !.version = version,
                                              !.names = array_create(room)]
               = NewDatabase(version, modulo, room)
  <2> DEFINE new == NewDatabase(1, modulo, 1)
             later == NewDatabase(version, modulo, 1)
  <2>1. [new EXCEPT !.version = version] = later
    BY DEF NewDatabase
  <2>2. [later EXCEPT !.names = array_create(room)]
          = NewDatabase(version, modulo, room)
    BY DEF NewDatabase
  <2>3. ASSUME NEW v, NEW n
        PROVE  [new EXCEPT !.version = v, !.names = n] =
                 [[new EXCEPT !.version = v] EXCEPT !.names = n]
    BY Zenon
  <2> HIDE DEF new, later
  <2> QED
    BY <2>1, <2>2, <2>3 DEF new
<1> QED
  BY <1>1, <1>2 DEF FromMetadata

LEMMA NewSound ==
  ASSUME NEW version \in Versions, NEW modulo \in Nat, NEW room \in Nat
  PROVE  LET aDb == NewDatabase(version, modulo, room) IN
         /\ Sound(aDb)
         /\ aDb.version = version /\ aDb.modulo = modulo
         /\ aDb.names.base = <<>> /\ aDb.hash_tree = create_ed_tree
         /\ Members(aDb.name_set) = {} /\ aDb.name_set.wild = {}
         /\ aDb.name_set.size = 0
<1> DEFINE aDb == NewDatabase(version, modulo, room)
<1>1. /\ aDb.name_set = create_stringset(modulo)
      /\ aDb.hash_tree = create_ed_tree
      /\ aDb.names = array_create(room)
      /\ aDb.version = version /\ aDb.modulo = modulo
  BY DEF NewDatabase
<1>2. /\ aDb.name_set \in StringSets(modulo)
      /\ InPlace(aDb.name_set)
      /\ Members(aDb.name_set) = {}
      /\ modulo > 0 => \A str \in Strings : ~AddStops(aDb.name_set, str)
  BY <1>1, CreateEffect
<1>3. aDb.name_set.size = 0 /\ aDb.name_set.wild = {}
  BY <1>1 DEF create_stringset
<1>4. /\ array_create(room) \in Arrays(Strings)
      /\ InBounds(array_create(room))
      /\ array_create(room).base = <<>>
  BY DEF array_create, Arrays, InBounds
<1>5. IsEmpty(aDb.hash_tree) /\ aDb.hash_tree \in Trees
  BY <1>1, PositionsExist DEF IsEmpty, create_ed_tree, Trees
<1>6. aDb \in Databases(aDb.modulo)
  BY <1>1, <1>2, <1>4, <1>5 DEF Databases, NewDatabase
<1> HIDE DEF aDb
<1>7. /\ CodesOfNames(aDb.names.base) = {}
      /\ \A str : ~IsFirst(aDb.names.base, str)
  BY <1>1, <1>4 DEF CodesOfNames, IsFirst, FirstNames
<1>8. ASSUME aDb.modulo > 0 PROVE WalksFollowNames(aDb)
  BY <1>1, <1>2, <1>7, <1>8, MembersAreFound DEF WalksFollowNames
<1>9. Cardinality(CodesOfNames(aDb.names.base)) = 0
  BY <1>7, FS_EmptySet
<1>10. Sound(aDb)
  BY <1>1, <1>2, <1>3, <1>4, <1>5, <1>6, <1>8, <1>9 DEF Sound
<1> QED
  BY <1>1, <1>2, <1>3, <1>4, <1>10 DEF aDb

LEMMA AddNameFields ==
  ASSUME NEW v, NEW m, NEW s, NEW a, NEW t, NEW name, NEW next
  PROVE  database_add_name([version |-> v, modulo |-> m, name_set |-> s,
                            names |-> a, hash_tree |-> t], name, next) =
           [version |-> v, modulo |-> m, name_set |-> stringset_add(s, name, next),
            names |-> array_add(a, name), hash_tree |-> t]
<1> DEFINE db(array, set) ==
             [version |-> v, modulo |-> m, name_set |-> set,
              names |-> array, hash_tree |-> t]
           array == array_add(a, name)
           set == stringset_add(s, name, next)
<1>1. [db(a, s) EXCEPT !.names = array] = db(array, s)
  OBVIOUS
<1>2. [db(array, s) EXCEPT !.name_set = set] = db(array, set)
  OBVIOUS
<1>3. db(a, s).names = a /\ db(a, s).name_set = s
  OBVIOUS
<1> HIDE DEF db
<1>4. database_add_name(db(a, s), name, next) =
        [[db(a, s) EXCEPT !.names = array] EXCEPT !.name_set = set]
  <2>1. database_add_name(db(a, s), name, next) =
          [db(a, s) EXCEPT !.names = array, !.name_set = set]
    BY <1>3 DEF database_add_name
  <2> QED
    BY <2>1, Zenon
<1>5. database_add_name(db(a, s), name, next) = db(array, set)
  BY <1>1, <1>2, <1>4
<1> QED
  BY <1>5 DEF db

\* A name added, or found to be there, with whatever the allocator left in a
\* new node (db.c:55-60).
LEMMA AddNameSound ==
  ASSUME NEW aDb, Sound(aDb), aDb.modulo > 0,
         NEW name \in Strings, NEW next
  PROVE  LET after == database_add_name(aDb, name, next) IN
         /\ Sound(after)
         /\ after.version = aDb.version /\ after.modulo = aDb.modulo
         /\ after.hash_tree = aDb.hash_tree
         /\ after.names.base = Append(aDb.names.base, name)
         /\ after.name_set = stringset_add(aDb.name_set, name, next)
         /\ after.name_set.size =
              IF AddStops(aDb.name_set, name) THEN aDb.name_set.size
                                              ELSE aDb.name_set.size + 1
         /\ Members(after.name_set) =
              IF AddStops(aDb.name_set, name) THEN Members(aDb.name_set)
                                              ELSE Members(aDb.name_set) \cup {name}
<1> DEFINE after == database_add_name(aDb, name, next)
           names == aDb.names.base
           set == aDb.name_set
           setAfter == stringset_add(set, name, next)
<1>1. /\ aDb.version \in Versions /\ aDb.modulo \in Nat
      /\ set \in StringSets(aDb.modulo) /\ set.size \in Nat
      /\ names \in Seq(Strings) /\ aDb.names.capacity \in Nat
      /\ aDb.hash_tree \in Trees
  BY SoundParts
<1>2. aDb = [version |-> aDb.version, modulo |-> aDb.modulo,
             name_set |-> aDb.name_set, names |-> aDb.names,
             hash_tree |-> aDb.hash_tree]
  BY DEF Sound, Databases
<1>3. after = [version |-> aDb.version, modulo |-> aDb.modulo,
               name_set |-> setAfter, names |-> array_add(aDb.names, name),
               hash_tree |-> aDb.hash_tree]
  <2> DEFINE flat == [version |-> aDb.version, modulo |-> aDb.modulo,
                      name_set |-> aDb.name_set, names |-> aDb.names,
                      hash_tree |-> aDb.hash_tree]
  <2>1. database_add_name(flat, name, next) =
          [version |-> aDb.version, modulo |-> aDb.modulo,
           name_set |-> setAfter, names |-> array_add(aDb.names, name),
           hash_tree |-> aDb.hash_tree]
    BY AddNameFields
  <2>2. aDb = flat
    BY <1>2
  <2> HIDE DEF flat, setAfter
  <2> QED
    BY <2>1, <2>2
<1>4. /\ after.version = aDb.version /\ after.modulo = aDb.modulo
      /\ after.hash_tree = aDb.hash_tree
      /\ after.names = array_add(aDb.names, name)
      /\ after.name_set = setAfter
  <2> HIDE DEF setAfter
  <2> QED
    BY <1>3
<1>5. /\ after.names \in Arrays(Strings)
      /\ after.names.base = Append(names, name)
      /\ InBounds(after.names)
  <2>1. Len(names) \in Nat /\ Len(names) <= aDb.names.capacity
    BY <1>1 DEF Sound, InBounds
  <2> QED
    BY <1>1, <1>4, <2>1 DEF array_add, Arrays, InBounds, ExtendsFor
<1>6. /\ Append(names, name) \in Seq(Strings)
      /\ CodesOfNames(Append(names, name)) = CodesOfNames(names) \cup {Hash[name]}
      /\ \A other :
           IsFirst(Append(names, name), other) <=>
             \/ IsFirst(names, other)
             \/ other = name /\ Hash[name] \notin CodesOfNames(names)
  BY <1>1, AppendName
<1>7. /\ AddStops(set, name) <=> Hash[name] \in CodesOfNames(names)
      /\ WalksFollowNames(aDb) /\ InPlace(set)
      /\ set.size = Cardinality(CodesOfNames(names))
      /\ IsFiniteSet(CodesOfNames(names))
  BY <1>1, CountCodes DEF Sound, WalksFollowNames
<1>8. /\ setAfter \in StringSets(aDb.modulo) /\ InPlace(setAfter)
      /\ setAfter.size = IF AddStops(set, name) THEN set.size ELSE set.size + 1
      /\ \A str \in Strings :
           /\ AddStops(setAfter, str) <=>
                Hash[str] \in CodesOfNames(names) \cup {Hash[name]}
           /\ stringset_check(setAfter, str) <=>
                \/ stringset_check(set, str)
                \/ str = name /\ ~AddStops(set, name)
  <2>1. CASE AddStops(set, name)
    <3>1. setAfter = set
      BY <2>1 DEF stringset_add
    <3> QED
      BY <1>1, <1>7, <2>1, <3>1 DEF WalksFollowNames
  <2>2. CASE ~AddStops(set, name)
    <3>1. setAfter \in StringSets(aDb.modulo) /\ setAfter.size = set.size + 1
      BY <1>1, <2>2, AddShape
    <3>2. InPlace(setAfter)
      BY <1>1, <1>7, <2>2, AddInPlace
    <3>3. ASSUME NEW str \in Strings
          PROVE  /\ AddStops(setAfter, str) <=>
                      AddStops(set, str) \/ Hash[str] = Hash[name]
                 /\ stringset_check(setAfter, str) <=>
                      stringset_check(set, str) \/ str = name
      BY <1>1, <2>2, AddEffect
    <3> HIDE DEF setAfter, set
    <3> QED
      BY <1>7, <2>2, <3>1, <3>2, <3>3 DEF WalksFollowNames, set
  <2> QED
    BY <2>1, <2>2
<1> HIDE DEF setAfter
<1>9. after \in Databases(aDb.modulo)
  BY <1>1, <1>3, <1>4, <1>5, <1>8 DEF Databases
<1>10. WalksFollowNames(after)
  <2> HIDE DEF after
  <2> QED
    BY <1>4, <1>5, <1>6, <1>7, <1>8 DEF WalksFollowNames
<1>11. after.name_set.size = Cardinality(CodesOfNames(after.names.base))
  <2>1. CASE Hash[name] \in CodesOfNames(names)
    <3>1. CodesOfNames(names) \cup {Hash[name]} = CodesOfNames(names)
      BY <2>1
    <3> QED
      BY <1>4, <1>5, <1>6, <1>7, <1>8, <2>1, <3>1
  <2>2. CASE Hash[name] \notin CodesOfNames(names)
    <3>1. Cardinality(CodesOfNames(names) \cup {Hash[name]}) =
            Cardinality(CodesOfNames(names)) + 1
      BY <1>7, <2>2, FS_AddElement
    <3>2. after.name_set.size = set.size + 1
      BY <1>4, <1>7, <1>8, <2>2
    <3> QED
      BY <1>5, <1>6, <1>7, <3>1, <3>2
  <2> QED
    BY <2>1, <2>2
<1>12. Sound(after)
  <2> HIDE DEF after
  <2> QED
    BY <1>1, <1>4, <1>5, <1>8, <1>9, <1>10, <1>11 DEF Sound
<1>13. Members(after.name_set) =
         IF AddStops(set, name) THEN Members(set) ELSE Members(set) \cup {name}
  <2>1. \A str \in Strings : str \in Members(set) <=> stringset_check(set, str)
    BY <1>1, <1>7, MembersAreFound
  <2>2. \A str \in Strings :
          str \in Members(setAfter) <=> stringset_check(setAfter, str)
    BY <1>1, <1>8, MembersAreFound
  <2>3. Members(set) \subseteq Strings /\ Members(setAfter) \subseteq Strings
    BY DEF Members
  <2>4. \A str \in Strings :
          str \in Members(setAfter) <=>
            str \in Members(set) \/ (str = name /\ ~AddStops(set, name))
    BY <1>8, <2>1, <2>2
  <2> HIDE DEF set
  <2>5. Members(setAfter) =
          IF AddStops(set, name) THEN Members(set) ELSE Members(set) \cup {name}
    BY <2>3, <2>4
  <2> QED
    BY <1>4, <2>5
<1> QED
  BY <1>4, <1>5, <1>8, <1>12, <1>13 DEF setAfter

\* What the names do not depend on: the version and the tree.
LEMMA SameNamesSound ==
  ASSUME NEW aDb, Sound(aDb), NEW after \in Databases(aDb.modulo),
         after.name_set = aDb.name_set, after.names = aDb.names
  PROVE  Sound(after)
<1>1. after.modulo = aDb.modulo
  BY DEF Databases
<1> QED
  BY <1>1 DEF Sound, WalksFollowNames

LEMMA VersionSound ==
  ASSUME NEW aDb, Sound(aDb), NEW version \in Versions
  PROVE  LET after == [aDb EXCEPT !.version = version] IN
         /\ Sound(after)
         /\ after.version = version /\ after.modulo = aDb.modulo
         /\ after.name_set = aDb.name_set /\ after.names = aDb.names
         /\ after.hash_tree = aDb.hash_tree
<1> DEFINE after == [aDb EXCEPT !.version = version]
<1>1. aDb \in Databases(aDb.modulo)
  BY DEF Sound
<1>2. /\ after \in Databases(aDb.modulo) /\ after.version = version
      /\ after.modulo = aDb.modulo /\ after.name_set = aDb.name_set
      /\ after.names = aDb.names /\ after.hash_tree = aDb.hash_tree
  BY <1>1 DEF Databases
<1> HIDE DEF after
<1>3. Sound(after)
  BY <1>1, <1>2, SameNamesSound
<1> QED
  BY <1>2, <1>3 DEF after

LEMMA TreeSound ==
  ASSUME NEW aDb, Sound(aDb), NEW tree \in Trees
  PROVE  LET after == [aDb EXCEPT !.hash_tree = tree] IN
         /\ Sound(after)
         /\ after.version = aDb.version /\ after.modulo = aDb.modulo
         /\ after.name_set = aDb.name_set /\ after.names = aDb.names
         /\ after.hash_tree = tree
<1> DEFINE after == [aDb EXCEPT !.hash_tree = tree]
<1>1. aDb \in Databases(aDb.modulo) /\ tree \in Trees
  BY DEF Sound
<1>2. /\ after \in Databases(aDb.modulo) /\ after.version = aDb.version
      /\ after.modulo = aDb.modulo /\ after.name_set = aDb.name_set
      /\ after.names = aDb.names /\ after.hash_tree = tree
  BY <1>1 DEF Databases
<1> HIDE DEF after
<1>3. Sound(after)
  BY <1>2, SameNamesSound
<1> QED
  BY <1>2, <1>3 DEF after

\* A padded digest is made of bytes of digests.
LEMMA PadBytes ==
  /\ Bytes \subseteq Chars
  /\ \A hash \in Buffers : pad_hash_digest(hash) \in [Positions -> Bytes]
<1>1. Bytes \subseteq Chars /\ 0 \in Bytes
  BY EdTreeAssumption DEF Bytes, Chars, Missing
<1>2. ASSUME NEW hash \in Buffers
      PROVE  pad_hash_digest(hash) \in [Positions -> Bytes]
  <2>1. hash \in [Positions -> Bytes]
    BY DEF Buffers
  <2> QED
    BY <1>1, <2>1 DEF pad_hash_digest
<1> QED
  BY <1>1, <1>2

\* Inserting a digest adds its bytes to what the nodes accept, and keeps the
\* data byte of a node that is there (ed_tree.c:29-56).
LEMMA InsertTree ==
  ASSUME NEW tree \in Trees, NEW string \in [Positions -> Bytes]
  PROVE  LET after == edt_insert_string(tree, string) IN
         /\ after \in SavedTrees /\ after \in Trees /\ ~IsEmpty(after)
         /\ \A i \in Positions :
              {after[i].data} \cup after[i].neighbors =
                IF IsEmpty(tree) THEN {string[i]}
                ELSE ({tree[i].data} \cup tree[i].neighbors) \cup {string[i]}
<1> DEFINE after == edt_insert_string(tree, string)
<1>1. \A i \in Positions : string[i] \in Chars
  BY PadBytes
<1>2. ASSUME after \in SavedTrees
      PROVE  after \in Trees /\ ~IsEmpty(after)
  <2> HIDE DEF after
  <2> QED
    BY <1>2, NotEmpty DEF SavedTrees, Trees
<1>3. CASE IsEmpty(tree)
  <2>1. after = [i \in Positions |-> [data |-> string[i], neighbors |-> {}]]
    BY <1>3 DEF edt_insert_string
  <2>2. after \in SavedTrees
    BY <1>1, <2>1 DEF SavedTrees, Nodes
  <2>3. \A i \in Positions : {after[i].data} \cup after[i].neighbors = {string[i]}
    BY <2>1
  <2> QED
    BY <1>2, <1>3, <2>2, <2>3
<1>4. CASE ~IsEmpty(tree)
  <2>1. tree \in [Positions -> Nodes]
    BY <1>4 DEF Trees, IsEmpty
  <2>2. after = [i \in Positions |->
                   [tree[i] EXCEPT !.neighbors = @ \cup {string[i]}]]
    BY <1>4 DEF edt_insert_string
  <2>3. ASSUME NEW i \in Positions
        PROVE  /\ after[i] \in Nodes /\ after[i].data = tree[i].data
               /\ after[i].neighbors = tree[i].neighbors \cup {string[i]}
    <3>1. tree[i] \in Nodes
      BY <2>1
    <3>2. after[i] = [tree[i] EXCEPT !.neighbors = @ \cup {string[i]}]
      BY <2>2
    <3> QED
      BY <1>1, <3>1, <3>2 DEF Nodes
  <2>4. after \in SavedTrees
    BY <2>2, <2>3 DEF SavedTrees
  <2>5. \A i \in Positions :
          {after[i].data} \cup after[i].neighbors =
            ({tree[i].data} \cup tree[i].neighbors) \cup {string[i]}
    BY <2>3
  <2> QED
    BY <1>2, <1>4, <2>4, <2>5
<1> QED
  BY <1>3, <1>4

\* database_add_hash touches the tree only (db.c:36-41).
LEMMA AddHashSound ==
  ASSUME NEW aDb, Sound(aDb), NEW hash \in Buffers
  PROVE  LET after == database_add_hash(aDb, hash)
             digest == pad_hash_digest(hash)
             tree == aDb.hash_tree
         IN
         /\ Sound(after)
         /\ after.version = aDb.version /\ after.modulo = aDb.modulo
         /\ after.name_set = aDb.name_set /\ after.names = aDb.names
         /\ ~IsEmpty(after.hash_tree)
         /\ \A i \in Positions :
              {after.hash_tree[i].data} \cup after.hash_tree[i].neighbors =
                IF IsEmpty(tree) THEN {digest[i]}
                ELSE ({tree[i].data} \cup tree[i].neighbors) \cup {digest[i]}
<1> DEFINE digest == pad_hash_digest(hash)
           tree == edt_insert_string(aDb.hash_tree, digest)
<1>1. digest \in [Positions -> Bytes]
  BY PadBytes
<1>2. aDb.hash_tree \in Trees
  BY SoundParts
<1>3. /\ tree \in Trees /\ ~IsEmpty(tree)
      /\ \A i \in Positions :
           {tree[i].data} \cup tree[i].neighbors =
             IF IsEmpty(aDb.hash_tree) THEN {digest[i]}
             ELSE ({aDb.hash_tree[i].data} \cup aDb.hash_tree[i].neighbors)
                    \cup {digest[i]}
  <2> HIDE DEF digest
  <2> QED
    BY <1>1, <1>2, InsertTree
<1>4. database_add_hash(aDb, hash) = [aDb EXCEPT !.hash_tree = tree]
  BY DEF database_add_hash
<1> HIDE DEF tree
<1>5. LET after == [aDb EXCEPT !.hash_tree = tree] IN
      /\ Sound(after)
      /\ after.version = aDb.version /\ after.modulo = aDb.modulo
      /\ after.name_set = aDb.name_set /\ after.names = aDb.names
      /\ after.hash_tree = tree
  BY <1>3, TreeSound
<1> QED
  BY <1>3, <1>4, <1>5

\* Adding two digests is adding one, then the other (db.c:43-48).
LEMMA AddTwo ==
  ASSUME NEW aDb, NEW first, NEW second
  PROVE  database_add_hashes(aDb, <<first, second>>) =
           database_add_hash(database_add_hash(aDb, first), second)
<1> DEFINE hashes == <<first, second>>
           Follows(f) ==
             f = [k \in 0 .. Len(hashes) |->
                    IF k = 0 THEN aDb ELSE database_add_hash(f[k - 1], hashes[k])]
           one == database_add_hash(aDb, first)
           two == database_add_hash(one, second)
           after == CHOOSE f : Follows(f)
<1>1. Len(hashes) = 2 /\ hashes[1] = first /\ hashes[2] = second
  OBVIOUS
<1>2. \E f : Follows(f)
  <2> DEFINE f == [k \in 0 .. 2 |-> IF k = 0 THEN aDb ELSE IF k = 1 THEN one ELSE two]
  <2>1. Follows(f)
    <3> HIDE DEF hashes
    <3> QED
      BY <1>1
  <2> HIDE DEF Follows, f
  <2> QED
    BY <2>1
<1>3. Follows(after)
  <2> HIDE DEF Follows
  <2> QED
    BY <1>2
<1>4. database_add_hashes(aDb, hashes) = after[2]
  BY <1>1 DEF database_add_hashes
<1>5. after = [k \in 0 .. 2 |->
                 IF k = 0 THEN aDb ELSE database_add_hash(after[k - 1], hashes[k])]
  <2> HIDE DEF hashes, after
  <2> QED
    BY <1>1, <1>3
<1>6. after[0] = aDb /\ after[1] = database_add_hash(after[0], first)
      /\ after[2] = database_add_hash(after[1], second)
  <2> HIDE DEF hashes, after
  <2> QED
    BY <1>1, <1>5
<1> QED
  BY <1>4, <1>6

-----------------------------------------------------------------------------
(***************************************************************************)
(* Files                                                                   *)
(***************************************************************************)

Records == MetadataRecords \cup WrittenNames \cup WrittenTrees

\* The metadata and the first n names of aDb have been written.
Begun(aFile, aDb, n) ==
  /\ n \in 0 .. Len(aDb.names.base)
  /\ Len(aFile) = n + 1
  /\ aFile[1] = Metadata(aDb)
  /\ \A k \in 1 .. n : aFile[k + 1] = NameRecord(aDb.names.base[k])

LEMMA Kinds ==
  /\ \A r \in MetadataRecords :
       /\ r.kind = "metadata" /\ r.version \in Versions
       /\ r.modulo \in Nat /\ r.size \in Nat
  /\ \A r \in WrittenNames : r.kind = "name" /\ r.name \in Strings
  /\ \A r \in WrittenTrees : r.kind = "tree"
  /\ \A name : NameRecord(name).name = name /\ NameRecord(name).kind = "name"
  /\ \A tree : TreeRecord(tree).cells = serialize_ed_tree(tree)
               /\ TreeRecord(tree).kind = "tree"
<1>1. \A tree, n : CutTreeRecord(tree, n).kind = "tree"
  BY DEF CutTreeRecord
<1>2. \A r \in WrittenTrees : r.kind = "tree"
  BY <1>1 DEF WrittenTrees
<1> QED
  BY <1>2 DEF MetadataRecords, WrittenNames, NameRecord, TreeRecord

\* What is written of a tree: the whole of it, or the first cells
\* (ed_tree.c:84-111).
LEMMA TreeRecords ==
  ASSUME NEW tree \in SavedTrees
  PROVE  /\ TreeRecord(tree) \in WrittenTrees
         /\ DOMAIN TreeRecord(tree).cells = Kept
         /\ \A n \in Kept : CutTreeRecord(tree, n) \in WrittenTrees
                            /\ DOMAIN CutTreeRecord(tree, n).cells # Kept
<1>1. Cells - Missing \in Nat /\ Kept = 0 .. Cells - Missing - 1
  <2>1. 0 \in Kept
    BY PositionsExist, DataKept
  <2> QED
    BY <2>1, EdTreeAssumption DEF Kept, Cells, Missing
<1>2. TreeRecord(tree) = CutTreeRecord(tree, Cells - Missing)
  <2>1. { c \in Kept : c < Cells - Missing } = Kept
    BY <1>1
  <2>2. serialize_ed_tree(tree) = [c \in Kept |-> serialize_ed_tree(tree)[c]]
    BY DEF serialize_ed_tree
  <2> QED
    BY <2>1, <2>2 DEF TreeRecord, CutTreeRecord
<1>3. TreeRecord(tree) \in WrittenTrees
  BY <1>1, <1>2 DEF WrittenTrees, SavedTrees
<1>4. DOMAIN TreeRecord(tree).cells = Kept
  BY Kinds DEF serialize_ed_tree
<1>5. ASSUME NEW n \in Kept
      PROVE  CutTreeRecord(tree, n) \in WrittenTrees
             /\ DOMAIN CutTreeRecord(tree, n).cells # Kept
  <2>1. n \in 0 .. Cells - Missing
    BY <1>1
  <2>2. n \notin DOMAIN CutTreeRecord(tree, n).cells
    BY <1>1 DEF CutTreeRecord
  <2> QED
    BY <2>1, <2>2 DEF WrittenTrees, SavedTrees
<1> QED
  BY <1>3, <1>4, <1>5

\* A record with all the cells is that of a tree.
LEMMA WholeRecord ==
  ASSUME NEW record \in WrittenTrees, DOMAIN record.cells = Kept
  PROVE  \E tree \in SavedTrees : record.cells = serialize_ed_tree(tree)
<1>1. PICK tree \in SavedTrees, n \in 0 .. Cells - Missing :
        record = CutTreeRecord(tree, n)
  BY DEF WrittenTrees, SavedTrees
<1>2. record.cells =
        [c \in { c \in Kept : c < n } |-> serialize_ed_tree(tree)[c]]
  BY <1>1 DEF CutTreeRecord
<1>3. { c \in Kept : c < n } = Kept
  BY <1>2
<1>4. record.cells = [c \in Kept |-> serialize_ed_tree(tree)[c]]
  BY <1>2, <1>3
<1>5. serialize_ed_tree(tree) = [c \in Kept |-> serialize_ed_tree(tree)[c]]
  BY DEF serialize_ed_tree
<1> QED
  BY <1>4, <1>5

\* Whatever is in a record, a whole tree is read (ed_tree.c:113-142).
LEMMA LoadedTree ==
  ASSUME NEW record \in WrittenTrees, NEW junk \in Junk(record.cells)
  PROVE  LET loaded == deserialize_ed_tree(record.cells, junk) IN
         loaded \in SavedTrees /\ loaded \in Trees /\ ~IsEmpty(loaded)
<1>1. PICK tree \in [Positions -> Nodes], n \in 0 .. Cells - Missing :
        record = CutTreeRecord(tree, n)
  BY DEF WrittenTrees
<1>2. record.cells =
        [c \in { c \in Kept : c < n } |-> serialize_ed_tree(tree)[c]]
  BY <1>1 DEF CutTreeRecord
<1>3. ASSUME NEW c \in Positions \cap DOMAIN record.cells
      PROVE  record.cells[c] \in Chars
  <2>1. record.cells[c] = serialize_ed_tree(tree)[c] /\ c \in Kept
    BY <1>2
  <2>2. c < Depth
    BY EdTreeAssumption DEF Positions
  <2>3. record.cells[c] = tree[c].data
    BY <2>1, <2>2 DEF serialize_ed_tree
  <2> QED
    BY <2>3 DEF Nodes
<1>4. deserialize_ed_tree(record.cells, junk) \in [Positions -> Nodes]
  BY <1>3, LoadedShape
<1> QED
  BY <1>4, NotEmpty DEF SavedTrees, Trees

\* From a whole record the tree is read that was saved (ed_tree.c:84-142).
LEMMA ReloadedTree ==
  ASSUME NEW tree \in SavedTrees, NEW junk \in Junk(serialize_ed_tree(tree))
  PROVE  LET loaded == deserialize_ed_tree(serialize_ed_tree(tree), junk) IN
         \A i \in Positions :
           /\ loaded[i].data = tree[i].data
           /\ loaded[i].neighbors \cap Bytes = tree[i].neighbors \cap Bytes
  BY RoundTrip DEF SavedTrees

\* Where the records of a file are.
LEMMA RecordsInOrder ==
  ASSUME NEW aFile, WellFormed(aFile)
  PROVE  /\ Len(aFile) \in Nat /\ DOMAIN aFile = 1 .. Len(aFile)
         /\ \A k \in DOMAIN aFile :
              /\ aFile[k].kind \in {"metadata", "name", "tree"}
              /\ aFile[k].kind = "metadata" => k = 1
              /\ aFile[k].kind = "name" => k > 1 /\ aFile[k] \in WrittenNames
                                                 /\ aFile[1].modulo # 0
              /\ aFile[k].kind = "tree" => k > 1 /\ aFile[k] \in WrittenTrees
                                                 /\ k = Len(aFile)
         /\ aFile # <<>> => 1 \in DOMAIN aFile /\ aFile[1].kind = "metadata"
                            /\ aFile[1] \in MetadataRecords
<1>1. aFile \in Seq(Records)
  BY DEF WellFormed, Records
<1>2. Len(aFile) \in Nat /\ DOMAIN aFile = 1 .. Len(aFile)
      /\ (aFile # <<>> => 1 \in DOMAIN aFile)
  BY <1>1
<1>3. ASSUME NEW k \in DOMAIN aFile
      PROVE  \/ k = 1 /\ aFile[k] \in MetadataRecords
             \/ k > 1 /\ aFile[k] \in WrittenNames /\ aFile[1].modulo # 0
             \/ k > 1 /\ aFile[k] \in WrittenTrees /\ k = Len(aFile)
  <2>1. aFile # <<>>
    BY <1>2, <1>3
  <2>2. k = 1 \/ k \in 2 .. Len(aFile)
    BY <1>2, <1>3
  <2>3. CASE k = 1
    BY <2>1, <2>3 DEF WellFormed
  <2>4. CASE k \in 2 .. Len(aFile)
    <3>1. k > 1
      BY <1>2, <2>4
    <3> QED
      BY <2>4, <3>1 DEF WellFormed
  <2> QED
    BY <2>2, <2>3, <2>4
<1>4. ASSUME NEW k \in DOMAIN aFile
      PROVE  /\ aFile[k].kind \in {"metadata", "name", "tree"}
             /\ aFile[k].kind = "metadata" => k = 1
             /\ aFile[k].kind = "name" => k > 1 /\ aFile[k] \in WrittenNames
                                                /\ aFile[1].modulo # 0
             /\ aFile[k].kind = "tree" => k > 1 /\ aFile[k] \in WrittenTrees
                                                /\ k = Len(aFile)
  BY <1>3, Kinds
<1>5. aFile # <<>> => aFile[1].kind = "metadata"
                      /\ aFile[1] \in MetadataRecords
  BY Kinds DEF WellFormed
<1> QED
  BY <1>2, <1>4, <1>5

\* A file with a tree: names from the second record to the last but one, the tree
\* in the last.  It holds no clash if the size is the number of names.
LEMMA TreeFile ==
  ASSUME NEW aFile, WellFormed(aFile), HasTree(aFile)
  PROVE  /\ Len(aFile) - 2 \in Nat
         /\ aFile[1] \in MetadataRecords
         /\ FileNames(aFile) \in Seq(Strings)
         /\ Len(FileNames(aFile)) = Len(aFile) - 2
         /\ \A k \in 1 .. Len(aFile) - 2 :
              aFile[k + 1] = NameRecord(FileNames(aFile)[k])
         /\ aFile[Len(aFile)] \in WrittenTrees
         /\ NameRecords(aFile) = 2 .. Len(aFile) - 1
         /\ aFile[1].size = Cardinality(CodesOfNames(FileNames(aFile)))
         /\ NamesClash(aFile) <=> ~CodesDiffer(FileNames(aFile))
         /\ aFile[1].size \in 0 .. Len(aFile) - 2
         /\ NamesClash(aFile) <=> aFile[1].size # Len(aFile) - 2
<1> DEFINE n == Len(aFile) - 2
           names == FileNames(aFile)
<1>1. PICK t \in DOMAIN aFile : aFile[t].kind = "tree"
  BY DEF HasTree
<1>2. t > 1 /\ t = Len(aFile) /\ aFile[t] \in WrittenTrees
      /\ Len(aFile) \in Nat /\ DOMAIN aFile = 1 .. Len(aFile)
      /\ aFile[1] \in MetadataRecords
  <2>1. aFile # <<>>
    BY <1>1, RecordsInOrder
  <2> QED
    BY <1>1, <2>1, RecordsInOrder
<1>3. n \in Nat
  BY <1>2
<1>4. ASSUME NEW k \in 2 .. Len(aFile) - 1
      PROVE  aFile[k] \in WrittenNames
  BY <1>2, <1>4 DEF WellFormed
<1>5. NameRecords(aFile) = 2 .. Len(aFile) - 1
  <2>1. \A k \in 2 .. Len(aFile) - 1 : aFile[k].kind = "name"
    BY <1>4, Kinds
  <2>2. aFile[1].kind = "metadata"
    BY <1>2, Kinds
  <2>3. \A k \in DOMAIN aFile :
          aFile[k].kind = "name" <=> k \in 2 .. Len(aFile) - 1
    BY <1>1, <1>2, <2>1, <2>2
  <2> QED
    BY <1>2, <2>3 DEF NameRecords
<1>6. names = [k \in 1 .. n |-> aFile[k + 1].name]
  BY DEF FileNames
<1>7. \A k \in 1 .. n : aFile[k + 1] = NameRecord(names[k]) /\ names[k] \in Strings
  <2>1. ASSUME NEW k \in 1 .. n
        PROVE  aFile[k + 1] = NameRecord(names[k]) /\ names[k] \in Strings
    <3>1. aFile[k + 1] \in WrittenNames
      BY <1>2, <1>3, <1>4, <2>1
    <3>2. PICK name \in Strings : aFile[k + 1] = NameRecord(name)
      BY <3>1 DEF WrittenNames
    <3>3. aFile[k + 1].name = name
      BY <3>2, Kinds
    <3>4. names[k] = name
      BY <1>6, <2>1, <3>3
    <3> QED
      BY <3>2, <3>4
  <2> QED
    BY <2>1
<1> HIDE DEF names
<1>8. names \in Seq(Strings) /\ Len(names) = n
  BY <1>3, <1>6, <1>7
<1>9. NamesClash(aFile) <=> ~CodesDiffer(names)
  <2>1. \A k \in 2 .. Len(aFile) - 1 :
          k - 1 \in 1 .. n /\ aFile[k].name = names[k - 1]
    BY <1>2, <1>6
  <2>2. DOMAIN names = 1 .. n
    BY <1>6
  <2>3. ASSUME NamesClash(aFile) PROVE ~CodesDiffer(names)
    <3>1. PICK j \in 2 .. Len(aFile) - 1, k \in 2 .. Len(aFile) - 1 :
            j < k /\ Hash[aFile[j].name] = Hash[aFile[k].name]
      BY <1>5, <2>3 DEF NamesClash
    <3>2. Hash[names[j - 1]] = Hash[names[k - 1]] /\ j - 1 # k - 1
          /\ j - 1 \in DOMAIN names /\ k - 1 \in DOMAIN names
      BY <2>1, <2>2, <3>1
    <3> QED
      BY <3>2 DEF CodesDiffer
  <2>4. ASSUME ~CodesDiffer(names) PROVE NamesClash(aFile)
    <3>1. PICK j \in 1 .. n, k \in 1 .. n :
            Hash[names[j]] = Hash[names[k]] /\ j # k
      BY <2>2, <2>4 DEF CodesDiffer
    <3>2. \A i \in 1 .. n : i + 1 \in NameRecords(aFile) /\ aFile[i + 1].name = names[i]
      BY <1>2, <1>5, <1>6
    <3>3. CASE j < k
      BY <1>3, <3>1, <3>2, <3>3 DEF NamesClash
    <3>4. CASE k < j
      BY <1>3, <3>1, <3>2, <3>4 DEF NamesClash
    <3> QED
      BY <3>1, <3>3, <3>4
  <2> QED
    BY <2>3, <2>4
<1>10. aFile[1].size = Cardinality(CodesOfNames(names))
  BY DEF WellFormed, names
<1>11. /\ aFile[1].size \in 0 .. n
       /\ NamesClash(aFile) <=> aFile[1].size # n
  BY <1>8, <1>9, <1>10, CountCodes
<1> QED
  BY <1>2, <1>3, <1>5, <1>7, <1>8, <1>9, <1>10, <1>11 DEF names

\* What a program that dies while it saves leaves, short of the tree, is
\* well-formed.
LEMMA PrefixWellFormed ==
  ASSUME NEW aFile, WellFormed(aFile),
         ~HasTree(aFile), NEW k \in 0 .. Len(aFile)
  PROVE  WellFormed(SubSeq(aFile, 1, k))
         /\ ~HasTree(SubSeq(aFile, 1, k))
<1> DEFINE part == SubSeq(aFile, 1, k)
<1>1. aFile \in Seq(Records) /\ Len(aFile) \in Nat
      /\ DOMAIN aFile = 1 .. Len(aFile)
  BY DEF WellFormed, Records
<1>2. /\ part \in Seq(Records) /\ Len(part) = k
      /\ DOMAIN part = 1 .. k
      /\ \A j \in 1 .. k : part[j] = aFile[j] /\ j \in DOMAIN aFile
  BY <1>1
<1> HIDE DEF part
<1>3. ~HasTree(part)
  BY <1>2 DEF HasTree
<1>4. ASSUME part # <<>> PROVE part[1] = aFile[1] /\ aFile # <<>>
  BY <1>1, <1>2, <1>4
<1>5. ASSUME NEW j \in 2 .. Len(part)
      PROVE  part[j] \in WrittenNames /\ part[1].modulo # 0
  <2>1. part[j] = aFile[j] /\ part[1] = aFile[1] /\ j \in 2 .. Len(aFile)
    BY <1>1, <1>2, <1>5
  <2>2. aFile[j] \notin WrittenTrees
    BY <1>1, <2>1, Kinds DEF HasTree
  <2> QED
    BY <2>1, <2>2 DEF WellFormed
<1>6. WellFormed(part)
  BY <1>2, <1>3, <1>4, <1>5 DEF WellFormed, Records
<1> QED
  BY <1>3, <1>6 DEF part

\* The metadata is written (db.c:79-82).
LEMMA WriteMetadata ==
  ASSUME NEW aDb, Sound(aDb)
  PROVE  LET aFile == <<Metadata(aDb)>> IN
         WellFormed(aFile) /\ Begun(aFile, aDb, 0)
<1> DEFINE aFile == <<Metadata(aDb)>>
<1>1. /\ aDb.version \in Versions /\ aDb.name_set.size \in Nat
      /\ Len(aDb.names.base) \in Nat /\ aDb.modulo \in Nat
  BY SoundParts
<1>2. Metadata(aDb) \in MetadataRecords
  BY <1>1 DEF Metadata, MetadataRecords
<1>3. /\ aFile \in Seq(Records) /\ Len(aFile) = 1
      /\ aFile[1] = Metadata(aDb) /\ DOMAIN aFile = 1 .. 1
  BY <1>2 DEF Records
<1> HIDE DEF aFile
<1>4. ~HasTree(aFile)
  BY <1>2, <1>3, Kinds DEF HasTree
<1>5. WellFormed(aFile)
  BY <1>2, <1>3, <1>4 DEF WellFormed, Records
<1>6. Begun(aFile, aDb, 0)
  BY <1>1, <1>3 DEF Begun
<1> QED
  BY <1>5, <1>6 DEF aFile

\* As long as only names follow the metadata the file has no tree.
LEMMA BegunHasNoTree ==
  ASSUME NEW aFile, NEW aDb, NEW n, Begun(aFile, aDb, n),
         DOMAIN aFile = 1 .. Len(aFile),
         Len(aDb.names.base) \in Nat
  PROVE  ~HasTree(aFile)
<1>1. DOMAIN aFile = 1 .. n + 1 /\ n \in Nat
  BY DEF Begun
<1>2. aFile[1].kind = "metadata"
  BY DEF Begun, Metadata
<1>3. \A k \in 2 .. n + 1 : aFile[k].kind = "name"
  <2>1. ASSUME NEW k \in 2 .. n + 1 PROVE aFile[k].kind = "name"
    <3>1. k - 1 \in 1 .. n /\ (k - 1) + 1 = k
      BY <1>1
    <3>2. aFile[(k - 1) + 1] = NameRecord(aDb.names.base[k - 1])
      BY <3>1 DEF Begun
    <3> QED
      BY <3>1, <3>2, Kinds
  <2> QED
    BY <2>1
<1>4. \A k \in DOMAIN aFile : k = 1 \/ k \in 2 .. n + 1
  BY <1>1
<1> QED
  BY <1>2, <1>3, <1>4 DEF HasTree

\* One more name is written (db.c:84-87).
LEMMA WriteName ==
  ASSUME NEW aDb, Sound(aDb),
         NEW aFile, WellFormed(aFile),
         NEW n, Begun(aFile, aDb, n), n < Len(aDb.names.base)
  PROVE  LET after == Append(aFile, NameRecord(aDb.names.base[n + 1])) IN
         WellFormed(after) /\ Begun(after, aDb, n + 1)
<1> DEFINE name == aDb.names.base[n + 1]
           after == Append(aFile, NameRecord(name))
<1>1. /\ aDb.names.base \in Seq(Strings) /\ Len(aDb.names.base) \in Nat
      /\ aDb.modulo \in Nat
  BY SoundParts
<1>2. n \in Nat /\ Len(aFile) = n + 1 /\ aFile[1] = Metadata(aDb)
      /\ \A k \in 1 .. n : aFile[k + 1] = NameRecord(aDb.names.base[k])
  BY <1>1 DEF Begun
<1>3. name \in Strings
  BY <1>1, <1>2
<1>4. aFile \in Seq(Records) /\ NameRecord(name) \in WrittenNames
      /\ DOMAIN aFile = 1 .. n + 1
  BY <1>2, <1>3 DEF WellFormed, Records, WrittenNames
<1>5. aDb.modulo # 0
  <2>1. aDb.names.base # <<>>
    BY <1>1, <1>2
  <2> QED
    BY <2>1 DEF Sound
<1>6. aFile[1].modulo = aDb.modulo
  BY <1>2 DEF Metadata
<1> HIDE DEF name
<1>7. /\ after \in Seq(Records) /\ Len(after) = n + 2
      /\ DOMAIN after = 1 .. n + 2
      /\ after[n + 2] = NameRecord(name)
      /\ \A k \in 1 .. n + 1 : after[k] = aFile[k]
  <2>1. NameRecord(name) \in Records
    BY <1>4 DEF Records
  <2> QED
    BY <1>2, <1>4, <2>1
<1> HIDE DEF after
<1>8. Begun(after, aDb, n + 1)
  <2>1. \A k \in 1 .. n + 1 : after[k + 1] = NameRecord(aDb.names.base[k])
    <3>1. ASSUME NEW k \in 1 .. n + 1
          PROVE  after[k + 1] = NameRecord(aDb.names.base[k])
      <4>1. CASE k = n + 1
        BY <1>2, <1>7, <4>1 DEF name
      <4>2. CASE k # n + 1
        BY <1>2, <1>7, <4>2
      <4> QED
        BY <4>1, <4>2
    <3> QED
      BY <3>1
  <2>2. after[1] = Metadata(aDb) /\ Len(after) = (n + 1) + 1
        /\ n + 1 \in 0 .. Len(aDb.names.base)
    BY <1>1, <1>2, <1>7
  <2> QED
    BY <2>1, <2>2 DEF Begun
<1>9. ~HasTree(after)
  <2>1. DOMAIN after = 1 .. Len(after)
    BY <1>7
  <2> QED
    BY <1>1, <1>8, <2>1, BegunHasNoTree
<1>10. ASSUME NEW k \in 2 .. Len(after)
       PROVE  after[k] \in WrittenNames /\ after[1].modulo # 0
  <2>1. after[1].modulo # 0
    BY <1>2, <1>5, <1>6, <1>7
  <2>2. CASE k = n + 2
    BY <1>4, <1>7, <2>1, <2>2
  <2>3. CASE k # n + 2
    <3>1. k - 1 \in 1 .. n /\ after[k] = aFile[(k - 1) + 1]
      BY <1>2, <1>7, <2>3
    <3>2. after[k] = NameRecord(aDb.names.base[k - 1])
          /\ aDb.names.base[k - 1] \in Strings
      BY <1>1, <1>2, <3>1
    <3> QED
      BY <2>1, <3>2 DEF WrittenNames
  <2> QED
    BY <2>2, <2>3
<1>11. after[1] \in MetadataRecords
  <2>1. aFile # <<>>
    BY <1>2
  <2> QED
    BY <1>2, <1>7, <2>1 DEF WellFormed
<1>12. WellFormed(after)
  BY <1>7, <1>9, <1>10, <1>11 DEF WellFormed, Records
<1> QED
  BY <1>8, <1>12 DEF after, name

\* The tree, or some of it, is written: the file holds what the database holds,
\* and a clash exactly if the array is longer than the set (db.c:84-89).
LEMMA WriteTree ==
  ASSUME NEW aDb, Sound(aDb), NEW record \in WrittenTrees,
         NEW aFile, WellFormed(aFile),
         Begun(aFile, aDb, Len(aDb.names.base))
  PROVE  LET after == Append(aFile, record) IN
         /\ WellFormed(after) /\ HasTree(after)
         /\ Len(after) = Len(aDb.names.base) + 2
         /\ after[1] = Metadata(aDb)
         /\ FileNames(after) = aDb.names.base
         /\ after[Len(after)] = record
         /\ NamesClash(after) <=> Len(aDb.names.base) > aDb.name_set.size
<1> DEFINE n == Len(aDb.names.base)
           base == aDb.names.base
           after == Append(aFile, record)
<1>1. /\ base \in Seq(Strings) /\ n \in Nat
      /\ aDb.name_set.size \in 0 .. n
      /\ aDb.name_set.size = Cardinality(CodesOfNames(base))
  BY SoundParts DEF Sound
<1>2. Len(aFile) = n + 1 /\ aFile[1] = Metadata(aDb)
      /\ \A k \in 1 .. n : aFile[k + 1] = NameRecord(base[k])
  BY DEF Begun
<1>3. aFile \in Seq(Records) /\ DOMAIN aFile = 1 .. n + 1
  BY <1>2 DEF WellFormed, Records
<1>4. /\ after \in Seq(Records) /\ Len(after) = n + 2
      /\ DOMAIN after = 1 .. n + 2
      /\ after[n + 2] = record
      /\ \A k \in 1 .. n + 1 : after[k] = aFile[k]
  <2>1. record \in Records
    BY DEF Records
  <2> QED
    BY <1>1, <1>2, <1>3, <2>1
<1> HIDE DEF after
<1>5. after[1] = Metadata(aDb) /\ HasTree(after)
  <2>1. after[n + 2].kind = "tree" /\ n + 2 \in DOMAIN after
    BY <1>1, <1>4, Kinds
  <2> QED
    BY <1>1, <1>2, <1>4, <2>1 DEF HasTree
<1>6. FileNames(after) = base
  <2>1. FileNames(after) = [k \in 1 .. n |-> after[k + 1].name]
    BY <1>1, <1>4 DEF FileNames
  <2>2. \A k \in 1 .. n : after[k + 1].name = base[k]
    <3> HIDE DEF n, base
    <3>1. ASSUME NEW k \in 1 .. n PROVE after[k + 1] = NameRecord(base[k])
      <4>1. k + 1 \in 1 .. n + 1
        BY <1>1
      <4> QED
        BY <1>2, <1>4, <4>1
    <3> QED
      BY <3>1, Kinds
  <2>3. base = [k \in 1 .. n |-> base[k]]
    BY <1>1
  <2> HIDE DEF base, n
  <2> QED
    BY <2>1, <2>2, <2>3
<1>7. after[1].size = Cardinality(CodesOfNames(FileNames(after)))
  BY <1>1, <1>5, <1>6 DEF Metadata
<1>8. ASSUME NEW k \in 2 .. Len(after)
      PROVE  \/ after[k] \in WrittenNames /\ after[1].modulo # 0
             \/ after[k] \in WrittenTrees /\ k = Len(after)
  <2>1. CASE k = n + 2
    BY <1>3, <1>4, <2>1
  <2>2. CASE k # n + 2
    <3>1. k \in 2 .. Len(aFile) /\ after[k] = aFile[k] /\ k - 1 \in 1 .. n
      BY <1>1, <1>2, <1>4, <2>2
    <3>2. after[k] = NameRecord(base[k - 1])
      BY <1>2, <3>1
    <3>3. after[k] \notin WrittenTrees
      BY <3>2, Kinds
    <3>4. aFile[k] \in WrittenNames /\ aFile[1].modulo # 0
      BY <3>1, <3>3 DEF WellFormed
    <3> QED
      BY <1>2, <1>5, <3>1, <3>4
  <2> QED
    BY <2>1, <2>2
<1>9. after[1] \in MetadataRecords
  <2>1. aFile # <<>>
    BY <1>1, <1>2
  <2> QED
    BY <1>2, <1>5, <2>1 DEF WellFormed
<1>10. WellFormed(after)
  BY <1>4, <1>7, <1>8, <1>9 DEF WellFormed, Records
<1>11. NamesClash(after) <=> after[1].size # Len(after) - 2
  BY <1>5, <1>10, TreeFile
<1>12. NamesClash(after) <=> n > aDb.name_set.size
  <2>1. after[1].size = aDb.name_set.size
    BY <1>5 DEF Metadata
  <2> QED
    BY <1>1, <1>4, <1>11, <2>1
<1> QED
  BY <1>4, <1>5, <1>6, <1>10, <1>12 DEF after

=============================================================================
