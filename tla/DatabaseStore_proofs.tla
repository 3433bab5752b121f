------------------------ MODULE DatabaseStore_proofs ------------------------
(***************************************************************************)
(* Proofs about DatabaseStore, for every hash function, every capacity and *)
(* every size of a digest: that its database stays sound, that a load      *)
(* accepts exactly the readable files, and that it implements ThreatStore. *)
(*                                                                         *)
(* The invariant that is inductive says of the memory that the database is *)
(* sound, of the file that it is well-formed or garbage, whoever wrote it, *)
(* and, in the middle of a save or a load, how far in the file the program *)
(* is.  A node added to the set may hold a wild `next`, or may not: no     *)
(* theorem chooses.                                                        *)
(***************************************************************************)
EXTENDS StoreImplementsThreats, DatabaseLemmas

FileOK == WellFormed(file) \/ file = Garbage

\* A save has written the metadata and todo names, or nothing.
SavesInOrder ==
  /\ WellFormed(file)
  /\ \/ file = <<>> /\ todo = 0
     \/ file # <<>> /\ Begun(file, db, todo)

\* A load has the version, the capacity and the first names of the file.
ReadsInOrder ==
  /\ WellFormed(file) /\ file # <<>>
  /\ db.version = file[1].version /\ db.modulo = file[1].modulo
  /\ db.hash_tree = create_ed_tree
  /\ todo + Len(db.names.base) = file[1].size
  /\ \A k \in 1 .. Len(db.names.base) :
       k + 1 \in DOMAIN file /\ file[k + 1] = NameRecord(db.names.base[k])

IInv ==
  /\ pc \in {"idle", "ready", "saving", "reading",
             "aborted", "save_aborted", "lost"}
  /\ todo \in Nat
  /\ Sound(db)
  /\ db.name_set.wild # {} => "wild" \in FreshNext
  /\ FileOK
  /\ pc = "saving" => SavesInOrder
  /\ pc = "reading" => ReadsInOrder

-----------------------------------------------------------------------------
(***************************************************************************)
(* The invariant is inductive                                              *)
(***************************************************************************)

\* There being no database is a sound one.
LEMMA CreatedSound ==
  ASSUME NEW capacity \in Nat
  PROVE  LET new == create_database(capacity) IN
         /\ Sound(new) /\ new.modulo = capacity /\ new.name_set.wild = {}
         /\ Members(new.name_set) = {} /\ new.name_set.size = 0
         /\ new.names.base = <<>> /\ new.version = 1
         /\ new.hash_tree = create_ed_tree
<1>2. 1 \in Versions
  BY VersionRangeAssumption DEF Versions
<1>3. create_database(capacity) = NewDatabase(1, capacity, 1)
  BY BothMakeNew
<1> QED
  BY <1>2, <1>3, NewSound

LEMMA InitIInv == Init => IInv
<1> SUFFICES ASSUME Init PROVE IInv
  OBVIOUS
<1>1. db = create_database(0) /\ pc = "idle" /\ todo = 0 /\ file = <<>>
  BY DEF Init, NoDatabase
<1>2. Sound(db) /\ db.name_set.wild = {}
  BY <1>1, CreatedSound
<1>3. WellFormed(file)
  BY <1>1 DEF WellFormed, HasTree
<1> QED
  BY <1>1, <1>2, <1>3 DEF IInv, FileOK

\* A step that ends outside a save and a load.
LEMMA OutsideSaveAndLoad ==
  ASSUME IInv, file' = file \/ FileOK', todo' \in Nat,
         pc' \in {"idle", "ready", "aborted", "save_aborted", "lost"},
         Sound(db'),
         db'.name_set.wild # {} => "wild" \in FreshNext
  PROVE  IInv'
<1>1. FileOK'
  BY DEF IInv, FileOK, Garbage
<1> QED
  BY <1>1 DEF IInv

\* What the call of stringset_add does to a database, wherever it is called
\* from: it does not come back, or the name is in the array and in the set.
NotAdded(name) ==
  /\ db' = db
  /\ \/ pc' = "aborted" /\ db.modulo = 0
     \/ pc' = "lost" /\ db.modulo > 0 /\ AddGetsLost(db.name_set, name)

Added(name) ==
  /\ pc' = pc /\ db.modulo > 0
  /\ db'.version = db.version /\ db'.hash_tree = db.hash_tree
  /\ db'.names.base = Append(db.names.base, name)
  /\ db'.name_set.size =
       IF AddStops(db.name_set, name) THEN db.name_set.size
                                      ELSE db.name_set.size + 1
  /\ Members(db'.name_set) =
       IF AddStops(db.name_set, name) THEN Members(db.name_set)
                                      ELSE Members(db.name_set) \cup {name}

LEMMA AddsNameEffect ==
  ASSUME Sound(db), db.name_set.wild # {} => "wild" \in FreshNext,
         NEW name \in Strings, AddsName(name)
  PROVE  /\ db'.modulo = db.modulo /\ Sound(db')
         /\ db'.name_set.wild # {} => "wild" \in FreshNext
         /\ NotAdded(name) \/ Added(name)
<1>1. db.modulo \in Nat
  BY SoundParts
<1>2. CASE db.modulo = 0 /\ pc' = "aborted" /\ db' = db
  BY <1>1, <1>2 DEF NotAdded
<1>3. CASE /\ db.modulo > 0 /\ AddGetsLost(db.name_set, name)
           /\ pc' = "lost" /\ db' = db
  BY <1>3 DEF NotAdded
<1>4. CASE /\ db.modulo > 0 /\ pc' = pc
           /\ \E next \in FreshNext : db' = database_add_name(db, name, next)
  <2>1. PICK next \in FreshNext : db' = database_add_name(db, name, next)
    BY <1>4
  <2>2. /\ Sound(db') /\ db'.version = db.version /\ db'.modulo = db.modulo
        /\ db'.hash_tree = db.hash_tree
        /\ db'.names.base = Append(db.names.base, name)
        /\ db'.name_set = stringset_add(db.name_set, name, next)
        /\ db'.name_set.size =
             IF AddStops(db.name_set, name) THEN db.name_set.size
             ELSE db.name_set.size + 1
        /\ Members(db'.name_set) =
             IF AddStops(db.name_set, name) THEN Members(db.name_set)
             ELSE Members(db.name_set) \cup {name}
    BY <1>4, <2>1, AddNameSound
  <2>3. ASSUME db'.name_set.wild # {} PROVE "wild" \in FreshNext
    <3>1. next # "wild" =>
            stringset_add(db.name_set, name, next).wild = db.name_set.wild
      BY DEF stringset_add, WildAfter
    <3> QED
      BY <2>1, <2>2, <2>3, <3>1
  <2>4. Added(name)
    BY <1>4, <2>2 DEF Added
  <2> QED
    BY <2>2, <2>3, <2>4
<1> QED
  BY <1>2, <1>3, <1>4 DEF AddsName

\* The calls on a database in memory.
LEMMA CallsKeepIInv ==
  ASSUME IInv,
         \/ \E capacity \in Capacities : Create(capacity)
         \/ \E name \in Strings : AddName(name) \/ CheckNameFails(name)
         \/ \E hash \in Buffers : AddHash(hash)
         \/ \E first, second \in Buffers : AddHashes(<<first, second>>)
         \/ CheckHashFails
         \/ \E value \in VersionArgs : SetVersion(value)
         \/ IncrementVersion
         \/ Free
  PROVE  IInv'
<1>1. /\ Sound(db) /\ todo \in Nat
      /\ db.name_set.wild # {} => "wild" \in FreshNext
      /\ db.version \in Versions
  BY SoundParts DEF IInv
<1>2. ASSUME NEW capacity \in Capacities, Create(capacity) PROVE IInv'
  <2>1. db' = create_database(capacity) /\ pc' = "ready" /\ UNCHANGED <<todo, file>>
    BY <1>2 DEF Create
  <2>2. capacity \in Nat
    BY StoreAssumption
  <2> QED
    BY <1>1, <2>1, <2>2, CreatedSound, OutsideSaveAndLoad
<1>3. ASSUME NEW name \in Strings, AddName(name) PROVE IInv'
  <2>1. pc = "ready" /\ AddsName(name) /\ UNCHANGED <<todo, file>>
    BY <1>3 DEF AddName
  <2>2. /\ db'.modulo = db.modulo /\ Sound(db')
        /\ db'.name_set.wild # {} => "wild" \in FreshNext
        /\ NotAdded(name) \/ Added(name)
    BY <1>1, <2>1, AddsNameEffect
  <2>3. pc' \in {"ready", "aborted", "lost"}
    BY <2>1, <2>2 DEF NotAdded, Added
  <2> QED
    BY <1>1, <2>1, <2>2, <2>3, OutsideSaveAndLoad
<1>4. ASSUME NEW name \in Strings, CheckNameFails(name) PROVE IInv'
  BY <1>1, <1>4, OutsideSaveAndLoad DEF CheckNameFails
<1>5. ASSUME NEW hash \in Buffers, AddHash(hash) PROVE IInv'
  <2>1. db' = database_add_hash(db, hash) /\ pc' = "ready" /\ UNCHANGED <<todo, file>>
    BY <1>5 DEF AddHash
  <2>2. /\ Sound(db') /\ db'.modulo = db.modulo /\ db'.name_set = db.name_set
    BY <1>1, <2>1, AddHashSound
  <2> QED
    BY <1>1, <2>1, <2>2, OutsideSaveAndLoad
<1>6. ASSUME NEW first \in Buffers, NEW second \in Buffers,
             AddHashes(<<first, second>>)
      PROVE  IInv'
  <2> DEFINE one == database_add_hash(db, first)
  <2>1. db' = database_add_hash(one, second) /\ pc' = "ready"
        /\ UNCHANGED <<todo, file>>
    BY <1>6, AddTwo DEF AddHashes
  <2>2. /\ Sound(one) /\ one.modulo = db.modulo /\ one.name_set = db.name_set
    BY <1>1, AddHashSound
  <2> HIDE DEF one
  <2>3. /\ Sound(db') /\ db'.modulo = one.modulo /\ db'.name_set = one.name_set
    BY <2>1, <2>2, AddHashSound
  <2> QED
    BY <1>1, <2>1, <2>2, <2>3, OutsideSaveAndLoad
<1>7. CASE CheckHashFails
  BY <1>1, <1>7, OutsideSaveAndLoad DEF CheckHashFails
<1>8. ASSUME NEW version \in Versions,
             db' = [db EXCEPT !.version = version], pc' = "ready",
             UNCHANGED <<todo, file>>
      PROVE  IInv'
  <2>1. /\ Sound(db') /\ db'.modulo = db.modulo /\ db'.name_set = db.name_set
    BY <1>1, <1>8, VersionSound
  <2> QED
    BY <1>1, <1>8, <2>1, OutsideSaveAndLoad
<1>9. ASSUME NEW value \in VersionArgs, SetVersion(value) PROVE IInv'
  <2>1. value % VersionRange \in Versions
    BY StoreAssumption, VersionRangeAssumption DEF Versions
  <2> QED
    BY <1>8, <1>9, <2>1 DEF SetVersion
<1>10. CASE IncrementVersion
  <2>1. (db.version + 1) % VersionRange \in Versions
    BY <1>1, VersionRangeAssumption DEF Versions
  <2> QED
    BY <1>8, <1>10, <2>1 DEF IncrementVersion
<1>11. CASE Free
  <2>1. CASE pc' = "idle" /\ db' = NoDatabase
    BY <1>1, <1>11, <2>1, CreatedSound, OutsideSaveAndLoad
       DEF Free, NoDatabase
  <2>2. CASE pc' = "lost" /\ db' = db
    BY <1>1, <1>11, <2>2, OutsideSaveAndLoad DEF Free
  <2> QED
    BY <1>11, <2>1, <2>2 DEF Free
<1> QED
  BY <1>2, <1>3, <1>4, <1>5, <1>6, <1>7, <1>9, <1>10, <1>11

\* While a database is saved its file has no tree.
LEMMA SavingHasNoTree ==
  ASSUME IInv, pc = "saving"
  PROVE  ~HasTree(file)
<1>1. SavesInOrder /\ Sound(db)
  BY DEF IInv
<1>2. CASE file = <<>>
  BY <1>2 DEF HasTree
<1>3. CASE file # <<>> /\ Begun(file, db, todo)
  <2>1. DOMAIN file = 1 .. Len(file)
    BY <1>1, RecordsInOrder DEF SavesInOrder
  <2>2. Len(db.names.base) \in Nat
    BY <1>1, SoundParts
  <2> QED
    BY <1>3, <2>1, <2>2, BegunHasNoTree
<1> QED
  BY <1>1, <1>2, <1>3 DEF SavesInOrder

\* What a program that dies while it saves leaves: records of the metadata and
\* the names, or all of them and a part of the tree.
CutTree ==
  /\ HasTree(file') /\ ~Complete(file')
  /\ file'[1] = Metadata(db) /\ FileNames(file') = db.names.base
  /\ NamesClash(file') <=> Len(db.names.base) > db.name_set.size
  /\ ~IsEmpty(db.hash_tree)

LEMMA LeftPrefix ==
  ASSUME IInv, pc = "saving", LeavesPrefix
  PROVE  WellFormed(file') /\ (~HasTree(file') \/ CutTree)
<1>1. SavesInOrder /\ Sound(db) /\ WellFormed(file) /\ ~HasTree(file)
  BY SavingHasNoTree DEF IInv, SavesInOrder
<1>2. ASSUME NEW k \in 0 .. Len(file), file' = SubSeq(file, 1, k)
      PROVE  WellFormed(file') /\ ~HasTree(file')
  BY <1>1, <1>2, PrefixWellFormed
<1>3. ASSUME file # <<>>, todo = Len(db.names.base), ~IsEmpty(db.hash_tree),
             NEW n \in Kept, file' = Append(file, CutTreeRecord(db.hash_tree, n))
      PROVE  WellFormed(file') /\ CutTree
  <2> DEFINE record == CutTreeRecord(db.hash_tree, n)
  <2>1. Begun(file, db, Len(db.names.base))
    BY <1>1, <1>3 DEF SavesInOrder
  <2>2. record \in WrittenTrees /\ DOMAIN record.cells # Kept
    BY <1>1, <1>3, SoundParts, TreeRecords
  <2> HIDE DEF record
  <2>3. /\ WellFormed(file') /\ HasTree(file')
        /\ file'[1] = Metadata(db) /\ FileNames(file') = db.names.base
        /\ file'[Len(file')] = record
        /\ NamesClash(file') <=> Len(db.names.base) > db.name_set.size
    BY <1>1, <1>3, <2>1, <2>2, WriteTree DEF record
  <2>4. ~Complete(file')
    <3>1. \A k \in DOMAIN file' : file'[k].kind = "tree" => k = Len(file')
      BY <2>3, RecordsInOrder
    <3> QED
      BY <2>2, <2>3, <3>1 DEF Complete
  <2> QED
    BY <1>3, <2>3, <2>4 DEF CutTree
<1> QED
  BY <1>2, <1>3 DEF LeavesPrefix

\* A save, step by step.
LEMMA SavesKeepIInv ==
  ASSUME IInv, Truncate \/ SaveMetadata \/ SaveName \/ SaveTree
  PROVE  IInv'
<1>1. /\ Sound(db) /\ todo \in Nat
      /\ db.name_set.wild # {} => "wild" \in FreshNext
  BY DEF IInv
<1>2. ASSUME db' = db, pc' = "saving", todo' \in Nat, SavesInOrder'
      PROVE  IInv'
  <2>1. FileOK'
    BY <1>2 DEF SavesInOrder, FileOK
  <2> QED
    BY <1>1, <1>2, <2>1 DEF IInv
<1>3. CASE Truncate
  <2>1. db' = db /\ pc' = "saving" /\ todo' = 0 /\ file' = <<>>
    BY <1>3 DEF Truncate
  <2>2. WellFormed(<<>>)
    BY DEF WellFormed, HasTree
  <2> QED
    BY <1>2, <2>1, <2>2 DEF SavesInOrder
<1>4. CASE SaveMetadata
  <2>1. db' = db /\ pc' = "saving" /\ todo' = todo /\ file' = <<Metadata(db)>>
        /\ todo = 0
    BY <1>4 DEF SaveMetadata, IInv, SavesInOrder
  <2>2. WellFormed(file') /\ Begun(file', db, 0)
    BY <1>1, <2>1, WriteMetadata
  <2> QED
    BY <1>1, <1>2, <2>1, <2>2 DEF SavesInOrder
<1>5. CASE SaveName
  <2>1. /\ db' = db /\ pc' = "saving" /\ todo' = todo + 1
        /\ todo < Len(db.names.base)
        /\ file' = Append(file, NameRecord(db.names.base[todo + 1]))
        /\ WellFormed(file) /\ Begun(file, db, todo)
    BY <1>5 DEF SaveName, IInv, SavesInOrder
  <2>2. WellFormed(file') /\ Begun(file', db, todo + 1)
    BY <1>1, <2>1, WriteName
  <2>3. file' # <<>>
    BY <2>1 DEF WellFormed
  <2> QED
    BY <1>1, <1>2, <2>1, <2>2, <2>3 DEF SavesInOrder
<1>6. CASE SaveTree
  <2>1. db' = db /\ todo' = 0 /\ pc = "saving"
    BY <1>6 DEF SaveTree
  <2>2. CASE pc' = "save_aborted" /\ LeavesPrefix
    <3>1. FileOK'
      BY <2>1, <2>2, LeftPrefix DEF FileOK
    <3> QED
      BY <1>1, <2>1, <2>2, <3>1, OutsideSaveAndLoad
  <2>3. CASE /\ pc' = "ready" /\ ~IsEmpty(db.hash_tree)
             /\ file' = Append(file, TreeRecord(db.hash_tree))
    <3>1. WellFormed(file) /\ Begun(file, db, Len(db.names.base))
      BY <1>6 DEF SaveTree, IInv, SavesInOrder
    <3>2. WellFormed(file')
      <4>1. TreeRecord(db.hash_tree) \in WrittenTrees
        BY <1>1, <2>3, SoundParts, TreeRecords
      <4> QED
        BY <1>1, <2>3, <3>1, <4>1, WriteTree
    <3>3. FileOK'
      BY <3>2 DEF FileOK
    <3> QED
      BY <1>1, <2>1, <2>3, <3>3, OutsideSaveAndLoad
  <2> QED
    BY <1>6, <2>2, <2>3 DEF SaveTree
<1> QED
  BY <1>3, <1>4, <1>5, <1>6

\* The next name of a file that is read is one of its strings.
LEMMA NextName ==
  ASSUME ReadsInOrder, Len(db.names.base) \in Nat,
         RecordAt(file, Len(db.names.base) + 2, "name")
  PROVE  /\ file[Len(db.names.base) + 2].name \in Strings
         /\ file[Len(db.names.base) + 2] =
              NameRecord(file[Len(db.names.base) + 2].name)
         /\ file[1].modulo # 0
<1> DEFINE k == Len(db.names.base) + 2
<1>1. k \in DOMAIN file /\ file[k].kind = "name"
  BY DEF RecordAt
<1>2. file[k] \in WrittenNames /\ file[1].modulo # 0
  BY <1>1, RecordsInOrder DEF ReadsInOrder
<1>3. PICK name \in Strings : file[k] = NameRecord(name)
  BY <1>2 DEF WrittenNames
<1>4. file[k].name = name
  BY <1>3 DEF NameRecord
<1> QED
  BY <1>2, <1>3, <1>4

\* The tree of a file that is read is one that was written.
LEMMA NextTree ==
  ASSUME ReadsInOrder, NEW k,
         RecordAt(file, k, "tree")
  PROVE  file[k] \in WrittenTrees
<1>1. k \in DOMAIN file /\ file[k].kind = "tree"
  BY DEF RecordAt
<1> QED
  BY <1>1, RecordsInOrder DEF ReadsInOrder

\* A load, record by record.
LEMMA LoadsKeepIInv ==
  ASSUME IInv, ReadMetadata \/ ReadName \/ ReadTree
  PROVE  IInv'
<1>1. /\ Sound(db) /\ todo \in Nat /\ FileOK
      /\ db.name_set.wild # {} => "wild" \in FreshNext
      /\ file' = file
  BY DEF IInv, ReadMetadata, ReadName, ReadTree
<1>2. /\ db.names.base \in Seq(Strings) /\ Len(db.names.base) \in Nat
  BY <1>1, SoundParts
<1>3. ASSUME db' = db, pc' = "lost", todo' = todo PROVE IInv'
  BY <1>1, <1>3, OutsideSaveAndLoad
<1>4. ASSUME pc' = "reading", todo' \in Nat, Sound(db'),
             db'.name_set.wild # {} => "wild" \in FreshNext, ReadsInOrder'
      PROVE  IInv'
  <2>1. FileOK'
    BY <1>1 DEF FileOK, Garbage
  <2> QED
    BY <1>4, <2>1 DEF IInv
<1>5. CASE ReadMetadata
  <2>1. CASE RecordAt(file, 1, "metadata")
    <3>1. pc' = "reading" /\ db' = FromMetadata(file[1]) /\ todo' = file[1].size
      BY <1>5, <2>1 DEF ReadMetadata
    <3>2. WellFormed(file)
      <4>1. file # Garbage
        BY <2>1 DEF RecordAt, Garbage
      <4> QED
        BY <1>1, <4>1 DEF FileOK
    <3>3. file # <<>> /\ file[1] \in MetadataRecords
      BY <2>1, <3>2 DEF RecordAt, WellFormed
    <3>4. /\ file[1].version \in Versions
          /\ file[1].size \in Nat /\ file[1].modulo \in Nat
      BY <3>3 DEF MetadataRecords
    <3>5. db' = NewDatabase(file[1].version, file[1].modulo, file[1].size)
      BY <3>1, BothMakeNew
    <3>6. /\ Sound(db') /\ db'.version = file[1].version
          /\ db'.modulo = file[1].modulo /\ db'.names.base = <<>>
          /\ db'.hash_tree = create_ed_tree /\ db'.name_set.wild = {}
      BY <3>4, <3>5, NewSound
    <3>7. Len(db'.names.base) = 0
      BY <3>6
    <3>8. ReadsInOrder'
      BY <1>1, <3>1, <3>2, <3>3, <3>4, <3>6, <3>7 DEF ReadsInOrder
    <3> QED
      BY <1>4, <3>1, <3>4, <3>6, <3>8
  <2>2. CASE ~RecordAt(file, 1, "metadata")
    BY <1>3, <1>5, <2>2 DEF ReadMetadata
  <2> QED
    BY <2>1, <2>2
<1>6. CASE ReadName
  <2> DEFINE k == Len(db.names.base) + 2
             name == file[k].name
  <2>1. pc = "reading" /\ ReadsInOrder /\ todo > 0
    BY <1>6 DEF IInv, ReadName
  <2>2. CASE RecordAt(file, k, "name")
    <3>1. AddsName(name) /\ todo' = todo - 1
      BY <1>6, <2>2 DEF ReadName
    <3>2. name \in Strings /\ file[k] = NameRecord(name) /\ k \in DOMAIN file
      BY <1>2, <2>1, <2>2, NextName DEF RecordAt
    <3> HIDE DEF name
    <3>3. /\ db'.modulo = db.modulo /\ Sound(db')
          /\ db'.name_set.wild # {} => "wild" \in FreshNext
          /\ NotAdded(name) \/ Added(name)
      BY <1>1, <3>1, <3>2, AddsNameEffect
    <3>4. \/ pc' \in {"aborted", "lost"}
          \/ /\ pc' = "reading"
             /\ db'.version = db.version /\ db'.hash_tree = db.hash_tree
             /\ db'.names.base = Append(db.names.base, name)
      BY <2>1, <3>3 DEF NotAdded, Added
    <3>5. CASE pc' \in {"aborted", "lost"}
      BY <1>1, <2>1, <3>1, <3>3, <3>5, OutsideSaveAndLoad
    <3>6. CASE /\ pc' = "reading"
               /\ db'.version = db.version /\ db'.hash_tree = db.hash_tree
               /\ db'.names.base = Append(db.names.base, name)
      <4>1. Len(db'.names.base) = Len(db.names.base) + 1
            /\ db'.names.base[Len(db.names.base) + 1] = name
            /\ \A j \in 1 .. Len(db.names.base) :
                 db'.names.base[j] = db.names.base[j]
        BY <1>2, <3>2, <3>6
      <4>2. ASSUME NEW j \in 1 .. Len(db'.names.base)
            PROVE  j + 1 \in DOMAIN file /\ file[j + 1] = NameRecord(db'.names.base[j])
        <5>1. CASE j = Len(db.names.base) + 1
          BY <1>2, <3>2, <4>1, <5>1
        <5>2. CASE j # Len(db.names.base) + 1
          <6>1. j \in 1 .. Len(db.names.base)
            BY <1>2, <4>1, <5>2
          <6> QED
            BY <2>1, <4>1, <6>1 DEF ReadsInOrder
        <5> QED
          BY <5>1, <5>2
      <4>3. todo' + Len(db'.names.base) = file[1].size
        BY <1>1, <1>2, <2>1, <3>1, <4>1 DEF ReadsInOrder
      <4>4. ReadsInOrder'
        BY <1>1, <2>1, <3>3, <3>6, <4>2, <4>3 DEF ReadsInOrder
      <4>5. todo' \in Nat
        BY <1>1, <2>1, <3>1
      <4> QED
        BY <1>1, <1>4, <3>3, <3>6, <4>4, <4>5
    <3> QED
      BY <3>4, <3>5, <3>6
  <2>3. CASE ~RecordAt(file, k, "name")
    BY <1>3, <1>6, <2>3 DEF ReadName
  <2> QED
    BY <2>2, <2>3
<1>7. CASE ReadTree
  <2> DEFINE k == Len(db.names.base) + 2
  <2>1. pc = "reading" /\ ReadsInOrder /\ todo' = todo
    BY <1>7 DEF IInv, ReadTree
  <2>2. CASE RecordAt(file, k, "tree")
    <3>1. PICK junk \in Junk(file[k].cells) :
            db' = [db EXCEPT !.hash_tree = deserialize_ed_tree(file[k].cells, junk)]
      BY <1>7, <2>2 DEF ReadTree
    <3>2. file[k] \in WrittenTrees
      BY <2>1, <2>2, NextTree
    <3>3. deserialize_ed_tree(file[k].cells, junk) \in Trees
      BY <3>2, LoadedTree
    <3>4. Sound(db') /\ db'.modulo = db.modulo /\ db'.name_set = db.name_set
      BY <1>1, <3>1, <3>3, TreeSound
    <3>5. pc' = "ready"
      BY <1>7, <2>2 DEF ReadTree
    <3> QED
      BY <1>1, <2>1, <3>4, <3>5, OutsideSaveAndLoad
  <2>3. CASE ~RecordAt(file, k, "tree")
    BY <1>3, <1>7, <2>3 DEF ReadTree
  <2> QED
    BY <2>2, <2>3
<1> QED
  BY <1>5, <1>6, <1>7

\* A program that ends, however it does, leaves a file that is well-formed or
\* garbage.
LEMMA EndsKeepIInv ==
  ASSUME IInv, Crash \/ Restart \/ GoesOn
  PROVE  IInv'
<1>1. pc' = "idle" /\ db' = create_database(0) /\ todo' = 0
  BY DEF Crash, Restart, GoesOn, NoDatabase
<1>2. Sound(db') /\ db'.name_set.wild = {}
  BY <1>1, CreatedSound
<1>3. file' = file \/ FileOK'
  <2>1. CASE Crash
    BY <2>1, LeftPrefix DEF Crash, FileOK
  <2>2. CASE Restart
    BY <2>2 DEF Restart
  <2>3. CASE GoesOn
    BY <2>3, StoreAssumption DEF GoesOn, FileOK, Garbage
  <2> QED
    BY <2>1, <2>2, <2>3
<1> QED
  BY <1>1, <1>2, <1>3, OutsideSaveAndLoad

\* The invariant holds in every reachable state.
THEOREM IInvHolds == Spec => []IInv
<1>1. IInv /\ [Next]_vars => IInv'
  <2> SUFFICES ASSUME IInv, [Next]_vars PROVE IInv'
    OBVIOUS
  <2>1. CASE UNCHANGED vars
    BY <2>1 DEF vars, IInv, FileOK, SavesInOrder, ReadsInOrder, Garbage
  <2>2. CASE Next
    BY <2>2, CallsKeepIInv, SavesKeepIInv, LoadsKeepIInv, EndsKeepIInv DEF Next
  <2> QED
    BY <2>1, <2>2
<1> QED
  BY <1>1, InitIInv, PTL DEF Spec

\* Type correctness of the database, with room for its names, and of the
\* records of the file, whatever a new node holds (db.c:5-118, array.c:18-25).
THEOREM TypeCorrect == Spec => []TypeOK
<1>1. IInv => TypeOK
  <2> SUFFICES ASSUME IInv PROVE TypeOK
    OBVIOUS
  <2> QED
    BY DEF IInv, Sound, FileOK, TypeOK
<1> QED
  BY <1>1, IInvHolds, PTL

\* The set and the array of names never drift apart, whatever a new node
\* holds, through any number of loads and saves (db.c:55-60, 92-112).
THEOREM NamesFollowed == Spec => []SetFollowsNames
<1>1. IInv => SetFollowsNames
  <2> SUFFICES ASSUME IInv PROVE SetFollowsNames
    OBVIOUS
  <2>1. Sound(db)
    BY DEF IInv
  <2> QED
    BY <2>1, SetFollows
       DEF SetFollowsNames, Sound, FirstNames, CodesOfNames
<1> QED
  BY <1>1, IInvHolds, PTL

-----------------------------------------------------------------------------
(***************************************************************************)
(* A load succeeds exactly on a readable file                              *)
(***************************************************************************)

\* A file without metadata is empty, or garbage: it has no tree.
LEMMA NoMetadata ==
  ASSUME FileOK, ~RecordAt(file, 1, "metadata")
  PROVE  ~HasTree(file)
<1>1. CASE WellFormed(file)
  <2>1. file = <<>>
    BY <1>1, RecordsInOrder DEF RecordAt
  <2> QED
    BY <2>1 DEF HasTree
<1>2. CASE file = Garbage
  BY <1>2 DEF Garbage, HasTree
<1> QED
  BY <1>1, <1>2 DEF FileOK

\* In a readable file, as long as names are due the next record is a name.
LEMMA NameIsNext ==
  ASSUME ReadsInOrder, Len(db.names.base) \in Nat, todo \in Nat, todo > 0,
         Readable(file)
  PROVE  RecordAt(file, Len(db.names.base) + 2, "name")
<1>1. /\ Len(file) - 2 \in Nat
      /\ file[1].size = Len(file) - 2
      /\ NameRecords(file) = 2 .. Len(file) - 1
  BY TreeFile DEF ReadsInOrder, Readable
<1>2. Len(db.names.base) + 2 \in 2 .. Len(file) - 1
  BY <1>1 DEF ReadsInOrder
<1>3. Len(db.names.base) + 2 \in NameRecords(file)
  BY <1>1, <1>2
<1> QED
  BY <1>3 DEF NameRecords, RecordAt

\* When all the names are read that the metadata counts, the tree comes next
\* if the file is readable, and only then.
LEMMA TreeIsNext ==
  ASSUME ReadsInOrder, Len(db.names.base) \in Nat, todo = 0
  PROVE  RecordAt(file, Len(db.names.base) + 2, "tree") <=> Readable(file)
<1> DEFINE k == Len(db.names.base) + 2
<1>1. file[1].size = Len(db.names.base)
  BY DEF ReadsInOrder
<1>2. ASSUME RecordAt(file, k, "tree") PROVE Readable(file)
  <2>1. k \in DOMAIN file /\ file[k].kind = "tree"
    BY <1>2 DEF RecordAt
  <2>2. k = Len(file) /\ HasTree(file)
    BY <2>1, RecordsInOrder DEF ReadsInOrder, HasTree
  <2>3. NamesClash(file) <=> file[1].size # Len(file) - 2
    BY <2>2, TreeFile DEF ReadsInOrder
  <2> QED
    BY <1>1, <2>2, <2>3 DEF Readable
<1>3. ASSUME Readable(file) PROVE RecordAt(file, k, "tree")
  <2>1. /\ Len(file) - 2 \in Nat /\ file[1].size = Len(file) - 2
        /\ file[Len(file)] \in WrittenTrees
    BY <1>3, TreeFile DEF ReadsInOrder, Readable
  <2>2. k = Len(file)
    <3>1. Len(file) \in Nat
      BY RecordsInOrder DEF ReadsInOrder
    <3> QED
      BY <1>1, <2>1, <3>1
  <2>3. k \in DOMAIN file /\ file[k].kind = "tree"
    <3>1. DOMAIN file = 1 .. Len(file)
      BY RecordsInOrder DEF ReadsInOrder
    <3>2. file[Len(file)].kind = "tree"
      BY <2>1, Kinds
    <3>3. Len(file) \in Nat
      BY RecordsInOrder DEF ReadsInOrder
    <3> HIDE DEF k
    <3> QED
      BY <2>1, <2>2, <3>1, <3>2, <3>3
  <2> QED
    BY <2>3 DEF RecordAt
<1> QED
  BY <1>2, <1>3

\* An addition gets lost in a load only on the wild `next` of a node with an
\* earlier name of the file, another one that shares the bucket.
LEMMA LostMeetsWild ==
  ASSUME Sound(db), ReadsInOrder, db.modulo > 0,
         RecordAt(file, Len(db.names.base) + 2, "name"),
         AddGetsLost(db.name_set, file[Len(db.names.base) + 2].name)
  PROVE  /\ MeetsWildNode
         /\ \E j, k \in NameRecords(file) : file[j].name # file[k].name
<1> DEFINE set == db.name_set
           n == Len(db.names.base)
           name == file[n + 2].name
           b == Bucket(set, name)
           other == set.chain[b][1]
<1>1. /\ n \in Nat /\ db.names.base \in Seq(Strings) /\ db.modulo \in Nat
      /\ set \in StringSets(db.modulo) /\ InPlace(set)
  BY SoundParts DEF Sound
<1>2. b \in set.wild /\ ~AddStops(set, name)
  BY DEF AddGetsLost
<1>3. set.capacity = db.modulo /\ set.chain[b] \in Seq(Strings)
      /\ b \in DOMAIN set.chain
  BY <1>1, <1>2 DEF StringSets
<1>4. set.chain[b] # <<>>
  BY <1>1, <1>2 DEF InPlace
<1>5. 1 \in DOMAIN set.chain[b] /\ other \in Strings
  BY <1>3, <1>4
<1>6. Bucket(set, other) = b
  BY <1>1, <1>3, <1>5 DEF InPlace
<1>7. other \in Members(set)
  BY <1>3, <1>5 DEF Members
<1>8. PICK j \in FirstNames(db.names.base) : other = db.names.base[j]
  <2>1. Members(set) = { db.names.base[j] : j \in FirstNames(db.names.base) }
    BY SetFollows
  <2> HIDE DEF other, set
  <2> QED
    BY <1>7, <2>1
<1>9. Hash[other] # Hash[name]
  <2>1. Chain(set, name) = set.chain[b]
    BY DEF Chain
  <2> HIDE DEF name, b, set
  <2> QED
    BY <1>2, <1>5, <2>1 DEF AddStops
<1> HIDE DEF b, other, name, set
<1>10. j \in 1 .. n
  BY <1>1, <1>8 DEF FirstNames
<1>11. j + 1 \in DOMAIN file /\ file[j + 1] = NameRecord(other)
  BY <1>8, <1>10 DEF ReadsInOrder
<1>12. j + 1 \in NameRecords(file) /\ file[j + 1].name = other
  BY <1>11 DEF NameRecord, NameRecords
<1>13. n + 2 \in NameRecords(file) /\ j + 1 < n + 2
  BY <1>1, <1>10 DEF NameRecords, RecordAt
<1>14. Hash[other] % file[1].modulo = Hash[name] % file[1].modulo
  <2>1. Bucket(set, other) = Bucket(set, name)
    BY <1>6 DEF b
  <2> QED
    BY <1>3, <2>1 DEF Bucket, ReadsInOrder
<1>15. NamesShareBucket(file)
  BY <1>12, <1>13, <1>14 DEF NamesShareBucket, name
<1> QED
  BY <1>2, <1>9, <1>12, <1>13, <1>15 DEF MeetsWildNode, set, name

\* The call of stringset_add stops a load only on a wild `next`.
LEMMA NamesAreRead ==
  ASSUME IInv, ReadName, RecordAt(file, Len(db.names.base) + 2, "name")
  PROVE  \/ Added(file[Len(db.names.base) + 2].name)
         \/ /\ pc' = "lost" /\ db' = db /\ MeetsWildNode
            /\ \E j, k \in NameRecords(file) : file[j].name # file[k].name
<1> DEFINE name == file[Len(db.names.base) + 2].name
<1>1. AddsName(name) /\ pc = "reading"
  BY DEF ReadName
<1>2. /\ Sound(db) /\ ReadsInOrder
      /\ db.name_set.wild # {} => "wild" \in FreshNext
  BY <1>1 DEF IInv
<1>3. Len(db.names.base) \in Nat
  BY <1>2, SoundParts
<1>4. name \in Strings /\ file[1].modulo # 0
  BY <1>2, <1>3, NextName
<1>5. NotAdded(name) \/ Added(name)
  <2> HIDE DEF name
  <2> QED
    BY <1>1, <1>2, <1>4, AddsNameEffect
<1>6. CASE NotAdded(name)
  <2>1. /\ pc' = "lost" /\ db' = db /\ db.modulo > 0
        /\ AddGetsLost(db.name_set, name)
    BY <1>2, <1>4, <1>6 DEF NotAdded, ReadsInOrder
  <2> QED
    BY <1>2, <2>1, LostMeetsWild
<1> QED
  BY <1>5, <1>6

LEMMA LoadsSay ==
  ASSUME IInv, ReadMetadata \/ ReadName \/ ReadTree
  PROVE  /\ ComesThrough => Readable(file)
         /\ LoadFails => ~Readable(file) \/ MeetsWildNode
<1> USE DEF ComesThrough, LoadFails
<1>1. Sound(db) /\ FileOK /\ todo \in Nat /\ Len(db.names.base) \in Nat
  BY SoundParts DEF IInv
<1>2. CASE ReadMetadata
  <2>1. pc = "idle"
        /\ (pc' = "reading" \/ (pc' = "lost" /\ ~RecordAt(file, 1, "metadata")))
    BY <1>2 DEF ReadMetadata
  <2> QED
    BY <1>1, <2>1, NoMetadata DEF Readable
<1>3. CASE ReadName
  <2>1. pc = "reading" /\ todo > 0 /\ ReadsInOrder
    BY <1>3 DEF ReadName, IInv
  <2>2. CASE RecordAt(file, Len(db.names.base) + 2, "name")
    <3>1. pc' = "reading" \/ (pc' = "lost" /\ MeetsWildNode)
      BY <1>3, <2>1, <2>2, NamesAreRead DEF Added
    <3> QED
      BY <3>1
  <2>3. CASE ~RecordAt(file, Len(db.names.base) + 2, "name")
    <3>1. pc' = "lost"
      BY <1>3, <2>3 DEF ReadName
    <3> QED
      BY <1>1, <2>1, <2>3, <3>1, NameIsNext
  <2> QED
    BY <2>2, <2>3
<1>4. CASE ReadTree
  <2>1. pc = "reading" /\ todo = 0 /\ ReadsInOrder
    BY <1>4 DEF ReadTree, IInv
  <2>2. IF RecordAt(file, Len(db.names.base) + 2, "tree")
        THEN pc' = "ready" ELSE pc' = "lost"
    BY <1>4 DEF ReadTree
  <2> QED
    BY <1>1, <2>1, <2>2, TreeIsNext
<1> QED
  BY <1>2, <1>3, <1>4

\* A load comes to its end only on a file that has a tree, whole or cut, and
\* names with as many codes; and it gets lost or aborts only on the others, or
\* on a wild `next` that two names of the file meet (db.c:92-118).
THEOREM LoadsReadable == Spec => LoadsExactlyReadable
<1> DEFINE Loads == /\ ComesThrough => Readable(file)
                    /\ LoadFails => ~Readable(file) \/ MeetsWildNode
<1>1. IInv /\ [Next]_vars => [Loads]_vars
  <2> SUFFICES ASSUME IInv, Next PROVE Loads
    OBVIOUS
  <2> USE DEF ComesThrough, LoadFails
  <2>1. CASE ReadMetadata \/ ReadName \/ ReadTree
    BY <2>1, LoadsSay
  <2>2. CASE pc \notin {"idle", "reading"}
    BY <2>2
  <2>3. CASE pc' \notin {"lost", "aborted", "ready"}
    BY <2>3
  <2>4. CASE pc = "idle" /\ pc' = "ready"
    BY <2>4
  <2> QED
    BY <2>1, <2>2, <2>3, <2>4
       DEF Next, Create, AddName, CheckNameFails, AddHash, AddHashes,
           CheckHashFails, SetVersion, IncrementVersion, Free, Truncate,
           SaveMetadata, SaveName, SaveTree, Crash, Restart, GoesOn
<1>2. IInv /\ IInv' /\ [Next]_vars => [Loads]_vars
  BY <1>1
<1> QED
  BY <1>2, IInvHolds, PTL DEF Spec, LoadsExactlyReadable

-----------------------------------------------------------------------------
(***************************************************************************)
(* The store implements ThreatStore                                        *)
(***************************************************************************)

\* A new database, and what is there when there is none.
LEMMA FreshContents ==
  /\ \A capacity \in Nat :
       ContentsOf(create_database(capacity)) = Threats!Fresh(capacity)
  /\ NoContents = Threats!Nothing
<1>1. ASSUME NEW capacity \in Nat
      PROVE  ContentsOf(create_database(capacity)) = Threats!Fresh(capacity)
  <2> DEFINE new == create_database(capacity)
  <2>1. /\ Members(new.name_set) = {} /\ new.name_set.size = 0
        /\ new.names.base = <<>> /\ new.version = 1
        /\ new.hash_tree = create_ed_tree /\ new.modulo = capacity
    BY CreatedSound
  <2> HIDE DEF new
  <2>2. ColumnsOf(new.hash_tree) = [i \in Positions |-> {}]
    BY <2>1 DEF ColumnsOf, IsEmpty, create_ed_tree
  <2>3. (Len(new.names.base) > new.name_set.size) = FALSE
    BY <2>1
  <2>4. IsEmpty(new.hash_tree) = TRUE
    BY <2>1 DEF IsEmpty, create_ed_tree
  <2>5. ContentsOf(new) = Threats!Fresh(capacity)
    BY <2>1, <2>2, <2>3, <2>4, Zenon
       DEF ContentsOf, Threats!Fresh, Threats!NoColumns
  <2> QED
    BY <2>5 DEF new
<1> QED
  BY <1>1 DEF NoContents, NoDatabase, Threats!Nothing

\* What is in memory and in the file, in each of the program's states.
LEMMA Phases ==
  /\ pc = "idle" => phaseBar = "none" /\ memBar = Threats!Nothing
  /\ pc = "reading" => phaseBar = "none" /\ memBar = Threats!Nothing
  /\ pc = "ready" => phaseBar = "open" /\ memBar = ContentsOf(db)
  /\ pc = "saving" => phaseBar = "saving" /\ memBar = ContentsOf(db)
  /\ pc \in {"aborted", "save_aborted", "lost"}
       => phaseBar = "failed" /\ memBar = Threats!Nothing
  BY FreshContents DEF phaseBar, memBar

LEMMA PhasesAfter ==
  /\ pc' = "idle" => phaseBar' = "none" /\ memBar' = Threats!Nothing
  /\ pc' = "reading" => phaseBar' = "none" /\ memBar' = Threats!Nothing
  /\ pc' = "ready" => phaseBar' = "open" /\ memBar' = ContentsOf(db')
  /\ pc' = "saving" => phaseBar' = "saving" /\ memBar' = ContentsOf(db')
  /\ pc' \in {"aborted", "save_aborted", "lost"}
       => phaseBar' = "failed" /\ memBar' = Threats!Nothing
  BY FreshContents DEF phaseBar, memBar

\* A file that cannot be read is broken.
LEMMA Disk ==
  /\ \A aFile : ~Readable(aFile) => DiskOf(aFile) = Threats!Broken
  /\ \A aFile : Readable(aFile) =>
       /\ DiskOf(aFile).state = IF Complete(aFile) THEN "whole" ELSE "cut"
       /\ DiskOf(aFile).contents.names =
            { aFile[k].name : k \in NameRecords(aFile) }
  /\ diskBar = DiskOf(file) /\ diskBar' = DiskOf(file')
<1>1. \A aFile : ~Readable(aFile) => DiskOf(aFile) = Threats!Broken
  BY FreshContents DEF DiskOf, Threats!Broken
<1>2. \A aFile, columns :
        ContentsOfFile(aFile, columns).names =
          { aFile[k].name : k \in NameRecords(aFile) }
  BY Zenon DEF ContentsOfFile
<1>3. ASSUME NEW aFile, Readable(aFile)
      PROVE  /\ DiskOf(aFile).state = IF Complete(aFile) THEN "whole" ELSE "cut"
             /\ DiskOf(aFile).contents.names =
                  { aFile[k].name : k \in NameRecords(aFile) }
  BY <1>2, <1>3 DEF DiskOf
<1> QED
  BY <1>1, <1>3 DEF diskBar

\* The contents, part by part.
Contents(capacity, version, names, clash, empty, columns) ==
  [capacity |-> capacity, version |-> version, names |-> names,
   clash |-> clash, empty |-> empty, columns |-> columns]

LEMMA ContentsExcept ==
  ASSUME NEW c, NEW v, NEW n, NEW b, NEW e, NEW t
  PROVE  /\ \A new : [Contents(c, v, n, b, e, t) EXCEPT !.version = new] =
                       Contents(c, new, n, b, e, t)
         /\ \A new : [Contents(c, v, n, b, e, t) EXCEPT !.names = new] =
                       Contents(c, v, new, b, e, t)
         /\ \A new : [Contents(c, v, n, b, e, t) EXCEPT !.clash = new] =
                       Contents(c, v, n, new, e, t)
  BY DEF Contents

LEMMA ContentsParts ==
  ASSUME NEW aDb
  PROVE  /\ ContentsOf(aDb).capacity = aDb.modulo
         /\ ContentsOf(aDb).version = aDb.version
         /\ ContentsOf(aDb).names = Members(aDb.name_set)
         /\ ContentsOf(aDb).columns = ColumnsOf(aDb.hash_tree)
         /\ ContentsOf(aDb).clash = (Len(aDb.names.base) > aDb.name_set.size)
         /\ ContentsOf(aDb).empty = IsEmpty(aDb.hash_tree)
         /\ ContentsOf(aDb) =
              Contents(aDb.modulo, aDb.version, Members(aDb.name_set),
                       ContentsOf(aDb).clash, ContentsOf(aDb).empty,
                       ColumnsOf(aDb.hash_tree))
<1>1. /\ ContentsOf(aDb).clash = (Len(aDb.names.base) > aDb.name_set.size)
      /\ ContentsOf(aDb).empty = IsEmpty(aDb.hash_tree)
  BY Zenon DEF ContentsOf
<1>2. /\ ContentsOf(aDb).capacity = aDb.modulo
      /\ ContentsOf(aDb).version = aDb.version
      /\ ContentsOf(aDb).names = Members(aDb.name_set)
      /\ ContentsOf(aDb).columns = ColumnsOf(aDb.hash_tree)
  BY Zenon DEF ContentsOf
<1>3. ContentsOf(aDb) =
        Contents(aDb.modulo, aDb.version, Members(aDb.name_set),
                 ContentsOf(aDb).clash, ContentsOf(aDb).empty,
                 ColumnsOf(aDb.hash_tree))
  BY <1>1, Zenon DEF ContentsOf, Contents
<1> QED
  BY <1>1, <1>2, <1>3

\* A database with a digest is not empty.
LEMMA NotEmptyContents ==
  ASSUME NEW aDb, ~IsEmpty(aDb.hash_tree)
  PROVE  ContentsOf(aDb).empty = FALSE
<1>1. IsEmpty(aDb.hash_tree) = FALSE
  OBVIOUS
<1> QED
  BY <1>1, ContentsParts, Zenon

\* Whatever the file is, it is one the abstract store may have.
LEMMA DiskInDisks ==
  ASSUME NEW aFile, WellFormed(aFile) \/ aFile = Garbage
  PROVE  DiskOf(aFile) \in Threats!Disks
<1>1. CASE ~Readable(aFile)
  <2>1. Threats!Nothing \in Threats!Contents
    <3>1. 1 \in 0 .. VersionRange - 1
      BY VersionRangeAssumption
    <3>2. [i \in Positions |-> {}] \in [Positions -> SUBSET Bytes]
      OBVIOUS
    <3> QED
      BY <3>1, <3>2
         DEF Threats!Contents, Threats!Nothing, Threats!Fresh, Threats!NoColumns
  <2> QED
    BY <1>1, <2>1, Disk DEF Threats!Broken, Threats!Disks
<1>2. CASE Readable(aFile)
  <2>1. WellFormed(aFile) /\ HasTree(aFile)
    BY <1>2 DEF Readable, HasTree, Garbage
  <2>2. aFile[1].modulo \in Nat /\ aFile[1].version \in 0 .. VersionRange - 1
    BY <2>1, TreeFile DEF MetadataRecords, Versions
  <2>3. { aFile[k].name : k \in NameRecords(aFile) } \subseteq Strings
    <3>1. ASSUME NEW k \in NameRecords(aFile) PROVE aFile[k].name \in Strings
      <4>1. aFile[k] \in WrittenNames
        BY <2>1, RecordsInOrder DEF NameRecords
      <4> QED
        BY <4>1 DEF WrittenNames, NameRecord
    <3> QED
      BY <3>1
  <2>4. ASSUME NEW columns \in [Positions -> SUBSET Bytes]
        PROVE  ContentsOfFile(aFile, columns) \in Threats!Contents
    BY <2>2, <2>3 DEF ContentsOfFile, Threats!Contents
  <2>5. ColumnsInFile(aFile) \in [Positions -> SUBSET Bytes]
    BY DEF ColumnsInFile, ColumnsOf
  <2>6. [i \in Positions |-> {}] \in [Positions -> SUBSET Bytes]
    OBVIOUS
  <2>7. ContentsOfFile(aFile, ColumnsInFile(aFile)) \in Threats!Contents
    BY <2>4, <2>5
  <2>8. ContentsOfFile(aFile, [i \in Positions |-> {}]) \in Threats!Contents
    BY <2>4, <2>6
  <2> QED
    BY <1>2, <2>7, <2>8 DEF DiskOf, Threats!Disks
<1> QED
  BY <1>1, <1>2

\* A digest adds a byte to each column.
LEMMA ColumnsAdded ==
  ASSUME NEW aDb, Sound(aDb), NEW hash \in Buffers
  PROVE  ColumnsOf(database_add_hash(aDb, hash).hash_tree) =
           [i \in Positions |-> ColumnsOf(aDb.hash_tree)[i]
                                  \cup {pad_hash_digest(hash)[i]}]
<1> DEFINE tree == aDb.hash_tree
           after == database_add_hash(aDb, hash).hash_tree
           digest == pad_hash_digest(hash)
<1>1. /\ ~IsEmpty(after)
      /\ \A i \in Positions :
           {after[i].data} \cup after[i].neighbors =
             IF IsEmpty(tree) THEN {digest[i]}
             ELSE ({tree[i].data} \cup tree[i].neighbors) \cup {digest[i]}
  BY AddHashSound
<1>2. \A i \in Positions : digest[i] \in Bytes
  BY PadBytes
<1> HIDE DEF after, tree, digest
<1>3. ASSUME NEW i \in Positions
      PROVE  ({after[i].data} \cup after[i].neighbors) \cap Bytes =
               ColumnsOf(tree)[i] \cup {digest[i]}
  <2>1. CASE IsEmpty(tree)
    <3>1. ColumnsOf(tree)[i] = {}
      BY <2>1 DEF ColumnsOf
    <3> QED
      BY <1>1, <1>2, <2>1, <3>1
  <2>2. CASE ~IsEmpty(tree)
    <3>1. ColumnsOf(tree)[i] = ({tree[i].data} \cup tree[i].neighbors) \cap Bytes
      BY <2>2 DEF ColumnsOf
    <3>2. {after[i].data} \cup after[i].neighbors =
            ({tree[i].data} \cup tree[i].neighbors) \cup {digest[i]}
      BY <1>1, <2>2
    <3>3. digest[i] \in Bytes
      BY <1>2
    <3> QED
      BY <3>1, <3>2, <3>3, Zenon
  <2> QED
    BY <2>1, <2>2
<1>4. ColumnsOf(after) =
        [i \in Positions |->
           ({after[i].data} \cup after[i].neighbors) \cap Bytes]
  BY <1>1 DEF ColumnsOf
<1>5. ColumnsOf(after) = [i \in Positions |-> ColumnsOf(tree)[i] \cup {digest[i]}]
  BY <1>3, <1>4
<1> QED
  BY <1>5 DEF after, tree, digest

\* Loading a tree brings its columns back, whatever the cells hold that the
\* file does not.
LEMMA ColumnsLoaded ==
  ASSUME NEW tree \in SavedTrees, NEW junk \in Junk(serialize_ed_tree(tree))
  PROVE  ColumnsOf(deserialize_ed_tree(serialize_ed_tree(tree), junk)) =
           ColumnsOf(tree)
<1> DEFINE loaded == deserialize_ed_tree(serialize_ed_tree(tree), junk)
<1>1. /\ ~IsEmpty(loaded)
      /\ \A i \in Positions :
           /\ loaded[i].data = tree[i].data
           /\ loaded[i].neighbors \cap Bytes = tree[i].neighbors \cap Bytes
  <2>1. TreeRecord(tree) \in WrittenTrees
        /\ TreeRecord(tree).cells = serialize_ed_tree(tree)
    BY TreeRecords, Kinds
  <2>2. ~IsEmpty(loaded)
    BY <2>1, LoadedTree
  <2> QED
    BY <2>2, ReloadedTree
<1>2. ~IsEmpty(tree)
  BY NotEmpty DEF SavedTrees
<1> HIDE DEF loaded
<1>3. \A i \in Positions :
        ({loaded[i].data} \cup loaded[i].neighbors) \cap Bytes =
          ({tree[i].data} \cup tree[i].neighbors) \cap Bytes
  BY <1>1
<1>4. ColumnsOf(loaded) = ColumnsOf(tree)
  BY <1>1, <1>2, <1>3 DEF ColumnsOf
<1> QED
  BY <1>4 DEF loaded

\* A readable file and a database with its names, have the
\* same set of names, as many as the array holds.
LEMMA SameNames ==
  ASSUME NEW aDb, Sound(aDb), NEW aFile, WellFormed(aFile),
         Readable(aFile), FileNames(aFile) = aDb.names.base
  PROVE  /\ Members(aDb.name_set) = { aFile[k].name : k \in NameRecords(aFile) }
         /\ (Len(aDb.names.base) > aDb.name_set.size) = FALSE
<1> DEFINE names == aDb.names.base
           n == Len(aFile) - 2
<1>1. /\ n \in Nat /\ Len(names) = n /\ names \in Seq(Strings)
      /\ \A k \in 1 .. n : aFile[k + 1] = NameRecord(names[k])
      /\ NameRecords(aFile) = 2 .. Len(aFile) - 1
      /\ CodesDiffer(names)
  BY TreeFile DEF Readable
<1>2. DOMAIN names = 1 .. n /\ Len(aFile) \in Nat
  BY <1>1, RecordsInOrder
<1> HIDE DEF names
<1>3. FirstNames(names) = 1 .. n
  BY <1>1, <1>2 DEF FirstNames, CodesDiffer
<1>4. Members(aDb.name_set) = { names[k] : k \in 1 .. n }
  BY <1>3, SetFollows DEF names
<1>5. \A k \in 1 .. n : aFile[k + 1].name = names[k]
  BY <1>1, Kinds
<1>6. { aFile[k].name : k \in 2 .. Len(aFile) - 1 } = { names[k] : k \in 1 .. n }
  <2>1. ASSUME NEW k \in 2 .. Len(aFile) - 1
        PROVE  k - 1 \in 1 .. n /\ aFile[k].name = names[k - 1]
    <3>1. k - 1 \in 1 .. n /\ (k - 1) + 1 = k
      BY <1>2
    <3> QED
      BY <1>5, <3>1
  <2>2. ASSUME NEW k \in 1 .. n
        PROVE  k + 1 \in 2 .. Len(aFile) - 1 /\ aFile[k + 1].name = names[k]
    BY <1>2, <1>5
  <2> HIDE DEF n
  <2>3. ASSUME NEW name
        PROVE  (\E k \in 2 .. Len(aFile) - 1 : name = aFile[k].name)
                 <=> \E k \in 1 .. n : name = names[k]
    BY <2>1, <2>2, Zenon
  <2> QED
    BY <2>3, Zenon
<1>7. aDb.name_set.size = Len(names)
  <2>1. Cardinality(CodesOfNames(names)) = Len(names)
    BY <1>1, CountCodes
  <2> QED
    BY <2>1 DEF Sound, names
<1>8. (Len(names) > aDb.name_set.size) = FALSE
  BY <1>1, <1>7
<1> QED
  BY <1>1, <1>4, <1>6, <1>8 DEF names

\* The calls on a database in memory are the ones of the abstract store.
LEMMA CreateIsCreate ==
  ASSUME NEW capacity \in Capacities, Create(capacity)
  PROVE  Threats!Create(capacity)
<1>1. pc = "idle" /\ pc' = "ready" /\ db' = create_database(capacity) /\ file' = file
      /\ capacity \in Nat
  BY StoreAssumption DEF Create
<1>2. ContentsOf(db') = Threats!Fresh(capacity)
  BY <1>1, FreshContents
<1> QED
  BY <1>1, <1>2, Phases, PhasesAfter, Disk DEF Threats!Create

LEMMA NewNameIsNewName ==
  ASSUME Sound(db), NEW name \in Strings, pc = "ready", Added(name),
         db'.modulo = db.modulo, file' = file
  PROVE  Threats!AddName(name)
<1> DEFINE names == Members(db.name_set)
           clash == ContentsOf(db).clash
           clashAfter == ContentsOf(db').clash
           empty == ContentsOf(db).empty
           columns == ColumnsOf(db.hash_tree)
<1>1. /\ pc' = "ready" /\ db.modulo > 0
      /\ db'.version = db.version /\ db'.hash_tree = db.hash_tree
      /\ db'.names.base = Append(db.names.base, name)
      /\ db'.name_set.size =
           IF AddStops(db.name_set, name) THEN db.name_set.size
                                          ELSE db.name_set.size + 1
      /\ Members(db'.name_set) =
           IF AddStops(db.name_set, name) THEN names ELSE names \cup {name}
  BY DEF Added
<1>2. phaseBar = "open" /\ phaseBar' = "open" /\ diskBar' = diskBar
      /\ memBar = ContentsOf(db) /\ memBar' = ContentsOf(db')
  BY <1>1, Phases, PhasesAfter, Disk
<1>3. /\ db.modulo \in Nat /\ db.name_set \in StringSets(db.modulo)
      /\ db.names.base \in Seq(Strings) /\ Len(db.names.base) \in Nat
      /\ db.name_set.size \in 0 .. Len(db.names.base)
  BY SoundParts
<1>4. Len(db'.names.base) = Len(db.names.base) + 1
  BY <1>1, <1>3
<1>5. /\ memBar.capacity = db.modulo /\ memBar.names = names
      /\ memBar = Contents(db.modulo, db.version, names, clash, empty, columns)
      /\ clash = (Len(db.names.base) > db.name_set.size)
  BY <1>2, ContentsParts
<1>5a. ContentsOf(db').empty = empty
  <2>1. /\ ContentsOf(db).empty = IsEmpty(db.hash_tree)
        /\ ContentsOf(db').empty = IsEmpty(db'.hash_tree)
    BY ContentsParts
  <2> QED
    BY <1>1, <2>1, Zenon
<1>6. /\ memBar' = Contents(db'.modulo, db'.version, Members(db'.name_set),
                            clashAfter, empty, ColumnsOf(db'.hash_tree))
      /\ clashAfter = (Len(db'.names.base) > db'.name_set.size)
  <2> HIDE DEF empty
  <2> QED
    BY <1>2, <1>5a, ContentsParts
<1>7. AddStops(db.name_set, name) <=> Threats!Clashes(memBar, name)
  <2>1. AddStops(db.name_set, name) <=> \E other \in names : Hash[other] = Hash[name]
    BY <1>1, <1>3, StopsAtMembers DEF Sound
  <2> QED
    BY <1>5, <2>1 DEF Threats!Clashes
<1> HIDE DEF clashAfter, clash, names, empty, columns
<1>8. CASE AddStops(db.name_set, name)
  <2>1. clashAfter = TRUE
    <3>1. Len(db'.names.base) > db'.name_set.size
      BY <1>1, <1>3, <1>4, <1>8
    <3>2. (Len(db'.names.base) > db'.name_set.size) = TRUE
      BY <3>1
    <3> QED
      BY <1>6, <3>2, Zenon
  <2>2. memBar' = Contents(db.modulo, db.version, names, TRUE, empty, columns)
    BY <1>1, <1>6, <1>8, <2>1 DEF columns
  <2>3. [Contents(db.modulo, db.version, names, clash, empty, columns)
            EXCEPT !.clash = TRUE]
          = Contents(db.modulo, db.version, names, TRUE, empty, columns)
    <3>1. \A new : [Contents(db.modulo, db.version, names, clash, empty, columns)
                     EXCEPT !.clash = new]
                   = Contents(db.modulo, db.version, names, new, empty, columns)
      BY ContentsExcept
    <3> QED
      BY <3>1, Zenon
  <2>4. memBar' = [memBar EXCEPT !.clash = TRUE]
    BY <1>5, <2>2, <2>3, Zenon
  <2> QED
    BY <1>1, <1>2, <1>5, <1>7, <1>8, <2>4 DEF Threats!AddName
<1>9. CASE ~AddStops(db.name_set, name)
  <2>1. clashAfter = clash
    BY <1>1, <1>3, <1>4, <1>5, <1>6, <1>9
  <2>2. memBar' = Contents(db.modulo, db.version, names \cup {name}, clash, empty, columns)
    BY <1>1, <1>6, <1>9, <2>1 DEF columns
  <2>3. [Contents(db.modulo, db.version, names, clash, empty, columns)
            EXCEPT !.names = names \cup {name}]
          = Contents(db.modulo, db.version, names \cup {name}, clash, empty, columns)
    <3>1. \A new : [Contents(db.modulo, db.version, names, clash, empty, columns)
                     EXCEPT !.names = new]
                   = Contents(db.modulo, db.version, new, clash, empty, columns)
      BY ContentsExcept
    <3> QED
      BY <3>1, Zenon
  <2>4. memBar' = [memBar EXCEPT !.names = names \cup {name}]
    BY <1>5, <2>2, <2>3
  <2> QED
    BY <1>1, <1>2, <1>5, <1>7, <1>9, <2>4 DEF Threats!AddName
<1> QED
  BY <1>8, <1>9

\* A wild node is the last of a chain: there is a name.
LEMMA WildHasNames ==
  ASSUME NEW aDb, Sound(aDb), aDb.name_set.wild # {}
  PROVE  Members(aDb.name_set) # {}
<1>1. aDb.modulo \in Nat /\ aDb.name_set \in StringSets(aDb.modulo)
      /\ InPlace(aDb.name_set)
  BY SoundParts DEF Sound
<1>2. PICK b \in aDb.name_set.wild : TRUE
  OBVIOUS
<1>3. /\ b \in DOMAIN aDb.name_set.chain /\ aDb.name_set.chain[b] \in Seq(Strings)
      /\ aDb.name_set.chain[b] # <<>>
  BY <1>1, <1>2 DEF StringSets, InPlace
<1>4. 1 \in DOMAIN aDb.name_set.chain[b] /\ aDb.name_set.chain[b][1] \in Strings
  BY <1>3
<1> QED
  BY <1>3, <1>4 DEF Members

\* A call that stops the program before it has changed anything.
LEMMA StopsIsFail ==
  ASSUME IInv, pc = "ready", pc' \in {"aborted", "lost"}, file' = file,
         db.modulo = 0 \/ IsEmpty(db.hash_tree) \/ db.name_set.wild # {}
  PROVE  Threats!Fail
<1>1. phaseBar = "open" /\ phaseBar' = "failed" /\ diskBar' = diskBar
      /\ memBar = ContentsOf(db) /\ memBar' = Threats!Nothing
  BY Phases, PhasesAfter, Disk
<1>2. /\ memBar.capacity = db.modulo /\ memBar.empty = IsEmpty(db.hash_tree)
      /\ memBar.names = Members(db.name_set)
  BY <1>1, ContentsParts
<1>3. ASSUME IsEmpty(db.hash_tree) PROVE memBar.empty
  BY <1>2, <1>3, Zenon
<1>4. ASSUME db.name_set.wild # {}
      PROVE  "wild" \in FreshNext /\ memBar.names # {}
  BY <1>2, <1>4, WildHasNames DEF IInv
<1> QED
  BY <1>1, <1>2, <1>3, <1>4 DEF Threats!Fail

LEMMA AddNameIsAddName ==
  ASSUME IInv, NEW name \in Strings, AddName(name)
  PROVE  Threats!AddName(name) \/ Threats!Fail
<1>1. /\ pc = "ready" /\ AddsName(name) /\ file' = file /\ Sound(db)
      /\ db.name_set.wild # {} => "wild" \in FreshNext
  BY DEF AddName, IInv
<1>2. db'.modulo = db.modulo /\ (NotAdded(name) \/ Added(name))
  BY <1>1, AddsNameEffect
<1>3. CASE NotAdded(name)
  <2>1. pc' \in {"aborted", "lost"} /\ (db.modulo = 0 \/ db.name_set.wild # {})
    BY <1>3 DEF NotAdded, AddGetsLost
  <2> QED
    BY <1>1, <2>1, StopsIsFail
<1>4. CASE Added(name)
  BY <1>1, <1>2, <1>4, NewNameIsNewName
<1> QED
  BY <1>2, <1>3, <1>4

\* What only replaces the tree, or the version.
LEMMA SamePartsOf ==
  ASSUME NEW aDb, NEW after,
         after.modulo = aDb.modulo,
         after.name_set = aDb.name_set, after.names = aDb.names
  PROVE  /\ after.version = aDb.version /\ ContentsOf(after).empty = FALSE =>
              ContentsOf(after) =
                Threats!WithColumns(ContentsOf(aDb), ColumnsOf(after.hash_tree))
         /\ after.hash_tree = aDb.hash_tree =>
              ContentsOf(after) =
                [ContentsOf(aDb) EXCEPT !.version = after.version]
<1> DEFINE names == Members(aDb.name_set)
           clash == ContentsOf(aDb).clash
           empty == ContentsOf(aDb).empty
           emptyAfter == ContentsOf(after).empty
<1>1. ContentsOf(aDb) =
        Contents(aDb.modulo, aDb.version, names, clash, empty,
                 ColumnsOf(aDb.hash_tree))
  BY ContentsParts
<1>2. ContentsOf(after).clash = clash
  BY ContentsParts
<1>3. ContentsOf(after) =
        Contents(aDb.modulo, after.version, names, clash, emptyAfter,
                 ColumnsOf(after.hash_tree))
  <2>1. ContentsOf(after) =
          Contents(after.modulo, after.version, Members(after.name_set),
                   ContentsOf(after).clash, emptyAfter,
                   ColumnsOf(after.hash_tree))
    BY ContentsParts
  <2> HIDE DEF emptyAfter, clash
  <2> QED
    BY <1>2, <2>1
<1>4. ASSUME after.hash_tree = aDb.hash_tree PROVE emptyAfter = empty
  BY <1>4, ContentsParts
<1> HIDE DEF names, clash, empty
<1>5. ASSUME after.version = aDb.version, emptyAfter = FALSE
      PROVE  ContentsOf(after) =
               Threats!WithColumns(ContentsOf(aDb), ColumnsOf(after.hash_tree))
  <2> HIDE DEF emptyAfter
  <2>1. /\ ContentsOf(aDb).capacity = aDb.modulo
        /\ ContentsOf(aDb).version = aDb.version
        /\ ContentsOf(aDb).names = names
    BY ContentsParts DEF names
  <2>2. ContentsOf(aDb).clash = clash
    BY DEF clash
  <2> QED
    BY <1>3, <1>5, <2>1, <2>2, Zenon DEF Threats!WithColumns, Contents
<1>6. ASSUME after.hash_tree = aDb.hash_tree
      PROVE  ContentsOf(after) = [ContentsOf(aDb) EXCEPT !.version = after.version]
  <2> HIDE DEF emptyAfter
  <2>1. ContentsOf(after) =
          Contents(aDb.modulo, after.version, names, clash, empty,
                   ColumnsOf(aDb.hash_tree))
    BY <1>3, <1>4, <1>6
  <2> QED
    BY <1>1, <2>1, ContentsExcept
<1> QED
  BY <1>5, <1>6

LEMMA AddHashIsAddDigest ==
  ASSUME IInv, NEW hash \in Buffers, AddHash(hash)
  PROVE  Threats!AddDigest(pad_hash_digest(hash))
<1> DEFINE digest == pad_hash_digest(hash)
           more == [i \in Positions |-> ColumnsOf(db.hash_tree)[i] \cup {digest[i]}]
<1>1. pc = "ready" /\ pc' = "ready" /\ file' = file
      /\ Sound(db) /\ db' = database_add_hash(db, hash)
  BY DEF AddHash, IInv
<1>2. phaseBar = "open" /\ phaseBar' = "open" /\ diskBar' = diskBar
      /\ memBar = ContentsOf(db) /\ memBar' = ContentsOf(db')
  BY <1>1, Phases, PhasesAfter, Disk
<1>3. /\ db'.version = db.version /\ db'.modulo = db.modulo
      /\ db'.name_set = db.name_set /\ db'.names = db.names
      /\ ContentsOf(db').empty = FALSE
  BY <1>1, AddHashSound, NotEmptyContents
<1>4. ColumnsOf(db'.hash_tree) = more
  BY <1>1, ColumnsAdded
<1>5. memBar.columns = ColumnsOf(db.hash_tree)
  BY <1>2, ContentsParts
<1> HIDE DEF digest, more
<1>6. memBar' = Threats!WithColumns(memBar, more)
  BY <1>2, <1>3, <1>4, SamePartsOf
<1>7. memBar' = Threats!WithColumns(memBar,
                  [i \in Positions |-> memBar.columns[i] \cup {digest[i]}])
  BY <1>5, <1>6 DEF more
<1> QED
  BY <1>2, <1>7 DEF Threats!AddDigest, digest

LEMMA AddHashesIsAddTwoDigests ==
  ASSUME IInv, NEW first \in Buffers, NEW second \in Buffers,
         AddHashes(<<first, second>>)
  PROVE  Threats!AddTwoDigests(pad_hash_digest(first), pad_hash_digest(second))
<1> DEFINE one == database_add_hash(db, first)
           digest == pad_hash_digest(first)
           other == pad_hash_digest(second)
           columns == ColumnsOf(db.hash_tree)
           more == [i \in Positions |-> columns[i] \cup {digest[i]}]
           most == [i \in Positions |-> columns[i] \cup {digest[i], other[i]}]
<1>1. pc = "ready" /\ pc' = "ready" /\ file' = file
      /\ Sound(db) /\ db' = database_add_hash(one, second)
  BY AddTwo DEF AddHashes, IInv
<1>2. phaseBar = "open" /\ phaseBar' = "open" /\ diskBar' = diskBar
      /\ memBar = ContentsOf(db) /\ memBar' = ContentsOf(db')
  BY <1>1, Phases, PhasesAfter, Disk
<1>3. /\ Sound(one) /\ one.version = db.version /\ one.modulo = db.modulo
      /\ one.name_set = db.name_set /\ one.names = db.names
  BY <1>1, AddHashSound
<1>4. ColumnsOf(one.hash_tree) = more
  BY <1>1, ColumnsAdded
<1> HIDE DEF one
<1>5. /\ db'.version = one.version /\ db'.modulo = one.modulo
      /\ db'.name_set = one.name_set /\ db'.names = one.names
      /\ ContentsOf(db').empty = FALSE
  BY <1>1, <1>3, AddHashSound, NotEmptyContents
<1>6. ColumnsOf(db'.hash_tree) = [i \in Positions |-> more[i] \cup {other[i]}]
  BY <1>1, <1>3, <1>4, ColumnsAdded
<1>7. ColumnsOf(db'.hash_tree) = most
  <2> HIDE DEF columns, digest, other
  <2>1. \A i \in Positions : more[i] \cup {other[i]} = most[i]
    OBVIOUS
  <2> HIDE DEF more
  <2> QED
    BY <1>6, <2>1
<1>8. memBar.columns = columns
  BY <1>2, ContentsParts
<1> HIDE DEF digest, other, columns, more, most
<1>9. memBar' = Threats!WithColumns(memBar, most)
  <2>1. /\ db'.version = db.version /\ db'.modulo = db.modulo
        /\ db'.name_set = db.name_set /\ db'.names = db.names
    BY <1>3, <1>5
  <2> QED
    BY <1>2, <1>5, <1>7, <2>1, SamePartsOf
<1>10. memBar' = Threats!WithColumns(memBar,
                   [i \in Positions |->
                      memBar.columns[i] \cup {digest[i], other[i]}])
  BY <1>8, <1>9 DEF most
<1> QED
  BY <1>2, <1>10 DEF Threats!AddTwoDigests, digest, other

LEMMA VersionIsVersion ==
  ASSUME IInv, NEW version \in Versions, pc = "ready", pc' = "ready",
         db' = [db EXCEPT !.version = version], file' = file
  PROVE  /\ phaseBar = "open" /\ phaseBar' = "open" /\ diskBar' = diskBar
         /\ memBar.version = db.version
         /\ memBar' = [memBar EXCEPT !.version = version]
<1>1. phaseBar = "open" /\ phaseBar' = "open" /\ diskBar' = diskBar
      /\ memBar = ContentsOf(db) /\ memBar' = ContentsOf(db')
  BY Phases, PhasesAfter, Disk
<1>2. /\ db'.version = version /\ db'.modulo = db.modulo
      /\ db'.name_set = db.name_set /\ db'.names = db.names
      /\ db'.hash_tree = db.hash_tree
  BY VersionSound DEF IInv
<1>3. memBar' = [memBar EXCEPT !.version = version]
  <2>1. ContentsOf(db') = [ContentsOf(db) EXCEPT !.version = db'.version]
    BY <1>2, SamePartsOf
  <2> QED
    BY <1>1, <1>2, <2>1
<1>4. memBar.version = db.version
  BY <1>1, ContentsParts
<1> QED
  BY <1>1, <1>3, <1>4

LEMMA SetVersionIsSetVersion ==
  ASSUME IInv, NEW value \in VersionArgs, SetVersion(value)
  PROVE  Threats!SetVersion(value)
<1>1. value % VersionRange \in Versions
  BY StoreAssumption, VersionRangeAssumption DEF Versions
<1> QED
  BY <1>1, VersionIsVersion DEF SetVersion, Threats!SetVersion

\* The version wraps in a uint32_t: one more than the last version is 0.
LEMMA IncrementIsIncrement ==
  ASSUME IInv, IncrementVersion
  PROVE  Threats!IncrementVersion
<1> DEFINE next == IF db.version = VersionRange - 1 THEN 0 ELSE db.version + 1
<1>1. db.version \in Versions
  BY SoundParts DEF IInv
<1>2. (db.version + 1) % VersionRange = next /\ next \in Versions
  BY <1>1, VersionRangeAssumption DEF Versions
<1>3. db' = [db EXCEPT !.version = next] /\ pc = "ready" /\ pc' = "ready"
      /\ file' = file
  BY <1>2 DEF IncrementVersion
<1>4. /\ phaseBar = "open" /\ phaseBar' = "open" /\ diskBar' = diskBar
      /\ memBar.version = db.version
      /\ memBar' = [memBar EXCEPT !.version = next]
  <2> HIDE DEF next
  <2> QED
    BY <1>2, <1>3, VersionIsVersion
<1> QED
  BY <1>4 DEF Threats!IncrementVersion

\* The contents of a file and of a database with the same names, capacity and
\* version differ in the columns only.
LEMMA FileContents ==
  ASSUME NEW aDb, Sound(aDb), NEW aFile, WellFormed(aFile), Readable(aFile),
         FileNames(aFile) = aDb.names.base,
         aFile[1].modulo = aDb.modulo, aFile[1].version = aDb.version,
         NEW columns
  PROVE  /\ ContentsOfFile(aFile, columns) =
              Threats!WithColumns(ContentsOf(aDb), columns)
         /\ ContentsOf(aDb).clash = FALSE
<1> DEFINE names == { aFile[k].name : k \in NameRecords(aFile) }
<1>1. Members(aDb.name_set) = names
      /\ (Len(aDb.names.base) > aDb.name_set.size) = FALSE
  BY SameNames
<1>2. ContentsOf(aDb).clash = (Len(aDb.names.base) > aDb.name_set.size)
  BY ContentsParts
<1>3. ContentsOf(aDb).clash = FALSE
  BY <1>1, <1>2, Zenon
<1>4. /\ ContentsOf(aDb).capacity = aFile[1].modulo
      /\ ContentsOf(aDb).version = aFile[1].version
      /\ ContentsOf(aDb).names = names
  BY <1>1, ContentsParts
<1>5. ContentsOfFile(aFile, columns) =
        Threats!WithColumns(ContentsOf(aDb), columns)
  BY <1>3, <1>4, Zenon DEF ContentsOfFile, Threats!WithColumns
<1> QED
  BY <1>3, <1>5

LEMMA OtherColumns ==
  /\ \A aFile, columns, others :
       Threats!WithColumns(ContentsOfFile(aFile, columns), others) =
         ContentsOfFile(aFile, others)
  /\ \A aDb : ~IsEmpty(aDb.hash_tree) =>
       Threats!WithColumns(ContentsOf(aDb), ColumnsOf(aDb.hash_tree)) =
         ContentsOf(aDb)
<1>1. ASSUME NEW aFile, NEW columns, NEW others
      PROVE  Threats!WithColumns(ContentsOfFile(aFile, columns), others) =
               ContentsOfFile(aFile, others)
  <2> DEFINE old == ContentsOfFile(aFile, columns)
  <2>1. old.clash = FALSE
    BY Zenon DEF ContentsOfFile
  <2>2. /\ old.capacity = aFile[1].modulo /\ old.version = aFile[1].version
        /\ old.names = { aFile[k].name : k \in NameRecords(aFile) }
    BY Zenon DEF ContentsOfFile
  <2> HIDE DEF old
  <2>3. Threats!WithColumns(old, others) = ContentsOfFile(aFile, others)
    BY <2>1, <2>2, Zenon DEF ContentsOfFile, Threats!WithColumns
  <2> QED
    BY <2>3 DEF old
<1>2. ASSUME NEW aDb, ~IsEmpty(aDb.hash_tree)
      PROVE  Threats!WithColumns(ContentsOf(aDb), ColumnsOf(aDb.hash_tree)) =
               ContentsOf(aDb)
  BY <1>2, NotEmptyContents, SamePartsOf
<1> QED
  BY <1>1, <1>2

\* While a database is saved there is nothing in its file to load.
UnfinishedIsBroken == pc = "saving" => ~Readable(file)

\* The end of a save is one step of the abstract store.
LEMMA SaveIsSave ==
  ASSUME IInv, SaveTree
  PROVE  Threats!EndSave \/ Threats!Fail
<1>1. /\ pc = "saving" /\ db' = db /\ Sound(db) /\ WellFormed(file)
      /\ Begun(file, db, Len(db.names.base)) /\ ~HasTree(file)
  BY SavingHasNoTree DEF SaveTree, IInv, SavesInOrder
<1>2. phaseBar = "saving" /\ memBar = ContentsOf(db)
  BY <1>1, Phases
<1>3. /\ memBar.clash = (Len(db.names.base) > db.name_set.size)
      /\ memBar.empty = IsEmpty(db.hash_tree)
  BY <1>2, ContentsParts
<1>4. CASE IsEmpty(db.hash_tree)
  <2>1. pc' = "save_aborted" /\ LeavesPrefix
    BY <1>4 DEF SaveTree
  <2>2. ~Readable(file) /\ ~Readable(file')
    BY <1>1, <1>4, <2>1, LeftPrefix DEF Readable, CutTree
  <2>3. diskBar' = diskBar /\ phaseBar' = "failed" /\ memBar' = Threats!Nothing
    BY <2>1, <2>2, Disk, PhasesAfter
  <2>4. memBar.empty
    BY <1>3, <1>4, Zenon
  <2> QED
    BY <1>2, <2>3, <2>4 DEF Threats!Fail
<1>5. CASE ~IsEmpty(db.hash_tree)
  <2> DEFINE tree == db.hash_tree
             record == TreeRecord(tree)
  <2>1. pc' = "ready" /\ file' = Append(file, record)
    BY <1>5 DEF SaveTree
  <2>2. tree \in SavedTrees
    BY <1>1, <1>5, SoundParts
  <2>3. /\ record \in WrittenTrees /\ DOMAIN record.cells = Kept
        /\ record.cells = serialize_ed_tree(tree) /\ record.kind = "tree"
    BY <2>2, TreeRecords DEF TreeRecord
  <2> HIDE DEF record
  <2>4. /\ WellFormed(file') /\ HasTree(file')
        /\ file'[1] = Metadata(db)
        /\ FileNames(file') = db.names.base
        /\ file'[Len(file')] = record
        /\ NamesClash(file') <=> Len(db.names.base) > db.name_set.size
    BY <1>1, <1>5, <2>1, <2>3, WriteTree
  <2>5. Complete(file')
    <3>1. PICK k \in DOMAIN file' : file'[k].kind = "tree"
      BY <2>4 DEF HasTree
    <3>2. k = Len(file')
      BY <2>4, <3>1, RecordsInOrder
    <3> QED
      BY <2>3, <2>4, <3>1, <3>2 DEF Complete
  <2>6. phaseBar' = "open" /\ memBar' = memBar
    BY <1>1, <1>2, <2>1, PhasesAfter
  <2>7. ColumnsInFile(file') = ColumnsOf(tree)
    <3> DEFINE junk == [c \in (0 .. Cells - 1) \ DOMAIN record.cells |-> 0]
    <3>1. ColumnsInFile(file') =
            ColumnsOf(deserialize_ed_tree(record.cells, junk))
      BY <2>4 DEF ColumnsInFile
    <3>2. 0 \in Chars
      BY EdTreeAssumption DEF Chars
    <3>3. junk \in Junk(serialize_ed_tree(tree))
      BY <2>3, <3>2 DEF Junk
    <3> HIDE DEF junk
    <3> QED
      BY <2>2, <2>3, <3>1, <3>3, ColumnsLoaded
  <2>8. file'[1].modulo = db.modulo /\ file'[1].version = db.version
    BY <2>4 DEF Metadata
  <2>9. CASE NamesClash(file')
    <3>1. memBar.clash
      BY <1>3, <2>4, <2>9, Zenon
    <3>2. diskBar' = Threats!Broken
      BY <2>9, Disk DEF Readable
    <3>3. memBar.empty = FALSE
      BY <1>2, <1>5, NotEmptyContents
    <3> QED
      BY <1>2, <2>6, <3>1, <3>2, <3>3 DEF Threats!EndSave
  <2>10. CASE ~NamesClash(file')
    <3>1. Readable(file')
      BY <2>4, <2>10 DEF Readable
    <3>2. /\ ContentsOfFile(file', ColumnsOf(tree)) =
               Threats!WithColumns(memBar, ColumnsOf(tree))
          /\ memBar.clash = FALSE
      BY <1>1, <1>2, <2>4, <2>8, <3>1, FileContents
    <3>3. Threats!WithColumns(memBar, ColumnsOf(tree)) = memBar
      BY <1>2, <1>5, OtherColumns
    <3>4. diskBar' = Threats!Whole(memBar)
      BY <2>5, <2>7, <3>1, <3>2, <3>3, Disk DEF DiskOf, Threats!Whole
    <3>5. memBar.empty = FALSE
      BY <1>2, <1>5, NotEmptyContents
    <3> QED
      BY <1>2, <2>6, <3>2, <3>4, <3>5 DEF Threats!EndSave
  <2> QED
    BY <2>9, <2>10
<1> QED
  BY <1>4, <1>5

\* Only the last record of a file that is loaded changes the abstract store.
LEMMA LoadIsLoad ==
  ASSUME IInv, ReadTree
  PROVE  Threats!Load \/ Threats!LoadCut \/ Threats!Fail
<1> DEFINE k == Len(db.names.base) + 2
<1>1. /\ pc = "reading" /\ todo = 0 /\ file' = file /\ WellFormed(file)
      /\ Sound(db) /\ ReadsInOrder /\ Len(db.names.base) \in Nat
  BY SoundParts DEF ReadTree, IInv, ReadsInOrder
<1>2. phaseBar = "none" /\ memBar = Threats!Nothing /\ diskBar' = diskBar
  BY <1>1, Phases, Disk
<1>3. RecordAt(file, k, "tree") <=> Readable(file)
  BY <1>1, TreeIsNext
<1>4. CASE ~RecordAt(file, k, "tree")
  <2>1. pc' = "lost"
    BY <1>4 DEF ReadTree
  <2>2. phaseBar' = "failed" /\ memBar' = Threats!Nothing
    BY <2>1, PhasesAfter
  <2>3. diskBar.state = "broken"
    BY <1>3, <1>4, Disk DEF Threats!Broken
  <2> QED
    BY <1>2, <2>2, <2>3 DEF Threats!Fail
<1>5. CASE RecordAt(file, k, "tree")
  <2>1. Readable(file) /\ HasTree(file) /\ file[1].size = Len(db.names.base)
    BY <1>1, <1>3, <1>5 DEF ReadsInOrder, Readable
  <2>2. /\ Len(file) \in Nat /\ k = Len(file)
        /\ Len(FileNames(file)) = Len(db.names.base)
        /\ FileNames(file) \in Seq(Strings)
        /\ \A j \in 1 .. Len(db.names.base) :
             file[j + 1] = NameRecord(FileNames(file)[j])
    <3>1. Len(file) \in Nat
      BY <1>1, RecordsInOrder
    <3>2. /\ Len(FileNames(file)) = Len(file) - 2 /\ FileNames(file) \in Seq(Strings)
          /\ \A j \in 1 .. Len(file) - 2 :
               file[j + 1] = NameRecord(FileNames(file)[j])
          /\ file[1].size = Len(file) - 2
      BY <1>1, <2>1, TreeFile DEF Readable
    <3> QED
      BY <2>1, <3>1, <3>2
  <2>3. FileNames(file) = db.names.base
    <3>1. ASSUME NEW j \in 1 .. Len(db.names.base)
          PROVE  FileNames(file)[j] = db.names.base[j]
      <4>1. file[j + 1] = NameRecord(db.names.base[j])
        BY <1>1 DEF ReadsInOrder
      <4>2. file[j + 1] = NameRecord(FileNames(file)[j])
        BY <2>2
      <4>3. \A name : NameRecord(name).name = name
        BY Kinds
      <4> QED
        BY <4>1, <4>2, <4>3
    <3>2. db.names.base \in Seq(Strings)
      BY <1>1, SoundParts
    <3> QED
      BY <2>2, <3>1, <3>2
  <2>4. PICK junk \in Junk(file[k].cells) :
          db' = [db EXCEPT !.hash_tree = deserialize_ed_tree(file[k].cells, junk)]
    BY <1>5 DEF ReadTree
  <2>5. pc' = "ready"
    BY <1>5 DEF ReadTree
  <2>6. file[k] \in WrittenTrees
    BY <1>1, <1>5, NextTree
  <2> DEFINE now == deserialize_ed_tree(file[k].cells, junk)
             columns == ColumnsOf(now)
  <2>7. now \in Trees /\ ~IsEmpty(now)
    BY <2>6, LoadedTree
  <2> HIDE DEF now
  <2>8. /\ Sound(db') /\ db'.version = db.version /\ db'.modulo = db.modulo
        /\ db'.name_set = db.name_set /\ db'.names = db.names
        /\ db'.hash_tree = now
    BY <1>1, <2>4, <2>7, TreeSound DEF now
  <2>9. /\ db'.modulo = file[1].modulo /\ db'.version = file[1].version
        /\ db'.names.base = FileNames(file)
    BY <1>1, <2>3, <2>8 DEF ReadsInOrder
  <2>10. ContentsOf(db') = ContentsOfFile(file, columns)
    <3>1. ContentsOfFile(file, columns) =
            Threats!WithColumns(ContentsOf(db'), columns)
      BY <1>1, <2>1, <2>8, <2>9, FileContents
    <3>2. Threats!WithColumns(ContentsOf(db'), ColumnsOf(db'.hash_tree)) =
            ContentsOf(db')
      BY <2>7, <2>8, OtherColumns
    <3> QED
      BY <2>8, <3>1, <3>2
  <2>11. phaseBar' = "open" /\ memBar' = ContentsOfFile(file, columns)
    BY <2>5, <2>10, PhasesAfter
  <2>12. CASE Complete(file)
    <3>1. DOMAIN file[k].cells = Kept
      <4>1. \A j \in DOMAIN file : file[j].kind = "tree" => j = k
        BY <1>1, <2>2, RecordsInOrder
      <4> QED
        BY <2>12, <4>1 DEF Complete
    <3>2. PICK tree \in SavedTrees : file[k].cells = serialize_ed_tree(tree)
      BY <2>6, <3>1, WholeRecord
    <3>3. columns = ColumnsOf(tree)
      BY <3>2, ColumnsLoaded DEF now
    <3>4. ColumnsInFile(file) = ColumnsOf(tree)
      <4> DEFINE zeros == [c \in (0 .. Cells - 1) \ DOMAIN file[k].cells |-> 0]
      <4>1. ColumnsInFile(file) = ColumnsOf(deserialize_ed_tree(file[k].cells, zeros))
        BY <2>2 DEF ColumnsInFile
      <4>2. 0 \in Chars
        BY EdTreeAssumption DEF Chars
      <4>3. zeros \in Junk(serialize_ed_tree(tree))
        BY <3>2, <4>2 DEF Junk
      <4> HIDE DEF zeros
      <4> QED
        BY <3>2, <4>1, <4>3, ColumnsLoaded
    <3>5. diskBar.state = "whole"
          /\ diskBar.contents = ContentsOfFile(file, ColumnsInFile(file))
      BY <2>1, <2>12 DEF diskBar, DiskOf
    <3> QED
      BY <1>2, <2>11, <3>3, <3>4, <3>5 DEF Threats!Load
  <2>13. CASE ~Complete(file)
    <3>1. diskBar.state = "cut"
          /\ diskBar.contents = ContentsOfFile(file, [i \in Positions |-> {}])
      BY <2>1, <2>13 DEF diskBar, DiskOf
    <3>2. memBar' = Threats!WithColumns(diskBar.contents, columns)
      BY <2>11, <3>1, OtherColumns
    <3>3. columns \in [Positions -> SUBSET Bytes]
      BY DEF ColumnsOf
    <3> HIDE DEF columns
    <3> QED
      BY <1>2, <2>11, <3>1, <3>2, <3>3 DEF Threats!LoadCut
  <2> QED
    BY <2>12, <2>13
<1> QED
  BY <1>4, <1>5

\* The records before the tree are read without a trace in the abstract store,
\* or the load fails on a file that is broken, or on a wild `next` that two of
\* its names meet.
LEMMA ReadingIsHidden ==
  ASSUME IInv, ReadMetadata \/ ReadName
  PROVE  UNCHANGED Threats!vars \/ Threats!Fail
<1>1. /\ pc \in {"idle", "reading"} /\ file' = file
      /\ Sound(db) /\ FileOK /\ todo \in Nat /\ Len(db.names.base) \in Nat
      /\ db.name_set.wild # {} => "wild" \in FreshNext
  BY SoundParts DEF ReadMetadata, ReadName, IInv
<1>2. phaseBar = "none" /\ memBar = Threats!Nothing /\ diskBar' = diskBar
  BY <1>1, Phases, Disk
<1> DEFINE Beside == /\ "wild" \in FreshNext
                     /\ \E j, k \in NameRecords(file) : file[j].name # file[k].name
<1>3. pc' = "reading" \/ (pc' = "lost" /\ (~Readable(file) \/ Beside))
  <2>1. CASE ReadMetadata
    BY <1>1, <2>1, NoMetadata DEF ReadMetadata, Readable
  <2>2. CASE ReadName
    <3>1. pc = "reading" /\ todo > 0 /\ ReadsInOrder
      BY <2>2 DEF ReadName, IInv
    <3>2. CASE RecordAt(file, Len(db.names.base) + 2, "name")
      BY <1>1, <2>2, <3>1, <3>2, NamesAreRead DEF Added, MeetsWildNode
    <3>3. CASE ~RecordAt(file, Len(db.names.base) + 2, "name")
      BY <1>1, <2>2, <3>1, <3>3, NameIsNext DEF ReadName
    <3> QED
      BY <3>2, <3>3
  <2> QED
    BY <2>1, <2>2
<1>4. CASE pc' = "reading"
  BY <1>2, <1>4, PhasesAfter DEF Threats!vars
<1>5. CASE pc' = "lost" /\ (~Readable(file) \/ Beside)
  <2>1. phaseBar' = "failed" /\ memBar' = Threats!Nothing
    BY <1>5, PhasesAfter
  <2>2. CASE ~Readable(file)
    <3>1. diskBar.state = "broken"
      BY <2>2, Disk DEF Threats!Broken
    <3> QED
      BY <1>2, <2>1, <3>1 DEF Threats!Fail
  <2>3. CASE Readable(file) /\ Beside
    <3>1. diskBar.contents.names = { file[k].name : k \in NameRecords(file) }
      BY <2>3, Disk
    <3>2. \E name, other \in diskBar.contents.names : name # other
      BY <2>3, <3>1
    <3> QED
      BY <1>2, <2>1, <2>3, <3>2 DEF Threats!Fail
  <2> QED
    BY <1>5, <2>2, <2>3
<1> QED
  BY <1>3, <1>4, <1>5

\* A program that ends gives up what it has in memory.
LEMMA EndsAreStops ==
  ASSUME IInv, pc' = "idle", Free \/ Crash \/ Restart \/ GoesOn
  PROVE  UNCHANGED Threats!vars \/ Threats!Stop
<1>1. phaseBar' = "none" /\ memBar' = Threats!Nothing
  BY PhasesAfter
<1>2. ASSUME file' = file PROVE diskBar' = diskBar
  BY <1>2, Disk
<1>3. CASE Free
  BY <1>1, <1>2, <1>3, Phases DEF Free, Threats!Stop
<1>4. CASE Crash
  <2>1. CASE pc = "reading"
    BY <1>1, <1>2, <1>4, <2>1, Phases DEF Crash, Threats!vars
  <2>2. CASE pc = "ready"
    BY <1>1, <1>2, <1>4, <2>2, Phases DEF Crash, Threats!Stop
  <2>3. CASE pc = "saving"
    <3>1. phaseBar = "saving" /\ memBar = ContentsOf(db) /\ Sound(db)
      BY <2>3, Phases DEF IInv
    <3>2. WellFormed(file') /\ (~HasTree(file') \/ CutTree)
      BY <1>4, <2>3, LeftPrefix DEF Crash
    <3>3. diskBar = Threats!Broken
      BY <2>3, SavingHasNoTree, Disk DEF Readable
    <3>4. CASE ~Readable(file')
      BY <1>1, <3>1, <3>3, <3>4, Disk DEF Threats!Stop
    <3>5. CASE CutTree /\ Readable(file')
      <4>1. /\ FileNames(file') = db.names.base /\ ~IsEmpty(db.hash_tree)
            /\ file'[1].modulo = db.modulo /\ file'[1].version = db.version
            /\ ~Complete(file')
        BY <3>5 DEF CutTree, Metadata
      <4>2. /\ ContentsOfFile(file', Threats!NoColumns) =
                 Threats!WithColumns(memBar, Threats!NoColumns)
            /\ memBar.clash = FALSE
        BY <3>1, <3>2, <3>5, <4>1, FileContents
      <4>3. memBar.empty = FALSE
        BY <3>1, <4>1, NotEmptyContents
      <4>4. diskBar' = Threats!Cut(memBar)
        BY <3>5, <4>1, <4>2, Disk DEF DiskOf, Threats!Cut, Threats!NoColumns
      <4> QED
        BY <1>1, <3>1, <4>2, <4>3, <4>4 DEF Threats!Stop
    <3> QED
      BY <3>2, <3>4, <3>5 DEF Readable
  <2> QED
    BY <1>4, <2>1, <2>2, <2>3 DEF Crash
<1>5. CASE Restart
  BY <1>1, <1>2, <1>5, Phases DEF Restart, Threats!Stop
<1>6. CASE GoesOn
  <2>1. diskBar' \in Threats!Disks
    <3>1. WellFormed(file') \/ file' = Garbage
      BY <1>6, StoreAssumption DEF GoesOn
    <3> QED
      BY <3>1, DiskInDisks, Disk
  <2> QED
    BY <1>1, <1>6, <2>1, Phases DEF GoesOn, Threats!Stop
<1> QED
  BY <1>3, <1>4, <1>5, <1>6

LEMMA SavingIsHidden ==
  ASSUME IInv, UnfinishedIsBroken, UnfinishedIsBroken',
         Truncate \/ SaveMetadata \/ SaveName
  PROVE  UNCHANGED Threats!vars \/ Threats!BeginSave
<1>1. pc' = "saving" /\ db' = db
  BY DEF Truncate, SaveMetadata, SaveName
<1>2. phaseBar' = "saving" /\ memBar' = ContentsOf(db)
      /\ diskBar' = Threats!Broken
  BY <1>1, PhasesAfter, Disk DEF UnfinishedIsBroken
<1>3. CASE Truncate
  <2>1. phaseBar = "open" /\ memBar = ContentsOf(db)
    BY <1>3, Phases DEF Truncate
  <2> QED
    BY <1>2, <2>1 DEF Threats!BeginSave
<1>4. CASE SaveMetadata \/ SaveName
  <2>1. phaseBar = "saving" /\ memBar = ContentsOf(db) /\ diskBar = Threats!Broken
    BY <1>4, Phases, Disk DEF SaveMetadata, SaveName, UnfinishedIsBroken
  <2> QED
    BY <1>2, <2>1 DEF Threats!vars
<1> QED
  BY <1>3, <1>4

\* The database and its file do what ThreatStore promises: what was saved is
\* what is loaded, but for the digests of a file cut short in them; a file cut
\* anywhere before, or saved with clashing names, is one that no load returns
\* from; and no call fails without one of the reasons ThreatStore!Fail names
\* (db.c:36-118).
THEOREM StoreRefines == Spec => ImplementsThreats
<1>1. Init => Threats!Init
  <2> SUFFICES ASSUME Init PROVE Threats!Init
    OBVIOUS
  <2>1. pc = "idle" /\ ~Readable(file)
    BY DEF Init, Readable, HasTree
  <2> QED
    BY <2>1, Phases, Disk DEF Threats!Init
<1>2. IInv => UnfinishedIsBroken
  BY SavingHasNoTree DEF UnfinishedIsBroken, Readable
<1>3. IInv /\ UnfinishedIsBroken /\ UnfinishedIsBroken' /\ [Next]_vars
        => [Threats!Next]_Threats!vars
  <2> SUFFICES ASSUME IInv, UnfinishedIsBroken, UnfinishedIsBroken', [Next]_vars
               PROVE  Threats!Next \/ UNCHANGED Threats!vars
    OBVIOUS
  <2>1. ASSUME NEW capacity \in Capacities, Create(capacity) PROVE Threats!Next
    BY <2>1, CreateIsCreate DEF Threats!Next
  <2>2. ASSUME NEW name \in Strings, AddName(name) PROVE Threats!Next
    BY <2>2, AddNameIsAddName DEF Threats!Next
  <2>3. ASSUME NEW name \in Strings, CheckNameFails(name) PROVE Threats!Next
    <3>1. /\ pc = "ready" /\ pc' = "lost" /\ file' = file
          /\ db.modulo = 0 \/ db.name_set.wild # {}
      BY <2>3 DEF CheckNameFails, CheckGetsLost
    <3> QED
      BY <3>1, StopsIsFail DEF Threats!Next
  <2>4. ASSUME NEW hash \in Buffers, AddHash(hash) PROVE Threats!Next
    <3>1. pad_hash_digest(hash) \in Digests
      BY DEF Digests
    <3>2. Threats!AddDigest(pad_hash_digest(hash))
      BY <2>4, AddHashIsAddDigest
    <3> QED
      BY <3>1, <3>2 DEF Threats!Next
  <2>5. ASSUME NEW first \in Buffers, NEW second \in Buffers,
               AddHashes(<<first, second>>)
        PROVE  Threats!Next
    <3>1. pad_hash_digest(first) \in Digests /\ pad_hash_digest(second) \in Digests
      BY DEF Digests
    <3>2. Threats!AddTwoDigests(pad_hash_digest(first), pad_hash_digest(second))
      BY <2>5, AddHashesIsAddTwoDigests
    <3> QED
      BY <3>1, <3>2 DEF Threats!Next
  <2>6. CASE CheckHashFails
    BY <2>6, StopsIsFail DEF CheckHashFails, Threats!Next
  <2>7. ASSUME NEW value \in VersionArgs, SetVersion(value) PROVE Threats!Next
    BY <2>7, SetVersionIsSetVersion DEF Threats!Next
  <2>8. CASE IncrementVersion
    BY <2>8, IncrementIsIncrement DEF Threats!Next
  <2>9. CASE Free
    <3>1. CASE pc' = "idle"
      BY <2>9, <3>1, EndsAreStops DEF Threats!Next
    <3>2. CASE pc' = "lost" /\ db.name_set.wild # {}
      BY <2>9, <3>2, StopsIsFail DEF Free, Threats!Next
    <3> QED
      BY <2>9, <3>1, <3>2 DEF Free
  <2>10. CASE Crash \/ Restart \/ GoesOn
    <3>1. pc' = "idle"
      BY <2>10 DEF Crash, Restart, GoesOn
    <3> QED
      BY <2>10, <3>1, EndsAreStops DEF Threats!Next
  <2>11. CASE Truncate \/ SaveMetadata \/ SaveName
    BY <2>11, SavingIsHidden DEF Threats!Next
  <2>12. CASE SaveTree
    BY <2>12, SaveIsSave DEF Threats!Next
  <2>13. CASE ReadMetadata \/ ReadName
    BY <2>13, ReadingIsHidden DEF Threats!Next
  <2>14. CASE ReadTree
    BY <2>14, LoadIsLoad DEF Threats!Next
  <2>15. CASE UNCHANGED vars
    <3>1. pc' = pc /\ db' = db /\ file' = file
      BY <2>15 DEF vars
    <3>2. diskBar' = diskBar
      BY <3>1, Disk
    <3>3. phaseBar' = phaseBar /\ memBar' = memBar
      BY <3>1 DEF phaseBar, memBar
    <3> QED
      BY <3>2, <3>3 DEF Threats!vars
  <2> QED
    BY <2>1, <2>2, <2>3, <2>4, <2>5, <2>6, <2>7, <2>8, <2>9, <2>10, <2>11,
       <2>12, <2>13, <2>14, <2>15
       DEF Next
<1> QED
  BY <1>1, <1>2, <1>3, IInvHolds, PTL DEF Spec, ImplementsThreats, Threats!Spec

=============================================================================
