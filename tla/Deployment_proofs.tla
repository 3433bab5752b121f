-------------------------- MODULE Deployment_proofs --------------------------
(***************************************************************************)
(* Proofs about Dbgen and Deployment, for every hash function, every size  *)
(* of a digest, any number of invocations of dbgen and starts of the       *)
(* daemon, and whatever a new node or the memory that is not read from a   *)
(* cut file holds: what was acknowledged is kept and nothing is made up.   *)
(*                                                                         *)
(* The steps on the database are those of DatabaseStore, whose lemmas are  *)
(* taken over.  The invariant relates what was acknowledged and what was   *)
(* asked for to the file, to the memory, and the two to each other where   *)
(* one has just been made from the other.                                  *)
(***************************************************************************)
EXTENDS Deployment, DatabaseLemmas

StoreProofs == INSTANCE DatabaseStore_proofs WITH VersionArgs <- {}

-----------------------------------------------------------------------------
(***************************************************************************)
(* The invariant                                                           *)
(***************************************************************************)

NamesIn(names) == { names[k] : k \in DOMAIN names }

NamesOf(aFile) == { aFile[k].name : k \in NameRecords(aFile) }

CellsOf(aFile) == aFile[Len(aFile)].cells

\* What a tree that is read from all the cells accepts.
AcceptedIn(cells, i) ==
  { j \in Bytes : cells[i] = j \/ cells[FlagCell(i, j)] # 0 }

\* The nodes of a tree accept the digest.
Accepts(tree, hash) ==
  /\ ~IsEmpty(tree)
  /\ \A i \in Positions : pad_hash_digest(hash)[i] \in Accepted(tree, i)

AskedBytes(i) == { pad_hash_digest(hash)[i] : hash \in asked.digests }

Requests == [names : SUBSET Strings, digests : SUBSET Buffers]

\* Where main is, what is there before the file exists, and what a file is
\* that somebody wrote to its end.
InBlocks ==
  /\ block \in DOMAIN After \cup {"open", "save", "exit", "valord"}
  /\ block = "open" <=> pc = "idle"
  /\ block = "valord" => pc \in {"reading", "ready", "lost", "aborted"}
  /\ pc = "reading" => block \in {"check_name", "valord"}
  /\ pc = "saving" => block = "exit" /\ dirty
  /\ pc \in {"idle", "reading"} => pending = Nothing
  /\ ~exists => pc = "idle" /\ file = <<>> /\ acked = Nothing
  /\ exists /\ ~dirty => Complete(file)
  /\ pending \in Requests /\ asked \in Requests /\ acked \in Requests

FileKeeps ==
  /\ HasTree(file) => acked.names \subseteq NamesOf(file)
  /\ Complete(file) =>
       \A hash \in acked.digests : \A i \in Positions :
         pad_hash_digest(hash)[i] \in AcceptedIn(CellsOf(file), i)

\* An acknowledged name is found, as it is the first with its code.  A pending
\* one need not be: once it is saved no load comes through.
MemoryKeeps ==
  Holds =>
    /\ \A name \in acked.names : IsFirst(db.names.base, name)
    /\ pending.names \subseteq NamesIn(db.names.base)
    /\ \A hash \in acked.digests \cup pending.digests :
         Accepts(db.hash_tree, hash)

\* A save that came to its end has written what there was.
Written ==
  pc = "ready" /\ block = "exit" =>
    /\ Complete(file)
    /\ NamesOf(file) = NamesIn(db.names.base)
    /\ \A i \in Positions :
         AcceptedIn(CellsOf(file), i) = Accepted(db.hash_tree, i)

NamesAsked ==
  "names" \in sound =>
    NamesOf(file) \subseteq asked.names /\ NamesIn(db.names.base) \subseteq asked.names

DigestsAsked ==
  "digests" \in sound =>
    \A i \in Positions :
      /\ Complete(file) => AcceptedIn(CellsOf(file), i) \subseteq AskedBytes(i)
      /\ ~IsEmpty(db.hash_tree) => Accepted(db.hash_tree, i) \subseteq AskedBytes(i)

History == FileKeeps /\ MemoryKeeps /\ Written /\ NamesAsked /\ DigestsAsked

IInv == StoreProofs!IInv /\ InBlocks /\ History

-----------------------------------------------------------------------------
(***************************************************************************)
(* What trees accept                                                       *)
(***************************************************************************)

\* A digest that is added is accepted, beside what was before.
LEMMA AddHashAccepted ==
  ASSUME NEW aDb, Sound(aDb), NEW hash \in Buffers
  PROVE  LET after == database_add_hash(aDb, hash)
             tree == aDb.hash_tree
         IN
         /\ after.names = aDb.names /\ ~IsEmpty(after.hash_tree)
         /\ \A i \in Positions :
              Accepted(after.hash_tree, i) =
                (IF IsEmpty(tree) THEN {} ELSE Accepted(tree, i))
                  \cup {pad_hash_digest(hash)[i]}
<1> DEFINE after == database_add_hash(aDb, hash)
           tree == aDb.hash_tree
           digest == pad_hash_digest(hash)
<1>1. /\ after.names = aDb.names /\ ~IsEmpty(after.hash_tree)
      /\ \A i \in Positions :
           {after.hash_tree[i].data} \cup after.hash_tree[i].neighbors =
             IF IsEmpty(tree) THEN {digest[i]}
             ELSE ({tree[i].data} \cup tree[i].neighbors) \cup {digest[i]}
  BY AddHashSound
<1>2. \A i \in Positions : digest[i] \in Bytes
  BY PadBytes
<1> HIDE DEF after, tree, digest
<1>3. ASSUME NEW i \in Positions
      PROVE  Accepted(after.hash_tree, i) =
               (IF IsEmpty(tree) THEN {} ELSE Accepted(tree, i)) \cup {digest[i]}
  BY <1>1, <1>2 DEF Accepted
<1> QED
  BY <1>1, <1>3 DEF after, tree, digest

LEMMA AcceptsMore ==
  ASSUME NEW t, NEW u, NEW hash, Accepts(t, hash), ~IsEmpty(u),
         \A i \in Positions : Accepted(t, i) \subseteq Accepted(u, i)
  PROVE  Accepts(u, hash)
  BY DEF Accepts

\* The cells of a tree say what it accepts.
LEMMA AcceptedByCells ==
  ASSUME NEW tree \in SavedTrees, NEW i \in Positions
  PROVE  AcceptedIn(serialize_ed_tree(tree), i) = Accepted(tree, i)
<1> DEFINE cells == serialize_ed_tree(tree)
<1>1. i \in Kept /\ i < Depth
  BY DataKept, EdTreeAssumption DEF Positions
<1>2. cells[i] = tree[i].data
  BY <1>1 DEF serialize_ed_tree
<1>3. ASSUME NEW j \in Bytes
      PROVE  cells[FlagCell(i, j)] # 0 <=> j \in tree[i].neighbors
  <2>1. /\ FlagCell(i, j) \in Kept /\ ~(FlagCell(i, j) < Depth)
        /\ (FlagCell(i, j) - Depth) \div CharRange = i
        /\ (FlagCell(i, j) - Depth) % CharRange = j
    BY FlagKept
  <2>2. cells[FlagCell(i, j)] = IF j \in tree[i].neighbors THEN 1 ELSE 0
    BY <2>1 DEF serialize_ed_tree
  <2> QED
    BY <2>2
<1> HIDE DEF cells
<1>4. AcceptedIn(cells, i) = Accepted(tree, i)
  BY <1>2, <1>3 DEF AcceptedIn, Accepted
<1> QED
  BY <1>4 DEF cells

\* What is read from all the cells does not depend on the memory around them.
LEMMA AcceptedAfterLoad ==
  ASSUME NEW cells, DOMAIN cells = Kept, NEW junk, NEW i \in Positions
  PROVE  Accepted(deserialize_ed_tree(cells, junk), i) = AcceptedIn(cells, i)
<1> DEFINE tree == deserialize_ed_tree(cells, junk)
           cell(c) == IF c \in DOMAIN cells THEN cells[c] ELSE junk[c]
<1>1. tree[i] = [data |-> cell(i),
                 neighbors |-> { j \in Chars : cell(FlagCell(i, j)) # 0 }]
  BY DEF deserialize_ed_tree
<1>2. i \in Kept
  BY DataKept
<1>3. tree[i].data = cells[i]
  BY <1>1, <1>2
<1>4. ASSUME NEW j \in Bytes
      PROVE  j \in tree[i].neighbors <=> cells[FlagCell(i, j)] # 0
  <2>1. FlagCell(i, j) \in Kept /\ j \in Chars
    BY FlagKept, PadBytes
  <2> QED
    BY <1>1, <2>1
<1> HIDE DEF tree
<1>5. Accepted(tree, i) = AcceptedIn(cells, i)
  BY <1>3, <1>4 DEF Accepted, AcceptedIn
<1> QED
  BY <1>5 DEF tree

-----------------------------------------------------------------------------
(***************************************************************************)
(* The proofs about DatabaseStore, taken over                              *)
(*                                                                         *)
(* Deployment has the calls by way of an instance of DatabaseStore, the    *)
(* proofs by way of an instance of DatabaseStore_proofs, and the values by *)
(* extension.  They are the same.                                          *)
(***************************************************************************)
LEMMA CapacitiesAreNat == Capacities \subseteq Nat
<1>1. \A arg \in Nat : arg % CapacityRange \in Nat
  BY DbgenAssumption
<1> QED
  BY <1>1, DbgenAssumption DEF Capacities, Capacity

LEMMA SameSound ==
  ASSUME NEW aDb
  PROVE  StoreProofs!Sound(aDb) <=> Sound(aDb)
  BY DEF Cardinality, Sound, Databases, Versions, StringSets, Arrays, Trees,
    Nodes, Chars, Positions, InBounds, InPlace, WalksFollowNames, AddStops,
    Chain, Bucket, stringset_check, IsFirst, FirstNames, CodesOfNames,
    StoreProofs!Cardinality, StoreProofs!Sound, StoreProofs!Databases,
    StoreProofs!Versions, StoreProofs!StringSets, StoreProofs!Arrays,
    StoreProofs!Trees, StoreProofs!Nodes, StoreProofs!Chars,
    StoreProofs!Positions, StoreProofs!InBounds, StoreProofs!InPlace,
    StoreProofs!WalksFollowNames, StoreProofs!AddStops, StoreProofs!Chain,
    StoreProofs!Bucket, StoreProofs!stringset_check, StoreProofs!IsFirst,
    StoreProofs!FirstNames, StoreProofs!CodesOfNames

LEMMA SameWellFormed ==
  ASSUME NEW aFile
  PROVE  /\ StoreProofs!WellFormed(aFile) <=> WellFormed(aFile)
         /\ StoreProofs!HasTree(aFile) <=> HasTree(aFile)
         /\ StoreProofs!Complete(aFile) <=> Complete(aFile)
         /\ StoreProofs!FileNames(aFile) = FileNames(aFile)
         /\ StoreProofs!NamesClash(aFile) <=> NamesClash(aFile)
  BY DEF Cardinality, WellFormed, MetadataRecords, WrittenNames, WrittenTrees,
    NameRecord, CutTreeRecord, serialize_ed_tree, Nodes, Chars, Positions,
    Bytes, Kept, Cells, Missing, Versions, HasTree, Complete, CodesOfNames,
    FileNames, NamesClash, NameRecords, StoreProofs!Cardinality,
    StoreProofs!WellFormed, StoreProofs!MetadataRecords,
    StoreProofs!WrittenNames, StoreProofs!WrittenTrees,
    StoreProofs!NameRecord, StoreProofs!CutTreeRecord,
    StoreProofs!serialize_ed_tree, StoreProofs!Nodes, StoreProofs!Chars,
    StoreProofs!Positions, StoreProofs!Bytes, StoreProofs!Kept,
    StoreProofs!Cells, StoreProofs!Missing, StoreProofs!Versions,
    StoreProofs!HasTree, StoreProofs!Complete, StoreProofs!CodesOfNames,
    StoreProofs!FileNames, StoreProofs!NamesClash, StoreProofs!NameRecords

LEMMA SameGarbage == StoreProofs!Garbage = Store!Garbage
  BY DEF StoreProofs!Garbage, Store!Garbage

LEMMA StraysFit ==
  \A stray \in StrayFiles :
    StoreProofs!WellFormed(stray) \/ stray = StoreProofs!Garbage
  BY StrayAssumption, SameWellFormed, SameGarbage

LEMMA SameCalls ==
  /\ Store!Init <=> StoreProofs!Init
  /\ \A capacity : Store!Create(capacity) <=> StoreProofs!Create(capacity)
  /\ \A name : Store!AddName(name) <=> StoreProofs!AddName(name)
  /\ \A name : Store!CheckNameFails(name) <=> StoreProofs!CheckNameFails(name)
  /\ \A hash : Store!AddHash(hash) <=> StoreProofs!AddHash(hash)
  /\ Store!CheckHashFails <=> StoreProofs!CheckHashFails
<1>1. /\ Store!Init <=> StoreProofs!Init
      /\ \A capacity : Store!Create(capacity) <=> StoreProofs!Create(capacity)
  BY DEF Store!Create, Store!Init, Store!NoDatabase, Store!create_database,
    Store!create_stringset, Store!array_create, Store!create_ed_tree,
    StoreProofs!Create, StoreProofs!Init, StoreProofs!NoDatabase,
    StoreProofs!create_database, StoreProofs!create_stringset,
    StoreProofs!array_create, StoreProofs!create_ed_tree
<1>2. \A name : Store!AddName(name) <=> StoreProofs!AddName(name)
  BY DEF Store!AddName, Store!AddsName, Store!AddGetsLost,
    Store!database_add_name, Store!stringset_add, Store!array_add,
    Store!AddStops, Store!Chain, Store!Bucket, Store!WildAfter,
    Store!ExtendsFor, StoreProofs!AddName, StoreProofs!AddsName,
    StoreProofs!AddGetsLost, StoreProofs!database_add_name,
    StoreProofs!stringset_add, StoreProofs!array_add, StoreProofs!AddStops,
    StoreProofs!Chain, StoreProofs!Bucket, StoreProofs!WildAfter,
    StoreProofs!ExtendsFor
<1>3. \A name : Store!CheckNameFails(name) <=> StoreProofs!CheckNameFails(name)
  BY DEF Store!CheckNameFails, Store!CheckGetsLost, Store!stringset_check,
    Store!Chain, Store!Bucket, StoreProofs!CheckNameFails,
    StoreProofs!CheckGetsLost, StoreProofs!stringset_check, StoreProofs!Chain,
    StoreProofs!Bucket
<1>4. /\ \A hash : Store!AddHash(hash) <=> StoreProofs!AddHash(hash)
      /\ Store!CheckHashFails <=> StoreProofs!CheckHashFails
  BY DEF Store!AddHash, Store!CheckHashFails, Store!database_add_hash,
    Store!pad_hash_digest, Store!edt_insert_string, Store!IsEmpty,
    Store!Positions, StoreProofs!AddHash, StoreProofs!CheckHashFails,
    StoreProofs!database_add_hash, StoreProofs!pad_hash_digest,
    StoreProofs!edt_insert_string, StoreProofs!IsEmpty, StoreProofs!Positions
<1> QED
  BY <1>1, <1>2, <1>3, <1>4

LEMMA SameSaves ==
  /\ Store!Truncate <=> StoreProofs!Truncate
  /\ Store!SaveMetadata <=> StoreProofs!SaveMetadata
  /\ Store!SaveName <=> StoreProofs!SaveName
  /\ Store!LeavesPrefix <=> StoreProofs!LeavesPrefix
  /\ Store!SaveTree <=> StoreProofs!SaveTree
<1>1. /\ Store!Truncate <=> StoreProofs!Truncate
      /\ Store!SaveMetadata <=> StoreProofs!SaveMetadata
      /\ Store!SaveName <=> StoreProofs!SaveName
  BY DEF Store!Truncate, Store!SaveMetadata, Store!Metadata, Store!SaveName,
    Store!NameRecord, StoreProofs!Truncate, StoreProofs!SaveMetadata,
    StoreProofs!Metadata, StoreProofs!SaveName, StoreProofs!NameRecord
<1>2. /\ Store!LeavesPrefix <=> StoreProofs!LeavesPrefix
      /\ \A tree : Store!TreeRecord(tree) = StoreProofs!TreeRecord(tree)
  BY DEF Store!LeavesPrefix, Store!TreeRecord, Store!CutTreeRecord,
    Store!IsEmpty, Store!serialize_ed_tree, Store!Kept, Store!Cells,
    Store!Missing, StoreProofs!LeavesPrefix, StoreProofs!TreeRecord,
    StoreProofs!CutTreeRecord, StoreProofs!IsEmpty,
    StoreProofs!serialize_ed_tree, StoreProofs!Kept, StoreProofs!Cells,
    StoreProofs!Missing
<1>3. Store!SaveTree <=> StoreProofs!SaveTree
  BY <1>2 DEF Store!SaveTree, Store!IsEmpty, StoreProofs!SaveTree,
    StoreProofs!IsEmpty
<1> QED
  BY <1>1, <1>2, <1>3

LEMMA SameLoads ==
  /\ Store!ReadMetadata <=> StoreProofs!ReadMetadata
  /\ Store!ReadName <=> StoreProofs!ReadName
  /\ Store!ReadTree <=> StoreProofs!ReadTree
<1>1. Store!ReadMetadata <=> StoreProofs!ReadMetadata
  BY DEF Store!ReadMetadata, Store!RecordAt, Store!FromMetadata,
    Store!create_database, Store!create_stringset, Store!array_create,
    Store!create_ed_tree, StoreProofs!ReadMetadata, StoreProofs!RecordAt,
    StoreProofs!FromMetadata, StoreProofs!create_database,
    StoreProofs!create_stringset, StoreProofs!array_create,
    StoreProofs!create_ed_tree
<1>2. Store!ReadName <=> StoreProofs!ReadName
  BY DEF Store!ReadName, Store!RecordAt, Store!AddsName, Store!AddGetsLost,
    Store!database_add_name, Store!stringset_add, Store!array_add,
    Store!AddStops, Store!Chain, Store!Bucket, Store!WildAfter,
    Store!ExtendsFor, StoreProofs!ReadName, StoreProofs!RecordAt,
    StoreProofs!AddsName, StoreProofs!AddGetsLost,
    StoreProofs!database_add_name, StoreProofs!stringset_add,
    StoreProofs!array_add, StoreProofs!AddStops, StoreProofs!Chain,
    StoreProofs!Bucket, StoreProofs!WildAfter, StoreProofs!ExtendsFor
<1>3. Store!ReadTree <=> StoreProofs!ReadTree
  BY DEF Store!ReadTree, Store!RecordAt, Store!Junk,
    Store!deserialize_ed_tree, Store!Cells, Store!Positions, Store!FlagCell,
    Store!Chars, StoreProofs!ReadTree, StoreProofs!RecordAt, StoreProofs!Junk,
    StoreProofs!deserialize_ed_tree, StoreProofs!Cells, StoreProofs!Positions,
    StoreProofs!FlagCell, StoreProofs!Chars
<1> QED
  BY <1>1, <1>2, <1>3

LEMMA SameEnds ==
  /\ Store!Crash <=> StoreProofs!Crash
  /\ Store!Restart <=> StoreProofs!Restart
  /\ Store!GoesOn <=> StoreProofs!GoesOn
  BY SameSaves DEF Store!Crash, Store!Restart, Store!GoesOn, Store!NoDatabase,
    Store!create_database, Store!create_stringset, Store!array_create,
    Store!create_ed_tree, StoreProofs!Crash, StoreProofs!Restart,
    StoreProofs!GoesOn, StoreProofs!NoDatabase, StoreProofs!create_database,
    StoreProofs!create_stringset, StoreProofs!array_create,
    StoreProofs!create_ed_tree

\* A load has the capacity and the first names of the file.
ReadsFrom(aDb, n, aFile) ==
  /\ WellFormed(aFile) /\ aFile # <<>>
  /\ n + Len(aDb.names.base) = aFile[1].size
  /\ \A k \in 1 .. Len(aDb.names.base) :
       k + 1 \in DOMAIN aFile /\ aFile[k + 1] = NameRecord(aDb.names.base[k])

\* What the invariant of DatabaseStore says of dbgen and the daemon.
StoreSays ==
  /\ pc \in {"idle", "ready", "saving", "reading",
             "aborted", "save_aborted", "lost"}
  /\ todo \in Nat
  /\ Sound(db)
  /\ WellFormed(file) \/ file = Store!Garbage
  /\ pc = "saving" =>
       /\ WellFormed(file)
       /\ file # <<>> => Begun(file, db, todo)
  /\ pc = "reading" => ReadsFrom(db, todo, file) /\ IsEmpty(db.hash_tree)

LEMMA StoreFacts == StoreProofs!IInv => StoreSays
<1> SUFFICES ASSUME StoreProofs!IInv PROVE StoreSays
  OBVIOUS
<1>1. /\ pc \in {"idle", "ready", "saving", "reading",
                 "aborted", "save_aborted", "lost"}
      /\ todo \in Nat /\ StoreProofs!Sound(db)
      /\ StoreProofs!WellFormed(file) \/ file = StoreProofs!Garbage
      /\ pc = "saving" => StoreProofs!SavesInOrder
      /\ pc = "reading" => StoreProofs!ReadsInOrder
  BY DEF StoreProofs!IInv, StoreProofs!FileOK
<1>2. Sound(db) /\ (WellFormed(file) \/ file = Store!Garbage)
  BY <1>1, SameSound, SameWellFormed, SameGarbage
<1>3. ASSUME pc = "saving"
      PROVE  WellFormed(file) /\ (file # <<>> => Begun(file, db, todo))
  <2>1. /\ StoreProofs!WellFormed(file)
        /\ file # <<>> => StoreProofs!Begun(file, db, todo)
    BY <1>1, <1>3 DEF StoreProofs!SavesInOrder
  <2>2. StoreProofs!Begun(file, db, todo) <=> Begun(file, db, todo)
    BY DEF Begun, Metadata, NameRecord, StoreProofs!Begun,
      StoreProofs!Metadata, StoreProofs!NameRecord
  <2> QED
    BY <2>1, <2>2, SameWellFormed
<1>4. ASSUME pc = "reading"
      PROVE  ReadsFrom(db, todo, file) /\ IsEmpty(db.hash_tree)
  <2>1. StoreProofs!ReadsInOrder
    BY <1>1, <1>4
  <2>2. ReadsFrom(db, todo, file)
    BY <2>1, SameWellFormed
    DEF StoreProofs!ReadsInOrder, StoreProofs!NameRecord, NameRecord, ReadsFrom
  <2>3. db.hash_tree = StoreProofs!create_ed_tree
    BY <2>1 DEF StoreProofs!ReadsInOrder
  <2> QED
    BY <2>2, <2>3 DEF StoreProofs!create_ed_tree, IsEmpty
<1> QED
  BY <1>1, <1>2, <1>3, <1>4 DEF StoreSays

LEMMA StoreFactsNext == StoreProofs!IInv' => StoreSays'
  BY StoreFacts, PTL

-----------------------------------------------------------------------------
(***************************************************************************)
(* The steps keep the invariant of DatabaseStore                           *)
(***************************************************************************)

StoreCalls ==
  \/ \E capacity \in Capacities : Store!Create(capacity)
  \/ \E name \in Strings : Store!AddName(name) \/ Store!CheckNameFails(name)
  \/ \E hash \in Buffers : Store!AddHash(hash)
  \/ Store!CheckHashFails

StoreFiles ==
  \/ Store!Truncate \/ Store!SaveMetadata \/ Store!SaveName \/ Store!SaveTree
  \/ Store!ReadMetadata \/ Store!ReadName \/ Store!ReadTree
  \/ Store!Crash \/ Store!Restart \/ Store!GoesOn

LEMMA CallsKeepStore ==
  ASSUME StoreProofs!IInv, StoreCalls
  PROVE  StoreProofs!IInv'
<1>1. StoreProofs!Buffers = Buffers
  BY DEF StoreProofs!Buffers, Buffers, StoreProofs!Positions, Positions,
    StoreProofs!Bytes, Bytes
<1>2. \/ \E capacity \in Capacities : StoreProofs!Create(capacity)
      \/ \E name \in Strings :
           StoreProofs!AddName(name) \/ StoreProofs!CheckNameFails(name)
      \/ \E hash \in StoreProofs!Buffers : StoreProofs!AddHash(hash)
      \/ StoreProofs!CheckHashFails
  BY <1>1, SameCalls DEF StoreCalls
<1> QED
  BY <1>2, StoreProofs!CallsKeepIInv, StringSetAssumption, EdTreeAssumption,
    VersionRangeAssumption, CapacitiesAreNat, StraysFit, DbgenAssumption
  DEF StoreProofs!Missing, Missing

LEMMA FilesKeepStore ==
  ASSUME StoreProofs!IInv, StoreFiles
  PROVE  StoreProofs!IInv'
<1>1. CASE \/ StoreProofs!Truncate \/ StoreProofs!SaveMetadata
           \/ StoreProofs!SaveName \/ StoreProofs!SaveTree
  BY <1>1, StoreProofs!SavesKeepIInv, StringSetAssumption, EdTreeAssumption,
    VersionRangeAssumption, CapacitiesAreNat, StraysFit, DbgenAssumption
  DEF StoreProofs!Missing, Missing
<1>2. CASE \/ StoreProofs!ReadMetadata \/ StoreProofs!ReadName
           \/ StoreProofs!ReadTree
  BY <1>2, StoreProofs!LoadsKeepIInv, StringSetAssumption, EdTreeAssumption,
    VersionRangeAssumption, CapacitiesAreNat, StraysFit, DbgenAssumption
  DEF StoreProofs!Missing, Missing
<1>3. CASE StoreProofs!Crash \/ StoreProofs!Restart \/ StoreProofs!GoesOn
  BY <1>3, StoreProofs!EndsKeepIInv, StringSetAssumption, EdTreeAssumption,
    VersionRangeAssumption, CapacitiesAreNat, StraysFit, DbgenAssumption
  DEF StoreProofs!Missing, Missing
<1> QED
  BY <1>1, <1>2, <1>3, SameSaves, SameLoads, SameEnds DEF StoreFiles

LEMMA InitStore == Store!Init => StoreProofs!IInv
  BY SameCalls, StoreProofs!InitIInv, StringSetAssumption, EdTreeAssumption,
    VersionRangeAssumption, CapacitiesAreNat, StraysFit, DbgenAssumption
  DEF StoreProofs!Missing, Missing

\* The steps of the daemon that are not those of a dbgen as well.
DaemonSteps == Boot \/ \E name \in Strings : DaemonChecksName(name)

LEMMA NextIsNext == DeploymentNext => Next \/ DaemonSteps
  BY DEF DeploymentNext, DbgenSteps, DaemonReads, DaemonEnds, DaemonSteps, Next

LEMMA NextKeepsStore ==
  ASSUME StoreProofs!IInv, Next \/ DaemonSteps
  PROVE  StoreProofs!IInv'
<1>1. CASE UNCHANGED store
  BY <1>1 DEF store, StoreProofs!IInv, StoreProofs!FileOK,
    StoreProofs!SavesInOrder, StoreProofs!ReadsInOrder
<1>2. CASE StoreCalls
  BY <1>2, CallsKeepStore
<1>3. CASE StoreFiles
  BY <1>3, FilesKeepStore
<1>4. ASSUME NEW arg \in CapacityArgs, OpenNew(arg)
      PROVE  UNCHANGED store \/ StoreCalls
  <2>1. CASE arg < 0
    BY <1>4, <2>1 DEF OpenNew
  <2>2. CASE ~(arg < 0)
    <3>1. arg >= 0
      BY <2>2, DbgenAssumption
    <3>2. Capacity(arg) \in Capacities
      BY <3>1 DEF Capacities
    <3> QED
      BY <1>4, <2>2, <3>2 DEF OpenNew, StoreCalls
  <2> QED
    BY <2>1, <2>2
<1>5. ASSUME NEW fname \in Files, AddThreat(fname)
      PROVE  StoreCalls
  <2>1. Digest[fname] \in Buffers
    BY <1>5, DbgenAssumption DEF AddThreat
  <2> QED
    BY <1>5, <2>1 DEF AddThreat, StoreCalls
<1>6. ASSUME \/ \E name \in Strings : \/ CheckNameFails(name) \/ AddName(name)
                                      \/ DaemonChecksName(name)
             \/ CheckThreatFails
      PROVE  StoreCalls
  BY <1>6 DEF CheckNameFails, AddName, DaemonChecksName, CheckThreatFails,
    StoreCalls
<1>7. ASSUME \/ OpenExisting \/ Boot \/ ReadsName \/ ReadsTree
             \/ Truncate \/ Saves \/ SaveTree
             \/ Exit \/ Dies \/ Crash \/ Restart \/ GoesOn
      PROVE  StoreFiles
  BY <1>7 DEF OpenExisting, Boot, ReadsName, ReadsTree, Truncate, Saves,
    SaveTree, Exit, Dies, Crash, Restart, GoesOn, StoreFiles
<1>8. ASSUME Passes PROVE UNCHANGED store
  BY <1>8 DEF Passes
<1> QED
  BY <1>1, <1>2, <1>3, <1>4, <1>5, <1>6, <1>7, <1>8 DEF Next, DaemonSteps

-----------------------------------------------------------------------------
(***************************************************************************)
(* The names of a file and of an array                                     *)
(***************************************************************************)

LEMMA NoNames ==
  /\ NamesIn(<<>>) = {} /\ NamesOf(<<>>) = {} /\ ~HasTree(<<>>)
  /\ NamesOf(Store!Garbage) = {} /\ ~HasTree(Store!Garbage)
<1>1. DOMAIN <<>> = {}
  OBVIOUS
<1>2. \A k \in DOMAIN Store!Garbage : Store!Garbage[k].kind = "garbage"
  BY DEF Store!Garbage
<1>3. NamesIn(<<>>) = {}
  BY <1>1 DEF NamesIn
<1>4. NamesOf(<<>>) = {} /\ ~HasTree(<<>>)
  BY <1>1 DEF NamesOf, NameRecords, HasTree
<1> QED
  BY <1>2, <1>3, <1>4 DEF NamesOf, NameRecords, HasTree

LEMMA CompleteHasTree ==
  ASSUME NEW aFile, Complete(aFile)
  PROVE  HasTree(aFile)
  BY DEF Complete, HasTree

LEMMA NamesInAppend ==
  ASSUME NEW names \in Seq(Strings), NEW name \in Strings
  PROVE  /\ NamesIn(Append(names, name)) = NamesIn(names) \cup {name}
         /\ \A other : IsFirst(names, other) => IsFirst(Append(names, name), other)
<1>1. /\ DOMAIN Append(names, name) = 1 .. Len(names) + 1
      /\ DOMAIN names = 1 .. Len(names) /\ Len(names) \in Nat
      /\ \A k \in 1 .. Len(names) : Append(names, name)[k] = names[k]
      /\ Append(names, name)[Len(names) + 1] = name
  OBVIOUS
<1>2. \A k \in 1 .. Len(names) + 1 : k \in 1 .. Len(names) \/ k = Len(names) + 1
  BY <1>1
<1>3. \A k \in 1 .. Len(names) : k \in 1 .. Len(names) + 1
  BY <1>1
<1>4. Len(names) + 1 \in 1 .. Len(names) + 1
  BY <1>1
<1> QED
  BY <1>1, <1>2, <1>3, <1>4, AppendName DEF NamesIn

\* Where no two names have one code, each name is the first with its code.
LEMMA AllAreFirst ==
  ASSUME NEW names \in Seq(Strings), CodesDiffer(names), NEW name \in NamesIn(names)
  PROVE  IsFirst(names, name)
<1>1. PICK k \in DOMAIN names : names[k] = name
  BY DEF NamesIn
<1>2. \A j \in 1 .. k - 1 : j \in DOMAIN names /\ j # k
  BY <1>1
<1>3. k \in FirstNames(names)
  BY <1>2 DEF FirstNames, CodesDiffer
<1> QED
  BY <1>1, <1>3 DEF IsFirst

\* In a file with a tree the names are between the first record and the last.
LEMMA TreeFileNames ==
  ASSUME NEW aFile, WellFormed(aFile), HasTree(aFile)
  PROVE  NamesOf(aFile) = NamesIn(FileNames(aFile))
<1>1. /\ Len(aFile) - 2 \in Nat /\ NameRecords(aFile) = 2 .. Len(aFile) - 1
  BY TreeFile
<1>2. \A k \in 2 .. Len(aFile) - 1 : k - 1 \in 1 .. Len(aFile) - 2
                                      /\ FileNames(aFile)[k - 1] = aFile[k].name
  BY <1>1 DEF FileNames
<1>3. \A k \in 1 .. Len(aFile) - 2 : k + 1 \in 2 .. Len(aFile) - 1
                                      /\ FileNames(aFile)[k] = aFile[k + 1].name
  BY <1>1 DEF FileNames
<1>4. DOMAIN FileNames(aFile) = 1 .. Len(aFile) - 2
  BY DEF FileNames
<1> QED
  <2> DEFINE names == FileNames(aFile)
             records == NameRecords(aFile)
  <2>1. \A k \in records : k - 1 \in DOMAIN names /\ names[k - 1] = aFile[k].name
    BY <1>1, <1>2, <1>4
  <2>2. \A k \in DOMAIN names : k + 1 \in records /\ names[k] = aFile[k + 1].name
    BY <1>1, <1>3, <1>4
  <2> HIDE DEF names, records
  <2>3. { aFile[k].name : k \in records } = { names[k] : k \in DOMAIN names }
    BY <2>1, <2>2
  <2> QED
    BY <2>3 DEF NamesOf, NamesIn, names, records

\* While a file is written its names are names of the database.
LEMMA BegunNames ==
  ASSUME NEW aDb, Len(aDb.names.base) \in Nat,
         DOMAIN aDb.names.base = 1 .. Len(aDb.names.base),
         NEW aFile, WellFormed(aFile), NEW n, Begun(aFile, aDb, n)
  PROVE  NamesOf(aFile) \subseteq NamesIn(aDb.names.base) /\ ~HasTree(aFile)
<1>1. DOMAIN aFile = 1 .. Len(aFile)
  BY RecordsInOrder
<1>2. ASSUME NEW k \in NameRecords(aFile)
      PROVE  aFile[k].name \in NamesIn(aDb.names.base)
  <2>1. k \in 1 .. n + 1 /\ n \in 0 .. Len(aDb.names.base)
    BY <1>1, <1>2 DEF NameRecords, Begun
  <2>2. k # 1
    BY <1>2, RecordsInOrder DEF NameRecords
  <2>3. k - 1 \in 1 .. n /\ k - 1 \in DOMAIN aDb.names.base
    BY <2>1, <2>2
  <2>4. aFile[(k - 1) + 1] = NameRecord(aDb.names.base[k - 1])
    BY <2>3 DEF Begun
  <2>5. aFile[k].name = aDb.names.base[k - 1]
    BY <2>1, <2>4, Kinds
  <2> QED
    BY <2>3, <2>5 DEF NamesIn
<1> QED
  BY <1>1, <1>2, BegunHasNoTree DEF NamesOf

LEMMA ReadNames ==
  ASSUME NEW aDb, NEW n, NEW aFile, ReadsFrom(aDb, n, aFile),
         DOMAIN aDb.names.base = 1 .. Len(aDb.names.base)
  PROVE  NamesIn(aDb.names.base) \subseteq NamesOf(aFile)
<1>1. ASSUME NEW k \in 1 .. Len(aDb.names.base)
      PROVE  aDb.names.base[k] \in NamesOf(aFile)
  <2>1. k + 1 \in DOMAIN aFile /\ aFile[k + 1] = NameRecord(aDb.names.base[k])
    BY DEF ReadsFrom
  <2>2. aFile[k + 1].name = aDb.names.base[k] /\ aFile[k + 1].kind = "name"
    BY <2>1, Kinds
  <2> QED
    BY <2>1, <2>2 DEF NamesOf, NameRecords
<1> QED
  BY <1>1 DEF NamesIn

-----------------------------------------------------------------------------
(***************************************************************************)
(* What the steps do to the names, the tree and the file                   *)
(***************************************************************************)

\* The database is a new one.
Blank(aDb) == aDb.names.base = <<>> /\ IsEmpty(aDb.hash_tree)

LEMMA NewIsBlank ==
  /\ \A capacity : Blank(Store!create_database(capacity))
  /\ \A metadata : Blank(Store!FromMetadata(metadata))
<1>1. /\ \A capacity : Store!create_database(capacity) = create_database(capacity)
      /\ \A metadata : Store!FromMetadata(metadata) = FromMetadata(metadata)
  BY DEF Store!FromMetadata, Store!create_database, Store!create_stringset,
    Store!array_create, Store!create_ed_tree, FromMetadata, create_database,
    create_stringset, array_create, create_ed_tree
<1>2. \A version, modulo, room : Blank(NewDatabase(version, modulo, room))
  BY DEF Blank, NewDatabase, array_create, create_ed_tree, IsEmpty
<1> QED
  BY <1>1, <1>2, BothMakeNew

LEMMA CreateSays ==
  ASSUME NEW capacity, Store!Create(capacity)
  PROVE  pc' = "ready" /\ file' = file /\ Blank(db')
  BY NewIsBlank DEF Store!Create

LEMMA AddNameSays ==
  ASSUME StoreProofs!IInv, NEW name \in Strings, Store!AddName(name)
  PROVE  /\ pc = "ready" /\ file' = file
         /\ \/ pc' \in {"aborted", "lost"} /\ db' = db
            \/ /\ pc' = "ready"
               /\ db'.names.base = Append(db.names.base, name)
               /\ db'.hash_tree = db.hash_tree
<1>1. StoreProofs!AddName(name)
  BY SameCalls
<1>2. pc = "ready" /\ file' = file /\ StoreProofs!AddsName(name)
  BY <1>1 DEF StoreProofs!AddName
<1>3. StoreProofs!Sound(db) /\ (db.name_set.wild # {} => "wild" \in FreshNext)
  BY DEF StoreProofs!IInv
<1>4. StoreProofs!NotAdded(name) \/ StoreProofs!Added(name)
  BY <1>2, <1>3, StoreProofs!AddsNameEffect, StringSetAssumption,
    EdTreeAssumption, VersionRangeAssumption, CapacitiesAreNat, StraysFit,
    DbgenAssumption
  DEF StoreProofs!Missing, Missing
<1> QED
  BY <1>2, <1>4 DEF StoreProofs!NotAdded, StoreProofs!Added

LEMMA AddHashSays ==
  ASSUME NEW hash, Store!AddHash(hash)
  PROVE  /\ pc = "ready" /\ pc' = "ready" /\ file' = file
         /\ db' = database_add_hash(db, hash)
<1>1. Store!database_add_hash(db, hash) = database_add_hash(db, hash)
  BY DEF Store!database_add_hash, Store!pad_hash_digest,
    Store!edt_insert_string, Store!IsEmpty, Store!Positions,
    database_add_hash, pad_hash_digest, edt_insert_string, IsEmpty, Positions
<1> QED
  BY <1>1 DEF Store!AddHash

LEMMA ReadMetadataSays ==
  ASSUME Store!ReadMetadata
  PROVE  /\ pc = "idle" /\ file' = file
         /\ \/ pc' = "reading" /\ Blank(db')
            \/ pc' = "lost" /\ db' = db
  BY NewIsBlank DEF Store!ReadMetadata

LEMMA ReadNameSays ==
  ASSUME StoreProofs!IInv, Store!ReadName
  PROVE  /\ pc = "reading" /\ file' = file
         /\ \/ pc' \in {"aborted", "lost"} /\ db' = db
            \/ /\ pc' = "reading" /\ NamesIn(db'.names.base) \subseteq NamesOf(file)
               /\ IsEmpty(db'.hash_tree)
<1>1. StoreProofs!ReadName /\ StoreSays
  BY SameLoads, StoreFacts
<1>2. pc = "reading" /\ file' = file
  BY <1>1 DEF StoreProofs!ReadName
<1>3. StoreProofs!IInv' /\ StoreSays'
  BY FilesKeepStore, StoreFactsNext DEF StoreFiles
<1>4. \/ pc' \in {"aborted", "lost"} /\ db' = db
      \/ pc' = "reading"
  BY <1>1 DEF StoreProofs!ReadName, StoreProofs!AddsName
<1>5. ASSUME pc' = "reading"
      PROVE  NamesIn(db'.names.base) \subseteq NamesOf(file) /\ IsEmpty(db'.hash_tree)
  <2>1. ReadsFrom(db', todo', file') /\ IsEmpty(db'.hash_tree) /\ Sound(db')
    BY <1>3, <1>5 DEF StoreSays
  <2>2. DOMAIN db'.names.base = 1 .. Len(db'.names.base)
    BY <2>1, SoundParts
  <2> QED
    BY <1>2, <2>1, <2>2, ReadNames
<1> QED
  BY <1>2, <1>4, <1>5

\* A load that finds the tree after the names the metadata counts has read all
\* names, and no two have one code.
LEMMA LoadedFile ==
  ASSUME NEW aDb, Sound(aDb), NEW aFile, ReadsFrom(aDb, 0, aFile),
         RecordAt(aFile, Len(aDb.names.base) + 2, "tree")
  PROVE  /\ HasTree(aFile) /\ CodesDiffer(aDb.names.base)
         /\ Len(aDb.names.base) + 2 = Len(aFile)
         /\ aDb.names.base = FileNames(aFile)
<1> DEFINE base == aDb.names.base
           n == Len(base)
<1>1. base \in Seq(Strings) /\ n \in Nat
  BY SoundParts
<1>2. WellFormed(aFile) /\ aFile[1].size = n
  BY <1>1 DEF ReadsFrom
<1>3. n + 2 \in DOMAIN aFile /\ aFile[n + 2].kind = "tree"
  BY DEF RecordAt
<1>4. n + 2 = Len(aFile) /\ HasTree(aFile)
  BY <1>2, <1>3, RecordsInOrder DEF HasTree
<1>5. /\ FileNames(aFile) \in Seq(Strings)
      /\ Len(FileNames(aFile)) = Len(aFile) - 2
      /\ \A k \in 1 .. Len(aFile) - 2 :
           aFile[k + 1] = NameRecord(FileNames(aFile)[k])
      /\ NamesClash(aFile) <=> ~CodesDiffer(FileNames(aFile))
      /\ NamesClash(aFile) <=> aFile[1].size # Len(aFile) - 2
  BY <1>2, <1>4, TreeFile
<1>6. \A k \in 1 .. n : aFile[k + 1] = NameRecord(base[k])
  BY DEF ReadsFrom
<1>7. Len(aFile) - 2 = n
  BY <1>1, <1>4
<1>8. base = FileNames(aFile)
  <2> HIDE DEF base, n
  <2>1. ASSUME NEW k \in 1 .. n PROVE base[k] = FileNames(aFile)[k]
    <3>1. NameRecord(base[k]) = NameRecord(FileNames(aFile)[k])
      BY <1>5, <1>6, <1>7
    <3> QED
      BY <3>1, Kinds, Zenon
  <2> QED
    BY <1>1, <1>5, <1>7, <2>1 DEF n
<1> QED
  BY <1>2, <1>4, <1>5, <1>7, <1>8

LEMMA ReadTreeSays ==
  ASSUME StoreSays, Store!ReadTree
  PROVE  /\ pc = "reading" /\ file' = file
         /\ \/ pc' = "lost" /\ db' = db
            \/ /\ pc' = "ready" /\ HasTree(file)
               /\ db'.names.base \in Seq(Strings) /\ CodesDiffer(db'.names.base)
               /\ NamesIn(db'.names.base) = NamesOf(file)
               /\ Complete(file) => ~IsEmpty(db'.hash_tree)
               /\ Complete(file) =>
                    \A i \in Positions :
                      Accepted(db'.hash_tree, i) = AcceptedIn(CellsOf(file), i)
<1> DEFINE k == Len(db.names.base) + 2
<1>1. pc = "reading" /\ file' = file /\ todo = 0
  BY DEF Store!ReadTree
<1>2. Sound(db) /\ ReadsFrom(db, 0, file)
  BY <1>1 DEF StoreSays
<1>3. WellFormed(file)
  BY <1>2 DEF ReadsFrom
<1>4. CASE ~RecordAt(file, k, "tree")
  BY <1>1, <1>4 DEF Store!ReadTree, Store!RecordAt, RecordAt
<1>5. CASE RecordAt(file, k, "tree")
  <2>1. PICK junk :
          /\ pc' = "ready"
          /\ db' = [db EXCEPT !.hash_tree =
                      Store!deserialize_ed_tree(file[k].cells, junk)]
    BY <1>5 DEF Store!ReadTree, Store!RecordAt, RecordAt
  <2>2. Store!deserialize_ed_tree(file[k].cells, junk)
          = deserialize_ed_tree(file[k].cells, junk)
    BY DEF Store!deserialize_ed_tree, Store!Positions, Store!FlagCell,
      Store!Chars, deserialize_ed_tree, Positions, FlagCell, Chars
  <2>3. db'.hash_tree = deserialize_ed_tree(file[k].cells, junk)
        /\ db'.names = db.names
    <3>1. DOMAIN db = {"version", "modulo", "name_set", "names", "hash_tree"}
      BY <1>2 DEF Sound, Databases
    <3> QED
      BY <2>1, <2>2, <3>1
  <2>4. /\ HasTree(file) /\ CodesDiffer(db.names.base)
        /\ k = Len(file) /\ db.names.base = FileNames(file)
    BY <1>2, <1>5, LoadedFile
  <2>5. NamesIn(db'.names.base) = NamesOf(file)
    BY <1>3, <2>3, <2>4, TreeFileNames
  <2>6. db'.names.base \in Seq(Strings)
    BY <1>2, <2>3, SoundParts
  <2>7. ~IsEmpty(db'.hash_tree)
    <3>1. DOMAIN db'.hash_tree = Positions
      BY <2>3 DEF deserialize_ed_tree
    <3>2. 0 \in Positions
      BY EdTreeAssumption DEF Positions
    <3> QED
      BY <3>1, <3>2 DEF IsEmpty
  <2>8. ASSUME Complete(file), NEW i \in Positions
        PROVE  Accepted(db'.hash_tree, i) = AcceptedIn(CellsOf(file), i)
    <3>1. DOMAIN file[k].cells = Kept
      BY <1>3, <2>4, <2>8, RecordsInOrder DEF Complete
    <3> QED
      BY <2>3, <2>4, <3>1, AcceptedAfterLoad DEF CellsOf
  <2> QED
    BY <1>1, <2>1, <2>3, <2>4, <2>5, <2>6, <2>7, <2>8
<1> QED
  BY <1>4, <1>5

\* What a save writes until it comes to the tree.
LEMMA SavingSays ==
  ASSUME StoreSays, pc = "saving"
  PROVE  NamesOf(file) \subseteq NamesIn(db.names.base) /\ ~HasTree(file)
<1>1. /\ Sound(db) /\ WellFormed(file)
      /\ file # <<>> => Begun(file, db, todo)
  BY DEF StoreSays
<1>2. Len(db.names.base) \in Nat /\ DOMAIN db.names.base = 1 .. Len(db.names.base)
  BY <1>1, SoundParts
<1>3. CASE file = <<>>
  BY <1>3, NoNames
<1>4. CASE file # <<>>
  BY <1>1, <1>2, <1>4, BegunNames
<1> QED
  BY <1>3, <1>4

LEMMA SavesSay ==
  ASSUME StoreProofs!IInv,
         Store!Truncate \/ Store!SaveMetadata \/ Store!SaveName
  PROVE  /\ pc' = "saving" /\ db' = db
         /\ NamesOf(file') \subseteq NamesIn(db'.names.base) /\ ~HasTree(file')
<1>1. StoreSays'
  BY FilesKeepStore, StoreFactsNext DEF StoreFiles
<1>2. pc' = "saving" /\ db' = db
  BY DEF Store!Truncate, Store!SaveMetadata, Store!SaveName
<1>3. (NamesOf(file) \subseteq NamesIn(db.names.base) /\ ~HasTree(file))'
  <2>1. (StoreSays /\ pc = "saving")'
    BY <1>1, <1>2
  <2> QED
    BY <2>1, SavingSays, PTL
<1> QED
  BY <1>2, <1>3

\* What a program that dies while it saves leaves.
Left ==
  /\ ~Complete(file')
  /\ NamesOf(file') \subseteq NamesIn(db.names.base)
  /\ HasTree(file') => NamesOf(file') = NamesIn(db.names.base)

LEMMA LeftSays ==
  ASSUME StoreProofs!IInv, pc = "saving", Store!LeavesPrefix
  PROVE  Left
<1>1. StoreSays /\ StoreProofs!LeavesPrefix
  BY StoreFacts, SameSaves
<1>2. /\ StoreProofs!WellFormed(file')
      /\ ~StoreProofs!HasTree(file') \/ StoreProofs!CutTree
  BY <1>1, StoreProofs!LeftPrefix, StringSetAssumption, EdTreeAssumption,
    VersionRangeAssumption, CapacitiesAreNat, StraysFit, DbgenAssumption
  DEF StoreProofs!Missing, Missing
<1>3. WellFormed(file')
  BY <1>2, SameWellFormed
<1>4. ASSUME HasTree(file')
      PROVE  ~Complete(file') /\ NamesOf(file') = NamesIn(db.names.base)
  <2>1. StoreProofs!CutTree
    BY <1>2, <1>4, SameWellFormed
  <2>2. ~StoreProofs!Complete(file')
        /\ StoreProofs!FileNames(file') = db.names.base
    BY <2>1 DEF StoreProofs!CutTree
  <2>3. ~Complete(file') /\ FileNames(file') = db.names.base
    BY <2>2, SameWellFormed
  <2> QED
    BY <1>3, <1>4, <2>3, TreeFileNames
<1>5. ASSUME ~HasTree(file')
      PROVE  ~Complete(file') /\ NamesOf(file') \subseteq NamesIn(db.names.base)
  <2>1. ~Complete(file')
    BY <1>5, CompleteHasTree
  <2>2. PICK k \in 0 .. Len(file) : file' = SubSeq(file, 1, k)
    <3>1. ASSUME NEW n \in Store!Kept,
                 file' = Append(file, Store!CutTreeRecord(db.hash_tree, n))
          PROVE  HasTree(file')
      <4>1. /\ Len(file) + 1 \in DOMAIN file'
            /\ file'[Len(file) + 1] = Store!CutTreeRecord(db.hash_tree, n)
        <5>1. WellFormed(file)
          BY <1>1 DEF StoreSays
        <5>2. file \in Seq(Records)
          BY <5>1 DEF WellFormed, Records
        <5> QED
          BY <3>1, <5>2
      <4> QED
        BY <4>1 DEF HasTree, Store!CutTreeRecord
    <3> QED
      BY <1>5, <3>1 DEF Store!LeavesPrefix
  <2>3. NamesOf(file') \subseteq NamesOf(file)
    <3>1. WellFormed(file)
      BY <1>1 DEF StoreSays
    <3>2. file \in Seq(Records) /\ DOMAIN file = 1 .. Len(file) /\ Len(file) \in Nat
      BY <3>1 DEF WellFormed, Records
    <3>3. /\ DOMAIN file' = 1 .. k
          /\ \A j \in 1 .. k : file'[j] = file[j] /\ j \in DOMAIN file
      BY <2>2, <3>2
    <3> QED
      BY <3>3 DEF NamesOf, NameRecords
  <2> QED
    BY <1>1, <2>1, <2>3, SavingSays
<1> QED
  BY <1>4, <1>5 DEF Left

LEMMA SaveTreeSays ==
  ASSUME StoreProofs!IInv, Store!SaveTree
  PROVE  /\ pc = "saving" /\ db' = db
         /\ \/ pc' = "save_aborted" /\ Left
            \/ /\ pc' = "ready" /\ Complete(file')
               /\ NamesOf(file') = NamesIn(db.names.base)
               /\ ~IsEmpty(db.hash_tree)
               /\ \A i \in Positions :
                    AcceptedIn(CellsOf(file'), i) = Accepted(db.hash_tree, i)
<1>1. pc = "saving" /\ file # <<>> /\ todo = Len(db.names.base) /\ db' = db
  BY DEF Store!SaveTree
<1>2. WellFormed(file) /\ Begun(file, db, Len(db.names.base)) /\ Sound(db)
  BY <1>1, StoreFacts DEF StoreSays
<1>3. CASE IsEmpty(db.hash_tree)
  <2>1. pc' = "save_aborted" /\ Store!LeavesPrefix
    BY <1>3 DEF Store!SaveTree, Store!IsEmpty, IsEmpty
  <2> QED
    BY <1>1, <2>1, LeftSays
<1>4. CASE ~IsEmpty(db.hash_tree)
  <2>1. pc' = "ready" /\ file' = Append(file, Store!TreeRecord(db.hash_tree))
    BY <1>4 DEF Store!SaveTree, Store!IsEmpty, IsEmpty
  <2>2. Store!TreeRecord(db.hash_tree) = TreeRecord(db.hash_tree)
    BY DEF Store!TreeRecord, Store!serialize_ed_tree, Store!Kept, Store!Cells,
      Store!Missing, TreeRecord, serialize_ed_tree, Kept, Cells, Missing
  <2>3. db.hash_tree \in SavedTrees
    BY <1>2, <1>4, SoundParts
  <2>4. TreeRecord(db.hash_tree) \in WrittenTrees
        /\ DOMAIN TreeRecord(db.hash_tree).cells = Kept
    BY <2>3, TreeRecords
  <2>5. /\ WellFormed(file') /\ HasTree(file')
        /\ FileNames(file') = db.names.base
        /\ file'[Len(file')] = TreeRecord(db.hash_tree)
        /\ Len(file') = Len(db.names.base) + 2
    BY <1>2, <2>1, <2>2, <2>4, WriteTree
  <2>6. Len(file') \in DOMAIN file'
    BY <1>2, <2>5, RecordsInOrder, SoundParts
  <2>7. CellsOf(file') = serialize_ed_tree(db.hash_tree)
    BY <2>5, Kinds DEF CellsOf
  <2>8. Complete(file')
    BY <2>4, <2>5, <2>6, Kinds DEF Complete
  <2>9. NamesOf(file') = NamesIn(db.names.base)
    BY <2>5, TreeFileNames
  <2> QED
    BY <1>1, <1>4, <2>1, <2>3, <2>7, <2>8, <2>9, AcceptedByCells
<1> QED
  BY <1>3, <1>4

LEMMA EndsSay ==
  ASSUME StoreProofs!IInv, Store!Crash \/ Store!Restart \/ Store!GoesOn
  PROVE  /\ pc # "idle" /\ pc' = "idle" /\ Blank(db')
         /\ Store!Crash \/ Store!Restart =>
              file' = file \/ (pc = "saving" /\ Left)
         /\ Store!Crash /\ pc = "ready" => file' = file
<1>1. Blank(Store!NoDatabase)
  BY NewIsBlank DEF Store!NoDatabase
<1>2. Store!Crash => IF pc = "saving" THEN Left ELSE file' = file
  BY LeftSays DEF Store!Crash
<1> QED
  BY <1>1, <1>2 DEF Store!Crash, Store!Restart, Store!GoesOn

-----------------------------------------------------------------------------
(***************************************************************************)
(* The blocks of main come in their order                                  *)
(***************************************************************************)

LEMMA BlocksInOrder ==
  /\ DOMAIN After = {"check_name", "add_name", "add_threat", "check_threat", "version"}
  /\ After["check_name"] = "add_name" /\ After["add_name"] = "add_threat"
  /\ After["add_threat"] = "check_threat" /\ After["check_threat"] = "version"
  /\ After["version"] = "save"
  BY DEF After

LEMMA MoreRequests ==
  /\ Nothing \in Requests
  /\ \A one, other \in Requests : Both(one, other) \in Requests
  /\ \A r \in Requests :
       /\ \A name \in Strings :
            LET more == [r EXCEPT !.names = @ \cup {name}] IN
            /\ more \in Requests
            /\ more.names = r.names \cup {name} /\ more.digests = r.digests
       /\ \A hash \in Buffers :
            LET more == [r EXCEPT !.digests = @ \cup {hash}] IN
            /\ more \in Requests
            /\ more.names = r.names /\ more.digests = r.digests \cup {hash}
       /\ LET less == [r EXCEPT !.digests = {}] IN
          /\ less \in Requests
          /\ less.names = r.names /\ less.digests = {}
  BY DEF Nothing, Both, Requests

LEMMA OpensKeepBlocks ==
  ASSUME StoreSays, InBlocks,
         OpenExisting \/ Boot \/ \E arg \in CapacityArgs : OpenNew(arg)
  PROVE  InBlocks'
<1> USE BlocksInOrder
<1>1. CASE OpenExisting \/ Boot
  <2>1. /\ pc' \in {"reading", "lost"} /\ file' = file /\ pc = "idle"
        /\ block' \in {"check_name", "valord"} /\ exists /\ exists' = exists
    BY <1>1, ReadMetadataSays DEF OpenExisting, Boot
  <2>2. dirty' = dirty /\ pending' = pending /\ asked' = asked /\ acked' = acked
    BY <1>1 DEF OpenExisting, Boot, history
  <2> QED
    BY <2>1, <2>2 DEF InBlocks
<1>2. ASSUME NEW arg \in CapacityArgs, OpenNew(arg)
      PROVE  InBlocks'
  <2>1. /\ block = "open" /\ pc = "idle" /\ exists' = TRUE /\ dirty' = TRUE
        /\ pending' = pending /\ asked' = asked /\ acked' = acked
    BY <1>2 DEF OpenNew
  <2>2. \/ pc' = pc /\ block' = block
        \/ pc' = "ready" /\ block' = "check_name"
    BY <1>2, CreateSays DEF OpenNew, store
  <2> QED
    BY <2>1, <2>2 DEF InBlocks
<1> QED
  BY <1>1, <1>2

LEMMA ReadsKeepBlocks ==
  ASSUME StoreProofs!IInv, InBlocks, ReadsName \/ ReadsTree
  PROVE  InBlocks'
<1> USE BlocksInOrder
<1>1. StoreSays
  BY StoreFacts
<1>2. CASE ReadsName
  <2>1. pc = "reading" /\ file' = file /\ pc' \in {"reading", "aborted", "lost"}
    BY <1>2, ReadNameSays DEF ReadsName
  <2>2. /\ block' = block /\ exists' = exists /\ dirty' = dirty
        /\ pending' = pending /\ asked' = asked /\ acked' = acked
    BY <1>2 DEF ReadsName, history
  <2> QED
    BY <2>1, <2>2 DEF InBlocks
<1>3. CASE ReadsTree
  <2>1. pc = "reading" /\ file' = file /\ pc' \in {"ready", "lost"}
    BY <1>1, <1>3, ReadTreeSays DEF ReadsTree
  <2>2. /\ block' = block /\ exists' = exists /\ dirty' = dirty
        /\ pending' = pending /\ asked' = asked
    BY <1>3 DEF ReadsTree
  <2>3. acked' = acked \/ acked' = [acked EXCEPT !.digests = {}]
    BY <1>3 DEF ReadsTree
  <2>4. acked' \in Requests
    BY <2>3, MoreRequests DEF InBlocks
  <2>5. exists
    BY <2>1 DEF InBlocks
  <2> QED
    BY <2>1, <2>2, <2>4, <2>5 DEF InBlocks
<1> QED
  BY <1>2, <1>3

LEMMA CallsKeepBlocks ==
  ASSUME StoreProofs!IInv, InBlocks,
         \/ Passes \/ CheckThreatFails
         \/ \E name \in Strings : \/ CheckNameFails(name) \/ AddName(name)
                                  \/ DaemonChecksName(name)
         \/ \E fname \in Files : AddThreat(fname)
  PROVE  InBlocks'
<1> USE BlocksInOrder
<1>1. CASE \/ Passes \/ CheckThreatFails
           \/ \E name \in Strings : CheckNameFails(name) \/ DaemonChecksName(name)
  <2>1. /\ pc = "ready" /\ pc' \in {"ready", "aborted", "lost"} /\ file' = file
        /\ exists' = exists /\ dirty' = dirty
        /\ pending' = pending /\ asked' = asked /\ acked' = acked
    BY <1>1 DEF Passes, CheckThreatFails, CheckNameFails, DaemonChecksName,
      Store!CheckHashFails, Store!CheckNameFails, store, history
  <2>2. \/ block' = block /\ pc' = "lost"
        \/ block' = block /\ block # "valord"
        \/ block' \in {"add_name", "add_threat", "check_threat", "version", "save"}
    BY <1>1 DEF Passes, CheckThreatFails, CheckNameFails, DaemonChecksName,
      Store!CheckNameFails
  <2> QED
    BY <2>1, <2>2 DEF InBlocks
<1>2. ASSUME NEW name \in Strings, AddName(name)
      PROVE  InBlocks'
  <2>1. /\ pc = "ready" /\ pc' \in {"ready", "aborted", "lost"} /\ file' = file
        /\ block' = "add_threat" /\ exists' = exists /\ dirty' = dirty
        /\ acked' = acked
    BY <1>2, AddNameSays DEF AddName
  <2>2. pending' \in Requests /\ asked' \in Requests
    BY <1>2, MoreRequests DEF AddName, InBlocks
  <2> QED
    BY <2>1, <2>2 DEF InBlocks
<1>3. ASSUME NEW fname \in Files, AddThreat(fname)
      PROVE  InBlocks'
  <2>1. /\ pc = "ready" /\ pc' = "ready" /\ file' = file
        /\ block' = "check_threat" /\ exists' = exists /\ dirty' = dirty
        /\ acked' = acked
    BY <1>3, AddHashSays DEF AddThreat
  <2>2. Digest[fname] \in Buffers
    BY <1>3, DbgenAssumption DEF AddThreat
  <2>3. pending' \in Requests /\ asked' \in Requests
    BY <1>3, <2>2, MoreRequests DEF AddThreat, InBlocks
  <2> QED
    BY <2>1, <2>3 DEF InBlocks
<1> QED
  BY <1>1, <1>2, <1>3

LEMMA SavesKeepBlocks ==
  ASSUME StoreProofs!IInv, InBlocks, Truncate \/ Saves \/ SaveTree
  PROVE  InBlocks'
<1> USE BlocksInOrder
<1>1. pending' = pending /\ asked' = asked /\ acked' = acked /\ exists' = exists
  BY DEF Truncate, Saves, SaveTree, history
<1>2. CASE Truncate \/ Saves
  <2>1. pc' = "saving"
    BY <1>2, SavesSay DEF Truncate, Saves
  <2>2. block' = "exit" /\ dirty' = TRUE /\ pc # "idle"
    BY <1>2 DEF Truncate, Saves, InBlocks, history, Store!Truncate,
      Store!SaveMetadata, Store!SaveName
  <2> QED
    BY <1>1, <2>1, <2>2 DEF InBlocks
<1>3. CASE SaveTree
  <2>1. /\ pc = "saving"
        /\ pc' = "save_aborted" \/ (pc' = "ready" /\ Complete(file'))
    BY <1>3, SaveTreeSays DEF SaveTree
  <2>2. block' = block /\ dirty' = (pc' # "ready")
    BY <1>3 DEF SaveTree
  <2> QED
    BY <1>1, <2>1, <2>2 DEF InBlocks
<1> QED
  BY <1>2, <1>3

LEMMA EndsKeepBlocks ==
  ASSUME StoreProofs!IInv, InBlocks, Exit \/ Dies \/ Crash \/ Restart \/ GoesOn
  PROVE  InBlocks'
<1> USE BlocksInOrder
<1>1. /\ pc # "idle" /\ pc' = "idle" /\ block' = "open" /\ pending' = Nothing
      /\ exists' = exists /\ asked' = asked
  BY EndsSay DEF Exit, Dies, Crash, Restart, GoesOn, Forgets
<1>2. acked' \in Requests /\ Nothing \in Requests
  BY MoreRequests DEF Exit, Dies, Crash, Restart, GoesOn, InBlocks
<1>3. exists
  BY <1>1 DEF InBlocks
<1>4. ~dirty' => Complete(file')
  <2>1. CASE GoesOn
    BY <2>1 DEF GoesOn
  <2>2. CASE Exit \/ Dies \/ Crash \/ Restart
    <3>1. dirty' = dirty
      BY <2>2 DEF Exit, Dies, Crash, Restart
    <3>2. file' = file \/ pc = "saving"
      BY <2>2, EndsSay DEF Exit, Dies, Crash, Restart
    <3> QED
      BY <1>3, <3>1, <3>2 DEF InBlocks
  <2> QED
    BY <2>1, <2>2
<1> QED
  BY <1>1, <1>2, <1>3, <1>4 DEF InBlocks

LEMMA NextKeepsBlocks ==
  ASSUME StoreProofs!IInv, InBlocks, Next \/ DaemonSteps
  PROVE  InBlocks'
  BY StoreFacts, OpensKeepBlocks, ReadsKeepBlocks, CallsKeepBlocks,
    SavesKeepBlocks, EndsKeepBlocks DEF Next, DaemonSteps

-----------------------------------------------------------------------------
(***************************************************************************)
(* What was acknowledged is kept, and nothing else is there                *)
(***************************************************************************)

LEMMA FoundIsIn ==
  ASSUME History, Holds
  PROVE  acked.names \subseteq NamesIn(db.names.base)
  BY DEF History, MemoryKeeps, IsFirst, FirstNames, NamesIn

\* Of a program that has no database yet, or no longer, no more is said than
\* that its names are those it had or has read.
LEMMA OutsideHistory ==
  ASSUME History, pc' \notin {"ready", "saving"},
         acked' = acked, asked' = asked, sound' = sound,
         file' = file \/ (Holds /\ Left),
         NamesIn(db'.names.base) \subseteq NamesIn(db.names.base) \cup NamesOf(file),
         IsEmpty(db'.hash_tree) \/ db'.hash_tree = db.hash_tree
  PROVE  History'
<1>1. FileKeeps'
  <2>1. CASE file' = file
    BY <2>1 DEF History, FileKeeps
  <2>2. CASE Holds /\ Left
    <3>1. HasTree(file') => acked.names \subseteq NamesOf(file')
      BY <2>2, FoundIsIn DEF Left
    <3> QED
      BY <2>2, <3>1 DEF Left, FileKeeps
  <2> QED
    BY <2>1, <2>2
<1>2. MemoryKeeps' /\ Written'
  BY DEF MemoryKeeps, Written, Holds
<1>3. NamesAsked'
  BY DEF History, NamesAsked, Left
<1>4. \A i \in Positions : AskedBytes(i)' = AskedBytes(i)
  BY DEF AskedBytes
<1>5. DigestsAsked'
  <2>1. ASSUME NEW i \in Positions, "digests" \in sound
        PROVE  /\ Complete(file') =>
                    AcceptedIn(CellsOf(file'), i) \subseteq AskedBytes(i)
               /\ ~IsEmpty(db'.hash_tree) =>
                    Accepted(db'.hash_tree, i) \subseteq AskedBytes(i)
    BY <2>1 DEF History, DigestsAsked, Left
  <2> QED
    BY <1>4, <2>1 DEF DigestsAsked
<1> QED
  BY <1>1, <1>2, <1>3, <1>5 DEF History

LEMMA OpensKeepHistory ==
  ASSUME InBlocks, History,
         OpenExisting \/ Boot \/ \E arg \in CapacityArgs : OpenNew(arg)
  PROVE  History'
<1>1. CASE OpenExisting \/ Boot
  <2>1. pc' \in {"reading", "lost"} /\ file' = file /\ (Blank(db') \/ db' = db)
    BY <1>1, ReadMetadataSays DEF OpenExisting, Boot
  <2>2. acked' = acked /\ asked' = asked /\ sound' = sound
    BY <1>1 DEF OpenExisting, Boot, history
  <2> QED
    BY <2>1, <2>2, NoNames, OutsideHistory DEF Blank
<1>2. ASSUME NEW arg \in CapacityArgs, OpenNew(arg)
      PROVE  History'
  <2>1. /\ pc = "idle" /\ ~exists
        /\ pending' = pending /\ asked' = asked /\ acked' = acked /\ sound' = sound
    BY <1>2 DEF OpenNew
  <2>2. file = <<>> /\ acked = Nothing /\ pending = Nothing
    BY <2>1 DEF InBlocks
  <2>3. CASE UNCHANGED store
    BY <2>1, <2>3, OutsideHistory DEF store
  <2>4. CASE Store!Create(Capacity(arg)) /\ block' = "check_name"
    <3>1. pc' = "ready" /\ file' = file /\ Blank(db')
      BY <2>4, CreateSays
    <3>2. ~HasTree(file') /\ ~Complete(file') /\ NamesOf(file') = {}
          /\ NamesIn(db'.names.base) = {} /\ IsEmpty(db'.hash_tree)
      BY <2>2, <3>1, NoNames, CompleteHasTree DEF Blank
    <3>3. acked'.names = {} /\ acked'.digests = {}
          /\ pending'.names = {} /\ pending'.digests = {}
      BY <2>1, <2>2 DEF Nothing
    <3>4. FileKeeps'
      BY <3>2 DEF FileKeeps
    <3>5. MemoryKeeps'
      BY <3>3 DEF MemoryKeeps
    <3>6. Written'
      BY <2>4 DEF Written
    <3>7. NamesAsked' /\ DigestsAsked'
      BY <3>2 DEF NamesAsked, DigestsAsked
    <3> QED
      BY <3>4, <3>5, <3>6, <3>7 DEF History
  <2> QED
    BY <1>2, <2>3, <2>4 DEF OpenNew
<1> QED
  BY <1>1, <1>2

\* A load that comes through has the names of the file, all of which it finds,
\* and, if the file is complete, a tree that accepts the same.
LEMMA LoadKeepsHistory ==
  ASSUME StoreSays, InBlocks, History, ReadsTree
  PROVE  History'
<1>1. /\ block' = block /\ dirty' = dirty /\ asked' = asked /\ pending' = pending
      /\ acked' = (IF pc' = "ready" /\ dirty
                   THEN [acked EXCEPT !.digests = {}] ELSE acked)
      /\ sound' = IF pc' = "ready" /\ dirty THEN sound \ {"digests"} ELSE sound
  BY DEF ReadsTree
<1>2. pc = "reading" /\ file' = file
  BY ReadTreeSays DEF ReadsTree
<1>3. CASE pc' = "lost" /\ db' = db
  BY <1>1, <1>2, <1>3, OutsideHistory
<1>4. CASE pc' # "lost"
  <2>1. /\ pc' = "ready" /\ HasTree(file)
        /\ db'.names.base \in Seq(Strings) /\ CodesDiffer(db'.names.base)
        /\ NamesIn(db'.names.base) = NamesOf(file)
        /\ Complete(file) => ~IsEmpty(db'.hash_tree)
        /\ Complete(file) =>
             \A i \in Positions :
               Accepted(db'.hash_tree, i) = AcceptedIn(CellsOf(file), i)
    BY <1>4, ReadTreeSays DEF ReadsTree
  <2>2. /\ acked'.names = acked.names
        /\ acked'.digests = IF dirty THEN {} ELSE acked.digests
    BY <1>1, <2>1, MoreRequests DEF InBlocks
  <2>3. exists /\ pending = Nothing /\ block \in {"check_name", "valord"}
    BY <1>2 DEF InBlocks
  <2>4. ~dirty => Complete(file)
    BY <2>3 DEF InBlocks
  <2>5. FileKeeps'
    BY <1>2, <2>2 DEF History, FileKeeps
  <2>6. MemoryKeeps'
    <3>1. \A name \in acked'.names : IsFirst(db'.names.base, name)
      <4>1. acked'.names \subseteq NamesIn(db'.names.base)
        BY <2>1, <2>2 DEF History, FileKeeps
      <4> QED
        BY <2>1, <4>1, AllAreFirst
    <3>2. pending'.names = {} /\ pending'.digests = {}
      BY <1>1, <2>3 DEF Nothing
    <3>3. ASSUME NEW hash \in acked'.digests
          PROVE  Accepts(db'.hash_tree, hash)
      <4>1. ~dirty /\ Complete(file) /\ hash \in acked.digests
        BY <2>2, <2>4
      <4> QED
        BY <2>1, <4>1 DEF Accepts, History, FileKeeps
    <3> QED
      BY <3>1, <3>2, <3>3 DEF MemoryKeeps
  <2>7. Written'
    BY <1>1, <2>3 DEF Written
  <2>8. NamesAsked'
    BY <1>1, <1>2, <2>1 DEF History, NamesAsked
  <2>9. DigestsAsked'
    <3>1. ASSUME "digests" \in sound', NEW i \in Positions
          PROVE  /\ AcceptedIn(CellsOf(file), i) \subseteq AskedBytes(i)
                 /\ Accepted(db'.hash_tree, i) \subseteq AskedBytes(i)
      <4>1. ~dirty /\ "digests" \in sound
        BY <1>1, <2>1, <3>1
      <4> QED
        BY <2>1, <2>4, <4>1 DEF History, DigestsAsked
    <3>2. \A i \in Positions : AskedBytes(i)' = AskedBytes(i)
      BY <1>1 DEF AskedBytes
    <3> QED
      BY <1>2, <3>1, <3>2 DEF DigestsAsked
  <2> QED
    BY <2>5, <2>6, <2>7, <2>8, <2>9 DEF History
<1> QED
  BY <1>3, <1>4, ReadTreeSays DEF ReadsTree

LEMMA ReadsKeepHistory ==
  ASSUME StoreProofs!IInv, InBlocks, History, ReadsName \/ ReadsTree
  PROVE  History'
<1>1. CASE ReadsName
  <2>1. /\ file' = file /\ pc' \in {"reading", "aborted", "lost"}
        /\ \/ db' = db
           \/ /\ NamesIn(db'.names.base) \subseteq NamesOf(file)
              /\ IsEmpty(db'.hash_tree)
    BY <1>1, ReadNameSays DEF ReadsName
  <2>2. acked' = acked /\ asked' = asked /\ sound' = sound
    BY <1>1 DEF ReadsName, history
  <2> QED
    BY <2>1, <2>2, OutsideHistory
<1>2. CASE ReadsTree
  BY <1>2, StoreFacts, LoadKeepsHistory
<1> QED
  BY <1>1, <1>2

LEMMA ChecksKeepHistory ==
  ASSUME InBlocks, History,
         \/ Passes \/ CheckThreatFails
         \/ \E name \in Strings : CheckNameFails(name) \/ DaemonChecksName(name)
  PROVE  History'
<1>1. /\ db' = db /\ file' = file
      /\ pending' = pending /\ asked' = asked /\ acked' = acked /\ sound' = sound
  BY DEF Passes, CheckThreatFails, CheckNameFails, DaemonChecksName,
    Store!CheckHashFails, Store!CheckNameFails, store, history
<1>2. CASE pc' \in {"aborted", "lost"}
  BY <1>1, <1>2, OutsideHistory
<1>3. CASE Passes
  <2>1. pc = "ready" /\ pc' = "ready" /\ block' # "exit"
    BY <1>3, BlocksInOrder DEF Passes, store
  <2>2. FileKeeps' /\ MemoryKeeps' /\ Written' /\ NamesAsked'
    BY <1>1, <2>1 DEF History, FileKeeps, MemoryKeeps, Written, NamesAsked, Holds
  <2>3. \A i \in Positions : AskedBytes(i)' = AskedBytes(i)
    BY <1>1 DEF AskedBytes
  <2>4. DigestsAsked'
    BY <1>1, <2>3 DEF History, DigestsAsked
  <2> QED
    BY <2>2, <2>4 DEF History
<1> QED
  BY <1>2, <1>3 DEF CheckThreatFails, CheckNameFails, DaemonChecksName,
    Store!CheckHashFails, Store!CheckNameFails

LEMMA AddNameKeepsHistory ==
  ASSUME StoreProofs!IInv, InBlocks, History, NEW name \in Strings, AddName(name)
  PROVE  History'
<1>1. /\ pc = "ready" /\ file' = file
      /\ \/ pc' \in {"aborted", "lost"} /\ db' = db
         \/ /\ pc' = "ready"
            /\ db'.names.base = Append(db.names.base, name)
            /\ db'.hash_tree = db.hash_tree
  BY AddNameSays DEF AddName
<1>2. /\ block' = "add_threat" /\ acked' = acked /\ sound' = sound
      /\ pending'.names = pending.names \cup {name}
      /\ pending'.digests = pending.digests
      /\ asked'.names = asked.names \cup {name}
      /\ asked'.digests = asked.digests
  BY BlocksInOrder, MoreRequests DEF AddName, InBlocks
<1>3. db.names.base \in Seq(Strings)
  BY StoreFacts, SoundParts DEF StoreSays
<1>4. FileKeeps'
  BY <1>1, <1>2 DEF History, FileKeeps
<1>5. Written'
  BY <1>2 DEF Written
<1>6. /\ pc' = "ready" =>
           /\ NamesIn(db'.names.base) = NamesIn(db.names.base) \cup {name}
           /\ \A other : IsFirst(db.names.base, other)
                           => IsFirst(db'.names.base, other)
      /\ NamesIn(db'.names.base) \subseteq NamesIn(db.names.base) \cup {name}
  BY <1>1, <1>3, NamesInAppend
<1>7. MemoryKeeps'
  BY <1>1, <1>2, <1>6 DEF History, MemoryKeeps, Holds
<1>8. NamesAsked'
  BY <1>1, <1>2, <1>6 DEF History, NamesAsked
<1>9. \A i \in Positions : AskedBytes(i)' = AskedBytes(i)
  BY <1>2 DEF AskedBytes
<1>10. DigestsAsked'
  BY <1>1, <1>2, <1>9 DEF History, DigestsAsked
<1> QED
  BY <1>4, <1>5, <1>7, <1>8, <1>10 DEF History

LEMMA AddThreatKeepsHistory ==
  ASSUME StoreProofs!IInv, InBlocks, History, NEW fname \in Files, AddThreat(fname)
  PROVE  History'
<1> DEFINE hash == Digest[fname]
<1>1. hash \in Buffers
  BY DbgenAssumption DEF AddThreat
<1>2. /\ pc = "ready" /\ pc' = "ready" /\ file' = file
      /\ db' = database_add_hash(db, hash)
  BY AddHashSays DEF AddThreat
<1>3. /\ block' = "check_threat" /\ acked' = acked /\ sound' = sound
      /\ pending'.names = pending.names
      /\ pending'.digests = pending.digests \cup {hash}
      /\ asked'.names = asked.names
      /\ asked'.digests = asked.digests \cup {hash}
  BY <1>1, BlocksInOrder, MoreRequests DEF AddThreat, InBlocks
<1>4. Sound(db)
  BY StoreFacts DEF StoreSays
<1>5. /\ db'.names = db.names /\ ~IsEmpty(db'.hash_tree)
      /\ \A i \in Positions :
           Accepted(db'.hash_tree, i) =
             (IF IsEmpty(db.hash_tree) THEN {} ELSE Accepted(db.hash_tree, i))
               \cup {pad_hash_digest(hash)[i]}
  BY <1>1, <1>2, <1>4, AddHashAccepted
<1> HIDE DEF hash
<1>6. FileKeeps'
  BY <1>2, <1>3 DEF History, FileKeeps
<1>7. Written'
  BY <1>3 DEF Written
<1>8. MemoryKeeps'
  <2>1. ASSUME NEW other \in acked.digests \cup (pending.digests \cup {hash})
        PROVE  Accepts(db'.hash_tree, other)
    <3>1. CASE other = hash
      BY <1>5, <3>1 DEF Accepts
    <3>2. CASE other # hash
      <4>1. Accepts(db.hash_tree, other)
        BY <1>2, <2>1, <3>2 DEF History, MemoryKeeps, Holds
      <4>2. \A i \in Positions :
              Accepted(db.hash_tree, i) \subseteq Accepted(db'.hash_tree, i)
        BY <1>5, <4>1 DEF Accepts
      <4> QED
        BY <1>5, <4>1, <4>2, AcceptsMore
    <3> QED
      BY <3>1, <3>2
  <2> QED
    BY <1>2, <1>3, <1>5, <2>1 DEF History, MemoryKeeps, Holds
<1>9. NamesAsked'
  BY <1>2, <1>3, <1>5 DEF History, NamesAsked
<1>10. DigestsAsked'
  <2>1. \A i \in Positions :
          AskedBytes(i)' = AskedBytes(i) \cup {pad_hash_digest(hash)[i]}
    BY <1>3 DEF AskedBytes
  <2>2. ASSUME "digests" \in sound, NEW i \in Positions
        PROVE  /\ Complete(file) =>
                    AcceptedIn(CellsOf(file), i) \subseteq AskedBytes(i)
               /\ Accepted(db'.hash_tree, i)
                    \subseteq AskedBytes(i) \cup {pad_hash_digest(hash)[i]}
    BY <1>5, <2>2 DEF History, DigestsAsked
  <2> QED
    BY <1>2, <1>3, <2>1, <2>2 DEF DigestsAsked
<1> QED
  BY <1>6, <1>7, <1>8, <1>9, <1>10 DEF History

\* While the file is written it keeps nothing, but the memory does; when the
\* tree is written the file has all the memory has.
LEMMA SavesKeepHistory ==
  ASSUME StoreProofs!IInv, InBlocks, History, Truncate \/ Saves \/ SaveTree
  PROVE  History'
<1>1. /\ pending' = pending /\ asked' = asked /\ acked' = acked /\ sound' = sound
  BY DEF Truncate, Saves, SaveTree, history
<1>2. Holds
  BY DEF Truncate, Saves, SaveTree, Store!Truncate, Store!SaveMetadata,
    Store!SaveName, Store!SaveTree, Holds
<1>3. \A i \in Positions : AskedBytes(i)' = AskedBytes(i)
  BY <1>1 DEF AskedBytes
<1>4. CASE Truncate \/ Saves
  <2>1. /\ pc' = "saving" /\ db' = db /\ ~HasTree(file') /\ ~Complete(file')
        /\ NamesOf(file') \subseteq NamesIn(db.names.base)
    BY <1>4, SavesSay, CompleteHasTree DEF Truncate, Saves
  <2>2. FileKeeps' /\ MemoryKeeps' /\ Written' /\ NamesAsked'
    BY <1>1, <1>2, <2>1
    DEF History, FileKeeps, MemoryKeeps, Written, NamesAsked, Holds
  <2>3. DigestsAsked'
    BY <1>1, <1>3, <2>1 DEF History, DigestsAsked
  <2> QED
    BY <2>2, <2>3 DEF History
<1>5. CASE SaveTree
  <2>1. /\ db' = db
        /\ \/ pc' = "save_aborted" /\ Left
           \/ /\ pc' = "ready" /\ Complete(file')
              /\ NamesOf(file') = NamesIn(db.names.base)
              /\ ~IsEmpty(db.hash_tree)
              /\ \A i \in Positions :
                   AcceptedIn(CellsOf(file'), i) = Accepted(db.hash_tree, i)
    BY <1>5, SaveTreeSays DEF SaveTree
  <2>2. CASE pc' = "save_aborted"
    BY <1>1, <1>2, <2>1, <2>2, OutsideHistory
  <2>3. CASE pc' = "ready"
    <3>1. FileKeeps'
      <4>1. acked.names \subseteq NamesOf(file')
        BY <1>2, <2>1, <2>3, FoundIsIn
      <4>2. ASSUME NEW hash \in acked.digests, NEW i \in Positions
            PROVE  pad_hash_digest(hash)[i] \in AcceptedIn(CellsOf(file'), i)
        BY <1>2, <2>1, <2>3 DEF History, MemoryKeeps, Accepts
      <4> QED
        BY <1>1, <4>1, <4>2 DEF FileKeeps
    <3>2. MemoryKeeps'
      BY <1>1, <1>2, <2>1 DEF History, MemoryKeeps
    <3>3. Written'
      BY <2>1, <2>3 DEF Written
    <3>4. NamesAsked'
      BY <1>1, <2>1, <2>3 DEF History, NamesAsked
    <3>5. DigestsAsked'
      BY <1>1, <1>3, <2>1, <2>3 DEF History, DigestsAsked
    <3> QED
      BY <3>1, <3>2, <3>3, <3>4, <3>5 DEF History
  <2> QED
    BY <2>1, <2>2, <2>3
<1> QED
  BY <1>4, <1>5

\* What is pending is acknowledged when it is in the file; a program that is
\* lost gives up all that was.
LEMMA EndsKeepHistory ==
  ASSUME StoreProofs!IInv, InBlocks, History,
         Exit \/ Dies \/ Crash \/ Restart \/ GoesOn
  PROVE  History'
<1>1. pc' = "idle" /\ NamesIn(db'.names.base) = {} /\ IsEmpty(db'.hash_tree)
  BY EndsSay, NoNames DEF Exit, Dies, Crash, Restart, GoesOn, Blank
<1>2. asked' = asked
  BY DEF Exit, Dies, Crash, Restart, GoesOn, Forgets
<1>3. MemoryKeeps' /\ Written'
  BY <1>1 DEF MemoryKeeps, Written, Holds
<1>4. CASE Dies \/ Crash \/ Restart
  <2>1. file' = file \/ (pc = "saving" /\ Left)
    BY <1>4, EndsSay DEF Dies, Crash, Restart
  <2>2. acked' = acked /\ sound' = sound
    BY <1>4 DEF Dies, Crash, Restart
  <2> QED
    BY <1>1, <1>2, <2>1, <2>2, OutsideHistory DEF Holds
<1>5. CASE GoesOn
  <2>1. acked' = Nothing /\ sound' = {}
    BY <1>5 DEF GoesOn
  <2>2. FileKeeps' /\ NamesAsked' /\ DigestsAsked'
    BY <2>1 DEF FileKeeps, NamesAsked, DigestsAsked, Nothing
  <2> QED
    BY <1>3, <2>2 DEF History
<1>6. CASE Exit
  <2>1. /\ pc = "ready" /\ block = "exit" /\ file' = file /\ sound' = sound
        /\ acked' = Both(acked, pending)
    BY <1>6, EndsSay DEF Exit
  <2>2. /\ Complete(file) /\ NamesOf(file) = NamesIn(db.names.base)
        /\ \A i \in Positions :
             AcceptedIn(CellsOf(file), i) = Accepted(db.hash_tree, i)
    BY <2>1 DEF History, Written
  <2>3. FileKeeps'
    <3>1. acked.names \cup pending.names \subseteq NamesOf(file)
      BY <2>1, <2>2, FoundIsIn DEF History, MemoryKeeps, Holds
    <3>2. ASSUME NEW hash \in acked.digests \cup pending.digests,
                 NEW i \in Positions
          PROVE  pad_hash_digest(hash)[i] \in AcceptedIn(CellsOf(file), i)
      BY <2>1, <2>2 DEF History, MemoryKeeps, Holds, Accepts
    <3> QED
      BY <2>1, <3>1, <3>2 DEF FileKeeps, Both
  <2>4. NamesAsked'
    BY <1>1, <1>2, <2>1 DEF History, NamesAsked
  <2>5. \A i \in Positions : AskedBytes(i)' = AskedBytes(i)
    BY <1>2 DEF AskedBytes
  <2>6. DigestsAsked'
    BY <1>1, <2>1, <2>5 DEF History, DigestsAsked
  <2> QED
    BY <1>3, <2>3, <2>4, <2>6 DEF History
<1> QED
  BY <1>4, <1>5, <1>6

LEMMA NextKeepsHistory ==
  ASSUME StoreProofs!IInv, InBlocks, History, Next \/ DaemonSteps
  PROVE  History'
  BY OpensKeepHistory, ReadsKeepHistory, ChecksKeepHistory, AddNameKeepsHistory,
    AddThreatKeepsHistory, SavesKeepHistory, EndsKeepHistory
  DEF Next, DaemonSteps

-----------------------------------------------------------------------------
(***************************************************************************)
(* The theorems                                                            *)
(***************************************************************************)

LEMMA InitIInv == Init => IInv
<1> SUFFICES ASSUME Init PROVE IInv
  OBVIOUS
<1>1. StoreProofs!IInv
  BY InitStore DEF Init
<1>2. pc = "idle" /\ file = <<>> /\ Blank(db)
  BY NewIsBlank DEF Init, Store!Init, Store!NoDatabase
<1>3. /\ exists = FALSE /\ block = "open" /\ dirty = FALSE
      /\ pending = Nothing /\ asked = Nothing /\ acked = Nothing
  BY DEF Init
<1>4. InBlocks
  BY <1>2, <1>3, BlocksInOrder, MoreRequests DEF InBlocks
<1>5. NamesOf(file) = {} /\ ~HasTree(file) /\ ~Complete(file)
      /\ NamesIn(db.names.base) = {} /\ IsEmpty(db.hash_tree)
  BY <1>2, NoNames, CompleteHasTree DEF Blank
<1>6. History
  BY <1>2, <1>5
  DEF History, FileKeeps, MemoryKeeps, Written, NamesAsked, DigestsAsked, Holds
<1> QED
  BY <1>1, <1>4, <1>6 DEF IInv

LEMMA NextKeepsIInv == IInv /\ [DeploymentNext]_dbgen => IInv'
<1> SUFFICES ASSUME IInv, [DeploymentNext]_dbgen PROVE IInv'
  OBVIOUS
<1>1. CASE DeploymentNext
  BY <1>1, NextIsNext, NextKeepsStore, NextKeepsBlocks, NextKeepsHistory DEF IInv
<1>2. CASE UNCHANGED dbgen
  <2>1. StoreProofs!IInv'
    BY <1>2 DEF IInv, dbgen, StoreProofs!IInv, StoreProofs!FileOK,
      StoreProofs!SavesInOrder, StoreProofs!ReadsInOrder
  <2>2. InBlocks'
    BY <1>2 DEF IInv, dbgen, InBlocks
  <2>3. FileKeeps' /\ MemoryKeeps' /\ Written' /\ NamesAsked'
    BY <1>2 DEF IInv, dbgen, History, FileKeeps, MemoryKeeps, Written,
      NamesAsked, Holds
  <2>4. \A i \in Positions : AskedBytes(i)' = AskedBytes(i)
    BY <1>2 DEF dbgen, AskedBytes
  <2>5. DigestsAsked'
    BY <1>2, <2>4 DEF IInv, dbgen, History, DigestsAsked
  <2> QED
    BY <2>1, <2>2, <2>3, <2>5 DEF IInv, History
<1> QED
  BY <1>1, <1>2

THEOREM IInvHolds == DeploymentSpec => []IInv
  BY InitIInv, NextKeepsIInv, PTL DEF DeploymentSpec

\* Type correctness of the programs and the file between them: the names are
\* inside their array whoever runs, through every load (db.c:5-118,
\* array.c:18-25, dbgen.c:43-145, valor.c:44-53).
THEOREM TypeCorrect == DeploymentSpec => []TypeOK
<1>1. IInv => TypeOK
  <2> SUFFICES ASSUME IInv PROVE TypeOK
    OBVIOUS
  <2>1. StoreSays /\ InBlocks
    BY StoreFacts DEF IInv
  <2>2. Sound(db) /\ db.modulo \in Nat
    BY <2>1, SoundParts DEF StoreSays
  <2>3. db \in Databases(db.modulo) /\ InBounds(db.names)
    BY <2>2 DEF Sound
  <2> QED
    BY <2>1, <2>2, <2>3 DEF StoreSays, InBlocks, TypeOK
<1> QED
  BY <1>1, IInvHolds, PTL

\* What an invocation of dbgen that exited successfully added is found by every
\* later program that comes through its load, through any number of deaths and
\* crashes, unless one that was lost may have done away with it, or a tree was
\* cut short (dbgen.c:46-145, db.c:71-118).
THEOREM AckedKept == DeploymentSpec => []AckedIsKept
<1>1. IInv => AckedIsKept
  <2> SUFFICES ASSUME IInv, Holds PROVE
        /\ \A name \in acked.names : stringset_check(db.name_set, name)
        /\ \A hash \in acked.digests :
             edt_get_distance_to_existing(db.hash_tree, pad_hash_digest(hash)) = 0
    BY DEF AckedIsKept
  <2>1. Sound(db) /\ MemoryKeeps
    BY StoreFacts DEF IInv, StoreSays, History
  <2>2. ASSUME NEW name \in acked.names
        PROVE  stringset_check(db.name_set, name)
    <3>1. IsFirst(db.names.base, name)
      BY <2>1 DEF MemoryKeeps
    <3>2. name \in Strings
      BY DEF IInv, InBlocks, Requests
    <3>3. db.names.base # <<>>
      BY <3>1 DEF IsFirst, FirstNames
    <3>4. db.modulo > 0
      BY <2>1, <3>3, SoundParts DEF Sound
    <3> QED
      BY <2>1, <3>1, <3>2, <3>4 DEF Sound, WalksFollowNames
  <2>3. ASSUME NEW hash \in acked.digests
        PROVE  edt_get_distance_to_existing(db.hash_tree, pad_hash_digest(hash)) = 0
    <3>1. Accepts(db.hash_tree, hash)
      BY <2>1 DEF MemoryKeeps
    <3>2. \A i \in Positions :
            \/ db.hash_tree[i].data = pad_hash_digest(hash)[i]
            \/ pad_hash_digest(hash)[i] \in db.hash_tree[i].neighbors
      BY <3>1 DEF Accepts, Accepted
    <3>3. { i \in Positions :
              /\ db.hash_tree[i].data # pad_hash_digest(hash)[i]
              /\ pad_hash_digest(hash)[i] \notin db.hash_tree[i].neighbors } = {}
      BY <3>2
    <3> QED
      BY <3>3, FS_EmptySet DEF edt_get_distance_to_existing
  <2> QED
    BY <2>2, <2>3
<1> QED
  BY <1>1, IInvHolds, PTL

\* No program finds a name that no invocation was asked to add, nor accepts a
\* byte that no added digest has there (db.c:71-118, ed_tree.c:84-142).
THEOREM NoneInvented == DeploymentSpec => []NothingInvented
<1>1. IInv => NothingInvented
  <2> SUFFICES ASSUME IInv PROVE NothingInvented
    OBVIOUS
  <2>1. Sound(db) /\ NamesAsked /\ DigestsAsked
    BY StoreFacts DEF IInv, StoreSays, History
  <2>2. Members(db.name_set) \subseteq NamesIn(db.names.base)
    BY <2>1, SetFollows DEF FirstNames, NamesIn
  <2> QED
    BY <2>1, <2>2 DEF NothingInvented, NamesAsked, DigestsAsked, AskedBytes
<1> QED
  BY <1>1, IInvHolds, PTL

\* A load, of dbgen or of the daemon, fails only on a file that was not written
\* to its end, on names that clash or on a wild `next` (dbgen.c:52-61,
\* valor.c:44-53).
THEOREM FailsForAReason == DeploymentSpec => LoadFailsForAReason
<1> DEFINE Reason == Store!LoadFails =>
                       dirty \/ NamesClash(file) \/ Store!MeetsWildNode
<1>1. IInv /\ [DeploymentNext]_dbgen => [Reason]_dbgen
  <2> SUFFICES ASSUME IInv, DeploymentNext, Store!LoadFails
               PROVE  dirty \/ NamesClash(file) \/ Store!MeetsWildNode
    OBVIOUS
  <2>1. InBlocks /\ (Next \/ DaemonSteps)
    BY NextIsNext DEF IInv
  <2>2. pc \in {"idle", "reading"} /\ pc' \in {"lost", "aborted"}
    BY DEF Store!LoadFails
  <2>3. OpenExisting \/ Boot \/ ReadsName \/ ReadsTree
    <3>1. ~Passes /\ ~CheckThreatFails /\ ~Truncate /\ ~Saves /\ ~SaveTree
      BY <2>2 DEF Passes, CheckThreatFails, Store!CheckHashFails, Truncate,
        Store!Truncate, Saves, Store!SaveMetadata, Store!SaveName, SaveTree,
        Store!SaveTree
    <3>2. ~Exit /\ ~Dies /\ ~Crash /\ ~Restart /\ ~GoesOn
      BY <2>2 DEF Exit, Dies, Crash, Restart, GoesOn, Store!Crash,
        Store!Restart, Store!GoesOn
    <3>3. ASSUME NEW arg \in CapacityArgs PROVE ~OpenNew(arg)
      BY <2>2, CreateSays DEF OpenNew, store
    <3>4. ASSUME NEW name \in Strings
          PROVE  ~CheckNameFails(name) /\ ~AddName(name) /\ ~DaemonChecksName(name)
      BY <2>2 DEF CheckNameFails, DaemonChecksName, Store!CheckNameFails, AddName,
        Store!AddName
    <3>5. ASSUME NEW fname \in Files PROVE ~AddThreat(fname)
      BY <2>2 DEF AddThreat, Store!AddHash
    <3> QED
      BY <2>1, <3>1, <3>2, <3>3, <3>4, <3>5 DEF Next, DaemonSteps
  <2>4. StoreProofs!ReadMetadata \/ StoreProofs!ReadName \/ StoreProofs!ReadTree
    BY <2>3, SameLoads DEF OpenExisting, Boot, ReadsName, ReadsTree
  <2>5. StoreProofs!LoadFails => ~StoreProofs!Readable(file)
                                   \/ StoreProofs!MeetsWildNode
    BY <2>4, StoreProofs!LoadsSay, StringSetAssumption, EdTreeAssumption,
      VersionRangeAssumption, CapacitiesAreNat, StraysFit, DbgenAssumption
    DEF StoreProofs!Missing, Missing, IInv
  <2>6. ~StoreProofs!Readable(file) \/ StoreProofs!MeetsWildNode
    BY <2>2, <2>5 DEF StoreProofs!LoadFails
  <2>7. CASE ~StoreProofs!Readable(file)
    <3>1. ~HasTree(file) \/ NamesClash(file)
      BY <2>7, SameWellFormed DEF StoreProofs!Readable
    <3>2. exists
      BY <2>1, <2>2, <2>3 DEF OpenExisting, Boot, ReadsName, ReadsTree,
        Store!ReadName, Store!ReadTree, InBlocks
    <3> QED
      BY <2>1, <3>1, <3>2, CompleteHasTree DEF InBlocks
  <2>8. CASE StoreProofs!MeetsWildNode
    <3>1. Store!MeetsWildNode
      BY <2>8 DEF StoreProofs!MeetsWildNode, StoreProofs!NamesShareBucket,
        StoreProofs!NameRecords, Store!MeetsWildNode, Store!NamesShareBucket,
        Store!NameRecords
    <3> QED
      BY <3>1
  <2> QED
    BY <2>6, <2>7, <2>8
<1> QED
  BY <1>1, IInvHolds, PTL DEF DeploymentSpec, LoadFailsForAReason

=============================================================================
