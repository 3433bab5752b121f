--------------------------- MODULE DatabaseStore ---------------------------
(***************************************************************************)
(* A program (dbgen; valord only loads) and its database file: the library *)
(* calls one after the other, database_save and database_read record by    *)
(* record, and the program dying at any point in between.                  *)
(*                                                                         *)
(* stdio buffers what is written: a program that dies while it saves       *)
(* leaves any prefix of what it has written.  The page cache survives it,  *)
(* so a file once closed is whole.                                         *)
(*                                                                         *)
(* A program that is lost has left its defined behaviour (it followed a    *)
(* wild pointer, divided by zero or took the memory it did not read for    *)
(* the file): it may fall, but it may also go on, save a file nobody asked *)
(* for and exit as if nothing had happened.                                *)
(***************************************************************************)
EXTENDS Database

CONSTANTS
  Capacities,   \* the capacities a client may ask for
  MaxNames,     \* bound on the number of names in a database
  VersionArgs,  \* what the version may be set to
  StrayFiles    \* what a program that is lost may have saved

\* A file that is nothing a save would write.
Garbage == <<[kind |-> "garbage"]>>

ASSUME StoreAssumption ==
  /\ Capacities \subseteq Nat
  /\ MaxNames \in Nat
  /\ VersionArgs \subseteq Nat
  /\ \A stray \in StrayFiles : WellFormed(stray) \/ stray = Garbage

VARIABLES
  db,     \* the database in memory
  pc,     \* what the program is doing
  todo,   \* saving: names written so far; reading: names still to be read
  file    \* the records in the file

vars == <<db, pc, todo, file>>

\* The value of db when there is none.
NoDatabase == create_database(0)

Init ==
  /\ db = NoDatabase
  /\ pc = "idle"
  /\ todo = 0
  /\ file = <<>>

-----------------------------------------------------------------------------
(***************************************************************************)
(* Calls on a database in memory                                           *)
(***************************************************************************)

\* create_database(capacity)
Create(capacity) ==
  /\ pc = "idle"
  /\ db' = create_database(capacity)
  /\ pc' = "ready"
  /\ UNCHANGED <<todo, file>>

\* The part of database_add_name that stringset_add decides.
AddsName(name) ==
  \/ /\ db.modulo = 0
     /\ pc' = "aborted"
     /\ UNCHANGED db
  \/ /\ db.modulo > 0
     /\ AddGetsLost(db.name_set, name)
     /\ pc' = "lost"
     /\ UNCHANGED db
  \/ /\ db.modulo > 0
     /\ ~AddGetsLost(db.name_set, name)
     /\ \E next \in FreshNext : db' = database_add_name(db, name, next)
     /\ UNCHANGED pc

\* database_add_name(db, name)
AddName(name) ==
  /\ pc = "ready"
  /\ Len(db.names.base) < MaxNames
  /\ AddsName(name)
  /\ UNCHANGED <<todo, file>>

\* database_check_name(db, name), when it does not come back.
CheckNameFails(name) ==
  /\ pc = "ready"
  /\ \/ db.modulo = 0
     \/ db.modulo > 0 /\ CheckGetsLost(db.name_set, name)
  /\ pc' = "lost"
  /\ UNCHANGED <<db, todo, file>>

\* database_add_hash(db, hash), database_add_hashes(db, hashes)
AddHash(hash) ==
  /\ pc = "ready"
  /\ db' = database_add_hash(db, hash)
  /\ UNCHANGED <<pc, todo, file>>

AddHashes(hashes) ==
  /\ pc = "ready"
  /\ db' = database_add_hashes(db, hashes)
  /\ UNCHANGED <<pc, todo, file>>

\* database_check_hash(db, hash), when it does not come back: assert(last_node)
CheckHashFails ==
  /\ pc = "ready"
  /\ IsEmpty(db.hash_tree)
  /\ pc' = "aborted"
  /\ UNCHANGED <<db, todo, file>>

\* dbgen's --set-version and --increment-version write the field, a uint32_t.
SetVersion(value) ==
  /\ pc = "ready"
  /\ db' = [db EXCEPT !.version = value % VersionRange]
  /\ UNCHANGED <<pc, todo, file>>

IncrementVersion ==
  /\ pc = "ready"
  /\ db' = [db EXCEPT !.version = (@ + 1) % VersionRange]
  /\ UNCHANGED <<pc, todo, file>>

\* free_database(db): destroys the set, walking its chains.
Free ==
  /\ pc = "ready"
  /\ IF db.name_set.wild = {}
     THEN pc' = "idle" /\ db' = NoDatabase
     ELSE pc' = "lost" /\ UNCHANGED db
  /\ UNCHANGED <<todo, file>>

-----------------------------------------------------------------------------
(***************************************************************************)
(* database_save, on a file its caller has truncated                       *)
(***************************************************************************)

Truncate ==
  /\ pc = "ready"
  /\ pc' = "saving"
  /\ todo' = 0
  /\ file' = <<>>
  /\ UNCHANGED db

SaveMetadata ==
  /\ pc = "saving"
  /\ file = <<>>
  /\ file' = <<Metadata(db)>>
  /\ UNCHANGED <<db, pc, todo>>

SaveName ==
  /\ pc = "saving"
  /\ file # <<>>
  /\ todo < Len(db.names.base)
  /\ file' = Append(file, NameRecord(db.names.base[todo + 1]))
  /\ todo' = todo + 1
  /\ UNCHANGED <<db, pc>>

\* What a program that dies while it saves leaves of the file.
LeavesPrefix ==
  \/ \E k \in 0 .. Len(file) : file' = SubSeq(file, 1, k)
  \/ /\ file # <<>>
     /\ todo = Len(db.names.base)
     /\ ~IsEmpty(db.hash_tree)
     /\ \E n \in Kept : file' = Append(file, CutTreeRecord(db.hash_tree, n))

\* The tree and, by the caller, fclose.  serialize_ed_tree asserts a node.
SaveTree ==
  /\ pc = "saving"
  /\ file # <<>>
  /\ todo = Len(db.names.base)
  /\ IF IsEmpty(db.hash_tree)
     THEN pc' = "save_aborted" /\ LeavesPrefix
     ELSE pc' = "ready" /\ file' = Append(file, TreeRecord(db.hash_tree))
  /\ todo' = 0
  /\ UNCHANGED db

-----------------------------------------------------------------------------
(***************************************************************************)
(* database_read.  It ignores what fread returns.  A tree that ends early  *)
(* is completed from what the buffer held, and the load returns; where the *)
(* file has not the record that is due at all, the program is lost.        *)
(***************************************************************************)

ReadMetadata ==
  /\ pc = "idle"
  /\ IF RecordAt(file, 1, "metadata")
     THEN /\ db' = FromMetadata(file[1])
          /\ todo' = file[1].size
          /\ pc' = "reading"
     ELSE pc' = "lost" /\ UNCHANGED <<db, todo>>
  /\ UNCHANGED file

\* The record due is the one after the metadata and the names already read.
ReadName ==
  /\ pc = "reading"
  /\ todo > 0
  /\ IF RecordAt(file, Len(db.names.base) + 2, "name")
     THEN /\ AddsName(file[Len(db.names.base) + 2].name)
          /\ todo' = todo - 1
     ELSE pc' = "lost" /\ UNCHANGED <<db, todo>>
  /\ UNCHANGED file

ReadTree ==
  /\ pc = "reading"
  /\ todo = 0
  /\ IF RecordAt(file, Len(db.names.base) + 2, "tree")
     THEN LET cells == file[Len(db.names.base) + 2].cells IN
          /\ \E junk \in Junk(cells) :
               db' = [db EXCEPT !.hash_tree = deserialize_ed_tree(cells, junk)]
          /\ pc' = "ready"
     ELSE pc' = "lost" /\ UNCHANGED db
  /\ UNCHANGED <<todo, file>>

-----------------------------------------------------------------------------
\* The program is killed, or gives up (dbgen's die).
Crash ==
  /\ pc \in {"ready", "saving", "reading"}
  /\ IF pc = "saving" THEN LeavesPrefix ELSE UNCHANGED file
  /\ pc' = "idle"
  /\ db' = NoDatabase
  /\ todo' = 0

\* A new program, after one that aborted or fell.
Restart ==
  /\ pc \in {"aborted", "save_aborted", "lost"}
  /\ pc' = "idle"
  /\ db' = NoDatabase
  /\ todo' = 0
  /\ UNCHANGED file

\* A new program, after one that was lost, saved something and ended.
GoesOn ==
  /\ pc = "lost"
  /\ pc' = "idle"
  /\ db' = NoDatabase
  /\ todo' = 0
  /\ file' \in StrayFiles

Next ==
  \/ \E capacity \in Capacities : Create(capacity)
  \/ \E name \in Strings : AddName(name) \/ CheckNameFails(name)
  \/ \E hash \in Buffers : AddHash(hash)
  \/ \E first, second \in Buffers : AddHashes(<<first, second>>)
  \/ CheckHashFails
  \/ \E value \in VersionArgs : SetVersion(value)
  \/ IncrementVersion
  \/ Free
  \/ Truncate \/ SaveMetadata \/ SaveName \/ SaveTree
  \/ ReadMetadata \/ ReadName \/ ReadTree
  \/ Crash \/ Restart \/ GoesOn

Spec == Init /\ [][Next]_vars

-----------------------------------------------------------------------------
(***************************************************************************)
(* Properties                                                              *)
(***************************************************************************)

\* The database is a database_t whose array of names, whatever it was created
\* with, has room for them (array.c:18-25); the file is what a save writes, as
\* far as it got, or of no use.
TypeOK ==
  /\ db.modulo \in Nat /\ db \in Databases(db.modulo)
  /\ InBounds(db.names)
  /\ pc \in {"idle", "ready", "saving", "reading",
             "aborted", "save_aborted", "lost"}
  /\ todo \in Nat
  /\ WellFormed(file) \/ file = Garbage

\* The names a lookup finds are, for each code, the first name in the array
\* with it, and the size is the number of codes: the array and the set, filled
\* by two calls and refilled by a load, never drift apart (db.c:55-60, 105-112).
SetFollowsNames ==
  LET names == db.names.base
      First == { k \in DOMAIN names :
                   \A j \in 1 .. k - 1 : Hash[names[j]] # Hash[names[k]] }
  IN  /\ Members(db.name_set) = { names[k] : k \in First }
      /\ db.name_set.size = Cardinality({ Hash[names[k]] : k \in DOMAIN names })

Readable(aFile) == HasTree(aFile) /\ ~NamesClash(aFile)

LoadFails == pc \in {"idle", "reading"} /\ pc' \in {"lost", "aborted"}

ComesThrough == pc = "reading" /\ pc' = "ready"

\* The uninitialised `next` of a node got in the way of a name.
MeetsWildNode == db.name_set.wild # {} /\ NamesShareBucket(file)

\* A load comes through only if the tree was reached when the file was written
\* and no two names have one code.  It fails only if not, or on a wild `next`
\* that two names meet in one bucket (db.c:92-118).
LoadsExactlyReadable ==
  [][/\ ComesThrough => Readable(file)
     /\ LoadFails => ~Readable(file) \/ MeetsWildNode]_vars

\* What the comments of database_save and database_read promise: all names are
\* written and all names are read, so a file written to its end is one that
\* loads (db.c:77, 104).
CompleteFileLoads == pc = "lost" => ~Complete(file)

\* What "keep version 0 for empty database" takes for granted: an empty
\* database can be saved (README.md:29).
EmptyDatabaseSaves == pc # "save_aborted"

=============================================================================
