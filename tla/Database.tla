------------------------------ MODULE Database ------------------------------
(***************************************************************************)
(* The value of a database_t (libvalor/src/db/db.c): a set of names, the   *)
(* array of names it is saved from, a tree of digests, a version.  The     *)
(* operators are the functions that change it and the records they write;  *)
(* DatabaseStore is the state machine.                                     *)
(***************************************************************************)
EXTENDS StringSet, EdTree, VArray

CONSTANT VersionRange   \* values of the uint32_t version

ASSUME VersionRangeAssumption == VersionRange \in Nat \ {0, 1}

Versions == 0 .. VersionRange - 1

\* The databases with capacity n.
Databases(n) ==
  [version   : Versions,
   modulo    : {n},
   name_set  : StringSets(n),
   names     : Arrays(Strings),
   hash_tree : Trees]

CreateWithSpare(capacity) ==
  [version   |-> 1,
   modulo    |-> capacity,
   name_set  |-> create_stringset(capacity + 1),
   names     |-> array_create(1),
   hash_tree |-> create_ed_tree]

create_database(capacity) ==
  [version   |-> 1,
   modulo    |-> capacity,
   name_set  |-> create_stringset(capacity),
   names     |-> array_create(1),
   hash_tree |-> create_ed_tree]

AddNameToArray(db, name, next) ==
  [db EXCEPT !.names = array_add(@, name)]

\* Meant for a capacity above 0: stringset_add asserts it.
database_add_name(db, name, next) ==
  [db EXCEPT !.names = array_add(@, name),
             !.name_set = stringset_add(@, name, next)]

AddHashUnpadded(db, hash) ==
  [db EXCEPT !.hash_tree = edt_insert_string(@, hash)]

database_add_hash(db, hash) ==
  [db EXCEPT !.hash_tree = edt_insert_string(@, pad_hash_digest(hash))]

database_add_hashes(db, hashes) ==
  LET after[k \in 0 .. Len(hashes)] ==
        IF k = 0 THEN db ELSE database_add_hash(after[k - 1], hashes[k])
  IN  after[Len(hashes)]

-----------------------------------------------------------------------------
(***************************************************************************)
(* The file is the sequence of the records database_save writes.  The      *)
(* metadata or a name cut short is no record: a reader that meets it, or   *)
(* meets another record than is due, goes on with what its memory held.    *)
(* The tree, by far the longest record, is one as soon as its header is    *)
(* there, with as many cells as have been written.                         *)
(***************************************************************************)
MetadataOfNames(db) ==
  [kind |-> "metadata", version |-> db.version, modulo |-> db.modulo,
   size |-> Len(db.names.base)]

Metadata(db) ==
  [kind |-> "metadata", version |-> db.version, modulo |-> db.modulo,
   size |-> db.name_set.size]

NameRecord(name) == [kind |-> "name", name |-> name]

TreeRecord(tree) == [kind |-> "tree", cells |-> serialize_ed_tree(tree)]

\* The first n cells of the tree.
CutTreeRecord(tree, n) ==
  [kind  |-> "tree",
   cells |-> [c \in { c \in Kept : c < n } |-> serialize_ed_tree(tree)[c]]]

RecordAt(file, k, kind) == k \in DOMAIN file /\ file[k].kind = kind

FromMetadataForgettingVersion(metadata) ==
  [create_database(metadata.modulo) EXCEPT
     !.names = array_create(metadata.size)]

\* The database read so far, after the metadata of the file.
FromMetadata(metadata) ==
  [create_database(metadata.modulo) EXCEPT
     !.version = metadata.version,
     !.names   = array_create(metadata.size)]

NameRecords(file) == { k \in DOMAIN file : file[k].kind = "name" }

HasTree(file) == \E k \in DOMAIN file : file[k].kind = "tree"

\* Everything database_save had to write has been written.
Complete(file) ==
  \E k \in DOMAIN file : file[k].kind = "tree" /\ DOMAIN file[k].cells = Kept

\* Two of the names in the file have the same code, or are the same.
NamesClash(file) ==
  \E j, k \in NameRecords(file) :
    j < k /\ Hash[file[j].name] = Hash[file[k].name]

\* Two of them go to one bucket.
NamesShareBucket(file) ==
  \E j, k \in NameRecords(file) :
    /\ j < k
    /\ Hash[file[j].name] % file[1].modulo = Hash[file[k].name] % file[1].modulo

(***************************************************************************)
(* What database_save writes, of any database and as far as it gets: the   *)
(* metadata, the names, if there is a capacity, and the tree.  The size in *)
(* the metadata is the number of codes the names have.                     *)
(***************************************************************************)
MetadataRecords ==
  [kind : {"metadata"}, version : Versions, modulo : Nat, size : Nat]

WrittenNames == { NameRecord(name) : name \in Strings }

WrittenTrees ==
  { CutTreeRecord(tree, n) : tree \in [Positions -> Nodes],
                             n \in 0 .. Cells - Missing }

\* The names in a file that has a tree.
FileNames(file) == [k \in 1 .. Len(file) - 2 |-> file[k + 1].name]

CodesOfNames(names) == { Hash[names[k]] : k \in DOMAIN names }

WellFormed(file) ==
  /\ file \in Seq(MetadataRecords \cup WrittenNames \cup WrittenTrees)
  /\ file # <<>> => file[1] \in MetadataRecords
  /\ \A k \in 2 .. Len(file) :
       \/ file[k] \in WrittenNames /\ file[1].modulo # 0
       \/ file[k] \in WrittenTrees /\ k = Len(file)
  /\ HasTree(file) =>
       file[1].size = Cardinality(CodesOfNames(FileNames(file)))

=============================================================================
