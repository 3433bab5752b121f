----------------------- MODULE StoreImplementsThreats -----------------------
(***************************************************************************)
(* DatabaseStore implements ThreatStore.  The names of a database are the  *)
(* members of its set, a name clashed when the array is longer than the    *)
(* set, and the columns are the bytes the nodes of the tree accept.        *)
(***************************************************************************)
EXTENDS DatabaseStore

Digests == { pad_hash_digest(hash) : hash \in Buffers }

ColumnsOf(tree) ==
  [i \in Positions |->
     IF IsEmpty(tree) THEN {}
     ELSE ({tree[i].data} \cup tree[i].neighbors) \cap Bytes]

ContentsOf(aDb) ==
  [capacity |-> aDb.modulo,
   version  |-> aDb.version,
   names    |-> Members(aDb.name_set),
   clash    |-> Len(aDb.names.base) > aDb.name_set.size,
   empty    |-> IsEmpty(aDb.hash_tree),
   columns  |-> ColumnsOf(aDb.hash_tree)]

NoContents == ContentsOf(NoDatabase)

\* A database is in memory once it is completely read.
phaseBar ==
  CASE pc \in {"idle", "reading"} -> "none"
    [] pc = "ready"  -> "open"
    [] pc = "saving" -> "saving"
    [] OTHER         -> "failed"

memBar == IF pc \in {"ready", "saving"} THEN ContentsOf(db) ELSE NoContents

\* The contents of a file that has a tree, with the given columns.
ContentsOfFile(aFile, columns) ==
  [capacity |-> aFile[1].modulo,
   version  |-> aFile[1].version,
   names    |-> { aFile[k].name : k \in NameRecords(aFile) },
   clash    |-> FALSE,
   empty    |-> FALSE,
   columns  |-> columns]

\* Any junk will do: no flag of a byte of digests is beyond the cells kept.
ColumnsInFile(aFile) ==
  LET cells == aFile[Len(aFile)].cells
  IN  ColumnsOf(deserialize_ed_tree(
                  cells, [c \in (0 .. Cells - 1) \ DOMAIN cells |-> 0]))

DiskOf(aFile) ==
  IF ~Readable(aFile)
  THEN [state |-> "broken", contents |-> NoContents]
  ELSE IF Complete(aFile)
       THEN [state    |-> "whole",
             contents |-> ContentsOfFile(aFile, ColumnsInFile(aFile))]
       ELSE [state    |-> "cut",
             contents |-> ContentsOfFile(aFile, [i \in Positions |-> {}])]

diskBar == DiskOf(file)

Threats == INSTANCE ThreatStore WITH
             Names <- Strings, Code <- Hash, Unsteady <- "wild" \in FreshNext,
             phase <- phaseBar, mem <- memBar, disk <- diskBar

\* The database and its file do what the abstract store promises: what was
\* saved is what is loaded, but for the digests of a file whose writer died in
\* the middle of them; nothing is loaded where the names were not all written
\* or clash; and a call that does not come back has a reason (db.c:55-118).
ImplementsThreats == Threats!Spec

=============================================================================
