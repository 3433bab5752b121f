---------------------------- MODULE ThreatStore ----------------------------
(***************************************************************************)
(* What the database library and its file promise, without buckets, nodes  *)
(* or records: a set of names and, for each position of a digest, a set of *)
(* bytes, kept in memory and, when saved, in a file that is whole, or cut  *)
(* short in the digests, or broken.                                        *)
(***************************************************************************)
EXTENDS Naturals

CONSTANTS
  Names, Code,         \* names and what tells them apart for the store
  Positions, Bytes,    \* positions of a digest, bytes of a digest
  Digests,             \* digests, padded: functions from Positions to Bytes
  VersionRange, VersionArgs, Capacities,
  Unsteady             \* whether names may get in each other's way

VARIABLES
  phase,   \* "none", "open", "saving", "failed"
  mem,     \* the contents in memory
  disk     \* the contents in the file, as far as they can be loaded

vars == <<phase, mem, disk>>

\* clash: a name was added whose code another name had.
Contents ==
  [capacity : Nat,
   version  : 0 .. VersionRange - 1,
   names    : SUBSET Names,
   clash    : BOOLEAN,
   empty    : BOOLEAN,
   columns  : [Positions -> SUBSET Bytes]]

NoColumns == [i \in Positions |-> {}]

Fresh(capacity) ==
  [capacity |-> capacity, version |-> 1, names |-> {}, clash |-> FALSE,
   empty |-> TRUE, columns |-> NoColumns]

Nothing == Fresh(0)

\* Contents with digests.
WithColumns(contents, columns) ==
  [capacity |-> contents.capacity, version |-> contents.version,
   names |-> contents.names, clash |-> contents.clash,
   empty |-> FALSE, columns |-> columns]

Clashes(contents, name) ==
  \E other \in contents.names : Code[other] = Code[name]

Disks == [state : {"whole", "cut", "broken"}, contents : Contents]

Whole(contents) == [state |-> "whole", contents |-> contents]

\* The digests are gone.
Cut(contents) ==
  [state |-> "cut", contents |-> WithColumns(contents, NoColumns)]

Broken == [state |-> "broken", contents |-> Nothing]

Init == phase = "none" /\ mem = Nothing /\ disk = Broken

Create(capacity) ==
  /\ phase = "none"
  /\ phase' = "open"
  /\ mem' = Fresh(capacity)
  /\ UNCHANGED disk

AddName(name) ==
  /\ phase = "open"
  /\ mem.capacity > 0
  /\ mem' = IF Clashes(mem, name)
            THEN [mem EXCEPT !.clash = TRUE]
            ELSE [mem EXCEPT !.names = @ \cup {name}]
  /\ UNCHANGED <<phase, disk>>

AddDigest(digest) ==
  /\ phase = "open"
  /\ mem' = WithColumns(mem, [i \in Positions |->
                                mem.columns[i] \cup {digest[i]}])
  /\ UNCHANGED <<phase, disk>>

AddTwoDigests(first, second) ==
  /\ phase = "open"
  /\ mem' = WithColumns(mem, [i \in Positions |->
                                mem.columns[i] \cup {first[i], second[i]}])
  /\ UNCHANGED <<phase, disk>>

\* A version is what remains of a number in its range.
SetVersion(value) ==
  /\ phase = "open"
  /\ mem' = [mem EXCEPT !.version = value % VersionRange]
  /\ UNCHANGED <<phase, disk>>

IncrementVersion ==
  /\ phase = "open"
  /\ mem' = [mem EXCEPT !.version =
               IF @ = VersionRange - 1 THEN 0 ELSE @ + 1]
  /\ UNCHANGED <<phase, disk>>

\* Saving gives up what the file held, then replaces it; what it writes can be
\* loaded only if no name clashed.
BeginSave ==
  /\ phase = "open"
  /\ phase' = "saving"
  /\ disk' = Broken
  /\ UNCHANGED mem

EndSave ==
  /\ phase = "saving"
  /\ ~mem.empty
  /\ phase' = "open"
  /\ disk' = IF mem.clash THEN Broken ELSE Whole(mem)
  /\ UNCHANGED mem

Load ==
  /\ phase = "none"
  /\ disk.state = "whole"
  /\ phase' = "open"
  /\ mem' = disk.contents
  /\ UNCHANGED disk

\* All but the digests, in whose place there may be anything.
LoadCut ==
  /\ phase = "none"
  /\ disk.state = "cut"
  /\ phase' = "open"
  /\ \E columns \in [Positions -> SUBSET Bytes] :
       mem' = WithColumns(disk.contents, columns)
  /\ UNCHANGED disk

\* The calls that do not come back: a name without capacity, a digest scored
\* or saved where there is none, a file that is broken; and, in an unsteady
\* store, a name beside another.
Fail ==
  /\ \/ phase = "open" /\ (mem.capacity = 0 \/ mem.empty)
     \/ phase = "saving" /\ mem.empty
     \/ phase = "none" /\ disk.state = "broken"
     \/ /\ Unsteady
        /\ \/ phase = "open" /\ mem.names # {}
           \/ /\ phase = "none"
              /\ \E name, other \in disk.contents.names : name # other
  /\ phase' = "failed"
  /\ mem' = Nothing
  /\ UNCHANGED disk

\* The program ends or is killed; one that is killed while it saves may have
\* written all but some of the digests, and one whose call did not come back
\* may have gone on with anything and saved it.
Stop ==
  /\ phase # "none"
  /\ phase' = "none"
  /\ mem' = Nothing
  /\ \/ UNCHANGED disk
     \/ phase = "saving" /\ ~mem.empty /\ ~mem.clash /\ disk' = Cut(mem)
     \/ phase = "failed" /\ disk' \in Disks

Next ==
  \/ \E capacity \in Capacities : Create(capacity)
  \/ \E name \in Names : AddName(name)
  \/ \E digest \in Digests : AddDigest(digest)
  \/ \E first, second \in Digests : AddTwoDigests(first, second)
  \/ \E value \in VersionArgs : SetVersion(value)
  \/ IncrementVersion
  \/ BeginSave \/ EndSave \/ Load \/ LoadCut \/ Fail \/ Stop

Spec == Init /\ [][Next]_vars

=============================================================================
