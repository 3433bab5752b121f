-------------------------------- MODULE Dbgen --------------------------------
(***************************************************************************)
(* dbgen's main (dbgen/src/dbgen.c), run over and over on one database     *)
(* file: it loads the file or creates it, takes the blocks of its options  *)
(* in the order of the source, and saves whether or not anything changed.  *)
(*                                                                         *)
(* An option is chosen when its block is reached.  Arguments models how    *)
(* the command line is parsed before that.  The version, which nothing     *)
(* here depends on, stays what it is; DatabaseStore sets and increments    *)
(* it.  One dbgen runs at a time and nobody removes the file.              *)
(***************************************************************************)
EXTENDS Database, Integers

CONSTANTS
  MaxNames,       \* bound on the number of names in a database
  CapacityArgs,   \* what --capacity may be given
  CapacityRange,  \* values of a db_size_t
  Files,          \* what --add-threat and --check-threat may be given
  Digest,         \* Digest[fname]: the fuzzy digest, if fname can be hashed
  StrayFiles      \* as in DatabaseStore

ASSUME DbgenAssumption ==
  /\ CapacityArgs \subseteq Int
  /\ CapacityRange \in Nat \ {0}
  /\ MaxNames \in Nat
  /\ DOMAIN Digest \subseteq Files
  /\ \A fname \in DOMAIN Digest : Digest[fname] \in Buffers

VARIABLES
  db, pc, todo, file,   \* as in DatabaseStore
  exists,    \* whether there is a file
  block,     \* the part of main that comes next
  dirty,     \* history: no one has written the file to its end since it was
             \* created or truncated
  pending,   \* history: what this invocation was asked to add
  asked,     \* history: what all were asked to add
  acked,     \* history: what those that exited successfully were, as far as
             \* no one has given it up
  sound      \* history: the parts of a database that have never been
             \* made up

\* A capacity is an int64_t that is passed as a db_size_t.
Capacity(arg) == arg % CapacityRange

Capacities == { Capacity(arg) : arg \in { arg \in CapacityArgs : arg >= 0 } }

Store == INSTANCE DatabaseStore WITH VersionArgs <- {}

ASSUME StrayAssumption ==
  \A stray \in StrayFiles : WellFormed(stray) \/ stray = Store!Garbage

store == <<db, pc, todo, file>>
history == <<dirty, pending, asked, acked, sound>>
dbgen == <<db, pc, todo, file, exists, block, dirty, pending, asked, acked, sound>>

Nothing == [names |-> {}, digests |-> {}]

Both(one, other) ==
  [names   |-> one.names \cup other.names,
   digests |-> one.digests \cup other.digests]

Init ==
  /\ Store!Init
  /\ exists = FALSE
  /\ block = "open"
  /\ dirty = FALSE
  /\ pending = Nothing
  /\ asked = Nothing
  /\ acked = Nothing
  /\ sound = {"names", "digests"}

-----------------------------------------------------------------------------
\* access succeeds; the records are then read one by one.
OpenExisting ==
  /\ block = "open"
  /\ exists
  /\ Store!ReadMetadata
  /\ block' = "check_name"
  /\ UNCHANGED <<exists, history>>

\* fopen creates the file before the capacity is looked at.
OpenNew(arg) ==
  /\ block = "open"
  /\ pc = "idle"
  /\ ~exists
  /\ exists' = TRUE
  /\ dirty' = TRUE
  /\ IF arg < 0
     THEN UNCHANGED <<store, block>>
     ELSE Store!Create(Capacity(arg)) /\ block' = "check_name"
  /\ UNCHANGED <<pending, asked, acked, sound>>

ReadsName ==
  /\ Store!ReadName
  /\ UNCHANGED <<exists, block, history>>

\* If the file is dirty the tree ends early, and what fills it up is no digest.
ReadsTree ==
  /\ Store!ReadTree
  /\ acked' = IF pc' = "ready" /\ dirty
              THEN [acked EXCEPT !.digests = {}] ELSE acked
  /\ sound' = IF pc' = "ready" /\ dirty THEN sound \ {"digests"} ELSE sound
  /\ UNCHANGED <<exists, block, dirty, pending, asked>>

\* The order of the blocks.
After ==
  [check_name   |-> "add_name",
   add_name     |-> "add_threat",
   add_threat   |-> "check_threat",
   check_threat |-> "version",
   version      |-> "save"]

\* An option that is not given, or whose block changes nothing.
Passes ==
  /\ pc = "ready"
  /\ block \in DOMAIN After
  /\ block' = After[block]
  /\ UNCHANGED <<store, exists, history>>

CheckNameFails(name) ==
  /\ block = "check_name"
  /\ Store!CheckNameFails(name)
  /\ UNCHANGED <<exists, block, history>>

AddName(name) ==
  /\ block = "add_name"
  /\ Store!AddName(name)
  /\ block' = After[block]
  /\ pending' = [pending EXCEPT !.names = @ \cup {name}]
  /\ asked' = [asked EXCEPT !.names = @ \cup {name}]
  /\ UNCHANGED <<exists, dirty, acked, sound>>

AddThreat(fname) ==
  /\ block = "add_threat"
  /\ fname \in DOMAIN Digest
  /\ Store!AddHash(Digest[fname])
  /\ block' = After[block]
  /\ pending' = [pending EXCEPT !.digests = @ \cup {Digest[fname]}]
  /\ asked' = [asked EXCEPT !.digests = @ \cup {Digest[fname]}]
  /\ UNCHANGED <<exists, dirty, acked, sound>>

CheckThreatFails ==
  /\ block = "check_threat"
  /\ Store!CheckHashFails
  /\ UNCHANGED <<exists, block, history>>

-----------------------------------------------------------------------------
\* The file is truncated where it is.
Truncate ==
  /\ block = "save"
  /\ Store!Truncate
  /\ block' = "exit"
  /\ dirty' = TRUE
  /\ UNCHANGED <<exists, pending, asked, acked, sound>>

Saves ==
  /\ Store!SaveMetadata \/ Store!SaveName
  /\ UNCHANGED <<exists, block, history>>

\* The tree is the last record; fclose.
SaveTree ==
  /\ Store!SaveTree
  /\ dirty' = (pc' # "ready")
  /\ UNCHANGED <<exists, block, pending, asked, acked, sound>>

\* Nothing of an invocation outlives it but the file.
Forgets ==
  /\ block' = "open"
  /\ pending' = Nothing
  /\ UNCHANGED <<exists, asked>>

\* return 0
Exit ==
  /\ block = "exit"
  /\ pc = "ready"
  /\ Store!Crash
  /\ Forgets
  /\ acked' = Both(acked, pending)
  /\ UNCHANGED <<dirty, sound>>

DiesWithSuccess ==
  /\ pc = "ready"
  /\ block \in {"add_threat", "check_threat", "version"}
  /\ Store!Crash
  /\ Forgets
  /\ acked' = Both(acked, pending)
  /\ UNCHANGED <<dirty, sound>>

\* die: for a file that cannot be opened or hashed, for a negative version.
Dies ==
  /\ pc = "ready"
  /\ \/ block \in {"add_threat", "check_threat"} /\ Files # DOMAIN Digest
     \/ block = "version"
  /\ Store!Crash
  /\ Forgets
  /\ UNCHANGED <<dirty, acked, sound>>

\* dbgen is killed.
Crash ==
  /\ Store!Crash
  /\ Forgets
  /\ UNCHANGED <<dirty, acked, sound>>

\* It aborted, or fell where it was lost.
Restart ==
  /\ Store!Restart
  /\ Forgets
  /\ UNCHANGED <<dirty, acked, sound>>

\* It was lost and saved something else: all that was acknowledged is given up.
GoesOn ==
  /\ Store!GoesOn
  /\ Forgets
  /\ dirty' = TRUE
  /\ acked' = Nothing
  /\ sound' = {}

Next ==
  \/ OpenExisting \/ ReadsName \/ ReadsTree \/ Passes
  \/ \E arg \in CapacityArgs : OpenNew(arg)
  \/ \E name \in Strings : CheckNameFails(name) \/ AddName(name)
  \/ \E fname \in Files : AddThreat(fname)
  \/ CheckThreatFails
  \/ Truncate \/ Saves \/ SaveTree
  \/ Exit \/ Dies \/ Crash \/ Restart \/ GoesOn

Spec == Init /\ [][Next]_dbgen

-----------------------------------------------------------------------------
(***************************************************************************)
(* Properties                                                              *)
(***************************************************************************)

Holds == pc \in {"ready", "saving"}

\* What an invocation that exited successfully added is found by every later
\* one that comes through its load, however many deaths and crashes, loads and
\* saves there were in between.  An invocation that was lost may have done away
\* with all of it, and a tree that was cut short with the digests: what is
\* added after that is kept again (dbgen.c:46-145).
AckedIsKept ==
  Holds =>
    /\ \A name \in acked.names : stringset_check(db.name_set, name)
    /\ \A hash \in acked.digests :
         edt_get_distance_to_existing(db.hash_tree, pad_hash_digest(hash)) = 0

Accepted(tree, i) == ({tree[i].data} \cup tree[i].neighbors) \cap Bytes

\* Nothing else is found than some invocation was asked to add: no other name,
\* and no digest with a byte none of theirs has there (db.c:71-118).
NothingInvented ==
  Holds =>
    /\ "names" \in sound => Members(db.name_set) \subseteq asked.names
    /\ "digests" \in sound /\ ~IsEmpty(db.hash_tree) =>
         \A i \in Positions :
           Accepted(db.hash_tree, i)
             \subseteq { pad_hash_digest(hash)[i] : hash \in asked.digests }

\* A load fails only on a file whose writer did not get to its end, on names
\* that clash or on a wild `next`: no sequence of invocations that all exit
\* successfully breaks the file otherwise (dbgen.c:52-61, 137-143).
LoadFailsForAReason ==
  [][Store!LoadFails => dirty \/ NamesClash(file) \/ Store!MeetsWildNode]_dbgen

=============================================================================
