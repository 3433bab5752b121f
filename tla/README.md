# Verification of Valor

Valor kills programs that a signature database names. A database holds *names*
of programs and *fuzzy digests* (ssdeep) of executables. `dbgen` builds and
edits database files, the daemon `valord` loads one and then, every
three seconds, reads `/proc` and kills every process whose name or executable matches. Both
use the library `libvalor`.

This directory holds TLA+ modules translated from that code, TLC
configurations that check them on small instances, and theorems checked by
TLAPS. `PROJECT.json` gives, for every definition that models code, the lines it
models, and for every property a plausible bug that breaks it.

    tlc -workers 2 -config MCStore.cfg MCStore      # one run
    tlapm StringSet_proofs.tla                      # one module of proofs

Contents: [1 inventory](#1-the-system) · [2 modules](#2-the-modules) ·
[3 properties and runs](#3-what-the-runs-check) ·
[4 proofs](#4-what-is-proved) · [5 disagreements found](#5-where-the-code-disagrees) ·
[6 limits](#6-what-is-not-modelled) · [7 plan](#7-plan)

## 1 The system

| component | source | state it keeps | operations |
|---|---|---|---|
| string set | `libvalor/src/hashset.c:83-160` | `capacity`, `size`, a chain of nodes per bucket | create, add, check, destroy |
| integer set | `hashset.c:19-81` | the same without strings | create, add, check, destroy |
| digest tree | `ed_tree.c` | per position of a digest: a byte and a set of flags | create, insert, distance, serialize, deserialize, free |
| database | `db/db.c` | version, capacity, the string set, the array of names, the tree | create, add name/hash/hashes, check name/hash, save, read, free |
| database file | `db/db.c:71-118` | a sequence of records: metadata, names, tree | written and read record by record |
| array | `array.c` | base, size, capacity | create, add, in, free (pop, cat, cpy, del are neither declared in `array.h` nor called) |
| hash table | `hashtable.c` | buckets of key/value nodes | create, add, get, check, destroy |
| dbgen arguments | `dbgen/src/arguments.c` | table of options, list of compulsory ones | register, parse, check, get, finalize |
| dbgen | `dbgen/src/dbgen.c` | one database, one file | open or create, check, add, version, save |
| valord | `valord/src/valor.c`, `process.c` | the database, the list of processes of a scan, `need_shutdown` | start, scan, judge, kill, sleep, SIGTERM |
| log, messages, assertions, helpers | `log.c`, `message.c`, `aassert.c`, `util.c` | none | formatted output, exit |
| CRC-32 | `crc32/` | two global registers | third-party, called by nothing |

**How they interact.** dbgen and valord call libvalor; libvalor is sequential and
has no global state. dbgen is a tool of the host (`dbgen/Android.bp`): it
truncates the database *file* and writes it in place (`dbgen.c:137-142`), one
invocation after the other. The file is then installed on the device, where valord
reads it once when it starts (`valor.c:44-54`) and nobody writes it; the two never
have it open at one time. valord shares `/proc`, that is the PID space, with all
other processes, and has one asynchronous entry, `sigterm_handler`.

**What is hard here, and what makes each component correct.**

- *String set.* Equality is decided by a 32-bit code when adding and by code and
  string when looking up; the outcome depends on the order of the calls. A
  lookup must never find what was not added, an addition must never lose a
  member, and the size must be what it is later used as.
- *Digest tree.* Digests are merged position by position, the first in another
  field than the rest, from buffers with leftovers after the NUL; the saved form
  loses its last bytes where `ssize_t` is shorter than `uint64_t`. The tree must
  accept exactly the bytes of the digests added, through saves and loads.
- *Database and file.* The number of names written comes from one structure and
  the names from another; the old file is gone before the new one is there; no
  result of `fread` is looked at, so that a tree cut short is completed from
  whatever the buffer held and accepted. What is loaded must be what was saved, and
  a file that cannot be loaded must be one that was not completely written.
- *dbgen.* Every invocation reads the file, changes the database block by block
  and may die in between; it saves whether or not anything changed, also what it
  made of a file that was cut short. What an
  invocation that exits with success was asked to add must survive all that
  later invocations do and die of, as long as the file they leave is whole.
- *Array.* Its capacity grows by one at a time and starts as 1, as a number read
  from a file or as 0; what is in it must always fit.
- *valord.* A scan is many steps and every other process moves between them:
  a PID is listed, its command line read, its executable opened and the PID
  killed at four different times. No threat that was there all along may be
  missed, and nothing may be killed that no matching process led to.

The hazards, each at the line where it bites and with the properties aimed at
it, are listed in `PROJECT.json`.

## 2 The modules

    StringSet ----+--> StringSetSpec --> StringSetImplementsCodes --> MCStringSet
                  |                        (INSTANCE HashSetSpec)
    HashSet ------------> HashSetSpec ------^
                  |
    EdTree -------+--> EdTreeSpec -----> MCEdTree
                  |
    VArray -------+--> Database --+--> DatabaseStore --> StoreImplementsThreats --> MCStore
       |                          |      ^    ^            (INSTANCE ThreatStore)
       |                          |      |    |
       |                          +--> Dbgen -+-> Deployment --> MCDeployment
       |                          |      (INSTANCE DatabaseStore)
       |                          +--> Valord ----------> MCValord
       |
       +-> HashTable -------> Arguments ------> MCArguments

and the proofs beside them:

    LibraryLemmas (StringSet, EdTree) --+--> StringSet_proofs   (StringSetImplementsCodes)
                                        +--> EdTree_proofs      (EdTreeSpec)
                                        +--> DatabaseLemmas     (Database)
                                               +--> DatabaseStore_proofs (StoreImplementsThreats)
                                               |      ^ INSTANCE
                                               +--> Deployment_proofs    (Deployment)
    Valord_proofs (Valord)         Arguments_proofs (Arguments)

The functions of libvalor change a structure through a pointer and return. They
are operators from values to values (`stringset_add(set, str, next)`,
`edt_insert_string(tree, string)`, `database_add_name(db, name, next)`), kept in
the modules `StringSet`, `HashSet`, `EdTree`, `VArray`, `HashTable` and `Database` without variables, so that the
state machines that use them share one definition. A state machine has one
action per call or, where the world can intervene inside a call, per step.

**StringSet, StringSetSpec.** `set.chain[b]` is the list at `node_table[b]`.
`AddStops` is the walk of `stringset_add`, which ends at the first node with the
code; `stringset_check` ends at a node with code and string. A fresh node's
`next` is never written (`make_stringnode`), so it holds "null" or "wild"
(`FreshNext`), and a walk that follows a wild one leaves defined behaviour:
`status = "lost"`. A capacity of 0 aborts an addition (assertion) and loses a
lookup (remainder by zero). `added` is a history variable.

**HashSet, HashSetSpec, StringSetImplementsCodes.** The integer set is the first
half of `hashset.c`, which the second half repeats for strings. No program uses
it, so it serves as the specification of the string set: without its strings, a
string set *is* the integer set of their codes, bucket by bucket and node by
node (`CodesOf`), and each call on the one is the same call on the other. A
string set whose walk leaves through an uninitialised `next` maps to an integer
set that is not used any more.

**Djb2.** `hash_djb2` as a recursive function on sequences of bytes, used by the
MC modules to give names their real codes ("ab" and "bA" share one).

**EdTree, EdTreeSpec.** A tree is a function from positions to nodes
(`data`, `neighbors`); the tree with no root is the function with no position.
`Buffers` are the byte arrays the fuzzy-hash library fills: a C string, then
anything. `serialize_ed_tree` is modelled cell by cell with the index arithmetic
of the source (`FlagCell`), including the cells that a short `ssize_t` leaves out
of the file; what the reader finds in place of cells that are not in the file is
nondeterministic (`Junk`).
`Reload` is a save followed by a load.

**VArray.** An array is its elements and the capacity it was allocated with.
`ExtendsFor` is the test of `array_add`, one earlier than it need be, and
`InBounds` what it is for. The databases, hash tables and arguments hold such
arrays.

**Database, DatabaseStore.** `Database` puts the two together and defines the
file records. `DatabaseStore` runs a program over one file: `Create`, `AddName`,
`AddHash(es)`, the version changes, the failing lookups, `Free`; a save is
`Truncate`, `SaveMetadata`, one `SaveName` per name, `SaveTree`; a load is
`ReadMetadata`, one `ReadName` per name the *metadata* announces, `ReadTree`.
`Crash` may come between any two steps and leaves any prefix of what was being written, because stdio decides
what has reached the file. The tree, some 38 KB with the source's constants, is
the one record of several blocks: it may be cut at any cell (`CutTreeRecord`), and
`ReadTree` then does what `database_read` does, which ignores the result of `fread`:
it completes the tree with anything and returns.

A reader that does not find the record that is due at all is "lost": it takes what
its buffers held for metadata, lengths and names, and its behaviour is not
defined. A program that is lost may fall (`Restart`), or go on, save and exit as if
nothing had happened (`GoesOn`). What it saves is one of the constant `StrayFiles`,
about which nothing is assumed but that it is `WellFormed`, a file that some
database could have been saved to, whole or cut, or `Garbage`, which stands for every
file no load comes through, such as one with another number of names than its
metadata announces. Lookups that
return do not change anything and are not actions here; they are in the two smaller
state machines and in `Valord`.

**ThreatStore, StoreImplementsThreats.** The abstract store: a set of names, a
set of bytes per position, a version, in memory and in a file which is whole, or cut
in the digests, or broken. It has no buckets, chains, records or partial reads. A
whole file loads as what was saved, a cut one as all of that with *any* digests, a
broken one not at all; a program whose call did not come back may leave anything.
`Unsteady` says whether names may get in each other's way, which is what a wild
`next` comes to without chains. The refinement mapping takes the names from the
chains, the columns from the tree (or from the cells of the file), and calls a file
broken unless it has a tree and no two of its names share a code.

**Dbgen.** `main` of dbgen, one invocation after the other on one file. It is
composed from the steps of `DatabaseStore` (`Store!AddName`, `Store!Truncate`,
...), which it puts in the order of the source: `block` is the part of `main` that
comes next, and `After` the order of the parts. `OpenNew` creates the file *before*
it looks at the capacity, `Dies` is every `die` in a block, `Exit` the successful
end, `Crash` a death at any point. An option is chosen when its block is reached;
how the line is parsed is in `Arguments`. The rest is history. `pending`, `asked` and
`acked` are what this invocation, all invocations and those that exited with success
were asked to add; `dirty` says that nobody has written the file to its end since it
was created or truncated; `sound` names the parts of a database that were never
made up. A tree loaded from a dirty file gives up the acknowledged digests
(`ReadsTree`), a lost program that goes on all there is (`GoesOn`): the code has
nothing that would notice either, and the next successful exit acknowledges anew.

**Deployment.** `Dbgen` and the daemon that loads the file (`Boot`, `DaemonReads`,
`DaemonChecksName`, `DaemonEnds`). The device has a copy of the file as it was
between two invocations. As nothing depends on a daemon, one copied at any moment
and booted later is a daemon that runs there and then, in the place of a dbgen; the
properties of what a program has in memory are then those of both. The scans of the
daemon are left to `Valord`, which starts with any database.

**Valord.** `procs` is the kernel's table: each PID stands for a process or for
none, processes are numbered, so that a reused PID is told apart. `Spawn`,
`Exec` and `Exit` are the environment; they run between any two steps of the
daemon. The daemon's steps are those of the source: `Loop` (head of `while`,
`opendir`), `Readdir`, `GetProcess` (reads `cmdline`; skips a process that is
gone or of whose command line `fgets` reads nothing; one that begins with a NUL has
the name "" and stays in the list), `Judge` (`database_check_name`), `HashExe` (opens
`/proc/PID/exe` *now* and scores it), `Kill` (`kill(pid, 9)` on whoever has the PID
*now*), `EndScan`, `Wake`. `present`, `suspects`, `culprit`, `sigterm` are history
variables.

**HashTable, Arguments.** A program registers its options (`Add`, in any order,
also twice under one name), then `Parse` takes a command line and `ParseNext`
is one turn of the loop: an option and, unless it is a flag, the word after it.
`heap` is what the pointers in the table lead to. `ParseEnd` is what follows the
loop: help, or the check of compulsory arguments with the index the code uses.
`pc` tells a line that is refused from a programming error that is fatal, which
the code does not (both `die`). An element of an argument's array points to the
argument's one value member, so only their number (`pushed`) is state.

## 3 What the runs check

Runs that must pass:

| run | checks | shows |
|---|---|---|
| `stringset` | `TypeOK`, `SizeCountsCodes`, `AnswerIsFirstWithCode`, `CodesAreThoseAdded`, `MembersAreKept`, `ImplementsHashSet` | a lookup is right exactly for the first string with its code; the size counts codes; no member is lost, in whichever chain and with uninitialised nodes about; with codes for strings it implements the integer set, which finds exactly the codes added |
| `edtree` | `TypeOK`, `ColumnsExact`, `AnswerExact`, `NeverTooFar`, `ScoresOnlyDrop` | the tree accepts exactly the bytes of the digests added, whatever followed their NUL and through saves and loads; a threat is never scored further away than from a digest added |
| `store` | `TypeOK`, `SetFollowsNames`, `LoadsExactlyReadable`, `ImplementsThreats` | the names fit the array that holds them; array and set agree; a load comes through only where the writer got as far as the tree and no names clash, and fails only elsewhere or at a wild node; the whole implements the abstract store, wherever the program crashed |
| `deployment` | `TypeOK`, `AckedIsKept`, `NothingInvented`, `LoadFailsForAReason` | what successful invocations added is found by every later dbgen and daemon, until a lost program or a cut tree gives it up; nothing is found that nobody asked to add; a load fails only on a file that was not written to its end, on names that clash or at a wild node |
| `valord` | `TypeOK`, `ScanMissesNoThreat`, `InnocentKilledOnlyByReuse` | a detectable process there during a whole scan is dead at its end; a process that never matched dies only by inheriting the PID of one that did |
| `valord_ends` | `ThreatsEnd` | while the daemon runs, no process keeps a matching name, or a matching executable, for ever |
| `arguments` | `TypeOK`, `TableIsRegistry`, `ParsedAsGiven`, `VerdictIsRight` | whatever is registered, in whichever bucket, is found; each argument ends up with its last occurrence, no option is taken for a value or the other way round, and only wrong lines are refused |

Runs that must find a violation, each of something the repository says (section
5): `stringset_wild`, `store_reads_all`, `store_empty`,
`valord_sigterm`, `arguments_required`.

**Bounds, and why they are enough.**

- *stringset*: four names, two of which share their real djb2 code, and 0 to 3
  buckets, so that chains of one, two and three nodes, clashes of codes and
  clashes of buckets alone all occur. There is no bound on the number of calls;
  the state space is finite because the set is.
- *edtree*: 3 positions, 4 values of a byte, digests over 2 letters: texts of
  length 0, 1 and 2, every leftover after the NUL. `SizeofSsize` is one less than
  `HeaderSkip`, so that one flag is lost by a save; what is read in its place may
  be what was lost, so the builds that lose none are included.
- *store*: three names, two clashing, capacity 0 and 2, two versions, `--set-version`
  beyond them, one position of two bytes, `MaxNames` = 2 names in a database: enough
  for a duplicate, a clash and two distinct names in one bucket, and for a crash
  before, between and after the records and before each of the three cells of the
  tree. `FreshNext` is "null" or "wild" at each addition. `StrayFiles` are one of no
  use, one of another database with another digest, and that one cut short. 155
  thousand states, one minute.
- *deployment*: two names, each of which may be added twice (`MaxNames` = 2), which
  to a load is what two names with one code are; two files that can be hashed, with
  different digests, and one that cannot; capacities -1, 1 and 16 with
  `CapacityRange` = 16, that is, one that is refused, one that is meant, with every
  name in one bucket, and one that is 0 once it is stored. Two positions of two bytes
  make a tree of six cells that may be cut at each; one of the `StrayFiles` is a whole
  file with a name and a digest nobody asked for. The number of invocations and of
  boots is not bounded. About 1.7 million states, one to two minutes.
- *valord*: three PIDs, of which one is the daemon's, one cannot be killed; a
  third process may be started after one has ended, so a PID is reused
  (`MaxProcesses` = 3). Images: a kernel thread, a threat by name (with a
  newline in its command line), a threat by digest (with a command line that begins
  with a NUL), an innocent. `CommMax` is 2
  and not 255. `MATCH_THRESHOLD` is 1 on a digest of two bytes and not the
  source's value; only the comparison matters. The databases come with and
  without a wild node, and one has the capacity 0. `valord_ends` has two PIDs, three processes and the clean
  database.

- *arguments*: `--help` and up to three more options of every type and way of
  registration, two of them under names that may be taken, in two buckets of
  which each holds two; lines of up to four words, so two options with values, an
  option that is last, repeated, unknown, or the value of another, and a line
  longer than the list of arguments.

**Deadlock** is not checked: the runs stop legitimately, a set when it is
destroyed or lost, a daemon when it has ended, which ends the environment too
(nothing about it is of interest afterwards); in `DatabaseStore` and
`Deployment` the programs are always started again.

**Fairness.** Only `Valord` has any: `WF_vars(Daemon)`, the kernel schedules the
daemon and its system calls and `sleep(IDLE_TIME)` return. `StartFails`, `OpendirFails`,
`Sigterm` and everything the other processes do is not fair: it need not
happen. Strong fairness is not needed, because each step of the daemon stays
enabled until it is taken: `IsNextEntry` may point to another PID, but one of
the two outcomes of `Readdir` is always possible.

`ThreatsEnd` is stated separately for matching by name and by digest. A process
that changes by `exec` between an image that matches by name only and one that
matches by digest only can escape for ever, by being the one when it is looked
at as the other; the code cannot exclude that and the property does not claim it.

## 4 What is proved

Every invariant and every action property of the passing runs, and both
refinements, are theorems; the runs show them on a small instance, the theorems for
every value of the constants, under the named assumptions of the modules. These
are what the code gives, and TLC evaluates each of them on the constants of a run:

| assumption | says |
|---|---|
| `StringSetAssumption` | a hash is a natural number; a fresh `next` is "null" or "wild" |
| `CapacitiesAssumption`, `StoreAssumption` | capacities are natural numbers, 0 included; so are the bound on the names and what the version is set to; a lost program leaves a file that some database could have been saved to, as far as it got, or `Garbage` |
| `EdTreeAssumption` | a tree has a position and a char has values; the flags the blob leaves out are fewer than those values, and a digest is made of non-zero bytes whose flags are all in the blob |
| `VersionRangeAssumption` | a version has more than one value |
| `DbgenAssumption` | a capacity is an integer that is stored modulo `CapacityRange`; what can be hashed has one digest; `StrayAssumption` says of lost programs what `StoreAssumption` does |
| `ValordAssumption` | the daemon is one of the processes, a pid is positive; the name in an image's command line is a string, the digest of an image a buffer; the databases the daemon may load hold a digest |
| `HashTableAssumption`, `ArgumentsAssumption` | a hash is a natural number and there is a bucket; options are of one of three types; the null pointer is none of the objects |

An invariant that is inductive was checked by TLC, as an invariant of a run with the
constants of section 3, before it was proved.

**LibraryLemmas, DatabaseLemmas.** What the operators return. For sets: what an
addition leaves and adds (`AddShape`, `AddEffect`), and when a lookup finds
(`MembersAreFound`). For trees: `RoundTrip`, deserialising what was serialised
gives back the data of every node and the flags of every byte a digest can have,
*whatever* is read where the layout was cut off. It rests on `FlagKept`, which is
arithmetic on the layout: the flag of a byte below `CharRange - Missing` is inside
the blob at every position; this is why a 32-bit build gets away with the short
header. For databases: `Sound` is what no call breaks (`AddNameSound`,
`AddHashSound`, ...), and `CodesDiffer` is when the number of codes is the
number of names (`CountCodes`). For files: `WellFormed` is what saving has written at
any moment, and what each record adds to it.

**StringSet_proofs.** `IInvHolds`: `Spec => []IInv`. `TypeOK` and
`SizeCountsCodes` say nothing of which chain a node hangs in, so `IInv` adds
`WalksMeetCodes` (a walk for a string meets a node with its code exactly when
some string with that code was added) and `WalksFindFirst` (it meets the string
itself exactly when that was the first with its code), both of which hold because
the bucket of a string depends on its code alone. From it follow `TypeCorrect`,
`SizeIsNumberOfCodes`, `LookupsAreFirstWithCode`, `CodesHeldWereAdded` and, as an
action property, `MembersNeverLost`. `CodesRefine` is the refinement of the integer
set: `CodesOf` of the result of a call is the result of the same call of
`HashSet` on `CodesOf` (`CodesOfAdd`), since the two walks meet the same codes
(`WalksAgree`); a walk that gets lost, or a set that is destroyed, is the end of the
integer set.

**EdTree_proofs.** The inductive invariant is `TypeOK`, `ColumnsExact`,
`AnswerExact` and `EmptyIffNothingStored`; the last is needed because the first
insertion takes another branch than the others. From it follow `TypeCorrect`,
`ColumnsAreExact`, `AnswersAreExact`, `ScoresNeverTooFar` and
`ScoresOnlyEverDrop`.

**DatabaseStore_proofs.** `IInv` says that the database in memory is `Sound`, that
the file is `WellFormed` (or what a program that lost its way left), and, in the
middle of a save or a load, where the program is in the file: in `SavesInOrder` the
file is the metadata of `db` and all its names but the last `todo`, in `ReadsInOrder`
the names in `db` are the first of the file and `todo` is what the metadata counted
besides. It gives `TypeCorrect` (the names fit their array) and `NamesFollowed`.
For loads it gives `NameIsNext` and `TreeIsNext`: the record that is due is there
exactly if the file has a tree and as many names as codes. A walk that does not come
back has met a wild node of an earlier name in its bucket (`LostMeetsWild`). Hence
`LoadsReadable` and, step by step, the refinement `StoreRefines` of `ThreatStore`,
where the records before the last are stutters, `SaveTree` and `ReadTree` are the
abstract save and load, of a whole file or of a cut one, and a walk that meets a wild
node is the failure of an unsteady store. Neither has a hypothesis on `FreshNext`:
`make_stringnode` never writes `next`, so a fresh one may hold anything.

**Deployment_proofs.** `IInv` is that of `DatabaseStore`, whose lemmas are taken over
by `INSTANCE DatabaseStore_proofs` instead of being proved again; `InBlocks`, where
main is, what there is before the file exists, and that a file which is not `dirty`
is complete; and `History`, which relates what was acknowledged and asked for to
the file and to memory. `FileKeeps`: a file with a tree has the names acknowledged,
and a complete one the digests too. `MemoryKeeps`: a database in memory has them, an
acknowledged name as the first with its code, and what is pending. `Written`: at the
end of main the file has what memory has, so that `Exit` may acknowledge what is
pending. `NamesAsked` and `DigestsAsked`: neither has anything besides what was asked
for, as long as no part was made up. `AckedKept` needs that an acknowledged name stays
*first*: it was found by a load, and a load that comes through has read names that
do not clash (`LoadedFile`). Hence `TypeCorrect`, `AckedKept`, `NoneInvented` and
`FailsForAReason`, for every hash function, size of a digest, content of a fresh
node, cut of a tree and file left by a lost program.

**Valord_proofs.** Two invariants, each kept by the steps of the daemon and by
whatever the other processes do between them. `IInv` (`IInvHolds`) follows a
process by its number: whoever matches is a suspect (`MatchingAreSuspects`), an
entry of the list with a matching name is of a suspect (`EntriesAreKnown`), the
number behind a PID only grows (`NumbersGrow`), and a kill that is due aims at a
suspect or at a later process of its PID (`KillIsFounded`). It gives
`TypeCorrect` and `InnocentsAreSafe`. `ScanInv` follows a scan: a process that
was there unchanged since it began and whose PID the directory has passed is in
the list or was skipped for having no command line (`PassedAreListed`), and a
threat that is still alive is ahead of the daemon in the list
(`ThreatsAreAhead`). At the end nothing is ahead, hence `ScansMissNoThreat`. What
the lookups compute is not opened there: these theorems hold for whatever the
database answers, so long as it answers the same to the same question.

**Arguments_proofs.** `IInv` has three parts. `TableOf` says of the hash table
which nodes are in which bucket and that the arrays list them
(`AddToTable` keeps it, `TableFinds` uses it); `HeapFollows` says that the
`argument_t` of an option is as it was registered but for what the line changes;
`InStep` says of the loop that it has stopped at the options before word `i` and at
nothing else, that `i` is at the next one, and that each argument has what the
options before `i` gave it. What is an option is defined by recursion over the line
(`IsOption`), and that it is the function its equation describes is proved by
induction, for lines of any length (`IsOptionUnfolds`). The theorems of the library
that take a predicate cannot be used, as no installed prover instantiates them;
`SetInduction` has a set in its place and follows from the well-foundedness of the
natural numbers (`HasLeast`). From `IInv` follow `TypeCorrect`,
`TableIsTheRegistry`, `LinesParsedAsGiven` and `VerdictsAreRight`, in spite of
finding 5: the check of compulsory arguments accepts lines it should refuse, but
refuses none that it should accept.

**Only model-checked:** the liveness property `ThreatsEnd`, which needs ENABLED and
fairness and is out of the prover's reach; the five findings; and what `hash_djb2`
computes, which no theorem depends on, as `Hash` is any function there.

## 5 Where the code disagrees

Each is a run that TLC must find violated.

1. `stringset_wild` – `make_stringnode` never writes `next` and allocates the
   size of another type (`hashset.c:85-91`); the lookup of an absent string, which
   the unit test makes, walks through it.
2. `store_reads_all` – the file announces `name_set->size` names and holds
   `names->size`. Once a name was added twice, or two names share a code, the file
   can never be read again.
3. `store_empty` – a database without digests aborts while it is saved, after
   its file was truncated; the project's README suggests a version for *empty*
   databases.
4. `valord_sigterm` – the handler for SIGTERM sets `need_shutdown` for every signal
   but SIGTERM (`valor.c:28`): the loop never ends.
5. `arguments_required` – the check of compulsory arguments reads the argument at
   index `argc` again and again (`arguments.c:184`): `dbgen --increment-version` is
   accepted without `--db`, and a line of eleven words reads past the
   last argument.

Also met: `stringset_add` compares codes only (`hashset.c:114`), so a string that
collides with a member is dropped without a word and never found
("ab" and "bA" collide); `AnswerIsFirstWithCode` says exactly when, and
`CodesAreThoseAdded` that the codes themselves are kept.

A file whose writer died in the middle of the tree loads without a complaint
(`db.c:116` ignores the result of `fread`), with whatever the buffer held in place of
the rest: digests that were acknowledged may be missing, others may match, and the
next dbgen saves that as a whole file and exits 0. `AckedIsKept` and
`NothingInvented` except exactly this and what a lost program saves; nothing in the
repository claims otherwise, so no run is about it.

Also met, and not checked against anything: the distance of the digest tree is
per position against *all* stored digests, so a mixture of two of them scores
0, where the header speaks of the Levenshtein distance to the stored strings
(`ed_tree.h:11-12`; `AnswerExact` says what is computed); `-h` and
`--check-entry` ("... and exit", `dbgen.c:24`) do nothing but switch the check of
compulsory arguments off;
every element of an array argument shows the value given last. Kernel threads and
processes whose command line is empty altogether are never looked at, whatever they
execute (`process.c:48`, `:97`); `ScanMissesNoThreat` and `ThreatsEnd` say so in
`Detectable` and `HasExe`. A command line that only *begins* with a NUL gives the name
"" (and reads the byte before the buffer, `process.c:63`); the process is listed and
its executable hashed.

## 6 What is not modelled

- *Memory outside objects.* `array_create(0)` writes element 0 of an empty
  allocation, `make_stringnode` allocates too little, `serialize_ed_tree` writes
  past the blob on 32-bit builds, `buffer[len - 1]` with an empty line. The
  models have the consequence the code relies on (uninitialised `next`, lost
  flags) and not the corruption of other objects.
- *The metadata or a name cut in the middle* counts as a missing record: the reader
  goes on with what its buffers held, which is "lost" either way. So is a file of
  which the reader takes a name for the tree (finding 2): `database_read` may return
  from that too. What a lost program does in memory before it ends is not followed;
  what it leaves is `StrayFiles`.
- *dbgen and valord on one live file:* dbgen is built for the host and the device's
  file is read-only to valord, so a load does not meet a rewrite.
- *Two invocations of dbgen at one time*: the file is not locked, and the additions
  of one are lost; nothing in the repository says this may be done.
- *The file removed* or replaced by anyone but dbgen; `fopen` failing, which changes
  nothing.
- *Which options are given together* in one line: `Dbgen` chooses each at its block,
  so all combinations are there, with the blocks in the order of the source. `-h` and
  `--check-entry` run the blocks like any other line. `--db` without a value
  (`access(NULL)`) is left out; so is the version in `Dbgen`, which
  `DatabaseStore` has.
- *Array functions* that `array.h` does not declare and nothing calls
  (`array_pop`, which leaves the capacity stale, `array_cat`, `array_cpy`,
  `array_del`), and `in_array`, which changes nothing.
- *Failing* `malloc`, `ftruncate`, `fwrite`, `fseek`, `closedir`.
- *The log* and what a signal handler may call.
- *A daemon restarted by init while it runs:* its services are `oneshot`
  (`valord.rc`). `DaemonEnds` of `Deployment` ends it, and a later boot starts it.
- *Zombies and threads:* a killed process is gone.
- CRC-32, third-party and unused; build files, SELinux policy, service files.
- dbgen's messages and valord's log, assertions and helpers: formatted output; their
  exits are `Dies`, `StartFails` and the steps to "aborted".

## 7 Plan

Done: string set, digest tree, database and file with refinement, daemon,
arguments and hash table, integer set and array, dbgen, deployment; a theorem for
every safety property and both refinements.

Left:

1. A daemon and a deployment in one module: that a threat acknowledged in a file that
   a successful dbgen left is killed by the daemon started after it, from
   `AckedKept` and `ScansMissNoThreat`.
2. The safety part of `ThreatsEnd`: that the scan a daemon is in comes to the process
   unless it ends or changes.
