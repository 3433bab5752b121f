--------------------------- MODULE Arguments_proofs ---------------------------
(***************************************************************************)
(* Proofs about Arguments, for any options, hash function, number of       *)
(* buckets and lines of any length: that the table of options finds each   *)
(* of them, and that a command line is taken apart as it was meant.        *)
(*                                                                         *)
(* IsOption says of each word whether it is an option, from the words      *)
(* before it.  The invariant says that the loop, when it is at word i, has *)
(* stopped at the options before i and at nothing else, and that each      *)
(* argument has what those gave it.                                        *)
(***************************************************************************)
EXTENDS Arguments, FiniteSetTheorems, SequenceTheorems, WellFoundedInduction,
        TLAPS

Base == 0 .. HASHTBL_CAPACITY - 1

Pointees == {NULL} \cup UNION { argument_t(type) : type \in Types }

-----------------------------------------------------------------------------
(***************************************************************************)
(* The invariant                                                           *)
(***************************************************************************)

\* Before the table is there nothing is registered.
NothingYet ==
  /\ heap = [name \in Keys |-> NULL]
  /\ registered = [name \in Keys |-> NULL]
  /\ pc \in {"new", "died"}

\* An argument_t is there for each name registered, as it was but for what the
\* line changes.
HeapFollows ==
  /\ heap \in [Keys -> Pointees] /\ registered \in [Keys -> Pointees]
  /\ \A name \in Keys : heap[name] # NULL <=> name \in Registered
  /\ \A name \in Registered :
       /\ heap[name] \in argument_t(registered[name].type)
       /\ heap[name].compulsory = registered[name].compulsory
       /\ heap[name].array = registered[name].array
       /\ heap[name].pushed # 0 => heap[name].array
       /\ registered[name].pushed = 0

\* Each name has a node in its bucket, and nothing else has.
ChainsHold(tbl, names) ==
  /\ \A b \in Base : \A k \in DOMAIN tbl.base[b] :
       LET node == tbl.base[b][k] IN
       /\ node.value = node.key
       /\ node.key \in names
       /\ KeyHash[node.key] % HASHTBL_CAPACITY = b
  /\ \A name \in names : hashtbl_check_key(tbl, name)

\* The arrays list each name once.
ArraysList(tbl, names) ==
  /\ tbl.values = tbl.keys
  /\ tbl.sz = Len(tbl.keys.base)
  /\ \A k \in 1 .. tbl.sz : tbl.keys.base[k] \in names
  /\ \A name \in names : \E k \in 1 .. tbl.sz : tbl.keys.base[k] = name
  /\ IsFiniteSet(names)
  /\ tbl.sz = Cardinality(names)

TableOf(tbl, names) ==
  /\ names \subseteq Keys
  /\ tbl \in HashTables(HASHTBL_CAPACITY, Keys)
  /\ ChainsHold(tbl, names) /\ ArraysList(tbl, names)

\* --help is a flag that is not set before the line is parsed.
HelpIsRegistered ==
  /\ "--help" \in Registered
  /\ registered["--help"].type = "bool"
  /\ registered["--help"].value = FALSE

\* The options before word i.
Seen(name) == { k \in 1 .. i - 1 : IsOption[k] /\ argv[k] = name }

\* What an argument has after the occurrences of its name at places.
HasWhat(name, places) ==
  /\ heap[name].is_set <=> places # {} \/ registered[name].is_set
  /\ heap[name].pushed = IF heap[name].array THEN Cardinality(places) ELSE 0
  /\ places = {} => heap[name].value = registered[name].value
  /\ \A k \in places :
       (\A j \in places : j <= k) => heap[name].value = Given(name, k)

\* The loop has stopped at the options before i, and is at one.
InStep ==
  /\ i \in 1 .. argc
  /\ \A k \in 1 .. i - 1 :
       IsOption[k] => /\ argv[k] \in Registered
                      /\ TakesValue(argv[k]) => k + 1 < i
  /\ i <= Len(argv) => IsOption[i]
  /\ \A name \in Registered : HasWhat(name, Seen(name))

IInv ==
  /\ pc \in {"new", "setup", "parsing", "ready", "exited", "refused",
             "died", "lost", "finalized"}
  /\ argv \in Lines
  /\ i \in 0 .. argc
  /\ help_flag \in BOOLEAN
  /\ arguments = NULL => NothingYet
  /\ arguments # NULL => pc # "new" /\ TableOf(arguments, Registered)
  /\ arguments # NULL => HelpIsRegistered
  /\ HeapFollows
  /\ pc = "setup" => heap = registered
  /\ pc = "parsing" => InStep
  /\ ParsedAsGiven
  /\ VerdictIsRight

-----------------------------------------------------------------------------
(***************************************************************************)
(* Induction, and what it says of IsOption                                 *)
(***************************************************************************)

\* A set of natural numbers has a least element.
LEMMA HasLeast ==
  ASSUME NEW S \in SUBSET Nat, S # {}
  PROVE  \E n \in S : \A m \in S : n <= m
<1> DEFINE R == { ss \in Nat \X Nat : ss[1] < ss[2] }
<1>1. IsWellFoundedOn(R, Nat)
  BY NatLessThanWellFounded DEF OpToRel
<1>2. \A m, n \in Nat : m < n => <<m, n>> \in R
  OBVIOUS
<1>3. \A m, n \in Nat : m < n \/ n <= m
  OBVIOUS
<1> HIDE DEF R
<1>4. \E n \in S : \A m \in S : ~ (<<m, n>> \in R)
  BY <1>1, WFMin
<1> QED
  BY <1>2, <1>3, <1>4

\* Induction for a set instead of a predicate.
LEMMA SetInduction ==
  ASSUME NEW S, 0 \in S, \A n \in Nat : n \in S => n + 1 \in S
  PROVE  Nat \subseteq S
<1> SUFFICES ASSUME Nat \ S # {} PROVE FALSE
  OBVIOUS
<1>1. PICK n \in Nat \ S : \A m \in Nat \ S : n <= m
  BY HasLeast
<1>2. n - 1 \in Nat /\ n - 1 \in S
  BY <1>1
<1> QED
  BY <1>1, <1>2

\* A set of positions in the line has a greatest element.
LEMMA HasGreatest ==
  ASSUME NEW S, S # {}, NEW n \in Nat, S \subseteq 1 .. n
  PROVE  \E k \in S : \A j \in S : j <= k
<1> DEFINE T == { n - k : k \in S }
<1>1. T \in SUBSET Nat /\ T # {}
  <2>1. \A k \in S : n - k \in Nat
    BY \A k \in 1 .. n : n - k \in Nat
  <2>2. PICK k \in S : TRUE
    OBVIOUS
  <2>3. n - k \in T
    OBVIOUS
  <2> QED
    BY <2>1, <2>3
<1>2. PICK m \in T : \A l \in T : m <= l
  BY <1>1, HasLeast
<1>3. PICK k \in S : m = n - k
  OBVIOUS
<1>4. ASSUME NEW j \in S PROVE j <= k
  <2>1. m <= n - j
    BY <1>2
  <2> QED
    BY <1>3, <2>1
<1> QED
  BY <1>4

\* What IsOption says of word k, from what f says of the words before it.
Follows(f, k) ==
  \/ k = 1
  \/ k > 1 /\ f[k - 1] /\ ~TakesValue(argv[k - 1])
  \/ k > 2 /\ f[k - 2] /\ TakesValue(argv[k - 2])

LEMMA IsOptionExists ==
  ASSUME NEW n \in Nat
  PROVE  \E f : f = [k \in 0 .. n |-> Follows(f, k)]
<1> DEFINE S == { m \in Nat : \E f : f = [k \in 0 .. m |-> Follows(f, k)] }
<1>1. 0 \in S
  <2> DEFINE f == [k \in 0 .. 0 |-> FALSE]
  <2>1. \A k \in 0 .. 0 : Follows(f, k) = FALSE
    BY DEF Follows
  <2>2. f = [k \in 0 .. 0 |-> Follows(f, k)]
    BY <2>1
  <2> QED
    BY <2>2
<1>2. ASSUME NEW m \in Nat, m \in S
      PROVE  m + 1 \in S
  <2>1. PICK f : f = [k \in 0 .. m |-> Follows(f, k)]
    BY <1>2
  <2> DEFINE g == [k \in 0 .. m + 1 |-> Follows(f, k)]
  <2>2. \A k \in 0 .. m : g[k] = f[k]
    BY <2>1
  <2>3. g = [k \in 0 .. m + 1 |-> Follows(f, k)]
    OBVIOUS
  <2> HIDE DEF g
  <2>4. \A k \in 0 .. m + 1 : Follows(g, k) = Follows(f, k)
    <3> TAKE k \in 0 .. m + 1
    <3>1. k > 1 => g[k - 1] = f[k - 1]
      BY <2>2
    <3>2. k > 2 => g[k - 2] = f[k - 2]
      BY <2>2
    <3> QED
      BY <3>1, <3>2 DEF Follows
  <2>5. g = [k \in 0 .. m + 1 |-> Follows(g, k)]
    BY <2>3, <2>4
  <2>6. \E h : h = [k \in 0 .. m + 1 |-> Follows(h, k)]
    BY <2>5
  <2> QED
    BY <2>6
<1> HIDE DEF S
<1>3. Nat \subseteq S
  BY <1>1, <1>2, SetInduction
<1> QED
  BY <1>3 DEF S

\* IsOption is the function its definition describes.
OptionsFollow ==
  \A k \in 0 .. MaxWords : IsOption[k] <=> Follows(IsOption, k)

LEMMA IsOptionUnfolds == OptionsFollow
<1>1. MaxWords \in Nat
  BY ArgumentsAssumption
<1>2. \E f : f = [k \in 0 .. MaxWords |-> Follows(f, k)]
  BY <1>1, IsOptionExists
<1>3. IsOption = [k \in 0 .. MaxWords |-> Follows(IsOption, k)]
  BY <1>2 DEF IsOption, Follows
<1> QED
  BY <1>3 DEF OptionsFollow

LEMMA IsOptionUnfoldsNext == OptionsFollow'
BY IsOptionUnfolds, PTL

-----------------------------------------------------------------------------
(***************************************************************************)
(* The table                                                               *)
(***************************************************************************)

LEMMA BucketInBase ==
  ASSUME NEW key \in Keys
  PROVE  KeyHash[key] % HASHTBL_CAPACITY \in Base
<1>1. KeyHash[key] \in Nat /\ HASHTBL_CAPACITY \in Nat \ {0}
  BY HashTableAssumption, ArgumentsAssumption
<1> QED
  BY <1>1 DEF Base

LEMMA CreatedTable == TableOf(hashtbl_create(HASHTBL_CAPACITY), {})
<1> DEFINE tbl == hashtbl_create(HASHTBL_CAPACITY)
<1>1. /\ tbl.capacity = HASHTBL_CAPACITY /\ tbl.sz = 0
      /\ tbl.base = [b \in Base |-> <<>>]
      /\ tbl.keys.base = <<>> /\ tbl.values = tbl.keys
  BY DEF hashtbl_create, array_create, Base
<1>2. tbl \in HashTables(HASHTBL_CAPACITY, Keys)
  BY DEF hashtbl_create, array_create, HashTables, Arrays
<1>3. ChainsHold(tbl, {})
  BY <1>1 DEF ChainsHold
<1>4. ArraysList(tbl, {})
  BY <1>1, FS_EmptySet DEF ArraysList
<1> QED
  BY <1>2, <1>3, <1>4 DEF TableOf

LEMMA TableFinds ==
  ASSUME NEW tbl, NEW names, TableOf(tbl, names), NEW name \in Keys
  PROVE  /\ hashtbl_check_key(tbl, name) <=> name \in names
         /\ name \in names => hashtbl_get(tbl, name) = name
<1> DEFINE b == KeyHash[name] % HASHTBL_CAPACITY
           nodes == tbl.base[b]
<1>1. b \in Base /\ tbl.capacity = HASHTBL_CAPACITY
  BY BucketInBase DEF TableOf, HashTables
<1>2. Nodes(tbl, name) = nodes
  BY <1>1 DEF Nodes
<1>3. nodes \in Seq([key : Keys, value : Keys])
  BY <1>1 DEF TableOf, HashTables, Base
<1>4. \A k \in DOMAIN nodes : nodes[k].key \in names /\ nodes[k].value = nodes[k].key
  BY <1>1 DEF TableOf, ChainsHold
<1>5. hashtbl_check_key(tbl, name) <=> name \in names
  BY <1>2, <1>4 DEF hashtbl_check_key, TableOf, ChainsHold
<1>6. ASSUME name \in names
      PROVE  hashtbl_get(tbl, name) = name
  <2> DEFINE Found == { k \in DOMAIN nodes : nodes[k].key = name }
  <2> HIDE DEF nodes
  <2>1. Found # {}
    BY <1>2, <1>5, <1>6 DEF hashtbl_check_key
  <2>2. DOMAIN nodes = 1 .. Len(nodes) /\ Len(nodes) \in Nat
    BY <1>3
  <2>3. Found \in SUBSET Nat
    BY <2>2
  <2>4. PICK first \in Found : \A k \in Found : first <= k
    BY <2>1, <2>3, HasLeast
  <2>5. /\ first \in DOMAIN nodes /\ nodes[first].key = name
        /\ \A j \in 1 .. first - 1 : nodes[j].key # name
    <3>1. first \in 1 .. Len(nodes)
      BY <2>2
    <3>2. ASSUME NEW j \in 1 .. first - 1, nodes[j].key = name
          PROVE  FALSE
      <4>1. j \in Found /\ ~(first <= j)
        BY <3>1, <3>2, <2>2
      <4> QED
        BY <4>1, <2>4
    <3> QED
      BY <3>2
  <2> DEFINE IsFirst(k) == /\ nodes[k].key = name
                           /\ \A j \in 1 .. k - 1 : nodes[j].key # name
             chosen == CHOOSE k \in DOMAIN nodes : IsFirst(k)
  <2>6. chosen \in DOMAIN nodes /\ nodes[chosen].key = name
    BY <2>5
  <2>7. hashtbl_get(tbl, name) = nodes[chosen].value
    BY <1>2 DEF hashtbl_get
  <2> QED
    BY <2>6, <2>7, <1>4
<1> QED
  BY <1>5, <1>6

\* A name that is not in the table can be added.
LEMMA AddToTable ==
  ASSUME NEW tbl, NEW names, TableOf(tbl, names),
         NEW name \in Keys, name \notin names
  PROVE  TableOf(hashtbl_add(tbl, name, name), names \cup {name})
<1> DEFINE added == KeyHash[name] % HASHTBL_CAPACITY
           node  == [key |-> name, value |-> name]
           new   == hashtbl_add(tbl, name, name)
           more  == names \cup {name}
<1>1. added \in Base
  BY BucketInBase
<1>2. /\ tbl.capacity = HASHTBL_CAPACITY /\ tbl.sz \in Nat
      /\ tbl.base \in [Base -> Seq([key : Keys, value : Keys])]
      /\ tbl.keys \in Arrays(Keys) /\ tbl.values \in Arrays(Keys)
  BY DEF TableOf, HashTables, Base
<1>3. /\ node \in [key : Keys, value : Keys]
      /\ node.key = name /\ node.value = name
      /\ added = KeyHash[name] % HASHTBL_CAPACITY
  OBVIOUS
<1>4. /\ array_add(tbl.keys, name).base = Append(tbl.keys.base, name)
      /\ array_add(tbl.keys, name) \in Arrays(Keys)
      /\ array_add(tbl.values, name) \in Arrays(Keys)
  BY <1>2 DEF array_add, Arrays
<1>5. /\ new \in HashTables(HASHTBL_CAPACITY, Keys)
      /\ new.capacity = HASHTBL_CAPACITY
      /\ new.sz = tbl.sz + 1
      /\ new.base = [tbl.base EXCEPT ![added] = Append(tbl.base[added], node)]
      /\ new.keys = array_add(tbl.keys, name)
      /\ new.values = array_add(tbl.values, name)
  <2> DEFINE nodes == [key : Keys, value : Keys]
             tables == [capacity : {HASHTBL_CAPACITY}, sz : Nat,
                        base : [Base -> Seq(nodes)],
                        keys : Arrays(Keys), values : Arrays(Keys)]
             base == [tbl.base EXCEPT ![added] = Append(tbl.base[added], node)]
             keys == array_add(tbl.keys, name)
             values == array_add(tbl.values, name)
             tbl1 == [tbl EXCEPT !.base = base]
             tbl2 == [tbl1 EXCEPT !.keys = keys]
             tbl3 == [tbl2 EXCEPT !.values = values]
             tbl4 == [tbl3 EXCEPT !.sz = tbl.sz + 1]
  <2>1. new = tbl4
    BY <1>2, Zenon DEF hashtbl_add
  <2>2. tbl \in tables /\ keys \in Arrays(Keys) /\ values \in Arrays(Keys)
    BY <1>4 DEF TableOf, HashTables, Base
  <2>3. base \in [Base -> Seq(nodes)]
    <3>1. tbl.base \in [Base -> Seq(nodes)] /\ node \in nodes
      BY <1>2, <1>3
    <3> HIDE DEF nodes, node, added
    <3>2. Append(tbl.base[added], node) \in Seq(nodes)
      BY <1>1, <3>1
    <3> QED
      BY <1>1, <3>1, <3>2
  <2> HIDE DEF base, keys, values, new, nodes
  <2>4. tbl1 \in tables /\ tbl1.base = base
    BY <2>2, <2>3
  <2>5. tbl2 \in tables /\ tbl2.base = base /\ tbl2.keys = keys
    BY <2>2, <2>4
  <2>6. /\ tbl3 \in tables /\ tbl3.base = base /\ tbl3.keys = keys
        /\ tbl3.values = values
    BY <2>2, <2>5
  <2> HIDE DEF tbl3
  <2>7. tbl.sz + 1 \in Nat
    BY <1>2
  <2>8. /\ tbl4 \in tables /\ tbl4.base = base /\ tbl4.keys = keys
        /\ tbl4.values = values /\ tbl4.sz = tbl.sz + 1
    BY <2>7, <2>6
  <2> HIDE DEF tbl4
  <2>9. tables = HashTables(HASHTBL_CAPACITY, Keys)
    BY DEF HashTables, Base, nodes
  <2>10. tbl4.capacity = HASHTBL_CAPACITY
    BY <2>8
  <2> HIDE DEF tables
  <2> QED
    BY <2>1, <2>8, <2>9, <2>10 DEF base, keys, values
<1> HIDE DEF new, node, added
<1>6. new.values = new.keys
  BY <1>5 DEF TableOf, ArraysList
<1>7. ChainsHold(new, more)
  <2>1. ASSUME NEW b \in Base, NEW k \in DOMAIN new.base[b]
        PROVE  /\ new.base[b][k].value = new.base[b][k].key
               /\ new.base[b][k].key \in more
               /\ KeyHash[new.base[b][k].key] % HASHTBL_CAPACITY = b
    <3>1. CASE k \in DOMAIN tbl.base[b] /\ new.base[b][k] = tbl.base[b][k]
      BY <3>1 DEF TableOf, ChainsHold
    <3>2. CASE b = added /\ new.base[b][k] = node
      BY <3>2, <1>3
    <3>3. b # added => new.base[b] = tbl.base[b]
      BY <1>2, <1>5
    <3>4. ASSUME b = added
          PROVE  \/ k \in DOMAIN tbl.base[b] /\ new.base[b][k] = tbl.base[b][k]
                 \/ new.base[b][k] = node
      <4>1. new.base[b] = Append(tbl.base[b], node)
        BY <1>1, <1>2, <1>5, <3>4
      <4>2. tbl.base[b] \in Seq([key : Keys, value : Keys])
        BY <1>2
      <4> QED
        BY <4>1, <4>2
    <3> QED
      BY <3>1, <3>2, <3>3, <3>4
  <2>2. ASSUME NEW other \in more
        PROVE  hashtbl_check_key(new, other)
    <3> DEFINE b == KeyHash[other] % HASHTBL_CAPACITY
    <3>1. other \in Keys /\ b \in Base
      BY BucketInBase DEF TableOf
    <3>2. Nodes(new, other) = new.base[b] /\ Nodes(tbl, other) = tbl.base[b]
      BY <1>2, <1>5 DEF Nodes
    <3>3. tbl.base[b] \in Seq([key : Keys, value : Keys])
      BY <1>2, <3>1
    <3>4. CASE other \in names
      <4>1. PICK k \in DOMAIN tbl.base[b] : tbl.base[b][k].key = other
        BY <3>2, <3>4 DEF TableOf, ChainsHold, hashtbl_check_key
      <4>2. k \in DOMAIN new.base[b] /\ new.base[b][k] = tbl.base[b][k]
        BY <1>1, <1>2, <1>5, <3>1, <3>3
      <4> QED
        BY <4>1, <4>2, <3>2 DEF hashtbl_check_key
    <3>5. CASE other = name
      <4>1. new.base[b] = Append(tbl.base[b], node)
        BY <1>1, <1>2, <1>5, <1>3, <3>5
      <4>2. /\ Len(tbl.base[b]) + 1 \in DOMAIN new.base[b]
            /\ new.base[b][Len(tbl.base[b]) + 1] = node
        BY <4>1, <3>3
      <4>3. \E k \in DOMAIN new.base[b] : new.base[b][k].key = other
        BY <4>2, <3>5, <1>3
      <4> QED
        BY <4>3, <3>2 DEF hashtbl_check_key
    <3> QED
      BY <3>4, <3>5
  <2> QED
    BY <2>1, <2>2 DEF ChainsHold
<1>8. ArraysList(new, more)
  <2> DEFINE keys == tbl.keys.base
  <2>1. new.keys.base = Append(keys, name) /\ keys \in Seq(Keys)
    BY <1>2, <1>5, <1>4 DEF Arrays
  <2>8. tbl.sz = Len(keys)
    BY DEF TableOf, ArraysList
  <2>2. /\ \A k \in 1 .. tbl.sz : keys[k] \in names
        /\ \A other \in names : \E k \in 1 .. tbl.sz : keys[k] = other
        /\ IsFiniteSet(names) /\ tbl.sz = Cardinality(names)
    BY DEF TableOf, ArraysList
  <2>3. IsFiniteSet(more) /\ Cardinality(more) = Cardinality(names) + 1
    BY <2>2, FS_AddElement
  <2> HIDE DEF keys
  <2>4. new.sz = Len(new.keys.base) /\ new.sz = tbl.sz + 1
    BY <1>5, <2>8, <2>1
  <2>5. \A k \in 1 .. tbl.sz : new.keys.base[k] = keys[k]
    BY <2>8, <2>1
  <2>6. new.keys.base[tbl.sz + 1] = name
    BY <2>8, <2>1
  <2>7. 1 .. new.sz = 1 .. tbl.sz \cup {tbl.sz + 1}
    BY <2>4, <1>2
  <2> QED
    BY <1>6, <2>2, <2>3, <2>4, <2>5, <2>6, <2>7 DEF ArraysList
<1> QED
  BY <1>5, <1>7, <1>8 DEF TableOf, new

-----------------------------------------------------------------------------
(***************************************************************************)
(* Registration                                                            *)
(***************************************************************************)

LEMMA LineFacts ==
  ASSUME NEW line \in Lines
  PROVE  /\ Len(line) \in 0 .. MaxWords /\ DOMAIN line = 1 .. Len(line)
         /\ \A k \in DOMAIN line : line[k] \in Words /\ line[k] \in Keys
<1>1. PICK n \in 0 .. MaxWords : line \in [1 .. n -> Words]
  BY DEF Lines
<1>2. Len(line) = n /\ DOMAIN line = 1 .. n
  BY <1>1, ArgumentsAssumption
<1> QED
  BY <1>1, <1>2, ArgumentsAssumption

\* What is registered is an argument_t of its type, without elements.
LEMMA Created ==
  ASSUME NEW option \in Options \cup {help_option}
  PROVE  /\ option.name \in Keys /\ option.type \in Types
         /\ argument_create(option) \in argument_t(option.type)
         /\ argument_create(option).type = option.type
         /\ argument_create(option).pushed = 0
         /\ argument_create(option) # NULL
<1>1. /\ option.name \in Keys /\ option.type \in Types
      /\ option.value \in ValuesOf(option.type)
      /\ option.is_set \in BOOLEAN /\ option.is_help \in BOOLEAN
  <2>1. CASE option = help_option
    BY <2>1, ArgumentsAssumption DEF help_option, ValuesOf, Types
  <2>2. CASE option \in Options
    BY <2>2, ArgumentsAssumption
  <2> QED
    BY <2>1, <2>2
<1> DEFINE argument == argument_create(option)
           compulsory == option.way \in {"compulsory", "compulsory array"}
           array == option.way \in {"array", "compulsory array"}
<1>2. compulsory \in BOOLEAN /\ array \in BOOLEAN
  OBVIOUS
<1>3. argument = [type |-> option.type, compulsory |-> compulsory,
                  value |-> option.value, is_set |-> option.is_set,
                  is_help |-> option.is_help, array |-> array, pushed |-> 0]
  BY DEF argument_create
<1> HIDE DEF compulsory, array, argument
<1>4. /\ argument \in argument_t(option.type)
      /\ argument.type = option.type /\ argument.pushed = 0
  BY <1>1, <1>2, <1>3 DEF argument_t
<1> QED
  BY <1>1, <1>4, ArgumentsAssumption DEF argument

\* A new name has its argument_t and its nodes, and the others keep theirs.
LEMMA RegistersKeeps ==
  ASSUME NEW tbl, TableOf(tbl, Registered), HeapFollows, heap = registered,
         NEW option \in Options \cup {help_option},
         option.name \notin Registered, Registers(tbl, option)
  PROVE  /\ Registered' = Registered \cup {option.name}
         /\ TableOf(arguments', Registered') /\ arguments' # NULL
         /\ HeapFollows' /\ heap' = registered'
         /\ registered'[option.name] = argument_create(option)
         /\ \A name \in Registered : registered'[name] = registered[name]
<1> DEFINE argument == argument_create(option)
<1>1. /\ option.name \in Keys /\ option.type \in Types
      /\ argument \in argument_t(option.type) /\ argument.type = option.type
      /\ argument.pushed = 0 /\ argument # NULL
  BY Created
<1>2. registered \in [Keys -> Pointees]
  BY DEF HeapFollows
<1>3. heap' = registered' /\ registered' = [registered EXCEPT ![option.name] = argument]
  BY DEF Registers
<1>4. arguments' = hashtbl_add(tbl, option.name, option.name)
  BY DEF Registers
<1> HIDE DEF argument
<1>5. argument \in Pointees
  BY <1>1 DEF Pointees
<1>6. /\ registered' \in [Keys -> Pointees]
      /\ registered'[option.name] = argument
      /\ \A name \in Keys \ {option.name} : registered'[name] = registered[name]
  BY <1>1, <1>2, <1>3, <1>5
<1>7. Registered' = Registered \cup {option.name}
  BY <1>1, <1>6 DEF Registered
<1>8. TableOf(arguments', Registered')
  BY <1>1, <1>4, <1>7, AddToTable
<1>9. arguments' # NULL
  BY <1>8, ArgumentsAssumption DEF TableOf
<1>10. HeapFollows'
  <2>1. ASSUME NEW name \in Registered'
        PROVE  /\ registered'[name] \in argument_t(registered'[name].type)
               /\ registered'[name].pushed = 0
    <3>1. CASE name = option.name
      BY <3>1, <1>1, <1>6
    <3>2. CASE name \in Registered /\ name # option.name
      <4>1. name \in Keys
        BY <3>2 DEF Registered
      <4> QED
        BY <3>2, <4>1, <1>6 DEF HeapFollows
    <3> QED
      BY <3>1, <3>2, <1>7
  <2>2. \A name \in Keys : heap'[name] # NULL <=> name \in Registered'
    BY <1>3 DEF Registered
  <2> QED
    BY <2>1, <2>2, <1>3, <1>6 DEF HeapFollows
<1>11. \A name \in Registered : registered'[name] = registered[name]
  BY <1>6 DEF Registered
<1> QED
  BY <1>3, <1>6, <1>7, <1>8, <1>9, <1>10, <1>11 DEF argument

LEMMA InitIInv == Init => IInv
<1> SUFFICES ASSUME Init PROVE IInv
  OBVIOUS
<1>1. Registered = {}
  BY DEF Init, Registered
<1>2. argv \in Lines
  BY ArgumentsAssumption, \A f : f = <<>> => f \in [1 .. 0 -> Words]
  DEF Init, Lines
<1>3. i \in 0 .. argc
  BY DEF Init, argc
<1>4. HeapFollows
  <2>1. NULL \in Pointees
    BY DEF Pointees
  <2>2. heap \in [Keys -> Pointees] /\ registered \in [Keys -> Pointees]
    BY <2>1 DEF Init
  <2>3. \A name \in Keys : heap[name] = NULL
    BY DEF Init
  <2>4. \A name \in Keys : heap[name] # NULL <=> name \in Registered
    BY <1>1, <2>3
  <2>5. \A name \in Registered : FALSE
    BY <1>1
  <2> QED
    BY <2>2, <2>4, <2>5 DEF HeapFollows
<1>5. NothingYet
  BY DEF NothingYet, Init
<1> QED
  BY <1>2, <1>3, <1>4, <1>5
  DEF IInv, Init, ParsedAsGiven, VerdictIsRight

LEMMA BeginKeepsIInv == IInv /\ Begin => IInv'
<1> SUFFICES ASSUME IInv, Begin PROVE IInv'
  OBVIOUS
<1>1. arguments = NULL /\ NothingYet /\ heap = registered
  BY DEF IInv, Begin, NothingYet
<1>2. Registered = {}
  BY <1>1 DEF NothingYet, Registered
<1> DEFINE tbl == hashtbl_create(HASHTBL_CAPACITY)
<1>3. TableOf(tbl, Registered)
  BY <1>2, CreatedTable
<1>4. Registers(tbl, help_option) /\ pc' = "setup"
  BY DEF Begin
<1>5. /\ help_option \in Options \cup {help_option}
      /\ help_option.name \notin Registered
  BY <1>2
<1> HIDE DEF tbl
<1>6. /\ Registered' = Registered \cup {help_option.name}
      /\ TableOf(arguments', Registered') /\ arguments' # NULL
      /\ HeapFollows' /\ heap' = registered'
      /\ registered'[help_option.name] = argument_create(help_option)
  BY <1>1, <1>3, <1>4, <1>5, RegistersKeeps DEF IInv
<1>7. HelpIsRegistered'
  BY <1>6 DEF HelpIsRegistered, help_option, argument_create
<1>8. /\ argv' \in Lines /\ i' \in 0 .. argc' /\ help_flag' \in BOOLEAN
  BY DEF Begin, IInv, argc
<1> QED
  BY <1>4, <1>6, <1>7, <1>8 DEF IInv, ParsedAsGiven, VerdictIsRight

LEMMA AddKeepsIInv ==
  ASSUME IInv, NEW option \in Options, Add(option)
  PROVE  IInv'
<1>1. arguments # NULL /\ pc = "setup" /\ heap = registered
  BY DEF IInv, Add, NothingYet
<1>2. TableOf(arguments, Registered) /\ option.name \in Keys
  BY <1>1, ArgumentsAssumption DEF IInv
<1>3. /\ argv' \in Lines /\ i' \in 0 .. argc' /\ help_flag' \in BOOLEAN
  BY DEF Add, IInv, argc
<1>4. CASE ~hashtbl_check_key(arguments, option.name) /\ Registers(arguments, option)
           /\ pc' = pc
  <2>1. option.name \notin Registered
    BY <1>2, <1>4, TableFinds
  <2>2. /\ Registered' = Registered \cup {option.name}
        /\ TableOf(arguments', Registered') /\ arguments' # NULL
        /\ HeapFollows' /\ heap' = registered'
        /\ \A name \in Registered : registered'[name] = registered[name]
    BY <1>1, <1>2, <1>4, <2>1, RegistersKeeps DEF IInv
  <2>3. HelpIsRegistered'
    BY <1>1, <2>2 DEF HelpIsRegistered, IInv
  <2> QED
    BY <1>1, <1>3, <1>4, <2>2, <2>3 DEF IInv, ParsedAsGiven, VerdictIsRight
<1>5. CASE UNCHANGED table /\ pc' \in {"setup", "died"}
  <2>1. /\ Registered' = Registered /\ HeapFollows'
        /\ arguments' = arguments /\ heap' = heap /\ registered' = registered
        /\ (HelpIsRegistered <=> HelpIsRegistered')
    BY <1>5 DEF table, HeapFollows, Registered, IInv, HelpIsRegistered
  <2> QED
    BY <1>1, <1>2, <1>3, <1>5, <2>1 DEF IInv, ParsedAsGiven, VerdictIsRight
<1> QED
  BY <1>1, <1>4, <1>5 DEF Add

-----------------------------------------------------------------------------
(***************************************************************************)
(* Parsing                                                                 *)
(***************************************************************************)

LEMMA ParseKeepsIInv ==
  ASSUME IInv, NEW words \in Lines, Parse(words)
  PROVE  IInv'
<1>1. /\ pc = "setup" /\ pc' = "parsing" /\ argv' = words /\ i' = 1
      /\ arguments' = arguments /\ heap' = heap /\ registered' = registered
      /\ help_flag' = help_flag
  BY DEF Parse, table
<1>2. arguments # NULL /\ heap = registered
  BY <1>1 DEF IInv, NothingYet
<1>3. /\ Registered' = Registered /\ HeapFollows'
      /\ (HelpIsRegistered <=> HelpIsRegistered')
  BY <1>1 DEF HeapFollows, Registered, IInv, HelpIsRegistered
<1>4. Len(argv') \in 0 .. MaxWords
  BY <1>1, LineFacts
<1>5. i' \in 1 .. argc' /\ MaxWords \in Nat
  BY <1>1, <1>4, ArgumentsAssumption DEF argc
<1>6. i' <= Len(argv') => IsOption'[i']
  BY <1>1, <1>4, <1>5, IsOptionUnfoldsNext DEF OptionsFollow, Follows
<1>7. ASSUME NEW name \in Registered'
      PROVE  HasWhat(name, Seen(name))'
  <2>1. Seen(name)' = {}
    BY <1>1 DEF Seen
  <2>2. heap'[name] = registered'[name] /\ heap'[name].pushed = 0
    BY <1>1, <1>2, <1>3 DEF HeapFollows
  <2>3. Cardinality({}) = 0
    BY FS_EmptySet
  <2> QED
    BY <2>1, <2>2, <2>3 DEF HasWhat
<1>8. InStep'
  BY <1>1, <1>5, <1>6, <1>7 DEF InStep
<1> QED
  BY <1>1, <1>2, <1>3, <1>5, <1>8 DEF IInv, ParsedAsGiven, VerdictIsRight

\* The loop is at a word of the line, and the line is one it may be given.
LEMMA AtWord ==
  ASSUME IInv, pc = "parsing", i < argc
  PROVE  /\ arguments # NULL /\ TableOf(arguments, Registered) /\ InStep
         /\ MaxWords \in Nat /\ Len(argv) \in 0 .. MaxWords
         /\ i \in 1 .. Len(argv) /\ argv[i] \in Keys
         /\ IsOption[i]
         /\ hashtbl_check_key(arguments, argv[i]) <=> argv[i] \in Registered
         /\ argv[i] \in Registered =>
              /\ hashtbl_get(arguments, argv[i]) = argv[i]
              /\ heap[argv[i]].type = registered[argv[i]].type
<1>1. arguments # NULL /\ TableOf(arguments, Registered) /\ InStep /\ argv \in Lines
  BY DEF IInv, NothingYet
<1>2. /\ MaxWords \in Nat /\ Len(argv) \in 0 .. MaxWords
      /\ DOMAIN argv = 1 .. Len(argv) /\ \A k \in DOMAIN argv : argv[k] \in Keys
  BY <1>1, LineFacts, ArgumentsAssumption
<1>3. i \in 1 .. Len(argv)
  BY <1>1, <1>2 DEF InStep, argc
<1>4. argv[i] \in Keys
  BY <1>2, <1>3
<1>5. IsOption[i]
  BY <1>1, <1>3 DEF InStep
<1>6. argv[i] \in Registered => heap[argv[i]].type = registered[argv[i]].type
  BY DEF IInv, HeapFollows, argument_t
<1> QED
  BY <1>1, <1>2, <1>3, <1>4, <1>5, <1>6, TableFinds

\* From one option to the next: between them there is only a value.
LEMMA NextOption ==
  ASSUME IInv, pc = "parsing", i < argc, NEW next,
         next = IF TakesValue(argv[i]) THEN i + 2 ELSE i + 1, next <= argc
  PROVE  /\ next \in i + 1 .. argc
         /\ \A k \in i .. next - 1 : IsOption[k] <=> k = i
         /\ next <= Len(argv) => IsOption[next]
<1>1. /\ InStep /\ MaxWords \in Nat /\ Len(argv) \in 0 .. MaxWords
      /\ i \in 1 .. Len(argv) /\ IsOption[i]
  BY AtWord
<1>2. next \in i + 1 .. argc
  BY <1>1 DEF argc
<1>3. ~(i > 1 /\ IsOption[i - 1] /\ TakesValue(argv[i - 1]))
  BY <1>1 DEF InStep
<1>4. CASE TakesValue(argv[i])
  <2>1. next = i + 2 /\ i + 1 <= Len(argv)
    BY <1>1, <1>2, <1>4 DEF argc
  <2>2. ~IsOption[i + 1]
    <3>1. i + 1 \in 0 .. MaxWords /\ i + 1 # 1 /\ (i + 1) - 1 = i /\ (i + 1) - 2 = i - 1
      BY <1>1, <2>1
    <3>2. IsOption[i + 1] <=> Follows(IsOption, i + 1)
      BY <3>1, IsOptionUnfolds DEF OptionsFollow
    <3>3. i + 1 > 2 => i > 1
      BY <1>1
    <3> QED
      BY <1>3, <1>4, <3>1, <3>2, <3>3 DEF Follows
  <2>3. next <= Len(argv) => IsOption[next]
    <3> SUFFICES ASSUME next <= Len(argv) PROVE IsOption[next]
      OBVIOUS
    <3>1. next \in 0 .. MaxWords /\ next > 2 /\ next - 2 = i
      BY <1>1, <2>1
    <3> QED
      BY <1>1, <1>4, <3>1, IsOptionUnfolds DEF OptionsFollow, Follows
  <2>4. \A k \in i .. next - 1 : k = i \/ k = i + 1
    BY <1>1, <2>1
  <2>5. i # i + 1
    BY <1>1
  <2> QED
    BY <1>1, <1>2, <2>2, <2>3, <2>4, <2>5
<1>5. CASE ~TakesValue(argv[i])
  <2>1. next = i + 1
    BY <1>5
  <2>2. next <= Len(argv) => IsOption[next]
    <3> SUFFICES ASSUME next <= Len(argv) PROVE IsOption[next]
      OBVIOUS
    <3>1. next \in 0 .. MaxWords /\ next > 1 /\ next - 1 = i
      BY <1>1, <2>1
    <3> QED
      BY <1>1, <1>5, <3>1, IsOptionUnfolds DEF OptionsFollow, Follows
  <2>3. \A k \in i .. next - 1 : k = i
    BY <1>1, <2>1
  <2> QED
    BY <1>1, <1>2, <2>2, <2>3
<1> QED
  BY <1>4, <1>5

\* What is said of the words of a line stays, as long as the line does.
LEMMA SameLine ==
  ASSUME argv' = argv, registered' = registered
  PROVE  /\ Registered' = Registered /\ IsOption' = IsOption
         /\ \A word : TakesValue(word)' <=> TakesValue(word)
         /\ \A name, k : Given(name, k)' = Given(name, k)
         /\ \A name : Places(name)' = Places(name)
<1>1. Registered' = Registered
  BY DEF Registered
<1>2. \A word : TakesValue(word)' <=> TakesValue(word)
  BY <1>1 DEF TakesValue
<1>3. IsOption' = IsOption
  BY <1>1 DEF IsOption, TakesValue
<1>4. \A name, k : Given(name, k)' = Given(name, k)
  BY <1>2 DEF Given
<1>5. \A name : Places(name)' = Places(name)
  BY <1>3 DEF Places
<1> QED
  BY <1>1, <1>2, <1>3, <1>4, <1>5

LEMMA SetArgument ==
  ASSUME NEW type, NEW argument \in argument_t(type), NEW value \in ValuesOf(type)
  PROVE  /\ ArgumentSet(argument, value) \in argument_t(type)
         /\ ArgumentSet(argument, value).compulsory = argument.compulsory
         /\ ArgumentSet(argument, value).array = argument.array
         /\ ArgumentSet(argument, value).pushed # argument.pushed =>
              argument.array
<1> DEFINE pushed == IF argument.array THEN argument.pushed + 1 ELSE argument.pushed
           argument1 == [argument EXCEPT !.value = value]
           argument2 == [argument1 EXCEPT !.is_set = TRUE]
           argument3 == [argument2 EXCEPT !.pushed = pushed]
<1>1. ArgumentSet(argument, value) = argument3
  BY Zenon DEF ArgumentSet
<1>2. pushed \in Nat
  BY DEF argument_t
<1>3. pushed # argument.pushed => argument.array
  OBVIOUS
<1> HIDE DEF pushed
<1>4. /\ argument1 \in argument_t(type)
      /\ argument1.compulsory = argument.compulsory
      /\ argument1.array = argument.array
  BY DEF argument_t
<1> HIDE DEF argument1
<1>5. /\ argument2 \in argument_t(type)
      /\ argument2.compulsory = argument.compulsory
      /\ argument2.array = argument.array
  BY <1>4 DEF argument_t
<1> HIDE DEF argument2
<1>6. /\ argument3 \in argument_t(type) /\ argument3.pushed = pushed
      /\ argument3.compulsory = argument.compulsory
      /\ argument3.array = argument.array
  BY <1>2, <1>5 DEF argument_t
<1> HIDE DEF argument3
<1> QED
  BY <1>1, <1>6, <1>3

\* One occurrence more of an option.
LEMMA OneMore ==
  ASSUME IInv, pc = "parsing", i < argc, argv[i] \in Registered,
         argv' = argv, registered' = registered,
         heap' = [heap EXCEPT ![argv[i]] = ArgumentSet(@, Given(argv[i], i))],
         i' = IF TakesValue(argv[i]) THEN i + 2 ELSE i + 1, i' <= argc,
         NEW name \in Registered
  PROVE  HasWhat(name, Seen(name))'
<1>1. /\ InStep /\ i \in 1 .. Len(argv) /\ Len(argv) \in Nat
      /\ argv[i] \in Keys /\ IsOption[i]
  BY AtWord
<1>2. /\ i' \in i + 1 .. argc /\ \A k \in i .. i' - 1 : IsOption[k] <=> k = i
  BY NextOption
<1>3. /\ HasWhat(name, Seen(name)) /\ name \in Keys
      /\ heap \in [Keys -> Pointees]
      /\ heap[name] \in argument_t(registered[name].type)
  BY <1>1 DEF InStep, IInv, HeapFollows, Registered
<1>4. Seen(name)' = IF name = argv[i] THEN Seen(name) \cup {i} ELSE Seen(name)
  <2>1. 1 .. i' - 1 = 1 .. i - 1 \cup i .. i' - 1
    BY <1>1, <1>2 DEF argc
  <2>2. Seen(name)' = { k \in 1 .. i' - 1 : IsOption[k] /\ argv[k] = name }
    BY SameLine DEF Seen
  <2>3. i \in i .. i' - 1
    BY <1>1, <1>2 DEF argc
  <2> QED
    BY <1>1, <1>2, <2>1, <2>2, <2>3 DEF Seen
<1>5. /\ IsFiniteSet(Seen(name)) /\ i \notin Seen(name)
      /\ \A j \in Seen(name) : j < i
  <2>1. IsFiniteSet(1 .. i - 1)
    BY <1>1, FS_Interval
  <2> QED
    BY <1>1, <2>1, FS_Subset DEF Seen
<1>6. \A k : Given(name, k)' = Given(name, k)
  BY SameLine
<1>7. CASE name # argv[i]
  <2>1. heap'[name] = heap[name] /\ Seen(name)' = Seen(name)
    BY <1>1, <1>3, <1>4, <1>7
  <2> QED
    BY <1>3, <1>6, <2>1 DEF HasWhat
<1>8. CASE name = argv[i]
  <2> DEFINE argument == heap[name]
             places == Seen(name)
  <2>1. heap'[name] = ArgumentSet(argument, Given(name, i))
    BY <1>1, <1>3, <1>8
  <2>2. /\ heap'[name].is_set = TRUE
        /\ heap'[name].value = Given(name, i)
        /\ heap'[name].array = argument.array
        /\ heap'[name].pushed =
             IF argument.array THEN argument.pushed + 1 ELSE argument.pushed
    BY <1>3, <2>1 DEF ArgumentSet, argument_t
  <2>3. Seen(name)' = places \cup {i}
    BY <1>4, <1>8
  <2>4. argument.pushed = IF argument.array THEN Cardinality(places) ELSE 0
    BY <1>3 DEF HasWhat
  <2>5. Cardinality(places \cup {i}) = Cardinality(places) + 1
    BY <1>5, FS_AddElement
  <2>6. heap'[name].pushed =
          IF heap'[name].array THEN Cardinality(places \cup {i}) ELSE 0
    BY <2>2, <2>4, <2>5
  <2>7. ASSUME NEW k \in places \cup {i}, \A j \in places \cup {i} : j <= k
        PROVE  heap'[name].value = Given(name, k)
    <3>1. i <= k /\ (k = i \/ k < i)
      BY <1>5, <2>7
    <3>2. k \in Int /\ i \in Int
      BY <1>1, <2>7 DEF Seen
    <3>3. k = i
      BY <3>1, <3>2
    <3> QED
      BY <2>2, <3>3
  <2> HIDE DEF places
  <2>8. places \cup {i} # {}
    OBVIOUS
  <2> QED
    BY <1>6, <2>2, <2>3, <2>6, <2>7, <2>8 DEF HasWhat
<1> QED
  BY <1>7, <1>8

\* What a step says of the table that leaves it alone.
LEMMA SameTable ==
  ASSUME IInv, UNCHANGED table
  PROVE  /\ arguments # NULL =>
              TableOf(arguments, Registered)' /\ HelpIsRegistered'
         /\ HeapFollows' /\ Registered' = Registered
<1>1. /\ arguments' = arguments /\ heap' = heap /\ registered' = registered
      /\ Registered' = Registered
  BY DEF table, Registered
<1>2. HeapFollows'
  BY <1>1 DEF IInv, HeapFollows
<1>3. ASSUME arguments # NULL
      PROVE  TableOf(arguments, Registered)' /\ HelpIsRegistered'
  BY <1>1, <1>3 DEF IInv, HelpIsRegistered
<1> QED
  BY <1>1, <1>2, <1>3

\* A turn of the loop that takes an option and its value.
LEMMA StepOver ==
  ASSUME IInv, pc = "parsing", i < argc, argv[i] \in Registered,
         UNCHANGED <<arguments, registered, pc, argv>>, help_flag' \in BOOLEAN,
         heap' = [heap EXCEPT ![argv[i]] = ArgumentSet(@, Given(argv[i], i))],
         i' = IF TakesValue(argv[i]) THEN i + 2 ELSE i + 1, i' <= argc
  PROVE  IInv'
<1>1. /\ arguments # NULL /\ TableOf(arguments, Registered) /\ InStep
      /\ i \in 1 .. Len(argv) /\ Len(argv) \in 0 .. MaxWords
      /\ MaxWords \in Nat /\ argv[i] \in Keys
  BY AtWord
<1>2. /\ i' \in i + 1 .. argc
      /\ \A k \in i .. i' - 1 : IsOption[k] <=> k = i
      /\ i' <= Len(argv) => IsOption[i']
  BY NextOption
<1>3. /\ Registered' = Registered /\ IsOption' = IsOption
      /\ \A word : TakesValue(word)' <=> TakesValue(word)
  BY SameLine
<1>4. i' \in 1 .. argc' /\ argc' = argc
  BY <1>1, <1>2 DEF argc
<1>5. ASSUME NEW k \in 1 .. i' - 1, IsOption[k]
      PROVE  /\ argv[k] \in Registered
             /\ TakesValue(argv[k]) => k + 1 < i'
  <2>1. CASE k \in 1 .. i - 1
    <3>1. argv[k] \in Registered /\ (TakesValue(argv[k]) => k + 1 < i)
      BY <1>1, <1>5, <2>1 DEF InStep
    <3> QED
      BY <1>1, <1>2, <2>1, <3>1 DEF argc
  <2>2. CASE k \in i .. i' - 1
    <3>1. k = i
      BY <1>2, <1>5, <2>2
    <3> QED
      BY <1>1, <3>1
  <2> QED
    BY <1>1, <1>2, <2>1, <2>2 DEF argc
<1>6. \A name \in Registered' : HasWhat(name, Seen(name))'
  BY <1>3, OneMore
<1>7. InStep'
  BY <1>2, <1>3, <1>4, <1>5, <1>6 DEF InStep
<1>8. HeapFollows'
  <2> DEFINE argument == ArgumentSet(heap[argv[i]], Given(argv[i], i))
             type == registered[argv[i]].type
  <2>1. heap[argv[i]] \in argument_t(type) /\ type \in Types
    BY DEF IInv, HeapFollows, Registered, Pointees, argument_t
  <2>2. Given(argv[i], i) \in ValuesOf(type)
    <3>1. CASE ~TakesValue(argv[i])
      BY <3>1 DEF Given, TakesValue, ValuesOf
    <3>2. CASE TakesValue(argv[i])
      <4>1. i + 1 \in DOMAIN argv
        BY <1>1, <1>2, <3>2, LineFacts DEF IInv, argc
      <4>2. argv[i + 1] \in Words /\ argv[i + 1] \in Keys
        BY <4>1, LineFacts DEF IInv
      <4>3. Atoll[argv[i + 1]] \in Int
        BY <4>2, ArgumentsAssumption
      <4>4. type # "bool"
        BY <3>2 DEF TakesValue
      <4> QED
        BY <2>1, <3>2, <4>2, <4>3, <4>4 DEF Given, ValueOf, ValuesOf, Types
    <3> QED
      BY <3>1, <3>2
  <2>3. /\ argument \in argument_t(type)
        /\ argument.compulsory = heap[argv[i]].compulsory
        /\ argument.array = heap[argv[i]].array
        /\ argument.pushed # heap[argv[i]].pushed => argument.array
    BY <2>1, <2>2, SetArgument
  <2> HIDE DEF argument, type
  <2>4. argument \in Pointees /\ argument # NULL
    BY <2>1, <2>3, ArgumentsAssumption DEF Pointees
  <2>5. heap \in [Keys -> Pointees]
    BY DEF IInv, HeapFollows
  <2>6. /\ heap' \in [Keys -> Pointees] /\ heap'[argv[i]] = argument
        /\ \A name \in Keys : name # argv[i] => heap'[name] = heap[name]
    BY <1>1, <2>4, <2>5 DEF argument
  <2>7. \A name \in Keys : heap'[name] # NULL <=> name \in Registered
    BY <2>4, <2>6 DEF IInv, HeapFollows
  <2>8. ASSUME NEW name \in Registered
        PROVE  /\ heap'[name] \in argument_t(registered[name].type)
               /\ heap'[name].compulsory = registered[name].compulsory
               /\ heap'[name].array = registered[name].array
               /\ heap'[name].pushed # 0 => heap'[name].array
               /\ registered[name].pushed = 0
    <3>1. /\ name \in Keys
          /\ heap[name] \in argument_t(registered[name].type)
          /\ heap[name].compulsory = registered[name].compulsory
          /\ heap[name].array = registered[name].array
          /\ heap[name].pushed # 0 => heap[name].array
          /\ registered[name].pushed = 0
      BY DEF IInv, HeapFollows, Registered
    <3>2. CASE name = argv[i]
      BY <2>3, <2>6, <3>1, <3>2 DEF type
    <3>3. CASE name # argv[i]
      BY <2>6, <3>1, <3>3
    <3> QED
      BY <3>2, <3>3
  <2> QED
    BY <1>3, <2>6, <2>7, <2>8 DEF IInv, HeapFollows
<1>9. TableOf(arguments, Registered)' /\ HelpIsRegistered'
  BY <1>1, <1>3 DEF IInv, HelpIsRegistered
<1> QED
  BY <1>1, <1>4, <1>7, <1>8, <1>9 DEF IInv, ParsedAsGiven, VerdictIsRight

\* A step that leaves the table and the line alone, and gives up.
LEMMA GivesUp ==
  ASSUME IInv, UNCHANGED <<table, argv, i, help_flag>>,
         pc' \in {"refused", "died", "lost"},
         arguments = NULL => pc' = "died", VerdictIsRight'
  PROVE  IInv'
<1>1. /\ arguments' = arguments /\ argv' = argv /\ i' = i /\ help_flag' = help_flag
      /\ heap' = heap /\ registered' = registered /\ argc' = argc
  BY DEF table, argc
<1>2. arguments = NULL => NothingYet'
  BY <1>1 DEF IInv, NothingYet
<1> QED
  BY <1>1, <1>2, SameTable DEF IInv, ParsedAsGiven

\* A line is refused, at a word that makes it a wrong one.
LEMMA RefusedAt ==
  ASSUME IInv, pc = "parsing", i < argc,
         argv[i] \notin Registered \/ (TakesValue(argv[i]) /\ i + 1 >= argc)
  PROVE  ~WellFormed
<1>1. /\ i \in 1 .. Len(argv) /\ IsOption[i] /\ Len(argv) \in Nat
  BY AtWord
<1>2. i \in DOMAIN argv
  BY <1>1, LineFacts DEF IInv
<1>3. i + 1 >= argc => ~(i < Len(argv))
  BY <1>1 DEF argc
<1> QED
  BY <1>1, <1>2, <1>3 DEF WellFormed

LEMMA ParseNextKeepsIInv == IInv /\ ParseNext => IInv'
<1> SUFFICES ASSUME IInv, ParseNext PROVE IInv'
  OBVIOUS
<1> DEFINE name == argv[i]
<1>1. /\ pc = "parsing" /\ i < argc /\ arguments # NULL /\ name \in Registered
      /\ hashtbl_get(arguments, name) = name
      /\ heap[name].type = registered[name].type
      /\ i \in 1 .. Len(argv) /\ Len(argv) \in Nat
  BY AtWord DEF ParseNext
<1>2. TakesValue(name) <=> heap[name].type # "bool"
  BY <1>1 DEF TakesValue
<1>3. help_flag \in BOOLEAN /\ heap[name].is_help \in BOOLEAN
  BY <1>1 DEF IInv, HeapFollows, argument_t
<1>4. CASE /\ heap[name].type = "bool"
           /\ heap' = [heap EXCEPT ![name] = ArgumentSet(@, TRUE)]
           /\ i' = i + 1
           /\ help_flag' = (help_flag \/ heap[name].is_help)
           /\ UNCHANGED <<arguments, registered, pc, argv>>
  <2>1. Given(name, i) = TRUE /\ ~TakesValue(name)
    BY <1>2, <1>4 DEF Given
  <2>2. i' <= argc /\ help_flag' \in BOOLEAN
    BY <1>1, <1>3, <1>4 DEF argc
  <2> QED
    BY <1>1, <1>4, <2>1, <2>2, StepOver
<1>5. CASE /\ heap[name].type # "bool"
           /\ i + 1 < argc
           /\ heap' = [heap EXCEPT ![name] =
                         ArgumentSet(@, ValueOf(heap[name].type, argv[i + 1]))]
           /\ i' = i + 2
           /\ help_flag' = (help_flag \/ heap[name].is_help)
           /\ UNCHANGED <<arguments, registered, pc, argv>>
  <2>1. Given(name, i) = ValueOf(heap[name].type, argv[i + 1]) /\ TakesValue(name)
    BY <1>1, <1>2, <1>5 DEF Given
  <2>2. i' <= argc /\ help_flag' \in BOOLEAN
    BY <1>1, <1>3, <1>5 DEF argc
  <2> QED
    BY <1>1, <1>5, <2>1, <2>2, StepOver
<1>6. CASE Dies("died")
  BY <1>1, <1>6, GivesUp DEF Dies, VerdictIsRight
<1>7. CASE heap[name].type # "bool" /\ i + 1 >= argc /\ Dies("refused")
  <2>1. ~WellFormed
    BY <1>1, <1>2, <1>7, RefusedAt
  <2>2. ~WellFormed'
    BY <1>7, <2>1, SameLine DEF Dies, table, WellFormed
  <2> QED
    BY <1>1, <1>7, <2>2, GivesUp DEF Dies, VerdictIsRight
<1> QED
  BY <1>1, <1>4, <1>5, <1>6, <1>7 DEF ParseNext

LEMMA UnknownWordKeepsIInv == IInv /\ UnknownWord => IInv'
<1> SUFFICES ASSUME IInv, UnknownWord PROVE IInv'
  OBVIOUS
<1>1. /\ pc = "parsing" /\ i < argc /\ arguments # NULL
      /\ argv[i] \notin Registered /\ Dies("refused")
  BY AtWord DEF UnknownWord
<1>2. ~WellFormed
  BY <1>1, RefusedAt
<1>3. ~WellFormed'
  BY <1>1, <1>2, SameLine DEF Dies, table, WellFormed
<1> QED
  BY <1>1, <1>3, GivesUp DEF Dies, VerdictIsRight

\* At the end of the line the options seen are all that it has.
LEMMA AllSeen ==
  ASSUME IInv, pc = "parsing", i >= argc
  PROVE  /\ arguments # NULL /\ WellFormed
         /\ \A name \in Registered : HasWhat(name, Places(name))
<1>1. InStep /\ arguments # NULL /\ argv \in Lines
  BY DEF IInv, NothingYet
<1>2. i = Len(argv) + 1 /\ Len(argv) \in Nat /\ DOMAIN argv = 1 .. Len(argv)
  BY <1>1, LineFacts, ArgumentsAssumption DEF InStep, argc
<1>3. 1 .. i - 1 = DOMAIN argv
  BY <1>2
<1>4. \A name : Seen(name) = Places(name)
  BY <1>3 DEF Seen, Places
<1>5. WellFormed
  <2> SUFFICES ASSUME NEW k \in DOMAIN argv, IsOption[k]
               PROVE  argv[k] \in Registered /\ (TakesValue(argv[k]) => k < Len(argv))
    BY DEF WellFormed
  <2>1. argv[k] \in Registered /\ (TakesValue(argv[k]) => k + 1 < i)
    BY <1>1, <1>3 DEF InStep
  <2> QED
    BY <1>2, <2>1
<1> QED
  BY <1>1, <1>4, <1>5 DEF InStep

\* What the arguments have at the end of the line is what it gives them.
LEMMA ParsedWell ==
  ASSUME argv \in Lines, \A name \in Registered : HasWhat(name, Places(name)),
         NEW name \in Registered
  PROVE  /\ heap[name].is_set <=> Places(name) # {} \/ registered[name].is_set
         /\ heap[name].pushed =
              IF heap[name].array THEN Cardinality(Places(name)) ELSE 0
         /\ heap[name].value =
              IF Places(name) = {} THEN registered[name].value
              ELSE Given(name, CHOOSE k \in Places(name) :
                                 \A j \in Places(name) : j <= k)
<1> DEFINE places == Places(name)
           IsLast(k) == \A j \in places : j <= k
<1>1. HasWhat(name, places)
  OBVIOUS
<1>2. places \subseteq 1 .. Len(argv) /\ Len(argv) \in Nat
  BY LineFacts, ArgumentsAssumption DEF Places
<1> HIDE DEF places
<1>3. ASSUME places # {}
      PROVE  heap[name].value = Given(name, CHOOSE k \in places : IsLast(k))
  <2>1. \E k \in places : IsLast(k)
    BY <1>2, <1>3, HasGreatest
  <2> DEFINE last == CHOOSE k \in places : IsLast(k)
  <2>2. last \in places /\ IsLast(last)
    BY <2>1
  <2> HIDE DEF last
  <2>3. heap[name].value = Given(name, last)
    BY <1>1, <2>2 DEF HasWhat
  <2> QED
    BY <2>3 DEF last
<1> QED
  BY <1>1, <1>3 DEF HasWhat, places

LEMMA ParseEndKeepsIInv == IInv /\ ParseEnd => IInv'
<1> SUFFICES ASSUME IInv, ParseEnd PROVE IInv'
  OBVIOUS
<1>1. pc = "parsing" /\ i >= argc /\ UNCHANGED <<table, argv, i, help_flag>>
  BY DEF ParseEnd
<1>2. /\ arguments # NULL /\ WellFormed
      /\ \A name \in Registered : HasWhat(name, Places(name))
  BY <1>1, AllSeen
<1>3. /\ TableOf(arguments, Registered)' /\ HelpIsRegistered' /\ HeapFollows'
      /\ Registered' = Registered
  BY <1>1, <1>2, SameTable
<1>4. /\ argv' \in Lines /\ i' \in 0 .. argc' /\ help_flag' \in BOOLEAN
      /\ arguments' = arguments /\ heap' = heap /\ registered' = registered
      /\ argv' = argv
  BY <1>1 DEF IInv, table, argc
<1>5. WellFormed'
  BY <1>2, <1>4, SameLine DEF WellFormed
<1>6. ParsedAsGiven'
  <2> SUFFICES ASSUME NEW name \in Registered
               PROVE  /\ heap[name].is_set <=> Places(name) # {} \/ registered[name].is_set
                      /\ heap[name].pushed =
                           IF heap[name].array THEN Cardinality(Places(name)) ELSE 0
                      /\ heap[name].value =
                           IF Places(name) = {} THEN registered[name].value
                           ELSE Given(name, CHOOSE k \in Places(name) :
                                              \A j \in Places(name) : j <= k)
    BY <1>3, <1>4, SameLine DEF ParsedAsGiven
  <2> QED
    BY <1>2, ParsedWell DEF IInv
<1>7. heap["--help"].value \in BOOLEAN
  <2>1. "--help" \in Registered /\ heap["--help"] \in argument_t("bool")
    BY <1>2 DEF IInv, HelpIsRegistered, HeapFollows
  <2> QED
    BY <2>1 DEF argument_t, ValuesOf
<1>8. CASE pc' \in {"exited", "ready", "lost"}
  BY <1>2, <1>3, <1>4, <1>5, <1>6, <1>8 DEF IInv, VerdictIsRight
<1>9. CASE /\ pc' = "refused" /\ i < arguments.sz
           /\ IsRequired(heap[arguments.values.base[i + 1]])
  <2> DEFINE name == arguments.values.base[i + 1]
  <2>1. name \in Registered
    <3>1. TableOf(arguments, Registered) /\ i \in Nat
      BY <1>1, <1>2 DEF IInv, InStep
    <3>2. i + 1 \in 1 .. arguments.sz
      BY <1>9, <3>1 DEF TableOf, HashTables
    <3> QED
      BY <3>1, <3>2 DEF TableOf, ArraysList
  <2>2. ~heap[name].is_set /\ registered[name].compulsory
    BY <1>9, <2>1 DEF IsRequired, IInv, HeapFollows
  <2>3. Places(name) = {} /\ ~registered[name].is_set
    BY <1>2, <2>1, <2>2 DEF HasWhat
  <2> HIDE DEF name
  <2>4. ~AllRequiredGiven
    BY <2>1, <2>2, <2>3 DEF AllRequiredGiven
  <2>5. ~AllRequiredGiven'
    BY <1>4, <2>4, SameLine DEF AllRequiredGiven
  <2> QED
    BY <1>2, <1>3, <1>4, <1>6, <1>9, <2>5 DEF IInv, VerdictIsRight
<1>10. \/ pc' \in {"exited", "ready", "lost"}
       \/ /\ pc' = "refused" /\ i < arguments.sz
          /\ IsRequired(heap[arguments.values.base[i + 1]])
  <2>1. arguments.sz \in Nat /\ i \in Nat
    BY <1>1, <1>2 DEF IInv, InStep, TableOf, HashTables
  <2> QED
    BY <1>7, <2>1 DEF ParseEnd
<1> QED
  BY <1>8, <1>9, <1>10

LEMMA OthersKeepIInv ==
  IInv /\ (\/ CallTooEarly \/ Finalize
           \/ \E name \in Keys : GetFails(name)
           \/ \E name \in Keys, type \in Types : GetOfTypeFails(name, type)) => IInv'
<1>1. ASSUME IInv, CallTooEarly PROVE IInv'
  BY <1>1, GivesUp DEF CallTooEarly, Dies, VerdictIsRight
<1>2. ASSUME IInv, NEW name \in Keys, GetFails(name) PROVE IInv'
  BY <1>2, GivesUp DEF GetFails, Dies, VerdictIsRight
<1>4. ASSUME IInv, NEW name \in Keys, NEW type \in Types, GetOfTypeFails(name, type)
      PROVE  IInv'
  BY <1>4, GivesUp DEF GetOfTypeFails, Dies, VerdictIsRight
<1>3. ASSUME IInv, Finalize PROVE IInv'
  <2>1. pc = "ready" /\ pc' = "finalized" /\ UNCHANGED <<table, argv, i, help_flag>>
    BY <1>3 DEF Finalize
  <2>2. arguments # NULL
    BY <1>3, <2>1 DEF IInv, NothingYet
  <2>3. /\ TableOf(arguments, Registered)' /\ HelpIsRegistered' /\ HeapFollows'
    BY <1>3, <2>1, <2>2, SameTable
  <2>4. /\ argv' = argv /\ i' = i /\ help_flag' = help_flag /\ argc' = argc
        /\ arguments' = arguments /\ heap' = heap /\ registered' = registered
    BY <2>1 DEF table, argc
  <2>5. ParsedAsGiven'
    BY <1>3, <2>1, <2>4, SameLine DEF IInv, ParsedAsGiven
  <2>6. VerdictIsRight'
    BY <1>3, <2>1, <2>4, SameLine DEF IInv, VerdictIsRight, WellFormed
  <2> QED
    BY <1>3, <2>1, <2>2, <2>3, <2>4, <2>5, <2>6 DEF IInv
<1> QED
  BY <1>1, <1>2, <1>3, <1>4

LEMMA StutterKeepsIInv == IInv /\ UNCHANGED vars => IInv'
<1> SUFFICES ASSUME IInv, UNCHANGED vars PROVE IInv'
  OBVIOUS
<1>1. /\ argv' = argv /\ i' = i /\ help_flag' = help_flag /\ argc' = argc /\ pc' = pc
      /\ arguments' = arguments /\ heap' = heap /\ registered' = registered
      /\ UNCHANGED table
  BY DEF vars, table, argc
<1>2. /\ arguments # NULL => TableOf(arguments, Registered)' /\ HelpIsRegistered'
      /\ HeapFollows' /\ Registered' = Registered
  BY <1>1, SameTable
<1>3. NothingYet => NothingYet'
  BY <1>1 DEF NothingYet
<1>4. ParsedAsGiven'
  BY <1>1, SameLine DEF IInv, ParsedAsGiven
<1>5. VerdictIsRight'
  BY <1>1, SameLine DEF IInv, VerdictIsRight, WellFormed, AllRequiredGiven
<1>6. InStep => InStep'
  <2> SUFFICES ASSUME InStep PROVE InStep'
    OBVIOUS
  <2>1. \A name : Seen(name)' = Seen(name)
    BY <1>1, SameLine DEF Seen
  <2>2. \A name, places : HasWhat(name, places)' <=> HasWhat(name, places)
    BY <1>1, SameLine DEF HasWhat
  <2>3. \A name : HasWhat(name, Seen(name))' <=> HasWhat(name, Seen(name))
    BY <2>1, <2>2 DEF HasWhat
  <2> QED
    BY <1>1, <1>2, <2>3, SameLine DEF InStep
<1> QED
  BY <1>1, <1>2, <1>3, <1>4, <1>5, <1>6 DEF IInv

\* What the loop relies on, and what it has done so far, is so in every state.
THEOREM IInvHolds == Spec => []IInv
<1>1. IInv /\ [Next]_vars => IInv'
  BY BeginKeepsIInv, AddKeepsIInv, ParseKeepsIInv, UnknownWordKeepsIInv,
     ParseNextKeepsIInv, ParseEndKeepsIInv, OthersKeepIInv, StutterKeepsIInv
  DEF Next
<1> QED
  BY <1>1, InitIInv, PTL DEF Spec

-----------------------------------------------------------------------------
(***************************************************************************)
(* What follows                                                            *)
(***************************************************************************)

\* The table is a hash table of keys, there is an argument_t of the right type
\* for each option registered and for no other name, and only an argument that
\* has an array is ever pushed to.
THEOREM TypeCorrect == Spec => []TypeOK
<1>1. IInv => TypeOK
  <2> SUFFICES ASSUME IInv PROVE TypeOK
    OBVIOUS
  <2>1. arguments = NULL \/ arguments \in HashTables(HASHTBL_CAPACITY, Keys)
    BY DEF IInv, TableOf
  <2> QED
    BY <2>1 DEF IInv, HeapFollows, TypeOK
<1> QED
  BY <1>1, IInvHolds, PTL

\* The table finds each option registered and no other, and the two arrays list
\* each of them once, whichever share a bucket (hashtable.c:50-97).
THEOREM TableIsTheRegistry == Spec => []TableIsRegistry
<1>1. IInv => TableIsRegistry
  <2> SUFFICES ASSUME IInv, arguments # NULL
               PROVE  /\ \A name \in Keys :
                           hashtbl_check_key(arguments, name) <=> name \in Registered
                      /\ \A name \in Registered : hashtbl_get(arguments, name) = name
                      /\ ArraysList(arguments, Registered)
    BY DEF TableIsRegistry, ArraysList
  <2>1. TableOf(arguments, Registered)
    BY DEF IInv
  <2>2. \A name \in Registered : name \in Keys
    BY DEF Registered
  <2> QED
    BY <2>1, <2>2, TableFinds DEF TableOf
<1> QED
  BY <1>1, IInvHolds, PTL

\* Each argument has the value of its last occurrence in the line, or the one it
\* was registered with, and as many elements as it has occurrences
\* (arguments.c:127-171).
THEOREM LinesParsedAsGiven == Spec => []ParsedAsGiven
<1>1. IInv => ParsedAsGiven
  BY DEF IInv
<1> QED
  BY <1>1, IInvHolds, PTL

\* A line is refused only if it is malformed or leaves out a compulsory
\* argument, and accepted only if it is well-formed (arguments.c:127-188).
THEOREM VerdictsAreRight == Spec => []VerdictIsRight
<1>1. IInv => VerdictIsRight
  BY DEF IInv
<1> QED
  BY <1>1, IInvHolds, PTL

=============================================================================
