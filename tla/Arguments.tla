------------------------------ MODULE Arguments ------------------------------
(***************************************************************************)
(* The command line of dbgen (dbgen/src/arguments.c): a program registers  *)
(* its options, then has a command line parsed word by word.               *)
(***************************************************************************)
EXTENDS HashTable, Integers, FiniteSets

CONSTANTS
  HASHTBL_CAPACITY,
  Options,     \* what a program may register
  Words,       \* the words of a command line
  Atoll,       \* Atoll[word]: what atoll makes of a word
  NULL,        \* the null pointer
  MaxWords     \* bound on the words of a command line

Types == {"int", "str", "bool"}

Ways == {"plain", "compulsory", "array", "compulsory array"}

\* What an argvalue holds.
ValuesOf(type) ==
  CASE type = "int" -> Int
    [] type = "str" -> Keys \cup {NULL}
    [] type = "bool" -> BOOLEAN

argument_t(type) ==
  [type : {type}, compulsory : BOOLEAN, value : ValuesOf(type),
   is_set : BOOLEAN, is_help : BOOLEAN, array : BOOLEAN, pushed : Nat]

\* The value of an argvalue whose bits are all zero.
ZeroOf(type) ==
  CASE type = "int" -> 0 [] type = "str" -> NULL [] type = "bool" -> FALSE

(***************************************************************************)
(* An option as it is registered: by argument_add ("plain", with a value   *)
(* that may count as set), argument_add_compulsory or argument_add_array.  *)
(* The null pointer points to none of the objects there are.               *)
(***************************************************************************)
ASSUME ArgumentsAssumption ==
  /\ HASHTBL_CAPACITY \in Nat \ {0}
  /\ \A option \in Options :
       /\ option.name \in Keys
       /\ option.type \in Types
       /\ option.way \in Ways
       /\ option.value \in ValuesOf(option.type)
       /\ option.is_set \in BOOLEAN
       /\ option.is_help \in BOOLEAN
       /\ option.way # "plain" =>
            /\ option.value = ZeroOf(option.type)
            /\ ~option.is_set
            /\ ~option.is_help
  /\ Words \subseteq Keys
  /\ "--help" \in Keys
  /\ Atoll \in [Words -> Int]
  /\ NULL \notin Words \cup HashTables(HASHTBL_CAPACITY, Keys)
  /\ \A type \in Types : NULL \notin argument_t(type)
  /\ MaxWords \in Nat

VARIABLES
  arguments,    \* the hashtable_t, from names to pointers, or NULL
  heap,         \* what the pointers lead to: the argument_t of each name
  pc,           \* "new", "setup", "parsing", "ready", "exited", "refused"
                \* (the line is wrong), "died" (a programming error), "lost" (memory that is not there is read), "finalized"
  argv,         \* the words after the program's name
  i,            \* index into argv
  help_flag,
  registered    \* history: each argument_t as it was registered

table == <<arguments, heap, registered>>
vars == <<arguments, heap, pc, argv, i, help_flag, registered>>

argc == Len(argv) + 1

\* pushed is the size of values.  Each element points to the value member of
\* this very argument_t, so all show the value set last.
argument_create(option) ==
  [type       |-> option.type,
   compulsory |-> option.way \in {"compulsory", "compulsory array"},
   value      |-> option.value,
   is_set     |-> option.is_set,
   is_help    |-> option.is_help,
   array      |-> option.way \in {"array", "compulsory array"},
   pushed     |-> 0]

help_option ==
  [name |-> "--help", type |-> "bool", way |-> "plain", is_set |-> FALSE,
   is_help |-> TRUE, value |-> FALSE]

Init ==
  /\ arguments = NULL
  /\ heap = [name \in Keys |-> NULL]
  /\ pc = "new"
  /\ argv = <<>>
  /\ i = 0
  /\ help_flag = FALSE
  /\ registered = [name \in Keys |-> NULL]

-----------------------------------------------------------------------------
(***************************************************************************)
(* Registration                                                            *)
(***************************************************************************)

\* _register_argument, for a name that is not in the table.
Registers(tbl, option) ==
  /\ arguments' = hashtbl_add(tbl, option.name, option.name)
  /\ heap' = [heap EXCEPT ![option.name] = argument_create(option)]
  /\ registered' = [registered EXCEPT ![option.name] = argument_create(option)]

Begin ==
  /\ pc = "new"
  /\ pc' = "setup"
  /\ Registers(hashtbl_create(HASHTBL_CAPACITY), help_option)
  /\ UNCHANGED <<argv, i, help_flag>>

Dies(reason) == pc' = reason /\ UNCHANGED <<table, argv, i, help_flag>>

\* Every call dies before arguments_begin.
CallTooEarly ==
  /\ pc = "new"
  /\ Dies("died")

\* argument_add, argument_add_compulsory and argument_add_array.  A name that
\* is taken is fatal to the first two and ignored by the third.
Add(option) ==
  /\ pc = "setup"
  /\ \/ /\ ~hashtbl_check_key(arguments, option.name)
        /\ Registers(arguments, option)
        /\ UNCHANGED pc
     \/ /\ hashtbl_check_key(arguments, option.name)
        /\ option.way \in {"plain", "compulsory"}
        /\ pc' = "died"
        /\ UNCHANGED table
     \/ /\ hashtbl_check_key(arguments, option.name)
        /\ option.way \in {"array", "compulsory array"}
        /\ UNCHANGED <<pc, table>>
  /\ UNCHANGED <<argv, i, help_flag>>

-----------------------------------------------------------------------------
(***************************************************************************)
(* arguments_parse                                                         *)
(***************************************************************************)

Parse(words) ==
  /\ pc = "setup"
  /\ pc' = "parsing"
  /\ argv' = words
  /\ i' = 1
  /\ UNCHANGED <<table, help_flag>>

UnknownWord ==
  /\ pc = "parsing"
  /\ i < argc
  /\ ~hashtbl_check_key(arguments, argv[i])
  /\ Dies("refused")

ArgumentSetKeepingFirst(argument, value) ==
  [argument EXCEPT !.value  = IF argument.is_set THEN @ ELSE value,
                   !.is_set = TRUE,
                   !.pushed = IF argument.array THEN @ + 1 ELSE @]

ArgumentSetPushing(argument, value) ==
  [argument EXCEPT !.value  = value,
                   !.is_set = TRUE,
                   !.pushed = @ + 1]

\* What one occurrence of an option does to its argument_t.
ArgumentSet(argument, value) ==
  [argument EXCEPT !.value  = value,
                   !.is_set = TRUE,
                   !.pushed = IF argument.array THEN @ + 1 ELSE @]

ValueOf(type, word) == IF type = "int" THEN Atoll[word] ELSE word

\* One turn of the loop at a registered option.
ParseNext ==
  /\ pc = "parsing"
  /\ i < argc
  /\ hashtbl_check_key(arguments, argv[i])
  /\ LET pointer  == hashtbl_get(arguments, argv[i])
         argument == heap[pointer]
     IN  \/ /\ argument.type = "bool"
            /\ ~argument.array
            /\ heap' = [heap EXCEPT ![pointer] = ArgumentSet(@, TRUE)]
            /\ i' = i + 1
            /\ help_flag' = (help_flag \/ argument.is_help)
            /\ UNCHANGED <<arguments, registered, pc, argv>>
         \/ /\ argument.type # "bool"
            /\ i + 1 < argc
            /\ heap' = [heap EXCEPT ![pointer] =
                          ArgumentSet(@, ValueOf(argument.type, argv[i + 1]))]
            /\ i' = i + 2
            /\ help_flag' = (help_flag \/ argument.is_help)
            /\ UNCHANGED <<arguments, registered, pc, argv>>
         \/ argument.type = "bool" /\ argument.array /\ Dies("died")
         \/ argument.type # "bool" /\ i + 1 >= argc /\ Dies("refused")

IsSetUnlessCompulsory(argument) == argument.compulsory

\* What the check of compulsory arguments makes of one argument_t.
IsRequired(argument) == ~argument.is_set /\ argument.compulsory

(***************************************************************************)
(* The end of the loop.  The check of compulsory arguments has an index j  *)
(* of its own and looks at base[i] all the same, in every turn; i is argc  *)
(* by then, which need not be an index of the array.                       *)
(***************************************************************************)
ParseEnd ==
  /\ pc = "parsing"
  /\ i >= argc
  /\ pc' = CASE heap["--help"].value -> "exited"
             [] ~heap["--help"].value /\ help_flag -> "ready"
             [] OTHER ->
                  IF i >= arguments.sz THEN "lost"
                  ELSE IF IsRequired(heap[arguments.values.base[i + 1]])
                       THEN "refused" ELSE "ready"
  /\ UNCHANGED <<table, argv, i, help_flag>>

-----------------------------------------------------------------------------
\* argument_get, argument_check, argument_value_get of an unknown name.
\* Otherwise they only read.
GetFails(name) ==
  /\ pc \in {"setup", "ready"}
  /\ ~hashtbl_check_key(arguments, name)
  /\ Dies("died")

\* argument_value_get_s of an argument of another type.
GetOfTypeFails(name, type) ==
  /\ pc \in {"setup", "ready"}
  /\ hashtbl_check_key(arguments, name)
  /\ heap[hashtbl_get(arguments, name)].type # type
  /\ Dies("died")

Finalize ==
  /\ pc = "ready"
  /\ pc' = "finalized"
  /\ UNCHANGED <<table, argv, i, help_flag>>

Lines == UNION { [1 .. n -> Words] : n \in 0 .. MaxWords }

Next ==
  \/ Begin \/ CallTooEarly
  \/ \E option \in Options : Add(option)
  \/ \E words \in Lines : Parse(words)
  \/ UnknownWord \/ ParseNext \/ ParseEnd
  \/ \E name \in Keys : GetFails(name)
  \/ \E name \in Keys, type \in Types : GetOfTypeFails(name, type)
  \/ Finalize

Spec == Init /\ [][Next]_vars

-----------------------------------------------------------------------------
(***************************************************************************)
(* Properties                                                              *)
(***************************************************************************)

Registered == { name \in Keys : registered[name] # NULL }

\* The table and the arrays of arguments are where the others expect them: only
\* an argument that has an array is ever added to it.
TypeOK ==
  /\ arguments = NULL \/ arguments \in HashTables(HASHTBL_CAPACITY, Keys)
  /\ \A name \in Keys : heap[name] # NULL <=> name \in Registered
  /\ \A name \in Registered :
       /\ heap[name] \in argument_t(registered[name].type)
       /\ heap[name].pushed # 0 => heap[name].array
  /\ pc \in {"new", "setup", "parsing", "ready", "exited", "refused",
             "died", "lost", "finalized"}
  /\ argv \in Lines
  /\ i \in 0 .. argc
  /\ help_flag \in BOOLEAN

\* The table finds each registered name, whichever names share its bucket, and
\* no other; the two arrays list each of them once, in one order
\* (hashtable.c:50-97, arguments.c:29-39).
TableIsRegistry == arguments # NULL =>
  /\ \A name \in Keys :
       hashtbl_check_key(arguments, name) <=> name \in Registered
  /\ \A name \in Registered : hashtbl_get(arguments, name) = name
  /\ arguments.values = arguments.keys
  /\ arguments.sz = Cardinality(Registered)
  /\ \A name \in Registered :
       \E k \in 1 .. arguments.sz : arguments.keys.base[k] = name

\* A word that takes the next one for its value.
TakesValue(word) == word \in Registered /\ registered[word].type # "bool"

\* Which words of the line are options, by position: the first, the one after
\* an option without a value, and the one after the value of an option.
IsOption[k \in 0 .. MaxWords] ==
  \/ k = 1
  \/ k > 1 /\ IsOption[k - 1] /\ ~TakesValue(argv[k - 1])
  \/ k > 2 /\ IsOption[k - 2] /\ TakesValue(argv[k - 2])

Places(name) == { k \in DOMAIN argv : IsOption[k] /\ argv[k] = name }

WellFormed ==
  \A k \in DOMAIN argv :
    IsOption[k] => /\ argv[k] \in Registered
                   /\ TakesValue(argv[k]) => k < Len(argv)

Given(name, k) ==
  IF TakesValue(name) THEN ValueOf(registered[name].type, argv[k + 1]) ELSE TRUE

\* After the line is parsed every argument has the value of its last occurrence
\* in the line, or the one it was registered with, and as many elements as it
\* has occurrences: no option is taken for a value, or a value for an option
\* (arguments.c:127-171).
ParsedAsGiven ==
  pc \in {"ready", "exited", "finalized"} =>
    \A name \in Registered :
      LET argument == heap[name]
          places   == Places(name)
      IN  /\ argument.is_set <=> places # {} \/ registered[name].is_set
          /\ argument.pushed =
               IF argument.array THEN Cardinality(places) ELSE 0
          /\ argument.value =
               IF places = {} THEN registered[name].value
               ELSE Given(name,
                          CHOOSE k \in places : \A j \in places : j <= k)

AllRequiredGiven ==
  \A name \in Registered :
    registered[name].compulsory => Places(name) # {} \/ registered[name].is_set

\* A line is refused only if it is malformed or leaves out a compulsory
\* argument, and accepted only if it is well-formed (arguments.c:127-188).
VerdictIsRight ==
  /\ pc = "refused" => ~WellFormed \/ ~AllRequiredGiven
  /\ pc \in {"ready", "exited", "finalized"} => WellFormed

\* What the comment says is checked: all compulsory arguments are set, unless
\* help was asked for (arguments.c:181).
CompulsoryGiven ==
  pc = "ready" => help_flag \/ AllRequiredGiven

=============================================================================
