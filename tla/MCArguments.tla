----------------------------- MODULE MCArguments -----------------------------
(***************************************************************************)
(* Three options in three buckets besides --help, one that asks for help,  *)
(* and two that are registered under a name that may be taken.             *)
(***************************************************************************)
EXTENDS Arguments

MCKeys == {"--help", "--db", "--version", "-h", "7"}

\* "--db" and "-h" share a bucket of two, as do the others.
MCKeyHash ==
  [key \in MCKeys |-> IF key \in {"--db", "-h"} THEN 1 ELSE 2]

MCAtoll == [word \in MCKeys |-> IF word = "7" THEN 7 ELSE 0]

Option(name, type, way, value) ==
  [name |-> name, type |-> type, way |-> way, value |-> value,
   is_set |-> FALSE, is_help |-> FALSE]

MCOptions ==
  { Option("--db", "str", "compulsory", NULL),
    Option("--db", "str", "array", NULL),
    [Option("--version", "int", "plain", 1) EXCEPT !.is_set = TRUE],
    Option("--version", "bool", "compulsory array", FALSE),
    [Option("-h", "bool", "plain", FALSE) EXCEPT !.is_help = TRUE] }

=============================================================================
