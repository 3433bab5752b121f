------------------------------ MODULE MCValord ------------------------------
(***************************************************************************)
(* The daemon and up to MaxProcesses - 1 other processes.  The databases   *)
(* hold one name, "ab", and one digest, or the digest alone.               *)
(***************************************************************************)
EXTENDS Valord, Djb2, TLC

\* "ab", "a", ""
MCStrings == { <<97, 98>>, <<97>>, <<>> }

MCHash == [str \in MCStrings |-> hash_djb2(str)]

\* A kernel thread, a threat by name, a threat by digest whose command line
\* begins with a NUL, and neither.
MCImages ==
  { [cmdline |-> <<>>,           exe |-> "none"],
    [cmdline |-> <<97, 98, 10>>, exe |-> "tool"],
    [cmdline |-> <<0>>,          exe |-> "threat"],
    [cmdline |-> <<97, 0>>,      exe |-> "tool"] }

MCAlphabet == {1}

MCDigest ==
  [exe \in {"threat", "tool"} |->
     IF exe = "threat" THEN 0 :> 1 @@ 1 :> 0 ELSE 0 :> 0 @@ 1 :> 0]

WithName(next) == database_add_name(create_database(1), <<97, 98>>, next)

\* Loaded by a build whose stringset nodes end where they should.
CleanDatabase == database_add_hash(WithName("null"), MCDigest["threat"])

WildDatabase == database_add_hash(WithName("wild"), MCDigest["threat"])

\* Made with --capacity 0: it can be saved and loaded as long as it has no name.
ZeroDatabase == database_add_hash(create_database(0), MCDigest["threat"])

CleanDatabases == {CleanDatabase}

AnyDatabases == {CleanDatabase, WildDatabase, ZeroDatabase}

CleanNext == {"null"}

=============================================================================
