---------------------------- MODULE MCDeployment ----------------------------
(***************************************************************************)
(* Two names, each of which may be added twice, which to a load is the     *)
(* same as two names with one code; two files that can be hashed, one of   *)
(* them with a byte after its NUL, and one that cannot.                    *)
(***************************************************************************)
EXTENDS Deployment, Djb2, TLC

\* "ab", "a"
MCStrings == { <<97, 98>>, <<97>> }

MCHash == [str \in MCStrings |-> hash_djb2(str)]

MCAlphabet == {1}

AnyNext == {"null", "wild"}

MCFiles == {"threat", "variant", "unreadable"}

MCDigest ==
  [fname \in {"threat", "variant"} |->
     IF fname = "threat" THEN 0 :> 1 @@ 1 :> 0 ELSE 0 :> 0 @@ 1 :> 1]

\* Below 0, as meant, and 0 once it is a db_size_t.
MCCapacityArgs == {-1, 1, 16}

\* A file of no use, and one that nobody asked for.
MCStrayFiles ==
  { <<[kind |-> "garbage"]>>,
    <<[kind |-> "metadata", version |-> 0, modulo |-> 1, size |-> 1],
      NameRecord(<<97>>),
      TreeRecord([i \in Positions |-> [data |-> 0, neighbors |-> {1}]])>> }

=============================================================================
