----------------------------- MODULE HashSetSpec -----------------------------
(***************************************************************************)
(* One client using one hashset_t, as StringSetSpec uses a stringset_t.    *)
(***************************************************************************)
EXTENDS HashSet

CONSTANT Capacities

VARIABLES
  set,      \* the hashset_t
  status,   \* "live", "destroyed", "aborted" (assert), "lost" (remainder by 0)
  answer    \* code and result of the last hashset_check, if no hashset_add
            \* came after it

vars == <<set, status, answer>>

NoAnswer == <<>>

Init ==
  /\ \E capacity \in Capacities : set = create_hashset(capacity)
  /\ status = "live"
  /\ answer = NoAnswer

\* hashset_add(set, hash)
Add(hash) ==
  /\ status = "live"
  /\ answer' = NoAnswer
  /\ IF set.capacity = 0
     THEN status' = "aborted" /\ UNCHANGED set
     ELSE set' = hashset_add(set, hash) /\ UNCHANGED status

\* hashset_check(set, hash)
Check(hash) ==
  /\ status = "live"
  /\ IF set.capacity = 0
     THEN status' = "lost" /\ UNCHANGED answer
     ELSE answer' = <<hash, hashset_check(set, hash)>> /\ UNCHANGED status
  /\ UNCHANGED set

\* destroy_hashset(set)
Destroy ==
  /\ status = "live"
  /\ status' = "destroyed"
  /\ UNCHANGED <<set, answer>>

Next ==
  \/ \E hash \in Codes : Add(hash) \/ Check(hash)
  \/ Destroy

Spec == Init /\ [][Next]_vars

=============================================================================
