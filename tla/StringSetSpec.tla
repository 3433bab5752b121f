---------------------------- MODULE StringSetSpec ----------------------------
(***************************************************************************)
(* One client using one stringset_t: adding and looking up strings in any  *)
(* order, then destroying the set.                                         *)
(***************************************************************************)
EXTENDS StringSet, FiniteSets

CONSTANT Capacities   \* the capacities a client may ask for; 0 is accepted

ASSUME CapacitiesAssumption == Capacities \subseteq Nat

VARIABLES
  set,      \* the stringset_t
  status,   \* "live", "destroyed", "aborted" (assert), "lost" (wild pointer)
  answer,   \* string and result of the last stringset_check, if
            \* no stringset_add came after it
  added     \* history: the strings passed to stringset_add, first use first

vars == <<set, status, answer, added>>

NoAnswer == <<>>

Added == { added[k] : k \in DOMAIN added }

Init ==
  /\ \E capacity \in Capacities : set = create_stringset(capacity)
  /\ status = "live"
  /\ answer = NoAnswer
  /\ added = <<>>

\* stringset_add(set, str): asserts that the capacity is not zero, then walks.
Add(str) ==
  /\ status = "live"
  /\ answer' = NoAnswer
  /\ \/ /\ set.capacity = 0
        /\ status' = "aborted"
        /\ UNCHANGED <<set, added>>
     \/ /\ set.capacity > 0
        /\ AddGetsLost(set, str)
        /\ status' = "lost"
        /\ UNCHANGED <<set, added>>
     \/ /\ set.capacity > 0
        /\ ~AddGetsLost(set, str)
        /\ \E next \in FreshNext : set' = stringset_add(set, str, next)
        /\ added' = IF str \in Added THEN added ELSE Append(added, str)
        /\ UNCHANGED status

(***************************************************************************)
(* stringset_check(set, str).  It does not assert the capacity: with 0 the *)
(* remainder is undefined behaviour.                                       *)
(***************************************************************************)
Check(str) ==
  /\ status = "live"
  /\ \/ /\ set.capacity = 0
        /\ status' = "lost"
        /\ UNCHANGED answer
     \/ /\ set.capacity > 0
        /\ CheckGetsLost(set, str)
        /\ status' = "lost"
        /\ UNCHANGED answer
     \/ /\ set.capacity > 0
        /\ ~CheckGetsLost(set, str)
        /\ answer' = <<str, stringset_check(set, str)>>
        /\ UNCHANGED status
  /\ UNCHANGED <<set, added>>

\* destroy_stringset(set): walks every chain to its end to free the nodes.
Destroy ==
  /\ status = "live"
  /\ status' = IF set.wild = {} THEN "destroyed" ELSE "lost"
  /\ UNCHANGED <<set, answer, added>>

Next ==
  \/ \E str \in Strings : Add(str) \/ Check(str)
  \/ Destroy

Spec == Init /\ [][Next]_vars

-----------------------------------------------------------------------------
(***************************************************************************)
(* Properties                                                              *)
(***************************************************************************)

\* The set is a stringset_t, the history lists strings without repetition.
TypeOK ==
  /\ \E capacity \in Capacities : set \in StringSets(capacity)
  /\ status \in {"live", "destroyed", "aborted", "lost"}
  /\ answer \in (Strings \X BOOLEAN) \cup {NoAnswer}
  /\ added \in Seq(Strings)

\* `size` counts the codes of the strings ever added, not the strings: this is
\* the number database_save writes in front of the names (hashset.c:106-128).
SizeCountsCodes ==
  set.size = Cardinality({ Hash[str] : str \in Added })

\* The string a code is held by is the first one added with it.
FirstWithCode(str) ==
  \E k \in DOMAIN added :
    /\ added[k] = str
    /\ \A j \in 1 .. k - 1 : Hash[added[j]] # Hash[str]

\* A lookup finds a string exactly when it was the first added with its code:
\* nothing that was not added is found, and a string is missed only when
\* another one got its code first (hashset.c:106-145).
AnswerIsFirstWithCode ==
  answer # NoAnswer => (answer[2] <=> FirstWithCode(answer[1]))

\* Adding never loses a string the set already holds, in whichever chain the
\* new node goes (hashset.c:121-126).
MembersAreKept == [][Members(set) \subseteq Members(set')]_set

\* What the unit test relies on: adding a string, looking it up, looking up one
\* that is not there and destroying the set all return (test_stringset.c:14-28).
StaysDefined == status # "lost"

=============================================================================
