------------------------------- MODULE VArray -------------------------------
(***************************************************************************)
(* The value of an array_t (libvalor/src/array.c): base[0 .. sz - 1], of   *)
(* which sz is the length here, and the number of pointers it has room     *)
(* for.  The functions that array.h does not declare, and no program       *)
(* calls, are left out.                                                    *)
(***************************************************************************)
EXTENDS Naturals, Sequences

Arrays(Objects) == [base : Seq(Objects), capacity : Nat]

\* With capacity 0 it writes one pointer past the end of the allocation.
array_create(capacity) == [base |-> <<>>, capacity |-> capacity]

ExtendsWhenFull(arr) == Len(arr.base) > arr.capacity

\* The array is extended, by one pointer, when it has room for just one more.
ExtendsFor(arr) == Len(arr.base) + 1 >= arr.capacity

array_add(arr, object) ==
  [base     |-> Append(arr.base, object),
   capacity |-> IF ExtendsFor(arr) THEN arr.capacity + 1 ELSE arr.capacity]

\* Every object is inside the allocation.
InBounds(arr) == Len(arr.base) <= arr.capacity

=============================================================================
