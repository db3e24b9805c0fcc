------------------------------- MODULE Sublists -------------------------------
(***************************************************************************)
(* Lists filtered by a comprehension, as a relation: the filtered list     *)
(* holds what passes the filter, in the order of the list.  It says what   *)
(* [x for x in s if ...] is of a list without duplicates.                  *)
(***************************************************************************)
EXTENDS Naturals, Sequences

\* The lists that are no longer than s and hold elements of it.
Lists(s) == UNION {[1 .. n -> {s[i] : i \in DOMAIN s}] : n \in 0 .. Len(s)}

\* The list holds the elements of S, in their order in s.
InOrder(list, S, s) ==
    /\ {list[n] : n \in DOMAIN list} = S
    /\ \A m, n \in DOMAIN list : m < n =>
          \E i, j \in DOMAIN s : i < j /\ s[i] = list[m] /\ s[j] = list[n]
=============================================================================
