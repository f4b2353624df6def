------------------------------- MODULE Places --------------------------------
(***************************************************************************)
(* Parts of a sequence, in its order: what the loops over the list of an   *)
(* export queue, of its file and of pending loads take or leave.           *)
(***************************************************************************)
EXTENDS Naturals, Sequences, FiniteSets

\* The elements of s in the places I.
AtPlaces(s, I) ==
    [k \in 1 .. Cardinality(I) |->
        s[CHOOSE i \in I : Cardinality({j \in I : j < i}) = k - 1]]

\* s without the members of A.
Without(s, A) == AtPlaces(s, {i \in DOMAIN s : s[i] \notin A})

=============================================================================
