---------------------------- MODULE MCEntryImages ----------------------------
(***************************************************************************)
(* Instances of EntryImages for TLC.  Workers are interchangeable.         *)
(***************************************************************************)
EXTENDS EntryImages, TLC

Symmetry == Permutations(Workers)

=============================================================================
