------------------------- MODULE MCThumbImageUpdater -------------------------
(* Instances of ThumbImageUpdater for TLC. *)
EXTENDS ThumbImageUpdater, TLC

\* The threads of the pool are alike.
Symmetric == Permutations(Workers)

=============================================================================
