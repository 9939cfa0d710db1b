----------------------------- MODULE MCEndpoint -----------------------------
(***************************************************************************)
(* The endpoint on a small instance: two streams compete for one pin more  *)
(* than there is, and nobody looks at which stream or content it is.       *)
(***************************************************************************)
EXTENDS Endpoint, TLC

Symmetry == Permutations(Streams) \cup Permutations(Contents) \cup Permutations(MixedContents)

MCMinLevel == -4
MCLevels == {-3, 3}
=============================================================================
