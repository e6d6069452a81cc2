---------------------------- MODULE MCRunQueue ----------------------------
(* Instances of RunQueue for TLC. *)
EXTENDS RunQueue, TLC

\* Sessions and workers are only compared for equality.
Symmetry == Permutations(Sessions) \cup Permutations(Workers)
=============================================================================
