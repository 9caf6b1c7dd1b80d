------------------------------- MODULE MCRunner -------------------------------
(***************************************************************************)
(* Runner on small instances.                                              *)
(***************************************************************************)
EXTENDS Runner, TLC

Symmetry == Permutations(Workers) \cup Permutations(Runs)

===============================================================================
