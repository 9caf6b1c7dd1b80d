----------------------------- MODULE MCRunControl -----------------------------
(***************************************************************************)
(* RunControl on small instances.                                          *)
(***************************************************************************)
EXTENDS RunControl, TLC

Symmetry == Permutations(Workers) \cup Permutations(Runs)

===============================================================================
