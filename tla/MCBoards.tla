------------------------------- MODULE MCBoards -------------------------------
(***************************************************************************)
(* Boards on a small instance.  Users, ids and keys are interchangeable.   *)
(***************************************************************************)
EXTENDS Boards, TLC

Symmetric ==
    UNION {Permutations(S) : S \in {Users, ProjectIds, BoardIds, RunIds, FreshKeys}}

===============================================================================
