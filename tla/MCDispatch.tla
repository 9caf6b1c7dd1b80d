------------------------------ MODULE MCDispatch ------------------------------
(***************************************************************************)
(* Dispatch on a small instance: one solve, and workers that may come back *)
(* with less memory than it needs.                                         *)
(***************************************************************************)
EXTENDS Dispatch

Small == [kinds |-> {"ingest", "solve"}, maxCells |-> 1]
Large == [kinds |-> {}, maxCells |-> 2]

OneSolve == 1 .. 1
SolveKind == <<"solve">>
SolveCells == <<2>>
ServesAll == [k \in Kids |-> Runs]
MCDeclares == [k \in Kids |-> {Small, Large}]

===============================================================================
