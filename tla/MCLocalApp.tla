------------------------------ MODULE MCLocalApp ------------------------------
(***************************************************************************)
(* Instances of the local app.                                             *)
(***************************************************************************)
EXTENDS LocalApp

CONSTANTS a1, a2, f1

OneFolder == [a \in {a1, a2} |-> f1]

=============================================================================
