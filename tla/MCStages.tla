------------------------------- MODULE MCStages -------------------------------
(***************************************************************************)
(* An instance of Stages for TLC.  One step of the scale is 20 dB: the     *)
(* limit is two steps down, and a climb of two is a divergence.            *)
(***************************************************************************)
EXTENDS Stages

MCLevels == {0, 1, 3}
MCStrides == {1}

=============================================================================
