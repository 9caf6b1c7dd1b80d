------------------------------- MODULE MCPlugin -------------------------------
(***************************************************************************)
(* The plugin: three presses of the button, which are interchangeable, or  *)
(* what becomes of the board that one window reads.                        *)
(***************************************************************************)
EXTENDS SingleWindow, OpenBoard, TLC

VARIABLE subject   \* which of the two a behaviour is about

Symmetric == Permutations(Presses) \cup Permutations(Bytes) \cup Permutations(Ports)

PluginInit ==
  /\ subject \in {"window", "board"}
  /\ WindowInit /\ BoardInit
  /\ IF subject = "window" THEN app = Nothing ELSE lock = NoLock /\ ~request

PluginNext ==
  /\ \/ subject = "window" /\ WindowNext /\ UNCHANGED boardVars
     \/ subject = "board" /\ BoardNext /\ UNCHANGED windowVars
  /\ UNCHANGED subject

PluginSpec == PluginInit /\ [][PluginNext]_<< subject, windowVars, boardVars >>

=============================================================================
