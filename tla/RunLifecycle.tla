----------------------------- MODULE RunLifecycle -----------------------------
(***************************************************************************)
(* What the control plane promises about a run, without tokens, requests,  *)
(* storage or restarts: a run waits, is held by exactly one worker, is     *)
(* perhaps asked to stop, and ends.  It never changes hands while it is    *)
(* held, a stop request is never taken back, a run that is done stays done *)
(* and a run that is held always ends.  RunControl implements this module. *)
(***************************************************************************)
EXTENDS Naturals

CONSTANTS Runs,      \* the runs
          Workers,   \* the worker keys
          NoWorker   \* no worker holds the run

VARIABLES phase,     \* where each run is in its life
          holder     \* the worker key that holds it

lifecycleVars == <<phase, holder>>

Held == {"in_progress", "stopping"}
Ended == {"done", "failed", "timed_out"}
Phases == {"absent", "waiting"} \cup Held \cup Ended

LifecycleTypeOK ==
    /\ phase \in [Runs -> Phases]
    /\ holder \in [Runs -> Workers \cup {NoWorker}]

Init ==
    /\ phase = [r \in Runs |-> "absent"]
    /\ holder = [r \in Runs |-> NoWorker]

Submit(r) ==
    /\ phase[r] = "absent"
    /\ phase' = [phase EXCEPT ![r] = "waiting"]
    /\ UNCHANGED holder

Take(r, w) ==
    /\ phase[r] = "waiting"
    /\ phase' = [phase EXCEPT ![r] = "in_progress"]
    /\ holder' = [holder EXCEPT ![r] = w]

AskToStop(r) ==
    /\ phase[r] = "in_progress"
    /\ phase' = [phase EXCEPT ![r] = "stopping"]
    /\ UNCHANGED holder

CancelWaiting(r) ==
    /\ phase[r] = "waiting"
    /\ phase' = [phase EXCEPT ![r] = "failed"]
    /\ UNCHANGED holder

\* The runs of S end together, all with one outcome: one worker's completion
\* ends one run, a sweep or a restart of the app may end several.
End(S, outcome) ==
    /\ \A r \in S : phase[r] \in Held
    /\ phase' = [r \in Runs |-> IF r \in S THEN outcome ELSE phase[r]]
    /\ holder' = [r \in Runs |-> IF r \in S THEN NoWorker ELSE holder[r]]

Requeue(r) ==
    /\ phase[r] \in {"failed", "timed_out"}
    /\ phase' = [phase EXCEPT ![r] = "waiting"]
    /\ UNCHANGED holder

Next ==
    \/ \E r \in Runs : Submit(r) \/ AskToStop(r) \/ CancelWaiting(r) \/ Requeue(r)
    \/ \E r \in Runs, w \in Workers : Take(r, w)
    \/ \E S \in SUBSET Runs, outcome \in Ended : End(S, outcome)

SafeSpec == Init /\ [][Next]_lifecycleVars

EndsRun(r) == \E S \in SUBSET Runs, outcome \in Ended : r \in S /\ End(S, outcome)

Spec == SafeSpec /\ \A r \in Runs : WF_lifecycleVars(EndsRun(r))

===============================================================================
