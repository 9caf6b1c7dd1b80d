---------------------------- MODULE SolveMonitor ----------------------------
(***************************************************************************)
(* run_openems (worker/emi_worker/openems/run.py): the loop that reads the *)
(* solver's log, decides when the run has settled, asks openEMS to stop    *)
(* with an ABORT file, and judges what is left when the process is gone.   *)
(*                                                                         *)
(* A line of the log is a step.  Energies are whole steps of a decibel     *)
(* scale and times are timesteps, so ratios are differences.  openEMS      *)
(* itself is the environment: it prints any energies, reaches its timestep *)
(* cap, polls for ABORT, fails, or loses its reader.                       *)
(***************************************************************************)
EXTENDS Integers, Sequences

CONSTANTS
  Levels,          \* the energies a report may read, in steps of the scale
  Strides,         \* timesteps from one report to the next
  MaxReports,      \* bound: reports a log may have
  Excitation,      \* length of the source when openEMS reports it
  Fallback,        \* excitation_s in timesteps, used with dt when it does not
  StopBelow,       \* -stop_below_db
  HoldReadings,    \* hold_readings
  HoldSpan,        \* hold_s in timesteps
  DivergenceRise,  \* DIVERGENCE_RATIO
  DecayMargin      \* DECAY_MARGIN_DB

ASSUME MonitorAssumption ==
  /\ Levels \subseteq Nat
  /\ Strides \subseteq Nat \ {0}
  /\ {MaxReports, Excitation, Fallback, StopBelow, HoldReadings, HoldSpan,
      DivergenceRise, DecayMargin} \subseteq Nat

VARIABLES
  at,         \* where run_openems is: idle, reading, left
  engine,     \* the process: none, runs, exited, aborted, capped, failed, killed
  abortFile,  \* ABORT exists in the working directory
  dt,         \* the log has told the timestep
  excitation, \* excitation_steps, 0 while the log has not told it
  log,        \* the progress reports read
  hold,       \* below, below_since and below_first_db
  abortedAt,  \* aborted_at
  finalStep,  \* final_timestep
  shouldStop, \* what should_stop() answers
  verdict     \* how run_openems ended: "", stopped, unstable, error, raised, result

monitorVars == << at, engine, abortFile, dt, excitation, log, hold, abortedAt,
                  finalStep, shouldStop, verdict >>

Report == [step : Nat, level : Nat, db : Int]

NoHold == [below |-> 0, since |-> 0, first |-> 0]

\* openEMS prints energy relative to the highest it has seen.
Peak(l) == IF l = << >> THEN 0 ELSE l[Len(l)].level - l[Len(l)].db

LastStep(l) == IF l = << >> THEN 0 ELSE l[Len(l)].step

NextReport(stride, level) ==
  LET peak == IF level > Peak(log) THEN level ELSE Peak(log)
  IN  [step |-> LastStep(log) + stride, level |-> level, db |-> level - peak]

\* The step at which the source is over, 0 when nobody knows.
SourceDone == IF excitation # 0 THEN excitation ELSE IF dt THEN Fallback ELSE 0

\* Mutant: the source is not waited out, as openEMS itself does not.
HoldAfterInSource(r) ==
  IF r.db > -StopBelow THEN [hold EXCEPT !.below = 0]
  ELSE IF hold.below = 0 THEN [below |-> 1, since |-> r.step, first |-> r.db]
  ELSE [hold EXCEPT !.below = @ + 1]

\* How many readings in a row are below the limit, since when and from what
\* level, after report r.
HoldAfter(r) ==
  IF SourceDone = 0 \/ r.step <= SourceDone THEN hold
  ELSE IF r.db > -StopBelow THEN [hold EXCEPT !.below = 0]
  ELSE IF hold.below = 0 THEN [below |-> 1, since |-> r.step, first |-> r.db]
  ELSE [hold EXCEPT !.below = @ + 1]

\* The end criterion, judged at report r with h the hold after it.
Settled(h, r) ==
  /\ h.below >= (IF HoldReadings > 1 THEN HoldReadings ELSE 1)
  /\ dt => r.step - h.since >= HoldSpan
  /\ r.db <= h.first

\* Mutant: the rise is taken over the first sample after the source.
DivergenceRatioOverFirst(l, source) ==
  LET after == {i \in DOMAIN l : l[i].step >= source}
      first == CHOOSE i \in after : \A j \in after : i <= j
  IN  IF Len(l) < 3 \/ after = {} THEN 0 ELSE l[Len(l)].level - l[first].level

\* The scan of divergence_ratio at report r: it is armed once the source is over
\* or, where its end is not known, once the energy has fallen by the margin; from
\* then on it keeps the least energy and the largest rise over it.
RiseAfter(s, r, source) ==
  LET t == [s EXCEPT !.peak = IF r.level > @ THEN r.level ELSE @]
      low == IF r.level < s.floor THEN r.level ELSE s.floor
  IN  IF source > 0 /\ r.step < source THEN t
      ELSE IF s.armed THEN [t EXCEPT !.floor = low, !.worst = IF r.level - low > @ THEN r.level - low ELSE @]
      ELSE IF source > 0 \/ r.level + DecayMargin <= t.peak THEN [t EXCEPT !.armed = TRUE, !.floor = r.level]
      ELSE t

NoRise == [peak |-> 0, armed |-> FALSE, floor |-> 0, worst |-> 0]

\* divergence_ratio: the largest rise over a running minimum.
DivergenceRatio(l, source) ==
  LET scan[i \in 0..Len(l)] == IF i = 0 THEN NoRise ELSE RiseAfter(scan[i - 1], l[i], source)
  IN  IF Len(l) < 3 THEN 0 ELSE scan[Len(l)].worst

-----------------------------------------------------------------------------
MonitorInit ==
  /\ at = "idle" /\ engine = "none" /\ verdict = "" /\ shouldStop = FALSE
  /\ abortFile \in BOOLEAN     \* a worker that was killed may have left one
  /\ dt = FALSE /\ excitation = 0
  /\ log = << >> /\ hold = NoHold /\ abortedAt = 0 /\ finalStep = 0

\* Removes a stale ABORT and starts openEMS, or finds no binary.
StartEngine ==
  /\ at = "idle"
  /\ abortFile' = FALSE
  /\ \/ at' = "reading" /\ engine' = "runs" /\ UNCHANGED verdict
     \/ at' = "left" /\ verdict' = "error" /\ UNCHANGED engine
  /\ UNCHANGED << dt, excitation, log, hold, abortedAt, finalStep, shouldStop >>

\* openEMS prints a line and the loop, having polled should_stop, reads it.
Reading == at = "reading" /\ engine = "runs" /\ ~shouldStop

\* The lines openEMS prints before its first report; either may be missing.
ReadHeader ==
  /\ Reading /\ log = << >>
  /\ \/ dt = FALSE /\ dt' = TRUE /\ UNCHANGED excitation
     \/ excitation = 0 /\ excitation' = Excitation /\ UNCHANGED dt
  /\ UNCHANGED << at, engine, abortFile, log, hold, abortedAt, finalStep,
                  shouldStop, verdict >>

\* A progress report; the file may fail to be written.
ReadReport(stride, level) ==
  /\ Reading /\ Len(log) < MaxReports
  /\ LET r == NextReport(stride, level)
         h == HoldAfter(r)
     IN  /\ log' = Append(log, r)
         /\ hold' = h
         /\ IF abortedAt = 0 /\ Settled(h, r)
              THEN \/ abortFile' = TRUE /\ abortedAt' = r.step
                   \/ UNCHANGED << abortFile, abortedAt >>
              ELSE UNCHANGED << abortFile, abortedAt >>
  /\ UNCHANGED << at, engine, dt, excitation, finalStep, shouldStop, verdict >>

\* on_progress raises: the run was stopped after the poll or is no longer
\* ours.  The report is in the log, the pipe is closed, and the process is
\* neither terminated nor waited for.
ProgressRaises(stride, level) ==
  /\ Reading /\ Len(log) < MaxReports
  /\ log' = Append(log, NextReport(stride, level))
  /\ shouldStop' \in BOOLEAN
  /\ at' = "left" /\ verdict' = "raised"
  /\ UNCHANGED << engine, abortFile, dt, excitation, hold, abortedAt, finalStep >>

\* Mutant: the stop is only looked for once there is a report to pass on.
SeeStopAtReport ==
  /\ at = "reading" /\ engine = "runs" /\ shouldStop /\ log # << >>
  /\ engine' = "killed" /\ abortFile' = FALSE
  /\ at' = "left" /\ verdict' = "stopped"
  /\ UNCHANGED << dt, excitation, log, hold, abortedAt, finalStep, shouldStop >>

\* The poll before a line finds a stop: _terminate, wait, remove ABORT.
SeeStop ==
  /\ at = "reading" /\ engine = "runs" /\ shouldStop
  /\ engine' = "killed" /\ abortFile' = FALSE
  /\ at' = "left" /\ verdict' = "stopped"
  /\ UNCHANGED << dt, excitation, log, hold, abortedAt, finalStep, shouldStop >>

\* openEMS ends on its cap, on ABORT or in an error.  Its closing line gives
\* the exact step, or is missing.
EngineEnds ==
  /\ engine = "runs" /\ at = "reading"
  /\ \/ engine' = "capped" \/ engine' = "failed"
     \/ abortFile /\ engine' = "aborted"
  /\ finalStep' \in LastStep(log)..(LastStep(log) + 1)
  /\ UNCHANGED << at, abortFile, dt, excitation, log, hold, abortedAt,
                  shouldStop, verdict >>

\* A process nobody reads ends at its next line.
OrphanEnds ==
  /\ engine = "runs" /\ at = "left"
  /\ engine' = "killed"
  /\ UNCHANGED << at, abortFile, dt, excitation, log, hold, abortedAt,
                  finalStep, shouldStop, verdict >>

\* The end of the log: a run that climbed is refused, then one that failed.
JudgeRun ==
  /\ at = "reading" /\ engine \in {"capped", "failed", "aborted"}
  /\ at' = "left" /\ abortFile' = FALSE
  /\ excitation' = SourceDone
  /\ verdict' = IF DivergenceRatio(log, SourceDone) >= DivergenceRise
                  THEN "unstable"
                ELSE IF engine = "failed" THEN "error" ELSE "result"
  /\ UNCHANGED << engine, dt, log, hold, abortedAt, finalStep, shouldStop >>

\* A stop request reaches the worker, or the worker shuts down.
AskToStop ==
  /\ ~shouldStop /\ shouldStop' = TRUE
  /\ UNCHANGED << at, engine, abortFile, dt, excitation, log, hold, abortedAt,
                  finalStep, verdict >>

MonitorNext ==
  \/ StartEngine \/ ReadHeader \/ SeeStop \/ EngineEnds \/ OrphanEnds
  \/ JudgeRun \/ AskToStop
  \/ \E stride \in Strides, level \in Levels :
       ReadReport(stride, level) \/ ProgressRaises(stride, level)

-----------------------------------------------------------------------------
\* RunResult.stopped_inside_the_source and RunResult.converged.  openEMS
\* prints the cap's warning when it stops on ABORT too, against the criterion
\* it was given and cannot meet; it does not count if the monitor asked.
StoppedInsideTheSource == 0 < finalStep /\ finalStep < excitation

\* Mutant: a run is converged unless the process failed.
ConvergedAtItsCap == verdict = "result" /\ ~StoppedInsideTheSource

Converged ==
  /\ verdict = "result" /\ ~StoppedInsideTheSource
  /\ abortedAt # 0 \/ engine \notin {"capped", "aborted"}

=============================================================================
