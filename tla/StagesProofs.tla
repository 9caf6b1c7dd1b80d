----------------------------- MODULE StagesProofs -----------------------------
(***************************************************************************)
(* Proofs about SolveMonitor and Stages, for any energies, strides, limits *)
(* and lengths of the log.                                                 *)
(*                                                                         *)
(* The monitor remembers of a dip only how many readings it has lasted,    *)
(* when it began and from what level; HoldInv says that this is the dip at *)
(* the end of the log; ClimbInv, that a result was judged by all of it.    *)
(* A stage is a list of places, and what it has done is known from its     *)
(* position (PlaceInv).                                                    *)
(***************************************************************************)
EXTENDS Stages, WellFoundedInduction, TLAPS

Engines == {"none", "runs", "exited", "aborted", "capped", "failed", "killed"}
Holds == [below : Nat, since : Nat, first : Int]

MonitorTyped ==
  /\ at \in {"idle", "reading", "left"}
  /\ engine \in Engines
  /\ dt \in BOOLEAN /\ abortFile \in BOOLEAN /\ shouldStop \in BOOLEAN
  /\ {excitation, abortedAt, finalStep} \subseteq Nat
  /\ log \in Seq(Report)
  /\ hold \in Holds

\* Report j is after the source and below the limit.
Quiet(j) == log[j].step > SourceDone /\ log[j].db <= -StopBelow

\* Where the dip at the end of the log began.
DipStart == Len(log) - hold.below + 1

\* What the monitor remembers is the dip at the end of the log.
HoldInv ==
  at \in {"idle", "reading"} =>
    /\ hold.below <= Len(log)
    /\ hold.below # 0 => /\ SourceDone > 0
                         /\ Dip(DipStart, Len(log))
                         /\ hold.since = log[DipStart].step
                         /\ hold.first = log[DipStart].db
    /\ hold.below = 0 => SourceDone = 0 \/ log = << >> \/ ~Quiet(Len(log))

\* The ABORT file of a running openEMS is the monitor's own.
AbortIsOwn == at = "reading" /\ abortFile => abortedAt # 0

ReportsAdvance == \A i \in DOMAIN log : log[i].step > 0

\* What ended has been read to its end, and what is judged has ended.
EndIsRead ==
  /\ engine \in {"aborted", "capped", "failed"} => finalStep >= LastStep(log)
  /\ verdict # "" => at = "left"
  /\ verdict = "result" => engine \in {"aborted", "capped"}

AbortInv == AbortIsEarned /\ AbortIsOwn /\ ReportsAdvance /\ EndIsRead

-------------------------------------------------------------------------------
(* The monitor. *)

\* Stages runs the monitor as it is.
LEMMA StagesStepTheMonitor == [Next]_vars => [MonitorNext]_monitorVars
BY DEF Next, vars, StageStep, CheckStop, Progress, SkipProgress, Tell, Ask, Try, EachItem, EngineLeft,
       BuildArtifacts, AddNetwork, AddAntennaTerms, AddFarField, UploadArtifact, Return, Engine,
       EngineRaises, Stop, Orphan, MonitorNext

LEMMA LastStepTyped == ASSUME log \in Seq(Report) PROVE LastStep(log) \in Nat /\ Peak(log) \in Int
<1>1. log # << >> => log[Len(log)] \in Report
  OBVIOUS
<1> QED BY <1>1 DEF LastStep, Peak, Report

LEMMA NextReportTyped ==
  ASSUME MonitorTyped, NEW stride \in Strides, NEW level \in Levels
  PROVE  /\ NextReport(stride, level) \in Report
         /\ NextReport(stride, level).step > LastStep(log)
         /\ Append(log, NextReport(stride, level)) \in Seq(Report)
<1>1. LastStep(log) \in Nat /\ Peak(log) \in Int /\ log \in Seq(Report)
  BY LastStepTyped DEF MonitorTyped
<1>2. stride \in Nat /\ stride > 0 /\ level \in Nat
  BY MonitorAssumption DEF MonitorAssumption
<1>3. NextReport(stride, level) \in Report /\ NextReport(stride, level).step > LastStep(log)
  BY <1>1, <1>2 DEF NextReport, Report
<1> QED BY <1>1, <1>3

LEMMA HoldAfterTyped ==
  ASSUME MonitorTyped, NEW r \in Report PROVE HoldAfter(r) \in Holds
<1>1. \/ HoldAfter(r) = hold
      \/ HoldAfter(r) = [hold EXCEPT !.below = 0]
      \/ HoldAfter(r) = [below |-> 1, since |-> r.step, first |-> r.db]
      \/ HoldAfter(r) = [hold EXCEPT !.below = @ + 1]
  BY DEF HoldAfter
<1>2. hold \in Holds
  BY DEF MonitorTyped
<1> QED BY <1>1, <1>2 DEF Holds, Report

LEMMA MonitorStepTyped == MonitorTyped /\ [MonitorNext]_monitorVars => MonitorTyped'
<1> USE MonitorAssumption DEF MonitorAssumption, MonitorTyped, Engines
<1> SUFFICES ASSUME MonitorTyped, [MonitorNext]_monitorVars PROVE MonitorTyped'
  OBVIOUS
<1>1. CASE StartEngine \/ ReadHeader \/ SeeStop \/ OrphanEnds \/ AskToStop
  BY <1>1 DEF StartEngine, ReadHeader, SeeStop, OrphanEnds, AskToStop
<1>2. CASE EngineEnds
  <2>1. LastStep(log) \in Nat
    BY LastStepTyped
  <2>2. finalStep' \in Nat
    BY <1>2, <2>1 DEF EngineEnds
  <2>3. /\ engine' \in {"capped", "failed", "aborted"}
        /\ UNCHANGED << at, abortFile, dt, excitation, log, hold, abortedAt, shouldStop, verdict >>
    BY <1>2 DEF EngineEnds
  <2> QED BY <2>2, <2>3
<1>3. CASE JudgeRun
  BY <1>3 DEF JudgeRun, SourceDone
<1>4. ASSUME NEW stride \in Strides, NEW level \in Levels, ReadReport(stride, level) PROVE MonitorTyped'
  <2>1. log' \in Seq(Report) /\ hold' \in Holds
    BY <1>4, NextReportTyped, HoldAfterTyped DEF ReadReport
  <2>2. abortedAt' = abortedAt \/ abortedAt' = NextReport(stride, level).step
    BY <1>4 DEF ReadReport
  <2>3. abortedAt' \in Nat
    BY <2>2, NextReportTyped DEF Report
  <2> QED BY <1>4, <2>1, <2>3 DEF ReadReport
<1>5. ASSUME NEW stride \in Strides, NEW level \in Levels, ProgressRaises(stride, level) PROVE MonitorTyped'
  BY <1>5, NextReportTyped DEF ProgressRaises
<1>6. CASE UNCHANGED monitorVars
  BY <1>6 DEF monitorVars
<1> QED BY <1>1, <1>2, <1>3, <1>4, <1>5, <1>6 DEF MonitorNext

\* Every step but a report and a header line leaves the log, the hold and the
\* end of the source alone.
LEMMA OtherStepsKeepTheLog ==
  ASSUME MonitorTyped, StartEngine \/ SeeStop \/ EngineEnds \/ OrphanEnds \/ JudgeRun \/ AskToStop \/ UNCHANGED monitorVars
  PROVE  UNCHANGED <<log, hold, dt, abortedAt>> /\ SourceDone' = SourceDone
BY DEF StartEngine, SeeStop, EngineEnds, OrphanEnds, JudgeRun, AskToStop, monitorVars, SourceDone, MonitorTyped

\* A report is appended; what is known of the reports before it stays.
LEMMA AppendKeepsDips ==
  ASSUME MonitorTyped, NEW r \in Report, log' = Append(log, r), dt' = dt, excitation' = excitation
  PROVE  /\ SourceDone' = SourceDone
         /\ Len(log') = Len(log) + 1 /\ Len(log) \in Nat /\ log'[Len(log')] = r
         /\ \A i \in DOMAIN log : i \in DOMAIN log' /\ log'[i] = log[i] /\ (Quiet(i)' <=> Quiet(i))
         /\ \A k \in DOMAIN log : \A i \in 1..k : Dip(i, k)' <=> Dip(i, k)
         /\ \A k \in DOMAIN log : MeetsEndCriterion(k) => MeetsEndCriterion(k)'
<1>1. SourceDone' = SourceDone
  BY DEF SourceDone
<1>2. Len(log') = Len(log) + 1 /\ Len(log) \in Nat /\ log'[Len(log')] = r
  BY DEF MonitorTyped
<1>3. \A i \in DOMAIN log : i \in DOMAIN log' /\ log'[i] = log[i]
  BY DEF MonitorTyped
<1>4. DOMAIN log = 1..Len(log)
  BY DEF MonitorTyped
<1>5. \A k \in DOMAIN log : \A i \in 1..k : Dip(i, k)' <=> Dip(i, k)
  BY <1>1, <1>2, <1>3, <1>4 DEF Dip
<1>6. \A k \in DOMAIN log : MeetsEndCriterion(k) => MeetsEndCriterion(k)'
  BY <1>1, <1>2, <1>3, <1>4, <1>5 DEF MeetsEndCriterion
<1> QED BY <1>1, <1>2, <1>3, <1>5, <1>6 DEF Quiet

\* The hold after a report is the dip the report ends.
LEMMA HoldAfterReport ==
  ASSUME MonitorTyped, HoldInv, at = "reading", NEW r \in Report, r.step > LastStep(log),
         log' = Append(log, r), hold' = HoldAfter(r), at' = at, dt' = dt, excitation' = excitation
  PROVE  HoldInv'
<1> PICK n \in Nat : n = Len(log)
  BY DEF MonitorTyped
<1>0. n \in Nat /\ n = Len(log) /\ hold.below \in Nat /\ hold \in Holds /\ SourceDone \in Nat /\ StopBelow \in Nat
  BY MonitorAssumption DEF MonitorTyped, Holds, MonitorAssumption, SourceDone
<1>1. /\ SourceDone' = SourceDone /\ Len(log') = n + 1 /\ log'[n + 1] = r
      /\ \A i \in 1..n : log'[i] = log[i] /\ (Quiet(i)' <=> Quiet(i))
  BY AppendKeepsDips DEF MonitorTyped
<1>2. Quiet(n + 1)' <=> r.step > SourceDone /\ r.db <= -StopBelow
  BY <1>1 DEF Quiet
<1>3. r.step \in Nat /\ r.db \in Int
  BY DEF Report
<1>4. \A i, k : Dip(i, k)' <=> i <= k /\ (\A j \in i..k : Quiet(j)') /\ (i = 1 \/ ~Quiet(i - 1)')
  BY DEF Dip, Quiet
<1>5. \A i, k : Dip(i, k) <=> i <= k /\ (\A j \in i..k : Quiet(j)) /\ (i = 1 \/ ~Quiet(i - 1))
  BY DEF Dip, Quiet
<1>6. CASE SourceDone = 0 \/ r.step <= SourceDone
  <2>1. hold' = hold
    BY <1>6 DEF HoldAfter
  <2>2. hold.below = 0
    <3> SUFFICES ASSUME hold.below # 0 PROVE FALSE
      OBVIOUS
    <3>1. SourceDone > 0 /\ Dip(DipStart, n) /\ hold.below <= n
      BY DEF HoldInv
    <3>2. DipStart \in 1..n
      BY <1>0, <3>1 DEF DipStart
    <3>3. Quiet(n)
      BY <1>0, <1>5, <3>1, <3>2
    <3>4. LastStep(log) = log[n].step
      BY <1>0, <3>2 DEF LastStep
    <3>5. LastStep(log) \in Nat
      BY LastStepTyped DEF MonitorTyped
    <3> QED BY <1>0, <1>3, <1>6, <3>1, <3>3, <3>4, <3>5 DEF Quiet
  <2> QED BY <1>0, <1>1, <1>2, <1>3, <1>6, <2>1, <2>2 DEF HoldInv
<1>7. CASE r.step > SourceDone /\ SourceDone # 0 /\ r.db > -StopBelow
  <2>1. hold'.below = 0
    BY <1>0, <1>3, <1>7 DEF HoldAfter, Holds
  <2> QED BY <1>0, <1>1, <1>2, <1>3, <1>7, <2>1 DEF HoldInv
<1>8. CASE r.step > SourceDone /\ SourceDone # 0 /\ r.db <= -StopBelow
  <2>1. CASE hold.below = 0
    <3>1. hold' = [below |-> 1, since |-> r.step, first |-> r.db]
      BY <1>0, <1>3, <1>8, <2>1 DEF HoldAfter
    <3>2. DipStart' = n + 1
      BY <1>0, <1>1, <3>1 DEF DipStart
    <3>3. n = 0 \/ ~Quiet(n)'
      BY <1>0, <1>1, <1>8, <2>1 DEF HoldInv
    <3>4. Dip(n + 1, n + 1)'
      BY <1>0, <1>2, <1>4, <1>8, <3>3
    <3> QED BY <1>0, <1>1, <1>8, <3>1, <3>2, <3>4 DEF HoldInv, Dip
  <2>2. CASE hold.below # 0
    <3>1. hold'.below = hold.below + 1 /\ hold'.since = hold.since /\ hold'.first = hold.first
      BY <1>0, <1>3, <1>8, <2>2 DEF HoldAfter, Holds
    <3>2. DipStart' = DipStart /\ DipStart \in 1..n
      BY <1>0, <1>1, <2>2, <3>1 DEF DipStart, HoldInv
    <3>3. Dip(DipStart, n) /\ hold.since = log[DipStart].step /\ hold.first = log[DipStart].db
      BY <2>2 DEF HoldInv
    <3>4. \A j \in DipStart..(n + 1) : Quiet(j)'
      BY <1>0, <1>1, <1>2, <1>5, <1>8, <3>2, <3>3
    <3>5. DipStart = 1 \/ ~Quiet(DipStart - 1)'
      BY <1>0, <1>1, <1>5, <3>2, <3>3
    <3>6. Dip(DipStart, n + 1)'
      BY <1>0, <1>4, <3>2, <3>4, <3>5
    <3>7. Dip(DipStart, Len(log))'
      BY <1>1, <3>6 DEF Dip
    <3>8. log'[DipStart'] = log[DipStart]
      BY <1>1, <3>2
    <3>9. hold'.below <= Len(log') /\ hold'.below # 0
      BY <1>0, <1>1, <2>2, <3>1 DEF HoldInv
    <3> QED BY <1>0, <1>1, <1>8, <3>1, <3>3, <3>7, <3>8, <3>9 DEF HoldInv
  <2> QED BY <2>1, <2>2
<1> QED BY <1>0, <1>3, <1>6, <1>7, <1>8

LEMMA HoldStep == MonitorTyped /\ HoldInv /\ [MonitorNext]_monitorVars => HoldInv'
<1> SUFFICES ASSUME MonitorTyped, HoldInv, [MonitorNext]_monitorVars PROVE HoldInv'
  OBVIOUS
<1>1. CASE StartEngine \/ SeeStop \/ EngineEnds \/ OrphanEnds \/ JudgeRun \/ AskToStop \/ UNCHANGED monitorVars
  <2>1. UNCHANGED <<log, hold>> /\ SourceDone' = SourceDone
    BY <1>1, OtherStepsKeepTheLog
  <2>2. at' \in {"idle", "reading"} => at \in {"idle", "reading"}
    BY <1>1 DEF StartEngine, SeeStop, EngineEnds, OrphanEnds, JudgeRun, AskToStop, monitorVars
  <2>3. DipStart' = DipStart /\ \A i, k : Dip(i, k)' <=> Dip(i, k)
    BY <2>1 DEF Dip, DipStart
  <2> QED BY <2>1, <2>2, <2>3 DEF HoldInv, Quiet, Dip
<1>2. CASE ReadHeader
  <2>1. log = << >> /\ log' = log /\ hold' = hold /\ hold.below \in Nat /\ at' = at
    BY <1>2 DEF ReadHeader, MonitorTyped, Holds
  <2>2. at \in {"idle", "reading"} => hold.below = 0
    BY <2>1 DEF HoldInv
  <2> QED BY <2>1, <2>2 DEF HoldInv
<1>3. ASSUME NEW stride \in Strides, NEW level \in Levels, ReadReport(stride, level) PROVE HoldInv'
  <2> PICK r : r = NextReport(stride, level)
    OBVIOUS
  <2>1. r \in Report /\ r.step > LastStep(log)
    BY NextReportTyped
  <2>2. log' = Append(log, r) /\ hold' = HoldAfter(r)
    BY <1>3 DEF ReadReport
  <2>3. at = "reading" /\ at' = at /\ dt' = dt /\ excitation' = excitation
    BY <1>3 DEF ReadReport, Reading
  <2> QED BY <2>1, <2>2, <2>3, HoldAfterReport
<1>4. ASSUME NEW stride \in Strides, NEW level \in Levels, ProgressRaises(stride, level) PROVE HoldInv'
  BY <1>4 DEF ProgressRaises, HoldInv
<1> QED BY <1>1, <1>2, <1>3, <1>4 DEF MonitorNext

\* The report the monitor asks at ends a dip that meets the end criterion.
LEMMA SettledMeetsTheCriterion ==
  ASSUME MonitorTyped, HoldInv', at' = "reading", log' # << >>, hold' \in Holds, log' \in Seq(Report), SourceDone' \in Nat,
         dt' = dt, Settled(hold', log'[Len(log')])
  PROVE  MeetsEndCriterion(Len(log))'
<1> PICK k \in Nat, i \in Nat : k = Len(log') /\ i = DipStart'
  BY DEF DipStart, HoldInv, Holds
<1>1. hold'.below \in Nat /\ hold'.below >= 1 /\ hold'.below >= HoldReadings
  BY MonitorAssumption DEF Settled, Holds, MonitorAssumption
<1>2. SourceDone' > 0 /\ Dip(i, k)' /\ hold'.since = log'[i].step /\ hold'.first = log'[i].db
  BY <1>1 DEF HoldInv
<1>3. i \in 1..k /\ k - i + 1 = hold'.below
  BY <1>1 DEF DipStart, HoldInv
<1>4. k - i + 1 >= HoldReadings /\ (dt' => log'[k].step - log'[i].step >= HoldSpan) /\ log'[k].db <= log'[i].db
  BY <1>1, <1>2, <1>3 DEF Settled
<1> QED BY <1>2, <1>3, <1>4 DEF MeetsEndCriterion

\* A step that leaves the log alone keeps what has been earned.
LEMMA EarnedIsKept ==
  ASSUME log' = log, dt' = dt, SourceDone' = SourceDone
  PROVE  \A k : MeetsEndCriterion(k) => MeetsEndCriterion(k)'
BY DEF MeetsEndCriterion, Dip

LEMMA AbortStep == MonitorTyped /\ HoldInv /\ AbortInv /\ [MonitorNext]_monitorVars => AbortInv'
<1> SUFFICES ASSUME MonitorTyped, HoldInv, AbortInv, [MonitorNext]_monitorVars PROVE AbortInv'
  OBVIOUS
<1>0. MonitorTyped' /\ HoldInv'
  BY MonitorStepTyped, HoldStep
<1>1. CASE StartEngine \/ SeeStop \/ EngineEnds \/ OrphanEnds \/ JudgeRun \/ AskToStop \/ UNCHANGED monitorVars
  <2> USE DEF StartEngine, SeeStop, EngineEnds, OrphanEnds, JudgeRun, AskToStop, monitorVars
  <2>1. UNCHANGED <<log, dt, abortedAt>> /\ SourceDone' = SourceDone
    BY <1>1, OtherStepsKeepTheLog
  <2>2. LastStep(log) \in Nat /\ LastStep(log)' = LastStep(log) /\ finalStep \in Nat
    BY <2>1, LastStepTyped DEF MonitorTyped, LastStep
  <2>3. EndIsRead'
    <3>1. CASE EngineEnds
      <4>1. finalStep' >= LastStep(log)
        BY <2>2, <3>1
      <4>2. at = "reading" /\ UNCHANGED <<at, verdict>>
        BY <3>1
      <4> QED BY <2>2, <4>1, <4>2 DEF EndIsRead, AbortInv
    <3>2. CASE ~EngineEnds
      BY <1>1, <2>2, <3>2 DEF EndIsRead, AbortInv
    <3> QED BY <3>1, <3>2
  <2>4. engine' = "aborted" => engine = "aborted" \/ (at = "reading" /\ abortFile)
    BY <1>1
  <2>5. AbortIsEarned'
    BY <2>1, <2>4, EarnedIsKept DEF AbortInv, AbortIsEarned, AbortIsOwn
  <2>6. AbortIsOwn'
    BY <1>1, <2>1 DEF AbortInv, AbortIsOwn
  <2> QED BY <2>1, <2>3, <2>5, <2>6 DEF AbortInv, ReportsAdvance
<1>2. CASE ReadHeader
  <2>1. log = << >> /\ UNCHANGED <<log, abortedAt, engine, abortFile, at, verdict, finalStep>>
    BY <1>2 DEF ReadHeader
  <2>2. abortedAt = 0
    BY <2>1 DEF AbortInv, AbortIsEarned
  <2> QED BY <2>1, <2>2 DEF AbortInv, AbortIsEarned, AbortIsOwn, ReportsAdvance, EndIsRead, LastStep
<1>3. ASSUME NEW stride \in Strides, NEW level \in Levels,
             ReadReport(stride, level) \/ ProgressRaises(stride, level)
      PROVE  AbortInv'
  <2> PICK r : r = NextReport(stride, level)
    OBVIOUS
  <2>1. r \in Report /\ r.step > LastStep(log) /\ LastStep(log) \in Nat /\ r.step \in Nat
    BY NextReportTyped, LastStepTyped DEF MonitorTyped, Report
  <2>2. /\ log' = Append(log, r) /\ dt' = dt /\ excitation' = excitation
        /\ engine = "runs" /\ engine' = engine /\ at = "reading"
    BY <1>3 DEF ReadReport, ProgressRaises, Reading
  <2>3. Len(log') \in DOMAIN log' /\ log'[Len(log')] = r
    BY <2>1, <2>2 DEF MonitorTyped
  <2>4. ReportsAdvance'
    <3>1. \A i \in DOMAIN log' : (i \in DOMAIN log /\ log'[i] = log[i]) \/ log'[i] = r
      BY <2>1, <2>2 DEF MonitorTyped
    <3> QED BY <2>1, <3>1 DEF AbortInv, ReportsAdvance
  <2>5. EndIsRead'
    BY <1>3, <2>2 DEF ReadReport, ProgressRaises, AbortInv, EndIsRead
  <2>6. abortedAt # 0 => \E k \in DOMAIN log' : log'[k].step = abortedAt /\ MeetsEndCriterion(k)'
    BY <2>1, <2>2, AppendKeepsDips DEF AbortInv, AbortIsEarned
  <2>7. CASE UNCHANGED <<abortFile, abortedAt>>
    <3>1. AbortIsOwn'
      BY <2>2, <2>7 DEF AbortInv, AbortIsOwn
    <3> QED BY <2>2, <2>4, <2>5, <2>6, <2>7, <3>1 DEF AbortInv, AbortIsEarned
  <2>8. CASE ReadReport(stride, level) /\ Settled(HoldAfter(r), r) /\ abortedAt' = r.step
    <3>1. at' = "reading" /\ hold' = HoldAfter(r)
      BY <2>2, <2>8 DEF ReadReport
    <3>2. SourceDone' \in Nat /\ hold' \in Holds /\ log' \in Seq(Report)
      BY <1>0, MonitorAssumption DEF MonitorTyped, SourceDone, MonitorAssumption
    <3>3. MeetsEndCriterion(Len(log))'
      BY <1>0, <2>2, <2>3, <2>8, <3>1, <3>2, SettledMeetsTheCriterion
    <3>4. PICK k \in Nat : k = Len(log')
      BY <3>2
    <3>5. MeetsEndCriterion(k)' /\ k \in DOMAIN log' /\ log'[k].step = abortedAt' /\ abortedAt' # 0
      BY <2>1, <2>3, <2>8, <3>3, <3>4 DEF MeetsEndCriterion
    <3> QED BY <2>2, <2>4, <2>5, <3>5 DEF AbortInv, AbortIsEarned, AbortIsOwn
  <2> QED BY <1>3, <2>7, <2>8 DEF ReadReport, ProgressRaises
<1> QED BY <1>1, <1>2, <1>3 DEF MonitorNext

MonitorInv == MonitorTyped /\ HoldInv /\ AbortInv

LEMMA MonitorStarts == MonitorInit => MonitorInv
<1> SUFFICES ASSUME MonitorInit PROVE MonitorInv
  OBVIOUS
<1>0. log = << >> /\ hold = NoHold /\ excitation = 0 /\ dt = FALSE /\ abortedAt = 0 /\ finalStep = 0
  BY DEF MonitorInit
<1>1. log \in Seq(Report) /\ DOMAIN log = {} /\ Len(log) = 0
  BY <1>0
<1>2. MonitorTyped
  <2>1. hold \in Holds
    BY <1>0 DEF Holds, NoHold
  <2>2. at \in {"idle", "reading", "left"} /\ engine \in Engines /\ dt \in BOOLEAN /\ abortFile \in BOOLEAN /\ shouldStop \in BOOLEAN
    BY DEF MonitorInit, Engines
  <2>3. {excitation, abortedAt, finalStep} \subseteq Nat
    BY <1>0
  <2> QED BY <1>1, <2>1, <2>2, <2>3 DEF MonitorTyped
<1>3. HoldInv
  BY <1>0, <1>1 DEF HoldInv, NoHold
<1>4. AbortIsEarned /\ AbortIsOwn /\ ReportsAdvance /\ EndIsRead
  BY <1>1 DEF MonitorInit, AbortIsEarned, AbortIsOwn, ReportsAdvance, EndIsRead
<1> QED BY <1>2, <1>3, <1>4 DEF MonitorInv, AbortInv

LEMMA MonitorIsKept == Spec => []MonitorInv
<1>1. Init => MonitorInv
  BY MonitorStarts DEF Init
<1>2. MonitorInv /\ [Next]_vars => MonitorInv'
  BY StagesStepTheMonitor, MonitorStepTyped, HoldStep, AbortStep DEF MonitorInv
<1> QED BY <1>1, <1>2, PTL DEF Spec

\* Whatever energies openEMS prints and however long its log is, run_openems asks
\* it to stop only at a report that ends a long enough, unclimbing run of quiet
\* reports after the source, and never lets it stop on an older ABORT file.
THEOREM AbortsAreEarned == Spec => []AbortIsEarned
<1>1. MonitorInv => AbortIsEarned
  BY DEF MonitorInv, AbortInv
<1> QED BY <1>1, MonitorIsKept, PTL

-------------------------------------------------------------------------------
(* A climb.  divergence_ratio is a recursive function over the log: that there *)
(* is one, and what it says at each report, is shown at the least report at    *)
(* which it would fail.                                                        *)

\* f is the scan of the first n reports of l.
IsScan(f, l, source, n) ==
  f = [i \in 0..n |-> IF i = 0 THEN NoRise ELSE RiseAfter(f[i - 1], l[i], source)]

Less == {ss \in Nat \X Nat : ss[1] < ss[2]}

LEMMA LeastOf == ASSUME NEW S \in SUBSET Nat, S # {} PROVE \E n \in S : \A m \in 0..(n - 1) : m \notin S
<1>1. IsWellFoundedOn(Less, Nat)
  BY NatLessThanWellFounded DEF OpToRel, Less
<1>2. PICK n \in S : \A m \in S : ~ (<<m, n>> \in Less)
  BY <1>1, WFMin
<1>3. \A m \in 0..(n - 1) : m \in S => <<m, n>> \in Less
  BY DEF Less
<1> QED BY <1>2, <1>3

LEMMA ScanExists ==
  ASSUME NEW l, NEW source, NEW n \in Nat
  PROVE  \E f : IsScan(f, l, source, n)
<1> DEFINE Bad == {m \in Nat : ~ \E f : IsScan(f, l, source, m)}
<1>1. SUFFICES ASSUME Bad # {} PROVE FALSE
  OBVIOUS
<1>2. PICK m \in Bad : \A k \in 0..(m - 1) : k \notin Bad
  BY <1>1, LeastOf
<1>3. CASE m = 0
  <2>1. IsScan([i \in 0..0 |-> NoRise], l, source, 0)
    BY DEF IsScan
  <2> QED BY <1>2, <1>3, <2>1
<1>4. CASE m # 0
  <2>1. m \in Nat /\ m - 1 \in Nat /\ m - 1 \in 0..(m - 1)
    BY <1>4
  <2>2. PICK g : IsScan(g, l, source, m - 1)
    BY <1>2, <2>1
  <2>3. PICK h : h = [i \in 0..m |-> IF i = m THEN RiseAfter(g[m - 1], l[m], source) ELSE g[i]]
    OBVIOUS
  <2>4. \A i \in 0..m : h[i] = IF i = 0 THEN NoRise ELSE RiseAfter(h[i - 1], l[i], source)
    BY <1>4, <2>1, <2>2, <2>3 DEF IsScan
  <2>5. h = [i \in 0..m |-> h[i]]
    BY <2>3
  <2>6. IsScan(h, l, source, m)
    BY <2>4, <2>5 DEF IsScan
  <2> QED BY <1>2, <2>6
<1> QED BY <1>3, <1>4

LEMMA RatioIsTheScans ==
  ASSUME NEW l \in Seq(Report), NEW source, Len(l) >= 3
  PROVE  \E f : IsScan(f, l, source, Len(l)) /\ DivergenceRatio(l, source) = f[Len(l)].worst
<1> DEFINE scan == CHOOSE f : f = [i \in 0..Len(l) |-> IF i = 0 THEN NoRise ELSE RiseAfter(f[i - 1], l[i], source)]
<1>0. Len(l) \in Nat
  OBVIOUS
<1>1. \E f : f = [i \in 0..Len(l) |-> IF i = 0 THEN NoRise ELSE RiseAfter(f[i - 1], l[i], source)]
  <2>1. \E f : IsScan(f, l, source, Len(l))
    BY <1>0, ScanExists
  <2> QED BY <2>1 DEF IsScan
<1>2. IsScan(scan, l, source, Len(l))
  BY <1>1 DEF IsScan
<1>3. ~(Len(l) < 3)
  OBVIOUS
<1>4. DivergenceRatio(l, source) = scan[Len(l)].worst
  BY <1>3 DEF DivergenceRatio
<1> QED BY <1>2, <1>4

Rises == [peak : Nat, armed : BOOLEAN, floor : Nat, worst : Nat]

\* The log's reports are later and later.
Ascending(l) == \A i, j \in DOMAIN l : i < j => l[i].step < l[j].step

\* What the scan knows after k reports of l: it is armed, with a floor under
\* every report since the source, and has seen every rise over any of them.
Knows(s, l, source, k) ==
  /\ s \in Rises
  /\ \A i \in 1..k : l[i].step >= source => s.armed /\ s.floor <= l[i].level
  /\ \A i, j \in 1..k : i < j /\ l[i].step >= source => l[j].level - l[i].level <= s.worst

LEMMA RiseIsSeen ==
  ASSUME NEW l \in Seq(Report), NEW source \in Nat, source > 0, Ascending(l),
         NEW k \in 1..Len(l), NEW s, Knows(s, l, source, k - 1)
  PROVE  Knows(RiseAfter(s, l[k], source), l, source, k)
<1> DEFINE r == l[k]
           t == [s EXCEPT !.peak = IF r.level > @ THEN r.level ELSE @]
           low == IF r.level < s.floor THEN r.level ELSE s.floor
           n == RiseAfter(s, r, source)
<1>1. \A i \in 1..k : l[i] \in Report /\ i \in Nat
  OBVIOUS
<1>2. \A i \in 1..k : l[i].step \in Nat /\ l[i].level \in Nat
  BY <1>1 DEF Report
<1>3. r \in Report /\ r.step \in Nat /\ r.level \in Nat
  BY <1>1 DEF Report
<1>4. s \in Rises /\ s.floor \in Nat /\ s.worst \in Nat /\ s.peak \in Nat /\ s.armed \in BOOLEAN
  BY DEF Knows, Rises
<1>5. t \in Rises /\ t.floor = s.floor /\ t.worst = s.worst /\ t.armed = s.armed
  BY <1>3, <1>4 DEF Rises
<1>6. low \in Nat /\ low <= s.floor /\ low <= r.level
  BY <1>3, <1>4
<1>7. CASE r.step < source
  <2>1. n = t
    BY <1>7 DEF RiseAfter
  \* What comes before the end of the source comes before everything after it.
  <2>2. \A i \in 1..k : ~(l[i].step >= source)
    BY <1>3, <1>2, <1>7 DEF Ascending
  <2> QED BY <1>5, <2>1, <2>2 DEF Knows
<1>8. CASE r.step >= source /\ s.armed
  <2>1. n = [t EXCEPT !.floor = low, !.worst = IF r.level - low > @ THEN r.level - low ELSE @]
    BY <1>3, <1>8 DEF RiseAfter
  <2>2. PICK w : w = IF r.level - low > s.worst THEN r.level - low ELSE s.worst
    OBVIOUS
  <2>3. w \in Nat /\ w >= s.worst /\ w >= r.level - low
    BY <1>3, <1>4, <1>6, <2>2
  <2>4. n = [t EXCEPT !.floor = low, !.worst = w]
    BY <1>5, <2>1, <2>2 DEF Rises
  <2>5. n \in Rises /\ n.floor = low /\ n.armed /\ n.worst = w
    BY <1>5, <1>6, <1>8, <2>3, <2>4 DEF Rises
  <2>6. ASSUME NEW i \in 1..k, l[i].step >= source PROVE n.armed /\ n.floor <= l[i].level
    <3>1. CASE i = k
      BY <1>6, <2>5, <3>1
    <3>2. CASE i # k
      <4>1. i \in 1..(k - 1)
        BY <3>2
      <4> QED BY <1>2, <1>4, <1>6, <2>5, <2>6, <4>1 DEF Knows
    <3> QED BY <3>1, <3>2
  <2>7. ASSUME NEW i \in 1..k, NEW j \in 1..k, i < j, l[i].step >= source
        PROVE  l[j].level - l[i].level <= n.worst
    <3>1. i \in 1..(k - 1) /\ j \in 1..k
      BY <2>7
    <3>2. CASE j = k
      <4> DEFINE from == l[i].level
                 to == l[j].level
                 most == n.worst
      <4>1. low <= from /\ low \in Nat /\ from \in Nat /\ to \in Nat
        BY <1>2, <1>6, <2>5, <2>6, <2>7
      <4>2. to - low <= most /\ most \in Int
        BY <1>3, <1>6, <2>3, <2>5, <3>2
      <4> HIDE DEF low, from, to, most
      <4>3. to - from <= most
        BY <4>1, <4>2
      <4> QED BY <4>3 DEF from, to, most
    <3>3. CASE j # k
      <4> DEFINE from == l[i].level
                 to == l[j].level
                 before == s.worst
                 most == n.worst
      <4>1. j \in 1..(k - 1)
        BY <3>3
      <4>2. to - from <= before
        BY <2>7, <3>1, <4>1 DEF Knows
      <4>3. from \in Nat /\ to \in Nat
        BY <1>2
      <4>4. before <= most /\ most \in Nat /\ before \in Nat
        BY <1>4, <2>3, <2>5
      <4> HIDE DEF from, to, before, most
      <4>5. to - from <= most
        BY <4>2, <4>3, <4>4
      <4> QED BY <4>5 DEF from, to, most
    <3> QED BY <3>2, <3>3
  <2> QED BY <2>5, <2>6, <2>7 DEF Knows
<1>9. CASE r.step >= source /\ ~ s.armed
  <2>1. n = [t EXCEPT !.armed = TRUE, !.floor = r.level]
    BY <1>3, <1>9 DEF RiseAfter
  <2>2. n \in Rises /\ n.floor = r.level /\ n.armed
    BY <1>3, <1>5, <2>1 DEF Rises
  <2>3. \A i \in 1..k : l[i].step >= source => i = k
    BY <1>9 DEF Knows
  <2> QED BY <1>3, <2>2, <2>3 DEF Knows
<1> QED BY <1>3, <1>7, <1>8, <1>9

LEMMA ScanSeesRises ==
  ASSUME NEW l \in Seq(Report), NEW source \in Nat, source > 0, Ascending(l),
         NEW f, IsScan(f, l, source, Len(l))
  PROVE  Knows(f[Len(l)], l, source, Len(l))
<1> DEFINE Bad == {k \in 0..Len(l) : ~ Knows(f[k], l, source, k)}
<1>1. SUFFICES ASSUME Bad # {} PROVE FALSE
  OBVIOUS
<1>2. PICK m \in Bad : \A k \in 0..(m - 1) : k \notin Bad
  <2>1. Bad \in SUBSET Nat
    OBVIOUS
  <2> HIDE DEF Bad
  <2> QED BY <1>1, <2>1, LeastOf
<1>3. m \in 0..Len(l) /\ ~ Knows(f[m], l, source, m)
  OBVIOUS
<1>4. CASE m = 0
  <2>1. f[0] = NoRise
    BY DEF IsScan
  <2>2. NoRise \in Rises
    BY DEF NoRise, Rises
  <2> QED BY <1>3, <1>4, <2>1, <2>2 DEF Knows
<1>5. CASE m # 0
  <2>1. m \in 1..Len(l) /\ m - 1 \in 0..(m - 1) /\ m - 1 \in 0..Len(l)
    BY <1>3, <1>5
  <2>2. Knows(f[m - 1], l, source, m - 1)
    BY <1>2, <2>1
  <2>3. f[m] = RiseAfter(f[m - 1], l[m], source)
    BY <2>1 DEF IsScan
  <2> QED BY <1>3, <2>1, <2>2, <2>3, RiseIsSeen
<1> QED BY <1>4, <1>5

\* What divergence_ratio says of a log is at least every rise after the source.
LEMMA RatioCoversRises ==
  ASSUME NEW l \in Seq(Report), NEW source \in Nat, source > 0, Ascending(l), Len(l) >= 3
  PROVE  /\ DivergenceRatio(l, source) \in Nat
         /\ \A i, j \in DOMAIN l : i < j /\ l[i].step >= source =>
              l[j].level - l[i].level <= DivergenceRatio(l, source)
<1>1. PICK f : IsScan(f, l, source, Len(l)) /\ DivergenceRatio(l, source) = f[Len(l)].worst
  BY RatioIsTheScans
<1>2. Knows(f[Len(l)], l, source, Len(l))
  BY <1>1, ScanSeesRises
<1> QED BY <1>1, <1>2 DEF Knows, Rises

\* A result has been judged by its whole log.
ClimbInv ==
  /\ Ascending(log)
  /\ verdict = "result" => ~(DivergenceRatio(log, excitation) >= DivergenceRise)

LEMMA ClimbStep == MonitorInv /\ ClimbInv /\ [MonitorNext]_monitorVars => ClimbInv'
<1> SUFFICES ASSUME MonitorInv, ClimbInv, [MonitorNext]_monitorVars PROVE ClimbInv'
  OBVIOUS
<1>0. verdict = "result" => at = "left"
  BY DEF MonitorInv, AbortInv, EndIsRead
<1>1. CASE JudgeRun
  BY <1>1 DEF JudgeRun, ClimbInv
<1>2. CASE StartEngine \/ SeeStop \/ EngineEnds \/ OrphanEnds \/ AskToStop \/ UNCHANGED monitorVars
  BY <1>2 DEF StartEngine, SeeStop, EngineEnds, OrphanEnds, AskToStop, monitorVars, ClimbInv
<1>3. CASE ReadHeader
  BY <1>0, <1>3 DEF ReadHeader, Reading, ClimbInv
<1>4. ASSUME NEW stride \in Strides, NEW level \in Levels,
             ReadReport(stride, level) \/ ProgressRaises(stride, level)
      PROVE  ClimbInv'
  <2> PICK r : r = NextReport(stride, level)
    OBVIOUS
  <2>1. r \in Report /\ r.step > LastStep(log) /\ LastStep(log) \in Nat /\ r.step \in Nat /\ log \in Seq(Report)
    BY NextReportTyped, LastStepTyped DEF MonitorInv, MonitorTyped, Report
  <2>2. log' = Append(log, r) /\ verdict' # "result"
    BY <1>0, <1>4 DEF ReadReport, ProgressRaises, Reading
  <2>3. \A i \in DOMAIN log : i \in Nat /\ i <= Len(log) /\ log[i].step \in Nat
    <3>1. \A i \in DOMAIN log : i \in Nat /\ i <= Len(log) /\ log[i] \in Report
      BY <2>1
    <3> QED BY <3>1 DEF Report
  <2>4. ASSUME NEW i \in DOMAIN log PROVE log[i].step <= LastStep(log)
    <3>1. Len(log) \in DOMAIN log /\ LastStep(log) = log[Len(log)].step
      BY <2>1 DEF LastStep
    <3>2. i = Len(log) \/ i < Len(log)
      BY <2>1, <2>3
    <3> QED BY <2>3, <3>1, <3>2 DEF ClimbInv, Ascending
  <2>5. \A i \in DOMAIN log' : (i \in DOMAIN log /\ log'[i] = log[i]) \/ (i = Len(log) + 1 /\ log'[i] = r)
    BY <2>1, <2>2
  <2>6. Ascending(log)'
    BY <2>1, <2>4, <2>5, <2>3 DEF Ascending, ClimbInv
  <2> QED BY <2>2, <2>6 DEF ClimbInv
<1> QED BY <1>1, <1>2, <1>3, <1>4 DEF MonitorNext

\* Whatever openEMS prints and however long its log is, run_openems hands on no
\* result whose energy climbed by DIVERGENCE_RATIO anywhere after the source.
THEOREM ClimbsAreNotPublished == Spec => []NoClimbIsPublished
<1>1. Init => ClimbInv
  <2> SUFFICES ASSUME MonitorInit PROVE ClimbInv
    BY DEF Init
  <2>1. log = << >> /\ verdict # "result"
    BY DEF MonitorInit
  <2>2. DOMAIN log = {}
    BY <2>1
  <2> QED BY <2>1, <2>2 DEF ClimbInv, Ascending
<1>2. MonitorInv /\ ClimbInv /\ [Next]_vars => ClimbInv'
  BY StagesStepTheMonitor, ClimbStep
<1>3. MonitorInv /\ ClimbInv => NoClimbIsPublished
  <2> SUFFICES ASSUME MonitorInv, ClimbInv, verdict = "result", excitation > 0, Len(log) >= 3,
                      NEW i \in DOMAIN log, NEW j \in DOMAIN log, i < j, log[i].step >= excitation
               PROVE  log[j].level - log[i].level < DivergenceRise
    BY DEF NoClimbIsPublished
  <2>1. log \in Seq(Report) /\ excitation \in Nat /\ DivergenceRise \in Nat
    BY MonitorAssumption DEF MonitorInv, MonitorTyped, MonitorAssumption
  <2>2. Ascending(log) /\ ~(DivergenceRatio(log, excitation) >= DivergenceRise)
    BY DEF ClimbInv
  <2>3. log[i].level \in Nat /\ log[j].level \in Nat
    <3>1. log[i] \in Report /\ log[j] \in Report
      BY <2>1
    <3> QED BY <3>1 DEF Report
  <2> DEFINE ratio == DivergenceRatio(log, excitation)
  <2>4. ratio \in Nat /\ log[j].level - log[i].level <= ratio
    BY <2>1, <2>2, RatioCoversRises
  <2>5. ~(ratio >= DivergenceRise)
    BY <2>2
  <2> HIDE DEF ratio
  <2> QED BY <2>1, <2>3, <2>4, <2>5
<1> QED BY <1>1, <1>2, <1>3, MonitorIsKept, PTL DEF Spec

-------------------------------------------------------------------------------
(* What a solve marks usable. *)

\* Once a number is marked usable the run stays converged.
UsableInv == usable # {} => Converged

LEMMA ConvergedIsSettled ==
  ASSUME MonitorInv, Converged
  PROVE  /\ \E k \in DOMAIN log : log[k].step = abortedAt /\ MeetsEndCriterion(k)
         /\ finalStep >= excitation
<1>1. engine \in {"aborted", "capped"} /\ abortedAt # 0
  BY DEF Converged, MonitorInv, AbortInv, EndIsRead
<1>2. PICK k \in DOMAIN log : log[k].step = abortedAt /\ MeetsEndCriterion(k)
  BY <1>1 DEF MonitorInv, AbortInv, AbortIsEarned
<1>3. finalStep >= LastStep(log)
  BY <1>1 DEF MonitorInv, AbortInv, EndIsRead
<1>4. LastStep(log) > 0
  <2>1. Len(log) \in DOMAIN log /\ log # << >>
    BY <1>2 DEF MonitorInv, MonitorTyped
  <2> QED BY <2>1 DEF MonitorInv, AbortInv, ReportsAdvance, LastStep
<1>5. finalStep \in Nat /\ excitation \in Nat /\ LastStep(log) \in Nat
  BY LastStepTyped DEF MonitorInv, MonitorTyped
<1>6. ~(0 < finalStep /\ finalStep < excitation)
  BY DEF Converged, StoppedInsideTheSource
<1> QED BY <1>2, <1>3, <1>4, <1>5, <1>6

\* A result is not taken back.
LEMMA ConvergedStays == MonitorInv /\ Converged /\ [MonitorNext]_monitorVars => Converged'
<1> SUFFICES ASSUME MonitorInv, Converged, [MonitorNext]_monitorVars PROVE Converged'
  OBVIOUS
<1>1. verdict = "result" /\ at = "left" /\ engine \in {"aborted", "capped"}
  BY DEF Converged, MonitorInv, AbortInv, EndIsRead
<1>2. UNCHANGED <<verdict, engine, abortedAt, finalStep, excitation>>
  BY <1>1 DEF MonitorNext, monitorVars, StartEngine, ReadHeader, Reading, SeeStop, EngineEnds, OrphanEnds,
              JudgeRun, AskToStop, ReadReport, ProgressRaises
<1> QED BY <1>2 DEF Converged, StoppedInsideTheSource

\* A stage adds to what is usable only what the run's end allows.
LEMMA UsableGrows == [Next]_vars => usable' = usable \/ usable' = {} \/ Converged
BY DEF Next, vars, stageVars, StageStep, CheckStop, Progress, SkipProgress, Tell, Ask, Try, EachItem, EngineLeft,
       BuildArtifacts, AddNetwork, AddAntennaTerms, AddFarField, UploadArtifact, Return, Engine,
       EngineRaises, Stop, Orphan, Raise, Nothing

\* A number is marked usable only where openEMS was stopped on a settled decay,
\* after its source: stages/solve.py and post.py never mark one at the cap.
THEOREM UsableNumbersAreSettled == Spec => []UsableMeansSettled
<1>1. Init => UsableInv
  BY DEF Init, UsableInv
<1>2. MonitorInv /\ UsableInv /\ [Next]_vars => UsableInv'
  <2> SUFFICES ASSUME MonitorInv, UsableInv, [Next]_vars PROVE UsableInv'
    OBVIOUS
  <2>1. Converged => Converged'
    BY StagesStepTheMonitor, ConvergedStays
  <2> QED BY <2>1, UsableGrows DEF UsableInv
<1>3. MonitorInv /\ UsableInv => UsableMeansSettled
  BY ConvergedIsSettled DEF UsableInv, UsableMeansSettled
<1> QED BY <1>1, <1>2, <1>3, MonitorIsKept, PTL DEF Spec

-------------------------------------------------------------------------------
(* The places of a stage. *)

\* One place uploads, and only the last one returns.
Ordered(s, upload) ==
  /\ Len(s) \in Nat /\ DOMAIN s = 1..Len(s) /\ upload \in 1..Len(s)
  /\ \A p \in DOMAIN s : (s[p] = "upload" <=> p = upload) /\ (s[p] = "return" <=> p = Len(s))

SolvePlaces == {"engine", "collect", "network", "antenna", "farfield"}

Unsolved(s) == \A p \in DOMAIN s : s[p] \notin SolvePlaces

\* p is the last place at which stage s looks for a stop.
IsLastLook(s, p) ==
  /\ p \in DOMAIN s /\ s[p] \in {"post", "check"}
  /\ \A q \in DOMAIN s : s[q] \in {"post", "check"} => q <= p

UploadAt(k) ==
  [ingest |-> 15, solve |-> 17, cable |-> 8, compliance |-> 10, transient |-> 11, conducted |-> 10][k]

LEMMA IngestPlaces == Ordered(run_ingest, 15) /\ Unsolved(run_ingest) /\ IsLastLook(run_ingest, 16)
BY DEF Ordered, Unsolved, IsLastLook, SolvePlaces, run_ingest

LEMMA CablePlaces == Ordered(run_cable, 8) /\ Unsolved(run_cable) /\ IsLastLook(run_cable, 7)
BY DEF Ordered, Unsolved, IsLastLook, SolvePlaces, run_cable

LEMMA CompliancePlaces == Ordered(run_compliance, 10) /\ Unsolved(run_compliance) /\ IsLastLook(run_compliance, 11)
BY DEF Ordered, Unsolved, IsLastLook, SolvePlaces, run_compliance

LEMMA TransientPlaces == Ordered(run_transient, 11) /\ Unsolved(run_transient) /\ IsLastLook(run_transient, 10)
BY DEF Ordered, Unsolved, IsLastLook, SolvePlaces, run_transient

LEMMA ConductedPlaces == Ordered(run_conducted, 10) /\ Unsolved(run_conducted) /\ IsLastLook(run_conducted, 9)
BY DEF Ordered, Unsolved, IsLastLook, SolvePlaces, run_conducted

LEMMA SolvesPlaces ==
  /\ Ordered(run_solve, 17) /\ IsLastLook(run_solve, 18)
  /\ \A p \in DOMAIN run_solve : /\ run_solve[p] = "collect" <=> p = 12
                                 /\ run_solve[p] = "network" <=> p = 13
                                 /\ run_solve[p] = "antenna" <=> p = 14
                                 /\ run_solve[p] = "farfield" <=> p = 15
BY DEF Ordered, IsLastLook, run_solve

LEMMA EveryStage ==
  ASSUME NEW k \in DOMAIN STAGES
  PROVE  /\ Ordered(STAGES[k], UploadAt(k))
         /\ k # "solve" => Unsolved(STAGES[k])
         /\ k = "solve" => STAGES[k] = run_solve
         /\ \E p : IsLastLook(STAGES[k], p)
<1>1. k \in {"ingest", "solve", "cable", "compliance", "transient", "conducted"}
  BY DEF STAGES
<1> QED BY <1>1, IngestPlaces, CablePlaces, CompliancePlaces, TransientPlaces, ConductedPlaces, SolvesPlaces
        DEF STAGES, UploadAt

LEMMA LastLookIsLast == ASSUME NEW k \in DOMAIN STAGES PROVE IsLastLook(STAGES[k], LastLook(k))
BY EveryStage DEF IsLastLook, LastLook

\* A step that leaves the stage at its place, or ends it before its last one.
Stays ==
  /\ UNCHANGED <<kind, opts, pos, files, manifest, written, uploaded>>
  /\ ending' = ending \/ ending' \in {"failed", "stopped", "reassigned"}

\* A step past a place at which a stage makes nothing.
Walks ==
  /\ ending = "" /\ ending' = "" /\ pos' = pos + 1
  /\ STAGES[kind][pos] \notin {"collect", "network", "antenna", "farfield", "upload", "return"}
  /\ UNCHANGED <<kind, opts, files, manifest, written, uploaded>>

Makes == BuildArtifacts \/ AddNetwork \/ AddAntennaTerms \/ AddFarField \/ UploadArtifact \/ Return

LEMMA StepsOfAStage == [Next]_vars => Stays \/ Walks \/ Makes
<1> USE DEF At, Advance, Nothing, Settings, Raise, End, stageVars
<1> SUFFICES ASSUME [Next]_vars PROVE Stays \/ Walks \/ Makes
  OBVIOUS
<1>1. CASE CheckStop \/ Progress \/ SkipProgress
  BY <1>1 DEF CheckStop, Progress, SkipProgress, Stays, Walks
<1>2. CASE Tell \/ Ask \/ Try \/ EachItem
  BY <1>2 DEF Tell, Ask, Try, EachItem, Stays, Walks
<1>3. CASE EngineLeft
  BY <1>3 DEF EngineLeft, Stays, Walks
<1>4. CASE Engine \/ Stop \/ Orphan \/ UNCHANGED vars
  BY <1>4 DEF Engine, Stop, Orphan, vars, Stays
<1>5. CASE EngineRaises
  BY <1>5 DEF EngineRaises, Stays
<1>6. CASE Makes
  BY <1>6
<1> QED BY <1>1, <1>2, <1>3, <1>4, <1>5, <1>6 DEF Next, StageStep, Makes

\* What the manifest in memory and the one rendered say of an optional artifact.
Filed(entry, file) == (entry \in manifest <=> file \in files) /\ (entry \in written <=> file \in files)

NetworkNoted == pos > 13 /\ opts.small => {"network", "network_note"} \cap written # {}
FarFieldNoted == pos > 15 /\ opts.far => {"far_field", "far_field_note"} \cap written # {}

\* What a solve has made, by its place.
SolveInv ==
  kind = "solve" =>
    /\ pos <= 12 => files = {} /\ manifest = {}
    /\ pos > 12 => {"maps", "manifest.json"} \subseteq files
    /\ written \subseteq manifest
    /\ Filed("network", "network.json") /\ Filed("far_field", "farfield.json") /\ Filed("antenna", "cable_antenna.json")
    /\ NetworkNoted /\ FarFieldNoted

UploadInv ==
  /\ uploaded \subseteq ToUpload
  /\ pos < UploadAt(kind) => uploaded = {}
  /\ pos > UploadAt(kind) => ToUpload \subseteq uploaded

PlaceInv ==
  /\ kind \in DOMAIN STAGES /\ pos \in DOMAIN STAGES[kind]
  /\ kind # "solve" => files = Artifacts[kind]
  /\ SolveInv /\ UploadInv
  /\ ending = "done" => STAGES[kind][pos] = "return"

LEMMA InitPlace == Init => PlaceInv
<1> SUFFICES ASSUME Init PROVE PlaceInv
  OBVIOUS
<1>0. pos = 1
  BY DEF Init
<1>1. kind \in DOMAIN STAGES /\ ending = "" /\ uploaded = {} /\ manifest = {} /\ written = {}
  BY DEF Init
<1>5. files = IF kind = "solve" THEN {} ELSE Artifacts[kind]
  BY DEF Init
<1>2. Ordered(STAGES[kind], UploadAt(kind))
  BY <1>1, EveryStage
<1>3. pos \in DOMAIN STAGES[kind] /\ ~(pos > UploadAt(kind))
  <2>1. DOMAIN STAGES[kind] = 1..Len(STAGES[kind]) /\ UploadAt(kind) \in 1..Len(STAGES[kind]) /\ Len(STAGES[kind]) \in Nat
    BY <1>2 DEF Ordered
  <2> QED BY <1>0, <2>1
<1>4. SolveInv
  <2>1. NetworkNoted /\ FarFieldNoted
    BY <1>0 DEF NetworkNoted, FarFieldNoted
  <2>2. manifest = {} /\ written = {} /\ (kind = "solve" => files = {})
    BY <1>1, <1>5
  <2> QED BY <1>0, <2>1, <2>2 DEF SolveInv, Filed
<1> QED BY <1>1, <1>3, <1>4, <1>5 DEF PlaceInv, UploadInv

\* What a place other than the last is followed by, and where it is.
LEMMA NextPlace ==
  ASSUME PlaceInv, STAGES[kind][pos] # "return"
  PROVE  /\ pos \in Nat /\ pos + 1 \in DOMAIN STAGES[kind] /\ UploadAt(kind) \in Nat
         /\ STAGES[kind][pos] = "upload" <=> pos = UploadAt(kind)
         /\ kind = "solve" => /\ STAGES[kind][pos] = "collect" <=> pos = 12
                              /\ STAGES[kind][pos] = "network" <=> pos = 13
                              /\ STAGES[kind][pos] = "antenna" <=> pos = 14
                              /\ STAGES[kind][pos] = "farfield" <=> pos = 15
                              /\ UploadAt(kind) = 17
         /\ STAGES[kind][pos] \in SolvePlaces => kind = "solve"
<1>1. Ordered(STAGES[kind], UploadAt(kind)) /\ (kind # "solve" => Unsolved(STAGES[kind])) /\ (kind = "solve" => STAGES[kind] = run_solve)
  BY EveryStage DEF PlaceInv
<1>2. kind = "solve" => UploadAt(kind) = 17
  BY DEF UploadAt
<1>3. pos \in 1..Len(STAGES[kind]) /\ pos # Len(STAGES[kind]) /\ Len(STAGES[kind]) \in Nat
  BY <1>1 DEF PlaceInv, Ordered
<1>4. pos \in Nat /\ pos + 1 \in DOMAIN STAGES[kind] /\ UploadAt(kind) \in Nat
  BY <1>1, <1>3 DEF Ordered
<1>5. STAGES[kind][pos] = "upload" <=> pos = UploadAt(kind)
  BY <1>1 DEF PlaceInv, Ordered
<1>6. STAGES[kind][pos] \in SolvePlaces => kind = "solve"
  BY <1>1 DEF PlaceInv, Unsolved
<1>7. ASSUME kind = "solve"
      PROVE  /\ STAGES[kind][pos] = "collect" <=> pos = 12
             /\ STAGES[kind][pos] = "network" <=> pos = 13
             /\ STAGES[kind][pos] = "antenna" <=> pos = 14
             /\ STAGES[kind][pos] = "farfield" <=> pos = 15
  <2>1. STAGES[kind] = run_solve /\ pos \in DOMAIN run_solve
    BY <1>1, <1>7 DEF PlaceInv
  <2> QED BY <2>1, SolvesPlaces
<1> QED BY <1>2, <1>4, <1>5, <1>6, <1>7, Zenon

LEMMA StaysPlace == ASSUME PlaceInv, Stays PROVE PlaceInv'
BY DEF PlaceInv, Stays, SolveInv, UploadInv, Filed, NetworkNoted, FarFieldNoted, ToUpload

LEMMA WalksPlace == ASSUME PlaceInv, Walks PROVE PlaceInv'
<1>1. pos' = pos + 1 /\ STAGES[kind][pos] # "return" /\ pos' \in DOMAIN STAGES[kind] /\ pos \in Nat
  BY NextPlace DEF Walks
<1>2. UNCHANGED <<kind, opts, files, manifest, written, uploaded>>
  BY DEF Walks
<1>3. UploadInv'
  <2>1. pos # UploadAt(kind) /\ UploadAt(kind) \in Nat
    BY <1>1, NextPlace DEF Walks
  <2> QED BY <1>1, <1>2, <2>1 DEF PlaceInv, UploadInv, ToUpload
<1>4. SolveInv'
  <2>1. kind = "solve" => pos # 12 /\ pos # 13 /\ pos # 15
    BY <1>1, NextPlace DEF Walks
  <2>2. kind = "solve" => NetworkNoted' /\ FarFieldNoted'
    BY <1>1, <1>2, <2>1 DEF PlaceInv, SolveInv, NetworkNoted, FarFieldNoted
  <2> QED BY <1>1, <1>2, <2>1, <2>2 DEF PlaceInv, SolveInv, Filed
<1> QED BY <1>1, <1>2, <1>3, <1>4 DEF PlaceInv, Walks

\* A place of a solve at which files are made: it is before the upload.
LEMMA MakesPlace ==
  ASSUME PlaceInv, STAGES[kind][pos] \in {"collect", "network", "antenna", "farfield"}, pos' = pos + 1,
         UNCHANGED <<kind, uploaded, ending>>, ending # "done",
         SolveInv'
  PROVE  PlaceInv'
<1>1. kind = "solve" /\ pos \in Nat /\ pos' \in DOMAIN STAGES[kind] /\ UploadAt(kind) = 17
  BY NextPlace DEF SolvePlaces
<1>2. pos <= 15
  BY <1>1, NextPlace
<1>3. uploaded = {} /\ uploaded' = {} /\ ~(pos' > 17)
  BY <1>1, <1>2 DEF PlaceInv, UploadInv
<1> QED BY <1>1, <1>3 DEF PlaceInv, UploadInv

LEMMA BuildPlace == ASSUME PlaceInv, BuildArtifacts PROVE PlaceInv'
<1>1. STAGES[kind][pos] = "collect" /\ ending # "done" /\ UNCHANGED <<kind, opts>>
  BY DEF BuildArtifacts, At, Settings
<1>2. kind = "solve" /\ pos = 12
  BY <1>1, NextPlace DEF SolvePlaces
<1>3. CASE Raise("failed")
  BY <1>1, <1>3, StaysPlace DEF Raise, End, Stays
<1>4. CASE ~Raise("failed")
  <2>1. PICK transfers \in {{}, {"cable_ports.json"}} :
           files' = {"maps", "sparams.json", "manifest.json"} \cup ({"ports.json"} \cup transfers)
    BY <1>4 DEF BuildArtifacts
  <2>2. pos' = pos + 1 /\ UNCHANGED <<manifest, written, uploaded, ending>>
    BY <1>4 DEF BuildArtifacts, Advance
  <2>3. manifest = {} /\ written = {}
    BY <1>2 DEF PlaceInv, SolveInv
  <2>4. NetworkNoted' /\ FarFieldNoted'
    BY <1>2, <2>2 DEF NetworkNoted, FarFieldNoted
  <2>5. SolveInv'
    BY <1>1, <1>2, <2>1, <2>2, <2>3, <2>4 DEF SolveInv, Filed
  <2> QED BY <1>1, <2>2, <2>5, MakesPlace
<1> QED BY <1>3, <1>4

\* A place that adds an artifact together with its entry, or an entry of no
\* artifact, or nothing.
LEMMA AddingKeepsTheSolve ==
  ASSUME PlaceInv, kind = "solve", kind' = kind, opts' = opts, pos > 12, pos' = pos + 1, pos \in Nat,
         NEW added, NEW new, files' = files \cup new, manifest' = manifest \cup added,
         (written' = manifest') \/ (written' = written /\ added \subseteq {"antenna_note"}),
         "network" \in added <=> "network.json" \in new,
         "far_field" \in added <=> "farfield.json" \in new,
         "antenna" \in added <=> "cable_antenna.json" \in new,
         NetworkNoted', FarFieldNoted'
  PROVE  SolveInv'
<1>1. written' \subseteq manifest'
  BY DEF PlaceInv, SolveInv
<1>2. Filed("network", "network.json")' /\ Filed("far_field", "farfield.json")' /\ Filed("antenna", "cable_antenna.json")'
  BY DEF PlaceInv, SolveInv, Filed
<1> QED BY <1>1, <1>2 DEF PlaceInv, SolveInv

LEMMA NetworkPlace == ASSUME PlaceInv, AddNetwork PROVE PlaceInv'
<1>1. /\ STAGES[kind][pos] = "network" /\ ending # "done" /\ UNCHANGED <<kind, opts, uploaded, ending>>
      /\ pos' = pos + 1
  BY DEF AddNetwork, At, Settings, Advance, Nothing
<1>2. kind = "solve" /\ pos = 13
  BY <1>1, NextPlace DEF SolvePlaces
<1>3. FarFieldNoted'
  BY <1>1, <1>2 DEF FarFieldNoted
<1>4. written \subseteq manifest
  BY <1>2 DEF PlaceInv, SolveInv
<1>5. ASSUME NEW new, NEW added, files' = files \cup new, manifest' = manifest \cup added,
             \/ new = {} /\ added = {} /\ written' = written /\ ~opts.small
             \/ new = {"network.json"} /\ added = {"network"} /\ written' = manifest'
             \/ new = {} /\ added = {"network_note"} /\ written' = manifest'
      PROVE  PlaceInv'
  <2>1. NetworkNoted'
    BY <1>1, <1>5 DEF NetworkNoted
  <2>2. /\ "network" \in added <=> "network.json" \in new
        /\ "far_field" \in added <=> "farfield.json" \in new
        /\ "antenna" \in added <=> "cable_antenna.json" \in new
    BY <1>5
  <2>3. (written' = manifest') \/ (written' = written /\ added \subseteq {"antenna_note"})
    BY <1>5
  <2>4. SolveInv'
    BY <1>1, <1>2, <1>3, <1>5, <2>1, <2>2, <2>3, AddingKeepsTheSolve
  <2> QED BY <1>1, <2>4, MakesPlace
<1>6. \/ ~opts.small /\ files' = files \cup {} /\ manifest' = manifest \cup {} /\ written' = written
      \/ files' = files \cup {"network.json"} /\ Rewrite({"network"})
      \/ files' = files \cup {} /\ Rewrite({"network_note"})
  BY DEF AddNetwork, Nothing
<1> QED BY <1>5, <1>6 DEF Rewrite

LEMMA AntennaPlace == ASSUME PlaceInv, AddAntennaTerms PROVE PlaceInv'
<1>1. /\ STAGES[kind][pos] = "antenna" /\ ending # "done" /\ UNCHANGED <<kind, opts, uploaded, ending>>
      /\ pos' = pos + 1
  BY DEF AddAntennaTerms, At, Settings, Advance, Nothing
<1>2. kind = "solve" /\ pos = 14
  BY <1>1, NextPlace DEF SolvePlaces
<1>3. ASSUME NEW new, NEW added, files' = files \cup new, manifest' = manifest \cup added,
             (written' = manifest') \/ (written' = written /\ added \subseteq {"antenna_note"}),
             \/ new = {} /\ added \subseteq {"antenna_note"}
             \/ new = {"cable_antenna.json"} /\ added \in {{"antenna"}, {"antenna_note", "antenna"}}
      PROVE  PlaceInv'
  <2>1. written \subseteq written'
    BY <1>2, <1>3 DEF PlaceInv, SolveInv
  <2>2. NetworkNoted /\ FarFieldNoted
    BY <1>2 DEF PlaceInv, SolveInv
  <2>3. NetworkNoted' /\ FarFieldNoted'
    BY <1>1, <1>2, <2>1, <2>2 DEF NetworkNoted, FarFieldNoted
  <2>4. /\ "network" \in added <=> "network.json" \in new
        /\ "far_field" \in added <=> "farfield.json" \in new
        /\ "antenna" \in added <=> "cable_antenna.json" \in new
    BY <1>3
  <2>5. SolveInv'
    BY <1>1, <1>2, <1>3, <2>3, <2>4, AddingKeepsTheSolve
  <2> QED BY <1>1, <2>5, MakesPlace
<1>4. \/ Nothing
      \/ manifest' = manifest \cup {"antenna_note"} /\ files' = files /\ written' = written
      \/ files' = files \cup {"cable_antenna.json"} /\ \E note \in {{}, {"antenna_note"}} : Rewrite(note \cup {"antenna"})
  BY DEF AddAntennaTerms
<1>5. CASE Nothing
  <2>1. files' = files \cup {} /\ manifest' = manifest \cup {} /\ written' = written
    BY <1>5 DEF Nothing
  <2> QED BY <1>3, <2>1
<1>6. CASE manifest' = manifest \cup {"antenna_note"} /\ files' = files /\ written' = written
  <2>1. files' = files \cup {}
    BY <1>6
  <2> QED BY <1>3, <1>6, <2>1
<1>7. ASSUME files' = files \cup {"cable_antenna.json"}, NEW note \in {{}, {"antenna_note"}}, Rewrite(note \cup {"antenna"})
      PROVE  PlaceInv'
  <2>1. note \cup {"antenna"} \in {{"antenna"}, {"antenna_note", "antenna"}}
    OBVIOUS
  <2> QED BY <1>3, <1>7, <2>1 DEF Rewrite
<1> QED BY <1>4, <1>5, <1>6, <1>7

LEMMA FarFieldPlace == ASSUME PlaceInv, AddFarField PROVE PlaceInv'
<1>1. STAGES[kind][pos] = "farfield" /\ ending # "done" /\ UNCHANGED <<kind, opts>>
  BY DEF AddFarField, At, Settings
<1>2. kind = "solve" /\ pos = 15
  BY <1>1, NextPlace DEF SolvePlaces
<1>3. CASE Raise("stopped") \/ Raise("reassigned")
  BY <1>1, <1>3, StaysPlace DEF Raise, End, Stays
<1>4. CASE ~Raise("stopped") /\ ~Raise("reassigned")
  <2>1. pos' = pos + 1 /\ UNCHANGED <<uploaded, ending>>
    BY <1>4 DEF AddFarField, Advance, Nothing
  <2>2. ASSUME NEW new, NEW added, files' = files \cup new, manifest' = manifest \cup added,
               \/ new = {} /\ added = {} /\ written' = written /\ ~opts.far
               \/ new = {"farfield.json"} /\ added = {"far_field"} /\ written' = manifest'
               \/ new = {} /\ added = {"far_field_note"} /\ written' = manifest'
        PROVE  PlaceInv'
    <3>1. FarFieldNoted'
      BY <1>1, <2>2 DEF FarFieldNoted
    <3>2. written \subseteq written'
      BY <1>2, <2>2 DEF PlaceInv, SolveInv
    <3>3. NetworkNoted
      BY <1>2 DEF PlaceInv, SolveInv
    <3>4. NetworkNoted'
      BY <1>1, <1>2, <3>2, <3>3 DEF NetworkNoted
    <3>5. /\ "network" \in added <=> "network.json" \in new
          /\ "far_field" \in added <=> "farfield.json" \in new
          /\ "antenna" \in added <=> "cable_antenna.json" \in new
      BY <2>2
    <3>6. (written' = manifest') \/ (written' = written /\ added \subseteq {"antenna_note"})
      BY <2>2
    <3>7. SolveInv'
      BY <1>1, <1>2, <2>1, <2>2, <3>1, <3>4, <3>5, <3>6, AddingKeepsTheSolve
    <3> QED BY <1>1, <2>1, <3>7, MakesPlace
  <2>3. \/ ~opts.far /\ files' = files \cup {} /\ manifest' = manifest \cup {} /\ written' = written
        \/ files' = files \cup {} /\ Rewrite({"far_field_note"})
        \/ files' = files \cup {"farfield.json"} /\ Rewrite({"far_field"})
    BY <1>4 DEF AddFarField, Nothing
  <2> QED BY <2>2, <2>3 DEF Rewrite
<1> QED BY <1>3, <1>4

LEMMA FollowingIsLeft == ASSUME ~(ToUpload \subseteq uploaded) PROVE Following \in ToUpload \ uploaded
<1> DEFINE left == ToUpload \ uploaded
<1>1. \E f \in left : f = "solver.log" => left = {f}
  <2>1. CASE \E f \in left : f # "solver.log"
    BY <2>1
  <2>2. CASE left = {"solver.log"}
    BY <2>2
  <2> QED BY <2>1, <2>2
<1> QED BY <1>1 DEF Following

LEMMA UploadPlace == ASSUME PlaceInv, UploadArtifact PROVE PlaceInv'
<1>1. STAGES[kind][pos] = "upload" /\ ending # "done" /\ UNCHANGED <<kind, opts>>
  BY DEF UploadArtifact, At, Settings
<1>2. pos \in Nat /\ pos = UploadAt(kind) /\ (kind = "solve" => pos = 17)
  BY <1>1, NextPlace
<1>3. CASE Raise("failed") \/ Raise("reassigned")
  BY <1>1, <1>3, StaysPlace DEF Raise, End, Stays
<1>4. CASE ~(ToUpload \subseteq uploaded) /\ uploaded' = uploaded \cup {Following}
           /\ UNCHANGED <<pos, files, manifest, written, ending>>
  <2>1. ToUpload' = ToUpload /\ uploaded' \subseteq ToUpload
    BY <1>1, <1>4, FollowingIsLeft DEF PlaceInv, UploadInv, ToUpload
  <2>2. UploadInv'
    BY <1>1, <1>2, <1>4, <2>1 DEF UploadInv
  <2> QED BY <1>1, <1>4, <2>2 DEF PlaceInv, SolveInv, Filed, NetworkNoted, FarFieldNoted
<1>5. CASE ToUpload \subseteq uploaded /\ Advance /\ Nothing
  <2>1. pos' = pos + 1 /\ UNCHANGED <<files, manifest, written, uploaded, ending>>
    BY <1>5 DEF Advance, Nothing
  <2>2. pos' \in DOMAIN STAGES[kind]
    BY <1>1, <2>1, NextPlace
  <2>3. UploadInv'
    BY <1>1, <1>2, <1>5, <2>1 DEF PlaceInv, UploadInv, ToUpload
  <2>4. kind = "solve" => NetworkNoted' /\ FarFieldNoted'
    BY <1>1, <1>2, <2>1 DEF PlaceInv, SolveInv, NetworkNoted, FarFieldNoted
  <2>5. SolveInv'
    BY <1>1, <1>2, <2>1, <2>4 DEF PlaceInv, SolveInv, Filed
  <2> QED BY <1>1, <2>1, <2>2, <2>3, <2>5 DEF PlaceInv
<1> QED BY <1>3, <1>4, <1>5 DEF UploadArtifact

LEMMA ReturnPlace == ASSUME PlaceInv, Return PROVE PlaceInv'
<1>1. STAGES[kind][pos] = "return" /\ UNCHANGED <<kind, opts, pos, files, manifest, written, uploaded>>
  BY DEF Return, At, Settings, Raise, End
<1> QED BY <1>1 DEF PlaceInv, SolveInv, UploadInv, Filed, NetworkNoted, FarFieldNoted, ToUpload

LEMMA PlacesAreKept == Spec => []PlaceInv
<1>1. PlaceInv /\ [Next]_vars => PlaceInv'
  BY StepsOfAStage, StaysPlace, WalksPlace, BuildPlace, NetworkPlace, AntennaPlace, FarFieldPlace, UploadPlace, ReturnPlace
     DEF Makes
<1> QED BY <1>1, InitPlace, PTL DEF Spec

\* A run that is recorded as done has put every file its kind promises, and the
\* manifest it put says of each optional artifact whether it was put: nothing that
\* stages/solve.py adds after the render, and no refusal, gets between them.
THEOREM DoneRunsAreWhole == Spec => []DoneIsWhole
<1>1. PlaceInv => DoneIsWhole
  <2> SUFFICES ASSUME PlaceInv, ending = "done" PROVE DoneIsWhole
    BY DEF DoneIsWhole
  <2>1. Ordered(STAGES[kind], UploadAt(kind)) /\ (kind = "solve" => STAGES[kind] = run_solve)
    BY EveryStage DEF PlaceInv
  <2>2. STAGES[kind][pos] = "return" /\ pos \in DOMAIN STAGES[kind]
    BY DEF PlaceInv
  <2>3. pos \in Nat /\ UploadAt(kind) \in Nat /\ pos > UploadAt(kind)
    BY <2>1, <2>2 DEF Ordered
  <2>4. uploaded = ToUpload
    BY <2>3 DEF PlaceInv, UploadInv
  <2>5. kind = "solve" => UploadAt(kind) = 17
    BY DEF UploadAt
  <2>6. kind = "solve" =>
          /\ {"maps", "manifest.json", "solver.log"} \subseteq uploaded
          /\ ("network" \in written) = ("network.json" \in uploaded)
          /\ ("far_field" \in written) = ("farfield.json" \in uploaded)
          /\ ("antenna" \in written) = ("cable_antenna.json" \in uploaded)
    BY <2>3, <2>4, <2>5 DEF PlaceInv, SolveInv, Filed, ToUpload
  <2>7. kind = "solve" => /\ opts.small => {"network", "network_note"} \cap written # {}
                          /\ opts.far => {"far_field", "far_field_note"} \cap written # {}
    BY <2>3, <2>5 DEF PlaceInv, SolveInv, NetworkNoted, FarFieldNoted
  <2>8. kind # "solve" => Artifacts[kind] \subseteq uploaded
    BY <2>4 DEF PlaceInv, ToUpload
  <2> QED BY <2>4, <2>6, <2>7, <2>8 DEF DoneIsWhole
<1> QED BY <1>1, PlacesAreKept, PTL

-------------------------------------------------------------------------------
(* A stop. *)

Live == ending = ""

\* A run that was asked to stop in time has not passed its last look.
StopInv ==
  /\ Live /\ asked => shouldStop /\ pos <= LastLook(kind)
  /\ ending = "done" => ~asked

\* A step at which a stage goes on: past a look only where no stop was asked.
Passes ==
  /\ Live /\ Live' /\ pos' = pos + 1 /\ UNCHANGED <<kind, asked, shouldStop>>
  /\ STAGES[kind][pos] # "return"
  /\ STAGES[kind][pos] \in {"post", "check"} => ~shouldStop

Breaks == ending' \in {"failed", "stopped", "reassigned"} /\ kind' = kind

Rests == UNCHANGED <<pos, kind, ending, asked, shouldStop>>

LEMMA StepsAndStops == [Next]_vars => Passes \/ Breaks \/ Rests \/ Stop \/ Return
<1> USE DEF At, Advance, Nothing, Settings, Raise, End, stageVars, monitorVars, Passes, Breaks, Rests, Live
<1> SUFFICES ASSUME [Next]_vars PROVE Passes \/ Breaks \/ Rests \/ Stop \/ Return
  OBVIOUS
<1>1. CASE CheckStop \/ Progress \/ SkipProgress
  BY <1>1 DEF CheckStop, Progress, SkipProgress
<1>2. CASE Tell \/ Ask \/ Try \/ EachItem
  BY <1>2 DEF Tell, Ask, Try, EachItem
<1>3. CASE EngineLeft
  BY <1>3 DEF EngineLeft
<1>4. CASE BuildArtifacts \/ AddNetwork \/ AddAntennaTerms
  BY <1>4 DEF BuildArtifacts, AddNetwork, AddAntennaTerms
<1>5. CASE AddFarField \/ UploadArtifact
  BY <1>5 DEF AddFarField, UploadArtifact
<1>6. CASE Engine
  <2>1. shouldStop' = shouldStop
    BY <1>6 DEF Engine, StartEngine, ReadHeader, SeeStop, EngineEnds, JudgeRun, ReadReport
  <2> QED BY <1>6, <2>1 DEF Engine
<1>7. CASE EngineRaises
  BY <1>7 DEF EngineRaises
<1>8. CASE Orphan \/ UNCHANGED vars
  BY <1>8 DEF Orphan, OrphanEnds, vars
<1>9. CASE Stop \/ Return
  BY <1>9
<1> QED BY <1>1, <1>2, <1>3, <1>4, <1>5, <1>6, <1>7, <1>8, <1>9 DEF Next, StageStep

LEMMA StopStep == PlaceInv /\ StopInv /\ [Next]_vars => StopInv'
<1> SUFFICES ASSUME PlaceInv, StopInv, [Next]_vars PROVE StopInv'
  OBVIOUS
<1>1. /\ LastLook(kind) \in 1..Len(STAGES[kind]) /\ Len(STAGES[kind]) \in Nat /\ pos \in 1..Len(STAGES[kind])
      /\ STAGES[kind][LastLook(kind)] \in {"post", "check"}
      /\ STAGES[kind][pos] = "return" => pos = Len(STAGES[kind])
  BY EveryStage, LastLookIsLast DEF PlaceInv, Ordered, IsLastLook
<1>2. CASE Passes
  <2>1. Live' /\ ~(ending' = "done")
    BY <1>2 DEF Passes, Live
  <2>2. asked => shouldStop /\ pos <= LastLook(kind) /\ STAGES[kind][pos] \notin {"post", "check"}
    BY <1>2 DEF Passes, StopInv
  <2>3. asked => pos + 1 <= LastLook(kind)
    BY <1>1, <2>2
  <2> QED BY <1>2, <2>1, <2>2, <2>3 DEF Passes, StopInv
<1>3. CASE Breaks
  BY <1>3 DEF Breaks, StopInv, Live
<1>4. CASE Rests
  BY <1>4 DEF Rests, StopInv, Live
<1>5. CASE Stop
  BY <1>5 DEF Stop, AskToStop, StopInv, Live
<1>6. CASE Return
  <2>1. Live /\ STAGES[kind][pos] = "return" /\ ~Live' /\ asked' = asked
    BY <1>6 DEF Return, At, Raise, End, Settings, Live
  <2>2. ~asked
    BY <1>1, <2>1 DEF StopInv
  <2> QED BY <2>1, <2>2 DEF StopInv
<1> QED BY <1>2, <1>3, <1>4, <1>5, <1>6, StepsAndStops

\* A run that was asked to stop before the last place at which its stage looks is
\* never recorded as done: no place but a look lets it by.
THEOREM StoppedRunsAreNotDone == Spec => []StoppedIsNotDone
<1>1. Init => StopInv
  BY DEF Init, StopInv, Live
<1>2. StopInv => StoppedIsNotDone
  BY DEF StopInv, StoppedIsNotDone
<1> QED BY <1>1, <1>2, StopStep, PlacesAreKept, PTL DEF Spec

===============================================================================
