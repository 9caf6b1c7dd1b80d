------------------------------- MODULE Stages -------------------------------
(***************************************************************************)
(* The six stages a worker runs (worker/emi_worker/stages/), each the list *)
(* of the places where it looks for a stop, talks to the server, may refuse *)
(* the run or puts artifacts, with what a solve publishes about itself.    *)
(* Its openEMS step is SolveMonitor.  What is computed between the places  *)
(* is left out.                                                            *)
(***************************************************************************)
EXTENDS SolveMonitor, FiniteSets

CONSTANTS MaxItems   \* bound: items a stage works through one by one

ASSUME StagesAssumption == MaxItems \in Nat

VARIABLES
  kind,      \* the run's kind
  opts,      \* of a solve: small part, cable ports, far field
  pos,       \* the next place of the stage
  items,     \* items worked through at this place
  files,     \* artifacts.files: what there is to upload
  manifest,  \* what the manifest says beside the maps
  written,   \* what files["manifest.json"] says
  usable,    \* artifacts that mark a number usable
  uploaded,  \* artifacts put and confirmed
  asked,     \* history: whether a stop was asked for before the last look
  ending     \* "", done, failed, stopped, reassigned

stageVars == << kind, opts, pos, items, files, manifest, written, usable,
                uploaded, asked, ending >>
vars == << monitorVars, stageVars >>

\* post   ctx.progress: a look for a stop, then a post
\* tell   client.progress alone
\* check  ctx.check_stop
\* ask    run_input and download
\* try    work that may refuse the run
\* each   items one by one, with a look for a stop before each
\* maybe  a post that depends on what there is
run_ingest ==
  << "post", "ask", "post", "check", "try", "post", "try", "post", "check",
     "post", "try", "post", "post", "post", "upload", "post", "return" >>

run_solve ==
  << "try", "post", "ask", "post", "try", "post", "try", "tell", "post",
     "engine", "post", "collect", "network", "antenna", "farfield", "post",
     "upload", "post", "return" >>

run_cable == << "try", "post", "ask", "try", "post", "each", "post", "upload", "return" >>

run_compliance ==
  << "try", "post", "ask", "try", "post", "try", "maybe", "maybe", "post",
     "upload", "post", "return" >>

run_transient ==
  << "try", "post", "ask", "post", "try", "post", "check", "post", "each",
     "post", "upload", "return" >>

run_conducted ==
  << "try", "post", "ask", "post", "try", "post", "try", "each", "post",
     "upload", "return" >>

STAGES ==
  [ingest |-> run_ingest, solve |-> run_solve, cable |-> run_cable,
   compliance |-> run_compliance, transient |-> run_transient,
   conducted |-> run_conducted]

\* What a kind other than solve uploads, and what every solve does.
Artifacts ==
  [ingest |-> {"board.json", "geometry.bin", "rules.json", "nets.json"},
   solve |-> {"maps", "sparams.json", "ports.json", "manifest.json", "solver.log"},
   cable |-> {"cables.json"}, compliance |-> {"compliance.json"},
   transient |-> {"transient.json"}, conducted |-> {"conducted.json"}]

\* The last place at which a kind looks for a stop.
LastLook(k) ==
  CHOOSE p \in DOMAIN STAGES[k] :
    /\ STAGES[k][p] \in {"post", "check"}
    /\ \A q \in DOMAIN STAGES[k] : STAGES[k][q] \in {"post", "check"} => q <= p

At(place) == ending = "" /\ STAGES[kind][pos] = place
Advance == pos' = pos + 1 /\ items' = 0
End(how) == ending' = how /\ UNCHANGED << pos, items >>
Raise(how) ==
  /\ End(how)
  /\ UNCHANGED << files, manifest, written, usable, uploaded >>
Nothing == UNCHANGED << files, manifest, written, usable, uploaded, ending >>
Settings == UNCHANGED << kind, opts, asked >>

-----------------------------------------------------------------------------
Init ==
  /\ MonitorInit
  /\ kind \in DOMAIN STAGES
  /\ opts \in [small : BOOLEAN, cables : BOOLEAN, far : BOOLEAN]
  /\ kind # "solve" => ~opts.small /\ ~opts.cables /\ ~opts.far
  /\ opts.small => ~opts.cables /\ ~opts.far    \* small_part.apply refuses both
  /\ kind # "solve" => abortFile = FALSE
  /\ pos = 1 /\ items = 0
  /\ files = IF kind = "solve" THEN {} ELSE Artifacts[kind]
  /\ manifest = {} /\ written = {} /\ usable = {} /\ uploaded = {}
  /\ asked = FALSE /\ ending = ""

\* StageContext.check_stop.
CheckStop ==
  /\ At("check")
  /\ IF shouldStop THEN Raise("stopped") ELSE Advance /\ Nothing
  /\ Settings /\ UNCHANGED monitorVars

\* Mutant: progress posts without looking for a stop.
ProgressOnly ==
  /\ At("post") \/ At("maybe")
  /\ (Advance /\ Nothing) \/ Raise("reassigned")
  /\ Settings /\ UNCHANGED monitorVars

\* StageContext.progress: a failing post is swallowed, a lost run is not.
Progress ==
  /\ At("post") \/ At("maybe")
  /\ IF shouldStop THEN Raise("stopped")
     ELSE (Advance /\ Nothing) \/ Raise("reassigned")
  /\ Settings /\ UNCHANGED monitorVars

SkipProgress ==
  /\ At("maybe") /\ Advance /\ Nothing /\ Settings /\ UNCHANGED monitorVars

\* Client.progress, which a solve calls beside the context at the mesh stage.
Tell ==
  /\ At("tell")
  /\ (Advance /\ Nothing) \/ Raise("reassigned")
  /\ Settings /\ UNCHANGED monitorVars

Ask ==
  /\ At("ask")
  /\ (Advance /\ Nothing) \/ Raise("failed") \/ Raise("reassigned")
  /\ Settings /\ UNCHANGED monitorVars

Try ==
  /\ At("try")
  /\ (Advance /\ Nothing) \/ Raise("failed")
  /\ Settings /\ UNCHANGED monitorVars

\* One cable, exposed line or regulator, or the end of them.
EachItem ==
  /\ At("each")
  /\ \/ /\ items < MaxItems
        /\ IF shouldStop THEN Raise("stopped")
           ELSE \/ items' = items + 1 /\ UNCHANGED pos /\ Nothing
                \/ Raise("reassigned")
                \/ kind # "transient" /\ Raise("failed")
     \/ Advance /\ Nothing
  /\ Settings /\ UNCHANGED monitorVars

-----------------------------------------------------------------------------
\* run_openems inside run_solve: StartEngine up to its verdict.
Engine ==
  /\ At("engine")
  /\ \/ StartEngine \/ ReadHeader \/ SeeStop \/ EngineEnds \/ JudgeRun
     \/ \E stride \in Strides, level \in Levels : ReadReport(stride, level)
  /\ UNCHANGED stageVars

\* on_progress posts through the context.
EngineRaises ==
  /\ At("engine")
  /\ \E stride \in Strides, level \in Levels : ProgressRaises(stride, level)
  /\ Raise(IF shouldStop' THEN "stopped" ELSE "reassigned")
  /\ asked' = shouldStop'
  /\ UNCHANGED << kind, opts >>

EngineLeft ==
  /\ At("engine") /\ verdict # ""
  /\ CASE verdict = "result" -> Advance /\ Nothing
       [] verdict = "stopped" -> Raise("stopped")
       [] OTHER -> Raise("failed")
  /\ Settings /\ UNCHANGED monitorVars

\* post.build_artifacts: the maps and port spectra and, for the connectors
\* whose probe can be read, the cable transfer functions.  Refused when no
\* field dump was written.  manifest.json is rendered here.
BuildArtifacts ==
  /\ At("collect")
  /\ \/ \E transfers \in (IF opts.cables THEN {{}, {"cable_ports.json"}} ELSE {{}}) :
          LET derived == {"ports.json"} \cup transfers
          IN  /\ files' = {"maps", "sparams.json", "manifest.json"} \cup derived
              /\ usable' = IF Converged THEN derived ELSE {}
        /\ Advance /\ UNCHANGED << manifest, written, uploaded, ending >>
     \/ Raise("failed")
  /\ Settings /\ UNCHANGED monitorVars

\* Mutant: an entry is added to the manifest after it was rendered.
RewriteInMemory(added) == manifest' = manifest \cup added /\ UNCHANGED written

Rewrite(added) == manifest' = manifest \cup added /\ written' = manifest'

\* Mutant: a network that could not be worked out is marked usable.
AddNetworkUnfiled ==
  /\ At("network") /\ Advance
  /\ IF ~opts.small THEN Nothing
     ELSE /\ Rewrite({"network_note"}) /\ UNCHANGED files
          /\ usable' = IF Converged THEN usable \cup {"network.json"} ELSE usable
          /\ UNCHANGED << uploaded, ending >>
  /\ Settings /\ UNCHANGED monitorVars

\* small_part.add_hotspots, whose list may be left out, and add_network.
AddNetwork ==
  /\ At("network") /\ Advance
  /\ IF ~opts.small THEN Nothing
     ELSE /\ \/ /\ files' = files \cup {"network.json"}
                /\ usable' \in {usable, IF Converged THEN usable \cup {"network.json"} ELSE usable}
                /\ Rewrite({"network"})
             \/ Rewrite({"network_note"}) /\ UNCHANGED << files, usable >>
          /\ UNCHANGED << uploaded, ending >>
  /\ Settings /\ UNCHANGED monitorVars

\* _add_antenna_terms: no solver, or none of its runs succeeds, is noted in
\* the manifest in memory; only terms that were computed render it again.
AddAntennaTerms ==
  /\ At("antenna") /\ Advance
  /\ IF "cable_ports.json" \notin files THEN Nothing
     ELSE /\ \/ manifest' = manifest \cup {"antenna_note"} /\ UNCHANGED << files, written >>
             \/ /\ files' = files \cup {"cable_antenna.json"}
                /\ \E note \in {{}, {"antenna_note"}} : Rewrite(note \cup {"antenna"})
          /\ UNCHANGED << usable, uploaded, ending >>
  /\ Settings /\ UNCHANGED monitorVars

\* _add_far_field, which posts before it works.
AddFarField ==
  /\ At("farfield")
  /\ IF ~opts.far THEN Advance /\ Nothing
     ELSE IF shouldStop THEN Raise("stopped")
     ELSE \/ Raise("reassigned")
          \/ /\ Advance
             /\ \/ Rewrite({"far_field_note"}) /\ UNCHANGED << files, usable >>
                \/ /\ files' = files \cup {"farfield.json"}
                   /\ usable' \in {usable, IF Converged THEN usable \cup {"farfield.json"} ELSE usable}
                   /\ Rewrite({"far_field"})
             /\ UNCHANGED << uploaded, ending >>
  /\ Settings /\ UNCHANGED monitorVars

-----------------------------------------------------------------------------
ToUpload == files \cup (IF kind = "solve" THEN {"solver.log"} ELSE {})

\* client.upload_artifact, one after the other; the solver's log is the last.
Following == LET left == ToUpload \ uploaded
             IN  CHOOSE f \in left : f = "solver.log" => left = {f}

UploadArtifact ==
  /\ At("upload")
  /\ \/ /\ ~(ToUpload \subseteq uploaded)
        /\ uploaded' = uploaded \cup {Following}
        /\ UNCHANGED << pos, items, files, manifest, written, usable, ending >>
     \/ ToUpload \subseteq uploaded /\ Advance /\ Nothing
     \/ Raise("failed") \/ Raise("reassigned")
  /\ Settings /\ UNCHANGED monitorVars

Return ==
  /\ At("return") /\ Raise("done") /\ Settings /\ UNCHANGED monitorVars

Stop ==
  /\ ending = "" /\ AskToStop /\ asked' = (pos <= LastLook(kind))
  /\ UNCHANGED << kind, opts, pos, items, files, manifest, written, usable, uploaded, ending >>

Orphan == OrphanEnds /\ UNCHANGED stageVars

StageStep ==
  \/ CheckStop \/ Progress \/ SkipProgress \/ Tell \/ Ask \/ Try \/ EachItem
  \/ EngineLeft \/ BuildArtifacts \/ AddNetwork \/ AddAntennaTerms
  \/ AddFarField \/ UploadArtifact \/ Return

Next == StageStep \/ Engine \/ EngineRaises \/ Stop \/ Orphan

\* The worker's thread runs on; openEMS prints line after line, so a loop
\* that is to see a stop, and a writer without a reader, come to it.  Nothing
\* makes openEMS settle or end.
Spec ==
  /\ Init /\ [][Next]_vars
  /\ WF_vars(StageStep)
  /\ WF_vars(At("engine") /\ (StartEngine \/ SeeStop \/ JudgeRun) /\ UNCHANGED stageVars)
  /\ WF_vars(Orphan)

-----------------------------------------------------------------------------
\* The reports from i to k are all after the source and below the limit, and
\* the one before i is not: the dip that k belongs to begins at i.
Dip(i, k) ==
  LET quiet(j) == log[j].step > SourceDone /\ log[j].db <= -StopBelow
  IN  /\ i <= k /\ \A j \in i..k : quiet(j)
      /\ i = 1 \/ ~quiet(i - 1)

\* The end criterion as the comments of run.py state it: enough reports in a
\* row, over enough simulated time, and not climbing.
MeetsEndCriterion(k) ==
  /\ SourceDone > 0
  /\ \E i \in 1..k :
       /\ Dip(i, k)
       /\ k - i + 1 >= HoldReadings
       /\ dt => log[k].step - log[i].step >= HoldSpan
       /\ log[k].db <= log[i].db

\* openEMS is asked to stop at a report that meets the end criterion and at no
\* other, however its energy dipped before; and it never stops on an ABORT
\* that a worker before this one left behind.
AbortIsEarned ==
  /\ abortedAt # 0 => \E k \in DOMAIN log : log[k].step = abortedAt /\ MeetsEndCriterion(k)
  /\ engine = "aborted" => abortedAt # 0

\* A result whose energy climbed by the divergence ratio after its source had
\* ended is never handed on, wherever in the log the climb is.
NoClimbIsPublished ==
  (verdict = "result" /\ excitation > 0 /\ Len(log) >= 3) =>
    \A i, j \in DOMAIN log :
      (i < j /\ log[i].step >= excitation) => log[j].level - log[i].level < DivergenceRise

\* A number is marked usable only if the run was stopped on a decay that meets
\* the end criterion, after its source: never at its cap, never in a dip
\* between two lobes of the source.
UsableMeansSettled ==
  usable # {} =>
    /\ \E k \in DOMAIN log : log[k].step = abortedAt /\ MeetsEndCriterion(k)
    /\ finalStep >= excitation

\* A run that is recorded as done has put everything its kind promises, and
\* the manifest that was put says of each optional artifact whether it is
\* there.
DoneIsWhole ==
  ending = "done" =>
    /\ ToUpload \subseteq uploaded
    /\ kind # "solve" => Artifacts[kind] \subseteq uploaded
    /\ kind = "solve" =>
         /\ {"maps", "manifest.json", "solver.log"} \subseteq uploaded
         /\ ("network" \in written) = ("network.json" \in uploaded)
         /\ ("far_field" \in written) = ("farfield.json" \in uploaded)
         /\ ("antenna" \in written) = ("cable_antenna.json" \in uploaded)
         /\ opts.small => {"network", "network_note"} \cap written # {}
         /\ opts.far => {"far_field", "far_field_note"} \cap written # {}

\* A run that somebody asked to stop before its last look is not done.
StoppedIsNotDone ==
  ~(ending = "done" /\ asked)

\* A stop ends the stage and the simulator, though nothing else would.
StopTakesEffect == shouldStop ~> (ending # "" /\ engine # "runs")

=============================================================================
