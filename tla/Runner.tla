-------------------------------- MODULE Runner --------------------------------
(***************************************************************************)
(* The worker process (worker/emi_worker/runner.py, client.py) composed    *)
(* with the control plane of RunControl: discovery, the de-duplicated      *)
(* queue, the work threads with every request they make, stop requests     *)
(* pushed over the WebSocket, requests that fail or whose answer is lost,  *)
(* and a worker process that dies and is started again.                    *)
(*                                                                         *)
(* A thread that waits for an answer is matched with its request by the    *)
(* jti both carry.  A request a thread has given up on stays in `calls`:   *)
(* the server may still carry it out.                                      *)
(***************************************************************************)
EXTENDS RunControl, Sequences

CONSTANTS MaxConcurrent,  \* cfg.max_concurrent: work threads per worker
          NoRun,          \* the job of an idle thread
          MaxFaults,      \* bound: requests that fail without an answer from the handler
          MaxCrashes      \* bound: times a worker process is killed

ASSUME RunnerAssumption ==
    /\ MaxConcurrent \in Nat \ {0}
    /\ NoRun \notin Runs
    /\ MaxFaults \in Nat
    /\ MaxCrashes \in Nat

VARIABLES queue,    \* Worker._queue
          seen,     \* Worker._seen
          stopReq,  \* Worker._stop_requested
          pc,       \* where each work thread is in _execute and _run_claimed
          job,      \* the run it works on
          tok,      \* the jti of its RunToken; while minting, of the request
          offers,   \* runs on their way to a worker: a pushed new_run or a poll's answer
          stops,    \* stop_run messages on their way to a worker
          faults, crashes

workerVars == <<queue, seen, stopReq, pc, job, tok, offers, stops>>
allVars == <<vars, workerVars, faults, crashes>>

Threads == Workers \X (1 .. MaxConcurrent)
WorkerOf(t) == t[1]

Waiting == {"minting", "posting", "completing", "failing"}
InStage == {"stage", "posting", "put"}
Holding == {"claim", "complete", "completing", "fail", "failing"} \cup InStage

RunnerTypeOK ==
    /\ TypeOK
    /\ queue \in [Workers -> Seq(Runs)]
    /\ seen \in [Workers -> SUBSET Runs]
    /\ stopReq \in [Workers -> SUBSET Runs]
    /\ pc \in [Threads -> {"idle", "mint"} \cup Waiting \cup Holding]
    /\ job \in [Threads -> Runs \cup {NoRun}]
    /\ tok \in [Threads -> {NoId} \cup Ids]
    /\ offers \subseteq Workers \X Runs
    /\ stops \subseteq Workers \X Runs
    /\ faults \in 0 .. MaxFaults
    /\ crashes \in 0 .. MaxCrashes

RunnerInit ==
    /\ Init
    /\ queue = [w \in Workers |-> <<>>]
    /\ seen = [w \in Workers |-> {}]
    /\ stopReq = [w \in Workers |-> {}]
    /\ pc = [t \in Threads |-> "idle"]
    /\ job = [t \in Threads |-> NoRun]
    /\ tok = [t \in Threads |-> NoId]
    /\ offers = {}
    /\ stops = {}
    /\ faults = 0
    /\ crashes = 0

-------------------------------------------------------------------------------
(* Discovery: a push or a poll offers a run, _enqueue decides. *)

OfferRun(w, r) ==
    /\ status[r] \in Claimable
    /\ <<w, r>> \notin offers
    /\ offers' = offers \cup {<<w, r>>}
    /\ UNCHANGED <<vars, queue, seen, stopReq, pc, job, tok, stops, faults, crashes>>

\* Mutant: a push and a poll are not de-duplicated.
EnqueueTwice(w, r) ==
    /\ queue' = [queue EXCEPT ![w] = Append(@, r)]
    /\ seen' = [seen EXCEPT ![w] = @ \cup {r}]

Enqueue(w, r) ==
    IF r \in seen[w]
    THEN UNCHANGED <<queue, seen>>
    ELSE /\ queue' = [queue EXCEPT ![w] = Append(@, r)]
         /\ seen' = [seen EXCEPT ![w] = @ \cup {r}]

DeliverOffer(w, r) ==
    /\ <<w, r>> \in offers
    /\ offers' = offers \ {<<w, r>>}
    /\ Enqueue(w, r)
    /\ UNCHANGED <<vars, stopReq, pc, job, tok, stops, faults, crashes>>

-------------------------------------------------------------------------------
(* Stop requests. *)

\* Mutant: a run that ended in the queue is pushed too.
StopAnyRun(r) ==
    /\ RequestStop(r)
    /\ stops' \in {stops, stops \cup {<<owner[r], r>>}}
    /\ UNCHANGED <<queue, seen, stopReq, pc, job, tok, offers, faults, crashes>>

\* handleStopRun: the row is marked first; the push that follows reaches the
\* owner's socket only if it is connected.
StopRun(r) ==
    /\ RequestStop(r)
    /\ stops' \in {stops} \cup
          {stops \cup {<<w, r>>} : w \in {x \in {owner[r]} : status'[r] = "stopping"}}
    /\ UNCHANGED <<queue, seen, stopReq, pc, job, tok, offers, faults, crashes>>

DeliverStop(w, r) ==
    /\ <<w, r>> \in stops
    /\ stops' = stops \ {<<w, r>>}
    /\ stopReq' = [stopReq EXCEPT ![w] = @ \cup {r}]
    /\ UNCHANGED <<vars, queue, seen, pc, job, tok, offers, faults, crashes>>

-------------------------------------------------------------------------------
(* Steps of a work thread.  Go and Finish set pc, job, tok and seen; the     *)
(* stop flag is dropped by the finally of _run_claimed, when a thread leaves *)
(* the stage.                                                                *)

Go(t, place) ==
    /\ pc' = [pc EXCEPT ![t] = place]
    /\ UNCHANGED <<job, tok, seen>>

\* Mutant: the run stays in _seen.
FinishRemembering(t) ==
    /\ pc' = [pc EXCEPT ![t] = "idle"]
    /\ job' = [job EXCEPT ![t] = NoRun]
    /\ tok' = [tok EXCEPT ![t] = NoId]
    /\ UNCHANGED seen

\* The finally of _work_loop.
Finish(t) ==
    /\ pc' = [pc EXCEPT ![t] = "idle"]
    /\ job' = [job EXCEPT ![t] = NoRun]
    /\ tok' = [tok EXCEPT ![t] = NoId]
    /\ seen' = [seen EXCEPT ![WorkerOf(t)] = @ \ {job[t]}]

DropStop(t) == stopReq' = [stopReq EXCEPT ![WorkerOf(t)] = @ \ {job[t]}]

Holds(t) == Token(WorkerOf(t), job[t], tok[t])
StillHolds(t) == jti[job[t]] = tok[t]
StopSeen(t) == job[t] \in stopReq[WorkerOf(t)]

TakeJob(t) ==
    /\ pc[t] = "idle"
    /\ queue[WorkerOf(t)] # <<>>
    /\ queue' = [queue EXCEPT ![WorkerOf(t)] = Tail(@)]
    /\ pc' = [pc EXCEPT ![t] = "mint"]
    /\ job' = [job EXCEPT ![t] = Head(queue[WorkerOf(t)])]
    /\ UNCHANGED <<vars, seen, stopReq, tok, offers, stops, faults, crashes>>

\* mint_run_token: the handler refuses a run that has ended or is somebody
\* else's (409), answers a holder at once, and otherwise goes on to ClaimRun.
Mint(t) ==
    LET r == job[t]  w == WorkerOf(t) IN
    /\ pc[t] = "mint"
    /\ \/ /\ MintRunToken(w, r)
          /\ pc' = [pc EXCEPT ![t] = "minting"]
          /\ tok' = [tok EXCEPT ![t] = lastId']
          /\ UNCHANGED <<job, seen>>
       \/ /\ ReissueToken(w, r)
          /\ pc' = [pc EXCEPT ![t] = "claim"]
          /\ tok' = [tok EXCEPT ![t] = jti[r]]
          /\ UNCHANGED <<job, seen>>
       \/ /\ status[r] \in Terminal \/ (status[r] \in Active /\ owner[r] # w)
          /\ Finish(t)
          /\ UNCHANGED vars
    /\ UNCHANGED <<queue, stopReq, offers, stops, faults, crashes>>

\* client.claim only confirms the token: 409 sends the thread away.
ConfirmClaim(t) ==
    /\ pc[t] = "claim"
    /\ IF StillHolds(t) THEN Go(t, "stage") ELSE Finish(t)
    /\ UNCHANGED <<vars, queue, stopReq, offers, stops, faults, crashes>>

\* ctx.progress checks for a stop before it posts, and a 409 ends the stage.
PostProgress(t) ==
    /\ pc[t] = "stage"
    /\ ~ StopSeen(t)
    /\ IF StillHolds(t)
       THEN BeginCall(Holds(t), "progress") /\ Go(t, "posting") /\ UNCHANGED stopReq
       ELSE UNCHANGED vars /\ Finish(t) /\ DropStop(t)
    /\ UNCHANGED <<queue, offers, stops, faults, crashes>>

\* Mutant: a stage that was stopped or raised is only logged.
EndStageSilently(t) ==
    /\ pc[t] = "stage"
    /\ Finish(t)
    /\ DropStop(t)
    /\ UNCHANGED <<vars, queue, offers, stops, faults, crashes>>

\* ctx.check_stop raises Stopped, or the stage raises StageError.
EndStage(t) ==
    /\ pc[t] = "stage"
    /\ Go(t, "fail")
    /\ DropStop(t)
    /\ UNCHANGED <<vars, queue, offers, stops, faults, crashes>>

\* upload_artifact, first half: the server signs the PUT.
InitUpload(t) ==
    /\ pc[t] = "stage"
    /\ IF StillHolds(t)
       THEN ArtifactUploadInit(Holds(t)) /\ Go(t, "put") /\ UNCHANGED stopReq
       ELSE UNCHANGED vars /\ Finish(t) /\ DropStop(t)
    /\ UNCHANGED <<queue, offers, stops, faults, crashes>>

\* Second half, straight to storage, and the stage returns its result.
Upload(t) ==
    LET u == [run |-> job[t], jti |-> tok[t]] IN
    /\ pc[t] = "put"
    /\ IF u \in urls
       THEN PutArtifact(u) /\ Go(t, "complete")
       ELSE UNCHANGED vars /\ Go(t, "fail")
    /\ DropStop(t)
    /\ UNCHANGED <<queue, offers, stops, faults, crashes>>

\* complete("done"): any ServerError, a 409 included, is only logged.
ReportDone(t) ==
    /\ pc[t] = "complete"
    /\ IF StillHolds(t)
       THEN BeginCall(Holds(t), "done") /\ Go(t, "completing")
       ELSE UNCHANGED vars /\ Finish(t)
    /\ UNCHANGED <<queue, stopReq, offers, stops, faults, crashes>>

\* _fail: one attempt to end the run, whatever comes of it.
ReportFailed(t) ==
    /\ pc[t] = "fail"
    /\ IF StillHolds(t)
       THEN BeginCall(Holds(t), "failed") /\ Go(t, "failing")
       ELSE UNCHANGED vars /\ Finish(t)
    /\ UNCHANGED <<queue, stopReq, offers, stops, faults, crashes>>

-------------------------------------------------------------------------------
(* The server answers, or does not. *)

Waits(t, c) ==
    /\ WorkerOf(t) = c.worker /\ job[t] = c.run /\ tok[t] = c.jti
    /\ pc[t] = CASE c.op = "mint" -> "minting" [] c.op = "progress" -> "posting"
                 [] c.op = "done" -> "completing" [] c.op = "failed" -> "failing"

AnswerMint(t, c) ==
    /\ ClaimRun(c)
    /\ IF status[c.run] \in Claimable THEN Go(t, "claim") ELSE Finish(t)
    /\ UNCHANGED stopReq

AnswerProgress(t, c) ==
    /\ UpdateRunProgress(c)
    /\ IF status[c.run] \in Active
       THEN Go(t, "stage") /\ UNCHANGED stopReq
       ELSE Finish(t) /\ DropStop(t)

AnswerComplete(t, c) == CompleteRun(c) /\ Finish(t) /\ UNCHANGED stopReq

Answer(c) ==
    /\ \E t \in Threads :
          Waits(t, c) /\ (AnswerMint(t, c) \/ AnswerProgress(t, c) \/ AnswerComplete(t, c))
    /\ UNCHANGED <<queue, offers, stops, faults, crashes>>

\* Nobody waits for the answer any more.
ServeUnattended(c) ==
    /\ \A t \in Threads : ~ Waits(t, c)
    /\ ClaimRun(c) \/ UpdateRunProgress(c) \/ CompleteRun(c) \/ FailCall(c)
    /\ UNCHANGED <<workerVars, faults, crashes>>

Fault == faults < MaxFaults /\ faults' = faults + 1

\* The store fails and the handler answers 500.  A progress post swallows it; a
\* completion logs it.
AnswerError(c) ==
    /\ Fault
    /\ FailCall(c)
    /\ \E t \in Threads :
          /\ Waits(t, c)
          /\ IF c.op = "progress" THEN Go(t, "stage") ELSE Finish(t)
    /\ UNCHANGED <<queue, stopReq, offers, stops, crashes>>

\* The transport raises: no connection, or no answer within the timeout.  From
\* a completion or a stage it reaches _fail; from mint and claim it escapes
\* _execute.
GiveUp(t) ==
    /\ Fault
    /\ \/ pc[t] \in {"mint", "minting", "claim", "failing"} /\ Finish(t) /\ UNCHANGED stopReq
       \/ pc[t] = "posting" /\ Go(t, "stage") /\ UNCHANGED stopReq
       \/ pc[t] = "put" /\ Go(t, "fail") /\ DropStop(t)
       \/ pc[t] = "completing" /\ Go(t, "fail") /\ UNCHANGED stopReq
    /\ \/ UNCHANGED vars
       \/ \E u \in urls : /\ pc[t] = "put" /\ u = [run |-> job[t], jti |-> tok[t]]
                         /\ PutArtifact(u)
    /\ UNCHANGED <<queue, offers, stops, crashes>>

\* The process is killed and started again: nothing of it is kept.
Crash(w) ==
    /\ crashes < MaxCrashes
    /\ crashes' = crashes + 1
    /\ queue' = [queue EXCEPT ![w] = <<>>]
    /\ seen' = [seen EXCEPT ![w] = {}]
    /\ stopReq' = [stopReq EXCEPT ![w] = {}]
    /\ pc' = [t \in Threads |-> IF WorkerOf(t) = w THEN "idle" ELSE pc[t]]
    /\ job' = [t \in Threads |-> IF WorkerOf(t) = w THEN NoRun ELSE job[t]]
    /\ tok' = [t \in Threads |-> IF WorkerOf(t) = w THEN NoId ELSE tok[t]]
    /\ offers' = {o \in offers : o[1] # w}
    /\ stops' = {s \in stops : s[1] # w}
    /\ UNCHANGED <<vars, faults>>

-------------------------------------------------------------------------------

ThreadStep(t) ==
    \/ TakeJob(t) \/ Mint(t) \/ ConfirmClaim(t)
    \/ PostProgress(t) \/ EndStage(t) \/ InitUpload(t) \/ Upload(t)
    \/ ReportDone(t) \/ ReportFailed(t)

ServerStep ==
    /\ \/ \E r \in Runs : CreateRun(r) \/ RetryRun(r) \/ AgeClaim(r)
       \/ SweepTimedOut
       \/ \E u \in urls : ExpireUrl(u)
    /\ UNCHANGED <<workerVars, faults, crashes>>

RunnerNext ==
    \/ \E w \in Workers, r \in Runs :
          OfferRun(w, r) \/ DeliverOffer(w, r) \/ DeliverStop(w, r)
    \/ \E r \in Runs : StopRun(r)
    \/ \E t \in Threads : ThreadStep(t) \/ GiveUp(t)
    \/ \E c \in calls : Answer(c) \/ ServeUnattended(c) \/ AnswerError(c)
    \/ \E w \in Workers : Crash(w)
    \/ ServerStep

RunnerSpec == RunnerInit /\ [][RunnerNext]_allVars

AnswerTo(t) == \E c \in calls : Waits(t, c) /\ Answer(c)

\* The poll loop keeps asking, threads and the server keep running, and a stage
\* is a finite computation: however often it posts progress, it ends.  Nothing
\* obliges a user to act, a clock to pass the run timeout, or a call to fail.
RunnerFairSpec ==
    /\ RunnerSpec
    /\ \A w \in Workers, r \in Runs :
          WF_allVars(OfferRun(w, r)) /\ WF_allVars(DeliverOffer(w, r))
    /\ \A t \in Threads :
          /\ WF_allVars(TakeJob(t)) /\ WF_allVars(Mint(t)) /\ WF_allVars(ConfirmClaim(t))
          /\ SF_allVars(EndStage(t) \/ InitUpload(t))
          /\ WF_allVars(Upload(t)) /\ WF_allVars(ReportDone(t)) /\ WF_allVars(ReportFailed(t))
          /\ WF_allVars(AnswerTo(t))
    /\ WF_allVars(\E c \in calls : ServeUnattended(c))

-------------------------------------------------------------------------------
(* What must hold. *)

WorksOn(t, r) == pc[t] \in Holding /\ job[t] = r /\ tok[t] = jti[r]

\* Claiming a run twice "would mean two threads solving the same thing"
\* (_enqueue): an attempt is never worked on by two threads at once, not even
\* when a late offer makes the holder mint again.
OneThreadPerAttempt ==
    \A r \in Runs, t1, t2 \in Threads : WorksOn(t1, r) /\ WorksOn(t2, r) => t1 = t2

\* While every request is answered by its handler and no process dies, a run
\* that is in progress is in progress somewhere: no path out of a work thread
\* leaves it to the sweeper (runner.py: "Always finish a run it started").
StartedRunIsWorkedOn ==
    \A r \in Runs :
        faults = 0 /\ crashes = 0 /\ status[r] \in Active => \E t \in Threads : WorksOn(t, r)

\* A run that waits is claimed, whatever the workers did with it before.
WaitingRunIsTaken ==
    \A r \in Runs : status[r] \in Claimable ~> status[r] \notin Claimable \/ lastId = MaxIds

\* A run that was claimed ends by the worker's own doing; the sweeper and the
\* run timeout are not needed when nothing fails, a lost stop push included.
WorkerEndsItsRuns ==
    \A r \in Runs : status[r] \in Active ~> status[r] \notin Active

===============================================================================
