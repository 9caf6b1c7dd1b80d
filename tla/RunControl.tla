------------------------------ MODULE RunControl ------------------------------
(***************************************************************************)
(* The control plane's side of a run: the emi_runs row, the run tokens     *)
(* that name it, the handlers a worker and a user call on it, the sweeper  *)
(* and a restart of the server.                                            *)
(*                                                                         *)
(* Every store operation is one SQL statement or transaction, so it is one *)
(* step.  A handler that reads the row, decides, and then calls the store  *)
(* is two steps: the read leaves a call in `calls`, the store operation    *)
(* takes it out, and anything may happen in between.  Workers are any      *)
(* holders of tokens here; what the real worker process does with them is  *)
(* module Runner.                                                          *)
(*                                                                         *)
(* Data is abstracted to the claim it came from: `progress`, `summary` and *)
(* `blob` hold the jti of the attempt that wrote the last progress post,   *)
(* the recorded result (summary and artifact rows), and the bytes stored   *)
(* under the run's artifact key.                                           *)
(***************************************************************************)
EXTENDS Naturals, FiniteSets

CONSTANTS Runs,      \* run ids
          Workers,   \* worker key ids (kid)
          NoWorker,  \* NULL in owner_api_key_kid
          LocalApp,  \* TRUE for emi-local, which fails interrupted runs at startup
          MaxIds,    \* bound: ids newID may hand out as jti
          MaxCalls   \* bound: requests between authentication and their store step

ASSUME RunControlAssumption ==
    /\ NoWorker \notin Workers
    /\ LocalApp \in BOOLEAN
    /\ MaxIds \in Nat
    /\ MaxCalls \in Nat

VARIABLES status,    \* emi_runs.status, "absent" while there is no row
          owner,     \* emi_runs.owner_api_key_kid
          jti,       \* emi_runs.jti_key, NoId for NULL
          overdue,   \* runs whose claimed_at is older than the run timeout
          progress,  \* emi_runs.progress
          summary,   \* emi_runs.summary and the emi_artifacts row
          blob,      \* object storage at the run's artifact key
          lastId,    \* the newest id of newID
          tokens,    \* run tokens in workers' hands that have not expired
          urls,      \* presigned PUT URLs that have not expired
          calls      \* requests whose row check is done and whose store step is not

rowVars == <<status, owner, jti, overdue, progress, summary>>
vars == <<rowVars, blob, lastId, tokens, urls, calls>>

-------------------------------------------------------------------------------

NoId == 0
Ids == 1 .. MaxIds

Claimable == {"new", "retry_pending"}
Active == {"in_progress", "stopping"}
Terminal == {"done", "failed", "timed_out"}
Retryable == {"failed", "timed_out"}
Statuses == {"absent"} \cup Claimable \cup Active \cup Terminal

Tokens == [worker : Workers, run : Runs, jti : Ids]
Urls == [run : Runs, jti : Ids]
CallOps == {"mint", "progress", "done", "failed"}
Calls == [op : CallOps, worker : Workers, run : Runs, jti : Ids]

TypeOK ==
    /\ status \in [Runs -> Statuses]
    /\ owner \in [Runs -> Workers \cup {NoWorker}]
    /\ jti \in [Runs -> {NoId} \cup Ids]
    /\ overdue \subseteq Runs
    /\ progress \in [Runs -> {NoId} \cup Ids]
    /\ summary \in [Runs -> {NoId} \cup Ids]
    /\ blob \in [Runs -> {NoId} \cup Ids]
    /\ lastId \in {NoId} \cup Ids
    /\ tokens \subseteq Tokens
    /\ urls \subseteq Urls
    /\ calls \subseteq Calls

Init ==
    /\ status = [r \in Runs |-> "absent"]
    /\ owner = [r \in Runs |-> NoWorker]
    /\ jti = [r \in Runs |-> NoId]
    /\ overdue = {}
    /\ progress = [r \in Runs |-> NoId]
    /\ summary = [r \in Runs |-> NoId]
    /\ blob = [r \in Runs |-> NoId]
    /\ lastId = NoId
    /\ tokens = {}
    /\ urls = {}
    /\ calls = {}

-------------------------------------------------------------------------------
(* The user's handlers. *)

CreateRun(r) ==
    /\ status[r] = "absent"
    /\ status' = [status EXCEPT ![r] = "new"]
    /\ UNCHANGED <<owner, jti, overdue, progress, summary, blob, lastId, tokens, urls, calls>>

\* Mutant: a queued run is given a status of its own.
RequestStopNamed(r) ==
    /\ status[r] \in Claimable \cup {"in_progress"}
    /\ status' = [status EXCEPT ![r] = IF @ = "in_progress" THEN "stopping" ELSE "stopped"]
    /\ UNCHANGED <<owner, jti, overdue, progress, summary, blob, lastId, tokens, urls, calls>>

\* A queued run ends at once, a running one is asked to stop.
RequestStop(r) ==
    /\ status[r] \in Claimable \cup {"in_progress"}
    /\ status' = [status EXCEPT ![r] = IF @ = "in_progress" THEN "stopping" ELSE "failed"]
    /\ UNCHANGED <<owner, jti, overdue, progress, summary, blob, lastId, tokens, urls, calls>>

\* Mutant: the claim is left on the row.
RetryRunKeepingClaim(r) ==
    /\ status[r] \in Retryable
    /\ status' = [status EXCEPT ![r] = "retry_pending"]
    /\ progress' = [progress EXCEPT ![r] = NoId]
    /\ UNCHANGED <<owner, jti, overdue, summary, blob, lastId, tokens, urls, calls>>

\* Takes the run away from whoever held it: no token names a NULL jti.
RetryRun(r) ==
    /\ status[r] \in Retryable
    /\ status' = [status EXCEPT ![r] = "retry_pending"]
    /\ owner' = [owner EXCEPT ![r] = NoWorker]
    /\ jti' = [jti EXCEPT ![r] = NoId]
    /\ overdue' = overdue \ {r}
    /\ progress' = [progress EXCEPT ![r] = NoId]
    /\ UNCHANGED <<summary, blob, lastId, tokens, urls, calls>>

-------------------------------------------------------------------------------
(* Worker-key handlers: minting a run token is what claims the run. *)

\* Mutant: the key is not compared.
HeldByAnyone(r, w) == jti[r] # NoId /\ status[r] \in Active

HeldBy(r, w) == owner[r] = w /\ jti[r] # NoId /\ status[r] \in Active

Token(w, r, id) == [worker |-> w, run |-> r, jti |-> id]

\* The token of a mint or refresh by the holder: same jti, new expiry.
ReissueToken(w, r) ==
    /\ HeldBy(r, w)
    /\ tokens' = tokens \cup {Token(w, r, jti[r])}
    /\ UNCHANGED <<rowVars, blob, lastId, urls, calls>>

Receive(c) ==
    /\ Cardinality(calls) < MaxCalls
    /\ calls' = calls \cup {c}

\* Mutant: every claim of every run is given the same jti.
MintStableJti(w, r) ==
    /\ status[r] \in Claimable \cup Active
    /\ ~ HeldBy(r, w)
    /\ ~ (owner[r] \notin {NoWorker, w} /\ status[r] \notin Claimable)
    /\ lastId' = 1
    /\ Receive([op |-> "mint", worker |-> w, run |-> r, jti |-> lastId'])
    /\ UNCHANGED <<rowVars, blob, tokens, urls>>

\* handleMintRunToken up to the ClaimRun call, for a run this key does not hold.
MintRunToken(w, r) ==
    /\ status[r] \in Claimable \cup Active
    /\ ~ HeldBy(r, w)
    /\ ~ (owner[r] \notin {NoWorker, w} /\ status[r] \notin Claimable)
    /\ lastId < MaxIds
    /\ lastId' = lastId + 1
    /\ Receive([op |-> "mint", worker |-> w, run |-> r, jti |-> lastId'])
    /\ UNCHANGED <<rowVars, blob, tokens, urls>>

\* Mutant: the UPDATE matches every run that has not ended.
ClaimUnfinished(c) ==
    /\ c.op = "mint"
    /\ calls' = calls \ {c}
    /\ IF status[c.run] \in Claimable \cup Active
       THEN /\ status' = [status EXCEPT ![c.run] = "in_progress"]
            /\ owner' = [owner EXCEPT ![c.run] = c.worker]
            /\ jti' = [jti EXCEPT ![c.run] = c.jti]
            /\ overdue' = overdue \ {c.run}
            /\ tokens' = tokens \cup {Token(c.worker, c.run, c.jti)}
            /\ UNCHANGED <<progress, summary>>
       ELSE UNCHANGED <<rowVars, tokens>>
    /\ UNCHANGED <<blob, lastId, urls>>

\* The conditional UPDATE and the token that answers it; a row that is no
\* longer claimable answers 409 and the id is never used.
ClaimRun(c) ==
    /\ c.op = "mint"
    /\ calls' = calls \ {c}
    /\ IF status[c.run] \in Claimable
       THEN /\ status' = [status EXCEPT ![c.run] = "in_progress"]
            /\ owner' = [owner EXCEPT ![c.run] = c.worker]
            /\ jti' = [jti EXCEPT ![c.run] = c.jti]
            /\ overdue' = overdue \ {c.run}
            /\ tokens' = tokens \cup {Token(c.worker, c.run, c.jti)}
            /\ UNCHANGED <<progress, summary>>
       ELSE UNCHANGED <<rowVars, tokens>>
    /\ UNCHANGED <<blob, lastId, urls>>

-------------------------------------------------------------------------------
(* Run-token handlers. *)

\* requireRunToken: the token names the run, and the row still has its jti.
Authorized(t) == t \in tokens /\ jti[t.run] # NoId /\ jti[t.run] = t.jti

BeginCall(t, op) ==
    /\ Authorized(t)
    /\ Receive([op |-> op, worker |-> t.worker, run |-> t.run, jti |-> t.jti])
    /\ UNCHANGED <<rowVars, blob, lastId, tokens, urls>>

\* Signs a PUT on runs/<run>/<name>; nothing is read or written after the check.
ArtifactUploadInit(t) ==
    /\ Authorized(t)
    /\ urls' = urls \cup {[run |-> t.run, jti |-> t.jti]}
    /\ UNCHANGED <<rowVars, blob, lastId, tokens, calls>>

UpdateRunProgress(c) ==
    /\ c.op = "progress"
    /\ calls' = calls \ {c}
    /\ progress' = IF status[c.run] \in Active
                   THEN [progress EXCEPT ![c.run] = c.jti] ELSE progress
    /\ UNCHANGED <<status, owner, jti, overdue, summary, blob, lastId, tokens, urls>>

\* Mutant: storage is not asked what landed.
CompleteUnverified(c) ==
    /\ c.op \in {"done", "failed"}
    /\ calls' = calls \ {c}
    /\ IF status[c.run] \in Active
       THEN /\ status' = [status EXCEPT ![c.run] = c.op]
            /\ summary' = IF c.op = "done" THEN [summary EXCEPT ![c.run] = c.jti] ELSE summary
       ELSE UNCHANGED <<status, summary>>
    /\ UNCHANGED <<owner, jti, overdue, progress, blob, lastId, tokens, urls>>

\* Mutant: the UPDATE has no status predicate.
CompleteUnconditionally(c) ==
    /\ c.op \in {"done", "failed"}
    /\ calls' = calls \ {c}
    /\ IF c.op = "done" => blob[c.run] # NoId
       THEN /\ status' = [status EXCEPT ![c.run] = c.op]
            /\ summary' = IF c.op = "done" THEN [summary EXCEPT ![c.run] = c.jti] ELSE summary
       ELSE UNCHANGED <<status, summary>>
    /\ UNCHANGED <<owner, jti, overdue, progress, blob, lastId, tokens, urls>>

\* A "done" names an artifact, which must be in storage (else 400); the row
\* must still be running (else 409).  A "failed" carries neither.
CompleteRun(c) ==
    /\ c.op \in {"done", "failed"}
    /\ calls' = calls \ {c}
    /\ IF status[c.run] \in Active /\ (c.op = "done" => blob[c.run] # NoId)
       THEN /\ status' = [status EXCEPT ![c.run] = c.op]
            /\ summary' = IF c.op = "done" THEN [summary EXCEPT ![c.run] = c.jti] ELSE summary
       ELSE UNCHANGED <<status, summary>>
    /\ UNCHANGED <<owner, jti, overdue, progress, blob, lastId, tokens, urls>>

\* The store answers an error, or the client hung up and its context is cancelled.
FailCall(c) ==
    /\ calls' = calls \ {c}
    /\ UNCHANGED <<rowVars, blob, lastId, tokens, urls>>

-------------------------------------------------------------------------------
(* Object storage, the passage of time, the sweeper and a restart. *)

PutArtifact(u) ==
    /\ blob' = [blob EXCEPT ![u.run] = u.jti]
    /\ UNCHANGED <<rowVars, lastId, tokens, urls, calls>>

ExpireUrl(u) ==
    /\ urls' = urls \ {u}
    /\ UNCHANGED <<rowVars, blob, lastId, tokens, calls>>

ExpireToken(t) ==
    /\ tokens' = tokens \ {t}
    /\ UNCHANGED <<rowVars, blob, lastId, urls, calls>>

AgeClaim(r) ==
    /\ status[r] \in Active
    /\ r \notin overdue
    /\ overdue' = overdue \cup {r}
    /\ UNCHANGED <<status, owner, jti, progress, summary, blob, lastId, tokens, urls, calls>>

\* Mutant: a run that is stopping is not swept.
TimedOutSolving == {r \in overdue : status[r] = "in_progress"}

TimedOut == {r \in overdue : status[r] \in Active}

SweepTimedOut ==
    /\ TimedOut # {}
    /\ status' = [r \in Runs |-> IF r \in TimedOut THEN "timed_out" ELSE status[r]]
    /\ UNCHANGED <<owner, jti, overdue, progress, summary, blob, lastId, tokens, urls, calls>>

\* Requests in the old process are gone.  The signing secret is on disk, so
\* tokens and URLs signed by the old process are still good.
FailInterrupted ==
    status' = [r \in Runs |-> IF status[r] \in Active THEN "failed" ELSE status[r]]

Restart ==
    /\ calls' = {}
    /\ IF LocalApp THEN FailInterrupted ELSE UNCHANGED status
    /\ UNCHANGED <<owner, jti, overdue, progress, summary, blob, lastId, tokens, urls>>

-------------------------------------------------------------------------------

UserStep == \E r \in Runs : CreateRun(r) \/ RequestStop(r) \/ RetryRun(r)

KeyStep == \E w \in Workers, r \in Runs : ReissueToken(w, r) \/ MintRunToken(w, r)

TokenStep ==
    \E t \in tokens :
        \/ \E op \in CallOps \ {"mint"} : BeginCall(t, op)
        \/ ArtifactUploadInit(t)
        \/ ExpireToken(t)

StoreStep ==
    \E c \in calls : ClaimRun(c) \/ UpdateRunProgress(c) \/ CompleteRun(c) \/ FailCall(c)

StorageStep == \E u \in urls : PutArtifact(u) \/ ExpireUrl(u)

ClockStep == SweepTimedOut \/ \E r \in Runs : AgeClaim(r)

Next == UserStep \/ KeyStep \/ TokenStep \/ StoreStep \/ StorageStep \/ ClockStep \/ Restart

Spec == Init /\ [][Next]_vars

\* Time passes and the sweeper's ticker keeps firing; nobody else owes a step.
FairSpec ==
    /\ Spec
    /\ WF_vars(SweepTimedOut)
    /\ \A r \in Runs : WF_vars(AgeClaim(r))

-------------------------------------------------------------------------------
(* What must hold. *)

\* requireRunToken lets through only the worker the row names: no mint or
\* refresh ever hands one worker's claim to another worker.
OnlyTheHolderIsAuthorized ==
    \A t \in tokens : Authorized(t) => owner[t.run] = t.worker

\* A run that waits for a worker takes no token at all, so the worker a retry
\* took it from can neither upload into it nor end it (auth.go, requireRunToken).
WaitingRunTakesNoToken ==
    \A t \in tokens : status[t.run] \in Claimable => ~ Authorized(t)

\* A recorded result is in storage: a worker that died in the middle of an
\* upload cannot record what is not there (handleCompleteRun).
RecordedResultIsUploaded ==
    \A r \in Runs : summary[r] # NoId => blob[r] # NoId

\* A late, repeated or superseded request changes nothing about a run that is
\* done: neither its status nor the attempt its result came from.
DoneIsFinal ==
    [][\A r \in Runs : status[r] = "done" =>
          status'[r] = "done" /\ summary'[r] = summary[r]]_vars

\* A token the row has moved away from never works again, whatever is retried,
\* claimed or refreshed after that: a retry takes a run away for good.
LostTokenStaysLost ==
    [][\A t \in tokens : t.jti # jti[t.run] => t.jti # jti'[t.run]]_vars

\* The result of a done run is the one its holder reported.  types.go says of
\* Completion that a retried run "must not gain artifacts, an estimate or a
\* parsed board from a worker that no longer holds it".
ResultIsTheHolders ==
    \A r \in Runs : status[r] = "done" => summary[r] = jti[r]

\* The refinement: a run's phase is its status, and its holder is the owner
\* column while somebody works on it.
Phase ==
    [r \in Runs |-> IF status[r] \in Claimable THEN "waiting" ELSE status[r]]

Holder == [r \in Runs |-> IF status[r] \in Active THEN owner[r] ELSE NoWorker]

Lifecycle == INSTANCE RunLifecycle WITH phase <- Phase, holder <- Holder

\* Every behaviour of the control plane is one the lifecycle allows.
ImplementsLifecycle == Lifecycle!SafeSpec

\* ... and with the sweeper running, every held run ends.
ImplementsFairLifecycle == Lifecycle!Spec

===============================================================================
