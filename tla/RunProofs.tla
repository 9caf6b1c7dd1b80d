------------------------------- MODULE RunProofs -------------------------------
(***************************************************************************)
(* Theorems about RunControl and about Runner, which composes it with its  *)
(* workers, for every set of runs, workers and keys and every bound.       *)
(*                                                                         *)
(* The control plane: one inductive invariant, IInv, the types, what each  *)
(* status says about the owner and jti columns, and that an id handed to a *)
(* claim that has not reached the store appears nowhere else.              *)
(*                                                                         *)
(* The composition: workers and control plane together take only steps the *)
(* control plane alone may take, so what is shown of any holder of tokens  *)
(* holds of the real worker, for every number of workers, threads,         *)
(* failures and crashes.  Of the workers themselves: no attempt has two    *)
(* threads, and without faults a started run always has one.               *)
(***************************************************************************)
EXTENDS Runner, TLAPS

-------------------------------------------------------------------------------
(* The inductive invariant. *)

\* The columns that name the holder are set while somebody works on the run
\* and empty while it waits.
RowInv ==
    \A r \in Runs :
        /\ status[r] \in Claimable \cup {"absent"} => owner[r] = NoWorker /\ jti[r] = NoId
        /\ status[r] \in Active => owner[r] \in Workers /\ jti[r] \in Ids

\* No id in use is newer than the newest one handed out.
IssuedInv ==
    /\ \A r \in Runs : jti[r] <= lastId
    /\ \A t \in tokens : t.jti <= lastId
    /\ \A c \in calls : c.jti <= lastId

\* The id of a claim on its way to the store is in no row, no token and no
\* other claim.
FreshInv ==
    \A c \in calls : c.op = "mint" =>
        /\ \A r \in Runs : jti[r] # c.jti
        /\ \A t \in tokens : t.jti # c.jti
        /\ \A d \in calls : d.op = "mint" /\ d.jti = c.jti => d = c

\* The token that names a row's jti belongs to the row's owner.
OwnerInv == \A t \in tokens : jti[t.run] = t.jti => owner[t.run] = t.worker

IInv == TypeOK /\ RowInv /\ IssuedInv /\ FreshInv /\ OwnerInv

-------------------------------------------------------------------------------
(* Type correctness. *)

LEMMA InitTypeOK == Init => TypeOK
  BY DEF Init, TypeOK, Statuses, Claimable, Active, Terminal

\* One lemma for the rows a call or a token changes: what an element of calls
\* or of tokens is made of.
LEMMA RecordTypes ==
  ASSUME TypeOK
  PROVE  /\ \A c \in calls : c.op \in CallOps /\ c.worker \in Workers
                             /\ c.run \in Runs /\ c.jti \in Ids
         /\ \A t \in tokens : t.worker \in Workers /\ t.run \in Runs /\ t.jti \in Ids
         /\ \A u \in urls : u.run \in Runs /\ u.jti \in Ids
  BY DEF TypeOK, Calls, Tokens, Urls

LEMMA NextTypeOK == TypeOK /\ [Next]_vars => TypeOK'
<1> SUFFICES ASSUME TypeOK, [Next]_vars PROVE TypeOK'
  OBVIOUS
<1> USE RunControlAssumption
<1>r. /\ \A c \in calls : c.op \in CallOps /\ c.worker \in Workers
                          /\ c.run \in Runs /\ c.jti \in Ids
      /\ \A t \in tokens : t.worker \in Workers /\ t.run \in Runs /\ t.jti \in Ids
      /\ \A u \in urls : u.run \in Runs /\ u.jti \in Ids
  BY RecordTypes
<1>1. CASE UserStep
  <2>1. ASSUME NEW r \in Runs, CreateRun(r) PROVE TypeOK'
    BY <2>1 DEF TypeOK, CreateRun, Statuses, Claimable
  <2>2. ASSUME NEW r \in Runs, RequestStop(r) PROVE TypeOK'
    BY <2>2 DEF TypeOK, RequestStop, Statuses, Active, Terminal
  <2>3. ASSUME NEW r \in Runs, RetryRun(r) PROVE TypeOK'
    BY <2>3 DEF TypeOK, RetryRun, Statuses, Claimable
  <2> QED BY <1>1, <2>1, <2>2, <2>3 DEF UserStep
<1>2. CASE KeyStep
  <2>1. ASSUME NEW w \in Workers, NEW r \in Runs, ReissueToken(w, r) PROVE TypeOK'
    BY <2>1 DEF TypeOK, ReissueToken, HeldBy, Token, Tokens, rowVars
  <2>2. ASSUME NEW w \in Workers, NEW r \in Runs, MintRunToken(w, r) PROVE TypeOK'
    <3>1. lastId' \in Ids
      BY <2>2 DEF MintRunToken, TypeOK, Ids, NoId
    <3>2. calls' \subseteq Calls
      BY <2>2, <3>1 DEF MintRunToken, Receive, TypeOK, Calls, CallOps
    <3> QED BY <2>2, <3>1, <3>2 DEF MintRunToken, TypeOK, rowVars
  <2> QED BY <1>2, <2>1, <2>2 DEF KeyStep
<1>3. CASE TokenStep
  <2>1. ASSUME NEW t \in tokens, NEW op \in CallOps \ {"mint"}, BeginCall(t, op) PROVE TypeOK'
    BY <2>1, <1>r DEF TypeOK, BeginCall, Receive, Calls, rowVars
  <2>2. ASSUME NEW t \in tokens, ArtifactUploadInit(t) PROVE TypeOK'
    BY <2>2, <1>r DEF TypeOK, ArtifactUploadInit, Urls, rowVars
  <2>3. ASSUME NEW t \in tokens, ExpireToken(t) PROVE TypeOK'
    BY <2>3 DEF TypeOK, ExpireToken, rowVars
  <2> QED BY <1>3, <2>1, <2>2, <2>3 DEF TokenStep
<1>4. CASE StoreStep
  <2>1. ASSUME NEW c \in calls, ClaimRun(c) PROVE TypeOK'
    BY <2>1, <1>r DEF TypeOK, ClaimRun, Statuses, Active, Token, Tokens, rowVars
  <2>2. ASSUME NEW c \in calls, UpdateRunProgress(c) PROVE TypeOK'
    BY <2>2, <1>r DEF TypeOK, UpdateRunProgress
  <2>3. ASSUME NEW c \in calls, CompleteRun(c) PROVE TypeOK'
    BY <2>3, <1>r DEF TypeOK, CompleteRun, Statuses, Terminal
  <2>4. ASSUME NEW c \in calls, FailCall(c) PROVE TypeOK'
    BY <2>4 DEF TypeOK, FailCall, rowVars
  <2> QED BY <1>4, <2>1, <2>2, <2>3, <2>4 DEF StoreStep
<1>5. CASE StorageStep
  <2>1. ASSUME NEW u \in urls, PutArtifact(u) PROVE TypeOK'
    BY <2>1, <1>r DEF TypeOK, PutArtifact, rowVars
  <2>2. ASSUME NEW u \in urls, ExpireUrl(u) PROVE TypeOK'
    BY <2>2 DEF TypeOK, ExpireUrl, rowVars
  <2> QED BY <1>5, <2>1, <2>2 DEF StorageStep
<1>6. CASE ClockStep
  <2>1. ASSUME SweepTimedOut PROVE TypeOK'
    BY <2>1 DEF TypeOK, SweepTimedOut, Statuses, Terminal
  <2>2. ASSUME NEW r \in Runs, AgeClaim(r) PROVE TypeOK'
    BY <2>2 DEF TypeOK, AgeClaim
  <2> QED BY <1>6, <2>1, <2>2 DEF ClockStep
<1>7. CASE Restart
  BY <1>7 DEF TypeOK, Restart, FailInterrupted, Statuses, Terminal
<1>8. CASE UNCHANGED vars
  BY <1>8 DEF TypeOK, vars, rowVars
<1> QED
  BY <1>1, <1>2, <1>3, <1>4, <1>5, <1>6, <1>7, <1>8 DEF Next

\* Every variable keeps its type in every reachable state.
THEOREM TypeCorrect == Spec => []TypeOK
  BY InitTypeOK, NextTypeOK, PTL DEF Spec

-------------------------------------------------------------------------------
(* The inductive invariant is one. *)

LEMMA InitIInv == Init => IInv
<1> SUFFICES ASSUME Init PROVE IInv
  OBVIOUS
<1>1. TypeOK
  BY InitTypeOK
<1> QED
  BY <1>1 DEF Init, IInv, RowInv, IssuedInv, FreshInv, OwnerInv, NoId, Active

\* A step that leaves the holder columns, the status and the newest id alone,
\* and adds no token or call, keeps the invariant.
LEMMA QuietStep ==
  ASSUME IInv, TypeOK', UNCHANGED <<status, owner, jti, lastId>>,
         tokens' \subseteq tokens, calls' \subseteq calls
  PROVE  IInv'
  BY DEF IInv, RowInv, IssuedInv, FreshInv, OwnerInv

\* A step that only ends runs, or asks one to stop, keeps it too.
LEMMA EndingStep ==
  ASSUME IInv, TypeOK', UNCHANGED <<owner, jti, lastId, tokens>>, calls' \subseteq calls,
         \A r \in Runs : \/ status'[r] = status[r]
                         \/ status'[r] \in Terminal
                         \/ status[r] = "in_progress" /\ status'[r] = "stopping"
                         \/ status[r] = "absent" /\ status'[r] = "new"
  PROVE  IInv'
<1>1. RowInv'
  BY DEF IInv, RowInv, Claimable, Active, Terminal
<1> QED
  BY <1>1 DEF IInv, IssuedInv, FreshInv, OwnerInv

LEMMA UserStepIInv == ASSUME IInv, TypeOK', UserStep PROVE IInv'
<1>1. ASSUME NEW r \in Runs, CreateRun(r) PROVE IInv'
  BY <1>1, EndingStep DEF CreateRun, IInv, TypeOK
<1>2. ASSUME NEW r \in Runs, RequestStop(r) PROVE IInv'
  BY <1>2, EndingStep DEF RequestStop, IInv, TypeOK, Terminal
<1>3. ASSUME NEW r \in Runs, RetryRun(r) PROVE IInv'
  <2>1. RowInv'
    BY <1>3 DEF IInv, TypeOK, RowInv, RetryRun, Claimable, Active
  <2>2. IssuedInv'
    BY <1>3, RunControlAssumption DEF IInv, TypeOK, IssuedInv, RetryRun, NoId, Ids
  <2>3. FreshInv'
    BY <1>3, RecordTypes DEF IInv, TypeOK, FreshInv, RetryRun, NoId, Ids
  <2>4. OwnerInv'
    BY <1>3, RecordTypes DEF IInv, TypeOK, OwnerInv, RetryRun, NoId, Ids
  <2> QED BY <2>1, <2>2, <2>3, <2>4 DEF IInv
<1> QED BY <1>1, <1>2, <1>3 DEF UserStep

LEMMA KeyStepIInv == ASSUME IInv, TypeOK', KeyStep PROVE IInv'
<1>1. ASSUME NEW w \in Workers, NEW r \in Runs, ReissueToken(w, r) PROVE IInv'
  <2>1. RowInv'
    BY <1>1 DEF IInv, RowInv, ReissueToken, rowVars
  <2>2. IssuedInv'
    BY <1>1 DEF IInv, IssuedInv, ReissueToken, Token, rowVars
  <2>3. FreshInv'
    BY <1>1 DEF IInv, FreshInv, ReissueToken, Token, rowVars
  <2>4. OwnerInv'
    BY <1>1 DEF IInv, OwnerInv, ReissueToken, HeldBy, Token, rowVars
  <2> QED BY <1>1, <2>1, <2>2, <2>3, <2>4 DEF IInv
<1>2. ASSUME NEW w \in Workers, NEW r \in Runs, MintRunToken(w, r) PROVE IInv'
  <2>1. RowInv' /\ OwnerInv'
    BY <1>2 DEF IInv, RowInv, OwnerInv, MintRunToken, rowVars
  <2>2. lastId \in Nat /\ lastId' = lastId + 1
    BY <1>2, RunControlAssumption DEF IInv, TypeOK, MintRunToken, NoId, Ids
  <2>3. IssuedInv'
    BY <1>2, <2>2, RecordTypes, RunControlAssumption
       DEF IInv, TypeOK, IssuedInv, MintRunToken, Receive, rowVars, NoId, Ids
  <2>4. FreshInv'
    BY <1>2, <2>2, RecordTypes, RunControlAssumption
       DEF IInv, TypeOK, FreshInv, IssuedInv, MintRunToken, Receive, rowVars, NoId, Ids
  <2> QED BY <2>1, <2>3, <2>4 DEF IInv
<1> QED BY <1>1, <1>2 DEF KeyStep

LEMMA TokenStepIInv == ASSUME IInv, TypeOK', TokenStep PROVE IInv'
<1>1. ASSUME NEW t \in tokens, NEW op \in CallOps \ {"mint"}, BeginCall(t, op) PROVE IInv'
  <2>1. RowInv' /\ OwnerInv'
    BY <1>1 DEF IInv, RowInv, OwnerInv, BeginCall, rowVars
  <2>2. IssuedInv'
    BY <1>1 DEF IInv, IssuedInv, BeginCall, Receive, rowVars
  <2>3. FreshInv'
    BY <1>1 DEF IInv, FreshInv, BeginCall, Receive, rowVars
  <2> QED BY <2>1, <2>2, <2>3 DEF IInv
<1>2. ASSUME NEW t \in tokens, ArtifactUploadInit(t) PROVE IInv'
  BY <1>2, QuietStep DEF ArtifactUploadInit, rowVars
<1>3. ASSUME NEW t \in tokens, ExpireToken(t) PROVE IInv'
  BY <1>3, QuietStep DEF ExpireToken, rowVars
<1> QED BY <1>1, <1>2, <1>3 DEF TokenStep

LEMMA StoreStepIInv == ASSUME IInv, TypeOK', StoreStep PROVE IInv'
<1>1. ASSUME NEW c \in calls, ClaimRun(c) PROVE IInv'
  <2>1. CASE status[c.run] \notin Claimable
    BY <1>1, <2>1, QuietStep DEF ClaimRun, rowVars
  <2>2. CASE status[c.run] \in Claimable
    <3>r. c.worker \in Workers /\ c.run \in Runs /\ c.jti \in Ids
      BY RecordTypes DEF IInv
    <3>1. RowInv'
      BY <1>1, <2>2, <3>r DEF IInv, TypeOK, RowInv, ClaimRun, Claimable, Active
    <3>2. IssuedInv'
      BY <1>1, <2>2, <3>r DEF IInv, TypeOK, IssuedInv, ClaimRun, Token
    <3>3. FreshInv'
      BY <1>1, <2>2, <3>r DEF IInv, TypeOK, FreshInv, ClaimRun, Token
    <3>4. OwnerInv'
      BY <1>1, <2>2, <3>r, RecordTypes DEF IInv, TypeOK, OwnerInv, FreshInv, ClaimRun, Token
    <3> QED BY <3>1, <3>2, <3>3, <3>4 DEF IInv
  <2> QED BY <2>1, <2>2
<1>2. ASSUME NEW c \in calls, UpdateRunProgress(c) PROVE IInv'
  BY <1>2, QuietStep DEF UpdateRunProgress
<1>3. ASSUME NEW c \in calls, CompleteRun(c) PROVE IInv'
  BY <1>3, EndingStep, RecordTypes DEF CompleteRun, Terminal, IInv, TypeOK
<1>4. ASSUME NEW c \in calls, FailCall(c) PROVE IInv'
  BY <1>4, QuietStep DEF FailCall, rowVars
<1> QED BY <1>1, <1>2, <1>3, <1>4 DEF StoreStep

LEMMA NextIInv == IInv /\ [Next]_vars => IInv'
<1> SUFFICES ASSUME IInv, [Next]_vars PROVE IInv'
  OBVIOUS
<1>t. TypeOK'
  BY NextTypeOK DEF IInv
<1>1. CASE UserStep
  BY <1>1, <1>t, UserStepIInv
<1>2. CASE KeyStep
  BY <1>2, <1>t, KeyStepIInv
<1>3. CASE TokenStep
  BY <1>3, <1>t, TokenStepIInv
<1>4. CASE StoreStep
  BY <1>4, <1>t, StoreStepIInv
<1>5. CASE StorageStep
  BY <1>5, <1>t, QuietStep DEF StorageStep, PutArtifact, ExpireUrl, rowVars
<1>6. CASE ClockStep
  <2>1. ASSUME SweepTimedOut PROVE IInv'
    BY <2>1, <1>t, EndingStep DEF SweepTimedOut, Terminal
  <2>2. ASSUME NEW r \in Runs, AgeClaim(r) PROVE IInv'
    BY <2>2, <1>t, QuietStep DEF AgeClaim
  <2> QED BY <1>6, <2>1, <2>2 DEF ClockStep
<1>7. CASE Restart
  BY <1>7, <1>t, EndingStep DEF Restart, FailInterrupted, Terminal
<1>8. CASE UNCHANGED vars
  BY <1>8, <1>t, QuietStep DEF vars, rowVars
<1> QED
  BY <1>1, <1>2, <1>3, <1>4, <1>5, <1>6, <1>7, <1>8 DEF Next

LEMMA IInvHolds == Spec => []IInv
  BY InitIInv, NextIInv, PTL DEF Spec

-------------------------------------------------------------------------------
(* Safety. *)

\* The tokens of a run that the middleware lets through are its owner's: no
\* interleaving of mints, refreshes, retries and claims shares a claim.
THEOREM HolderOnly == Spec => []OnlyTheHolderIsAuthorized
<1>1. IInv => OnlyTheHolderIsAuthorized
  BY DEF IInv, OwnerInv, OnlyTheHolderIsAuthorized, Authorized
<1> QED BY <1>1, IInvHolds, PTL

\* A run waiting for a worker accepts no run token.
THEOREM WaitingTakesNoToken == Spec => []WaitingRunTakesNoToken
<1>1. IInv => WaitingRunTakesNoToken
  BY RecordTypes DEF IInv, RowInv, WaitingRunTakesNoToken, Authorized
<1> QED BY <1>1, IInvHolds, PTL

\* A recorded result is in storage.
THEOREM ResultIsUploaded == Spec => []RecordedResultIsUploaded
<1>1. Init => RecordedResultIsUploaded
  BY DEF Init, RecordedResultIsUploaded
<1>2. TypeOK /\ RecordedResultIsUploaded /\ [Next]_vars => RecordedResultIsUploaded'
  <2> SUFFICES ASSUME TypeOK, RecordedResultIsUploaded, [Next]_vars
               PROVE  RecordedResultIsUploaded'
    OBVIOUS
  <2>1. CASE UNCHANGED <<summary, blob>>
    BY <2>1 DEF RecordedResultIsUploaded
  <2>2. ASSUME NEW c \in calls, CompleteRun(c) PROVE RecordedResultIsUploaded'
    BY <2>2 DEF CompleteRun, RecordedResultIsUploaded, TypeOK
  <2>3. ASSUME NEW u \in urls, PutArtifact(u) PROVE RecordedResultIsUploaded'
    BY <2>3, RecordTypes DEF PutArtifact, RecordedResultIsUploaded, TypeOK, NoId, Ids, rowVars
  <2>4. CASE StoreStep
    <3>1. ASSUME NEW c \in calls, ClaimRun(c) \/ UpdateRunProgress(c) \/ FailCall(c)
          PROVE  UNCHANGED <<summary, blob>>
      BY <3>1 DEF ClaimRun, UpdateRunProgress, FailCall, rowVars
    <3> QED BY <2>4, <2>1, <2>2, <3>1 DEF StoreStep
  <2>5. CASE StorageStep
    BY <2>5, <2>1, <2>3 DEF StorageStep, ExpireUrl, rowVars
  <2>6. ASSUME UserStep \/ KeyStep \/ TokenStep \/ ClockStep \/ Restart \/ UNCHANGED vars
        PROVE  UNCHANGED <<summary, blob>>
    BY <2>6 DEF UserStep, KeyStep, TokenStep, ClockStep, CreateRun, RequestStop, RetryRun,
                ReissueToken, MintRunToken, BeginCall, ArtifactUploadInit, ExpireToken,
                SweepTimedOut, AgeClaim, Restart, vars, rowVars
  <2> QED BY <2>1, <2>4, <2>5, <2>6 DEF Next
<1> QED BY <1>1, <1>2, TypeCorrect, PTL DEF Spec

\* Done is final, for the status and for the attempt the result came from.
THEOREM DoneNeverChanges == Spec => DoneIsFinal
<1>1. TypeOK /\ [Next]_vars =>
        [\A r \in Runs : status[r] = "done" => status'[r] = "done" /\ summary'[r] = summary[r]]_vars
  <2> SUFFICES ASSUME TypeOK, Next, NEW r \in Runs, status[r] = "done"
               PROVE  status'[r] = "done" /\ summary'[r] = summary[r]
    OBVIOUS
  <2>1. CASE UserStep
    BY <2>1 DEF UserStep, CreateRun, RequestStop, RetryRun, Claimable, Retryable, TypeOK
  <2>2. CASE KeyStep \/ TokenStep \/ StorageStep
    BY <2>2 DEF KeyStep, TokenStep, StorageStep, ReissueToken, MintRunToken, BeginCall,
                ArtifactUploadInit, ExpireToken, PutArtifact, ExpireUrl, rowVars
  <2>3. CASE StoreStep
    BY <2>3 DEF StoreStep, ClaimRun, UpdateRunProgress, CompleteRun, FailCall,
                Claimable, Active, TypeOK, rowVars
  <2>4. CASE ClockStep \/ Restart
    BY <2>4 DEF ClockStep, SweepTimedOut, TimedOut, AgeClaim, Restart, FailInterrupted, Active
  <2> QED BY <2>1, <2>2, <2>3, <2>4 DEF Next
<1> QED BY <1>1, TypeCorrect, PTL DEF Spec, DoneIsFinal

\* A token the row has moved away from never works again.
THEOREM LostTokens == Spec => LostTokenStaysLost
<1>1. IInv /\ [Next]_vars =>
        [\A t \in tokens : t.jti # jti[t.run] => t.jti # jti'[t.run]]_vars
  <2> SUFFICES ASSUME IInv, Next, NEW t \in tokens, t.jti # jti[t.run]
               PROVE  t.jti # jti'[t.run]
    OBVIOUS
  <2>t. t.run \in Runs /\ t.jti \in Ids /\ t.jti # NoId
    BY RecordTypes DEF IInv, Ids, NoId
  <2>1. CASE jti' = jti
    BY <2>1
  <2>2. ASSUME NEW r \in Runs, RetryRun(r) PROVE t.jti # jti'[t.run]
    BY <2>2, <2>t DEF RetryRun, IInv, TypeOK
  <2>3. ASSUME NEW c \in calls, ClaimRun(c) PROVE t.jti # jti'[t.run]
    BY <2>3, <2>t DEF ClaimRun, IInv, TypeOK, FreshInv, rowVars
  <2>4. CASE UserStep
    BY <2>4, <2>1, <2>2 DEF UserStep, CreateRun, RequestStop
  <2>5. CASE StoreStep
    BY <2>5, <2>1, <2>3 DEF StoreStep, UpdateRunProgress, CompleteRun, FailCall, rowVars
  <2>6. ASSUME KeyStep \/ TokenStep \/ StorageStep \/ ClockStep \/ Restart PROVE jti' = jti
    BY <2>6 DEF KeyStep, TokenStep, StorageStep, ClockStep, ReissueToken, MintRunToken, BeginCall,
                ArtifactUploadInit, ExpireToken, PutArtifact, ExpireUrl, SweepTimedOut, AgeClaim,
                Restart, rowVars
  <2> QED BY <2>1, <2>4, <2>5, <2>6 DEF Next
<1> QED BY <1>1, IInvHolds, PTL DEF Spec, LostTokenStaysLost

-------------------------------------------------------------------------------
(* The control plane implements RunLifecycle. *)

LEMMA InitRefines == Init => Lifecycle!Init
  BY DEF Init, Lifecycle!Init, Phase, Holder, Claimable, Active

\* A step that changes neither a status nor an owner is a stutter.
LEMMA Stutters ==
  ASSUME UNCHANGED <<status, owner>>
  PROVE  UNCHANGED Lifecycle!lifecycleVars
  BY DEF Lifecycle!lifecycleVars, Phase, Holder

\* The runs of S leave Active for one terminal status: the lifecycle ends them.
LEMMA EndRefines ==
  ASSUME NEW S \in SUBSET Runs, NEW outcome \in Terminal,
         \A r \in S : status[r] \in Active,
         status' = [r \in Runs |-> IF r \in S THEN outcome ELSE status[r]],
         UNCHANGED owner
  PROVE  Lifecycle!Next
<1>1. \A r \in S : Phase[r] \in Lifecycle!Held
  BY DEF Phase, Lifecycle!Held, Claimable, Active
<1>2. Phase' = [r \in Runs |-> IF r \in S THEN outcome ELSE Phase[r]]
  BY DEF Phase, Claimable, Terminal
<1>3. Holder' = [r \in Runs |-> IF r \in S THEN NoWorker ELSE Holder[r]]
  BY DEF Holder, Active, Terminal
<1>4. outcome \in Lifecycle!Ended
  BY DEF Lifecycle!Ended, Terminal
<1> QED BY <1>1, <1>2, <1>3, <1>4 DEF Lifecycle!Next, Lifecycle!End

LEMMA NextRefines == TypeOK /\ [Next]_vars => [Lifecycle!Next]_(Lifecycle!lifecycleVars)
<1> SUFFICES ASSUME TypeOK, [Next]_vars
             PROVE  [Lifecycle!Next]_(Lifecycle!lifecycleVars)
  OBVIOUS
<1>1. ASSUME NEW r \in Runs, CreateRun(r) PROVE Lifecycle!Next
  <2>1. Phase[r] = "absent" /\ Phase' = [Phase EXCEPT ![r] = "waiting"]
    BY <1>1 DEF CreateRun, TypeOK, Phase, Claimable
  <2>2. Holder' = Holder
    BY <1>1 DEF CreateRun, TypeOK, Holder, Active
  <2> QED BY <2>1, <2>2 DEF Lifecycle!Next, Lifecycle!Submit
<1>2. ASSUME NEW r \in Runs, RequestStop(r) PROVE Lifecycle!Next
  <2>1. CASE status[r] = "in_progress"
    <3>1. Phase[r] = "in_progress" /\ Phase' = [Phase EXCEPT ![r] = "stopping"]
      BY <1>2, <2>1 DEF RequestStop, TypeOK, Phase, Claimable
    <3>2. Holder' = Holder
      BY <1>2, <2>1 DEF RequestStop, TypeOK, Holder, Active
    <3> QED BY <3>1, <3>2 DEF Lifecycle!Next, Lifecycle!AskToStop
  <2>2. CASE status[r] \in Claimable
    <3>1. Phase[r] = "waiting" /\ Phase' = [Phase EXCEPT ![r] = "failed"]
      BY <1>2, <2>2 DEF RequestStop, TypeOK, Phase, Claimable
    <3>2. Holder' = Holder
      BY <1>2, <2>2 DEF RequestStop, TypeOK, Holder, Active, Claimable
    <3> QED BY <3>1, <3>2 DEF Lifecycle!Next, Lifecycle!CancelWaiting
  <2> QED BY <1>2, <2>1, <2>2 DEF RequestStop
<1>3. ASSUME NEW r \in Runs, RetryRun(r) PROVE Lifecycle!Next
  <2>1. Phase[r] \in {"failed", "timed_out"} /\ Phase' = [Phase EXCEPT ![r] = "waiting"]
    BY <1>3 DEF RetryRun, TypeOK, Phase, Claimable, Retryable
  <2>2. Holder' = Holder
    BY <1>3 DEF RetryRun, TypeOK, Holder, Active, Retryable
  <2> QED BY <2>1, <2>2 DEF Lifecycle!Next, Lifecycle!Requeue
<1>4. ASSUME NEW c \in calls, ClaimRun(c) PROVE [Lifecycle!Next]_(Lifecycle!lifecycleVars)
  <2>1. CASE status[c.run] \notin Claimable
    BY <1>4, <2>1, Stutters DEF ClaimRun, rowVars
  <2>2. CASE status[c.run] \in Claimable
    <3>r. c.worker \in Workers /\ c.run \in Runs
      BY RecordTypes
    <3>1. Phase[c.run] = "waiting" /\ Phase' = [Phase EXCEPT ![c.run] = "in_progress"]
      BY <1>4, <2>2, <3>r DEF ClaimRun, TypeOK, Phase, Claimable
    <3>2. Holder' = [Holder EXCEPT ![c.run] = c.worker]
      BY <1>4, <2>2, <3>r DEF ClaimRun, TypeOK, Holder, Active
    <3> QED BY <3>r, <3>1, <3>2 DEF Lifecycle!Next, Lifecycle!Take
  <2> QED BY <2>1, <2>2
<1>5. ASSUME NEW c \in calls, CompleteRun(c) PROVE [Lifecycle!Next]_(Lifecycle!lifecycleVars)
  <2>1. CASE status' = status
    BY <1>5, <2>1, Stutters DEF CompleteRun
  <2>2. CASE status' = [status EXCEPT ![c.run] = c.op] /\ status[c.run] \in Active
    <3>r. c.run \in Runs /\ c.op \in Terminal
      BY <1>5, RecordTypes DEF CompleteRun, Terminal
    <3>1. status' = [r \in Runs |-> IF r \in {c.run} THEN c.op ELSE status[r]]
      BY <2>2, <3>r DEF TypeOK
    <3> QED BY <1>5, <2>2, <3>r, <3>1, EndRefines DEF CompleteRun
  <2> QED BY <1>5, <2>1, <2>2 DEF CompleteRun
<1>6. ASSUME SweepTimedOut PROVE Lifecycle!Next
  <2>1. TimedOut \in SUBSET Runs /\ \A r \in TimedOut : status[r] \in Active
    BY DEF TimedOut, TypeOK
  <2> QED BY <1>6, <2>1, EndRefines DEF SweepTimedOut, Terminal
<1>7. ASSUME Restart PROVE [Lifecycle!Next]_(Lifecycle!lifecycleVars)
  <2>1. CASE ~ LocalApp
    BY <1>7, <2>1, Stutters DEF Restart
  <2>2. CASE LocalApp
    <3> DEFINE S == {r \in Runs : status[r] \in Active}
    <3>1. status' = [r \in Runs |-> IF r \in S THEN "failed" ELSE status[r]] /\ UNCHANGED owner
      BY <1>7, <2>2 DEF Restart, FailInterrupted
    <3>2. S \in SUBSET Runs /\ \A r \in S : status[r] \in Active
      OBVIOUS
    <3> HIDE DEF S
    <3> QED BY <3>1, <3>2, EndRefines DEF Terminal
  <2> QED BY <2>1, <2>2
<1>8. ASSUME KeyStep \/ TokenStep \/ StorageStep \/ UNCHANGED vars
      PROVE  UNCHANGED Lifecycle!lifecycleVars
  BY <1>8, Stutters
     DEF KeyStep, TokenStep, StorageStep, ReissueToken, MintRunToken, BeginCall,
         ArtifactUploadInit, ExpireToken, PutArtifact, ExpireUrl, vars, rowVars
<1>9. ASSUME NEW r \in Runs, AgeClaim(r) PROVE UNCHANGED Lifecycle!lifecycleVars
  BY <1>9, Stutters DEF AgeClaim
<1>10. ASSUME NEW c \in calls, UpdateRunProgress(c) \/ FailCall(c)
       PROVE  UNCHANGED Lifecycle!lifecycleVars
  BY <1>10, Stutters DEF UpdateRunProgress, FailCall, rowVars
<1> QED
  BY <1>1, <1>2, <1>3, <1>4, <1>5, <1>6, <1>7, <1>8, <1>9, <1>10
     DEF Next, UserStep, StoreStep, ClockStep

\* Whatever workers, users, the sweeper and restarts do, a run's life is one
\* RunLifecycle allows: it changes hands only by waiting in between, a stop is
\* never taken back, and what is done stays done.
THEOREM ControlPlaneImplementsLifecycle == Spec => ImplementsLifecycle
  BY InitRefines, NextRefines, TypeCorrect, PTL
     DEF Spec, ImplementsLifecycle, Lifecycle!SafeSpec

--------------------------------------------------------------------------------
(* The composition with the workers. *)

\* A call that is under way may be carried out or lost.
LEMMA CallStep ==
  ASSUME NEW c \in calls,
         ClaimRun(c) \/ UpdateRunProgress(c) \/ CompleteRun(c) \/ FailCall(c)
  PROVE  Next
  BY DEF Next, StoreStep

\* A request made with a token the worker holds.
LEMMA TokenCall ==
  ASSUME NEW t, NEW op \in CallOps \ {"mint"}, BeginCall(t, op)
  PROVE  Next
  BY DEF Next, TokenStep, BeginCall, Authorized

LEMMA SignsPut ==
  ASSUME NEW t, ArtifactUploadInit(t)
  PROVE  Next
  BY DEF Next, TokenStep, ArtifactUploadInit, Authorized

LEMMA PutStep ==
  ASSUME NEW u \in urls, PutArtifact(u)
  PROVE  Next
  BY DEF Next, StorageStep

-------------------------------------------------------------------------------
(* Every step of the composition is a step of the control plane.           *)

\* A thread that is not idle has a run to work on.
BusyHasJob == \A t \in Threads : pc[t] # "idle" => job[t] \in Runs

RInv == RunnerTypeOK /\ BusyHasJob

LEMMA ThreadSteps ==
  ASSUME RInv, NEW t \in Threads, ThreadStep(t)
  PROVE  [Next]_vars
<1>1. CASE TakeJob(t)
  BY <1>1 DEF TakeJob
<1>2. CASE Mint(t)
  <2>1. WorkerOf(t) \in Workers /\ job[t] \in Runs
    BY <1>2 DEF Threads, WorkerOf, RInv, BusyHasJob, Mint
  <2>2. ASSUME MintRunToken(WorkerOf(t), job[t]) PROVE Next
    BY <2>1, <2>2 DEF Next, KeyStep
  <2>3. ASSUME ReissueToken(WorkerOf(t), job[t]) PROVE Next
    BY <2>1, <2>3 DEF Next, KeyStep
  <2> QED BY <1>2, <2>2, <2>3 DEF Mint
<1>3. CASE ConfirmClaim(t)
  BY <1>3 DEF ConfirmClaim
<1>4. CASE PostProgress(t)
  BY <1>4, TokenCall DEF PostProgress, CallOps
<1>5. CASE EndStage(t)
  BY <1>5 DEF EndStage
<1>6. CASE InitUpload(t)
  BY <1>6, SignsPut DEF InitUpload
<1>7. CASE Upload(t)
  BY <1>7, PutStep DEF Upload
<1>8. CASE ReportDone(t)
  BY <1>8, TokenCall DEF ReportDone, CallOps
<1>9. CASE ReportFailed(t)
  BY <1>9, TokenCall DEF ReportFailed, CallOps
<1> QED
  BY <1>1, <1>2, <1>3, <1>4, <1>5, <1>6, <1>7, <1>8, <1>9 DEF ThreadStep

LEMMA AnswerSteps ==
  ASSUME NEW c \in calls, Answer(c) \/ ServeUnattended(c) \/ AnswerError(c)
  PROVE  [Next]_vars
<1>1. CASE Answer(c)
  BY <1>1, CallStep DEF Answer, AnswerMint, AnswerProgress, AnswerComplete
<1>2. CASE ServeUnattended(c)
  BY <1>2, CallStep DEF ServeUnattended
<1>3. CASE AnswerError(c)
  BY <1>3, CallStep DEF AnswerError
<1> QED BY <1>1, <1>2, <1>3

LEMMA RunnerStepRefines == RInv /\ [RunnerNext]_allVars => [Next]_vars
<1> SUFFICES ASSUME RInv, RunnerNext PROVE [Next]_vars
  BY DEF allVars
<1>1. CASE \E w \in Workers, r \in Runs :
             OfferRun(w, r) \/ DeliverOffer(w, r) \/ DeliverStop(w, r)
  BY <1>1 DEF OfferRun, DeliverOffer, DeliverStop
<1>2. CASE \E r \in Runs : StopRun(r)
  BY <1>2 DEF StopRun, Next, UserStep
<1>3. CASE \E t \in Threads : ThreadStep(t)
  BY <1>3, ThreadSteps
<1>4. CASE \E t \in Threads : GiveUp(t)
  BY <1>4, PutStep DEF GiveUp
<1>5. CASE \E c \in calls : Answer(c) \/ ServeUnattended(c) \/ AnswerError(c)
  BY <1>5, AnswerSteps
<1>6. CASE \E w \in Workers : Crash(w)
  BY <1>6 DEF Crash
<1>7. CASE ServerStep
  BY <1>7 DEF ServerStep, Next, UserStep, ClockStep, StorageStep
<1> QED BY <1>1, <1>2, <1>3, <1>4, <1>5, <1>6, <1>7 DEF RunnerNext

-------------------------------------------------------------------------------
(* The types of the worker's own state. *)

WorkerTypes ==
    /\ queue \in [Workers -> Seq(Runs)]
    /\ seen \in [Workers -> SUBSET Runs]
    /\ stopReq \in [Workers -> SUBSET Runs]
    /\ pc \in [Threads -> {"idle", "mint"} \cup Waiting \cup Holding]
    /\ job \in [Threads -> Runs \cup {NoRun}]
    /\ tok \in [Threads -> {NoId} \cup Ids]
    /\ offers \subseteq Workers \X Runs
    /\ stops \subseteq Workers \X Runs
    /\ BusyHasJob

\* What Go, Finish and DropStop leave.
LEMMA GoTypes ==
  ASSUME WorkerTypes, NEW t \in Threads, pc[t] # "idle",
         NEW place \in {"mint"} \cup Waiting \cup Holding, Go(t, place),
         stopReq' = stopReq \/ DropStop(t), UNCHANGED <<queue, offers, stops>>
  PROVE  WorkerTypes'
  BY DEF WorkerTypes, BusyHasJob, Go, DropStop, Threads, WorkerOf, Waiting, Holding, InStage

LEMMA FinishTypes ==
  ASSUME WorkerTypes, NEW t \in Threads, Finish(t),
         stopReq' = stopReq \/ DropStop(t), UNCHANGED <<queue, offers, stops>>
  PROVE  WorkerTypes'
  BY DEF WorkerTypes, BusyHasJob, Finish, DropStop, Threads, WorkerOf

LEMMA DiscoveryTypes ==
  ASSUME WorkerTypes, NEW w \in Workers, NEW r \in Runs,
         OfferRun(w, r) \/ DeliverOffer(w, r) \/ DeliverStop(w, r)
  PROVE  WorkerTypes'
<1>1. CASE OfferRun(w, r)
  BY <1>1 DEF OfferRun, WorkerTypes, BusyHasJob
<1>2. CASE DeliverOffer(w, r)
  <2>1. Append(queue[w], r) \in Seq(Runs)
    BY DEF WorkerTypes
  <2>2. queue' \in [Workers -> Seq(Runs)] /\ seen' \in [Workers -> SUBSET Runs]
    <3>1. CASE r \in seen[w]
      BY <1>2, <3>1 DEF DeliverOffer, Enqueue, WorkerTypes
    <3>2. CASE r \notin seen[w]
      <4>1. /\ queue' = [queue EXCEPT ![w] = Append(queue[w], r)]
            /\ seen' = [seen EXCEPT ![w] = seen[w] \cup {r}]
        BY <1>2, <3>2 DEF DeliverOffer, Enqueue
      <4>2. queue' \in [Workers -> Seq(Runs)]
        BY <2>1, <4>1, Zenon DEF WorkerTypes
      <4>3. seen' \in [Workers -> SUBSET Runs]
        BY <4>1 DEF WorkerTypes
      <4> QED BY <4>2, <4>3
    <3> QED BY <3>1, <3>2
  <2>3. UNCHANGED <<stopReq, pc, job, tok, stops>> /\ offers' \subseteq offers
    BY <1>2 DEF DeliverOffer
  <2> QED BY <2>2, <2>3 DEF WorkerTypes, BusyHasJob
<1>3. CASE DeliverStop(w, r)
  BY <1>3 DEF DeliverStop, WorkerTypes, BusyHasJob
<1> QED BY <1>1, <1>2, <1>3

\* The push goes to the key that holds the run, which is a worker.
LEMMA StopTypes ==
  ASSUME WorkerTypes, IInv, NEW r \in Runs, StopRun(r)
  PROVE  WorkerTypes'
<1>1. UNCHANGED <<queue, seen, stopReq, pc, job, tok, offers>>
  BY DEF StopRun
<1>2. status'[r] = "stopping" => owner[r] \in Workers
  BY DEF StopRun, RequestStop, IInv, TypeOK, RowInv, Active, Claimable
<1>3. stops' \subseteq Workers \X Runs
  BY <1>2 DEF StopRun, WorkerTypes
<1> QED BY <1>1, <1>3 DEF WorkerTypes, BusyHasJob

LEMMA ThreadTypes ==
  ASSUME WorkerTypes, TypeOK, lastId' \in {NoId} \cup Ids, NEW t \in Threads, ThreadStep(t)
  PROVE  WorkerTypes'
<1> USE DEF Waiting, Holding, InStage
<1>1. CASE TakeJob(t)
  <2>1. Head(queue[WorkerOf(t)]) \in Runs /\ Tail(queue[WorkerOf(t)]) \in Seq(Runs)
    BY <1>1 DEF TakeJob, WorkerTypes, Threads, WorkerOf
  <2> QED BY <1>1, <2>1 DEF TakeJob, WorkerTypes, BusyHasJob, Threads, WorkerOf
<1>2. CASE Mint(t)
  <2>1. CASE Finish(t) /\ UNCHANGED vars
    BY <1>2, <2>1, FinishTypes DEF Mint
  <2>2. CASE /\ UNCHANGED <<job, seen>>
             /\ \E id \in {NoId} \cup Ids, place \in {"minting", "claim"} :
                   tok' = [tok EXCEPT ![t] = id] /\ pc' = [pc EXCEPT ![t] = place]
    BY <1>2, <2>2 DEF Mint, WorkerTypes, BusyHasJob
  <2>3. job[t] \in Runs /\ jti[job[t]] \in {NoId} \cup Ids
    BY <1>2 DEF Mint, WorkerTypes, BusyHasJob, TypeOK
  <2> QED BY <1>2, <2>1, <2>2, <2>3 DEF Mint
<1>3. CASE ConfirmClaim(t)
  BY <1>3, GoTypes, FinishTypes DEF ConfirmClaim
<1>4. CASE PostProgress(t)
  BY <1>4, GoTypes, FinishTypes DEF PostProgress
<1>5. CASE EndStage(t)
  BY <1>5, GoTypes DEF EndStage
<1>6. CASE InitUpload(t)
  BY <1>6, GoTypes, FinishTypes DEF InitUpload
<1>7. CASE Upload(t)
  BY <1>7, GoTypes DEF Upload
<1>8. CASE ReportDone(t)
  BY <1>8, GoTypes, FinishTypes DEF ReportDone
<1>9. CASE ReportFailed(t)
  BY <1>9, GoTypes, FinishTypes DEF ReportFailed
<1> QED
  BY <1>1, <1>2, <1>3, <1>4, <1>5, <1>6, <1>7, <1>8, <1>9 DEF ThreadStep

LEMMA GiveUpTypes ==
  ASSUME WorkerTypes, NEW t \in Threads, GiveUp(t)
  PROVE  WorkerTypes'
<1>1. CASE Finish(t) /\ UNCHANGED stopReq
  BY <1>1, FinishTypes DEF GiveUp
<1>2. CASE /\ pc[t] # "idle"
           /\ \E place \in {"stage", "fail"} : Go(t, place)
           /\ stopReq' = stopReq \/ DropStop(t)
  BY <1>2, GoTypes DEF GiveUp, Holding, InStage
<1> QED BY <1>1, <1>2 DEF GiveUp

\* A thread that waits for an answer is not idle.
LEMMA AnswerTypes ==
  ASSUME WorkerTypes, TypeOK, NEW c \in calls,
         Answer(c) \/ ServeUnattended(c) \/ AnswerError(c)
  PROVE  WorkerTypes'
<1>c. \A t \in Threads : Waits(t, c) => pc[t] # "idle"
  BY RecordTypes DEF Waits, CallOps
<1>1. CASE Answer(c)
  <2>1. PICK t \in Threads :
            Waits(t, c) /\ (AnswerMint(t, c) \/ AnswerProgress(t, c) \/ AnswerComplete(t, c))
    BY <1>1 DEF Answer
  <2>2. CASE Finish(t) /\ (stopReq' = stopReq \/ DropStop(t))
    BY <1>1, <2>2, FinishTypes DEF Answer
  <2>3. CASE (Go(t, "claim") \/ Go(t, "stage")) /\ stopReq' = stopReq
    BY <1>1, <1>c, <2>1, <2>3, GoTypes DEF Answer, Holding, InStage
  <2> QED BY <2>1, <2>2, <2>3 DEF AnswerMint, AnswerProgress, AnswerComplete
<1>2. CASE ServeUnattended(c)
  BY <1>2 DEF ServeUnattended, workerVars, WorkerTypes, BusyHasJob
<1>3. CASE AnswerError(c)
  BY <1>3, <1>c, GoTypes, FinishTypes DEF AnswerError, Holding, InStage
<1> QED BY <1>1, <1>2, <1>3

LEMMA CrashTypes ==
  ASSUME WorkerTypes, NEW w \in Workers, Crash(w)
  PROVE  WorkerTypes'
  BY DEF WorkerTypes, BusyHasJob, Crash

-------------------------------------------------------------------------------
(* The theorems. *)

CompositionInv == IInv /\ WorkerTypes /\ faults \in 0 .. MaxFaults /\ crashes \in 0 .. MaxCrashes

LEMMA CompositionInit == RunnerInit => CompositionInv
<1> SUFFICES ASSUME RunnerInit PROVE CompositionInv
  OBVIOUS
<1>1. IInv
  BY InitIInv DEF RunnerInit
<1>2. WorkerTypes
  BY DEF RunnerInit, WorkerTypes, BusyHasJob, NoId
<1> QED BY <1>1, <1>2, RunnerAssumption DEF RunnerInit, CompositionInv

LEMMA CompositionStep ==
    CompositionInv /\ [RunnerNext]_allVars => CompositionInv' /\ [Next]_vars
<1> SUFFICES ASSUME CompositionInv, [RunnerNext]_allVars
             PROVE  CompositionInv' /\ [Next]_vars
  OBVIOUS
<1>1. [Next]_vars
  <2>1. RInv
    BY DEF CompositionInv, RInv, RunnerTypeOK, WorkerTypes, IInv
  <2> QED BY <2>1, RunnerStepRefines
<1>2. IInv'
  BY <1>1, NextIInv DEF CompositionInv
<1>3. WorkerTypes'
  <2>t. WorkerTypes /\ IInv /\ TypeOK /\ lastId' \in {NoId} \cup Ids
    BY <1>2 DEF CompositionInv, IInv, TypeOK
  <2>1. CASE \E w \in Workers, r \in Runs :
               OfferRun(w, r) \/ DeliverOffer(w, r) \/ DeliverStop(w, r)
    BY <2>1, <2>t, DiscoveryTypes
  <2>2. CASE \E r \in Runs : StopRun(r)
    BY <2>2, <2>t, StopTypes
  <2>3. CASE \E t \in Threads : ThreadStep(t)
    BY <2>3, <2>t, ThreadTypes
  <2>4. CASE \E t \in Threads : GiveUp(t)
    BY <2>4, <2>t, GiveUpTypes
  <2>5. CASE \E c \in calls : Answer(c) \/ ServeUnattended(c) \/ AnswerError(c)
    BY <2>5, <2>t, AnswerTypes
  <2>6. CASE \E w \in Workers : Crash(w)
    BY <2>6, <2>t, CrashTypes
  <2>7. CASE ServerStep \/ UNCHANGED allVars
    BY <2>7, <2>t DEF ServerStep, allVars, workerVars, WorkerTypes, BusyHasJob
  <2> QED BY <2>1, <2>2, <2>3, <2>4, <2>5, <2>6, <2>7 DEF RunnerNext
<1>4. faults' \in 0 .. MaxFaults /\ crashes' \in 0 .. MaxCrashes
  <2>1. CASE Fault /\ UNCHANGED crashes
    BY <2>1, RunnerAssumption DEF Fault, CompositionInv
  <2>2. CASE crashes < MaxCrashes /\ crashes' = crashes + 1 /\ UNCHANGED faults
    BY <2>2, RunnerAssumption DEF CompositionInv
  <2>3. CASE UNCHANGED <<faults, crashes>>
    BY <2>3 DEF CompositionInv
  <2>4. ASSUME NEW t \in Threads, ThreadStep(t) PROVE UNCHANGED <<faults, crashes>>
    BY <2>4 DEF ThreadStep, TakeJob, Mint, ConfirmClaim, PostProgress, EndStage, InitUpload,
       Upload, ReportDone, ReportFailed
  <2>5. ASSUME NEW c \in calls, Answer(c) \/ ServeUnattended(c) PROVE UNCHANGED <<faults, crashes>>
    BY <2>5 DEF Answer, ServeUnattended
  <2>6. ASSUME NEW c \in calls, AnswerError(c) PROVE Fault /\ UNCHANGED crashes
    BY <2>6 DEF AnswerError
  <2>7. ASSUME NEW t \in Threads, GiveUp(t) PROVE Fault /\ UNCHANGED crashes
    BY <2>7 DEF GiveUp
  <2>8. ASSUME NEW w \in Workers, Crash(w)
        PROVE  crashes < MaxCrashes /\ crashes' = crashes + 1 /\ UNCHANGED faults
    BY <2>8 DEF Crash
  <2>9. ASSUME NEW w \in Workers, NEW r \in Runs,
               OfferRun(w, r) \/ DeliverOffer(w, r) \/ DeliverStop(w, r)
        PROVE  UNCHANGED <<faults, crashes>>
    BY <2>9 DEF OfferRun, DeliverOffer, DeliverStop
  <2>10. ASSUME NEW r \in Runs, StopRun(r) PROVE UNCHANGED <<faults, crashes>>
    BY <2>10 DEF StopRun
  <2>11. ASSUME ServerStep \/ UNCHANGED allVars PROVE UNCHANGED <<faults, crashes>>
    BY <2>11 DEF ServerStep, allVars
  <2> QED BY <2>1, <2>2, <2>3, <2>4, <2>5, <2>6, <2>7, <2>8, <2>9, <2>10, <2>11 DEF RunnerNext
<1> QED BY <1>1, <1>2, <1>3, <1>4 DEF CompositionInv

LEMMA CompositionHolds == RunnerSpec => []CompositionInv
  BY CompositionInit, CompositionStep, PTL DEF RunnerSpec

\* The worker's queue, threads, tokens and messages always have the types the
\* code gives them; a stop is only ever pushed to the key of a worker.
THEOREM RunnerTypeCorrect == RunnerSpec => []RunnerTypeOK
<1>1. CompositionInv => RunnerTypeOK
  BY DEF CompositionInv, IInv, RunnerTypeOK, WorkerTypes
<1> QED BY <1>1, CompositionHolds, PTL

\* Workers and control plane together do only what the control plane alone
\* allows to any holder of tokens.
THEOREM WorkersKeepToTheProtocol == RunnerSpec => Spec
<1>1. RunnerInit => Init
  BY DEF RunnerInit
<1> QED BY <1>1, CompositionStep, CompositionHolds, PTL DEF RunnerSpec, Spec

\* So with real workers too, a run passes through the abstract lifecycle.
THEOREM RunnerImplementsLifecycle == RunnerSpec => ImplementsLifecycle
  BY WorkersKeepToTheProtocol, ControlPlaneImplementsLifecycle, PTL

-------------------------------------------------------------------------------
(* One thread per attempt.  Within a worker, the queue and the threads hold *)
(* each run at most once, because all of them are in seen; between workers, *)
(* a thread at work has a token, and the token of a row's jti belongs to    *)
(* the row's owner.                                                         *)

Busy(t) == pc[t] # "idle"

QueueInv ==
    \A w \in Workers :
        /\ \A i \in 1 .. Len(queue[w]) : queue[w][i] \in seen[w]
        /\ \A i, j \in 1 .. Len(queue[w]) : queue[w][i] = queue[w][j] => i = j

ThreadInv ==
    \A t \in Threads : Busy(t) =>
        /\ job[t] \in seen[WorkerOf(t)]
        /\ \A i \in 1 .. Len(queue[WorkerOf(t)]) : queue[WorkerOf(t)][i] # job[t]
        /\ \A u \in Threads : Busy(u) /\ WorkerOf(u) = WorkerOf(t) /\ job[u] = job[t] => u = t

TokenInv == \A t \in Threads : pc[t] \in Holding => Holds(t) \in tokens

AttemptInv == QueueInv /\ ThreadInv /\ TokenInv

\* A busy thread goes on, keeping its run; if it is then at work, it has a token.
Moves(t) ==
    /\ Busy(t)
    /\ \E place \in {"mint"} \cup Waiting \cup Holding :
          /\ pc' = [pc EXCEPT ![t] = place]
          /\ place \in Holding => Token(WorkerOf(t), job[t], tok'[t]) \in tokens'
    /\ \A u \in Threads \ {t} : tok'[u] = tok[u]
    /\ UNCHANGED <<queue, seen, job>>

Leaves(t) == Busy(t) /\ Finish(t) /\ UNCHANGED queue

LEMMA MovesKeep ==
  ASSUME WorkerTypes, AttemptInv, tokens \subseteq tokens', NEW t \in Threads, Moves(t)
  PROVE  AttemptInv'
<1>1. \A u \in Threads : Busy(u)' <=> Busy(u)
  BY DEF Moves, Busy, WorkerTypes, Waiting, Holding, InStage
<1>2. QueueInv'
  BY DEF AttemptInv, QueueInv, Moves
<1>3. ThreadInv'
  BY <1>1 DEF AttemptInv, ThreadInv, Moves
<1>4. TokenInv'
  <2> SUFFICES ASSUME NEW u \in Threads, pc'[u] \in Holding
               PROVE  Token(WorkerOf(u), job'[u], tok'[u]) \in tokens'
    BY DEF TokenInv, Holds
  <2>1. CASE u = t
    BY <2>1 DEF Moves, WorkerTypes
  <2>2. CASE u # t
    BY <2>2 DEF Moves, WorkerTypes, AttemptInv, TokenInv, Holds
  <2> QED BY <2>1, <2>2
<1> QED BY <1>2, <1>3, <1>4 DEF AttemptInv

LEMMA LeavesKeep ==
  ASSUME WorkerTypes, AttemptInv, tokens \subseteq tokens', NEW t \in Threads, Leaves(t)
  PROVE  AttemptInv'
<1>w. WorkerOf(t) \in Workers /\ \A u \in Threads : WorkerOf(u) \in Workers
  BY DEF Threads, WorkerOf
<1>1. ~ Busy(t)' /\ \A u \in Threads \ {t} : (Busy(u)' <=> Busy(u)) /\ job'[u] = job[u] /\ tok'[u] = tok[u] /\ pc'[u] = pc[u]
  BY DEF Leaves, Finish, Busy, WorkerTypes
<1>2. /\ seen'[WorkerOf(t)] = seen[WorkerOf(t)] \ {job[t]}
      /\ \A w \in Workers : w # WorkerOf(t) => seen'[w] = seen[w]
      /\ queue' = queue
  BY <1>w DEF Leaves, Finish, WorkerTypes
<1>3. QueueInv'
  BY <1>2 DEF AttemptInv, QueueInv, ThreadInv, Leaves
<1>4. ThreadInv'
  <2> SUFFICES ASSUME NEW u \in Threads, Busy(u)' PROVE
          /\ job'[u] \in seen'[WorkerOf(u)]
          /\ \A i \in 1 .. Len(queue'[WorkerOf(u)]) : queue'[WorkerOf(u)][i] # job'[u]
          /\ \A v \in Threads : Busy(v)' /\ WorkerOf(v) = WorkerOf(u) /\ job'[v] = job'[u] => v = u
    BY DEF ThreadInv
  <2>1. u # t /\ Busy(u) /\ job'[u] = job[u]
    BY <1>1
  <2>2. job[u] \in seen'[WorkerOf(u)]
    BY <1>w, <1>2, <2>1 DEF AttemptInv, ThreadInv, Leaves
  <2> QED BY <1>1, <1>2, <2>1, <2>2 DEF AttemptInv, ThreadInv
<1>5. TokenInv'
  BY <1>1 DEF AttemptInv, TokenInv, Holds, Busy, Holding, InStage
<1> QED BY <1>3, <1>4, <1>5 DEF AttemptInv

LEMMA EnqueueKeeps ==
  ASSUME WorkerTypes, AttemptInv, NEW w \in Workers, NEW r \in Runs, DeliverOffer(w, r)
  PROVE  AttemptInv'
<1>1. CASE r \in seen[w]
  BY <1>1 DEF DeliverOffer, Enqueue, AttemptInv, QueueInv, ThreadInv, TokenInv, Busy, Holds, vars
<1>2. CASE r \notin seen[w]
  <2>1. /\ queue' = [queue EXCEPT ![w] = Append(queue[w], r)]
        /\ seen' = [seen EXCEPT ![w] = seen[w] \cup {r}]
        /\ UNCHANGED <<pc, job, tok, tokens>>
    BY <1>2 DEF DeliverOffer, Enqueue, vars
  <2>2. queue[w] \in Seq(Runs)
    BY DEF WorkerTypes
  <2>3. /\ Len(queue'[w]) = Len(queue[w]) + 1
        /\ \A i \in 1 .. Len(queue[w]) : queue'[w][i] = queue[w][i]
        /\ queue'[w][Len(queue[w]) + 1] = r
    <3>1. queue'[w] = Append(queue[w], r)
      BY <2>1, Zenon DEF WorkerTypes
    <3> QED BY <2>2, <3>1
  <2>4. \A v \in Workers : v # w => queue'[v] = queue[v] /\ seen'[v] = seen[v]
    BY <2>1, Zenon DEF WorkerTypes
  <2>5. seen'[w] = seen[w] \cup {r}
    BY <2>1 DEF WorkerTypes
  <2>6. Len(queue[w]) \in Nat
    BY <2>2
  <2>7. QueueInv'
    <3> SUFFICES ASSUME NEW v \in Workers
                 PROVE  /\ \A i \in 1 .. Len(queue'[v]) : queue'[v][i] \in seen'[v]
                        /\ \A i, j \in 1 .. Len(queue'[v]) : queue'[v][i] = queue'[v][j] => i = j
      BY DEF QueueInv
    <3>1. CASE v # w
      BY <2>4, <3>1 DEF AttemptInv, QueueInv
    <3>2. CASE v = w
      <4> DEFINE L == Len(queue[w])
      <4>1. \A i \in 1 .. L + 1 : i \in 1 .. L \/ i = L + 1
        BY <2>6
      <4>2. /\ \A i \in 1 .. L : queue[w][i] \in seen[w] /\ queue[w][i] # r
            /\ \A i, j \in 1 .. L : queue[w][i] = queue[w][j] => i = j
        BY <1>2 DEF AttemptInv, QueueInv
      <4>3. \A i \in 1 .. L + 1 : queue'[w][i] \in seen'[w]
        BY <2>3, <2>5, <4>1, <4>2
      <4>4. \A i, j \in 1 .. L + 1 : queue'[w][i] = queue'[w][j] => i = j
        BY <2>3, <4>1, <4>2
      <4> QED BY <2>3, <3>2, <4>3, <4>4
    <3> QED BY <3>1, <3>2
  <2>8. ThreadInv'
    <3> SUFFICES ASSUME NEW t \in Threads, Busy(t)
                 PROVE  /\ job[t] \in seen'[WorkerOf(t)]
                        /\ \A i \in 1 .. Len(queue'[WorkerOf(t)]) : queue'[WorkerOf(t)][i] # job[t]
      BY <2>1 DEF ThreadInv, Busy, AttemptInv
    <3>1. WorkerOf(t) \in Workers
      BY DEF Threads, WorkerOf
    <3>2. CASE WorkerOf(t) # w
      BY <2>4, <3>1, <3>2 DEF AttemptInv, ThreadInv
    <3>3. CASE WorkerOf(t) = w
      BY <1>2, <2>3, <2>5, <2>6, <3>3 DEF AttemptInv, ThreadInv
    <3> QED BY <3>2, <3>3
  <2>9. TokenInv'
    BY <2>1 DEF AttemptInv, TokenInv, Holds
  <2> QED BY <2>7, <2>8, <2>9 DEF AttemptInv
<1> QED BY <1>1, <1>2

LEMMA TakeKeeps ==
  ASSUME WorkerTypes, AttemptInv, NEW t \in Threads, TakeJob(t)
  PROVE  AttemptInv'
<1> DEFINE w == WorkerOf(t)
           q == queue[w]
<1>w. w \in Workers /\ q \in Seq(Runs) /\ q # <<>> /\ Len(q) \in Nat \ {0}
  BY DEF TakeJob, WorkerTypes, Threads, WorkerOf
<1>1. /\ UNCHANGED <<seen, tok, tokens>>
      /\ pc' = [pc EXCEPT ![t] = "mint"] /\ job' = [job EXCEPT ![t] = Head(q)]
      /\ queue' = [queue EXCEPT ![w] = Tail(q)]
  BY DEF TakeJob, vars
<1>2. queue'[w] = Tail(q) /\ \A v \in Workers : v # w => queue'[v] = queue[v]
  BY <1>w, <1>1, Zenon DEF WorkerTypes
<1>3. /\ Head(q) = q[1] /\ Len(queue'[w]) = Len(q) - 1
      /\ \A i \in 1 .. Len(q) - 1 : queue'[w][i] = q[i + 1]
  BY <1>w, <1>2
<1>4. /\ job'[t] = Head(q) /\ ~ Busy(t) /\ Busy(t)' /\ pc'[t] \notin Holding
      /\ \A u \in Threads \ {t} : (Busy(u)' <=> Busy(u)) /\ job'[u] = job[u] /\ pc'[u] = pc[u]
  BY <1>1 DEF TakeJob, Busy, WorkerTypes, Holding, InStage
<1>5. QueueInv'
  <2> SUFFICES ASSUME NEW v \in Workers
               PROVE  /\ \A i \in 1 .. Len(queue'[v]) : queue'[v][i] \in seen[v]
                      /\ \A i, j \in 1 .. Len(queue'[v]) : queue'[v][i] = queue'[v][j] => i = j
    BY <1>1 DEF QueueInv
  <2>1. CASE v # w
    BY <1>2, <2>1 DEF AttemptInv, QueueInv
  <2>2. CASE v = w
    <3>1. \A i \in 1 .. Len(q) - 1 : i + 1 \in 1 .. Len(q)
      BY <1>w
    <3>2. /\ \A i \in 1 .. Len(q) : q[i] \in seen[w]
          /\ \A i, j \in 1 .. Len(q) : q[i] = q[j] => i = j
      BY <1>w DEF AttemptInv, QueueInv
    <3>3. ASSUME NEW i \in 1 .. Len(q) - 1, NEW j \in 1 .. Len(q) - 1, q[i + 1] = q[j + 1]
          PROVE  i = j
      <4>1. i + 1 = j + 1
        BY <3>1, <3>2, <3>3
      <4> QED BY <1>w, <4>1
    <3>4. \A i \in 1 .. Len(q) - 1 : queue'[w][i] = q[i + 1] /\ q[i + 1] \in seen[w]
      BY <1>3, <3>1, <3>2
    <3>5. \A i, j \in 1 .. Len(q) - 1 : queue'[w][i] = queue'[w][j] => i = j
      BY <3>3, <3>4
    <3> HIDE DEF q
    <3> QED BY <1>3, <2>2, <3>4, <3>5
  <2> QED BY <2>1, <2>2
<1>6. ThreadInv'
  <2> SUFFICES ASSUME NEW u \in Threads, Busy(u)' PROVE
          /\ job'[u] \in seen[WorkerOf(u)]
          /\ \A i \in 1 .. Len(queue'[WorkerOf(u)]) : queue'[WorkerOf(u)][i] # job'[u]
          /\ \A v \in Threads : Busy(v)' /\ WorkerOf(v) = WorkerOf(u) /\ job'[v] = job'[u] => v = u
    BY <1>1 DEF ThreadInv
  <2>u. WorkerOf(u) \in Workers
    BY DEF Threads, WorkerOf
  <2>1. 1 \in 1 .. Len(q) /\ \A i \in 1 .. Len(q) - 1 : i + 1 \in 1 .. Len(q) /\ i + 1 # 1
    BY <1>w
  <2>2. \A v \in Threads : Busy(v) /\ WorkerOf(v) = w => job[v] # q[1]
    BY <2>1 DEF AttemptInv, ThreadInv
  <2>3. CASE u = t
    <3>1. job'[u] \in seen[WorkerOf(u)]
      BY <1>w, <1>3, <1>4, <2>1, <2>3 DEF AttemptInv, QueueInv
    <3>2. \A i \in 1 .. Len(queue'[w]) : queue'[w][i] # job'[t]
      BY <1>w, <1>3, <1>4, <2>1 DEF AttemptInv, QueueInv
    <3> QED BY <1>3, <1>4, <2>2, <2>3, <3>1, <3>2
  <2>4. CASE u # t
    <3>1. Busy(u) /\ job'[u] = job[u]
      BY <1>4, <2>4
    <3>2. \A i \in 1 .. Len(queue'[WorkerOf(u)]) : queue'[WorkerOf(u)][i] # job[u]
      <4>1. CASE WorkerOf(u) = w
        <5>1. \A i \in 1 .. Len(q) : q[i] # job[u]
          BY <3>1, <4>1 DEF AttemptInv, ThreadInv
        <5> HIDE DEF q
        <5> QED BY <1>3, <2>1, <4>1, <5>1
      <4>2. CASE WorkerOf(u) # w
        BY <1>2, <2>u, <3>1, <4>2 DEF AttemptInv, ThreadInv
      <4> QED BY <4>1, <4>2
    <3> QED BY <1>3, <1>4, <2>2, <3>1, <3>2 DEF AttemptInv, ThreadInv
  <2> QED BY <2>3, <2>4
<1>7. TokenInv'
  BY <1>1, <1>4 DEF AttemptInv, TokenInv, Holds
<1> QED BY <1>5, <1>6, <1>7 DEF AttemptInv

LEMMA CrashKeeps ==
  ASSUME WorkerTypes, AttemptInv, NEW w \in Workers, Crash(w)
  PROVE  AttemptInv'
<1>1. /\ \A v \in Workers : v # w => queue'[v] = queue[v] /\ seen'[v] = seen[v]
      /\ queue'[w] = <<>>
  BY DEF Crash, WorkerTypes
<1>2. \A t \in Threads : \/ ~ Busy(t)' /\ pc'[t] \notin Holding
                         \/ WorkerOf(t) # w /\ pc'[t] = pc[t] /\ job'[t] = job[t] /\ tok'[t] = tok[t]
  BY DEF Crash, Busy, Holding, InStage
<1>3. Len(queue'[w]) = 0 /\ tokens' = tokens
  BY <1>1 DEF Crash, vars
<1>4. QueueInv'
  BY <1>1, <1>3 DEF AttemptInv, QueueInv
<1>5. ThreadInv'
  BY <1>1, <1>2 DEF AttemptInv, ThreadInv, Busy, Threads, WorkerOf
<1>6. TokenInv'
  BY <1>2, <1>3 DEF AttemptInv, TokenInv, Holds
<1> QED BY <1>4, <1>5, <1>6 DEF AttemptInv

\* Go from and to a place where the token is the same.
LEMMA GoMoves ==
  ASSUME WorkerTypes, AttemptInv, tokens \subseteq tokens', NEW t \in Threads,
         pc[t] \in Holding, NEW place \in Waiting \cup Holding, Go(t, place), UNCHANGED queue
  PROVE  Moves(t)
  BY DEF Moves, Go, Busy, Holding, InStage, AttemptInv, TokenInv, Holds

\* Tokens are issued and, on the time scale of this module, do not expire.
LEMMA CallTokens ==
  ASSUME NEW c, ClaimRun(c) \/ UpdateRunProgress(c) \/ CompleteRun(c) \/ FailCall(c)
  PROVE  tokens \subseteq tokens'
  BY DEF ClaimRun, UpdateRunProgress, CompleteRun, FailCall, rowVars

LEMMA ThreadShape ==
  ASSUME WorkerTypes, AttemptInv, NEW t \in Threads, ThreadStep(t)
  PROVE  TakeJob(t) \/ (tokens \subseteq tokens' /\ (Moves(t) \/ Leaves(t)))
<1>1. CASE Mint(t)
  <2>1. Busy(t) /\ UNCHANGED queue
    BY <1>1 DEF Mint, Busy
  <2>2. CASE MintRunToken(WorkerOf(t), job[t]) /\ pc' = [pc EXCEPT ![t] = "minting"]
             /\ tok' = [tok EXCEPT ![t] = lastId'] /\ UNCHANGED <<job, seen>>
    BY <2>1, <2>2 DEF Moves, MintRunToken, Waiting, Holding, InStage, WorkerTypes
  <2>3. CASE ReissueToken(WorkerOf(t), job[t]) /\ pc' = [pc EXCEPT ![t] = "claim"]
             /\ tok' = [tok EXCEPT ![t] = jti[job[t]]] /\ UNCHANGED <<job, seen>>
    BY <2>1, <2>3 DEF Moves, ReissueToken, Holding, WorkerTypes
  <2>4. CASE Finish(t) /\ UNCHANGED vars
    BY <2>1, <2>4 DEF Leaves, vars
  <2> QED BY <1>1, <2>2, <2>3, <2>4 DEF Mint
<1>2. CASE ConfirmClaim(t) \/ PostProgress(t) \/ EndStage(t) \/ InitUpload(t) \/ Upload(t)
           \/ ReportDone(t) \/ ReportFailed(t)
  <2>1. UNCHANGED tokens /\ UNCHANGED queue
    BY <1>2 DEF ConfirmClaim, PostProgress, EndStage, InitUpload, Upload, ReportDone, ReportFailed,
       BeginCall, ArtifactUploadInit, PutArtifact, vars
  <2>2. pc[t] \in Holding
    BY <1>2 DEF ConfirmClaim, PostProgress, EndStage, InitUpload, Upload, ReportDone, ReportFailed,
       Holding, InStage
  <2>3. Finish(t) \/ \E place \in Waiting \cup Holding : Go(t, place)
    BY <1>2 DEF ConfirmClaim, PostProgress, EndStage, InitUpload, Upload, ReportDone, ReportFailed,
       Waiting, Holding, InStage
  <2> QED BY <2>1, <2>2, <2>3, GoMoves DEF Leaves, Busy, Holding, InStage
<1> QED BY <1>1, <1>2 DEF ThreadStep

LEMMA GiveUpShape ==
  ASSUME WorkerTypes, AttemptInv, NEW t \in Threads, GiveUp(t)
  PROVE  tokens \subseteq tokens' /\ (Moves(t) \/ Leaves(t))
<1>1. UNCHANGED tokens /\ UNCHANGED queue
  BY DEF GiveUp, PutArtifact, vars
<1>2. CASE Finish(t) /\ Busy(t)
  BY <1>1, <1>2 DEF Leaves
<1>3. CASE pc[t] \in Holding /\ \E place \in {"stage", "fail"} : Go(t, place)
  BY <1>1, <1>3, GoMoves DEF Holding, InStage
<1> QED BY <1>2, <1>3 DEF GiveUp, Busy, Holding, InStage

LEMMA AnswerShape ==
  ASSUME WorkerTypes, AttemptInv, TypeOK, NEW c \in calls, Answer(c) \/ AnswerError(c)
  PROVE  tokens \subseteq tokens' /\ \E t \in Threads : Moves(t) \/ Leaves(t)
<1>1. CASE Answer(c)
  <2>1. PICK t \in Threads :
            Waits(t, c) /\ (AnswerMint(t, c) \/ AnswerProgress(t, c) \/ AnswerComplete(t, c))
    BY <1>1 DEF Answer
  <2>2. tokens \subseteq tokens' /\ Busy(t) /\ UNCHANGED queue
    BY <1>1, <2>1, CallTokens, RecordTypes
       DEF Answer, AnswerMint, AnswerProgress, AnswerComplete, Waits, CallOps, Busy
  <2>3. CASE AnswerMint(t, c)
    <3>1. CASE status[c.run] \in Claimable
      <4>1. Token(WorkerOf(t), job[t], tok[t]) \in tokens'
        BY <2>1, <2>3, <3>1 DEF AnswerMint, ClaimRun, Waits
      <4> QED BY <2>2, <2>3, <3>1, <4>1 DEF AnswerMint, Go, Moves, Holding
    <3>2. CASE status[c.run] \notin Claimable
      BY <2>2, <2>3, <3>2 DEF AnswerMint, Leaves
    <3> QED BY <2>2, <3>1, <3>2
  <2>4. CASE AnswerProgress(t, c)
    <3>1. pc[t] \in Holding
      BY <2>1, <2>4 DEF AnswerProgress, UpdateRunProgress, Waits, Holding, InStage
    <3> QED BY <2>2, <2>4, <3>1, GoMoves DEF AnswerProgress, Leaves, Holding, InStage
  <2>5. CASE AnswerComplete(t, c)
    BY <2>2, <2>5 DEF AnswerComplete, Leaves
  <2> QED BY <2>1, <2>3, <2>4, <2>5, <2>2
<1>2. CASE AnswerError(c)
  <2>1. PICK t \in Threads :
            Waits(t, c) /\ IF c.op = "progress" THEN Go(t, "stage") ELSE Finish(t)
    BY <1>2 DEF AnswerError
  <2>2. UNCHANGED tokens /\ Busy(t) /\ UNCHANGED queue
    BY <1>2, <2>1, RecordTypes DEF AnswerError, FailCall, Waits, CallOps, Busy
  <2>3. CASE c.op = "progress"
    <3>1. pc[t] \in Holding
      BY <2>1, <2>3 DEF Waits, Holding, InStage
    <3> QED BY <2>1, <2>2, <2>3, <3>1, GoMoves DEF Holding, InStage
  <2>4. CASE c.op # "progress"
    BY <2>1, <2>2, <2>4 DEF Leaves
  <2> QED BY <2>3, <2>4
<1> QED BY <1>1, <1>2

LEMMA AttemptStep ==
    CompositionInv /\ AttemptInv /\ [RunnerNext]_allVars => AttemptInv'
<1> SUFFICES ASSUME CompositionInv, AttemptInv, [RunnerNext]_allVars PROVE AttemptInv'
  OBVIOUS
<1>t. WorkerTypes /\ TypeOK
  BY DEF CompositionInv, IInv
<1>q. ASSUME UNCHANGED <<queue, seen, pc, job, tok>>, tokens \subseteq tokens' PROVE AttemptInv'
  BY <1>q DEF AttemptInv, QueueInv, ThreadInv, TokenInv, Busy, Holds
<1>1. ASSUME NEW w \in Workers, NEW r \in Runs, OfferRun(w, r) \/ DeliverStop(w, r) PROVE AttemptInv'
  BY <1>1, <1>q DEF OfferRun, DeliverStop, vars
<1>2. ASSUME NEW w \in Workers, NEW r \in Runs, DeliverOffer(w, r) PROVE AttemptInv'
  BY <1>2, <1>t, EnqueueKeeps
<1>3. ASSUME NEW r \in Runs, StopRun(r) PROVE AttemptInv'
  BY <1>3, <1>q DEF StopRun, RequestStop
<1>4. ASSUME NEW t \in Threads, ThreadStep(t) PROVE AttemptInv'
  BY <1>4, <1>t, ThreadShape, TakeKeeps, MovesKeep, LeavesKeep
<1>5. ASSUME NEW t \in Threads, GiveUp(t) PROVE AttemptInv'
  BY <1>5, <1>t, GiveUpShape, MovesKeep, LeavesKeep
<1>6. ASSUME NEW c \in calls, Answer(c) \/ AnswerError(c) PROVE AttemptInv'
  BY <1>6, <1>t, AnswerShape, MovesKeep, LeavesKeep
<1>7. ASSUME NEW c \in calls, ServeUnattended(c) PROVE AttemptInv'
  BY <1>7, <1>q, CallTokens DEF ServeUnattended, workerVars
<1>8. ASSUME NEW w \in Workers, Crash(w) PROVE AttemptInv'
  BY <1>8, <1>t, CrashKeeps
<1>9. CASE ServerStep
  BY <1>9, <1>q DEF ServerStep, workerVars, CreateRun, RetryRun, AgeClaim, SweepTimedOut, ExpireUrl
<1>10. CASE UNCHANGED allVars
  BY <1>10, <1>q DEF allVars, workerVars, vars
<1> QED BY <1>1, <1>2, <1>3, <1>4, <1>5, <1>6, <1>7, <1>8, <1>9, <1>10 DEF RunnerNext

LEMMA AttemptInit == RunnerInit => AttemptInv
<1> SUFFICES ASSUME RunnerInit PROVE AttemptInv
  OBVIOUS
<1>1. \A w \in Workers : Len(queue[w]) = 0
  BY DEF RunnerInit
<1> QED BY <1>1 DEF RunnerInit, AttemptInv, QueueInv, ThreadInv, TokenInv, Busy, Holding, InStage

\* Two threads never work on the same attempt, however many workers, threads,
\* late offers, failed calls and killed processes there are.
THEOREM OneThread == RunnerSpec => []OneThreadPerAttempt
<1>1. CompositionInv /\ AttemptInv => OneThreadPerAttempt
  <2> SUFFICES ASSUME CompositionInv, AttemptInv, NEW r \in Runs,
                      NEW t1 \in Threads, NEW t2 \in Threads, WorksOn(t1, r), WorksOn(t2, r)
               PROVE  t1 = t2
    BY DEF OneThreadPerAttempt
  <2>1. owner[r] = WorkerOf(t1) /\ owner[r] = WorkerOf(t2)
    BY DEF CompositionInv, IInv, OwnerInv, AttemptInv, TokenInv, WorksOn, Holds, Token
  <2>2. Busy(t1) /\ Busy(t2)
    BY DEF WorksOn, Busy, Holding, InStage
  <2> QED BY <2>1, <2>2 DEF AttemptInv, ThreadInv, WorksOn
<1> QED BY <1>1, AttemptInit, AttemptStep, CompositionHolds, PTL DEF RunnerSpec

-------------------------------------------------------------------------------
(* A started run is worked on.  While no request fails and no process dies,  *)
(* a mint that is under way has a thread that waits for it, and a thread     *)
(* that reports "done" has its artifact in storage: a claim always reaches a *)
(* thread, and a thread only leaves a run that has ended or been taken away. *)

Awaited == \A c \in calls : c.op = "mint" => \E t \in Threads : Waits(t, c)

Stored == \A t \in Threads : pc[t] \in {"complete", "completing"} => blob[job[t]] # NoId

Worked == \A r \in Runs : status[r] \in Active => \E t \in Threads : WorksOn(t, r)

WorkInv == faults = 0 /\ crashes = 0 => Awaited /\ Stored /\ Worked

\* t's step leaves the other threads where they are.
OnlyMoves(t) == \A u \in Threads \ {t} : pc'[u] = pc[u] /\ job'[u] = job[u] /\ tok'[u] = tok[u]

\* A run in progress stays with the thread that works on it.
LEMMA WorkedElsewhere ==
  ASSUME Worked, NEW t \in Threads, OnlyMoves(t),
         \A r \in Runs : status'[r] \in Active =>
             \/ WorksOn(t, r)'
             \/ status[r] \in Active /\ jti'[r] = jti[r] /\ ~ WorksOn(t, r)
  PROVE  Worked'
  BY DEF Worked, WorksOn, OnlyMoves

LEMMA AwaitedElsewhere ==
  ASSUME Awaited, NEW t \in Threads, OnlyMoves(t), pc[t] # "minting",
         \A c \in calls' : c.op = "mint" => c \in calls \/ \E u \in Threads : Waits(u, c)'
  PROVE  Awaited'
  BY DEF Awaited, Waits, OnlyMoves

LEMMA StoredElsewhere ==
  ASSUME WorkerTypes, Stored, NEW t \in Threads, OnlyMoves(t),
         \A r \in Runs : blob[r] # NoId => blob'[r] # NoId,
         pc'[t] \in {"complete", "completing"} => blob'[job'[t]] # NoId
  PROVE  Stored'
  BY DEF Stored, OnlyMoves, WorkerTypes, BusyHasJob

LEMMA ThreadMoves ==
  ASSUME WorkerTypes, NEW t \in Threads,
         \/ Finish(t)
         \/ \E place \in {"mint"} \cup Waiting \cup Holding : Go(t, place)
  PROVE  OnlyMoves(t)
  BY DEF OnlyMoves, Finish, Go, WorkerTypes

Busied == Awaited /\ Stored /\ Worked

\* A thread goes from one place of work to another, or leaves a run that it
\* has lost or never had; it makes at most a call with its own token.
LEMMA PlainStep ==
  ASSUME WorkerTypes, Busied, NEW t \in Threads, UNCHANGED <<status, jti, blob>>,
         \A c \in calls' : c \in calls \/ c.op # "mint",
         \/ \E place \in (Waiting \cup Holding) \ {"minting"} :
               /\ Go(t, place) /\ pc[t] \in Holding /\ place \in Holding
               /\ place \in {"complete", "completing"} => pc[t] \in {"complete", "completing"}
         \/ Finish(t) /\ pc[t] # "minting" /\ (pc[t] \in Holding => ~ StillHolds(t))
  PROVE  Busied'
<1> USE DEF Busied
<1>0. /\ OnlyMoves(t) /\ pc[t] # "minting"
      /\ \A c \in calls' : c.op = "mint" => c \in calls
  <2>1. pc[t] # "minting"
    BY DEF Holding, InStage
  <2> QED BY <2>1, ThreadMoves
<1>1. CASE \E place \in (Waiting \cup Holding) \ {"minting"} :
               /\ Go(t, place) /\ pc[t] \in Holding /\ place \in Holding
               /\ place \in {"complete", "completing"} => pc[t] \in {"complete", "completing"}
  <2>1. PICK place \in Holding : /\ Go(t, place) /\ pc[t] \in Holding
                                 /\ place \in {"complete", "completing"} => pc[t] \in {"complete", "completing"}
    BY <1>1
  <2>2. pc'[t] = place /\ job'[t] = job[t] /\ tok'[t] = tok[t]
    BY <2>1 DEF Go, WorkerTypes
  <2>3. Worked'
    BY <1>0, <2>1, <2>2, WorkedElsewhere DEF WorksOn
  <2>4. Stored'
    BY <1>0, <2>1, <2>2, StoredElsewhere DEF Stored
  <2> QED BY <1>0, <2>3, <2>4, AwaitedElsewhere
<1>2. CASE Finish(t) /\ pc[t] # "minting" /\ (pc[t] \in Holding => ~ StillHolds(t))
  <2>1. pc'[t] = "idle"
    BY <1>2 DEF Finish, WorkerTypes
  <2>2. Worked'
    BY <1>0, <1>2, WorkedElsewhere DEF WorksOn, StillHolds
  <2>3. Stored'
    BY <1>0, <2>1, StoredElsewhere
  <2> QED BY <1>0, <2>2, <2>3, AwaitedElsewhere
<1> QED BY <1>1, <1>2

LEMMA MintWork ==
  ASSUME CompositionInv, Busied, NEW t \in Threads, Mint(t)
  PROVE  Busied'
<1> USE DEF Busied
<1>0. WorkerTypes /\ TypeOK /\ pc[t] = "mint" /\ pc[t] \notin Holding
  BY DEF CompositionInv, IInv, Mint, Holding, InStage
<1>1. CASE MintRunToken(WorkerOf(t), job[t]) /\ pc' = [pc EXCEPT ![t] = "minting"]
           /\ tok' = [tok EXCEPT ![t] = lastId'] /\ UNCHANGED <<job, seen>>
  <2>c. PICK c : c = [op |-> "mint", worker |-> WorkerOf(t), run |-> job[t], jti |-> lastId']
    OBVIOUS
  <2>1. /\ OnlyMoves(t) /\ UNCHANGED <<status, jti, blob>>
        /\ calls' = calls \cup {c}
        /\ pc'[t] = "minting" /\ job'[t] = job[t] /\ tok'[t] = lastId'
    BY <1>0, <1>1, <2>c DEF MintRunToken, Receive, rowVars, OnlyMoves, WorkerTypes
  <2>2. Waits(t, c)'
    <3>1. c.op = "mint" /\ c.worker = WorkerOf(t) /\ c.run = job[t] /\ c.jti = lastId'
      BY <2>c
    <3> QED BY <2>1, <3>1 DEF Waits
  <2>3. Awaited'
    BY <1>0, <2>1, <2>2, AwaitedElsewhere
  <2>4. Worked'
    BY <1>0, <2>1, WorkedElsewhere DEF WorksOn
  <2>5. Stored'
    BY <1>0, <2>1, StoredElsewhere
  <2> QED BY <2>3, <2>4, <2>5
<1>2. CASE ReissueToken(WorkerOf(t), job[t]) /\ pc' = [pc EXCEPT ![t] = "claim"]
           /\ tok' = [tok EXCEPT ![t] = jti[job[t]]] /\ UNCHANGED <<job, seen>>
  <2>1. /\ OnlyMoves(t) /\ UNCHANGED <<status, jti, blob, calls>>
        /\ pc'[t] = "claim"
    BY <1>0, <1>2 DEF ReissueToken, rowVars, OnlyMoves, WorkerTypes
  <2>3. Awaited'
    BY <1>0, <2>1, AwaitedElsewhere
  <2>4. Worked'
    BY <1>0, <2>1, WorkedElsewhere DEF WorksOn
  <2>5. Stored'
    BY <1>0, <2>1, StoredElsewhere
  <2> QED BY <2>3, <2>4, <2>5
<1>3. CASE Finish(t) /\ UNCHANGED vars
  BY <1>0, <1>3, PlainStep DEF vars, rowVars
<1> QED BY <1>1, <1>2, <1>3 DEF Mint

LEMMA UploadWork ==
  ASSUME CompositionInv, Busied, NEW t \in Threads, Upload(t)
  PROVE  Busied'
<1> USE DEF Busied
<1> DEFINE u == [run |-> job[t], jti |-> tok[t]]
<1>0. WorkerTypes /\ TypeOK /\ pc[t] = "put" /\ pc[t] \in Holding
  BY DEF CompositionInv, IInv, Upload, Holding, InStage
<1>1. CASE u \in urls /\ PutArtifact(u) /\ Go(t, "complete")
  <2>1. u.run = job[t] /\ u.jti = tok[t] /\ u.run \in Runs /\ u.jti \in Ids
    BY <1>0, <1>1, RecordTypes
  <2> HIDE DEF u
  <2>2. /\ OnlyMoves(t) /\ UNCHANGED <<status, jti, calls>>
        /\ pc'[t] = "complete" /\ job'[t] = job[t] /\ tok'[t] = tok[t]
        /\ blob' = [blob EXCEPT ![job[t]] = u.jti]
    BY <1>0, <1>1, <2>1 DEF PutArtifact, rowVars, OnlyMoves, WorkerTypes, Go
  <2>3. u.jti # NoId
    BY <2>1 DEF NoId, Ids
  <2>4. blob'[job[t]] # NoId /\ \A r \in Runs : blob[r] # NoId => blob'[r] # NoId
    BY <1>0, <2>1, <2>2, <2>3 DEF TypeOK
  <2>5. Stored'
    BY <1>0, <2>2, <2>4, StoredElsewhere
  <2>6. Worked'
    BY <1>0, <2>2, WorkedElsewhere DEF WorksOn, Holding, InStage
  <2>7. Awaited'
    BY <1>0, <2>2, AwaitedElsewhere
  <2> QED BY <2>5, <2>6, <2>7
<1>2. CASE UNCHANGED vars /\ Go(t, "fail")
  BY <1>0, <1>2, PlainStep DEF vars, rowVars, Holding, InStage
<1> QED BY <1>1, <1>2 DEF Upload

LEMMA ThreadWork ==
  ASSUME CompositionInv, Busied, NEW t \in Threads, ThreadStep(t)
  PROVE  Busied'
<1>0. WorkerTypes
  BY DEF CompositionInv
<1>1. CASE TakeJob(t)
  <2>1. /\ OnlyMoves(t) /\ UNCHANGED <<status, jti, blob, calls>>
        /\ pc[t] = "idle" /\ pc'[t] = "mint"
    BY <1>0, <1>1 DEF TakeJob, vars, rowVars, OnlyMoves, WorkerTypes
  <2>2. Awaited'
    BY <2>1, AwaitedElsewhere DEF Busied
  <2>3. Worked'
    BY <2>1, WorkedElsewhere DEF Busied, WorksOn, Holding, InStage
  <2>4. Stored'
    BY <1>0, <2>1, StoredElsewhere DEF Busied
  <2> QED BY <2>2, <2>3, <2>4 DEF Busied
<1>2. CASE ConfirmClaim(t) \/ PostProgress(t) \/ EndStage(t) \/ InitUpload(t) \/ ReportDone(t) \/ ReportFailed(t)
  <2>1. UNCHANGED <<status, jti, blob>> /\ \A c \in calls' : c \in calls \/ c.op # "mint"
    BY <1>2 DEF ConfirmClaim, PostProgress, EndStage, InitUpload, ReportDone, ReportFailed,
       BeginCall, Receive, ArtifactUploadInit, vars, rowVars
  <2>2. \/ Finish(t) /\ pc[t] \in Holding /\ ~ StillHolds(t)
        \/ \E place \in (Waiting \cup Holding) \ {"minting"} :
               /\ Go(t, place) /\ pc[t] \in Holding /\ place \in Holding
               /\ place \in {"complete", "completing"} => pc[t] \in {"complete", "completing"}
    BY <1>2 DEF ConfirmClaim, PostProgress, EndStage, InitUpload, ReportDone, ReportFailed, Waiting, Holding, InStage
  <2> QED BY <1>0, <2>1, <2>2, PlainStep DEF Holding, InStage
<1> QED BY <1>1, <1>2, MintWork, UploadWork DEF ThreadStep

\* Two calls a thread could be waiting for are one if one of them is a mint.
LEMMA WaitsOnce ==
  ASSUME TypeOK, FreshInv, NEW t \in Threads, NEW c \in calls, NEW d \in calls,
         Waits(t, c), Waits(t, d), d.op = "mint"
  PROVE  c = d
<1>1. c.op \in CallOps
  BY RecordTypes
<1>2. c.op = "mint" /\ c.jti = d.jti
  BY <1>1 DEF Waits, CallOps
<1> QED BY <1>2 DEF FreshInv

\* The answer takes the call away and moves the thread that waited for it.
LEMMA AwaitedAnswered ==
  ASSUME TypeOK, FreshInv, Awaited, NEW c \in calls, calls' = calls \ {c},
         NEW t \in Threads, Waits(t, c), OnlyMoves(t)
  PROVE  Awaited'
<1> SUFFICES ASSUME NEW d \in calls', d.op = "mint" PROVE \E u \in Threads : Waits(u, d)'
  BY DEF Awaited
<1>1. PICK u \in Threads : Waits(u, d)
  BY DEF Awaited
<1>2. u # t
  BY <1>1, WaitsOnce
<1> QED BY <1>1, <1>2 DEF Waits, OnlyMoves

LEMMA AnswerWork ==
  ASSUME CompositionInv, Busied, NEW c \in calls, Answer(c)
  PROVE  Busied'
<1> USE DEF Busied
<1>0. WorkerTypes /\ TypeOK /\ FreshInv
  BY DEF CompositionInv, IInv
<1>1. PICK t \in Threads :
          Waits(t, c) /\ (AnswerMint(t, c) \/ AnswerProgress(t, c) \/ AnswerComplete(t, c))
  BY DEF Answer
<1>2. /\ c.run \in Runs /\ c.jti \in Ids /\ job[t] = c.run /\ tok[t] = c.jti
      /\ calls' = calls \ {c} /\ OnlyMoves(t)
  <2>1. Finish(t) \/ Go(t, "claim") \/ Go(t, "stage")
    BY <1>1 DEF AnswerMint, AnswerProgress, AnswerComplete
  <2>2. OnlyMoves(t)
    BY <1>0, <2>1, ThreadMoves DEF Holding, InStage
  <2> QED BY <1>0, <1>1, <2>2, RecordTypes DEF Waits, AnswerMint, AnswerProgress, AnswerComplete,
             ClaimRun, UpdateRunProgress, CompleteRun
<1>3. Awaited'
  BY <1>0, <1>1, <1>2, AwaitedAnswered
<1>4. Stored'
  <2>1. pc'[t] \notin {"complete", "completing"} /\ blob' = blob
    BY <1>0, <1>1 DEF AnswerMint, AnswerProgress, AnswerComplete, Finish, Go, WorkerTypes,
       ClaimRun, UpdateRunProgress, CompleteRun
  <2> QED BY <1>0, <1>2, <2>1, StoredElsewhere
<1>5. Worked'
  <2>1. CASE AnswerMint(t, c)
    <3>1. pc[t] \notin Holding
      BY <1>1, <2>1 DEF AnswerMint, ClaimRun, Waits, Holding, InStage
    <3>2. CASE status[c.run] \in Claimable
      <4>1. WorksOn(t, c.run)'
        BY <1>0, <1>2, <2>1, <3>2 DEF AnswerMint, ClaimRun, Go, WorksOn, WorkerTypes, TypeOK, Holding
      <4>2. \A r \in Runs \ {c.run} : status'[r] = status[r] /\ jti'[r] = jti[r]
        BY <1>0, <1>2, <2>1, <3>2 DEF AnswerMint, ClaimRun, TypeOK
      <4> QED BY <1>2, <3>1, <4>1, <4>2, WorkedElsewhere DEF WorksOn
    <3>3. CASE status[c.run] \notin Claimable
      BY <1>2, <2>1, <3>1, <3>3, WorkedElsewhere DEF AnswerMint, ClaimRun, rowVars, WorksOn
    <3> QED BY <3>2, <3>3
  <2>2. CASE AnswerProgress(t, c)
    <3>1. UNCHANGED <<status, jti>> /\ pc[t] = "posting"
      BY <1>1, <2>2 DEF AnswerProgress, UpdateRunProgress, Waits
    <3>2. CASE status[c.run] \in Active
      <4>1. pc'[t] = "stage" /\ job'[t] = job[t] /\ tok'[t] = tok[t]
        BY <1>0, <2>2, <3>2 DEF AnswerProgress, Go, WorkerTypes
      <4> QED BY <1>2, <3>1, <4>1, WorkedElsewhere DEF WorksOn, Holding, InStage
    <3>3. CASE status[c.run] \notin Active
      BY <1>2, <3>1, <3>3, WorkedElsewhere DEF WorksOn
    <3> QED BY <3>2, <3>3
  <2>3. CASE AnswerComplete(t, c)
    <3>1. c.op = "done" => blob[c.run] # NoId
      BY <1>1, <1>2 DEF Stored, Waits
    <3>2. status'[c.run] \notin Active
      BY <1>0, <1>2, <2>3, <3>1 DEF AnswerComplete, CompleteRun, TypeOK, Active
    <3>3. jti' = jti /\ \A r \in Runs \ {c.run} : status'[r] = status[r]
      BY <1>0, <1>2, <2>3 DEF AnswerComplete, CompleteRun, TypeOK
    <3> QED BY <1>2, <3>2, <3>3, WorkedElsewhere DEF WorksOn
  <2> QED BY <1>1, <2>1, <2>2, <2>3
<1> QED BY <1>3, <1>4, <1>5

\* What leaves the threads alone may end a run, but not start one.
LEMMA IdleWork ==
  ASSUME Busied, UNCHANGED <<pc, job, tok, blob>>,
         \A c \in calls' : c.op = "mint" => c \in calls,
         \A r \in Runs : status'[r] \in Active => status[r] \in Active /\ jti'[r] = jti[r]
  PROVE  Busied'
  BY DEF Busied, Awaited, Stored, Worked, Waits, WorksOn

LEMMA WorkStep ==
    CompositionInv /\ WorkInv /\ [RunnerNext]_allVars => WorkInv'
<1> SUFFICES ASSUME CompositionInv, WorkInv, [RunnerNext]_allVars, faults' = 0, crashes' = 0
             PROVE  Busied'
  BY DEF WorkInv, Busied
<1>t. WorkerTypes /\ TypeOK /\ faults \in Nat /\ crashes \in Nat
  BY RunnerAssumption DEF CompositionInv, IInv
\* A failed call or a killed process is counted.
<1>f. ~ Fault
  BY <1>t DEF Fault
<1>g. ASSUME faults' = faults, crashes' = crashes PROVE Busied
  BY <1>g DEF WorkInv, Busied
<1>1. ASSUME NEW w \in Workers, NEW r \in Runs,
             OfferRun(w, r) \/ DeliverOffer(w, r) \/ DeliverStop(w, r)
      PROVE  Busied'
  BY <1>1, <1>g, IdleWork DEF OfferRun, DeliverOffer, DeliverStop, vars, rowVars
<1>2. ASSUME NEW r \in Runs, StopRun(r) PROVE Busied'
  <2>1. \A q \in Runs : status'[q] \in Active => status[q] \in Active
    BY <1>2, <1>t DEF StopRun, RequestStop, TypeOK, Active
  <2> QED BY <1>2, <1>g, <2>1, IdleWork DEF StopRun, RequestStop
<1>3. ASSUME NEW t \in Threads, ThreadStep(t) PROVE Busied'
  <2>1. UNCHANGED <<faults, crashes>>
    BY <1>3 DEF ThreadStep, TakeJob, Mint, ConfirmClaim, PostProgress, EndStage, InitUpload,
       Upload, ReportDone, ReportFailed
  <2> QED BY <1>3, <1>g, <2>1, ThreadWork
<1>4. ASSUME NEW t \in Threads, GiveUp(t) PROVE FALSE
  BY <1>4, <1>f DEF GiveUp
<1>5. ASSUME NEW c \in calls, Answer(c) PROVE Busied'
  BY <1>5, <1>g, AnswerWork DEF Answer
<1>6. ASSUME NEW c \in calls, AnswerError(c) PROVE FALSE
  BY <1>6, <1>f DEF AnswerError
<1>7. ASSUME NEW c \in calls, ServeUnattended(c) PROVE Busied'
  <2>1. Busied /\ c.op # "mint"
    BY <1>7, <1>g DEF ServeUnattended, Busied, Awaited
  <2>2. /\ UNCHANGED <<pc, job, tok, blob, jti>> /\ calls' \subseteq calls
        /\ \A r \in Runs : status'[r] \in Active => status[r] \in Active
    BY <1>7, <1>t, <2>1, RecordTypes DEF ServeUnattended, workerVars, ClaimRun, UpdateRunProgress, CompleteRun,
       FailCall, rowVars, TypeOK, Active
  <2> QED BY <2>1, <2>2, IdleWork
<1>8. ASSUME NEW w \in Workers, Crash(w) PROVE FALSE
  BY <1>8, <1>t DEF Crash
<1>9. ASSUME ServerStep PROVE Busied'
  <2>1. Busied /\ UNCHANGED <<pc, job, tok>>
    BY <1>9, <1>g DEF ServerStep, workerVars
  <2>2. blob' = blob /\ calls' = calls
    BY <1>9 DEF ServerStep, CreateRun, RetryRun, AgeClaim, SweepTimedOut, ExpireUrl
  <2>3. \A r \in Runs : status'[r] \in Active => status[r] \in Active /\ jti'[r] = jti[r]
    BY <1>9, <1>t DEF ServerStep, CreateRun, RetryRun, AgeClaim, SweepTimedOut, ExpireUrl, rowVars, TypeOK, Active
  <2> QED BY <2>1, <2>2, <2>3, IdleWork
<1>10. CASE UNCHANGED allVars
  BY <1>10, <1>g, IdleWork DEF allVars, workerVars, vars, rowVars
<1> QED BY <1>1, <1>2, <1>3, <1>4, <1>5, <1>6, <1>7, <1>8, <1>9, <1>10 DEF RunnerNext

\* While every request is answered and no process dies, a run in progress has a
\* thread that works on it, whatever is stopped, retried or swept meanwhile.
THEOREM StartedRunsAreWorkedOn == RunnerSpec => []StartedRunIsWorkedOn
<1>1. RunnerInit => WorkInv
  BY DEF RunnerInit, Init, WorkInv, Awaited, Stored, Worked, Active
<1>2. WorkInv => StartedRunIsWorkedOn
  BY DEF WorkInv, Worked, StartedRunIsWorkedOn
<1> QED BY <1>1, <1>2, WorkStep, CompositionHolds, PTL DEF RunnerSpec

================================================================================
