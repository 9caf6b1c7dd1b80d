---------------------------- MODULE DispatchProofs ----------------------------
(***************************************************************************)
(* Proofs about Dispatch, for any keys, connections and runs.              *)
(*                                                                         *)
(* The hub's two tables stay consistent because a connection is in them    *)
(* only while its handler runs (HubInv).  A run that waits is either still *)
(* in its own handler's hands (`target`) or has been seen by every open    *)
(* connection that takes it and whose list is complete (GapInv): the steps *)
(* of submit and connect may interleave as they like.                      *)
(***************************************************************************)
EXTENDS Dispatch, FiniteSetTheorems, TLAPS

\* What DispatchTypeOK leaves unsaid: the tables of capabilities are functions.
CapsTables == caps \in [Conns -> Capabilities] /\ row \in [Kids -> Capabilities] /\ own \in [Kids -> Capabilities]

Typed == DispatchTypeOK /\ CapsTables

\* The connections of the hub have a handler that has not cleaned up yet.
HubInv ==
    /\ HubIsConsistent
    /\ \A c \in conns : pc[c] \in Serving \cup {"left"}

\* A connection whose list is being sent has the rest of it in its outbox.
GapInv ==
    \A r \in Runs, c \in conns \cap open :
        run[r] = "waiting" /\ target[r] = "none" /\ ServesRun(c, r) /\ Accepts(caps[c], r)
        => /\ pc[c] = "reading" => r \in pushed
           /\ pc[c] = "sending" => r \in pushed \cup outbox[c]

-------------------------------------------------------------------------------

LEMMA InitTyped == DispatchInit => Typed
<1> USE DispatchAssumption DEF DispatchAssumption
<1> SUFFICES ASSUME DispatchInit PROVE Typed
  OBVIOUS
<1>1. NoCaps \in Capabilities
  BY DEF NoCaps, Capabilities
<1>2. caps \in [Conns -> Capabilities] /\ row \in [Kids -> Capabilities]
  BY <1>1 DEF DispatchInit
<1>3. own \in [Kids -> Capabilities] /\ \A k \in Kids : own[k] \in Declares[k]
  BY DEF DispatchInit
<1>4. kid \in [Conns -> Kids]
  BY DEF DispatchInit
<1> QED BY <1>2, <1>3, <1>4 DEF DispatchInit, Typed, DispatchTypeOK, CapsTables, Places

LEMMA NoCapsTyped == NoCaps \in Capabilities
BY DEF NoCaps, Capabilities

\* The run's side of a step.
LEMMA RunStepTyped == Typed /\ RunStep => Typed'
<1> USE DEF Typed, CapsTables, DispatchTypeOK, hubVars, connVars, WriteMayClose
<1> SUFFICES ASSUME Typed, NEW r \in Runs,
                    Admit(r) \/ CreateRun(r) \/ Take(r) \/ RetryRun(r) \/ Choose(r) \/ Push(r)
             PROVE  Typed'
  BY DEF RunStep
<1>1. CASE Admit(r) \/ Take(r)
  BY <1>1 DEF Admit, Take
<1>2. CASE CreateRun(r) \/ RetryRun(r)
  BY <1>2 DEF CreateRun, RetryRun, Queue
<1>3. CASE Choose(r)
  BY <1>3 DEF Choose, Eligible
<1>4. CASE Push(r)
  BY <1>4 DEF Push
<1> QED BY <1>1, <1>2, <1>3, <1>4

LEMMA WorkerStepTyped == Typed /\ WorkerStep => Typed'
<1> USE DispatchAssumption, NoCapsTyped DEF DispatchAssumption, Typed, CapsTables, DispatchTypeOK, runVars, hubVars
<1> SUFFICES ASSUME Typed, WorkerStep PROVE Typed'
  OBVIOUS
<1>1. ASSUME NEW k \in Kids, NEW cap \in Declares[k], RegisterWorker(k, cap) PROVE Typed'
  <2>1. cap \in Capabilities
    OBVIOUS
  <2> QED BY <1>1, <2>1 DEF RegisterWorker
<1>2. ASSUME NEW k \in Kids, NEW c \in Conns, Connect(k, c) PROVE Typed'
  BY <1>2 DEF Connect, Places
<1>3. ASSUME NEW c \in Conns, PeerVanishes(c) PROVE Typed'
  BY <1>3 DEF PeerVanishes
<1> QED BY <1>1, <1>2, <1>3 DEF WorkerStep

LEMMA HandlerTyped == ASSUME Typed, NEW c \in Conns, Handler(c) PROVE Typed'
<1> USE DispatchAssumption, NoCapsTyped DEF DispatchAssumption, Typed, CapsTables, DispatchTypeOK, runVars, hubVars, At, Places
<1>1. CASE Register(c)
  BY <1>1 DEF Register
<1>2. CASE ListPending(c)
  BY <1>2 DEF ListPending, Claimable
<1>3. CASE SendPending(c)
  BY <1>3 DEF SendPending, WriteMayClose
<1>4. CASE PendingSent(c) \/ ReadEnds(c)
  BY <1>4 DEF PendingSent, ReadEnds
<1>5. CASE ReadHello(c)
  <2>1. PICK cap \in Declares[kid[c]] : caps' = [caps EXCEPT ![c] = cap]
    BY <1>5 DEF ReadHello
  <2>2. cap \in Capabilities
    OBVIOUS
  <2> QED BY <1>5, <2>1, <2>2 DEF ReadHello
<1>6. CASE StoreCaps(c)
  <2>1. row' = row \/ row' = [row EXCEPT ![kid[c]] = caps[c]]
    BY <1>6 DEF StoreCaps
  <2> QED BY <1>6, <2>1 DEF StoreCaps
<1>7. CASE Unregister(c)
  BY <1>7 DEF Unregister, Forget
<1> QED BY <1>1, <1>2, <1>3, <1>4, <1>5, <1>6, <1>7 DEF Handler

\* Every variable keeps its type, and a connection's capabilities are the zero
\* value or ones its key's worker may declare: hub.go never serves a worker
\* with the capabilities of another key.
THEOREM DispatchTypes == DispatchSpec => []Typed
<1>1. Typed /\ [DispatchNext]_dispatchVars => Typed'
  <2> USE DEF Typed, CapsTables, DispatchTypeOK, runVars, hubVars, connVars
  <2> SUFFICES ASSUME Typed, [DispatchNext]_dispatchVars PROVE Typed'
    OBVIOUS
  <2>1. CASE ServerRestart
    BY <2>1, NoCapsTyped DEF ServerRestart, Places
  <2>2. ASSUME NEW c \in Conns, Keepalive(c) \/ CloseFrame(c) PROVE Typed'
    BY <2>2 DEF Keepalive, CloseFrame, At, Places
  <2>3. CASE UNCHANGED dispatchVars
    BY <2>3 DEF dispatchVars
  <2> QED BY <2>1, <2>2, <2>3, RunStepTyped, WorkerStepTyped, HandlerTyped DEF DispatchNext
<1> QED BY <1>1, InitTyped, PTL DEF DispatchSpec

-------------------------------------------------------------------------------
(* The hub. *)

LEMMA InitHub == DispatchInit => HubInv /\ ReplacedSocketIsClosed /\ GapInv
BY DEF DispatchInit, HubInv, HubIsConsistent, ReplacedSocketIsClosed, Serving, GapInv

\* A step that leaves the hub alone: it moves a handler within Serving or out of
\* its loop at most, and opens no socket.
Quiet ==
    /\ UNCHANGED <<conns, byKid, kid>>
    /\ open' \subseteq open
    /\ \A d \in Conns : pc'[d] = pc[d] \/ (pc[d] \in Serving /\ pc'[d] \in Serving \cup {"left"})

\* The steps that change the hub.
HubStep ==
    \/ \E k \in Kids, c \in Conns : Connect(k, c)
    \/ \E c \in Conns : Register(c) \/ Unregister(c)
    \/ ServerRestart

LEMMA OtherStepsAreQuiet == Typed /\ [DispatchNext]_dispatchVars => Quiet \/ HubStep
<1> USE DEF Quiet, Typed, DispatchTypeOK, dispatchVars, runVars, hubVars, connVars, WriteMayClose, At, Serving
<1> SUFFICES ASSUME Typed, [DispatchNext]_dispatchVars PROVE Quiet \/ HubStep
  OBVIOUS
<1>1. CASE RunStep
  <2>1. PICK r \in Runs : Admit(r) \/ CreateRun(r) \/ Take(r) \/ RetryRun(r) \/ Choose(r) \/ Push(r)
    BY <1>1 DEF RunStep
  <2> QED BY <2>1 DEF Admit, CreateRun, Take, RetryRun, Queue, Choose, Push
<1>2. CASE WorkerStep
  BY <1>2 DEF WorkerStep, HubStep, RegisterWorker, PeerVanishes
<1>3. CASE ServerRestart \/ UNCHANGED dispatchVars
  BY <1>3 DEF HubStep
<1>4. ASSUME NEW c \in Conns, Handler(c) \/ Keepalive(c) \/ CloseFrame(c) PROVE Quiet \/ HubStep
  <2>1. CASE Register(c) \/ Unregister(c)
    BY <2>1 DEF HubStep
  <2>2. CASE ListPending(c) \/ SendPending(c) \/ PendingSent(c)
    BY <2>2 DEF ListPending, SendPending, PendingSent
  <2>3. CASE ReadHello(c) \/ StoreCaps(c) \/ ReadEnds(c) \/ Keepalive(c) \/ CloseFrame(c)
    BY <2>3 DEF ReadHello, StoreCaps, ReadEnds, Keepalive, CloseFrame
  <2> QED BY <1>4, <2>1, <2>2, <2>3 DEF Handler
<1> QED BY <1>1, <1>2, <1>3, <1>4 DEF DispatchNext

LEMMA HubKept == Typed /\ HubInv /\ [DispatchNext]_dispatchVars => HubInv'
<1> USE DEF HubInv, HubIsConsistent, Typed, DispatchTypeOK, Serving, At
<1> SUFFICES ASSUME Typed, HubInv, Quiet \/ HubStep PROVE HubInv'
  BY OtherStepsAreQuiet
<1>1. CASE Quiet
  BY <1>1 DEF Quiet
<1>2. ASSUME NEW k \in Kids, NEW c \in Conns, Connect(k, c) PROVE HubInv'
  <2>1. c \notin conns /\ \A j \in Kids : byKid[j] # NoConn => byKid[j] # c
    BY <1>2 DEF Connect
  <2> QED BY <1>2, <2>1 DEF Connect, runVars, hubVars
<1>3. ASSUME NEW c \in Conns, Register(c) PROVE HubInv'
  <2>1. kid[c] \in Kids /\ c # NoConn /\ c \notin conns
    BY <1>3, DispatchAssumption DEF Register, DispatchAssumption
  <2>2. \A j \in Kids : byKid'[j] = IF j = kid[c] THEN c ELSE byKid[j]
    BY <1>3, <2>1 DEF Register
  <2>3. ASSUME NEW j \in Kids, byKid'[j] # NoConn PROVE byKid'[j] \in conns' /\ kid'[byKid'[j]] = j
    BY <1>3, <2>1, <2>2, <2>3 DEF Register
  <2>4. ASSUME NEW d \in conns' PROVE byKid'[kid'[d]] = d /\ pc'[d] \in Serving \cup {"left"}
    BY <1>3, <2>1, <2>2, <2>4 DEF Register
  <2> QED BY <2>3, <2>4
<1>4. ASSUME NEW c \in Conns, Unregister(c) PROVE HubInv'
  <2>1. kid[c] \in Kids /\ kid' = kid
    BY <1>4 DEF Unregister, Forget
  <2>2. \A j \in Kids : byKid'[j] = IF j = kid[c] /\ byKid[j] = c THEN NoConn ELSE byKid[j]
    BY <1>4, <2>1 DEF Unregister
  <2>3. \A d \in conns' : d \in conns /\ d # c /\ pc'[d] = pc[d]
    BY <1>4 DEF Unregister
  <2>4. ASSUME NEW j \in Kids, byKid'[j] # NoConn PROVE byKid'[j] \in conns' /\ kid'[byKid'[j]] = j
    BY <1>4, <2>1, <2>2, <2>4 DEF Unregister
  <2> QED BY <2>1, <2>2, <2>3, <2>4
<1>5. CASE ServerRestart
  BY <1>5 DEF ServerRestart
<1> QED BY <1>1, <1>2, <1>3, <1>4, <1>5 DEF HubStep

\* The two tables of the hub name the same connections, one per key: hub.go's
\* dispatch and stop read them under one lock, but who is in them is decided by
\* reconnections and cleanups that overlap.
THEOREM HubStaysConsistent == DispatchSpec => []HubIsConsistent
<1>1. HubInv => HubIsConsistent
  BY DEF HubInv
<1> QED BY <1>1, InitHub, HubKept, DispatchTypes, PTL DEF DispatchSpec

\* A connection that another one of its key replaced is closed in the same step,
\* and nothing opens it again.
THEOREM ReplacedSocketsAreClosed == DispatchSpec => []ReplacedSocketIsClosed
<1>1. Typed /\ ReplacedSocketIsClosed /\ [DispatchNext]_dispatchVars => ReplacedSocketIsClosed'
  <2> USE DEF ReplacedSocketIsClosed, Typed, DispatchTypeOK, Serving, At
  <2> SUFFICES ASSUME Typed, ReplacedSocketIsClosed, Quiet \/ HubStep PROVE ReplacedSocketIsClosed'
    BY OtherStepsAreQuiet
  <2>1. CASE Quiet
    BY <2>1 DEF Quiet
  <2>2. ASSUME NEW k \in Kids, NEW c \in Conns, Connect(k, c) PROVE ReplacedSocketIsClosed'
    BY <2>2 DEF Connect, runVars, hubVars
  <2>3. ASSUME NEW c \in Conns, Register(c) \/ Unregister(c) PROVE ReplacedSocketIsClosed'
    BY <2>3 DEF Register, Unregister, Forget
  <2>4. CASE ServerRestart
    BY <2>4 DEF ServerRestart
  <2> QED BY <2>1, <2>2, <2>3, <2>4 DEF HubStep
<1> QED BY <1>1, InitHub, DispatchTypes, PTL DEF DispatchSpec

-------------------------------------------------------------------------------
(* A run that waits. *)

\* The list is cut at its oldest PushLimit rows, and no run of a smaller set is
\* behind that many.
LEMMA NothingIsCut ==
  ASSUME IsFiniteSet(Runs), Cardinality(Runs) <= PushLimit, NEW c \in Conns,
         NEW r \in Runs, run[r] = "waiting", ServesRun(c, r)
  PROVE  r \in Claimable(c, PushLimit)
<1> DEFINE waiting == {q \in Runs : run[q] = "waiting" /\ ServesRun(c, q)}
           older == {q \in waiting : q < r}
<1>1. PushLimit \in Nat /\ Runs \subseteq Nat
  BY DispatchAssumption DEF DispatchAssumption
<1>2. IsFiniteSet(Runs \ {r}) /\ Cardinality(Runs \ {r}) = Cardinality(Runs) - 1
  BY FS_RemoveElement
<1>3. older \subseteq Runs \ {r}
  BY <1>1
<1>4. Cardinality(older) <= Cardinality(Runs \ {r})
  BY <1>2, <1>3, FS_Subset
<1>5. Cardinality(Runs) \in Nat /\ Cardinality(older) \in Nat
  BY <1>2, <1>3, FS_Subset, FS_CardinalityType
<1>6. Cardinality(older) < PushLimit
  BY <1>1, <1>2, <1>4, <1>5
<1> HIDE DEF older
<1> QED BY <1>6 DEF Claimable, older

\* A run's own steps: it is not waiting, or in its handler's hands, until it has
\* been written or nobody takes it.
LEMMA GapRunStep == Typed /\ GapInv /\ RunStep => GapInv'
<1> USE DEF GapInv, Typed, DispatchTypeOK, hubVars, connVars, WriteMayClose, ServesRun, Accepts
<1> SUFFICES ASSUME Typed, GapInv, NEW r \in Runs,
                    Admit(r) \/ CreateRun(r) \/ Take(r) \/ RetryRun(r) \/ Choose(r) \/ Push(r)
             PROVE  GapInv'
  BY DEF RunStep
<1>1. CASE Admit(r) \/ Take(r)
  BY <1>1 DEF Admit, Take
<1>2. CASE CreateRun(r) \/ RetryRun(r)
  BY <1>2 DEF CreateRun, RetryRun, Queue
<1>3. CASE Choose(r)
  <2>1. CASE Eligible(r) = {}
    BY <1>3, <2>1 DEF Choose, Eligible
  <2>2. CASE \E c \in Eligible(r) : target' = [target EXCEPT ![r] = c]
    <3>1. target'[r] \in Conns /\ \A q \in Runs \ {r} : target'[q] = target[q]
      BY <2>2 DEF Eligible
    <3>2. target'[r] # "none"
      BY <3>1, DispatchAssumption DEF DispatchAssumption
    <3> QED BY <1>3, <3>1, <3>2 DEF Choose
  <2> QED BY <1>3, <2>1, <2>2 DEF Choose
<1>4. CASE Push(r)
  BY <1>4 DEF Push
<1> QED BY <1>1, <1>2, <1>3, <1>4

LEMMA GapWorkerStep == Typed /\ HubInv /\ GapInv /\ WorkerStep => GapInv'
<1> USE DEF GapInv, Typed, DispatchTypeOK, HubInv, runVars, hubVars, ServesRun, Accepts, Serving
<1> SUFFICES ASSUME Typed, HubInv, GapInv, WorkerStep PROVE GapInv'
  OBVIOUS
<1>1. ASSUME NEW k \in Kids, NEW cap \in Declares[k], RegisterWorker(k, cap) PROVE GapInv'
  BY <1>1 DEF RegisterWorker
<1>2. ASSUME NEW k \in Kids, NEW c \in Conns, Connect(k, c) PROVE GapInv'
  <2>1. c \notin conns
    BY <1>2 DEF Connect
  <2>2. /\ UNCHANGED <<run, target, conns, outbox, pushed>>
        /\ open' = open \cup {c}
        /\ \A d \in Conns \ {c} : kid'[d] = kid[d] /\ caps'[d] = caps[d] /\ pc'[d] = pc[d]
    BY <1>2 DEF Connect
  <2> QED BY <2>1, <2>2
<1>3. ASSUME NEW c \in Conns, PeerVanishes(c) PROVE GapInv'
  BY <1>3 DEF PeerVanishes
<1> QED BY <1>1, <1>2, <1>3 DEF WorkerStep

\* The handler's steps: it lists what waits before it reads.
LEMMA GapHandler ==
  ASSUME IsFiniteSet(Runs), Cardinality(Runs) <= PushLimit,
         Typed, GapInv, NEW c \in Conns, Handler(c)
  PROVE  GapInv'
<1> USE DEF GapInv, Typed, DispatchTypeOK, runVars, hubVars, At
<1>1. CASE Register(c)
  <2>1. /\ UNCHANGED <<run, target, kid, caps, outbox, pushed>>
        /\ open' \subseteq open /\ conns' \subseteq conns \cup {c} /\ pc'[c] = "listing"
        /\ \A d \in Conns \ {c} : pc'[d] = pc[d]
    BY <1>1 DEF Register
  <2> QED BY <2>1 DEF ServesRun
<1>2. CASE ListPending(c)
  <2>1. /\ UNCHANGED <<run, target, kid, caps, conns, open, pushed>>
        /\ pc'[c] = "sending"
        /\ \A d \in Conns \ {c} : pc'[d] = pc[d] /\ outbox'[d] = outbox[d]
    BY <1>2 DEF ListPending
  <2>2. ASSUME NEW r \in Runs, run[r] = "waiting", ServesRun(c, r), Accepts(caps[c], r)
        PROVE  r \in outbox'[c]
    <3>1. r \in Claimable(c, PushLimit)
      BY <2>2, NothingIsCut
    <3> QED BY <1>2, <2>2, <3>1 DEF ListPending
  <2> QED BY <2>1, <2>2 DEF ServesRun
<1>3. CASE SendPending(c)
  <2>1. PICK r \in outbox[c] :
          /\ pushed' = pushed \cup {r}
          /\ open' \subseteq open
          /\ outbox' = [outbox EXCEPT ![c] = IF c \in open' THEN @ \ {r} ELSE {}]
    BY <1>3 DEF SendPending, WriteMayClose
  <2>2. UNCHANGED <<run, target, kid, caps, conns, pc>>
    BY <1>3 DEF SendPending
  <2>3. \A d \in Conns : d \in open' => outbox[d] \subseteq outbox'[d] \cup pushed'
    BY <2>1
  <2> QED BY <2>1, <2>2, <2>3 DEF ServesRun
<1>4. CASE PendingSent(c)
  BY <1>4 DEF PendingSent, ServesRun
<1>5. CASE ReadHello(c)
  <2>1. /\ UNCHANGED <<run, target, kid, conns, open, pushed, outbox>>
        /\ pc'[c] = "storing"
        /\ \A d \in Conns \ {c} : pc'[d] = pc[d] /\ caps'[d] = caps[d]
    BY <1>5 DEF ReadHello
  <2> QED BY <2>1 DEF ServesRun
<1>6. CASE StoreCaps(c) \/ ReadEnds(c)
  BY <1>6 DEF StoreCaps, ReadEnds, ServesRun
<1>7. CASE Unregister(c)
  <2>1. /\ UNCHANGED <<run, target, kid, outbox, pushed>>
        /\ c \notin conns' /\ conns' \subseteq conns /\ open' \subseteq open
        /\ \A d \in Conns \ {c} : pc'[d] = pc[d] /\ caps'[d] = caps[d]
    BY <1>7 DEF Unregister, Forget
  <2> QED BY <2>1 DEF ServesRun
<1> QED BY <1>1, <1>2, <1>3, <1>4, <1>5, <1>6, <1>7 DEF Handler

\* A run that waits is not overlooked: where the list is not cut (the runs are no
\* more than PushLimit), a run whose handler is done has been written to somebody
\* as soon as a connected worker that takes it is reading, however the insert,
\* the choice, the list, a hello and a retry interleave (ws.go, api_user.go).
THEOREM NoRunIsOverlooked ==
  ASSUME IsFiniteSet(Runs), Cardinality(Runs) <= PushLimit
  PROVE  DispatchSpec => []NoRunFallsInTheGap
<1>1. Typed /\ HubInv /\ GapInv /\ [DispatchNext]_dispatchVars => GapInv'
  <2> SUFFICES ASSUME Typed, HubInv, GapInv, [DispatchNext]_dispatchVars PROVE GapInv'
    OBVIOUS
  <2>1. CASE ServerRestart
    BY <2>1 DEF ServerRestart, GapInv
  <2>2. ASSUME NEW c \in Conns, Keepalive(c) \/ CloseFrame(c) PROVE GapInv'
    BY <2>2 DEF Keepalive, CloseFrame, GapInv, Typed, DispatchTypeOK, ServesRun, runVars, hubVars, At
  <2>3. CASE UNCHANGED dispatchVars
    BY <2>3 DEF dispatchVars, runVars, hubVars, connVars, GapInv, ServesRun
  <2> QED BY <2>1, <2>2, <2>3, GapRunStep, GapWorkerStep, GapHandler DEF DispatchNext
<1>2. Typed /\ GapInv => NoRunFallsInTheGap
  BY DEF NoRunFallsInTheGap, GapInv, Eligible, Typed, DispatchTypeOK
<1> QED BY <1>1, <1>2, InitHub, HubKept, DispatchTypes, PTL DEF DispatchSpec

===============================================================================
