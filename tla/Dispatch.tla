------------------------------- MODULE Dispatch -------------------------------
(***************************************************************************)
(* The hub of connected workers and the push of runs to them               *)
(* (server/emi/hub.go, ws.go and the submit handler of api_user.go).       *)
(*                                                                         *)
(* Each WebSocket handler is a process: it reads the worker's stored       *)
(* capabilities, registers, lists and sends what is outstanding, then      *)
(* reads.  Submitting a run is another: admission, the insert, the choice  *)
(* of a connection and the write are four steps, because the hub's lock is *)
(* released between them.  Sockets have two ends: `open` is the server's,  *)
(* `peer` the worker's, and a worker may vanish without a close frame.     *)
(*                                                                         *)
(* What happens to a run once a worker has it is module RunControl; here   *)
(* it is only waiting or taken.                                            *)
(***************************************************************************)
EXTENDS Naturals, FiniteSets

CONSTANTS Kids,       \* worker keys
          Conns,      \* connections that may ever be made (bound)
          Runs,       \* runs that may ever be submitted, numbered in creation order
          Kind,       \* Kind[r]: the kind of run r
          Cells,      \* Cells[r]: its estimate, 0 for none
          Serves,     \* Serves[k]: the runs of the organizations key k serves
          Declares,   \* Declares[k]: the capabilities a worker of key k may declare
          PushLimit,  \* rows pendingFor lists
          NoConn

RunKinds == {"ingest", "solve", "transient", "cable", "compliance", "conducted"}
Capabilities == [kinds : SUBSET RunKinds, maxCells : Nat]

ASSUME DispatchAssumption ==
    /\ Kids # {}
    /\ Runs \subseteq Nat
    /\ Kind \in [Runs -> RunKinds]
    /\ Cells \in [Runs -> Nat]
    /\ Serves \in [Kids -> SUBSET Runs]
    /\ \A k \in Kids : Declares[k] \subseteq Capabilities
    /\ PushLimit \in Nat \ {0}
    /\ {NoConn, "none", "due"} \cap Conns = {}

VARIABLES run,     \* "absent", "admitted", "waiting" (claimable) or "taken"
          target,  \* DispatchRun of each run: "none", "due", or the connection it chose
          conns,   \* Hub.conns
          byKid,   \* Hub.byKid
          pc,      \* where each connection's handler is
          kid,     \* workerConn.keyKid
          caps,    \* workerConn.caps
          outbox,  \* runs listed by sendPending and not yet written
          row,     \* the worker's emi_workers.capabilities
          own,     \* the capabilities of the worker process
          hello,   \* connections whose hello has not been read yet
          open,    \* connections the server has not closed
          peer,    \* connections whose worker is still there
          pushed   \* runs written to some connection since they began to wait

runVars == <<run, target>>
hubVars == <<conns, byKid>>
connVars == <<pc, kid, caps, outbox, hello, open, peer>>
dispatchVars == <<runVars, hubVars, connVars, row, own, pushed>>

\* The zero Capabilities: no kinds listed, no ceiling.
NoCaps == [kinds |-> {}, maxCells |-> 0]

Places == {"new", "accepted", "listing", "sending", "reading", "storing", "left", "gone"}
Serving == {"listing", "sending", "reading", "storing"}

DispatchTypeOK ==
    /\ run \in [Runs -> {"absent", "admitted", "waiting", "taken"}]
    /\ target \in [Runs -> {"none", "due"} \cup Conns]
    /\ conns \subseteq Conns
    /\ byKid \in [Kids -> Conns \cup {NoConn}]
    /\ pc \in [Conns -> Places]
    /\ kid \in [Conns -> Kids]
    /\ \A c \in Conns : caps[c] \in {NoCaps} \cup Declares[kid[c]]
    /\ outbox \in [Conns -> SUBSET Runs]
    /\ \A k \in Kids : row[k] \in {NoCaps} \cup Declares[k] /\ own[k] \in Declares[k]
    /\ hello \subseteq Conns
    /\ open \subseteq Conns
    /\ peer \subseteq Conns
    /\ pushed \subseteq Runs

DispatchInit ==
    /\ run = [r \in Runs |-> "absent"]
    /\ target = [r \in Runs |-> "none"]
    /\ conns = {}
    /\ byKid = [k \in Kids |-> NoConn]
    /\ pc = [c \in Conns |-> "new"]
    /\ kid = [c \in Conns |-> CHOOSE k \in Kids : TRUE]
    /\ caps = [c \in Conns |-> NoCaps]
    /\ outbox = [c \in Conns |-> {}]
    /\ row = [k \in Kids |-> NoCaps]
    /\ own \in {f \in [Kids -> UNION {Declares[k] : k \in Kids}] :
                   \A k \in Kids : f[k] \in Declares[k]}
    /\ hello = {}
    /\ open = {}
    /\ peer = {}
    /\ pushed = {}

-------------------------------------------------------------------------------
(* What a worker takes. *)

Unsized == {"ingest", "transient", "cable", "conducted"}

\* No kinds listed means every kind; cells bound the sized kinds only.
Accepts(cap, r) ==
    /\ cap.kinds # {} => Kind[r] \in cap.kinds
    /\ Kind[r] \in Unsized \/ cap.maxCells = 0 \/ Cells[r] <= cap.maxCells

ServesRun(c, r) == r \in Serves[kid[c]]

Eligible(r) == {c \in conns : ServesRun(c, r) /\ Accepts(caps[c], r)}

\* Hub.CanAccept and the admission check built on it: with workers online, a
\* sized solve that fits none of them is refused.
Admissible(r) ==
    LET online == {c \in conns : ServesRun(c, r)} IN
    Kind[r] = "solve" /\ Cells[r] # 0 /\ online # {} => Eligible(r) # {}

-------------------------------------------------------------------------------
(* The submit and retry handlers. *)

Admit(r) ==
    /\ run[r] = "absent"
    /\ Admissible(r)
    /\ run' = [run EXCEPT ![r] = "admitted"]
    /\ UNCHANGED <<target, hubVars, connVars, row, own, pushed>>

\* A run starts to wait, and its handler goes on to DispatchRun.
Queue(r) ==
    /\ run' = [run EXCEPT ![r] = "waiting"]
    /\ target' = [target EXCEPT ![r] = "due"]
    /\ pushed' = pushed \ {r}
    /\ UNCHANGED <<hubVars, connVars, row, own>>

CreateRun(r) == run[r] = "admitted" /\ Queue(r)

\* A worker claims the run (RunControl).
Take(r) ==
    /\ run[r] = "waiting"
    /\ run' = [run EXCEPT ![r] = "taken"]
    /\ UNCHANGED <<target, hubVars, connVars, row, own, pushed>>

\* The taken run ended and is retried.
RetryRun(r) == run[r] = "taken" /\ target[r] = "none" /\ Queue(r)

\* DispatchRun, first half: a connection is chosen under the lock.
Choose(r) ==
    /\ target[r] = "due"
    /\ target' \in IF Eligible(r) = {} THEN {[target EXCEPT ![r] = "none"]}
                   ELSE {[target EXCEPT ![r] = c] : c \in Eligible(r)}
    /\ UNCHANGED <<run, hubVars, connVars, row, own, pushed>>

\* A write to a worker that has vanished may fill a buffer or fail and close.
WriteMayClose(c) == open' = open \/ (c \notin peer /\ open' = open \ {c})

\* Second half: the write, whatever has become of the connection.
Push(r) ==
    /\ target[r] \in Conns
    /\ pushed' = pushed \cup {r}
    /\ target' = [target EXCEPT ![r] = "none"]
    /\ WriteMayClose(target[r])
    /\ UNCHANGED <<run, hubVars, pc, kid, caps, outbox, hello, peer, row, own>>

-------------------------------------------------------------------------------
(* The worker's end. *)

Dialed(k) == {c \in peer : kid[c] = k}

\* Mutant: the ceiling is not stored.
RegisterWithoutCeiling(k, cap) ==
    /\ own' = [own EXCEPT ![k] = cap]
    /\ row' = [row EXCEPT ![k] = [cap EXCEPT !.maxCells = 0]]
    /\ peer' = peer \ Dialed(k)
    /\ UNCHANGED <<runVars, hubVars, pc, kid, caps, outbox, hello, open, pushed>>

\* POST /register, which the worker process makes when it starts and before it
\* dials.  The process before it is gone, and its socket with it.
RegisterWorker(k, cap) ==
    /\ own' = [own EXCEPT ![k] = cap]
    /\ row' = [row EXCEPT ![k] = cap]
    /\ peer' = peer \ Dialed(k)
    /\ UNCHANGED <<runVars, hubVars, pc, kid, caps, outbox, hello, open, pushed>>

\* The dial is accepted and the stored capabilities are read; the worker has
\* sent its hello.  A key that never registered, or a store that fails, leaves
\* the zero value.
Connect(k, c) ==
    /\ pc[c] = "new"
    /\ Dialed(k) = {}
    /\ kid' = [kid EXCEPT ![c] = k]
    /\ pc' = [pc EXCEPT ![c] = "accepted"]
    /\ \E cap \in {row[k], NoCaps} : caps' = [caps EXCEPT ![c] = cap]
    /\ hello' = hello \cup {c}
    /\ open' = open \cup {c}
    /\ peer' = peer \cup {c}
    /\ UNCHANGED <<runVars, hubVars, outbox, row, own, pushed>>

\* The connection breaks and the worker sees it: it will dial again.
PeerVanishes(c) ==
    /\ c \in peer
    /\ peer' = peer \ {c}
    /\ UNCHANGED <<runVars, hubVars, pc, kid, caps, outbox, hello, open, row, own, pushed>>

-------------------------------------------------------------------------------
(* The connection's handler. *)

At(c, here, there) == pc[c] = here /\ pc' = [pc EXCEPT ![c] = there]

\* Mutant: the old socket is forgotten, not closed.
RegisterLeavingSocket(c) ==
    /\ At(c, "accepted", "listing")
    /\ conns' = (conns \ {byKid[kid[c]]}) \cup {c}
    /\ byKid' = [byKid EXCEPT ![kid[c]] = c]
    /\ UNCHANGED <<runVars, kid, caps, outbox, hello, open, peer, row, own, pushed>>

\* Hub.register: one connection per key, the one before it is closed.
Register(c) ==
    /\ At(c, "accepted", "listing")
    /\ conns' = (conns \ {byKid[kid[c]]}) \cup {c}
    /\ byKid' = [byKid EXCEPT ![kid[c]] = c]
    /\ open' = open \ {byKid[kid[c]]}
    /\ UNCHANGED <<runVars, kid, caps, outbox, hello, peer, row, own, pushed>>

\* ListClaimableRuns: the oldest rows first, before capabilities are looked at.
Claimable(c, limit) ==
    LET waiting == {r \in Runs : run[r] = "waiting" /\ ServesRun(c, r)} IN
    {r \in waiting : Cardinality({q \in waiting : q < r}) < limit}

ListPending(c) ==
    /\ At(c, "listing", "sending")
    /\ outbox' = [outbox EXCEPT ![c] =
                     {r \in Claimable(c, PushLimit) : Accepts(caps[c], r)}]
    /\ UNCHANGED <<runVars, hubVars, kid, caps, hello, open, peer, row, own, pushed>>

\* One new_run; a closed connection, or a write that fails, ends the list.
SendPending(c) ==
    /\ pc[c] = "sending"
    /\ \E r \in outbox[c] :
          /\ pushed' = pushed \cup {r}
          /\ WriteMayClose(c)
          /\ outbox' = [outbox EXCEPT ![c] = IF c \in open' THEN @ \ {r} ELSE {}]
    /\ UNCHANGED <<runVars, hubVars, pc, kid, caps, hello, peer, row, own>>

PendingSent(c) ==
    /\ At(c, "sending", "reading")
    /\ outbox[c] = {}
    /\ UNCHANGED <<runVars, hubVars, kid, caps, outbox, hello, open, peer, row, own, pushed>>

\* "hello": the live capabilities are updated under the hub's lock, ...
ReadHello(c) ==
    /\ At(c, "reading", "storing")
    /\ c \in hello \cap open
    /\ hello' = hello \ {c}
    /\ \E cap \in IF c \in peer THEN {own[kid[c]]} ELSE Declares[kid[c]] :
          caps' = [caps EXCEPT ![c] = cap]
    /\ UNCHANGED <<runVars, hubVars, kid, outbox, open, peer, row, own, pushed>>

\* Mutant: newly eligible work is not sent.
StoreCapsOnly(c) ==
    /\ At(c, "storing", "reading")
    /\ row' = IF row[kid[c]] = NoCaps THEN row ELSE [row EXCEPT ![kid[c]] = caps[c]]
    /\ UNCHANGED <<runVars, hubVars, kid, caps, outbox, hello, open, peer, own, pushed>>

\* ... then the stored row, if there is one, and what is now eligible is sent.
StoreCaps(c) ==
    /\ At(c, "storing", "listing")
    /\ row' = IF row[kid[c]] = NoCaps THEN row ELSE [row EXCEPT ![kid[c]] = caps[c]]
    /\ UNCHANGED <<runVars, hubVars, kid, caps, outbox, hello, open, peer, own, pushed>>

\* The keepalive starts once the first list is sent: from the first read on.
PingedNow(c) == pc[c] \in Serving /\ (pc[c] \in {"listing", "sending"} => c \notin hello)

\* Mutant: a dead connection is marked, its socket left open.
KeepaliveMarks(c) ==
    /\ PingedNow(c)
    /\ c \in open \ peer
    /\ UNCHANGED dispatchVars

\* A ping that is not answered, or the idle limit, closes the socket.
Keepalive(c) ==
    /\ PingedNow(c)
    /\ c \in open \ peer
    /\ open' = open \ {c}
    /\ UNCHANGED <<runVars, hubVars, pc, kid, caps, outbox, hello, peer, row, own, pushed>>

\* Only a closed socket ends a Read: closed by the server, or by a close frame.
ReadEnds(c) ==
    /\ At(c, "reading", "left")
    /\ c \notin open
    /\ UNCHANGED <<runVars, hubVars, kid, caps, outbox, hello, open, peer, row, own, pushed>>

CloseFrame(c) ==
    /\ At(c, "reading", "left")
    /\ c \notin peer
    /\ UNCHANGED <<runVars, hubVars, kid, caps, outbox, hello, open, peer, row, own, pushed>>

\* The handler returns: the socket is closed for both ends.
Forget(c) ==
    /\ open' = open \ {c}
    /\ peer' = peer \ {c}
    /\ hello' = hello \ {c}
    /\ caps' = [caps EXCEPT ![c] = NoCaps]
    /\ UNCHANGED <<runVars, kid, outbox, row, own, pushed>>

\* Mutant: the key's entry is dropped whoever holds it now.
UnregisterKey(c) ==
    /\ At(c, "left", "gone")
    /\ conns' = conns \ {c}
    /\ byKid' = [byKid EXCEPT ![kid[c]] = NoConn]
    /\ Forget(c)

\* Hub.unregister: a connection that was replaced leaves the new one alone.
Unregister(c) ==
    /\ At(c, "left", "gone")
    /\ conns' = conns \ {c}
    /\ byKid' = [byKid EXCEPT ![kid[c]] = IF @ = c THEN NoConn ELSE @]
    /\ Forget(c)

\* The server is restarted: handlers and the hub are gone, the rows stay.
ServerRestart ==
    /\ conns' = {}
    /\ byKid' = [k \in Kids |-> NoConn]
    /\ pc' = [c \in Conns |-> IF pc[c] = "new" THEN "new" ELSE "gone"]
    /\ run' = [r \in Runs |-> IF run[r] = "admitted" THEN "absent" ELSE run[r]]
    /\ target' = [r \in Runs |-> "none"]
    /\ outbox' = [c \in Conns |-> {}]
    /\ hello' = {}
    /\ open' = {}
    /\ peer' = {}
    /\ caps' = [c \in Conns |-> NoCaps]
    /\ pushed' = {}
    /\ UNCHANGED <<kid, row, own>>

-------------------------------------------------------------------------------

RunStep == \E r \in Runs :
    Admit(r) \/ CreateRun(r) \/ Take(r) \/ RetryRun(r) \/ Choose(r) \/ Push(r)

WorkerStep ==
    \/ \E k \in Kids : \E cap \in Declares[k] : RegisterWorker(k, cap)
    \/ \E k \in Kids, c \in Conns : Connect(k, c)
    \/ \E c \in Conns : PeerVanishes(c)

Handler(c) ==
    \/ Register(c) \/ ListPending(c) \/ SendPending(c) \/ PendingSent(c)
    \/ ReadHello(c) \/ StoreCaps(c) \/ ReadEnds(c) \/ Unregister(c)

DispatchNext ==
    \/ RunStep \/ WorkerStep \/ ServerRestart
    \/ \E c \in Conns : Handler(c) \/ Keepalive(c) \/ CloseFrame(c)

\* Handlers keep running and the keepalive tickers keep firing.
DispatchSpec ==
    /\ DispatchInit /\ [][DispatchNext]_dispatchVars
    /\ \A c \in Conns : WF_dispatchVars(Handler(c)) /\ WF_dispatchVars(Keepalive(c))

-------------------------------------------------------------------------------
(* What must hold. *)

\* conns, which dispatch and the online counts read, and byKid, which a stop is
\* pushed through, name the same connections, one per key, however a worker's
\* reconnections overlap with the cleanup of its old sockets.
HubIsConsistent ==
    /\ \A k \in Kids : byKid[k] # NoConn => byKid[k] \in conns /\ kid[byKid[k]] = k
    /\ \A c \in conns : byKid[kid[c]] = c

\* A connection that was replaced is closed at once: its read loop is blocked
\* and nothing else gets its goroutine and descriptor out (hub.go, register).
ReplacedSocketIsClosed ==
    \A c \in Conns : pc[c] \in Serving /\ c \notin conns => c \notin open

\* No run falls between the insert and the list: once a run's handler is done
\* and a worker that takes it is connected and reading, the run was written to
\* some connection, however submit, connect, a change of capabilities, a retry
\* and a restart of the server interleave (PushLimit is not reached here).
NoRunFallsInTheGap ==
    \A r \in Runs, c \in conns \cap open :
        run[r] = "waiting" /\ target[r] = "none" /\ pc[c] = "reading" /\ c \in Eligible(r)
        => r \in pushed

\* A worker that vanished does not stay a phantom that dispatch keeps choosing.
DeadPeerIsNoticed ==
    \A c \in Conns : c \in conns \ peer ~> c \notin conns

===============================================================================
