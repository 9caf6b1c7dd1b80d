------------------------------- MODULE LocalApp -------------------------------
(***************************************************************************)
(* The local app's process (server/cmd/emi-local): startup, the supervisor *)
(* that keeps one worker container running, shutdown, and the endpoint     *)
(* file other programs find the app by.  Several apps may run, on one data *)
(* folder or on several; what they share is their folder, the Docker       *)
(* engine, where a folder's container has one name, and the endpoint file. *)
(*                                                                         *)
(* An app is killed at any point.  A docker command that is cut off by its *)
(* timeout, or by the app's end, may still be carried out by the engine.   *)
(***************************************************************************)
EXTENDS Naturals, FiniteSets

CONSTANTS
  Apps,     \* processes, each run once; a restart is another one (bound)
  Folders,  \* data folders
  Folder,   \* function: the folder an app is started on
  MaxCuts,  \* bound: docker commands that run into their timeout
  None

ASSUME LocalAppAssumption ==
  /\ Folder \in [Apps -> Folders] /\ MaxCuts \in Nat
  /\ None \notin Apps \cup {"valid", "revoked"}

VARIABLES
  app,        \* where each process is
  sup,        \* where its worker supervisor is
  key,        \* the key of the start it is in: "valid", "revoked" or none
  restart,    \* a restart is requested (the channel holds one)
  container,  \* per folder: the worker container
  late,       \* per folder: docker run commands the engine still works on
  docker,     \* the engine answers
  cuts,       \* commands cut off so far
  endpoint,   \* the app the endpoint file names
  alone,      \* history: no other process has been on its folder meanwhile
  newest,     \* history: the last app that published itself
  pulled      \* history: it did while another was taking the file back

appVars == << app, sup, key, restart, container, late, docker, cuts, endpoint,
              alone, newest, pulled >>

Gone == [there |-> FALSE, by |-> None, key |-> None, running |-> FALSE]
Worker(a, k) == [there |-> TRUE, by |-> a, key |-> k, running |-> TRUE]

Live(a) == app[a] \notin {"off", "gone", "killed"}
\* run's ctx is cancelled as soon as the app is told to quit.
Cancelled(a) == app[a] \in {"stopping", "revoking", "forgetting", "removing", "exiting"}

App(a, place) == app' = [app EXCEPT ![a] = place]
Sup(a, place) == sup' = [sup EXCEPT ![a] = place]
Contain(f, c) == container' = [container EXCEPT ![f] = c]

\* RevokeNamed: whoever holds a key of the folder holds a revoked one.  (A key
\* matters by who holds it; one that nobody has been given is not kept.)
Dead(k) == IF k = "valid" THEN "revoked" ELSE k
RevokeNamed(f) ==
  /\ key' = [a \in Apps |-> IF Folder[a] = f THEN Dead(key[a]) ELSE key[a]]
  /\ container' = [container EXCEPT ![f].key = Dead(@)]
  /\ late' = [late EXCEPT ![f] = {[r EXCEPT !.key = Dead(@)] : r \in @}]

Histories == << alone, newest, pulled >>
SupervisorStep(a) == app[a] = "up" /\ UNCHANGED << app, endpoint, docker, Histories >>
MainStep == UNCHANGED << key, restart, docker, cuts, late >>
\* startOnce has returned, and a process has ended: what they knew is gone.
Returned(a) == key' = [key EXCEPT ![a] = None]
Ended(a) == Returned(a) /\ restart' = [restart EXCEPT ![a] = FALSE]
Parted(a) == alone' = [alone EXCEPT ![a] = FALSE] /\ UNCHANGED << newest, pulled >>

AppInit ==
  /\ app = [a \in Apps |-> "off"] /\ sup = [a \in Apps |-> "none"]
  /\ key = [a \in Apps |-> None] /\ restart = [a \in Apps |-> FALSE]
  /\ container = [f \in Folders |-> Gone]
  /\ late = [f \in Folders |-> {}]
  /\ docker = TRUE /\ cuts = 0 /\ endpoint = None
  /\ alone = [a \in Apps |-> FALSE] /\ newest = None /\ pulled = FALSE

-----------------------------------------------------------------------------
\* run(): startup.  The keys of an earlier session are revoked before anything
\* is served.
\* Mutant: an earlier session's keys stay valid.
OpenKeepingKeys(a) ==
  /\ app[a] = "off"
  /\ App(a, "serving")
  /\ alone' = [b \in Apps |-> IF b = a THEN ~\E c \in Apps : Live(c) /\ Folder[c] = Folder[a]
                              ELSE alone[b] /\ Folder[b] # Folder[a]]
  /\ MainStep /\ UNCHANGED << sup, container, endpoint, newest, pulled >>

Open(a) ==
  /\ app[a] = "off"
  /\ App(a, "serving")
  /\ RevokeNamed(Folder[a])
  /\ alone' = [b \in Apps |-> IF b = a THEN ~\E c \in Apps : Live(c) /\ Folder[c] = Folder[a]
                              ELSE alone[b] /\ Folder[b] # Folder[a]]
  /\ UNCHANGED << sup, restart, docker, cuts, endpoint, newest, pulled >>

\* writeEndpoint, then the supervisor is started; a file that cannot be
\* written is a warning.
Publish(a) ==
  /\ app[a] = "serving"
  /\ App(a, "up")
  /\ \/ endpoint' = a /\ newest' = a /\ pulled' = (\E b \in Apps : app[b] = "removing")
     \/ UNCHANGED << endpoint, newest, pulled >>
  /\ MainStep /\ UNCHANGED << sup, container, alone >>

-----------------------------------------------------------------------------
\* workerSupervisor.startOnce, one step per command.  An engine that does not
\* answer, and an image that cannot be pulled, end it.
Prepare(a) ==
  /\ sup[a] \in {"none", "start"}
  /\ Sup(a, IF docker THEN "revoke" ELSE "wait")
  /\ SupervisorStep(a) /\ UNCHANGED << key, restart, container, late, cuts >>

RevokeOld(a) ==
  /\ sup[a] = "revoke"
  /\ Sup(a, "issue") /\ RevokeNamed(Folder[a])
  /\ SupervisorStep(a) /\ UNCHANGED << restart, cuts >>

Issue(a) ==
  /\ sup[a] = "issue"
  /\ Sup(a, "rm") /\ key' = [key EXCEPT ![a] = "valid"]
  /\ SupervisorStep(a) /\ UNCHANGED << restart, container, late, cuts >>

\* docker rm -f, whose failure is ignored.
RemoveOld(a) ==
  /\ sup[a] = "rm"
  /\ Sup(a, "run")
  /\ \/ docker /\ Contain(Folder[a], Gone) /\ UNCHANGED cuts
     \/ ~docker /\ UNCHANGED << container, cuts >>
     \/ docker /\ cuts < MaxCuts /\ cuts' = cuts + 1 /\ UNCHANGED container
  /\ SupervisorStep(a) /\ UNCHANGED << key, restart, late >>

\* docker run: the name has to be free.
\* Mutant: a container of that name is taken for the one just started.
RunOrAdopt(a) ==
  /\ sup[a] = "run"
  /\ IF docker
       THEN /\ Sup(a, "watch")
            /\ IF container[Folder[a]].there THEN UNCHANGED container
               ELSE Contain(Folder[a], Worker(a, key[a]))
       ELSE Sup(a, "wait") /\ UNCHANGED container
  /\ Returned(a)
  /\ SupervisorStep(a) /\ UNCHANGED << restart, late, cuts >>

Run(a) ==
  /\ sup[a] = "run"
  /\ IF docker /\ ~container[Folder[a]].there
       THEN Sup(a, "watch") /\ Contain(Folder[a], Worker(a, key[a]))
       ELSE Sup(a, "wait") /\ UNCHANGED container
  /\ Returned(a)
  /\ SupervisorStep(a) /\ UNCHANGED << restart, late, cuts >>

\* The engine has the command; the app has given up on it.
LeftToTheEngine(a) == late' = [late EXCEPT ![Folder[a]] = @ \cup {[key |-> key[a], by |-> a]}]

RunCutOff(a) ==
  /\ sup[a] = "run" /\ docker /\ cuts < MaxCuts
  /\ cuts' = cuts + 1 /\ Sup(a, "wait") /\ LeftToTheEngine(a) /\ Returned(a)
  /\ SupervisorStep(a) /\ UNCHANGED << restart, container >>

\* watch: by the container's name, every five seconds.
\* Mutant: a container that exited is still there, and so is fine.
WatchWhetherThere(a) ==
  /\ sup[a] = "watch"
  /\ restart[a] \/ ~docker \/ ~container[Folder[a]].there
  /\ Sup(a, "wait")
  /\ SupervisorStep(a) /\ UNCHANGED << key, restart, container, late, cuts >>

Watch(a) ==
  /\ sup[a] = "watch"
  /\ restart[a] \/ ~docker \/ ~container[Folder[a]].running
  /\ Sup(a, "wait")
  /\ SupervisorStep(a) /\ UNCHANGED << key, restart, container, late, cuts >>

\* Run's select: the backoff passes, or the request for a restart is taken.
Wait(a) ==
  /\ sup[a] = "wait"
  /\ Sup(a, "start")
  /\ restart' \in {restart, [restart EXCEPT ![a] = FALSE]}
  /\ SupervisorStep(a) /\ UNCHANGED << key, container, late, cuts >>

\* POST /api/local/worker/restart.
AskRestart(a) ==
  /\ restart' = [restart EXCEPT ![a] = TRUE]
  /\ SupervisorStep(a) /\ UNCHANGED << sup, key, container, late, cuts >>

-----------------------------------------------------------------------------
\* Shutdown.  The supervisor's commands fail from here on; one it was in the
\* middle of may have been carried out.
Quit(a) ==
  /\ app[a] = "up"
  /\ App(a, "stopping")
  /\ MainStep /\ UNCHANGED << sup, container, endpoint, Histories >>

LoopEnds(a) ==
  /\ Cancelled(a) /\ sup[a] \notin {"none", "done"}
  /\ Sup(a, "done")
  /\ UNCHANGED late \/ (sup[a] = "run" /\ docker /\ LeftToTheEngine(a))
  /\ Ended(a)
  /\ UNCHANGED << app, container, docker, cuts, endpoint, Histories >>

\* Stop: the container, if the supervisor has got as far as finding docker,
\* and then the key.
StopContainer(a) ==
  /\ app[a] = "stopping"
  /\ App(a, "revoking")
  /\ \/ docker /\ sup[a] # "none" /\ Contain(Folder[a], Gone) /\ UNCHANGED cuts
     \/ (~docker \/ sup[a] = "none") /\ UNCHANGED << container, cuts >>
     \/ docker /\ sup[a] # "none" /\ cuts < MaxCuts /\ cuts' = cuts + 1 /\ UNCHANGED container
  /\ UNCHANGED << sup, key, restart, late, docker, endpoint, Histories >>

StopKeys(a) ==
  /\ app[a] = "revoking"
  /\ App(a, "forgetting") /\ RevokeNamed(Folder[a])
  /\ UNCHANGED << sup, restart, docker, cuts, endpoint, Histories >>

\* removeEndpoint reads the file and then removes it.
\* Mutant: whoever the file names.
ReadEndpointOfAnyone(a) ==
  /\ app[a] = "forgetting"
  /\ App(a, IF endpoint # None THEN "removing" ELSE "exiting")
  /\ MainStep /\ UNCHANGED << sup, container, endpoint, Histories >>

ReadEndpoint(a) ==
  /\ app[a] = "forgetting"
  /\ App(a, IF endpoint = a THEN "removing" ELSE "exiting")
  /\ MainStep /\ UNCHANGED << sup, container, endpoint, Histories >>

RemoveEndpoint(a) ==
  /\ app[a] = "removing"
  /\ App(a, "exiting") /\ endpoint' = None
  /\ MainStep /\ UNCHANGED << sup, container, Histories >>

\* The process ends; a docker run it was in the middle of may go on.
Ends(a, how) ==
  /\ App(a, how) /\ Sup(a, "done") /\ Ended(a) /\ Parted(a)
  /\ UNCHANGED late \/ (sup[a] = "run" /\ docker /\ LeftToTheEngine(a))
  /\ UNCHANGED << container, docker, cuts, endpoint >>

Exit(a) == app[a] = "exiting" /\ Ends(a, "gone")
Kill(a) == Live(a) /\ Ends(a, "killed")

-----------------------------------------------------------------------------
\* The engine: it stops and starts, with or without its containers, a worker
\* exits, and a command it was left with is carried out or comes to nothing.
EngineStep == UNCHANGED << app, sup, key, restart, cuts, endpoint, Histories >>

EngineStops ==
  /\ docker /\ docker' = FALSE
  /\ \/ UNCHANGED container
     \/ container' = [f \in Folders |-> [container[f] EXCEPT !.running = FALSE]]
  /\ EngineStep /\ UNCHANGED late

EngineStarts == ~docker /\ docker' = TRUE /\ EngineStep /\ UNCHANGED << container, late >>

WorkerExits(f) ==
  /\ container[f].running
  /\ Contain(f, [container[f] EXCEPT !.running = FALSE])
  /\ EngineStep /\ UNCHANGED << docker, late >>

RunLate(f, r) ==
  /\ docker /\ late' = [late EXCEPT ![f] = @ \ {r}]
  /\ \/ ~container[f].there
        /\ Contain(f, [there |-> TRUE, by |-> r.by, key |-> r.key, running |-> TRUE])
     \/ UNCHANGED container
  /\ EngineStep /\ UNCHANGED docker

-----------------------------------------------------------------------------
Supervise(a) ==
  Prepare(a) \/ RevokeOld(a) \/ Issue(a) \/ RemoveOld(a) \/ Run(a) \/ Watch(a) \/ Wait(a)

MainNext(a) ==
  Open(a) \/ Publish(a) \/ Quit(a) \/ StopContainer(a) \/ StopKeys(a) \/ ReadEndpoint(a)
  \/ RemoveEndpoint(a) \/ Exit(a) \/ Kill(a)

AppNext ==
  \/ \E a \in Apps : MainNext(a) \/ Supervise(a) \/ RunCutOff(a) \/ AskRestart(a) \/ LoopEnds(a)
  \/ EngineStops \/ EngineStarts
  \/ \E f \in Folders : WorkerExits(f) \/ \E r \in late[f] : RunLate(f, r)

AppSpec == AppInit /\ [][AppNext]_appVars /\ \A a \in Apps : WF_appVars(Supervise(a))

-----------------------------------------------------------------------------
\* A worker container with a valid key was started by an app that is still
\* there or was killed, and where an app has its folder to itself it is that
\* app's: what an earlier session, a cut-off docker run or a quit in the
\* middle of a start leaves behind cannot connect.
Handed(f) == late[f] \cup {[key |-> c.key, by |-> c.by] : c \in {container[f]} \ {Gone}}

LeftoversCannotConnect ==
  \A f \in Folders : \A r \in Handed(f) : r.key = "valid" =>
    /\ Live(r.by) \/ app[r.by] = "killed"
    /\ \A a \in Apps : (Folder[a] = f /\ Live(a) /\ alone[a]) => r.by = a

\* The container an app watches, on a folder it has to itself, is one it
\* started, and its key is valid: "running" is never said of a worker that
\* cannot connect.  (With two apps on a folder it is: README.)
Working(a) ==
  LET c == container[Folder[a]]
  IN  c.running /\ c.by = a /\ c.key = "valid"

WatchedWorkerCanConnect ==
  \A a \in Apps : (app[a] = "up" /\ alone[a] /\ sup[a] = "watch" /\ container[Folder[a]].running)
    => Working(a)

\* The endpoint file names the app that published itself last for as long as
\* that one is up, unless it did so between another's read and remove.
LastStartedIsFound ==
  \A a \in Apps : (newest = a /\ app[a] = "up") => endpoint = a \/ pulled

\* An app that stays up, on a folder it has to itself and with an engine that
\* answers, has a worker that can connect again and again, whatever is left
\* behind, exits, or is cut off.
WorkerComesBack ==
  \A a \in Apps : <>[](app[a] = "up" /\ alone[a] /\ docker) => []<>Working(a)

=============================================================================
