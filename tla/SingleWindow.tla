----------------------------- MODULE SingleWindow -----------------------------
(***************************************************************************)
(* One analyzer window (kicad-plugin/emi_analyzer/single.py and app.py).   *)
(* Every press of the toolbar button is a process; what they share is a    *)
(* lock file, kept fresh by the window that holds it, and a request file.  *)
(* A step is one call of the file system.                                  *)
(*                                                                         *)
(* Time is the age of the lock: it passes while no window owes a tick, and *)
(* a process may die, or hang with its window open, at any point.          *)
(***************************************************************************)
EXTENDS Naturals, FiniteSets

CONSTANTS
  Presses,  \* processes KiCad starts (bound)
  StaleS,   \* STALE_S, in heartbeats
  AskS,     \* timeout of ask_to_show, in heartbeats
  MaxHangs, \* bound: windows that hang or die
  None

ASSUME WindowAssumption ==
  /\ StaleS \in Nat /\ MaxHangs \in Nat /\ None \notin Presses
  /\ AskS \in Nat /\ AskS >= 2  \* a window ticks while a press asks: 4 seconds, a tick each second

VARIABLES
  lock,     \* the lock file: who made it, whether its token is in it, its age
  request,  \* the request file exists
  pc,       \* where each press is
  tries,    \* passes of acquire's loop left
  asked,    \* it has asked the window to show once
  owned,    \* SingleInstance.owned
  waited,   \* how long it has been asking
  due,      \* windows whose tick is due
  hung,     \* windows that do not tick
  hangs,    \* how many hung or died
  lapsed,   \* history: windows whose lock grew stale while they were open
  wrongful, \* history: a lock that was fresh has been removed as a stale one
  served,   \* history: presses that a window came forward for
  excused   \* history: presses during which a window hung, died, closed or opened
            \* late, or made a stale lock fresh that was not its own

windowVars == << lock, request, pc, tries, asked, owned, waited, due, hung, hangs,
                 lapsed, wrongful, served, excused >>

NoLock == [there |-> FALSE, by |-> None, written |-> FALSE, age |-> 0]

Acquiring == {"create", "stat", "unlink", "write", "clear"}
Waiting == Acquiring \cup {"ask", "asking"}

Mine(p) == lock.there /\ lock.by = p /\ lock.written
Open(p) == pc[p] \in {"window", "tick"}
Go(p, place) == pc' = [pc EXCEPT ![p] = place]
Awake(p) == p \notin hung

\* The lock is old enough to be taken over.
Stale == lock.age > StaleS

FileStep == UNCHANGED << due, hung, hangs, lapsed, excused >>

\* The lock is fresh and nobody keeps it so any more.
Abandoned == lock.there /\ ~Stale /\ lock.by # None /\ (lock.by \in hung \/ pc[lock.by] = "gone")

\* The window of a press that is still waiting comes forward, or one opens.
ServedBy == {p \in Presses : pc[p] \in Waiting}

WindowInit ==
  /\ lock \in {NoLock, [there |-> TRUE, by |-> None, written |-> FALSE, age |-> StaleS + 1]}  \* a window that crashed
  /\ request \in BOOLEAN
  /\ pc = [p \in Presses |-> "off"]
  /\ tries = [p \in Presses |-> 0] /\ waited = [p \in Presses |-> 0]
  /\ asked = {} /\ owned = {} /\ due = {} /\ hung = {} /\ hangs = 0
  /\ lapsed = {} /\ wrongful = FALSE /\ served = {} /\ excused = {}

-----------------------------------------------------------------------------
\* acquire.
Press(p) ==
  /\ pc[p] = "off"
  /\ Go(p, "create") /\ tries' = [tries EXCEPT ![p] = 2]
  /\ excused' = IF Abandoned THEN excused \cup {p} ELSE excused
  /\ UNCHANGED << lock, request, asked, owned, waited, due, hung, hangs, lapsed, wrongful, served >>

\* A press leaves; a window that is just opening is its answer too.
Leave(p) ==
  /\ Go(p, "gone")
  /\ served' = IF \E q \in Presses : pc[q] \in {"write", "clear"} THEN served \cup {p} ELSE served

\* acquire has returned False: ask the window to show, and the second time leave.
Refuse(p) == IF p \in asked THEN Leave(p) ELSE Go(p, "ask") /\ UNCHANGED served

\* Mutant: opened without O_EXCL, a lock that is there is written over.
CreateOver(p) ==
  /\ pc[p] = "create" /\ Go(p, "write")
  /\ lock' = [there |-> TRUE, by |-> p, written |-> FALSE, age |-> 0]
  /\ UNCHANGED << request, tries, asked, owned, waited, wrongful, served >> /\ FileStep

\* O_CREAT | O_EXCL.
Create(p) ==
  /\ pc[p] = "create"
  /\ IF tries[p] = 0 THEN Refuse(p) /\ UNCHANGED << lock, tries >>
     ELSE /\ tries' = [tries EXCEPT ![p] = @ - 1]
          /\ UNCHANGED served
          /\ IF lock.there THEN Go(p, "stat") /\ UNCHANGED lock
             ELSE Go(p, "write") /\ lock' = [there |-> TRUE, by |-> p, written |-> FALSE, age |-> 0]
  /\ UNCHANGED << request, asked, owned, waited, wrongful >> /\ FileStep

\* _stale, which also says so of a lock that has gone.
Stat(p) ==
  /\ pc[p] = "stat"
  /\ IF lock.there /\ ~Stale THEN Refuse(p) ELSE Go(p, "unlink") /\ UNCHANGED served
  /\ UNCHANGED << lock, request, tries, asked, owned, waited, wrongful >> /\ FileStep

\* unlink; whose lock it is by now is not looked at.
Unlink(p) ==
  /\ pc[p] = "unlink" /\ Go(p, "create")
  /\ lock' = NoLock
  /\ wrongful' = (wrongful \/ (lock.there /\ ~Stale))
  /\ UNCHANGED << request, tries, asked, owned, waited, served >> /\ FileStep

\* The token goes into the file this process created, wherever its name is now.
Write(p) ==
  /\ pc[p] = "write" /\ Go(p, "clear")
  /\ lock' = IF lock.by = p THEN [lock EXCEPT !.written = TRUE, !.age = 0] ELSE lock
  /\ owned' = owned \cup {p}
  /\ UNCHANGED << request, tries, asked, waited, wrongful, served >> /\ FileStep

\* A request left from before is removed, and the window opens.
Clear(p) ==
  /\ pc[p] = "clear" /\ Go(p, "window")
  /\ request' = FALSE /\ tries' = [tries EXCEPT ![p] = 0]
  /\ served' = served \cup ServedBy
  /\ UNCHANGED << lock, asked, owned, waited, wrongful >> /\ FileStep

-----------------------------------------------------------------------------
\* The window: heartbeat and take_request at every tick of its timer.
Beat(p) ==
  /\ pc[p] = "window" /\ p \in due /\ Awake(p)
  /\ Go(p, "tick") /\ due' = due \ {p}
  /\ owned' = IF Mine(p) THEN owned ELSE owned \ {p}
  /\ UNCHANGED << lock, request, tries, asked, waited, hung, hangs, lapsed, wrongful, served, excused >>

\* A window that hung before it touched its lock touches the stale one of another.
Revives(p) == p \in owned /\ lock.there /\ Stale /\ lock.by # p

\* utime, which makes fresh whatever lock is there by now, and the request.
Tick(p) ==
  /\ pc[p] = "tick" /\ Awake(p) /\ Go(p, "window")
  /\ lock' = IF p \in owned /\ lock.there THEN [lock EXCEPT !.age = 0] ELSE lock
  /\ owned' = IF lock.there THEN owned ELSE owned \ {p}
  /\ IF p \in owned' /\ request
       THEN request' = FALSE /\ served' = served \cup ServedBy
       ELSE UNCHANGED << request, served >>
  /\ excused' = IF Revives(p) THEN excused \cup ServedBy ELSE excused
  /\ UNCHANGED << tries, asked, waited, due, hung, hangs, lapsed, wrongful >>

\* The user closes it: release.
Close(p) ==
  /\ pc[p] = "window" /\ Awake(p)
  /\ due' = due \ {p}
  /\ IF p \in owned /\ Mine(p) THEN Go(p, "release") ELSE Go(p, "gone")
  /\ UNCHANGED << lock, request, tries, asked, owned, waited, hung, hangs, lapsed, wrongful, served, excused >>

Release(p) ==
  /\ pc[p] = "release" /\ Go(p, "gone")
  /\ lock' = NoLock
  /\ wrongful' = (wrongful \/ (lock.there /\ lock.by # p))
  /\ owned' = owned \ {p}
  /\ UNCHANGED << request, tries, asked, waited, served >> /\ FileStep

-----------------------------------------------------------------------------
\* ask_to_show.
Ask(p) ==
  /\ pc[p] = "ask" /\ Go(p, "asking")
  /\ request' = TRUE
  /\ asked' = asked \cup {p}
  /\ waited' = [waited EXCEPT ![p] = 0]
  /\ UNCHANGED << lock, tries, owned, wrongful, served >> /\ FileStep

PickedUp(p) ==
  /\ pc[p] = "asking" /\ ~request /\ waited[p] < AskS
  /\ Leave(p) /\ waited' = [waited EXCEPT ![p] = 0]
  /\ UNCHANGED << lock, request, tries, asked, owned, wrongful >> /\ FileStep

\* Mutant: a press nobody answers does not try the lock again.
GiveUpAndLeave(p) ==
  /\ pc[p] = "asking" /\ waited[p] >= AskS
  /\ request' = FALSE /\ Leave(p)
  /\ UNCHANGED << lock, tries, asked, owned, waited, wrongful >> /\ FileStep

\* Nobody took it: the request, or another press's, is withdrawn and the lock
\* tried again.
GiveUp(p) ==
  /\ pc[p] = "asking" /\ waited[p] >= AskS
  /\ request' = FALSE
  /\ Go(p, "create") /\ tries' = [tries EXCEPT ![p] = 2] /\ waited' = [waited EXCEPT ![p] = 0]
  /\ excused' = excused \cup {q \in Presses \ {p} : pc[q] = "asking"}
  /\ UNCHANGED << lock, asked, owned, wrongful, served, due, hung, hangs, lapsed >>

-----------------------------------------------------------------------------
\* A window stops ticking, ticks again, or dies; a press may die as well.
Hang(p) ==
  /\ hangs < MaxHangs /\ Open(p) /\ Awake(p)
  /\ hung' = hung \cup {p} /\ hangs' = hangs + 1
  /\ excused' = excused \cup {q \in Presses : pc[q] \in Waiting}
  /\ UNCHANGED << lock, request, pc, tries, asked, owned, waited, due, lapsed, wrongful, served >>

Wake(p) ==
  /\ p \in hung /\ hung' = hung \ {p}
  /\ UNCHANGED << lock, request, pc, tries, asked, owned, waited, due, hangs, lapsed, wrongful,
                  served, excused >>

Die(p) ==
  /\ hangs < MaxHangs /\ pc[p] \notin {"off", "gone"}
  /\ Go(p, "gone") /\ hangs' = hangs + 1
  /\ hung' = hung \ {p} /\ due' = due \ {p}
  /\ excused' = excused \cup {q \in Presses : pc[q] \in Waiting}
  /\ UNCHANGED << lock, request, tries, asked, owned, waited, lapsed, wrongful, served >>

\* A heartbeat passes.  Every awake window has ticked since the last one; a
\* press that asks has looked as well.
Elapse ==
  /\ \A p \in Presses : Open(p) /\ Awake(p) => pc[p] = "window" /\ p \notin due
  /\ \A p \in Presses : pc[p] = "asking" => waited[p] < AskS /\ request
  /\ \E p \in Presses : Open(p) \/ pc[p] \in Waiting
  /\ lock' = IF lock.there /\ ~Stale THEN [lock EXCEPT !.age = @ + 1] ELSE lock
  /\ waited' = [p \in Presses |-> IF pc[p] = "asking" THEN waited[p] + 1 ELSE waited[p]]
  /\ due' = {p \in Presses : Open(p)}
  /\ lapsed' = lapsed \cup {p \in Presses : lock'.age > StaleS /\ (Open(p) \/ pc[p] \in {"write", "clear"})}
  /\ excused' = IF \E p \in Presses : pc[p] = "release" THEN excused \cup ServedBy ELSE excused
  /\ UNCHANGED << request, pc, tries, asked, owned, hung, hangs, wrongful, served >>

PressStep(p) ==
  \/ Create(p) \/ Stat(p) \/ Unlink(p) \/ Write(p) \/ Clear(p) \/ Beat(p) \/ Tick(p)
  \/ Release(p) \/ Ask(p) \/ PickedUp(p) \/ GiveUp(p)

WindowNext ==
  \/ Elapse
  \/ \E p \in Presses : Press(p) \/ PressStep(p) \/ Close(p) \/ Hang(p) \/ Wake(p) \/ Die(p)

WindowSpec == WindowInit /\ [][WindowNext]_windowVars

-----------------------------------------------------------------------------
WindowTypeOK ==
  /\ lock \in [there : BOOLEAN, by : Presses \cup {None}, written : BOOLEAN, age : 0 .. StaleS + 1]
  /\ pc \in [Presses -> {"off", "gone", "release"} \cup Waiting \cup {"window", "tick"}]
  /\ request \in BOOLEAN /\ wrongful \in BOOLEAN
  /\ tries \in [Presses -> 0 .. 2] /\ waited \in [Presses -> 0 .. AskS] /\ hangs \in 0 .. MaxHangs
  /\ {asked, owned, due, hung, lapsed, served, excused} \subseteq SUBSET Presses

\* Two windows are open only if one of them stopped ticking until its lock was
\* stale, or a press removed a lock it had judged stale when another press had
\* already replaced it.
OneWindow ==
  \A p, q \in Presses : (p # q /\ Open(p) /\ Open(q)) => wrongful \/ {p, q} \cap lapsed # {}

\* A press that leaves without a window of its own has had one come forward.
PressIsAnswered ==
  \A p \in Presses : pc[p] = "gone" => p \in served \/ p \in excused

=============================================================================
