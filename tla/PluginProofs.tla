----------------------------- MODULE PluginProofs -----------------------------
(***************************************************************************)
(* Proofs about the KiCad plugin: SingleWindow for any number of presses,  *)
(* and OpenBoard for any archives, ports and numbers of presses.           *)
(*                                                                         *)
(* Two open windows cannot both hold the lock, so it is enough that every  *)
(* window that has not lapsed holds it and keeps it fresh.  A press only   *)
(* loses that when its lock is removed while fresh, which is wrongful, or  *)
(* when the lock grows stale, which makes it lapse.                        *)
(*                                                                         *)
(* A press that leaves has been answered because of what it has seen: the  *)
(* later it is in its way through acquire and ask_to_show, the more it may *)
(* count on a window that has come forward or is about to (AnswerInv).     *)
(*                                                                         *)
(* A press makes or goes over to another project only when the one it is   *)
(* concerned with is not there.  That costs at most one project and one    *)
(* change of the store, and only a call that failed, a press that died or  *)
(* a project that was deleted brings it about again (CountInv).            *)
(***************************************************************************)
EXTENDS SingleWindow, OpenBoard, WellFoundedInduction, TLAPS

(***************************************************************************)
(* One window.                                                             *)
(***************************************************************************)

\* A process that has made the lock and not begun to let go of it.
Holder(p) == pc[p] \in {"write", "clear", "window", "tick"}

HolderInv ==
  \/ wrongful
  \/ \A p \in Presses : (Holder(p) /\ p \notin lapsed) =>
       lock.there /\ lock.by = p /\ ~Stale

Places == {"off", "gone", "release"} \cup Waiting \cup {"window", "tick"}
Locks == [there : BOOLEAN, by : Presses \cup {None}, written : BOOLEAN, age : Nat]

LockInv == lock \in Locks /\ pc \in [Presses -> Places]

\* A press goes from a place to a place.
LEMMA GoTyped ==
  ASSUME LockInv, NEW p \in Presses, NEW place \in Places, Go(p, place)
  PROVE  pc' \in [Presses -> Places]
  BY DEF LockInv, Go

LEMMA LocksTyped ==
  /\ NoLock \in Locks
  /\ \A p \in Presses \cup {None}, n \in Nat, w \in BOOLEAN :
       [there |-> TRUE, by |-> p, written |-> w, age |-> n] \in Locks
  /\ \A l \in Locks, n \in Nat : [l EXCEPT !.age = n] \in Locks
  /\ \A l \in Locks : [l EXCEPT !.written = TRUE, !.age = 0] \in Locks
  BY DEF Locks, NoLock

\* The lock is a record and every press has a place, whatever the presses do:
\* what the next lemma reads them as.
LEMMA LockTyped == WindowSpec => []LockInv
<1> USE DEF Places, Acquiring, Waiting
<1>1. WindowInit => LockInv
  <2> SUFFICES ASSUME WindowInit PROVE LockInv
    OBVIOUS
  <2>1. StaleS + 1 \in Nat
    BY WindowAssumption DEF WindowAssumption
  <2>2. lock \in Locks
    BY <2>1, LocksTyped DEF WindowInit
  <2>3. pc \in [Presses -> Places]
    BY DEF WindowInit
  <2> QED BY <2>2, <2>3 DEF LockInv
<1>2. LockInv /\ [WindowNext]_windowVars => LockInv'
  <2> SUFFICES ASSUME LockInv, [WindowNext]_windowVars PROVE LockInv'
    OBVIOUS
  <2>1. CASE Elapse
    <3>1. lock.age + 1 \in Nat
      BY DEF LockInv, Locks
    <3> QED BY <2>1, <3>1, LocksTyped DEF Elapse, LockInv
  <2>2. ASSUME NEW p \in Presses, PressStep(p) \/ Press(p) \/ Close(p) \/ Hang(p) \/ Wake(p) \/ Die(p)
        PROVE pc' \in [Presses -> Places]
    <3>1. pc' = pc \/ \E place \in Places : Go(p, place)
      BY <2>2, Zenon DEF PressStep, Create, Stat, Unlink, Write, Clear, Beat, Tick, Release, Ask,
                  PickedUp, GiveUp, Press, Close, Hang, Wake, Die, Refuse, Leave
    <3> QED BY <3>1, GoTyped DEF LockInv
  <2>3. ASSUME NEW p \in Presses, PressStep(p) \/ Press(p) \/ Close(p) \/ Hang(p) \/ Wake(p) \/ Die(p)
        PROVE lock' \in Locks
    <3>1. \/ lock' = lock \/ lock' = NoLock
          \/ lock' = [lock EXCEPT !.age = 0] \/ lock' = [lock EXCEPT !.written = TRUE, !.age = 0]
          \/ lock' = [there |-> TRUE, by |-> p, written |-> FALSE, age |-> 0]
      BY <2>3, Zenon DEF PressStep, Create, Stat, Unlink, Write, Clear, Beat, Tick, Release, Ask,
                  PickedUp, GiveUp, Press, Close, Hang, Wake, Die
    <3> QED BY <3>1, LocksTyped DEF LockInv
  <2>4. CASE UNCHANGED windowVars
    BY <2>4 DEF windowVars, LockInv
  <2> QED BY <2>1, <2>2, <2>3, <2>4 DEF WindowNext, LockInv
<1> QED BY <1>1, <1>2, PTL DEF WindowSpec

\* Whoever has made the lock and has not lapsed still has it, fresh.
LEMMA HoldersHoldTheLock == WindowSpec => []HolderInv
<1> USE WindowAssumption DEF WindowAssumption, LockInv, Locks, Places, HolderInv, Holder, NoLock, Acquiring, Waiting, Stale
<1>1. WindowInit => HolderInv
  BY DEF WindowInit
<1>2. LockInv /\ HolderInv /\ [WindowNext]_windowVars => HolderInv'
  <2> SUFFICES ASSUME LockInv, HolderInv, [WindowNext]_windowVars PROVE HolderInv'
    OBVIOUS
  <2>1. CASE Elapse
    <3>1. lock'.there = lock.there /\ lock'.by = lock.by
      BY <2>1 DEF Elapse
    <3>2. \A p \in Presses : (Holder(p)' /\ p \notin lapsed') =>
             Holder(p) /\ p \notin lapsed /\ ~(lock'.age > StaleS)
      BY <2>1 DEF Elapse, Open
    <3>3. wrongful' = wrongful
      BY <2>1 DEF Elapse
    <3>4. \A p \in Presses : (Holder(p)' /\ p \notin lapsed') =>
             wrongful' \/ (lock'.there /\ lock'.by = p /\ ~Stale')
      BY <3>1, <3>2, <3>3
    <3> QED BY <3>4
  <2>2. ASSUME NEW p \in Presses, Press(p) \/ Close(p) \/ Hang(p) \/ Wake(p) \/ Die(p)
        PROVE HolderInv'
    BY <2>2 DEF Press, Close, Hang, Wake, Die, Go, FileStep
  <2>3. ASSUME NEW p \in Presses, Create(p) PROVE HolderInv'
    BY <2>3 DEF Create, Go, FileStep, Refuse, Leave
  <2>4. ASSUME NEW p \in Presses, Stat(p) \/ Unlink(p) PROVE HolderInv'
    BY <2>4 DEF Stat, Unlink, Go, FileStep, Refuse, Leave
  <2>5. ASSUME NEW p \in Presses, Write(p) \/ Clear(p) PROVE HolderInv'
    <3>1. lock'.there = lock.there /\ lock'.by = lock.by
      BY <2>5 DEF Write, Clear
    <3>4. lock'.age \in {0, lock.age}
      BY <2>5 DEF Write, Clear
    <3>2. Stale' => Stale
      BY <3>4
    <3>3. (\A q \in Presses : Holder(q)' => Holder(q)) /\ lapsed' = lapsed /\ wrongful' = wrongful
      BY <2>5 DEF Write, Clear, Go, FileStep
    <3> QED BY <3>1, <3>2, <3>3
  <2>6. ASSUME NEW p \in Presses, Beat(p) \/ Tick(p) PROVE HolderInv'
    BY <2>6 DEF Beat, Tick, Go, FileStep
  <2>7. ASSUME NEW p \in Presses, Release(p) PROVE HolderInv'
    BY <2>7 DEF Release, Go, FileStep
  <2>8. ASSUME NEW p \in Presses, Ask(p) \/ PickedUp(p) \/ GiveUp(p) PROVE HolderInv'
    BY <2>8 DEF Ask, PickedUp, GiveUp, Go, FileStep, Leave
  <2>9. CASE UNCHANGED windowVars
    BY <2>9 DEF windowVars
  <2> QED BY <2>1, <2>2, <2>3, <2>4, <2>5, <2>6, <2>7, <2>8, <2>9 DEF WindowNext, PressStep
<1> QED BY <1>1, <1>2, LockTyped, PTL DEF WindowSpec

\* However many presses there are and whatever hangs, dies or is closed, two
\* windows are open at once only where a window stopped ticking or a stale lock
\* was taken over by two presses.
THEOREM OneWindowIsOpen == WindowSpec => []OneWindow
<1>1. HolderInv => OneWindow
  BY DEF HolderInv, Holder, OneWindow, Open
<1> QED BY <1>1, HoldersHoldTheLock, PTL

-----------------------------------------------------------------------------
(* A press is answered.  While a press waits and nothing has excused it,   *)
(* what it finds decides what it may count on: a fresh lock has a window   *)
(* that ticks, a lock made after its own unlink, or left after two beats   *)
(* of asking, has a window that is still to open and to come forward.      *)

Opening(p) == pc[p] \in {"write", "clear"}

\* The lock is that of a press that is opening, ticking or letting go of it.
Kept == lock.by \in Presses /\ (Opening(lock.by) \/ pc[lock.by] = "release"
                                \/ (Open(lock.by) /\ Awake(lock.by)))
Opens == lock.by \in Presses /\ Opening(lock.by)

Patient(p) == pc[p] \in Waiting /\ p \notin served /\ p \notin excused

Trying(p) == pc[p] \in {"create", "stat", "unlink"}

\* It has removed the lock it found, or seen two beats pass unanswered.
Past(p) ==
  \/ Trying(p) /\ (p \in asked \/ tries[p] = 0 \/ (pc[p] = "create" /\ tries[p] = 1))
  \/ pc[p] = "asking" /\ waited[p] >= 2

\* What a press may count on.
Counts(p) ==
  /\ lock.there /\ ~Stale => Kept
  /\ pc[p] \in {"ask", "asking"} /\ lock.there => Kept
  /\ Past(p) /\ lock.there => Opens
  /\ p \in asked /\ Trying(p) /\ (pc[p] = "create" => tries[p] # 2) => \E q \in Presses : Opening(q)
  /\ pc[p] = "asking" => request
  /\ pc[p] = "asking" /\ waited[p] = 1 /\ lock.there /\ Open(lock.by)
       => lock.by \in due \/ pc[lock.by] = "tick"

\* What its lock says of a window, and a window of its press.
Known(p) ==
  /\ pc[p] = "off" => p \notin asked
  /\ pc[p] = "gone" => p \in served \/ p \in excused
  /\ pc[p] \in {"window", "tick", "release"} => p \in served
  /\ pc[p] \in {"clear", "window", "tick"} /\ lock.there /\ lock.by = p => lock.written /\ p \in owned
  /\ lock.there /\ lock.by = None => Stale /\ ~Holder(p)
  /\ lock.there /\ lock.by = p => Holder(p) \/ pc[p] \in {"release", "gone"}

CountersInv == tries \in [Presses -> Nat] /\ waited \in [Presses -> Nat]

AnswerInv == \A p \in Presses : Known(p) /\ (Patient(p) => Counts(p))

LEMMA CountersTyped == WindowSpec => []CountersInv
<1>1. WindowInit => CountersInv
  BY DEF WindowInit, CountersInv
<1>2. CountersInv /\ [WindowNext]_windowVars => CountersInv'
  <2> SUFFICES ASSUME CountersInv, [WindowNext]_windowVars PROVE CountersInv'
    OBVIOUS
  <2>1. CASE Elapse
    BY <2>1 DEF Elapse, CountersInv
  <2>2. ASSUME NEW p \in Presses, Press(p) \/ PressStep(p) \/ Close(p) \/ Hang(p) \/ Wake(p) \/ Die(p)
        PROVE CountersInv'
    <3>1. ASSUME Create(p) PROVE CountersInv'
      <4>1. tries[p] # 0 => tries[p] - 1 \in Nat
        BY DEF CountersInv
      <4> QED BY <3>1, <4>1 DEF Create, CountersInv, FileStep
    <3> QED BY <2>2, <3>1 DEF PressStep, Press, Stat, Unlink, Write, Clear, Beat, Tick, Release, Ask,
                  PickedUp, GiveUp, Close, Hang, Wake, Die, CountersInv, FileStep
  <2>3. CASE UNCHANGED windowVars
    BY <2>3 DEF windowVars, CountersInv
  <2> QED BY <2>1, <2>2, <2>3 DEF WindowNext
<1> QED BY <1>1, <1>2, PTL DEF WindowSpec

WindowInv == LockInv /\ CountersInv /\ AnswerInv

LEMMA CreateAnswers == ASSUME WindowInv, NEW p \in Presses, Create(p) PROVE AnswerInv'
<1> USE DEF WindowInv, LockInv, CountersInv, AnswerInv, Locks
<1> SUFFICES ASSUME NEW q \in Presses PROVE Known(q)' /\ (Patient(q)' => Counts(q)')
  OBVIOUS
<1>1. Known(q)'
  <2>1. p \in asked /\ tries[p] = 0 => p \in served \/ p \in excused \/ \E r \in Presses : Opening(r)
    BY DEF Create, Counts, Patient, Waiting, Acquiring, Trying
  <2>2. served \subseteq served' /\ excused' = excused /\ owned' = owned /\ asked' = asked
    BY DEF Create, Refuse, Leave, FileStep
  <2>3. pc'[q] = "gone" => q \in served' \/ q \in excused'
    BY <2>1, <2>2 DEF Create, Refuse, Leave, Go, Known, Opening
  <2>4. /\ pc[p] = "create"
        /\ q # p => pc'[q] = pc[q]
        /\ q = p => pc'[q] \in {"write", "ask", "stat", "gone"}
        /\ \/ pc'[p] = "write" /\ lock' = [there |-> TRUE, by |-> p, written |-> FALSE, age |-> 0]
           \/ pc'[p] # "write" /\ lock' = lock
    BY DEF Create, Refuse, Leave, Go
  <2> QED BY <2>2, <2>3, <2>4, WindowAssumption DEF WindowAssumption, Known, Holder, Stale
<1>2. ASSUME Patient(q)' PROVE Counts(q)'
  BY <1>2 DEF Known, Create, Refuse, Leave, Go, FileStep, NoLock, Holder, Stale, Opening, Counts, Patient, Waiting, Acquiring, Trying, Past, Kept, Opens, Open, Awake
<1> QED BY <1>1, <1>2

LEMMA TryAnswers ==
  ASSUME WindowInv, NEW p \in Presses, Press(p) \/ Stat(p) \/ Unlink(p)
  PROVE  AnswerInv'
<1> USE DEF WindowInv, LockInv, CountersInv, AnswerInv, Locks
<1> SUFFICES ASSUME NEW q \in Presses PROVE Known(q)' /\ (Patient(q)' => Counts(q)')
  OBVIOUS
<1>1. CASE Press(p)
  <2>1. Known(q)'
    BY <1>1 DEF Known, Press, Go, Holder, Stale
  <2>2. UNCHANGED << lock, request, served, asked, hung, due >> /\ pc[p] = "off" /\ pc'[p] = "create"
        /\ (\A r \in Presses \ {p} : pc'[r] = pc[r] /\ tries'[r] = tries[r] /\ waited'[r] = waited[r])
        /\ tries'[p] = 2 /\ excused \subseteq excused' /\ (Abandoned => p \in excused')
    BY <1>1 DEF Press, Go
  <2>3. Kept => Kept'
    BY <2>2 DEF Kept, Opening, Open, Awake
  <2>4. Opens => Opens'
    BY <2>2 DEF Opens, Opening
  <2>5. CASE q = p
    <3>1. p \notin asked
      BY <2>2 DEF Known
    <3>2. p \notin excused' /\ lock.there /\ ~Stale => Kept'
      <4>1. p \notin excused' /\ lock.there /\ ~Stale => lock.by \in Presses /\ lock.by \notin hung /\ pc[lock.by] # "gone"
        BY <2>2 DEF Abandoned, Known
      <4>2. lock.there /\ lock.by \in Presses => Holder(lock.by) \/ pc[lock.by] \in {"release", "gone"}
        BY DEF Known
      <4> QED BY <2>2, <4>1, <4>2 DEF Kept, Opening, Open, Awake, Holder
    <3> QED BY <2>1, <2>2, <2>5, <3>1, <3>2 DEF Patient, Counts, Past, Trying, Stale
  <2>6. CASE q # p
    <3>1. Patient(q)' => Patient(q)
      BY <2>2, <2>6 DEF Patient
    <3>2. lock.by \in Presses => (Open(lock.by) <=> Open(lock.by)') /\ (pc[lock.by] = "tick" <=> pc'[lock.by] = "tick")
      BY <2>2 DEF Open
    <3>3. Kept => lock.by \in Presses
      BY DEF Kept
    <3>4. (\E r \in Presses : Opening(r)) => \E r \in Presses : Opening(r)'
      BY <2>2 DEF Opening
    <3> QED BY <2>1, <2>2, <2>3, <2>4, <2>6, <3>1, <3>2, <3>3, <3>4 DEF Counts, Past, Trying, Stale
  <2> QED BY <2>5, <2>6
<1>2. CASE Stat(p)
  <2>1. Known(q)'
    BY <1>2 DEF Known, Stat, Refuse, Leave, Go, FileStep, Holder, Stale, Opening, Counts, Patient, Waiting, Acquiring, Trying
  <2>2. ASSUME Patient(q)' PROVE Counts(q)'
    BY <1>2, <2>2 DEF Known, Stat, Refuse, Leave, Go, FileStep, Stale, Opening, Counts, Patient, Waiting, Acquiring, Trying, Past, Kept, Opens, Open, Awake
  <2> QED BY <2>1, <2>2
<1>3. CASE Unlink(p)
  <2>1. Known(q)'
    BY <1>3 DEF Known, Unlink, NoLock, Go, FileStep, Holder
  <2>2. ASSUME Patient(q)' PROVE Counts(q)'
    BY <1>3, <2>2 DEF Unlink, NoLock, Go, FileStep, Stale, Opening, Counts, Patient, Waiting, Acquiring, Trying, Past, Kept, Opens, Open, Awake
  <2> QED BY <2>1, <2>2
<1> QED BY <1>1, <1>2, <1>3

LEMMA OpenAnswers ==
  ASSUME WindowInv, NEW p \in Presses, Write(p) \/ Clear(p)
  PROVE  AnswerInv'
<1> USE DEF WindowInv, LockInv, CountersInv, AnswerInv, Locks
<1> SUFFICES ASSUME NEW q \in Presses PROVE Known(q)' /\ (Patient(q)' => Counts(q)')
  OBVIOUS
<1>1. CASE Write(p)
  <2>1. Known(q)'
    BY <1>1 DEF Known, Write, Go, FileStep, Holder, Stale
  <2>2. ASSUME Patient(q)' PROVE Counts(q)'
    BY <1>1, <2>2 DEF Known, Write, Go, FileStep, Holder, Stale, Opening, Counts, Patient, Waiting, Acquiring, Trying, Past, Kept, Opens, Open, Awake
  <2> QED BY <2>1, <2>2
<1>2. CASE Clear(p)
  <2>1. Known(q)'
    BY <1>2 DEF Known, Clear, Go, FileStep, Holder, Stale, ServedBy, Waiting, Acquiring
  <2>2. ~Patient(q)'
    BY <1>2 DEF Clear, Go, Patient, ServedBy, Waiting, Acquiring
  <2> QED BY <2>1, <2>2
<1> QED BY <1>1, <1>2

LEMMA TickAnswers ==
  ASSUME WindowInv, NEW p \in Presses, Beat(p) \/ Tick(p)
  PROVE  AnswerInv'
<1> USE DEF WindowInv, LockInv, CountersInv, AnswerInv, Locks
<1> SUFFICES ASSUME NEW q \in Presses PROVE Known(q)' /\ (Patient(q)' => Counts(q)')
  OBVIOUS
<1>1. CASE Beat(p)
  <2>1. Known(q)'
    BY <1>1 DEF Known, Beat, Go, Holder, Stale, Mine
  <2>2. ASSUME Patient(q)' PROVE Counts(q)'
    BY <1>1, <2>2 DEF Beat, Go, Stale, Opening, Counts, Patient, Waiting, Acquiring, Trying, Past, Kept, Opens, Open, Awake
  <2> QED BY <2>1, <2>2
<1>2. CASE Tick(p)
  <2>1. Known(q)'
    BY <1>2, WindowAssumption DEF WindowAssumption, Known, Tick, Go, Holder, Stale
  <2>2. ASSUME Patient(q)' PROVE Counts(q)'
    BY <1>2, <2>2 DEF Known, Tick, Go, Stale, Revives, ServedBy, Opening, Counts, Patient, Waiting, Acquiring, Trying, Past, Kept, Opens, Open, Awake
  <2> QED BY <2>1, <2>2
<1> QED BY <1>1, <1>2

LEMMA CloseAnswers ==
  ASSUME WindowInv, NEW p \in Presses, Close(p) \/ Release(p) \/ Die(p)
  PROVE  AnswerInv'
<1> USE DEF WindowInv, LockInv, CountersInv, AnswerInv, Locks
<1> SUFFICES ASSUME NEW q \in Presses PROVE Known(q)' /\ (Patient(q)' => Counts(q)')
  OBVIOUS
<1>1. CASE Close(p)
  <2>1. Known(q)'
    BY <1>1 DEF Known, Close, Go, Holder, Stale, Mine
  <2>2. ASSUME Patient(q)' PROVE Counts(q)'
    BY <1>1, <2>2 DEF Known, Close, Go, Mine, Stale, Opening, Counts, Patient, Waiting, Acquiring, Trying, Past, Kept, Opens, Open, Awake
  <2> QED BY <2>1, <2>2
<1>2. CASE Release(p)
  <2>1. Known(q)'
    BY <1>2 DEF Known, Release, NoLock, Go, FileStep, Holder
  <2>2. ASSUME Patient(q)' PROVE Counts(q)'
    BY <1>2, <2>2 DEF Release, NoLock, Go, FileStep, Stale, Opening, Counts, Patient, Waiting, Acquiring, Trying, Past, Kept, Opens, Open, Awake
  <2> QED BY <2>1, <2>2
<1>3. CASE Die(p)
  <2>1. Known(q)'
    BY <1>3 DEF Known, Die, Go, Holder, Stale, Places, Waiting, Acquiring
  <2>2. ~Patient(q)'
    BY <1>3 DEF Die, Go, Patient, Waiting, Acquiring
  <2> QED BY <2>1, <2>2
<1> QED BY <1>1, <1>2, <1>3

LEMMA AskAnswers ==
  ASSUME WindowInv, NEW p \in Presses, Ask(p) \/ PickedUp(p) \/ GiveUp(p)
  PROVE  AnswerInv'
<1> USE DEF WindowInv, LockInv, CountersInv, AnswerInv, Locks
<1> SUFFICES ASSUME NEW q \in Presses PROVE Known(q)' /\ (Patient(q)' => Counts(q)')
  OBVIOUS
<1>1. CASE Ask(p)
  <2>1. Known(q)'
    BY <1>1 DEF Known, Ask, Go, FileStep, Holder, Stale
  <2>2. ASSUME Patient(q)' PROVE Counts(q)'
    BY <1>1, <2>2 DEF Ask, Go, FileStep, Stale, Opening, Counts, Patient, Waiting, Acquiring, Trying, Past, Kept, Opens, Open, Awake
  <2> QED BY <2>1, <2>2
<1>2. CASE PickedUp(p)
  <2>1. Known(q)'
    BY <1>2 DEF Known, PickedUp, Leave, Go, FileStep, Holder, Stale, Counts, Patient, Waiting
  <2>2. ASSUME Patient(q)' PROVE Counts(q)'
    BY <1>2, <2>2 DEF PickedUp, Leave, Go, FileStep, Stale, Opening, Counts, Patient, Waiting, Acquiring, Trying, Past, Kept, Opens, Open, Awake
  <2> QED BY <2>1, <2>2
<1>3. CASE GiveUp(p)
  <2>1. Known(q)'
    BY <1>3 DEF Known, GiveUp, Go, Holder, Stale
  <2>2. waited[p] >= 2
    BY <1>3, WindowAssumption DEF WindowAssumption, GiveUp
  <2>3. ASSUME Patient(q)' PROVE Counts(q)'
    BY <1>3, <2>2, <2>3 DEF GiveUp, Go, Stale, Opening, Counts, Patient, Waiting, Acquiring, Trying, Past, Kept, Opens, Open, Awake
  <2> QED BY <2>1, <2>3
<1> QED BY <1>1, <1>2, <1>3

LEMMA HangAnswers ==
  ASSUME WindowInv, NEW p \in Presses, Hang(p) \/ Wake(p)
  PROVE  AnswerInv'
<1> USE DEF WindowInv, LockInv, CountersInv, AnswerInv, Locks
<1> SUFFICES ASSUME NEW q \in Presses PROVE Known(q)' /\ (Patient(q)' => Counts(q)')
  OBVIOUS
<1>1. Known(q)'
  BY DEF Hang, Wake, Known, Holder, Stale
<1>2. CASE Hang(p)
  BY <1>1, <1>2 DEF Hang, Patient
<1>3. CASE Wake(p)
  BY <1>1, <1>3 DEF Wake, Stale, Opening, Counts, Patient, Trying, Past, Kept, Opens, Open, Awake
<1> QED BY <1>2, <1>3

\* A beat passes only when every window that can has ticked since the last one.
LEMMA ElapseAnswers == ASSUME WindowInv, Elapse PROVE AnswerInv'
<1> USE DEF WindowInv, LockInv, CountersInv, AnswerInv, Locks
<1> SUFFICES ASSUME NEW q \in Presses PROVE Known(q)' /\ (Patient(q)' => Counts(q)')
  OBVIOUS
<1>1. /\ lock'.there = lock.there /\ lock'.by = lock.by /\ lock'.written = lock.written
      /\ ~Stale' => ~Stale
      /\ lock.there /\ Stale => Stale'
  BY WindowAssumption DEF WindowAssumption, Elapse, Stale
<1>2. Known(q)'
  BY <1>1 DEF Elapse, Known, Holder
<1>3. ASSUME Patient(q)' PROVE Counts(q)'
  <2>1. Patient(q) /\ Counts(q) /\ \A r \in Presses : pc[r] # "release"
    BY <1>3 DEF Elapse, Patient, ServedBy
  <2>2. UNCHANGED << pc, tries, asked, hung, request >>
    BY DEF Elapse
  <2>3. pc[q] = "asking" /\ waited[q] >= 1 /\ lock.there => Opens
    BY <2>1 DEF Elapse, Counts, Past, Kept, Opens, Open, Awake
  <2>4. \A r \in Presses : Open(r) => r \in due'
    BY DEF Elapse
  <2>5. pc[q] = "asking" => waited'[q] = waited[q] + 1
    BY DEF Elapse
  <2>6. Past(q)' /\ lock'.there => Opens'
    BY <1>1, <2>1, <2>2, <2>3, <2>5 DEF Counts, Past, Trying, Opens, Opening
  <2> QED BY <1>1, <2>1, <2>2, <2>4, <2>6 DEF Counts, Past, Trying, Kept, Opens, Opening, Open, Awake
<1> QED BY <1>2, <1>3

\* However many presses there are: one that leaves without a window of its own
\* has had one come forward, unless a window failed, closed or opened late
\* while it waited.
THEOREM PressesAreAnswered == WindowSpec => []PressIsAnswered
<1>1. WindowInit => AnswerInv
  BY WindowAssumption DEF WindowAssumption, WindowInit, AnswerInv, Known, Patient, Waiting, Acquiring, NoLock, Holder, Stale
<1>2. WindowInv /\ [WindowNext]_windowVars => AnswerInv'
  <2> SUFFICES ASSUME WindowInv, [WindowNext]_windowVars PROVE AnswerInv'
    OBVIOUS
  <2>1. CASE UNCHANGED windowVars
    BY <2>1 DEF windowVars, WindowInv, AnswerInv, Known, Patient, Counts, Past, Trying, Kept, Opens, Opening,
       Open, Awake, Stale, Holder
  <2> QED BY <2>1, CreateAnswers, TryAnswers, OpenAnswers, TickAnswers, CloseAnswers, AskAnswers, HangAnswers,
             ElapseAnswers DEF WindowNext, PressStep
<1>3. AnswerInv => PressIsAnswered
  BY DEF AnswerInv, Known, PressIsAnswered
<1> QED BY <1>1, <1>2, <1>3, LockTyped, CountersTyped, PTL DEF WindowSpec, WindowInv

(***************************************************************************)
(* One project for a board.                                                *)
(***************************************************************************)

Beginning == {"idle", "connect", "starting", "read"}
Asking == {"exists", "lookup"}
Ending == {"upload", "record", "save"}
Rows == [project : Nat, bytes : Bytes \cup {Nothing}, state : {"queued", "parsed", "failed"}]

\* p is or was a project: 0 is the browser's, the others are the plugin's.
Was(p) == p \in Nat /\ p <= made /\ (p = 0 => browsed)

Typed ==
  /\ made \in Nat /\ moves \in Nat /\ troubles \in Nat
  /\ at \in Beginning \cup Asking \cup {"create"} \cup Ending
  /\ editor \in Bytes /\ data \in Bytes \cup {Nothing}
  /\ boards \in Seq(Rows)
  /\ \A p \in projects : Was(p)
  /\ \A i \in DOMAIN boards : Was(boards[i].project)
  /\ store = Nothing \/ Was(store)
  /\ at \in Ending => Was(project)
  /\ at = "exists" => remembered = store
  /\ at = "lookup" => remembered \in {store, Nothing}
  /\ shown # Nothing => Was(shown.project)

\* The project the plugin is concerned with, whether it is there, and whether
\* the store is about to name another.
Concern == IF at \in Beginning THEN store
           ELSE IF at \in Asking THEN remembered
           ELSE IF at \in Ending THEN project ELSE Nothing
Missing == IF Concern \in projects THEN 0 ELSE 1
Moving == IF at \in Ending /\ project # store THEN 1 ELSE 0

CountInv ==
  /\ made + Missing <= 1 + troubles
  /\ moves + Missing + Moving <= 1 + troubles

\* Project p, if it is there, has a board of these bytes.
Holds(p, bytes) == p \in projects => \E i \in DOMAIN boards : boards[i].project = p /\ boards[i].bytes = bytes

HeldInv ==
  /\ at = "save" => Holds(project, data)
  /\ shown # Nothing => Holds(shown.project, shown.bytes)

Inv == CountInv /\ HeldInv

-------------------------------------------------------------------------------
(* The newest board of some bytes. *)

Less == {ss \in Nat \X Nat : ss[1] < ss[2]}

\* The numbers below a number run out, so a set of them that is bounded has a largest.
LEMMA LessIsWellFounded == IsWellFoundedOn(Less, Nat)
  BY NatLessThanWellFounded DEF OpToRel, Less

\* Max of a set of positions is one of them.
LEMMA MaxOfSome ==
  ASSUME NEW n \in Nat, NEW S \in SUBSET (1 .. n), S # {}
  PROVE  Max(S) \in S
<1> DEFINE T == {n - x : x \in S}
<1>1. T \subseteq Nat
  <2> SUFFICES ASSUME NEW x \in S PROVE n - x \in Nat
    OBVIOUS
  <2>1. x \in 1 .. n
    OBVIOUS
  <2> QED BY <2>1
<1>2. T # {}
  OBVIOUS
<1>3. \E t \in T : \A y \in T : ~ (<<y, t>> \in Less)
  <2> HIDE DEF T
  <2> QED BY <1>1, <1>2, LessIsWellFounded, WFMin
<1>4. PICK t \in T : \A y \in T : ~ (<<y, t>> \in Less)
  BY <1>3
<1>5. PICK m \in S : t = n - m
  BY <1>4
<1>6. \A y \in S : m >= y
  <2> SUFFICES ASSUME NEW y \in S PROVE m >= y
    OBVIOUS
  <2>1. ~ (<<n - y, t>> \in Less)
    BY <1>4
  <2>2. n - y \in Nat /\ t \in Nat
    BY <1>1, <1>4
  <2>3. ~(n - y < t)
    BY <2>1, <2>2 DEF Less
  <2>4. y \in 1 .. n /\ m \in 1 .. n
    OBVIOUS
  <2> QED BY <2>3, <2>4, <1>5
<1> QED BY <1>6 DEF Max

\* What the lookup finds is a project that is there and has the bytes.
LEMMA FoundHolds ==
  ASSUME Typed, Found # Nothing
  PROVE  Found \in projects /\ Holds(Found, data)
<1> DEFINE same == {i \in DOMAIN boards : There(i) /\ boards[i].bytes = data /\ boards[i].state = "parsed"}
<1>1. same # {} /\ Found = boards[Max(same)].project
  BY DEF Found
<1>2. Len(boards) \in Nat /\ DOMAIN boards = 1 .. Len(boards)
  BY DEF Typed
<1>3. same \in SUBSET (1 .. Len(boards))
  BY <1>2
<1>4. Max(same) \in same
  <2> HIDE DEF same
  <2> QED BY <1>1, <1>2, <1>3, MaxOfSome
<1> QED BY <1>1, <1>4 DEF There, Holds


-------------------------------------------------------------------------------
(* Types. *)

\* Appending a board, and ending its analysis, leave the others what they are.
LEMMA BoardsGrow ==
  ASSUME Typed, NEW r \in Rows, boards' = Append(boards, r)
  PROVE  /\ boards' \in Seq(Rows) /\ Len(boards) \in Nat /\ DOMAIN boards = 1 .. Len(boards)
         /\ DOMAIN boards' = 1 .. (Len(boards) + 1)
         /\ boards'[Len(boards) + 1] = r /\ \A i \in DOMAIN boards : boards'[i] = boards[i]
  BY DEF Typed

LEMMA AnalysedBoards ==
  ASSUME Typed, NEW i \in DOMAIN boards, Analyse(i)
  PROVE  /\ boards' \in Seq(Rows) /\ DOMAIN boards' = DOMAIN boards
         /\ \A j \in DOMAIN boards : boards'[j].project = boards[j].project /\ boards'[j].bytes = boards[j].bytes
<1>1. PICK s \in {"parsed", "failed"} : boards' = [boards EXCEPT ![i].state = s]
  BY DEF Analyse
<1>2. boards \in Seq(Rows)
  BY DEF Typed
<1>3. boards[i] \in Rows
  BY <1>2
<1>4. [boards[i] EXCEPT !.state = s] \in Rows
  BY <1>3 DEF Rows
<1>5. /\ boards' = [boards EXCEPT ![i] = [boards[i] EXCEPT !.state = s]]
      /\ [boards[i] EXCEPT !.state = s].project = boards[i].project
      /\ [boards[i] EXCEPT !.state = s].bytes = boards[i].bytes
  BY <1>1, <1>3 DEF Rows
<1> QED BY <1>2, <1>4, <1>5

\* A press goes on, or what it knew is gone.
LEMMA FailsTyped == ASSUME Fails PROVE at' = "idle" /\ data' = Nothing /\ remembered' = Nothing /\ project' = Nothing
  BY DEF Fails, Goto

\* The steps of a press that make no project and record no board.
Step ==
  \/ BeginPress \/ ConnectApp \/ AppAnswers \/ AppUnavailable \/ ReadBoard \/ Exists \/ Lookup
  \/ Upload \/ SaveProject \/ PluginDies

\* Such a step keeps every variable what it is said to be.
LEMMA StepTyped == ASSUME Typed, Step PROVE Typed'
<1> USE DEF World, Goto, Fails, Trouble, Beginning, Asking, Ending
<1>1. UNCHANGED <<projects, boards, browsed, made, editor>>
  BY DEF Step, BeginPress, ConnectApp, AppAnswers, AppUnavailable, ReadBoard, Exists, Lookup, Upload, SaveProject, PluginDies
<1>2. made' \in Nat /\ moves' \in Nat /\ troubles' \in Nat
  BY <1>1 DEF Typed, Step, BeginPress, ConnectApp, AppAnswers, AppUnavailable, ReadBoard, Exists, Lookup, Upload, SaveProject, PluginDies
<1>3. editor' \in Bytes /\ data' \in Bytes \cup {Nothing} /\ boards' \in Seq(Rows)
  BY <1>1 DEF Typed, Step, BeginPress, ConnectApp, AppAnswers, AppUnavailable, ReadBoard, Exists, Lookup, Upload, SaveProject, PluginDies
<1>4. (\A p \in projects : Was(p))' /\ (\A i \in DOMAIN boards : Was(boards[i].project))'
  <2>1. (\A p \in projects : Was(p)) /\ \A i \in DOMAIN boards : Was(boards[i].project)
    BY DEF Typed
  <2> QED BY <1>1, <2>1 DEF Was
<1>5. /\ at' \in Beginning \cup Asking \cup {"create"} \cup Ending
      /\ store' = Nothing \/ Was(store')
      /\ at' \in Ending => Was(project')
      /\ at' = "exists" => remembered' = store'
      /\ at' = "lookup" => remembered' \in {store', Nothing}
      /\ shown' # Nothing => Was(shown'.project)
  <2>1. CASE BeginPress
    BY <2>1 DEF BeginPress, Typed
  <2>2. CASE ConnectApp \/ AppAnswers \/ AppUnavailable
    BY <2>2 DEF ConnectApp, AppAnswers, AppUnavailable, Typed
  <2>3. CASE ReadBoard
    BY <2>3 DEF ReadBoard, Typed
  <2>4. CASE Exists
    BY <2>4 DEF Exists, Typed
  <2>5. CASE Lookup
    <3>1. Found = Nothing \/ Was(Found)
      BY FoundHolds DEF Typed
    <3>2. at = "lookup" /\ UNCHANGED <<store, shown>> /\ (Decide(Found) \/ Decide(Nothing))
      BY <2>5 DEF Lookup
    <3> QED BY <3>1, <3>2 DEF Decide, Typed
  <2>6. CASE Upload
    BY <2>6 DEF Upload, Typed
  <2>7. CASE SaveProject
    BY <2>7 DEF SaveProject, Typed
  <2>8. CASE PluginDies
    BY <2>8 DEF PluginDies, Typed
  <2> QED BY <2>1, <2>2, <2>3, <2>4, <2>5, <2>6, <2>7, <2>8 DEF Step
<1> QED BY <1>1, <1>2, <1>3, <1>4, <1>5 DEF Typed, Was


\* The user's and the app's steps that touch no board and no press.
Aside == Edit \/ AppStarts \/ AppQuits \/ \E p \in projects : DeleteProject(p)

LEMMA AsideTyped == ASSUME Typed, Aside PROVE Typed' /\ projects' \subseteq projects
<1>1. /\ UNCHANGED <<boards, browsed, PluginRest>> /\ editor' \in Bytes /\ troubles' \in Nat
      /\ projects' \subseteq projects
  BY DEF Aside, Edit, AppStarts, AppQuits, DeleteProject, Trouble, Typed
<1>2. (\A i \in DOMAIN boards : Was(boards[i].project))'
  <2>1. \A i \in DOMAIN boards : Was(boards[i].project)
    BY DEF Typed
  <2> QED BY <1>1, <2>1 DEF Was, PluginRest
<1>3. UNCHANGED <<store, at, data, remembered, project, shown, made, moves>>
  BY <1>1 DEF PluginRest
<1> QED BY <1>1, <1>2, <1>3 DEF Typed, Was

\* A project is made under a number of its own.
LEMMA CreateTyped == ASSUME Typed, CreateProject PROVE Typed'
<1> USE DEF Fails, Goto, Trouble, Beginning, Asking, Ending
<1>1. /\ UNCHANGED <<editor, boards, browsed, store, shown, moves>>
      /\ made' \in {made, made + 1} /\ troubles' \in {troubles, troubles + 1}
      /\ projects' = projects \/ (made' = made + 1 /\ projects' = projects \cup {made + 1})
      /\ \/ at' = "upload" /\ project' = made + 1 /\ made' = made + 1 /\ UNCHANGED data
         \/ at' = "idle" /\ data' = Nothing
  BY DEF CreateProject
<1>2. (\A i \in DOMAIN boards : Was(boards[i].project))'
  <2>1. \A i \in DOMAIN boards : Was(boards[i].project)
    BY DEF Typed
  <2> QED BY <1>1, <2>1 DEF Was, Typed
<1>3. \A p \in projects' : Was(p)'
  BY <1>1 DEF Typed, Was
<1> QED BY <1>1, <1>2, <1>3 DEF Typed, Was

Row(p, b) == [project |-> p, bytes |-> b, state |-> "queued"]

\* A recorded board is of a project that there is.
LEMMA RecordTyped == ASSUME Typed, RecordBoard PROVE Typed'
<1> USE DEF Fails, Goto, Trouble, Beginning, Asking, Ending
<1>1. /\ UNCHANGED <<editor, projects, browsed, store, shown, made, moves>>
      /\ troubles' \in {troubles, troubles + 1}
      /\ boards' = boards \/ (project \in projects /\ boards' = Append(boards, Row(project, data)))
      /\ \/ at' = "save" /\ UNCHANGED <<project, data>>
         \/ at' = "idle" /\ data' = Nothing
  BY DEF RecordBoard, Row
<1>2. boards' \in Seq(Rows) /\ (\A i \in DOMAIN boards : Was(boards[i].project))'
  <2>1. \A i \in DOMAIN boards : Was(boards[i].project)
    BY DEF Typed
  <2>2. CASE boards' = boards
    BY <1>1, <2>1, <2>2 DEF Was, Typed
  <2>3. CASE project \in projects /\ boards' = Append(boards, Row(project, data))
    <3>1. Was(project) /\ Row(project, data) \in Rows /\ Row(project, data).project = project
      BY <2>3 DEF Typed, Row, Rows, Was
    <3>2. /\ boards' \in Seq(Rows) /\ Len(boards) \in Nat /\ DOMAIN boards = 1 .. Len(boards)
          /\ DOMAIN boards' = 1 .. (Len(boards) + 1)
          /\ boards'[Len(boards) + 1] = Row(project, data) /\ \A i \in DOMAIN boards : boards'[i] = boards[i]
      BY <2>3, <3>1, BoardsGrow
    <3>3. \A i \in DOMAIN boards' : Was(boards'[i].project)
      BY <2>1, <3>1, <3>2
    <3> QED BY <1>1, <3>2, <3>3 DEF Was
  <2> QED BY <1>1, <2>2, <2>3
<1>3. at = "record"
  BY DEF RecordBoard
<1> QED BY <1>1, <1>2, <1>3 DEF Typed, Was

\* The browser's copy is a board of the browser's project.
LEMMA BrowserTyped == ASSUME Typed, BrowserUploads PROVE Typed'
<1>1. /\ UNCHANGED <<editor, store, at, data, remembered, project, shown, made, moves, troubles>>
      /\ browsed' = TRUE /\ projects' = projects \cup {0}
  BY DEF BrowserUploads, PluginRest
<1>2. \A p : Was(p) => Was(p)'
  BY <1>1 DEF Was
<1>3. PICK b \in Bytes : boards' = Append(boards, Row(0, b))
  BY DEF BrowserUploads, Row
<1>4. Row(0, b) \in Rows /\ Row(0, b).project = 0 /\ Was(0)'
  BY <1>1 DEF Row, Rows, Was, Typed
<1>5. /\ boards' \in Seq(Rows) /\ Len(boards) \in Nat /\ DOMAIN boards = 1 .. Len(boards)
      /\ DOMAIN boards' = 1 .. (Len(boards) + 1)
      /\ boards'[Len(boards) + 1] = Row(0, b) /\ \A i \in DOMAIN boards : boards'[i] = boards[i]
  BY <1>3, <1>4, BoardsGrow
<1>6. (\A i \in DOMAIN boards : Was(boards[i].project))'
  <2>1. \A i \in DOMAIN boards : Was(boards[i].project)
    BY DEF Typed
  <2>2. \A i \in DOMAIN boards' : Was(boards'[i].project) \/ boards'[i].project = 0
    BY <1>4, <1>5, <2>1
  <2> QED BY <1>1, <1>4, <2>2 DEF Was
<1> QED BY <1>1, <1>4, <1>5, <1>6 DEF Typed, Was

\* The end of an analysis changes the state of one board.
LEMMA AnalyseTyped == ASSUME Typed, NEW i \in DOMAIN boards, Analyse(i) PROVE Typed'
<1>1. UNCHANGED <<editor, projects, browsed, store, at, data, remembered, project, shown, made, moves, troubles>>
  BY DEF Analyse, PluginRest
<1>2. /\ boards' \in Seq(Rows) /\ DOMAIN boards' = DOMAIN boards
      /\ \A j \in DOMAIN boards : boards'[j].project = boards[j].project
  BY AnalysedBoards
<1>3. (\A j \in DOMAIN boards : Was(boards[j].project))'
  <2>1. \A j \in DOMAIN boards : Was(boards[j].project)
    BY DEF Typed
  <2> QED BY <1>1, <1>2, <2>1 DEF Was
<1> QED BY <1>1, <1>2, <1>3 DEF Typed, Was


-------------------------------------------------------------------------------
(* What the projects made and the changes of the store are paid for by. *)

\* Each step that makes something missing, or fails with it, is a trouble.
LEMMA CountKept ==
  ASSUME Typed, CountInv, [BoardNext]_boardVars
  PROVE  CountInv'
<1> USE DEF CountInv, Missing, Moving, Concern, Typed, Beginning, Asking, Ending, Goto, Fails, Trouble
<1>0. Nothing \notin projects
  BY BoardAssumption DEF BoardAssumption, Was
<1>1. CASE BeginPress \/ ConnectApp \/ AppAnswers \/ AppUnavailable
  BY <1>1 DEF BeginPress, ConnectApp, AppAnswers, AppUnavailable, World
<1>2. CASE ReadBoard
  BY <1>0, <1>2 DEF ReadBoard, World
<1>3. CASE Exists
  BY <1>0, <1>3 DEF Exists, World
<1>4. CASE Lookup
  <2>1. PICK found \in {Found, Nothing} : Decide(found)
    BY <1>4 DEF Lookup
  <2>2. found = Nothing \/ found \in projects
    BY <2>1, FoundHolds
  <2>3. at = "lookup" /\ UNCHANGED <<projects, store, made, moves>> /\ (troubles' = troubles \/ troubles' = troubles + 1)
    BY <1>4 DEF Lookup, World
  <2>4. \/ at' = "save" /\ project' = found /\ found # Nothing /\ remembered \in {Nothing, found}
        \/ at' \in {"create", "upload"} /\ project' = remembered /\ (at' = "create" <=> remembered = Nothing)
    BY <2>1 DEF Decide
  <2>5. CASE at' = "save" /\ project' = found /\ found # Nothing /\ remembered = Nothing
    BY <1>0, <2>2, <2>3, <2>5
  <2>6. CASE at' = "save" /\ project' = found /\ found # Nothing /\ remembered = found
    BY <1>0, <2>2, <2>3, <2>6
  <2>7. CASE at' = "create" /\ remembered = Nothing
    BY <1>0, <2>3, <2>7
  <2>8. CASE at' = "upload" /\ project' = remembered /\ remembered # Nothing
    BY <1>0, <2>3, <2>8
  <2> QED BY <2>4, <2>5, <2>6, <2>7, <2>8
<1>5. CASE CreateProject
  BY <1>0, <1>5 DEF CreateProject
<1>6. CASE Upload
  BY <1>6 DEF Upload, World
<1>7. CASE RecordBoard
  BY <1>7 DEF RecordBoard
<1>8. CASE SaveProject
  BY <1>8 DEF SaveProject, World
<1>9. CASE PluginDies
  BY <1>9 DEF PluginDies, World
<1>10. CASE Edit \/ AppStarts \/ AppQuits \/ BrowserUploads \/ \E i \in DOMAIN boards : Analyse(i)
  BY <1>10 DEF Edit, AppStarts, AppQuits, BrowserUploads, Analyse, PluginRest
<1>11. CASE \E p \in projects : DeleteProject(p)
  BY <1>11 DEF DeleteProject, PluginRest
<1>12. CASE UNCHANGED boardVars
  BY <1>12 DEF boardVars
<1> QED BY <1>1, <1>2, <1>3, <1>4, <1>5, <1>6, <1>7, <1>8, <1>9, <1>10, <1>11, <1>12 DEF BoardNext, PluginStep


-------------------------------------------------------------------------------
(* What the window shows, and is about to show, has the bytes that were read. *)

\* No step takes a board away from a project that stays, and no project that
\* was there once comes back.
HoldersStay ==
  /\ \A p : Was(p) /\ p \in projects' => p \in projects
  /\ \A i \in DOMAIN boards : i \in DOMAIN boards' /\ boards'[i].project = boards[i].project
                              /\ boards'[i].bytes = boards[i].bytes

LEMMA StayingHolds ==
  ASSUME HoldersStay, NEW p, NEW b, Was(p), Holds(p, b)
  PROVE  p \in projects' => \E i \in DOMAIN boards' : boards'[i].project = p /\ boards'[i].bytes = b
  BY DEF HoldersStay, Holds

LEMMA HoldersDoStay == ASSUME Typed, [BoardNext]_boardVars PROVE HoldersStay
<1>1. CASE Step \/ Aside \/ UNCHANGED boardVars
  <2>1. projects' \subseteq projects
    BY <1>1, AsideTyped DEF Step, World, boardVars, BeginPress, ConnectApp, AppAnswers, AppUnavailable,
       ReadBoard, Exists, Lookup, Upload, SaveProject, PluginDies
  <2>2. boards' = boards
    BY <1>1 DEF Step, Aside, World, boardVars, BeginPress, ConnectApp, AppAnswers, AppUnavailable, ReadBoard,
       Exists, Lookup, Upload, SaveProject, PluginDies, Edit, AppStarts, AppQuits, DeleteProject
  <2> QED BY <2>1, <2>2 DEF HoldersStay
<1>2. CASE CreateProject
  <2>1. boards' = boards /\ (projects' = projects \/ projects' = projects \cup {made + 1})
    BY <1>2 DEF CreateProject
  <2>2. ~Was(made + 1)
    BY DEF Typed, Was
  <2> QED BY <2>1, <2>2 DEF HoldersStay
<1>3. CASE RecordBoard
  <2>1. projects' = projects /\ (boards' = boards \/ (project \in projects /\ boards' = Append(boards, Row(project, data))))
    BY <1>3 DEF RecordBoard, Row
  <2>2. CASE boards' = boards
    BY <2>1, <2>2 DEF HoldersStay
  <2>3. CASE project \in projects /\ boards' = Append(boards, Row(project, data))
    <3>1. Row(project, data) \in Rows
      BY <2>3 DEF Typed, Row, Rows, Was
    <3> QED BY <2>1, <2>3, <3>1, BoardsGrow DEF HoldersStay
  <2> QED BY <2>1, <2>2, <2>3
<1>4. CASE BrowserUploads
  <2>1. ~browsed /\ projects' = projects \cup {0}
    BY <1>4 DEF BrowserUploads
  <2>2. PICK b \in Bytes : boards' = Append(boards, Row(0, b))
    BY <1>4 DEF BrowserUploads, Row
  <2>3. Row(0, b) \in Rows
    BY DEF Row, Rows
  <2>4. ~Was(0)
    BY <2>1 DEF Was
  <2> QED BY <2>1, <2>2, <2>3, <2>4, BoardsGrow DEF HoldersStay
<1>5. ASSUME NEW i \in DOMAIN boards, Analyse(i) PROVE HoldersStay
  <2>1. projects' = projects
    BY <1>5 DEF Analyse
  <2> QED BY <1>5, <2>1, AnalysedBoards DEF HoldersStay
<1> QED BY <1>1, <1>2, <1>3, <1>4, <1>5 DEF BoardNext, PluginStep, Step, Aside

\* A save follows a lookup that found the bytes or a board that was recorded.
LEMMA HeldKept == ASSUME Typed, HeldInv, [BoardNext]_boardVars PROVE HeldInv'
<1> USE HoldersDoStay, StayingHolds
\* The press: only a lookup that found the bytes and a board recorded reach the save.
<1>1. at' = "save" => \/ at = "save" /\ UNCHANGED <<project, data>>
                      \/ at = "lookup" /\ Lookup
                      \/ at = "record" /\ RecordBoard
  <2>1. CASE PluginStep \/ BeginPress \/ PluginDies
    BY <2>1 DEF PluginStep, BeginPress, PluginDies, ConnectApp, AppAnswers, AppUnavailable, ReadBoard, Exists, Lookup,
                CreateProject, Upload, RecordBoard, SaveProject, Goto, Fails
  <2>2. CASE UNCHANGED PluginRest \/ UNCHANGED boardVars
    BY <2>2 DEF PluginRest, boardVars
  <2> QED BY <2>1, <2>2 DEF BoardNext, Edit, AppStarts, AppQuits, BrowserUploads, Analyse, DeleteProject
<1>2. (at = "save" => Holds(project, data))'
  <2>1. CASE at' # "save"
    BY <2>1
  <2>2. CASE at' = "save" /\ at = "save" /\ UNCHANGED <<project, data>>
    <3>1. Was(project) /\ Holds(project, data)
      BY <2>2 DEF HeldInv, Typed, Ending
    <3> QED BY <2>2, <3>1 DEF Holds
  <2>3. CASE at' = "save" /\ at = "lookup" /\ Lookup
    <3>1. UNCHANGED <<projects, boards, data>> /\ project' = Found /\ Found # Nothing
      BY <2>3 DEF Lookup, Decide, Goto, World
    <3> QED BY <3>1, FoundHolds DEF Holds
  <2>4. CASE at' = "save" /\ at = "record" /\ RecordBoard
    <3>1. UNCHANGED <<projects, project, data>> /\ boards' = Append(boards, Row(project, data)) /\ project \in projects
      BY <2>4 DEF RecordBoard, Row, Goto, Fails
    <3>2. Row(project, data) \in Rows /\ Row(project, data).project = project /\ Row(project, data).bytes = data
      BY <3>1 DEF Typed, Row, Rows, Was
    <3>3. /\ Len(boards) + 1 \in DOMAIN boards' /\ boards'[Len(boards) + 1] = Row(project, data)
      BY <3>1, <3>2, BoardsGrow
    <3> QED BY <3>1, <3>2, <3>3 DEF Holds
  <2> QED BY <1>1, <2>1, <2>2, <2>3, <2>4
<1>3. (shown # Nothing => Holds(shown.project, shown.bytes))'
  <2>1. \/ shown' = shown \/ shown' = Nothing
        \/ at = "save" /\ shown' = [project |-> project, bytes |-> data]
    BY DEF BoardNext, PluginStep, BeginPress, PluginDies, ConnectApp, AppAnswers, AppUnavailable, ReadBoard, Exists, Lookup,
           CreateProject, Upload, RecordBoard, SaveProject, Edit, AppStarts, AppQuits, BrowserUploads, Analyse, DeleteProject,
           PluginRest, boardVars
  <2>2. CASE shown' = shown /\ shown # Nothing
    <3>1. Was(shown.project) /\ Holds(shown.project, shown.bytes)
      BY <2>2 DEF HeldInv, Typed
    <3> QED BY <2>2, <3>1 DEF Holds
  <2>3. CASE at = "save" /\ shown' = [project |-> project, bytes |-> data]
    <3>1. Was(project) /\ Holds(project, data)
      BY <2>3 DEF HeldInv, Typed, Ending
    <3>2. shown'.project = project /\ shown'.bytes = data
      BY <2>3
    <3>3. project \in projects' => \E i \in DOMAIN boards' : boards'[i].project = project /\ boards'[i].bytes = data
      BY <3>1
    <3> QED BY <3>2, <3>3 DEF Holds
  <2> QED BY <2>1, <2>2, <2>3
<1> QED BY <1>2, <1>3 DEF HeldInv

-------------------------------------------------------------------------------
\* The invariant, of every behaviour.
LEMMA BoardInvHolds == BoardSpec => [](Typed /\ Inv)
<1>1. BoardInit => Typed /\ Inv
  <2> SUFFICES ASSUME BoardInit PROVE Typed /\ Inv
    OBVIOUS
  <2>1. Typed /\ HeldInv
    BY DEF BoardInit, Typed, HeldInv, Beginning, Asking, Ending
  <2>2. CountInv
    BY DEF BoardInit, CountInv, Missing, Moving, Concern, Beginning, Ending
  <2> QED BY <2>1, <2>2 DEF Inv
<1>2. Typed /\ Inv /\ [BoardNext]_boardVars => Typed' /\ Inv'
  <2> SUFFICES ASSUME Typed, Inv, [BoardNext]_boardVars PROVE Typed'
    BY CountKept, HeldKept DEF Inv
  <2>1. CASE UNCHANGED boardVars
    <3>1. UNCHANGED <<editor, projects, boards, store, at, data, remembered, project, shown, made, moves, browsed, troubles>>
      BY <2>1 DEF boardVars
    <3>2. (\A i \in DOMAIN boards : Was(boards[i].project))'
      <4>1. \A i \in DOMAIN boards : Was(boards[i].project)
        BY DEF Typed
      <4> QED BY <3>1, <4>1 DEF Was
    <3> QED BY <3>1, <3>2 DEF Typed, Was
  <2>2. CASE BoardNext
    <3>1. \/ Step \/ Aside \/ CreateProject \/ RecordBoard \/ BrowserUploads
          \/ \E i \in DOMAIN boards : Analyse(i)
      BY <2>2 DEF BoardNext, PluginStep, Step, Aside
    <3>2. ASSUME NEW i \in DOMAIN boards, Analyse(i) PROVE Typed'
      BY <3>2, AnalyseTyped
    <3>3. CASE Step
      BY <3>3, StepTyped
    <3>4. CASE Aside
      BY <3>4, AsideTyped
    <3> QED BY <3>1, <3>2, <3>3, <3>4, CreateTyped, RecordTyped, BrowserTyped
  <2> QED BY <2>1, <2>2
<1> QED BY <1>1, <1>2, PTL DEF BoardSpec

\* Whatever is edited, fails, quits or is deleted, and however many presses
\* there are: the plugin makes or goes over to another project only for a
\* trouble, and the project its window shows has the bytes that were read.
THEOREM OneBoardIsOneProject == BoardSpec => []OneProjectPerBoard
<1>1. Typed /\ Inv => OneProjectPerBoard
  <2> SUFFICES ASSUME Typed, Inv PROVE OneProjectPerBoard
    OBVIOUS
  <2>1. made <= 1 + troubles /\ moves <= 1 + troubles
    BY DEF Inv, CountInv, Missing, Moving, Typed
  <2> QED BY <2>1 DEF Inv, HeldInv, Holds, OneProjectPerBoard
<1> QED BY <1>1, BoardInvHolds, PTL

===============================================================================
