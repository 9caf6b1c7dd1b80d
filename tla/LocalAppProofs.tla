---------------------------- MODULE LocalAppProofs ----------------------------
(***************************************************************************)
(* Proofs about LocalApp, for any apps and any data folders.               *)
(*                                                                         *)
(* A valid key is in the hands of an app in the middle of a start, or of a *)
(* container or an unfinished docker run that such an app left.  Opening   *)
(* and stopping revoke whatever a folder has handed out, and an app alone  *)
(* on its folder is the only one that hands anything out there.            *)
(***************************************************************************)
EXTENDS LocalApp, TLAPS

Places == {"off", "serving", "up", "stopping", "revoking", "forgetting", "removing", "exiting", "gone", "killed"}
Supervising == {"none", "start", "revoke", "issue", "rm", "run", "watch", "wait", "done"}
Keys == {"valid", "revoked", None}
Containers == {c \in [there : BOOLEAN, by : Apps \cup {None}, key : Keys, running : BOOLEAN] : c.key = "valid" => c.by \in Apps}
Unfinished == [key : Keys, by : Apps]

Typed ==
  /\ app \in [Apps -> Places] /\ sup \in [Apps -> Supervising]
  /\ key \in [Apps -> Keys] /\ restart \in [Apps -> BOOLEAN] /\ alone \in [Apps -> BOOLEAN]
  /\ container \in [Folders -> Containers] /\ late \in [Folders -> SUBSET Unfinished]

\* Something of folder f holds a valid key that app b was issued.
Valid(f, b) == [key |-> "valid", by |-> b] \in late[f] \/ (container[f].key = "valid" /\ container[f].by = b)

\* An app that is alone on its folder is the only live one there.
LoneInv == \A a, b \in Apps : Live(a) /\ alone[a] /\ Live(b) /\ Folder[b] = Folder[a] => b = a

\* The places at which an app has been served a key and has not revoked it.
Holding == {"up", "stopping", "revoking"}

KeyInv == \A a \in Apps : key[a] = "valid" => app[a] \in Holding

ValidInv ==
  \A f \in Folders, b \in Apps : Valid(f, b) =>
    /\ Folder[b] = f /\ app[b] \in Holding \cup {"killed"}
    /\ \A a \in Apps : Live(a) /\ alone[a] /\ Folder[a] = f => b = a

\* What an app up and alone on its folder knows of its start and its container.
StartInv == \A a \in Apps : app[a] = "up" /\ alone[a] /\ sup[a] \in {"rm", "run"} => key[a] = "valid"
WatchInv ==
  \A a \in Apps : app[a] = "up" /\ alone[a] /\ sup[a] = "watch" =>
    container[Folder[a]].there /\ container[Folder[a]].by = a /\ container[Folder[a]].key = "valid"

FreshInv == \A a \in Apps : app[a] \in {"off", "serving"} => sup[a] = "none"

Inv == FreshInv /\ LoneInv /\ KeyInv /\ ValidInv /\ StartInv /\ WatchInv

-------------------------------------------------------------------------------
(* The steps, by what they do to the keys. *)

\* App a, which is live, goes on: no key, container or unfinished command changes.
Quiet(a) ==
  /\ UNCHANGED <<key, container, late, alone>>
  /\ \A b \in Apps \ {a} : app'[b] = app[b] /\ sup'[b] = sup[b]
  /\ Live(a) /\ Live(a)'
  /\ app[a] \in Holding => app'[a] \in Holding
  /\ app'[a] = "up" /\ sup'[a] \in {"rm", "run", "watch"} => app[a] = "up" /\ sup[a] = sup'[a]
  /\ app'[a] \notin {"off", "serving"}

QuietStep(a) ==
  Publish(a) \/ Prepare(a) \/ Watch(a) \/ Wait(a) \/ AskRestart(a) \/ Quit(a) \/ ReadEndpoint(a) \/ RemoveEndpoint(a)

LEMMA QuietSteps == ASSUME Typed, FreshInv, NEW a \in Apps, QuietStep(a) PROVE Quiet(a) /\ Typed'
<1> USE DEF Quiet, Typed, FreshInv, App, Sup, MainStep, SupervisorStep, Histories, Places, Supervising, Live, Holding
<1>1. CASE Publish(a)
  BY <1>1 DEF Publish
<1>2. CASE Prepare(a)
  BY <1>2 DEF Prepare
<1>3. CASE Watch(a) \/ Wait(a)
  BY <1>3 DEF Watch, Wait
<1>4. CASE AskRestart(a)
  BY <1>4 DEF AskRestart
<1>5. CASE Quit(a) \/ ReadEndpoint(a) \/ RemoveEndpoint(a)
  BY <1>5 DEF Quit, ReadEndpoint, RemoveEndpoint
<1> QED BY <1>1, <1>2, <1>3, <1>4, <1>5 DEF QuietStep

LEMMA QuietKeepsInv == ASSUME Typed, Inv, NEW a \in Apps, QuietStep(a) PROVE Inv'
<1>1. Quiet(a)
  BY QuietSteps DEF Inv
<1>2. \A b \in Apps : Live(b)' <=> Live(b)
  BY <1>1 DEF Quiet, Live
<1>3. FreshInv' /\ LoneInv'
  BY <1>1, <1>2 DEF Quiet, Inv, FreshInv, LoneInv
<1>4. KeyInv' /\ StartInv' /\ WatchInv'
  BY <1>1 DEF Quiet, Inv, KeyInv, StartInv, WatchInv
<1>5. ValidInv'
  <2>1. \A f \in Folders, b \in Apps : Valid(f, b)' <=> Valid(f, b)
    BY <1>1 DEF Quiet, Valid
  <2> QED BY <1>1, <1>2, <2>1 DEF Quiet, Inv, ValidInv, Live
<1> QED BY <1>3, <1>4, <1>5 DEF Inv

\* Every key of a folder is revoked: nothing of the folder holds a valid one.
LEMMA RevokedFolder ==
  ASSUME Typed, NEW f \in Folders, RevokeNamed(f)
  PROVE  /\ key' \in [Apps -> Keys] /\ container' \in [Folders -> Containers]
         /\ late' \in [Folders -> SUBSET Unfinished]
         /\ \A a \in Apps : key'[a] = IF Folder[a] = f THEN Dead(key[a]) ELSE key[a]
         /\ \A b \in Apps : ~Valid(f, b)'
         /\ \A g \in Folders \ {f} : container'[g] = container[g] /\ late'[g] = late[g]
<1> USE LocalAppAssumption DEF LocalAppAssumption, Typed, RevokeNamed
<1>1. \A k \in Keys : Dead(k) \in Keys /\ Dead(k) # "valid"
  BY DEF Dead, Keys
<1>2. \A a \in Apps : key'[a] = IF Folder[a] = f THEN Dead(key[a]) ELSE key[a]
  OBVIOUS
<1>3. key' \in [Apps -> Keys]
  BY <1>1
<1>4. /\ container'[f] = [container[f] EXCEPT !.key = Dead(@)]
      /\ \A g \in Folders \ {f} : container'[g] = container[g]
      /\ DOMAIN container' = Folders /\ container' = [g \in Folders |-> container'[g]]
  OBVIOUS
<1>5. container[f] \in Containers
  OBVIOUS
<1>6. container'[f] \in Containers /\ container'[f].key = Dead(container[f].key) /\ container[f].key \in Keys
  BY <1>1, <1>4, <1>5 DEF Containers
<1>7. container' \in [Folders -> Containers]
  BY <1>4, <1>6
<1>8. /\ late'[f] = {[r EXCEPT !.key = Dead(@)] : r \in late[f]}
      /\ \A g \in Folders \ {f} : late'[g] = late[g]
      /\ late' = [g \in Folders |-> late'[g]]
  OBVIOUS
<1>9. \A r \in late[f] : [r EXCEPT !.key = Dead(@)] \in Unfinished /\ [r EXCEPT !.key = Dead(@)].key # "valid"
  BY <1>1 DEF Unfinished
<1>10. late' \in [Folders -> SUBSET Unfinished]
  BY <1>8, <1>9
<1>11. \A b \in Apps : ~Valid(f, b)'
  BY <1>1, <1>6, <1>8, <1>9 DEF Valid
<1> QED BY <1>2, <1>3, <1>4, <1>7, <1>8, <1>10, <1>11

LEMMA RevokeTyped ==
  ASSUME Typed, NEW a \in Apps, Open(a) \/ RevokeOld(a) \/ StopKeys(a)
  PROVE  Typed' /\ RevokeNamed(Folder[a])
<1>1. RevokeNamed(Folder[a]) /\ Folder[a] \in Folders
  BY LocalAppAssumption DEF Open, RevokeOld, StopKeys, LocalAppAssumption
<1>2. key' \in [Apps -> Keys] /\ container' \in [Folders -> Containers] /\ late' \in [Folders -> SUBSET Unfinished]
  BY <1>1, RevokedFolder
<1>3. app' \in [Apps -> Places] /\ sup' \in [Apps -> Supervising] /\ restart' = restart
  BY DEF Typed, Open, RevokeOld, StopKeys, App, Sup, SupervisorStep, Places, Supervising
<1>4. alone' \in [Apps -> BOOLEAN]
  BY DEF Typed, Open, RevokeOld, StopKeys, SupervisorStep, Histories, Live
<1> QED BY <1>1, <1>2, <1>3, <1>4 DEF Typed

LEMMA OpenKeepsInv == ASSUME Typed, Inv, NEW a \in Apps, Open(a) PROVE Inv'
<1>1. Folder[a] \in Folders /\ RevokeNamed(Folder[a])
  BY RevokeTyped, LocalAppAssumption DEF LocalAppAssumption
<1>2. /\ \A b \in Apps \ {a} : app'[b] = app[b]
      /\ app[a] = "off" /\ app'[a] = "serving" /\ sup' = sup
  BY DEF Open, App, Typed
<1>3. \A b \in Apps : alone'[b] <=> IF b = a THEN ~\E c \in Apps : Live(c) /\ Folder[c] = Folder[a]
                                  ELSE alone[b] /\ Folder[b] # Folder[a]
  BY DEF Open
<1>4. \A b \in Apps : Live(b)' <=> b = a \/ Live(b)
  BY <1>2 DEF Live
<1>5. \A b \in Apps : key'[b] = "valid" => key[b] = "valid" /\ Folder[b] # Folder[a]
  BY <1>1, RevokedFolder DEF Dead
<1>6. \A b \in Apps : Folder[b] # Folder[a] => key'[b] = key[b]
  BY <1>1, RevokedFolder
<1>7. \A g \in Folders, b \in Apps : Valid(g, b)' => g # Folder[a] /\ Valid(g, b)
  BY <1>1, RevokedFolder DEF Valid
<1>8. LoneInv'
  BY <1>3, <1>4 DEF Inv, LoneInv
<1>9. FreshInv' /\ KeyInv'
  BY <1>2, <1>5 DEF Inv, FreshInv, KeyInv
<1>10. ValidInv'
  BY <1>2, <1>3, <1>4, <1>7 DEF Inv, ValidInv, Holding
<1>11. StartInv'
  BY <1>2, <1>3, <1>6 DEF Inv, StartInv
<1>12. WatchInv'
  <2>1. \A b \in Apps : Folder[b] \in Folders
    BY LocalAppAssumption DEF LocalAppAssumption
  <2> QED BY <1>1, <1>2, <1>3, <2>1, RevokedFolder DEF Inv, WatchInv
<1> QED BY <1>8, <1>9, <1>10, <1>11, <1>12 DEF Inv

LEMMA RevokeKeepsInv == ASSUME Typed, Inv, NEW a \in Apps, RevokeOld(a) \/ StopKeys(a) PROVE Inv'
<1>1. Folder[a] \in Folders /\ RevokeNamed(Folder[a])
  BY RevokeTyped, LocalAppAssumption DEF LocalAppAssumption
<1>2. /\ \A b \in Apps \ {a} : app'[b] = app[b] /\ sup'[b] = sup[b]
      /\ alone' = alone /\ Live(a) /\ Live(a)'
      /\ app'[a] \notin {"off", "serving"} /\ ~(app'[a] = "up" /\ sup'[a] \in {"rm", "run", "watch"})
  BY DEF RevokeOld, StopKeys, App, Sup, SupervisorStep, Histories, Typed, Live
<1>3. \A b \in Apps : Live(b)' <=> Live(b)
  BY <1>2 DEF Live
<1>4. \A b \in Apps : key'[b] = "valid" => key[b] = "valid" /\ Folder[b] # Folder[a]
  BY <1>1, RevokedFolder DEF Dead
<1>5. \A b \in Apps : Folder[b] # Folder[a] => key'[b] = key[b]
  BY <1>1, RevokedFolder
<1>6. \A g \in Folders, b \in Apps : Valid(g, b)' => g # Folder[a] /\ Valid(g, b)
  BY <1>1, RevokedFolder DEF Valid
<1>7. LoneInv' /\ FreshInv'
  BY <1>2, <1>3 DEF Inv, LoneInv, FreshInv
<1>8. KeyInv'
  BY <1>2, <1>4 DEF Inv, KeyInv
<1>9. ValidInv'
  BY <1>2, <1>3, <1>6 DEF Inv, ValidInv
<1>10. \A b \in Apps : app'[b] = "up" /\ alone'[b] /\ sup'[b] \in {"rm", "run", "watch"} =>
         /\ app[b] = "up" /\ alone[b] /\ sup'[b] = sup[b] /\ Folder[b] # Folder[a]
  BY <1>2 DEF Inv, LoneInv, Live
<1>11. StartInv'
  BY <1>5, <1>10 DEF Inv, StartInv
<1>12. WatchInv'
  <2>1. \A b \in Apps : Folder[b] \in Folders
    BY LocalAppAssumption DEF LocalAppAssumption
  <2> QED BY <1>1, <1>10, <2>1, RevokedFolder DEF Inv, WatchInv
<1> QED BY <1>7, <1>8, <1>9, <1>11, <1>12 DEF Inv

\* A start is handed over: what app a was issued may now be its container's or an
\* unfinished command's, and nothing else of any folder becomes valid.
HandsOver(a) ==
  \A f \in Folders, b \in Apps :
    Valid(f, b)' => Valid(f, b) \/ (b = a /\ f = Folder[a] /\ key[a] = "valid")

LEMMA GoneTyped == Gone \in Containers /\ Gone.key # "valid" /\ \A a \in Apps, k \in Keys :
                     Worker(a, k) \in Containers /\ [key |-> k, by |-> a] \in Unfinished
BY LocalAppAssumption DEF LocalAppAssumption, Gone, Worker, Containers, Unfinished, Keys

LEMMA ContainerChanged ==
  ASSUME Typed, NEW f \in Folders, NEW c \in Containers, Contain(f, c)
  PROVE  /\ container' \in [Folders -> Containers] /\ container'[f] = c
         /\ \A g \in Folders \ {f} : container'[g] = container[g]
BY DEF Typed, Contain

LEMMA LeftTyped ==
  ASSUME Typed, NEW a \in Apps, late' = late \/ LeftToTheEngine(a)
  PROVE  /\ late' \in [Folders -> SUBSET Unfinished]
         /\ container' = container => HandsOver(a)
<1>1. Folder[a] \in Folders /\ key[a] \in Keys
  BY LocalAppAssumption DEF LocalAppAssumption, Typed
<1>2. CASE late' = late
  BY <1>2 DEF Typed, HandsOver, Valid
<1>3. CASE LeftToTheEngine(a)
  <2>1. /\ late'[Folder[a]] = late[Folder[a]] \cup {[key |-> key[a], by |-> a]}
        /\ \A g \in Folders \ {Folder[a]} : late'[g] = late[g]
        /\ late' = [g \in Folders |-> late'[g]]
    BY <1>1, <1>3 DEF LeftToTheEngine, Typed
  <2>2. late' \in [Folders -> SUBSET Unfinished]
    BY <1>1, <2>1, GoneTyped DEF Typed
  <2>3. \A b \in Apps : [key |-> "valid", by |-> b] = [key |-> key[a], by |-> a] => b = a /\ key[a] = "valid"
    OBVIOUS
  <2> QED BY <2>1, <2>2, <2>3 DEF HandsOver, Valid
<1> QED BY <1>2, <1>3

LEMMA IssueKeepsInv == ASSUME Typed, Inv, NEW a \in Apps, Issue(a) PROVE Inv' /\ Typed'
<1>1. /\ UNCHANGED <<app, alone, container, late, restart>> /\ app[a] = "up"
      /\ sup' = [sup EXCEPT ![a] = "rm"] /\ key' = [key EXCEPT ![a] = "valid"]
  BY DEF Issue, Sup, SupervisorStep, Histories
<1>2. \A g \in Folders, b \in Apps : Valid(g, b)' <=> Valid(g, b)
  BY <1>1 DEF Valid
<1>3. FreshInv' /\ LoneInv' /\ KeyInv'
  BY <1>1 DEF Inv, FreshInv, LoneInv, KeyInv, Live, Typed, Holding
<1>4. ValidInv'
  BY <1>1, <1>2 DEF Inv, ValidInv, Live
<1>5. StartInv' /\ WatchInv'
  BY <1>1 DEF Inv, StartInv, WatchInv, Typed
<1>6. Typed'
  BY <1>1 DEF Typed, Keys, Supervising
<1> QED BY <1>3, <1>4, <1>5, <1>6 DEF Inv

\* A step of app a that ends its start, or its container, or itself.
LEMMA LettingGoKeepsInv ==
  ASSUME Typed, Inv, NEW a \in Apps, Live(a),
         /\ \A b \in Apps \ {a} : app'[b] = app[b] /\ sup'[b] = sup[b] /\ key'[b] = key[b] /\ (alone'[b] <=> alone[b])
         /\ key'[a] # "valid" \/ (key'[a] = key[a] /\ app'[a] \in Holding),
         alone'[a] => alone[a],
         app'[a] \notin {"off", "serving"},
         app[a] \in Holding => app'[a] \in Holding \cup {"killed"},
         app'[a] = "up" => app[a] = "up" /\ (sup'[a] \in {"rm", "run"} => sup[a] \in {"rm", "run"} /\ key'[a] = key[a]),
         HandsOver(a),
         \A f \in Folders \ {Folder[a]} : container'[f] = container[f],
         app'[a] = "up" /\ alone[a] /\ sup'[a] = "watch" =>
           container'[Folder[a]].there /\ container'[Folder[a]].by = a /\ container'[Folder[a]].key = "valid"
  PROVE  Inv'
<1>1. \A b \in Apps : (Live(b)' => Live(b)) /\ (alone'[b] => alone[b])
  BY DEF Live
<1>2. LoneInv' /\ FreshInv' /\ KeyInv'
  BY <1>1 DEF Inv, LoneInv, FreshInv, KeyInv
<1>3. ValidInv'
  <2> SUFFICES ASSUME NEW f \in Folders, NEW b \in Apps, Valid(f, b)'
               PROVE  /\ Folder[b] = f /\ app'[b] \in Holding \cup {"killed"}
                      /\ \A c \in Apps : Live(c)' /\ alone'[c] /\ Folder[c] = f => b = c
    BY DEF ValidInv
  <2>1. CASE Valid(f, b)
    <3>1. app[a] # "killed"
      BY DEF Live
    <3> QED BY <1>1, <2>1, <3>1 DEF Inv, ValidInv
  <2>2. CASE b = a /\ f = Folder[a] /\ key[a] = "valid"
    BY <1>1, <2>2 DEF Inv, KeyInv, LoneInv
  <2> QED BY <2>1, <2>2 DEF HandsOver
<1>4. StartInv'
  BY <1>1 DEF Inv, StartInv
<1>5. WatchInv'
  <2> SUFFICES ASSUME NEW b \in Apps, app'[b] = "up", alone'[b], sup'[b] = "watch"
               PROVE  container'[Folder[b]].there /\ container'[Folder[b]].by = b /\ container'[Folder[b]].key = "valid"
    BY DEF WatchInv
  <2>1. CASE b = a
    BY <2>1
  <2>2. CASE b # a
    <3>1. Folder[b] # Folder[a] /\ Folder[b] \in Folders
      BY <1>1, <2>2, LocalAppAssumption DEF Inv, LoneInv, Live, LocalAppAssumption
    <3> QED BY <1>1, <2>2, <3>1 DEF Inv, WatchInv
  <2> QED BY <2>1, <2>2
<1> QED BY <1>2, <1>3, <1>4, <1>5 DEF Inv

LEMMA RemoveKeepsInv == ASSUME Typed, Inv, NEW a \in Apps, RemoveOld(a) \/ StopContainer(a) PROVE Inv' /\ Typed'
<1>0. Folder[a] \in Folders
  BY LocalAppAssumption DEF LocalAppAssumption
<1>1. /\ UNCHANGED <<key, alone, late, restart>> /\ Live(a) /\ app[a] \in {"up", "stopping"}
      /\ \/ app[a] = "up" /\ app' = app /\ sup[a] = "rm" /\ sup' = [sup EXCEPT ![a] = "run"]
         \/ app' = [app EXCEPT ![a] = "revoking"] /\ sup' = sup
  BY DEF RemoveOld, StopContainer, App, Sup, SupervisorStep, Histories, Live
<1>2. container' = container \/ Contain(Folder[a], Gone)
  BY DEF RemoveOld, StopContainer
<1>3. /\ container' \in [Folders -> Containers] /\ HandsOver(a)
      /\ \A f \in Folders \ {Folder[a]} : container'[f] = container[f]
  <2>1. CASE container' = container
    BY <1>1, <2>1 DEF Typed, HandsOver, Valid
  <2>2. CASE Contain(Folder[a], Gone)
    <3>1. /\ container' \in [Folders -> Containers] /\ container'[Folder[a]] = Gone
          /\ \A f \in Folders \ {Folder[a]} : container'[f] = container[f]
      BY <1>0, <2>2, GoneTyped, ContainerChanged
    <3> QED BY <1>1, <3>1, GoneTyped DEF HandsOver, Valid
  <2> QED BY <1>2, <2>1, <2>2
<1>4. /\ \A b \in Apps \ {a} : app'[b] = app[b] /\ sup'[b] = sup[b]
      /\ app'[a] \in {"up", "revoking"} /\ (app'[a] = "up" => app[a] = "up" /\ sup[a] = "rm" /\ sup'[a] = "run")
  BY <1>1 DEF Typed
<1>5. Typed'
  BY <1>1, <1>3 DEF Typed, Places, Supervising
<1>6. key[a] = "valid" => app'[a] \in Holding
  BY <1>4 DEF Holding
<1> QED BY <1>1, <1>3, <1>4, <1>5, <1>6, LettingGoKeepsInv DEF Holding

LEMMA RunKeepsInv == ASSUME Typed, Inv, NEW a \in Apps, Run(a) PROVE Inv' /\ Typed'
<1>0. Folder[a] \in Folders /\ key[a] \in Keys
  BY LocalAppAssumption DEF LocalAppAssumption, Typed
<1>1. /\ UNCHANGED <<app, alone, late, restart>> /\ app[a] = "up" /\ sup[a] = "run"
      /\ key' = [key EXCEPT ![a] = None]
      /\ \/ sup' = [sup EXCEPT ![a] = "watch"] /\ Contain(Folder[a], Worker(a, key[a]))
         \/ sup' = [sup EXCEPT ![a] = "wait"] /\ container' = container
  BY DEF Run, Returned, Sup, SupervisorStep, Histories
<1>2. None # "valid" /\ None \in Keys
  BY LocalAppAssumption DEF LocalAppAssumption, Keys
<1>3. CASE sup' = [sup EXCEPT ![a] = "watch"] /\ Contain(Folder[a], Worker(a, key[a]))
  <2>1. /\ container' \in [Folders -> Containers] /\ container'[Folder[a]] = Worker(a, key[a])
        /\ \A f \in Folders \ {Folder[a]} : container'[f] = container[f]
    BY <1>0, <1>3, GoneTyped, ContainerChanged
  <2>2. Worker(a, key[a]).by = a /\ Worker(a, key[a]).key = key[a] /\ Worker(a, key[a]).there
    BY DEF Worker
  <2>3. HandsOver(a)
    BY <1>1, <2>1, <2>2 DEF HandsOver, Valid
  <2>4. alone[a] => key[a] = "valid"
    BY <1>1 DEF Inv, StartInv
  <2>5. Typed'
    BY <1>1, <1>2, <1>3, <2>1 DEF Typed, Supervising
  <2>6. /\ \A b \in Apps \ {a} : sup'[b] = sup[b] /\ key'[b] = key[b]
        /\ sup'[a] = "watch" /\ key'[a] # "valid" /\ Live(a)
    BY <1>1, <1>2, <1>3 DEF Typed, Live
  <2> QED BY <1>1, <2>1, <2>2, <2>3, <2>4, <2>5, <2>6, LettingGoKeepsInv DEF Holding
<1>4. CASE sup' = [sup EXCEPT ![a] = "wait"] /\ container' = container
  <2>1. HandsOver(a)
    BY <1>1, <1>4 DEF HandsOver, Valid
  <2>2. Typed'
    BY <1>1, <1>2, <1>4 DEF Typed, Supervising
  <2>3. /\ \A b \in Apps \ {a} : sup'[b] = sup[b] /\ key'[b] = key[b]
        /\ sup'[a] = "wait" /\ key'[a] # "valid" /\ Live(a)
    BY <1>1, <1>2, <1>4 DEF Typed, Live
  <2> QED BY <1>1, <1>4, <2>1, <2>2, <2>3, LettingGoKeepsInv DEF Holding
<1> QED BY <1>1, <1>3, <1>4

LEMMA LeaveKeepsInv ==
  ASSUME Typed, Inv, NEW a \in Apps, RunCutOff(a) \/ LoopEnds(a) \/ Exit(a) \/ Kill(a) PROVE Inv' /\ Typed'
<1>1. /\ container' = container /\ Live(a) /\ key' = [key EXCEPT ![a] = None]
      /\ late' = late \/ LeftToTheEngine(a)
      /\ restart' \in {restart, [restart EXCEPT ![a] = FALSE]}
      /\ sup' = [sup EXCEPT ![a] = "wait"] \/ sup' = [sup EXCEPT ![a] = "done"]
  BY DEF RunCutOff, LoopEnds, Exit, Kill, Ends, Ended, Returned, Sup, SupervisorStep, Live, Cancelled
<1>2. /\ alone' = alone \/ alone' = [alone EXCEPT ![a] = FALSE]
      /\ \/ app' = app
         \/ app[a] = "exiting" /\ app' = [app EXCEPT ![a] = "gone"]
         \/ app' = [app EXCEPT ![a] = "killed"]
  BY DEF RunCutOff, LoopEnds, Exit, Kill, Ends, Parted, App, SupervisorStep, Histories
<1>3. None # "valid" /\ None \in Keys
  BY LocalAppAssumption DEF LocalAppAssumption, Keys
<1>4. late' \in [Folders -> SUBSET Unfinished] /\ HandsOver(a)
  BY <1>1, LeftTyped
<1>5. Typed'
  BY <1>1, <1>2, <1>3, <1>4 DEF Typed, Places, Supervising
<1>6. /\ \A b \in Apps \ {a} : app'[b] = app[b] /\ sup'[b] = sup[b] /\ key'[b] = key[b] /\ (alone'[b] <=> alone[b])
      /\ key'[a] # "valid" /\ (alone'[a] => alone[a]) /\ sup'[a] \in {"wait", "done"}
  BY <1>1, <1>2, <1>3 DEF Typed
<1>7. /\ app'[a] \notin {"off", "serving"} \/ app' = app
      /\ app[a] \in Holding => app'[a] \in Holding \cup {"killed"}
      /\ app'[a] = "up" => app[a] = "up"
  BY <1>2 DEF Typed, Holding
<1>8. app'[a] \notin {"off", "serving"}
  <2>1. CASE app' = app
    BY <1>1, <2>1 DEF RunCutOff, LoopEnds, Exit, Kill, Ends, App, SupervisorStep, Cancelled, Typed
  <2> QED BY <1>7, <2>1
<1> QED BY <1>1, <1>4, <1>5, <1>6, <1>7, <1>8, LettingGoKeepsInv

\* The engine's steps: a worker stops, or one is started from a command that was
\* left, where no container is.
EngineNext ==
  EngineStops \/ EngineStarts \/ \E f \in Folders : WorkerExits(f) \/ \E r \in late[f] : RunLate(f, r)

\* A container is stopped, or started from a command that was left.
EngineKeeps ==
  /\ container' \in [Folders -> Containers] /\ late' \in [Folders -> SUBSET Unfinished]
  /\ \A f \in Folders, b \in Apps : Valid(f, b)' => Valid(f, b)
  /\ \A f \in Folders : container[f].there =>
       container'[f].there /\ container'[f].by = container[f].by /\ container'[f].key = container[f].key

LEMMA EngineKeepsKeys == ASSUME Typed, EngineNext PROVE EngineKeeps
<1>0. \A f \in Folders :
        /\ [container[f] EXCEPT !.running = FALSE] \in Containers
        /\ [container[f] EXCEPT !.running = FALSE].there = container[f].there
        /\ [container[f] EXCEPT !.running = FALSE].by = container[f].by
        /\ [container[f] EXCEPT !.running = FALSE].key = container[f].key
  BY DEF Typed, Containers
<1>1. CASE EngineStops
  <2>1. late' = late /\ (container' = container \/ container' = [f \in Folders |-> [container[f] EXCEPT !.running = FALSE]])
    BY <1>1 DEF EngineStops
  <2> QED BY <1>0, <2>1 DEF Typed, Valid, EngineKeeps
<1>2. CASE EngineStarts
  BY <1>2 DEF EngineStarts, Typed, Valid, EngineKeeps
<1>3. ASSUME NEW f \in Folders, WorkerExits(f) PROVE EngineKeeps
  <2> DEFINE c == [container[f] EXCEPT !.running = FALSE]
  <2>1. c \in Containers /\ c.there = container[f].there /\ c.by = container[f].by /\ c.key = container[f].key
    BY <1>0
  <2>2. late' = late /\ Contain(f, c)
    BY <1>3 DEF WorkerExits
  <2> HIDE DEF c
  <2>3. /\ container' \in [Folders -> Containers] /\ container'[f] = c
        /\ \A g \in Folders \ {f} : container'[g] = container[g]
    BY <2>1, <2>2, ContainerChanged
  <2> QED BY <2>1, <2>2, <2>3 DEF Typed, Valid, EngineKeeps
<1>4. ASSUME NEW f \in Folders, NEW r \in late[f], RunLate(f, r) PROVE EngineKeeps
  <2> DEFINE c == [there |-> TRUE, by |-> r.by, key |-> r.key, running |-> TRUE]
  <2>1. r \in Unfinished
    BY DEF Typed
  <2>2. c \in Containers /\ c.by = r.by /\ c.key = r.key
    BY <2>1 DEF Containers, Unfinished
  <2>3. r.key = "valid" => r = [key |-> "valid", by |-> r.by]
    BY <2>1 DEF Unfinished
  <2>4. late' \in [Folders -> SUBSET Unfinished] /\ \A g \in Folders : late'[g] \subseteq late[g]
    BY <1>4 DEF RunLate, Typed
  <2>5. container' = container \/ (~container[f].there /\ Contain(f, c))
    BY <1>4 DEF RunLate
  <2> HIDE DEF c
  <2>6. CASE container' = container
    BY <2>4, <2>6 DEF Typed, Valid, EngineKeeps
  <2>7. CASE ~container[f].there /\ Contain(f, c)
    <3>1. /\ container' \in [Folders -> Containers] /\ container'[f] = c
          /\ \A g \in Folders \ {f} : container'[g] = container[g]
      BY <2>2, <2>7, ContainerChanged
    <3>2. \A b \in Apps : Valid(f, b)' => Valid(f, b)
      BY <2>2, <2>3, <2>4, <3>1 DEF Valid
    <3> QED BY <2>4, <2>7, <3>1, <3>2 DEF Valid, EngineKeeps
  <2> QED BY <2>5, <2>6, <2>7
<1> QED BY <1>1, <1>2, <1>3, <1>4 DEF EngineNext

LEMMA EngineKeepsInv == ASSUME Typed, Inv, EngineNext PROVE Inv' /\ Typed'
<1>1. UNCHANGED <<app, sup, key, restart, alone>>
  BY DEF EngineNext, EngineStops, EngineStarts, WorkerExits, RunLate, EngineStep, Histories
<1>2. EngineKeeps
  BY EngineKeepsKeys
<1>3. FreshInv' /\ LoneInv' /\ KeyInv' /\ StartInv'
  BY <1>1 DEF Inv, FreshInv, LoneInv, KeyInv, StartInv, Live
<1>4. ValidInv' /\ WatchInv'
  BY <1>1, <1>2, LocalAppAssumption DEF EngineKeeps, Inv, ValidInv, WatchInv, Live, LocalAppAssumption
<1> QED BY <1>1, <1>2, <1>3, <1>4 DEF Inv, Typed, EngineKeeps

LEMMA InvHolds == AppSpec => [](Typed /\ Inv)
<1>1. AppInit => Typed /\ Inv
  <2> SUFFICES ASSUME AppInit PROVE Typed /\ Inv
    OBVIOUS
  <2>1. Typed
    BY LocalAppAssumption, GoneTyped DEF LocalAppAssumption, AppInit, Typed, Places, Supervising, Keys
  <2>2. FreshInv /\ LoneInv /\ KeyInv /\ StartInv /\ WatchInv
    BY LocalAppAssumption DEF LocalAppAssumption, AppInit, FreshInv, LoneInv, KeyInv, StartInv, WatchInv, Live
  <2>3. ValidInv
    BY GoneTyped DEF AppInit, ValidInv, Valid
  <2> QED BY <2>1, <2>2, <2>3 DEF Inv
<1>2. Typed /\ Inv /\ [AppNext]_appVars => Typed' /\ Inv'
  <2> SUFFICES ASSUME Typed, Inv, [AppNext]_appVars PROVE Typed' /\ Inv'
    OBVIOUS
  <2>1. ASSUME NEW a \in Apps, MainNext(a) \/ Supervise(a) \/ RunCutOff(a) \/ AskRestart(a) \/ LoopEnds(a)
        PROVE  Typed' /\ Inv'
    <3>1. \/ QuietStep(a) \/ Open(a) \/ RevokeOld(a) \/ StopKeys(a) \/ Issue(a) \/ RemoveOld(a) \/ StopContainer(a)
          \/ Run(a) \/ RunCutOff(a) \/ LoopEnds(a) \/ Exit(a) \/ Kill(a)
      BY <2>1 DEF MainNext, Supervise, QuietStep
    <3> QED BY <3>1, QuietSteps, QuietKeepsInv, RevokeTyped, OpenKeepsInv, RevokeKeepsInv, IssueKeepsInv,
               RemoveKeepsInv, RunKeepsInv, LeaveKeepsInv DEF Inv
  <2>2. CASE UNCHANGED appVars
    BY <2>2 DEF appVars, Typed, Inv, FreshInv, LoneInv, KeyInv, ValidInv, Valid, StartInv, WatchInv, Live
  <2>3. CASE EngineNext
    BY <2>3, EngineKeepsInv
  <2> QED BY <2>1, <2>2, <2>3 DEF AppNext, EngineNext
<1> QED BY <1>1, <1>2, PTL DEF AppSpec

-------------------------------------------------------------------------------
(* What is left behind, what is watched, and what is found. *)

\* However many apps share a folder, are killed, or have a docker run cut off:
\* a valid key out in a folder was issued by an app that is live or was killed,
\* and by the lone app of the folder where there is one.
THEOREM LeftoversAreCutOff == AppSpec => []LeftoversCannotConnect
<1>1. Typed /\ Inv => LeftoversCannotConnect
  <2> SUFFICES ASSUME Typed, Inv, NEW f \in Folders, NEW r \in Handed(f), r.key = "valid"
               PROVE  /\ Live(r.by) \/ app[r.by] = "killed"
                      /\ \A a \in Apps : (Folder[a] = f /\ Live(a) /\ alone[a]) => r.by = a
    BY DEF LeftoversCannotConnect
  <2>1. r.by \in Apps /\ Valid(f, r.by)
    <3>1. CASE r \in late[f]
      <4>1. r \in Unfinished
        BY <3>1 DEF Typed
      <4>2. r.by \in Apps /\ r = [key |-> "valid", by |-> r.by]
        BY <4>1 DEF Unfinished
      <4> QED BY <3>1, <4>2 DEF Valid
    <3>2. CASE r = [key |-> container[f].key, by |-> container[f].by]
      <4>1. container[f].key = "valid" /\ r.by = container[f].by
        BY <3>2
      <4>2. r.by \in Apps
        BY <4>1 DEF Typed, Containers
      <4> QED BY <4>1, <4>2 DEF Valid
    <3> QED BY <3>1, <3>2 DEF Handed
  <2> QED BY <2>1 DEF Inv, ValidInv, Holding, Live
<1> QED BY <1>1, InvHolds, PTL

\* The worker an app watches, alone on its folder, is its own and holds a valid
\* key: startOnce's order (revoke, issue, rm, run) leaves no other possible.
THEOREM WatchedWorkerIsOwn == AppSpec => []WatchedWorkerCanConnect
<1>1. Typed /\ Inv => WatchedWorkerCanConnect
  BY DEF Inv, WatchInv, WatchedWorkerCanConnect, Working
<1> QED BY <1>1, InvHolds, PTL

\* An app that published itself last is found, and nobody is about to remove
\* the file; pulled is the exception writeEndpoint and removeEndpoint leave.
FoundInv ==
  \A a \in Apps : newest = a =>
    /\ app[a] \notin {"off", "serving"}
    /\ app[a] = "up" /\ ~pulled => endpoint = a /\ \A b \in Apps : app[b] # "removing"

\* The steps that neither publish an app nor read or remove the file.
Unfound(a) ==
  /\ UNCHANGED <<endpoint, newest, pulled>>
  /\ \A b \in Apps \ {a} : app'[b] = app[b]
  /\ app'[a] \in {"up", "removing"} => app'[a] = app[a]
  /\ app[a] \notin {"off", "serving"} => app'[a] \notin {"off", "serving"}

LEMMA OtherStepsUnfound ==
  ASSUME Typed, NEW a \in Apps,
         \/ Supervise(a) \/ RunCutOff(a) \/ AskRestart(a) \/ LoopEnds(a)
         \/ Open(a) \/ Quit(a) \/ StopContainer(a) \/ StopKeys(a) \/ Exit(a) \/ Kill(a)
  PROVE  Unfound(a)
<1> USE DEF Unfound, Typed, Histories
<1>1. CASE Supervise(a) \/ RunCutOff(a) \/ AskRestart(a)
  BY <1>1 DEF Supervise, RunCutOff, AskRestart, SupervisorStep, Prepare, RevokeOld, Issue, RemoveOld, Run, Watch, Wait
<1>2. CASE LoopEnds(a)
  <2>1. UNCHANGED <<app, endpoint, newest, pulled>>
    BY <1>2 DEF LoopEnds
  <2> QED BY <2>1
<1>3. CASE Open(a) \/ Quit(a) \/ StopContainer(a) \/ StopKeys(a)
  BY <1>3 DEF Open, Quit, StopContainer, StopKeys, App
<1>4. CASE Exit(a) \/ Kill(a)
  BY <1>4 DEF Exit, Kill, Ends, App, Parted
<1> QED BY <1>1, <1>2, <1>3, <1>4

LEMMA FoundInvKept == ASSUME Typed, FoundInv, [AppNext]_appVars PROVE FoundInv'
<1>1. ASSUME NEW a \in Apps, Unfound(a) PROVE FoundInv'
  <2> SUFFICES ASSUME NEW b \in Apps, newest = b
               PROVE  /\ app'[b] \notin {"off", "serving"}
                      /\ app'[b] = "up" /\ ~pulled => endpoint = b /\ \A c \in Apps : app'[c] # "removing"
    BY <1>1 DEF FoundInv, Unfound
  <2>1. app[b] \notin {"off", "serving"} /\ (app[b] = "up" /\ ~pulled => endpoint = b /\ \A c \in Apps : app[c] # "removing")
    BY DEF FoundInv
  <2> QED BY <1>1, <2>1 DEF Unfound
<1>2. ASSUME NEW a \in Apps, Publish(a) PROVE FoundInv'
  <2>1. app[a] = "serving" /\ app' = [app EXCEPT ![a] = "up"]
    BY <1>2 DEF Publish, App
  <2>2. /\ app'[a] = "up" /\ newest # a
        /\ \A b \in Apps \ {a} : app'[b] = app[b]
    BY <2>1 DEF Typed, FoundInv
  <2>3. CASE endpoint' = a /\ newest' = a /\ pulled' = (\E b \in Apps : app[b] = "removing")
    BY <2>1, <2>2, <2>3 DEF FoundInv
  <2>4. CASE UNCHANGED <<endpoint, newest, pulled>>
    BY <2>1, <2>2, <2>4 DEF FoundInv
  <2> QED BY <1>2, <2>3, <2>4 DEF Publish
<1>3. ASSUME NEW a \in Apps, ReadEndpoint(a) \/ RemoveEndpoint(a) PROVE FoundInv'
  <2>1. /\ app[a] \in {"forgetting", "removing"} /\ app'[a] \in {"removing", "exiting"}
        /\ app'[a] = "removing" => endpoint = a /\ endpoint' = a
        /\ endpoint' = endpoint \/ app[a] = "removing"
        /\ \A b \in Apps \ {a} : app'[b] = app[b]
        /\ UNCHANGED <<newest, pulled>>
    BY <1>3 DEF ReadEndpoint, RemoveEndpoint, App, Histories, Typed
  <2> SUFFICES ASSUME NEW b \in Apps, newest = b
               PROVE  /\ app'[b] \notin {"off", "serving"}
                      /\ app'[b] = "up" /\ ~pulled => endpoint' = b /\ \A c \in Apps : app'[c] # "removing"
    BY <2>1 DEF FoundInv
  <2>2. app[b] \notin {"off", "serving"} /\ (app[b] = "up" /\ ~pulled => endpoint = b /\ \A c \in Apps : app[c] # "removing")
    BY DEF FoundInv
  <2> QED BY <2>1, <2>2
<1>4. CASE EngineNext
  <2>1. EngineStep
    BY <1>4 DEF EngineNext, EngineStops, EngineStarts, WorkerExits, RunLate
  <2> QED BY <2>1 DEF EngineStep, Histories, FoundInv
<1>5. CASE UNCHANGED appVars
  BY <1>5 DEF appVars, FoundInv
<1> QED BY <1>1, <1>2, <1>3, <1>4, <1>5, OtherStepsUnfound DEF AppNext, MainNext, EngineNext

\* The endpoint file names the last app that published itself while that app
\* is up, unless another was between reading the file and removing it.
THEOREM LastStartedStaysFound == AppSpec => []LastStartedIsFound
<1>1. AppInit => FoundInv
  BY LocalAppAssumption DEF LocalAppAssumption, AppInit, FoundInv
<1>2. Typed /\ FoundInv /\ [AppNext]_appVars => FoundInv'
  BY FoundInvKept
<1>3. FoundInv => LastStartedIsFound
  BY DEF FoundInv, LastStartedIsFound
<1>4. AppSpec => []Typed
  BY InvHolds, PTL
<1> QED BY <1>1, <1>2, <1>3, <1>4, PTL DEF AppSpec

===============================================================================
