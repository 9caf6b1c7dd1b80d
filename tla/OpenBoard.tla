------------------------------- MODULE OpenBoard -------------------------------
(***************************************************************************)
(* From the board in KiCad to a project in the app (kicad-plugin/          *)
(* emi_analyzer/: controller.py, desktop.py, boardio.py, project.py,       *)
(* client.py).  The plugin's flows run on one thread, so there is one      *)
(* press at a time; a step is one call.  Meanwhile the board is edited,    *)
(* analyses end, projects are deleted, and the app quits and comes back,   *)
(* perhaps on another port.  A call may fail, or be done and fail.         *)
(***************************************************************************)
EXTENDS Integers, Sequences, FiniteSets, FiniteSetsExt

CONSTANTS
  Bytes,       \* what the archive of the board may be
  Ports,       \* where the app may listen
  MaxPresses, MaxTroubles,   \* bounds
  Nothing

ASSUME BoardAssumption == MaxPresses \in Nat /\ MaxTroubles \in Nat /\ Nothing \notin Bytes \cup Ports \cup Nat

VARIABLES
  editor,    \* the board in the editor, unsaved edits included
  app,       \* the port it listens on, or Nothing
  projects,  \* the projects there are; 0 was made in the browser
  boards,    \* the boards there have been, oldest first: [project, bytes, state];
             \* those of a project that is not there any more are gone with it
  store,     \* ProjectStore: the project the board's file became
  at,        \* where the press is
  client,    \* Controller.client and .app
  data, remembered, project,   \* of the press
  shown,     \* the project in the window and the bytes that were read, or Nothing
  presses,   \* how many there were (bound)
  made,      \* history: how many projects the plugin has made
  moves,     \* history: how often the store came to name another project
  browsed,   \* BrowserUploads has happened (bound)
  troubles   \* history: calls that failed, presses that died, projects deleted

boardVars == << editor, app, projects, boards, store, at, client, data, remembered, project,
                shown, presses, made, moves, browsed, troubles >>

BoardInit ==
  /\ editor \in Bytes /\ app \in Ports \cup {Nothing}
  /\ projects = {} /\ boards = << >> /\ store = Nothing
  /\ at = "idle" /\ client = Nothing /\ data = Nothing /\ remembered = Nothing /\ project = Nothing
  /\ shown = Nothing /\ presses = 0 /\ made = 0 /\ moves = 0 /\ browsed = FALSE /\ troubles = 0

Goto(place) == at' = place
Reachable == app # Nothing /\ app = client
Trouble == troubles < MaxTroubles /\ troubles' = troubles + 1
World == << editor, app, projects, boards, browsed >>

\* A press ends with an error: what the window shows stays.
Fails == Goto("idle") /\ data' = Nothing /\ remembered' = Nothing /\ project' = Nothing

-----------------------------------------------------------------------------
\* rescan: connect_app, which keeps the client it has; then ensure_connected
\* and read_board.
BeginPress ==
  /\ at = "idle" /\ presses < MaxPresses
  /\ presses' = presses + 1 /\ Goto("connect")
  /\ UNCHANGED << World, store, client, data, remembered, project, shown, made, moves, troubles >>

\* running, and start if it is not: a file that names a port is believed only
\* if the app answers there.
ConnectApp ==
  /\ at = "connect"
  /\ IF client # Nothing THEN Goto("read") /\ UNCHANGED client
     ELSE IF app # Nothing THEN Goto("read") /\ client' = app
     ELSE Goto("starting") /\ UNCHANGED client
  /\ UNCHANGED << World, store, data, remembered, project, shown, presses, made, moves, troubles >>

\* start waits for one way of starting the app after another.
AppAnswers ==
  /\ at = "starting" /\ app # Nothing
  /\ client' = app /\ Goto("read")
  /\ UNCHANGED << World, store, data, remembered, project, shown, presses, made, moves, troubles >>

\* Not installed, or no answer in START_TIMEOUT_S.
AppUnavailable ==
  /\ at = "starting" /\ app = Nothing
  /\ Fails /\ UNCHANGED << World, store, client, shown, presses, made, moves, troubles >>

\* KiCad may not answer.
ReadBoard ==
  /\ at = "read"
  /\ \/ /\ data' = editor /\ remembered' = store /\ UNCHANGED project
        /\ Goto(IF store = Nothing THEN "lookup" ELSE "exists")
     \/ Fails
  /\ UNCHANGED << World, store, client, shown, presses, made, moves, troubles >>

\* _exists: a call that fails is a project that is not there.
Exists ==
  /\ at = "exists" /\ Goto("lookup")
  /\ \/ Reachable /\ remembered' = (IF remembered \in projects THEN remembered ELSE Nothing)
        /\ UNCHANGED troubles
     \/ Trouble /\ remembered' = Nothing
  /\ UNCHANGED << World, store, client, data, project, shown, presses, made, moves >>

\* FindBoardByContent: a hash is recorded when a board is parsed; the newest.
There(i) == boards[i].project \in projects
Found == LET same == {i \in DOMAIN boards : There(i) /\ boards[i].bytes = data /\ boards[i].state = "parsed"}
         IN  IF same = {} THEN Nothing ELSE boards[Max(same)].project

\* Mutant: wherever the bytes are, that is the board's project.
TakeFound(found) ==
  IF found # Nothing
    THEN project' = found /\ Goto("save")
    ELSE project' = remembered /\ Goto(IF remembered = Nothing THEN "create" ELSE "upload")

\* open_board after the lookup.
Decide(found) ==
  IF found # Nothing /\ remembered \in {Nothing, found}
    THEN project' = found /\ Goto("save")
    ELSE project' = remembered /\ Goto(IF remembered = Nothing THEN "create" ELSE "upload")

\* _lookup: one that fails finds nothing.
Lookup ==
  /\ at = "lookup"
  /\ \/ Reachable /\ Decide(Found) /\ UNCHANGED troubles
     \/ Trouble /\ Decide(Nothing)
  /\ UNCHANGED << World, store, client, data, remembered, shown, presses, made, moves >>

CreateProject ==
  /\ at = "create"
  /\ \/ /\ Reachable /\ made' = made + 1 /\ projects' = projects \cup {made + 1}
        /\ \/ project' = made + 1 /\ Goto("upload") /\ UNCHANGED << data, remembered, troubles >>
           \/ Trouble /\ Fails
     \/ Trouble /\ Fails /\ UNCHANGED << projects, made >>
  /\ UNCHANGED << editor, app, boards, browsed, store, client, shown, presses, moves >>

\* upload_board: where to, the bytes, and then the board with its run.
Upload ==
  /\ at = "upload"
  /\ \/ Reachable /\ project \in projects /\ Goto("record") /\ UNCHANGED << data, remembered, project, troubles >>
     \/ Reachable /\ project \notin projects /\ Fails /\ UNCHANGED troubles
     \/ Trouble /\ Fails
  /\ UNCHANGED << World, store, client, shown, presses, made, moves >>

RecordBoard ==
  /\ at = "record"
  /\ \/ /\ Reachable /\ project \in projects
        /\ boards' = Append(boards, [project |-> project, bytes |-> data, state |-> "queued"])
        /\ \/ Goto("save") /\ UNCHANGED << data, remembered, project, troubles >>
           \/ Trouble /\ Fails
     \/ Reachable /\ project \notin projects /\ Fails /\ UNCHANGED << boards, troubles >>
     \/ Trouble /\ Fails /\ UNCHANGED boards
  /\ UNCHANGED << editor, app, projects, browsed, store, client, shown, presses, made, moves >>

\* store.save, and the window shows project_url.
SaveProject ==
  /\ at = "save"
  /\ store' = project /\ shown' = [project |-> project, bytes |-> data]
  /\ moves' = IF store = project THEN moves ELSE moves + 1
  /\ Fails /\ UNCHANGED << World, client, presses, made, troubles >>

PluginStep ==
  \/ ConnectApp \/ AppAnswers \/ AppUnavailable \/ ReadBoard \/ Exists \/ Lookup
  \/ CreateProject \/ Upload \/ RecordBoard \/ SaveProject

-----------------------------------------------------------------------------
\* The plugin's process ends, and the next has a client of its own.
PluginDies ==
  /\ at # "idle" => Trouble
  /\ at = "idle" => client # Nothing /\ UNCHANGED troubles
  /\ Fails /\ client' = Nothing /\ shown' = Nothing
  /\ UNCHANGED << World, store, presses, made, moves >>

PluginRest == << store, at, client, data, remembered, project, shown, presses, made, moves >>

Edit ==
  /\ editor' \in Bytes \ {editor}
  /\ UNCHANGED << app, projects, boards, browsed, PluginRest, troubles >>

\* The app is opened, by the user or by start.
AppStarts ==
  /\ app = Nothing /\ app' \in Ports
  /\ UNCHANGED << editor, projects, boards, browsed, PluginRest, troubles >>

AppQuits ==
  /\ app # Nothing /\ app' = Nothing
  /\ UNCHANGED << editor, projects, boards, browsed, PluginRest, troubles >>

\* The user sends a copy of the board from the browser.
BrowserUploads ==
  /\ app # Nothing /\ ~browsed /\ browsed' = TRUE
  /\ projects' = projects \cup {0}
  /\ \E b \in Bytes : boards' = Append(boards, [project |-> 0, bytes |-> b, state |-> "queued"])
  /\ UNCHANGED << editor, app, PluginRest, troubles >>

Analyse(i) ==
  /\ There(i) /\ boards[i].state = "queued"
  /\ \E s \in {"parsed", "failed"} : boards' = [boards EXCEPT ![i].state = s]
  /\ UNCHANGED << editor, app, projects, browsed, PluginRest, troubles >>

\* The foreign keys take its boards.
DeleteProject(p) ==
  /\ app # Nothing /\ Trouble
  /\ projects' = projects \ {p}
  /\ UNCHANGED << editor, app, boards, browsed, PluginRest >>

BoardNext ==
  \/ BeginPress \/ PluginStep \/ PluginDies
  \/ Edit \/ AppStarts \/ AppQuits \/ BrowserUploads
  \/ \E i \in DOMAIN boards : Analyse(i)
  \/ \E p \in projects : DeleteProject(p)

BoardSpec == BoardInit /\ [][BoardNext]_boardVars

-----------------------------------------------------------------------------
\* One board file is one project: the plugin makes another, or goes over to
\* another, only for a call that failed, a press that died or a project that was
\* deleted; and the project the window shows, if it is still there, holds the
\* bytes that were read, whatever was edited, analysed or restarted in between.
OneProjectPerBoard ==
  /\ made <= 1 + troubles /\ moves <= 1 + troubles
  /\ (shown # Nothing /\ shown.project \in projects) =>
       \E i \in DOMAIN boards : boards[i].project = shown.project /\ boards[i].bytes = shown.bytes

=============================================================================
