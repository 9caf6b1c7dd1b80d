-------------------------------- MODULE Boards --------------------------------
(***************************************************************************)
(* Boards, their uploads and their deletion (server/emi/api_user.go, the   *)
(* board and project queries of server/local/sqlitestore.go).              *)
(*                                                                         *)
(* An upload is stored under the hash its client claims for it, so boards  *)
(* of several projects may name one object; the rows and the objects are   *)
(* in different stores and no transaction spans them.  A handler is a      *)
(* process: each query of the database and each call of the object store   *)
(* is a step, and other requests and the workers run between them.         *)
(*                                                                         *)
(* One organization; every file has the same name; contents stand for      *)
(* their SHA-256.  Names, sizes and the answers' wording are left out, and *)
(* the object store does not fail here.                                    *)
(***************************************************************************)
EXTENDS Naturals, FiniteSets

CONSTANTS Users,      \* requests that may be served at the same time
          ProjectIds, \* ids newID may hand out, each once (bounds)
          BoardIds,
          RunIds,
          FreshKeys,  \* uploads/<org>/<newID>/<name>
          Contents,   \* files, standing for their hashes as well
          Claims,     \* hashes clients send: the keys uploads/<org>/sha256/<hash>/<name>
          None

Keys == Claims \cup FreshKeys

Ids == ProjectIds \cup BoardIds \cup RunIds \cup FreshKeys

ASSUME BoardsAssumption ==
    /\ IsFiniteSet(BoardIds)
    /\ Claims \subseteq Contents
    /\ Contents \cap Ids = {}
    /\ \A S, T \in {ProjectIds, BoardIds, RunIds, FreshKeys} : S # T => S \cap T = {}
    /\ None \notin Contents \cup Ids

VARIABLES projects,  \* ids of the rows of emi_projects
          boards,    \* rows of emi_boards
          runs,      \* rows of emi_runs
          blob,      \* the object at each upload key
          artifacts, \* runs with objects under runs/<run id>/
          req,       \* the request each user has in hand
          work,      \* the bytes a worker has read for each run
          used,      \* ids newID has handed out
          verified,  \* history: <<key, bytes>> an ingest has reported
          named,     \* history: keys a board has named since they were erased
          exposed,   \* history: boards recorded while their upload was being deleted, or after
          overlapped \* history: a deletion has overlapped another request

stores == <<projects, boards, runs, blob, artifacts>>
history == <<verified, named, exposed, overlapped>>
boardsVars == <<stores, req, work, used, history>>

Board == [id : BoardIds, project : ProjectIds, input : Keys, sha : Contents \cup {None}]
Run == [id : RunIds, board : BoardIds, kind : {"ingest", "solve"},
        status : {"going", "failed", "done"}]

Places == {"idle", "url", "uploaded", "creating", "queueing",
           "versions", "runs", "checked", "deleting", "erasing", "uploads"}
Requests == [at : Places, project : ProjectIds \cup {None}, board : BoardIds \cup {None},
             kind : {"ingest", "solve"}, key : Keys \cup {None},
             bytes : Contents \cup {None}, claim : Claims \cup {None},
             listed : SUBSET Board, runs : SUBSET RunIds, orphaned : SUBSET Keys]

NoRequest == [at |-> "idle", project |-> None, board |-> None, kind |-> "ingest",
              key |-> None, bytes |-> None, claim |-> None,
              listed |-> {}, runs |-> {}, orphaned |-> {}]

BoardsTypeOK ==
    /\ projects \subseteq ProjectIds
    /\ boards \subseteq Board
    /\ runs \subseteq Run
    /\ blob \in [Keys -> Contents \cup {None}]
    /\ artifacts \subseteq RunIds
    /\ req \in [Users -> Requests]
    /\ work \in [RunIds -> Contents \cup {None}]
    /\ used \subseteq Ids
    /\ verified \subseteq Keys \X Contents
    /\ named \subseteq Keys
    /\ exposed \subseteq BoardIds
    /\ overlapped \in BOOLEAN

BoardsInit ==
    /\ projects = {} /\ boards = {} /\ runs = {}
    /\ blob = [k \in Keys |-> None]
    /\ artifacts = {}
    /\ req = [u \in Users |-> NoRequest]
    /\ work = [r \in RunIds |-> None]
    /\ used = {}
    /\ verified = {} /\ named = {} /\ exposed = {} /\ overlapped = FALSE

-------------------------------------------------------------------------------
(* Queries. *)

newID(i) == i \notin used /\ used' = used \cup {i}

HasBoard(b) == \E row \in boards : row.id = b
ListBoards(p) == {b \in boards : b.project = p}
RunsOn(bs) == {r \in runs : \E b \in bs : r.board = b.id}
RunIdsOf(rs) == {r.id : r \in rs}

\* One of these is answered: the newest of those parsed first.
FindBoardByContent(sha) == {b \in boards : b.sha = sha /\ sha # None}

CountBoardsSharingInput(key, exceptProject) ==
    Cardinality({b \in boards : b.input = key /\ b.project # exceptProject})

-------------------------------------------------------------------------------
(* Requests: where a user's request is, and what it overlaps. *)

At(u, place) == req[u].at = place
Now(u, place) == req' = [req EXCEPT ![u].at = place]
End(u) == req' = [req EXCEPT ![u] = NoRequest]

Deletion == {"versions", "runs", "checked", "deleting", "erasing", "uploads"}
Submission == {"creating", "queueing"}

\* The boards a deletion is to remove, as it listed them.
Doomed(q) == {b \in q.listed : q.board \in {None, b.id}}

\* A deletion under way that a new board of project p on key will not stop: it
\* has decided to remove the object, or has listed the project's versions.
Threatened(key, p) ==
    \E u \in Users :
        \/ key \in req[u].orphaned
        \/ /\ req[u].at \in {"versions", "checked"} /\ req[u].project = p
           /\ \E b \in Doomed(req[u]) : b.input = key

\* u's request reaches the database, as a deletion or as a submission.
Overlap(u, deletes) ==
    overlapped' = (overlapped \/ \E v \in Users \ {u} :
        req[v].at \in Deletion \/ (deletes /\ req[v].at \in Submission))

-------------------------------------------------------------------------------
(* Uploading a file and recording it as a board. *)

CreateProject(p) ==
    /\ newID(p)
    /\ projects' = projects \cup {p}
    /\ UNCHANGED <<boards, runs, blob, artifacts, req, work, history>>

\* The client is told to go on without an upload, with an object it names.
Held(u, p, key, claim) ==
    /\ At(u, "idle") /\ p \in projects
    /\ blob[key] # None
    /\ req' = [req EXCEPT ![u] = [NoRequest EXCEPT
           !.at = "uploaded", !.project = p, !.key = key, !.claim = claim]]
    /\ UNCHANGED <<stores, work, used, history>>

\* Mutant: an object at the hashed key is taken for the claimed bytes.
TrustHashedKey(u, p, claim) == claim # None /\ Held(u, p, claim, claim)

\* handleCreateUpload, when those bytes are held already: claim is the
\* hash the client sends with the request, if any.
ReuseUpload(u, p, claim) ==
    \E b \in FindBoardByContent(claim) : Held(u, p, b.input, claim)

\* handleCreateUpload, otherwise (c is the file): a signed URL for the hashed
\* key, or for one of the upload's own, without a hash or where an object is.
SignUpload(u, p, c, claim) ==
    /\ At(u, "idle") /\ p \in projects
    /\ \/ FindBoardByContent(claim) = {}
       \/ \E b \in FindBoardByContent(claim) : blob[b.input] = None
    /\ \E key \in Keys :
        /\ IF claim # None /\ blob[claim] = None
           THEN key = claim /\ UNCHANGED used
           ELSE key \in FreshKeys /\ newID(key)
        /\ req' = [req EXCEPT ![u] = [NoRequest EXCEPT
               !.at = "url", !.project = p, !.key = key, !.bytes = c]]
    /\ UNCHANGED <<stores, work, history>>

\* The client's PUT to its signed URL.
PutUpload(u) ==
    /\ At(u, "url")
    /\ blob' = [blob EXCEPT ![req[u].key] = req[u].bytes]
    /\ Now(u, "uploaded")
    /\ UNCHANGED <<projects, boards, runs, artifacts, work, used, history>>

\* The URL expires, or the client leaves after its upload.
Abandon(u) ==
    /\ req[u].at \in {"url", "uploaded"}
    /\ End(u)
    /\ UNCHANGED <<stores, work, used, history>>

\* handleCreateBoard looks for the object at the key it is given.
StatUpload(u) ==
    /\ At(u, "uploaded")
    /\ IF req[u].project \in projects /\ blob[req[u].key] # None
       THEN Now(u, "creating") /\ Overlap(u, FALSE)
       ELSE End(u) /\ UNCHANGED overlapped
    /\ UNCHANGED <<stores, work, used, verified, named, exposed>>

\* CreateBoard: the content hash is left empty, whatever the client claims.
InsertBoard(u, b) ==
    LET q == req[u] IN
    /\ At(u, "creating")
    /\ q.project \in projects
    /\ newID(b)
    /\ boards' = boards \cup
           {[id |-> b, project |-> q.project, input |-> q.key, sha |-> None]}
    /\ named' = named \cup {q.key}
    /\ exposed' = IF Threatened(q.key, q.project) \/ blob[q.key] = None
                  THEN exposed \cup {b} ELSE exposed
    /\ req' = [req EXCEPT ![u].at = "queueing", ![u].board = b]
    /\ UNCHANGED <<projects, runs, blob, artifacts, work, verified, overlapped>>

\* Either insert may fail: it does when the project or the board is gone, by
\* the foreign key, and a board whose run is not inserted stays.
InsertFails(u) ==
    /\ req[u].at \in Submission
    /\ End(u)
    /\ UNCHANGED <<stores, work, used, history>>

\* handleCreateRun: the board is looked up before the run is inserted.
CheckBoard(u, b, kind) ==
    /\ At(u, "idle") /\ b \in boards
    /\ req' = [req EXCEPT ![u] = [NoRequest EXCEPT
           !.at = "queueing", !.board = b.id, !.kind = kind]]
    /\ Overlap(u, FALSE)
    /\ UNCHANGED <<stores, work, used, verified, named, exposed>>

\* Mutant: the run is inserted for the board that was looked up, foreign keys off.
CreateRunUnchecked(u, r) ==
    /\ At(u, "queueing") /\ newID(r)
    /\ runs' = runs \cup
           {[id |-> r, board |-> req[u].board, kind |-> req[u].kind, status |-> "going"]}
    /\ End(u)
    /\ UNCHANGED <<projects, boards, blob, artifacts, work, history>>

\* CreateRun, of either handler.
CreateRun(u, r) ==
    LET q == req[u] IN
    /\ At(u, "queueing")
    /\ HasBoard(q.board)
    /\ newID(r)
    /\ runs' = runs \cup
           {[id |-> r, board |-> q.board, kind |-> q.kind, status |-> "going"]}
    /\ End(u)
    /\ UNCHANGED <<projects, boards, blob, artifacts, work, history>>

\* RetryRun: one statement.  The worker that had the run may not end it any
\* more (module RunControl), so what it read no longer counts.
RetryRun(u, r) ==
    /\ At(u, "idle") /\ r \in runs /\ r.status = "failed"
    /\ runs' = (runs \ {r}) \cup {[r EXCEPT !.status = "going"]}
    /\ work' = [work EXCEPT ![r.id] = None]
    /\ Overlap(u, FALSE)
    /\ UNCHANGED <<projects, boards, blob, artifacts, req, used,
                   verified, named, exposed>>

-------------------------------------------------------------------------------
(* Deleting one version of a board, or a project. *)

\* handleDeleteBoard lists the versions; the only one is refused.
ListVersions(u, b) ==
    /\ At(u, "idle") /\ b \in boards
    /\ Cardinality(ListBoards(b.project)) # 1
    /\ req' = [req EXCEPT ![u] = [NoRequest EXCEPT !.at = "versions",
           !.project = b.project, !.board = b.id, !.listed = ListBoards(b.project)]]
    /\ Overlap(u, TRUE)
    /\ UNCHANGED <<stores, work, used, verified, named, exposed>>

\* It then lists the runs on that version; one that is going refuses it.
ListRunsOnVersion(u) ==
    LET mine == RunsOn(Doomed(req[u])) IN
    /\ At(u, "versions")
    /\ IF \E r \in mine : r.status = "going"
       THEN End(u)
       ELSE req' = [req EXCEPT ![u].at = "checked", ![u].runs = RunIdsOf(mine)]
    /\ UNCHANGED <<stores, work, used, history>>

\* handleDeleteProject lists the runs, whatever their status,
ListRunsOfProject(u, p) ==
    /\ At(u, "idle") /\ p \in projects
    /\ req' = [req EXCEPT ![u] = [NoRequest EXCEPT !.at = "runs",
           !.project = p, !.runs = RunIdsOf(RunsOn(ListBoards(p)))]]
    /\ Overlap(u, TRUE)
    /\ UNCHANGED <<stores, work, used, verified, named, exposed>>

\* and then the boards.
ListBoardsOfProject(u) ==
    /\ At(u, "runs")
    /\ req' = [req EXCEPT ![u].at = "checked", ![u].listed = ListBoards(req[u].project)]
    /\ UNCHANGED <<stores, work, used, history>>

\* Mutant: the count alone, which leaves the project's own versions out.
OrphanedByCount(q) ==
    {k \in {b.input : b \in Doomed(q)} : CountBoardsSharingInput(k, q.project) = 0}

\* Mutant: the count takes the project's own boards in.
OrphanedOutright(q) ==
    {k \in {b.input : b \in Doomed(q)} : \A b \in boards : b.input # k}

\* The uploads of the doomed boards that neither a version to be kept, as
\* listed, nor a board of another project, counted now, names as well.
Orphaned(q) ==
    {k \in {b.input : b \in Doomed(q)} :
        /\ \A b \in q.listed \ Doomed(q) : b.input # k
        /\ CountBoardsSharingInput(k, q.project) = 0}

CountSharing(u) ==
    /\ At(u, "checked")
    /\ req' = [req EXCEPT ![u].at = "deleting", ![u].orphaned = Orphaned(req[u])]
    /\ UNCHANGED <<stores, work, used, history>>

\* DeleteBoard of the store: the version and its runs, in one transaction.
DeleteBoard(u) ==
    LET gone == {b \in boards : b.id = req[u].board} IN
    /\ At(u, "deleting") /\ req[u].board # None
    /\ IF gone # {}
       THEN boards' = boards \ gone /\ runs' = runs \ RunsOn(gone) /\ Now(u, "erasing")
       ELSE End(u) /\ UNCHANGED <<boards, runs>>
    /\ UNCHANGED <<projects, blob, artifacts, work, used, history>>

\* DeleteProject of the store: the foreign keys take its boards and runs.
DeleteProject(u) ==
    LET gone == ListBoards(req[u].project) IN
    /\ At(u, "deleting") /\ req[u].board = None
    /\ IF req[u].project \in projects
       THEN /\ projects' = projects \ {req[u].project}
            /\ boards' = boards \ gone
            /\ runs' = runs \ RunsOn(gone)
            /\ Now(u, "erasing")
       ELSE End(u) /\ UNCHANGED <<projects, boards, runs>>
    /\ UNCHANGED <<blob, artifacts, work, used, history>>

\* DeletePrefix of each run that was listed.
EraseRuns(u) ==
    /\ At(u, "erasing")
    /\ artifacts' = artifacts \ req[u].runs
    /\ Now(u, "uploads")
    /\ UNCHANGED <<projects, boards, runs, blob, work, used, history>>

\* Delete of one orphaned upload; none left ends the request.
EraseUpload(u) ==
    /\ At(u, "uploads")
    /\ \/ \E k \in req[u].orphaned :
           /\ blob' = [blob EXCEPT ![k] = None]
           /\ named' = named \ {k}
           /\ req' = [req EXCEPT ![u].orphaned = @ \ {k}]
       \/ req[u].orphaned = {} /\ End(u) /\ UNCHANGED <<blob, named>>
    /\ UNCHANGED <<projects, boards, runs, artifacts, work, used,
                   verified, exposed, overlapped>>

-------------------------------------------------------------------------------
(* The worker on a run (module RunControl has its claim and its tokens). *)

Finish(r, status) == runs' = (runs \ {r}) \cup {[r EXCEPT !.status = status]}

\* The worker reads the board's upload through a signed URL.
ReadInput(r) ==
    /\ r.status = "going" /\ work[r.id] = None
    /\ \E b \in boards :
        /\ b.id = r.board /\ blob[b.input] # None
        /\ work' = [work EXCEPT ![r.id] = blob[b.input]]
    /\ UNCHANGED <<stores, req, used, history>>

\* A PUT through a URL signed while the worker held the run: nothing takes
\* the URL back when the run ends or is deleted.
PutArtifact(i) ==
    /\ work[i] # None
    /\ artifacts' = artifacts \cup {i}
    /\ UNCHANGED <<projects, boards, runs, blob, req, work, used, history>>

\* Mutant: an ingest is recorded whether or not the worker has read the file.
CompleteUnread(r) ==
    /\ r.status = "going"
    /\ Finish(r, "done")
    /\ \E b \in boards :
        /\ b.id = r.board
        /\ boards' = (boards \ {b}) \cup {[b EXCEPT !.sha = work[r.id]]}
        /\ verified' = verified \cup {<<b.input, work[r.id]>>}
    /\ UNCHANGED <<projects, blob, artifacts, req, work, used, named, exposed, overlapped>>

\* CompleteRun with "done": an ingest records the hash of what it read.
CompleteRun(r) ==
    /\ r.status = "going" /\ work[r.id] # None
    /\ Finish(r, "done")
    /\ IF r.kind = "ingest"
       THEN \E b \in boards :
              /\ b.id = r.board
              /\ boards' = (boards \ {b}) \cup {[b EXCEPT !.sha = work[r.id]]}
              /\ verified' = verified \cup {<<b.input, work[r.id]>>}
       ELSE UNCHANGED <<boards, verified>>
    /\ work' = [work EXCEPT ![r.id] = None]
    /\ UNCHANGED <<projects, blob, artifacts, req, used, named, exposed, overlapped>>

\* The worker reports a failure, the run is stopped or the sweeper ends it.
FailRun(r) ==
    /\ r.status = "going"
    /\ Finish(r, "failed")
    /\ UNCHANGED <<projects, boards, blob, artifacts, req, work, used, history>>

\* A worker whose run ended without it or was deleted gives it up.
LeaveRun(i) ==
    /\ work[i] # None
    /\ \A r \in runs : r.id = i => r.status # "going"
    /\ work' = [work EXCEPT ![i] = None]
    /\ UNCHANGED <<stores, req, used, history>>

-------------------------------------------------------------------------------

Upload(u) ==
    \/ \E p \in ProjectIds, c \in Contents, claim \in Claims \cup {None} :
           ReuseUpload(u, p, claim) \/ SignUpload(u, p, c, claim)
    \/ PutUpload(u) \/ Abandon(u)

Submit(u) ==
    \/ StatUpload(u) \/ InsertFails(u)
    \/ \E b \in BoardIds : InsertBoard(u, b)
    \/ \E b \in boards, kind \in {"ingest", "solve"} : CheckBoard(u, b, kind)
    \/ \E r \in RunIds : CreateRun(u, r)
    \/ \E r \in runs : RetryRun(u, r)

Delete(u) ==
    \/ \E b \in boards : ListVersions(u, b)
    \/ \E p \in ProjectIds : ListRunsOfProject(u, p)
    \/ ListRunsOnVersion(u) \/ ListBoardsOfProject(u) \/ CountSharing(u)
    \/ DeleteBoard(u) \/ DeleteProject(u) \/ EraseRuns(u) \/ EraseUpload(u)

Worker ==
    \/ \E r \in runs : ReadInput(r) \/ CompleteRun(r) \/ FailRun(r)
    \/ \E i \in RunIds : PutArtifact(i) \/ LeaveRun(i)

BoardsNext ==
    \/ \E p \in ProjectIds : CreateProject(p)
    \/ \E u \in Users : Upload(u) \/ Submit(u) \/ Delete(u)
    \/ Worker

BoardsSpec == BoardsInit /\ [][BoardsNext]_boardsVars

-------------------------------------------------------------------------------
(* What must hold. *)

\* A deletion takes an upload away only from boards that were recorded after
\* it had read its lists, or whose upload was gone between the look and the
\* insert: every other board keeps the object it names, whichever versions and
\* projects share it and however many deletions run at once.
UploadStays ==
    \A b \in boards : blob[b.input] = None => b.id \in exposed

\* A run always has its board, and a board its project: neither a submission
\* nor a deletion that looked before the other wrote leaves a row behind.
RowsHaveTheirParents ==
    /\ \A r \in runs : HasBoard(r.board)
    /\ \A b \in boards : b.project \in projects

\* A client is told its bytes are held already only if an ingest read bytes
\* with the claimed hash at the key it is given; another client's claim, true
\* or not, is never enough (api_user.go, handleCreateUpload).
ReuseIsVerified ==
    \A u \in Users : At(u, "uploaded") /\ req[u].claim # None
                     => <<req[u].key, req[u].claim>> \in verified

\* When no deletion has overlapped another request, an upload goes with the
\* last board that named it.
NothingLeftBehind ==
    ~overlapped => \A k \in named :
        blob[k] = None \/ (\E b \in boards : b.input = k)
                       \/ \E u \in Users : k \in req[u].orphaned

===============================================================================
