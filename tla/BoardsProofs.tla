----------------------------- MODULE BoardsProofs -----------------------------
(***************************************************************************)
(* What holds of boards and their uploads for every number of requests,    *)
(* projects, boards, runs and files: types, the parents of the rows, that  *)
(* a deletion takes no upload from a board that was there before it, that  *)
(* an upload is only called held when an ingest has read its bytes, and    *)
(* that nothing is left behind while no deletion overlaps another request. *)
(***************************************************************************)
EXTENDS Boards, FiniteSetTheorems, TLAPS

-------------------------------------------------------------------------------
(* Types.  A request that has been given a key or a project has one.       *)

RequestsHold ==
    \A u \in Users :
        /\ req[u].at \in {"url", "uploaded", "creating"} =>
               req[u].key \in Keys /\ req[u].project \in ProjectIds
        /\ req[u].at = "url" => req[u].bytes \in Contents

BTypes == BoardsTypeOK /\ RequestsHold

LEMMA NoRequestTyped == NoRequest \in Requests /\ NoRequest.at = "idle"
  BY DEF NoRequest, Requests, Places

LEMMA InitBTypes == BoardsInit => BTypes
  BY NoRequestTyped DEF BoardsInit, BTypes, BoardsTypeOK, RequestsHold

\* A request that is put in the place of u's, and leaves the others alone.
LEMMA RequestTypes ==
  ASSUME BTypes, NEW u \in Users, NEW q \in Requests, req' = [req EXCEPT ![u] = q],
         q.at \in {"url", "uploaded", "creating"} => q.key \in Keys /\ q.project \in ProjectIds,
         q.at = "url" => q.bytes \in Contents
  PROVE  req' \in [Users -> Requests] /\ RequestsHold'
  BY DEF BTypes, BoardsTypeOK, RequestsHold

\* The request ends.
LEMMA EndTypes ==
  ASSUME BTypes, NEW u \in Users, End(u)
  PROVE  req' \in [Users -> Requests] /\ RequestsHold'
  BY RequestTypes, NoRequestTyped DEF End

\* The request goes on to another place, with what it has.
LEMMA NowTypes ==
  ASSUME BTypes, NEW u \in Users, NEW place \in Places \ {"url"}, Now(u, place),
         place \in {"uploaded", "creating"} => req[u].at \in {"url", "uploaded"}
  PROVE  req' \in [Users -> Requests] /\ RequestsHold'
<1> DEFINE q == [req[u] EXCEPT !.at = place]
<1>1. q \in Requests /\ q.at = place /\ q.key = req[u].key /\ q.project = req[u].project
  BY DEF BTypes, BoardsTypeOK, Requests
<1>2. req' = [req EXCEPT ![u] = q]
  BY DEF Now
<1>3. place \in {"uploaded", "creating"} => q.key \in Keys /\ q.project \in ProjectIds
  BY <1>1 DEF BTypes, RequestsHold
<1> HIDE DEF q
<1> QED BY <1>1, <1>2, <1>3, RequestTypes

\* What the queries answer is made of rows.
LEMMA QueryTypes ==
  ASSUME BTypes
  PROVE  /\ \A p : ListBoards(p) \subseteq Board
         /\ \A sha : FindBoardByContent(sha) \subseteq Board
         /\ \A bs : RunIdsOf(RunsOn(bs)) \subseteq RunIds
         /\ \A u \in Users : Orphaned(req[u]) \subseteq Keys
<1>1. \A u \in Users : req[u].listed \subseteq Board
  BY DEF BTypes, BoardsTypeOK, Requests
<1>2. \A u \in Users : Orphaned(req[u]) \subseteq Keys
  BY <1>1 DEF Orphaned, Doomed, Board
<1> QED BY <1>2 DEF BTypes, BoardsTypeOK, ListBoards, FindBoardByContent, RunIdsOf, RunsOn, Run

LEMMA UploadTypes ==
  ASSUME BTypes, NEW u \in Users, Upload(u)
  PROVE  BTypes'
<1> USE DEF stores, history
<1>1. ASSUME NEW p \in ProjectIds, NEW claim \in Claims \cup {None}, ReuseUpload(u, p, claim)
      PROVE  BTypes'
  <2>1. PICK b \in FindBoardByContent(claim) : Held(u, p, b.input, claim)
    BY <1>1 DEF ReuseUpload
  <2> DEFINE q == [NoRequest EXCEPT
           !.at = "uploaded", !.project = p, !.key = b.input, !.claim = claim]
  <2>2. b.input \in Keys
    BY <2>1, QueryTypes DEF Board
  <2>3. q \in Requests /\ q.at = "uploaded" /\ q.key = b.input /\ q.project = p
    BY <2>2 DEF NoRequest, Requests, Places
  <2>4. req' = [req EXCEPT ![u] = q]
    BY <2>1 DEF Held
  <2> HIDE DEF q
  <2>5. req' \in [Users -> Requests] /\ RequestsHold'
    BY <2>2, <2>3, <2>4, RequestTypes
  <2> QED BY <2>1, <2>5 DEF Held, BTypes, BoardsTypeOK
<1>2. ASSUME NEW p \in ProjectIds, NEW c \in Contents, NEW claim \in Claims \cup {None},
             SignUpload(u, p, c, claim)
      PROVE  BTypes'
  <2>1. PICK key \in Keys :
          /\ IF claim # None /\ blob[claim] = None
             THEN key = claim /\ UNCHANGED used
             ELSE key \in FreshKeys /\ newID(key)
          /\ req' = [req EXCEPT ![u] = [NoRequest EXCEPT
                 !.at = "url", !.project = p, !.key = key, !.bytes = c]]
    BY <1>2 DEF SignUpload
  <2> DEFINE q == [NoRequest EXCEPT
           !.at = "url", !.project = p, !.key = key, !.bytes = c]
  <2>2. q \in Requests /\ q.at = "url" /\ q.key = key /\ q.project = p /\ q.bytes = c
    BY DEF NoRequest, Requests, Places
  <2>3. req' = [req EXCEPT ![u] = q]
    BY <2>1
  <2> HIDE DEF q
  <2>4. req' \in [Users -> Requests] /\ RequestsHold'
    BY <2>2, <2>3, RequestTypes
  <2>5. used' \subseteq Ids
    BY <2>1 DEF newID, BTypes, BoardsTypeOK, Ids
  <2> QED BY <1>2, <2>4, <2>5 DEF SignUpload, BTypes, BoardsTypeOK
<1>3. CASE PutUpload(u)
  <2>1. req' \in [Users -> Requests] /\ RequestsHold'
    BY <1>3, NowTypes DEF PutUpload, At, Places
  <2>2. blob' \in [Keys -> Contents \cup {None}]
    BY <1>3 DEF PutUpload, At, BTypes, BoardsTypeOK, RequestsHold
  <2> QED BY <1>3, <2>1, <2>2 DEF PutUpload, BTypes, BoardsTypeOK
<1>4. CASE Abandon(u)
  BY <1>4, EndTypes DEF Abandon, BTypes, BoardsTypeOK
<1> QED BY <1>1, <1>2, <1>3, <1>4 DEF Upload

LEMMA SubmitTypes ==
  ASSUME BTypes, NEW u \in Users, Submit(u)
  PROVE  BTypes'
<1> USE DEF stores, history
<1>1. CASE StatUpload(u)
  <2>1. req' \in [Users -> Requests] /\ RequestsHold'
    BY <1>1, NowTypes, EndTypes DEF StatUpload, At, Places
  <2>2. overlapped' \in BOOLEAN
    BY <1>1 DEF StatUpload, Overlap, BTypes, BoardsTypeOK
  <2> QED BY <1>1, <2>1, <2>2 DEF StatUpload, BTypes, BoardsTypeOK
<1>2. CASE InsertFails(u)
  BY <1>2, EndTypes DEF InsertFails, BTypes, BoardsTypeOK
<1>3. ASSUME NEW b \in BoardIds, InsertBoard(u, b) PROVE BTypes'
  <2> DEFINE q == [req[u] EXCEPT !.at = "queueing", !.board = b]
  <2>1. q \in Requests /\ q.at = "queueing"
    <3>1. req[u] \in Requests
      BY DEF BTypes, BoardsTypeOK
    <3> QED BY <3>1 DEF Requests, Places
  <2>2. req' = [req EXCEPT ![u] = q]
    BY <1>3 DEF InsertBoard
  <2> HIDE DEF q
  <2>3. req' \in [Users -> Requests] /\ RequestsHold'
    BY <2>1, <2>2, RequestTypes
  <2>4. req[u].key \in Keys /\ req[u].project \in ProjectIds
    BY <1>3 DEF InsertBoard, At, BTypes, RequestsHold
  <2>5. boards' \subseteq Board /\ named' \subseteq Keys /\ exposed' \subseteq BoardIds
    BY <1>3, <2>4 DEF InsertBoard, Board, BTypes, BoardsTypeOK
  <2>6. used' \subseteq Ids
    BY <1>3 DEF InsertBoard, newID, BTypes, BoardsTypeOK, Ids
  <2> QED BY <1>3, <2>3, <2>5, <2>6 DEF InsertBoard, BTypes, BoardsTypeOK
<1>4. ASSUME NEW b \in boards, NEW kind \in {"ingest", "solve"}, CheckBoard(u, b, kind)
      PROVE  BTypes'
  <2> DEFINE q == [NoRequest EXCEPT !.at = "queueing", !.board = b.id, !.kind = kind]
  <2>1. q \in Requests /\ q.at = "queueing"
    BY DEF BTypes, BoardsTypeOK, Requests, Places, NoRequest, Board
  <2>2. req' = [req EXCEPT ![u] = q]
    BY <1>4 DEF CheckBoard
  <2> HIDE DEF q
  <2>3. req' \in [Users -> Requests] /\ RequestsHold'
    BY <2>1, <2>2, RequestTypes
  <2>4. overlapped' \in BOOLEAN
    BY <1>4 DEF CheckBoard, Overlap, BTypes, BoardsTypeOK
  <2> QED BY <1>4, <2>3, <2>4 DEF CheckBoard, BTypes, BoardsTypeOK
<1>5. ASSUME NEW r \in RunIds, CreateRun(u, r) PROVE BTypes'
  <2>1. req' \in [Users -> Requests] /\ RequestsHold'
    BY <1>5, EndTypes DEF CreateRun
  <2>2. req[u].board \in BoardIds /\ req[u].kind \in {"ingest", "solve"}
    BY <1>5 DEF CreateRun, HasBoard, Board, BTypes, BoardsTypeOK, Requests
  <2>3. runs' \subseteq Run
    BY <1>5, <2>2 DEF CreateRun, Run, BTypes, BoardsTypeOK
  <2>4. used' \subseteq Ids
    BY <1>5 DEF CreateRun, newID, BTypes, BoardsTypeOK, Ids
  <2> QED BY <1>5, <2>1, <2>3, <2>4 DEF CreateRun, BTypes, BoardsTypeOK
<1>6. ASSUME NEW r \in runs, RetryRun(u, r) PROVE BTypes'
  <2>1. [r EXCEPT !.status = "going"] \in Run
    BY DEF Run, BTypes, BoardsTypeOK
  <2>2. runs' \subseteq Run /\ overlapped' \in BOOLEAN
    BY <1>6, <2>1 DEF RetryRun, Overlap, BTypes, BoardsTypeOK
  <2>3. work' \in [RunIds -> Contents \cup {None}]
    BY <1>6 DEF RetryRun, BTypes, BoardsTypeOK
  <2> QED BY <1>6, <2>2, <2>3 DEF RetryRun, BTypes, BoardsTypeOK, RequestsHold
<1> QED BY <1>1, <1>2, <1>3, <1>4, <1>5, <1>6 DEF Submit

LEMMA DeleteTypes ==
  ASSUME BTypes, NEW u \in Users, Delete(u)
  PROVE  BTypes'
<1> USE DEF stores, history
<1>1. ASSUME NEW b \in boards, ListVersions(u, b) PROVE BTypes'
  <2> DEFINE q == [NoRequest EXCEPT !.at = "versions",
           !.project = b.project, !.board = b.id, !.listed = ListBoards(b.project)]
  <2>1. q \in Requests /\ q.at = "versions"
    BY QueryTypes DEF BTypes, BoardsTypeOK, Requests, Places, NoRequest, Board
  <2>2. req' = [req EXCEPT ![u] = q]
    BY <1>1 DEF ListVersions
  <2> HIDE DEF q
  <2>3. req' \in [Users -> Requests] /\ RequestsHold'
    BY <2>1, <2>2, RequestTypes
  <2>4. overlapped' \in BOOLEAN
    BY <1>1 DEF ListVersions, Overlap, BTypes, BoardsTypeOK
  <2> QED BY <1>1, <2>3, <2>4 DEF ListVersions, BTypes, BoardsTypeOK
<1>2. ASSUME NEW p \in ProjectIds, ListRunsOfProject(u, p) PROVE BTypes'
  <2> DEFINE q == [NoRequest EXCEPT !.at = "runs",
           !.project = p, !.runs = RunIdsOf(RunsOn(ListBoards(p)))]
  <2>1. q \in Requests /\ q.at = "runs"
    BY QueryTypes DEF Requests, Places, NoRequest
  <2>2. req' = [req EXCEPT ![u] = q]
    BY <1>2 DEF ListRunsOfProject
  <2> HIDE DEF q
  <2>3. req' \in [Users -> Requests] /\ RequestsHold'
    BY <2>1, <2>2, RequestTypes
  <2>4. overlapped' \in BOOLEAN
    BY <1>2 DEF ListRunsOfProject, Overlap, BTypes, BoardsTypeOK
  <2> QED BY <1>2, <2>3, <2>4 DEF ListRunsOfProject, BTypes, BoardsTypeOK
<1>3. CASE ListRunsOnVersion(u)
  <2> DEFINE mine == RunsOn(Doomed(req[u]))
             q == [req[u] EXCEPT !.at = "checked", !.runs = RunIdsOf(mine)]
  <2>1. q \in Requests /\ q.at = "checked"
    <3>1. req[u] \in Requests
      BY DEF BTypes, BoardsTypeOK
    <3> QED BY <3>1, QueryTypes DEF Requests, Places
  <2>2. End(u) \/ req' = [req EXCEPT ![u] = q]
    BY <1>3 DEF ListRunsOnVersion
  <2> HIDE DEF q
  <2>3. req' \in [Users -> Requests] /\ RequestsHold'
    BY <2>1, <2>2, RequestTypes, EndTypes
  <2> QED BY <1>3, <2>3 DEF ListRunsOnVersion, BTypes, BoardsTypeOK
<1>4. CASE ListBoardsOfProject(u)
  <2> DEFINE q == [req[u] EXCEPT !.at = "checked", !.listed = ListBoards(req[u].project)]
  <2>1. q \in Requests /\ q.at = "checked"
    <3>1. req[u] \in Requests
      BY DEF BTypes, BoardsTypeOK
    <3> QED BY <3>1, QueryTypes DEF Requests, Places
  <2>2. req' = [req EXCEPT ![u] = q]
    BY <1>4 DEF ListBoardsOfProject
  <2> HIDE DEF q
  <2>3. req' \in [Users -> Requests] /\ RequestsHold'
    BY <2>1, <2>2, RequestTypes
  <2> QED BY <1>4, <2>3 DEF ListBoardsOfProject, BTypes, BoardsTypeOK
<1>5. CASE CountSharing(u)
  <2> DEFINE q == [req[u] EXCEPT !.at = "deleting", !.orphaned = Orphaned(req[u])]
  <2>1. q \in Requests /\ q.at = "deleting"
    <3>1. req[u] \in Requests
      BY DEF BTypes, BoardsTypeOK
    <3> QED BY <3>1, QueryTypes DEF Requests, Places
  <2>2. req' = [req EXCEPT ![u] = q]
    BY <1>5 DEF CountSharing
  <2> HIDE DEF q
  <2>3. req' \in [Users -> Requests] /\ RequestsHold'
    BY <2>1, <2>2, RequestTypes
  <2> QED BY <1>5, <2>3 DEF CountSharing, BTypes, BoardsTypeOK
<1>6. CASE DeleteBoard(u)
  <2>1. req' \in [Users -> Requests] /\ RequestsHold'
    BY <1>6, NowTypes, EndTypes DEF DeleteBoard, Places
  <2>2. boards' \subseteq Board /\ runs' \subseteq Run
    BY <1>6 DEF DeleteBoard, BTypes, BoardsTypeOK
  <2> QED BY <1>6, <2>1, <2>2 DEF DeleteBoard, BTypes, BoardsTypeOK
<1>7. CASE DeleteProject(u)
  <2>1. req' \in [Users -> Requests] /\ RequestsHold'
    BY <1>7, NowTypes, EndTypes DEF DeleteProject, Places
  <2>2. boards' \subseteq Board /\ runs' \subseteq Run /\ projects' \subseteq ProjectIds
    BY <1>7 DEF DeleteProject, BTypes, BoardsTypeOK
  <2> QED BY <1>7, <2>1, <2>2 DEF DeleteProject, BTypes, BoardsTypeOK
<1>8. CASE EraseRuns(u)
  <2>1. req' \in [Users -> Requests] /\ RequestsHold'
    BY <1>8, NowTypes DEF EraseRuns, Places
  <2> QED BY <1>8, <2>1 DEF EraseRuns, BTypes, BoardsTypeOK
<1>9. CASE EraseUpload(u)
  <2>1. ASSUME NEW k \in req[u].orphaned, req' = [req EXCEPT ![u].orphaned = @ \ {k}]
        PROVE  req' \in [Users -> Requests] /\ RequestsHold'
    <3> DEFINE q == [req[u] EXCEPT !.orphaned = @ \ {k}]
    <3>1. q \in Requests /\ q.at = "uploads"
      BY <1>9 DEF EraseUpload, At, BTypes, BoardsTypeOK, Requests
    <3>2. req' = [req EXCEPT ![u] = q]
      BY <2>1
    <3> HIDE DEF q
    <3> QED BY <3>1, <3>2, RequestTypes
  <2>2. req' \in [Users -> Requests] /\ RequestsHold'
    BY <1>9, <2>1, EndTypes DEF EraseUpload
  <2>3. blob' \in [Keys -> Contents \cup {None}] /\ named' \subseteq Keys
    BY <1>9 DEF EraseUpload, BTypes, BoardsTypeOK
  <2> QED BY <1>9, <2>2, <2>3 DEF EraseUpload, BTypes, BoardsTypeOK
<1> QED BY <1>1, <1>2, <1>3, <1>4, <1>5, <1>6, <1>7, <1>8, <1>9 DEF Delete

\* A row with another status, or a recorded hash, is still a row.
LEMMA RowTypes ==
  ASSUME BTypes
  PROVE  /\ \A r \in runs, s \in {"going", "failed", "done"} :
               LET t == [r EXCEPT !.status = s] IN
               t \in Run /\ t.id = r.id /\ t.board = r.board
         /\ \A b \in boards, c \in Contents :
               LET t == [b EXCEPT !.sha = c] IN
               t \in Board /\ t.id = b.id /\ t.project = b.project /\ t.input = b.input
  BY DEF BTypes, BoardsTypeOK, Run, Board

LEMMA WorkerTypes ==
  ASSUME BTypes, Worker
  PROVE  BTypes'
<1> USE DEF stores, history
<1>1. ASSUME NEW r \in runs, ReadInput(r) PROVE BTypes'
  <2>1. work' \in [RunIds -> Contents \cup {None}]
    BY <1>1 DEF ReadInput, BTypes, BoardsTypeOK, Board
  <2> QED BY <1>1, <2>1 DEF ReadInput, BTypes, BoardsTypeOK, RequestsHold
<1>2. ASSUME NEW r \in runs, CompleteRun(r) PROVE BTypes'
  <2>1. work[r.id] \in Contents
    BY <1>2 DEF CompleteRun, BTypes, BoardsTypeOK, Run
  <2>2. runs' \subseteq Run
    BY <1>2, RowTypes DEF CompleteRun, Finish, BTypes, BoardsTypeOK
  <2>3. boards' \subseteq Board /\ verified' \subseteq Keys \X Contents
    <3>1. CASE r.kind = "ingest"
      <4>1. PICK b \in boards :
              /\ boards' = (boards \ {b}) \cup {[b EXCEPT !.sha = work[r.id]]}
              /\ verified' = verified \cup {<<b.input, work[r.id]>>}
        BY <1>2, <3>1 DEF CompleteRun
      <4>2. [b EXCEPT !.sha = work[r.id]] \in Board
        BY <2>1, RowTypes
      <4>3. b.input \in Keys
        BY DEF BTypes, BoardsTypeOK, Board
      <4> QED BY <2>1, <4>1, <4>2, <4>3 DEF BTypes, BoardsTypeOK
    <3>2. CASE r.kind # "ingest"
      BY <1>2, <3>2 DEF CompleteRun, BTypes, BoardsTypeOK
    <3> QED BY <3>1, <3>2
  <2>4. work' \in [RunIds -> Contents \cup {None}]
    BY <1>2 DEF CompleteRun, BTypes, BoardsTypeOK
  <2> QED BY <1>2, <2>2, <2>3, <2>4 DEF CompleteRun, BTypes, BoardsTypeOK, RequestsHold
<1>3. ASSUME NEW r \in runs, FailRun(r) PROVE BTypes'
  <2>1. runs' \subseteq Run
    BY <1>3, RowTypes DEF FailRun, Finish, BTypes, BoardsTypeOK
  <2> QED BY <1>3, <2>1 DEF FailRun, BTypes, BoardsTypeOK, RequestsHold
<1>4. ASSUME NEW i \in RunIds, PutArtifact(i) PROVE BTypes'
  BY <1>4 DEF PutArtifact, BTypes, BoardsTypeOK, RequestsHold
<1>5. ASSUME NEW i \in RunIds, LeaveRun(i) PROVE BTypes'
  BY <1>5 DEF LeaveRun, BTypes, BoardsTypeOK, RequestsHold
<1> QED BY <1>1, <1>2, <1>3, <1>4, <1>5 DEF Worker

LEMMA NextBTypes == BTypes /\ [BoardsNext]_boardsVars => BTypes'
<1> SUFFICES ASSUME BTypes, [BoardsNext]_boardsVars PROVE BTypes'
  OBVIOUS
<1>1. ASSUME NEW p \in ProjectIds, CreateProject(p) PROVE BTypes'
  BY <1>1 DEF CreateProject, newID, history, BTypes, BoardsTypeOK, RequestsHold, Ids
<1>2. ASSUME NEW u \in Users, Upload(u) \/ Submit(u) \/ Delete(u) PROVE BTypes'
  BY <1>2, UploadTypes, SubmitTypes, DeleteTypes
<1>3. CASE Worker
  BY <1>3, WorkerTypes
<1>4. CASE UNCHANGED boardsVars
  BY <1>4 DEF boardsVars, stores, history, BTypes, BoardsTypeOK, RequestsHold
<1> QED BY <1>1, <1>2, <1>3, <1>4 DEF BoardsNext

LEMMA BTypesHold == BoardsSpec => []BTypes
  BY InitBTypes, NextBTypes, PTL DEF BoardsSpec

\* Every row, request and object has the form its module gives it.
THEOREM BoardsTypeCorrect == BoardsSpec => []BoardsTypeOK
<1>1. BTypes => BoardsTypeOK
  BY DEF BTypes
<1> QED BY <1>1, BTypesHold, PTL

-------------------------------------------------------------------------------
(* The parents of the rows.  Each delete takes the children with the       *)
(* parent, and each insert is refused when the parent is gone.             *)

\* The boards that are left are boards there were, if with a hash.
BoardsKept ==
    \A c \in boards' : \E b \in boards :
        b.id = c.id /\ b.project = c.project /\ b.input = c.input

LEMMA CompletionKeepsBoards ==
  ASSUME BTypes, NEW r \in runs, CompleteRun(r)
  PROVE  BoardsKept /\ \A b \in boards : \E c \in boards' : c.id = b.id
<1>1. CASE r.kind = "ingest"
  <2>1. work[r.id] \in Contents
    BY DEF CompleteRun, BTypes, BoardsTypeOK, Run
  <2>2. PICK b \in boards : boards' = (boards \ {b}) \cup {[b EXCEPT !.sha = work[r.id]]}
    BY <1>1 DEF CompleteRun
  <2> DEFINE n == [b EXCEPT !.sha = work[r.id]]
  <2>3. n.id = b.id /\ n.project = b.project /\ n.input = b.input
    BY <2>1, RowTypes
  <2>4. boards' = (boards \ {b}) \cup {n}
    BY <2>2
  <2> HIDE DEF n
  <2> QED BY <2>3, <2>4 DEF BoardsKept
<1>2. CASE r.kind # "ingest"
  BY <1>2 DEF CompleteRun, BoardsKept
<1> QED BY <1>1, <1>2

\* Rows that are rewritten keep their id and their parent.
LEMMA RewriteKeepsParents ==
  ASSUME BTypes, RowsHaveTheirParents, projects' = projects,
         \A r \in runs' : \E t \in runs : t.board = r.board,
         \A b \in boards : \E c \in boards' : c.id = b.id,
         \A c \in boards' : \E b \in boards : b.project = c.project
  PROVE  RowsHaveTheirParents'
  BY DEF RowsHaveTheirParents, HasBoard

LEMMA SubmitKeepsParents ==
  ASSUME BTypes, RowsHaveTheirParents, NEW u \in Users, Submit(u)
  PROVE  RowsHaveTheirParents'
<1> USE DEF stores
<1>1. CASE StatUpload(u) \/ InsertFails(u)
  BY <1>1 DEF StatUpload, InsertFails, RowsHaveTheirParents, HasBoard
<1>2. ASSUME NEW b \in BoardIds, InsertBoard(u, b) PROVE RowsHaveTheirParents'
  BY <1>2 DEF InsertBoard, RowsHaveTheirParents, HasBoard
<1>3. ASSUME NEW b \in boards, NEW kind, CheckBoard(u, b, kind) PROVE RowsHaveTheirParents'
  BY <1>3 DEF CheckBoard, RowsHaveTheirParents, HasBoard
<1>4. ASSUME NEW r \in RunIds, CreateRun(u, r) PROVE RowsHaveTheirParents'
  BY <1>4 DEF CreateRun, RowsHaveTheirParents, HasBoard
<1>5. ASSUME NEW r \in runs, RetryRun(u, r) PROVE RowsHaveTheirParents'
  BY <1>5, RowTypes, RewriteKeepsParents DEF RetryRun
<1> QED BY <1>1, <1>2, <1>3, <1>4, <1>5 DEF Submit

LEMMA DeleteKeepsParents ==
  ASSUME BTypes, RowsHaveTheirParents, NEW u \in Users, Delete(u)
  PROVE  RowsHaveTheirParents'
<1> USE DEF stores
<1>1. CASE DeleteBoard(u)
  BY <1>1 DEF DeleteBoard, RowsHaveTheirParents, HasBoard, RunsOn
<1>2. CASE DeleteProject(u)
  BY <1>2 DEF DeleteProject, RowsHaveTheirParents, HasBoard, RunsOn, ListBoards
<1>3. CASE UNCHANGED <<projects, boards, runs>>
  BY <1>3 DEF RowsHaveTheirParents, HasBoard
<1> QED BY <1>1, <1>2, <1>3 DEF Delete, ListVersions, ListRunsOfProject, ListRunsOnVersion,
           ListBoardsOfProject, CountSharing, EraseRuns, EraseUpload

LEMMA WorkerKeepsParents ==
  ASSUME BTypes, RowsHaveTheirParents, Worker
  PROVE  RowsHaveTheirParents'
<1> USE DEF stores
<1>1. ASSUME NEW r \in runs, CompleteRun(r) PROVE RowsHaveTheirParents'
  <2>1. \A s \in runs' : \E t \in runs : t.board = s.board
    BY <1>1, RowTypes DEF CompleteRun, Finish
  <2>2. /\ \A b \in boards : \E c \in boards' : c.id = b.id
        /\ \A c \in boards' : \E b \in boards : b.project = c.project
    BY <1>1, CompletionKeepsBoards DEF BoardsKept
  <2> QED BY <1>1, <2>1, <2>2, RewriteKeepsParents DEF CompleteRun
<1>2. ASSUME NEW r \in runs, FailRun(r) PROVE RowsHaveTheirParents'
  BY <1>2, RowTypes, RewriteKeepsParents DEF FailRun, Finish
<1>3. CASE UNCHANGED <<projects, boards, runs>>
  BY <1>3 DEF RowsHaveTheirParents, HasBoard
<1> QED BY <1>1, <1>2, <1>3 DEF Worker, ReadInput, PutArtifact, LeaveRun

LEMMA NextParents == BTypes /\ RowsHaveTheirParents /\ [BoardsNext]_boardsVars => RowsHaveTheirParents'
<1> SUFFICES ASSUME BTypes, RowsHaveTheirParents, [BoardsNext]_boardsVars PROVE RowsHaveTheirParents'
  OBVIOUS
<1>1. ASSUME NEW p \in ProjectIds, CreateProject(p) PROVE RowsHaveTheirParents'
  BY <1>1 DEF CreateProject, RowsHaveTheirParents, HasBoard
<1>2. ASSUME NEW u \in Users, Upload(u) PROVE RowsHaveTheirParents'
  BY <1>2 DEF Upload, ReuseUpload, Held, SignUpload, PutUpload, Abandon, stores,
              RowsHaveTheirParents, HasBoard
<1>3. ASSUME NEW u \in Users, Submit(u) \/ Delete(u) PROVE RowsHaveTheirParents'
  BY <1>3, SubmitKeepsParents, DeleteKeepsParents
<1>4. CASE Worker
  BY <1>4, WorkerKeepsParents
<1>5. CASE UNCHANGED boardsVars
  BY <1>5 DEF boardsVars, stores, RowsHaveTheirParents, HasBoard
<1> QED BY <1>1, <1>2, <1>3, <1>4, <1>5 DEF BoardsNext

\* Every run has its board and every board its project, however submissions
\* and deletions interleave.
THEOREM RowsKeepTheirParents == BoardsSpec => []RowsHaveTheirParents
<1>1. BoardsInit => RowsHaveTheirParents
  BY DEF BoardsInit, RowsHaveTheirParents
<1> QED BY <1>1, NextParents, BTypesHold, PTL DEF BoardsSpec

-------------------------------------------------------------------------------
(* Uploads.  What a deletion under way knows of the boards, at each of its *)
(* places: the boards it does not know of are recorded as exposed.         *)

\* Ids are handed out once: one id, one board.
IdsOnce ==
    /\ \A b \in boards : b.id \in used
    /\ \A b, c \in boards : b.id = c.id => b.input = c.input

\* What was listed may be gone by now, but is not another board.
ListingHolds(q) ==
    /\ \A l \in q.listed : l.id \in used
    /\ \A l \in q.listed, b \in boards : l.id = b.id => l.input = b.input

\* Before the count, a deletion has listed the boards of its project that
\* name what it is to remove.
Listed(q) ==
    q.at \in {"versions", "checked"} =>
        \A b \in boards :
            /\ b.project = q.project /\ b.id \notin exposed
            /\ \E d \in Doomed(q) : d.input = b.input
            => \E l \in q.listed : l.id = b.id

\* After it, only boards whose rows it is to delete name the orphaned keys.
Condemned(q) ==
    q.at = "deleting" =>
        \A b \in boards :
            b.input \in q.orphaned /\ b.id \notin exposed
            => IF q.board = None THEN b.project = q.project ELSE b.id = q.board

\* After the rows are deleted, no board names them.
Unnamed(q) ==
    q.at \in {"erasing", "uploads"} =>
        \A b \in boards : b.input \in q.orphaned => b.id \in exposed

Plan(q) ==
    /\ ListingHolds(q)
    /\ Listed(q)
    /\ Condemned(q)
    /\ Unnamed(q)
    /\ q.at \notin {"deleting", "erasing", "uploads"} => q.orphaned = {}

UploadInv ==
    /\ IsFiniteSet(boards)
    /\ IdsOnce
    /\ UploadStays
    /\ \A u \in Users : Plan(req[u])

\* Ids and exposures are only ever added.
Grows == used \subseteq used' /\ exposed \subseteq exposed'

\* A deletion that does not move keeps its plan while no board is added.
LEMMA PlanKept ==
  ASSUME NEW v \in Users, Plan(req[v]), BoardsKept, Grows, req'[v] = req[v]
  PROVE  Plan(req[v])'
<1> DEFINE q == req[v]
<1>1. ListingHolds(q)'
  BY DEF Plan, ListingHolds, BoardsKept, Grows
<1>2. Listed(q)'
  BY DEF Plan, Listed, Doomed, BoardsKept, Grows
<1>3. Condemned(q)'
  BY DEF Plan, Condemned, BoardsKept, Grows
<1>4. Unnamed(q)'
  BY DEF Plan, Unnamed, BoardsKept, Grows
<1> QED BY <1>1, <1>2, <1>3, <1>4 DEF Plan

\* A request that is not deleting has no plan to keep.
LEMMA PlanElsewhere ==
  ASSUME NEW u \in Users, Plan(req[u]), BoardsKept, Grows,
         req'[u].listed = req[u].listed \/ req'[u].listed = {},
         req'[u].orphaned = {}, req'[u].at \notin {"versions", "checked"}
  PROVE  Plan(req[u])'
  BY DEF Plan, ListingHolds, Listed, Condemned, Unnamed, BoardsKept, Grows

\* What does not concern the plans is kept by any step that adds no board and
\* takes no object.
LEMMA RowsStay ==
  ASSUME UploadInv, BoardsKept, Grows, boards' \subseteq boards \/ IsFiniteSet(boards'),
         \A b \in boards : blob'[b.input] = None => blob[b.input] = None \/ b.id \in exposed
  PROVE  /\ IsFiniteSet(boards)'
         /\ IdsOnce'
         /\ UploadStays'
<1>1. IsFiniteSet(boards)'
  BY FS_Subset DEF UploadInv
<1>2. IdsOnce'
  BY DEF UploadInv, IdsOnce, BoardsKept, Grows
<1>3. UploadStays'
  BY DEF UploadInv, UploadStays, BoardsKept, Grows
<1> QED BY <1>1, <1>2, <1>3

\* A step of u's request: the plans of the others stay, u's is to be shown.
LEMMA OwnPlan ==
  ASSUME BTypes, UploadInv, BoardsKept, Grows, NEW u \in Users,
         NEW q, req' = [req EXCEPT ![u] = q], Plan(req[u])',
         boards' \subseteq boards \/ IsFiniteSet(boards'),
         \A b \in boards : blob'[b.input] = None => blob[b.input] = None \/ b.id \in exposed
  PROVE  UploadInv'
<1>1. ASSUME NEW v \in Users PROVE Plan(req[v])'
  <2>1. CASE v = u
    BY <2>1
  <2>2. CASE v # u
    BY <2>2, PlanKept DEF BTypes, BoardsTypeOK, UploadInv
  <2> QED BY <2>1, <2>2
<1> QED BY <1>1, RowsStay DEF UploadInv

\* A request ends or goes on, and has nothing to delete.
LEMMA NoPlan ==
  ASSUME BTypes, UploadInv, BoardsKept, Grows, NEW u \in Users,
         NEW q, req' = [req EXCEPT ![u] = q],
         q.listed = req[u].listed \/ q.listed = {},
         q.orphaned = {}, q.at \notin {"versions", "checked"},
         boards' \subseteq boards \/ IsFiniteSet(boards'),
         \A b \in boards : blob'[b.input] = None => blob[b.input] = None \/ b.id \in exposed
  PROVE  UploadInv'
<1>1. req'[u] = q
  BY DEF BTypes, BoardsTypeOK
<1>2. Plan(req[u])'
  BY <1>1, PlanElsewhere DEF UploadInv
<1> QED BY <1>2, OwnPlan

\* No request moves.
LEMMA NoRequestMoves ==
  ASSUME UploadInv, BoardsKept, Grows, req' = req, blob' = blob,
         boards' \subseteq boards \/ IsFiniteSet(boards')
  PROVE  UploadInv'
  BY PlanKept, RowsStay DEF UploadInv

LEMMA EndsPlan ==
  ASSUME BTypes, UploadInv, BoardsKept, Grows, NEW u \in Users, End(u), blob' = blob,
         boards' \subseteq boards \/ IsFiniteSet(boards')
  PROVE  UploadInv'
<1>1. NoRequest.listed = {} /\ NoRequest.orphaned = {} /\ NoRequest.at = "idle"
  BY DEF NoRequest
<1>2. req' = [req EXCEPT ![u] = NoRequest]
  BY DEF End
<1> QED BY <1>1, <1>2, NoPlan

LEMMA UploadKeeps ==
  ASSUME BTypes, UploadInv, NEW u \in Users, Upload(u)
  PROVE  UploadInv'
<1>1. BoardsKept /\ Grows /\ boards' = boards
  BY DEF Upload, ReuseUpload, Held, SignUpload, PutUpload, Abandon, stores, history,
         BoardsKept, Grows, newID
<1>2. ASSUME NEW p, NEW claim, ReuseUpload(u, p, claim) PROVE UploadInv'
  <2>1. PICK b \in FindBoardByContent(claim) : Held(u, p, b.input, claim)
    BY <1>2 DEF ReuseUpload
  <2> DEFINE q == [NoRequest EXCEPT
           !.at = "uploaded", !.project = p, !.key = b.input, !.claim = claim]
  <2>2. req' = [req EXCEPT ![u] = q] /\ blob' = blob
    BY <2>1 DEF Held, stores
  <2>3. q.listed = {} /\ q.orphaned = {} /\ q.at = "uploaded"
    BY DEF NoRequest
  <2> HIDE DEF q
  <2> QED BY <1>1, <2>2, <2>3, NoPlan
<1>3. ASSUME NEW p, NEW c, NEW claim, SignUpload(u, p, c, claim) PROVE UploadInv'
  <2>1. PICK key : req' = [req EXCEPT ![u] = [NoRequest EXCEPT
               !.at = "url", !.project = p, !.key = key, !.bytes = c]]
    BY <1>3 DEF SignUpload
  <2> DEFINE q == [NoRequest EXCEPT
           !.at = "url", !.project = p, !.key = key, !.bytes = c]
  <2>2. req' = [req EXCEPT ![u] = q] /\ blob' = blob
    BY <1>3, <2>1 DEF SignUpload, stores
  <2>3. q.listed = {} /\ q.orphaned = {} /\ q.at = "url"
    BY DEF NoRequest
  <2> HIDE DEF q
  <2> QED BY <1>1, <2>2, <2>3, NoPlan
<1>4. CASE PutUpload(u)
  <2> DEFINE q == [req[u] EXCEPT !.at = "uploaded"]
  <2>1. req' = [req EXCEPT ![u] = q]
    BY <1>4 DEF PutUpload, Now
  <2>2. q.listed = req[u].listed /\ q.orphaned = req[u].orphaned /\ q.at = "uploaded"
    BY DEF BTypes, BoardsTypeOK, Requests
  <2>3. req[u].orphaned = {}
    BY <1>4 DEF PutUpload, At, UploadInv, Plan
  <2>4. req[u].bytes # None
    BY <1>4, BoardsAssumption DEF PutUpload, At, BTypes, RequestsHold
  <2>5. \A b \in boards : blob'[b.input] = None => blob[b.input] = None
    BY <1>4, <2>4 DEF PutUpload, BTypes, BoardsTypeOK
  <2> HIDE DEF q
  <2> QED BY <1>1, <2>1, <2>2, <2>3, <2>5, NoPlan
<1>5. CASE Abandon(u)
  BY <1>1, <1>5, EndsPlan DEF Abandon, stores
<1> QED BY <1>2, <1>3, <1>4, <1>5 DEF Upload

\* A board recorded under a plan that does not know of it is exposed.
LEMMA InsertKeeps ==
  ASSUME BTypes, UploadInv, NEW u \in Users, NEW b \in BoardIds, InsertBoard(u, b)
  PROVE  UploadInv'
<1> DEFINE n == [id |-> b, project |-> req[u].project, input |-> req[u].key, sha |-> None]
           q == [req[u] EXCEPT !.at = "queueing", !.board = b]
<1>1. /\ boards' = boards \cup {n} /\ blob' = blob
      /\ n.id = b /\ n.input = req[u].key /\ n.project = req[u].project
      /\ b \notin used /\ used' = used \cup {b} /\ exposed \subseteq exposed'
      /\ exposed' \subseteq exposed \cup {b}
      /\ Threatened(n.input, n.project) \/ blob[n.input] = None => b \in exposed'
  BY DEF InsertBoard, newID
<1>2. req' = [req EXCEPT ![u] = q]
  BY DEF InsertBoard
<1>3. q.listed = req[u].listed /\ q.orphaned = {} /\ q.at = "queueing"
  BY DEF BTypes, BoardsTypeOK, Requests, InsertBoard, At, UploadInv, Plan
<1> HIDE DEF n, q
<1>4. Plan(req[u])'
  <2>1. req'[u] = q
    BY <1>2 DEF BTypes, BoardsTypeOK
  <2>2. ListingHolds(req[u])'
    BY <1>1, <1>3, <2>1 DEF UploadInv, Plan, ListingHolds
  <2> QED BY <1>3, <2>1, <2>2 DEF Plan, Listed, Condemned, Unnamed
<1>5. ASSUME NEW v \in Users, v # u PROVE Plan(req[v])'
  <2> DEFINE w == req[v]
  <2>1. req'[v] = w /\ Plan(w)
    BY <1>2, <1>5 DEF BTypes, BoardsTypeOK, UploadInv
  <2>2. \/ n.input \in w.orphaned
        \/ /\ w.at \in {"versions", "checked"} /\ w.project = n.project
           /\ \E d \in Doomed(w) : d.input = n.input
        => b \in exposed'
    BY <1>1 DEF Threatened
  <2>3. ListingHolds(req[v])'
    BY <1>1, <2>1 DEF Plan, ListingHolds
  <2>4. Listed(req[v])'
    BY <1>1, <2>1, <2>2 DEF Plan, Listed, Doomed
  <2>5. Condemned(req[v])'
    BY <1>1, <2>1, <2>2 DEF Plan, Condemned
  <2>6. Unnamed(req[v])'
    BY <1>1, <2>1, <2>2 DEF Plan, Unnamed
  <2> QED BY <2>1, <2>3, <2>4, <2>5, <2>6 DEF Plan
<1>6. IsFiniteSet(boards)'
  BY <1>1, FS_AddElement DEF UploadInv
<1>7. IdsOnce'
  BY <1>1 DEF UploadInv, IdsOnce
<1>8. UploadStays'
  BY <1>1 DEF UploadInv, UploadStays
<1> QED BY <1>4, <1>5, <1>6, <1>7, <1>8 DEF UploadInv

LEMMA SubmitKeeps ==
  ASSUME BTypes, UploadInv, NEW u \in Users, Submit(u)
  PROVE  UploadInv'
<1> USE DEF stores, history
<1>1. CASE StatUpload(u)
  <2>1. BoardsKept /\ Grows /\ boards' = boards /\ blob' = blob
    BY <1>1 DEF StatUpload, BoardsKept, Grows
  <2>2. CASE Now(u, "creating")
    <3> DEFINE q == [req[u] EXCEPT !.at = "creating"]
    <3>1. req' = [req EXCEPT ![u] = q]
      BY <2>2 DEF Now
    <3>2. q.listed = req[u].listed /\ q.orphaned = {} /\ q.at = "creating"
      BY <1>1 DEF BTypes, BoardsTypeOK, Requests, StatUpload, At, UploadInv, Plan
    <3> HIDE DEF q
    <3> QED BY <2>1, <3>1, <3>2, NoPlan
  <2>3. CASE End(u)
    BY <2>1, <2>3, EndsPlan
  <2> QED BY <1>1, <2>2, <2>3 DEF StatUpload
<1>2. CASE InsertFails(u)
  BY <1>2, EndsPlan DEF InsertFails, BoardsKept, Grows
<1>3. ASSUME NEW b \in BoardIds, InsertBoard(u, b) PROVE UploadInv'
  BY <1>3, InsertKeeps
<1>4. ASSUME NEW b \in boards, NEW kind, CheckBoard(u, b, kind) PROVE UploadInv'
  <2> DEFINE q == [NoRequest EXCEPT !.at = "queueing", !.board = b.id, !.kind = kind]
  <2>1. req' = [req EXCEPT ![u] = q] /\ boards' = boards /\ blob' = blob /\ BoardsKept /\ Grows
    BY <1>4 DEF CheckBoard, BoardsKept, Grows
  <2>2. q.listed = {} /\ q.orphaned = {} /\ q.at = "queueing"
    BY DEF NoRequest
  <2> HIDE DEF q
  <2> QED BY <2>1, <2>2, NoPlan
<1>5. ASSUME NEW r \in RunIds, CreateRun(u, r) PROVE UploadInv'
  BY <1>5, EndsPlan DEF CreateRun, BoardsKept, Grows, newID
<1>6. ASSUME NEW r \in runs, RetryRun(u, r) PROVE UploadInv'
  BY <1>6, NoRequestMoves DEF RetryRun, BoardsKept, Grows
<1> QED BY <1>1, <1>2, <1>3, <1>4, <1>5, <1>6 DEF Submit

\* The count: a key is orphaned only if no board outside the deletion, among
\* those it knows of, names it.
LEMMA CountKeeps ==
  ASSUME BTypes, UploadInv, NEW u \in Users, CountSharing(u)
  PROVE  UploadInv'
<1> DEFINE o == req[u]
           q == [o EXCEPT !.at = "deleting", !.orphaned = Orphaned(o)]
<1>1. boards' = boards /\ blob' = blob /\ exposed' = exposed /\ used' = used
  BY DEF CountSharing, stores, history
<1>2. req' = [req EXCEPT ![u] = q] /\ o.at = "checked"
  BY DEF CountSharing, At
<1>3. /\ q.listed = o.listed /\ q.orphaned = Orphaned(o) /\ q.at = "deleting"
      /\ q.project = o.project /\ q.board = o.board
  BY DEF BTypes, BoardsTypeOK, Requests
<1>4. Plan(o)
  BY DEF UploadInv
<1> HIDE DEF q
<1>5. \A b \in boards :
         b.input \in Orphaned(o) /\ b.id \notin exposed
         => IF o.board = None THEN b.project = o.project ELSE b.id = o.board
  <2> SUFFICES ASSUME NEW b \in boards, b.input \in Orphaned(o), b.id \notin exposed
               PROVE  IF o.board = None THEN b.project = o.project ELSE b.id = o.board
    OBVIOUS
  <2>1. b.project = o.project
    <3> DEFINE S == {c \in boards : c.input = b.input /\ c.project # o.project}
    <3>1. Cardinality(S) = 0
      BY DEF Orphaned, CountBoardsSharingInput
    <3>2. IsFiniteSet(S)
      BY FS_Subset DEF UploadInv
    <3>3. S = {}
      BY <3>1, <3>2, FS_EmptySet
    <3> QED BY <3>3
  <2>2. \E d \in Doomed(o) : d.input = b.input
    BY DEF Orphaned
  <2>3. PICK l \in o.listed : l.id = b.id
    BY <1>2, <1>4, <2>1, <2>2 DEF Plan, Listed
  <2>4. l.input = b.input
    BY <1>4, <2>3 DEF Plan, ListingHolds
  <2>5. l \in Doomed(o)
    BY <2>4 DEF Orphaned
  <2> QED BY <2>1, <2>3, <2>5 DEF Doomed
<1>6. req'[u] = q
  BY <1>2 DEF BTypes, BoardsTypeOK
<1>7. Plan(req[u])'
  BY <1>1, <1>3, <1>4, <1>5, <1>6 DEF Plan, ListingHolds, Listed, Condemned, Unnamed
<1> QED BY <1>1, <1>2, <1>7, OwnPlan DEF BoardsKept, Grows

\* The rows are deleted: what is left names no orphaned key, or is exposed.
LEMMA RowsGoKeeps ==
  ASSUME BTypes, UploadInv, NEW u \in Users, DeleteBoard(u) \/ DeleteProject(u)
  PROVE  UploadInv'
<1>1. boards' \subseteq boards /\ blob' = blob /\ exposed' = exposed /\ used' = used
  BY DEF DeleteBoard, DeleteProject, history
<1>2. BoardsKept /\ Grows
  BY <1>1 DEF BoardsKept, Grows
<1>3. CASE End(u)
  BY <1>1, <1>2, <1>3, EndsPlan
<1>4. CASE Now(u, "erasing") /\
           \A b \in boards' : IF req[u].board = None THEN b.project # req[u].project
                                                     ELSE b.id # req[u].board
  <2> DEFINE q == [req[u] EXCEPT !.at = "erasing"]
  <2>1. req' = [req EXCEPT ![u] = q]
    BY <1>4 DEF Now
  <2>2. q.listed = req[u].listed /\ q.orphaned = req[u].orphaned /\ q.at = "erasing"
    BY DEF BTypes, BoardsTypeOK, Requests
  <2>3. req[u].at = "deleting" /\ Plan(req[u])
    BY DEF DeleteBoard, DeleteProject, At, UploadInv
  <2>4. req'[u] = q
    BY <2>1 DEF BTypes, BoardsTypeOK
  <2> HIDE DEF q
  <2>5. \A b \in boards' : b.input \in q.orphaned => b.id \in exposed'
    BY <1>1, <1>4, <2>2, <2>3 DEF Plan, Condemned
  <2>6. ListingHolds(req[u])'
    BY <1>1, <2>2, <2>3, <2>4 DEF Plan, ListingHolds
  <2>7. Plan(req[u])'
    BY <2>2, <2>4, <2>5, <2>6 DEF Plan, Listed, Condemned, Unnamed
  <2> QED BY <1>1, <1>2, <2>1, <2>7, OwnPlan
<1>5. CASE DeleteBoard(u)
  BY <1>3, <1>4, <1>5 DEF DeleteBoard
<1>6. CASE DeleteProject(u)
  BY <1>3, <1>4, <1>6 DEF DeleteProject, ListBoards
<1> QED BY <1>5, <1>6

\* Only an object that no board outside `exposed` names is taken away.
LEMMA EraseKeeps ==
  ASSUME BTypes, UploadInv, NEW u \in Users, EraseUpload(u)
  PROVE  UploadInv'
<1>1. boards' = boards /\ BoardsKept /\ Grows /\ req[u].at = "uploads" /\ Plan(req[u])
  BY DEF EraseUpload, At, UploadInv, BoardsKept, Grows
<1>2. ASSUME NEW k \in req[u].orphaned, blob' = [blob EXCEPT ![k] = None],
             req' = [req EXCEPT ![u].orphaned = @ \ {k}]
      PROVE  UploadInv'
  <2> DEFINE q == [req[u] EXCEPT !.orphaned = @ \ {k}]
  <2>1. req' = [req EXCEPT ![u] = q]
    BY <1>2
  <2>2. q.listed = req[u].listed /\ q.orphaned \subseteq req[u].orphaned /\ q.at = "uploads"
    BY <1>1 DEF BTypes, BoardsTypeOK, Requests
  <2>3. req'[u] = q
    BY <2>1 DEF BTypes, BoardsTypeOK
  <2>4. \A b \in boards : blob'[b.input] = None => blob[b.input] = None \/ b.id \in exposed
    BY <1>1, <1>2 DEF Plan, Unnamed, BTypes, BoardsTypeOK, Board
  <2> HIDE DEF q
  <2>5. ListingHolds(req[u])'
    BY <1>1, <2>2, <2>3 DEF Plan, ListingHolds, Grows
  <2>6. Unnamed(req[u])'
    BY <1>1, <2>2, <2>3 DEF Plan, Unnamed, Grows
  <2>7. Plan(req[u])'
    BY <2>2, <2>3, <2>5, <2>6 DEF Plan, Listed, Condemned
  <2> QED BY <1>1, <2>1, <2>4, <2>7, OwnPlan
<1>3. CASE End(u) /\ blob' = blob
  BY <1>1, <1>3, EndsPlan
<1> QED BY <1>2, <1>3 DEF EraseUpload

\* The boards of a project, as they are now, are a listing that holds.
LEMMA ListingKeeps ==
  ASSUME BTypes, UploadInv, NEW u \in Users, NEW q, req' = [req EXCEPT ![u] = q],
         boards' = boards, blob' = blob, Grows, exposed' = exposed,
         q.listed = ListBoards(q.project), q.orphaned = {}, q.at \in {"versions", "checked"}
  PROVE  UploadInv'
<1>1. req'[u] = q
  BY DEF BTypes, BoardsTypeOK
<1>2. ListingHolds(req[u])'
  BY <1>1 DEF ListingHolds, ListBoards, UploadInv, IdsOnce, Grows
<1>3. Listed(req[u])'
  BY <1>1 DEF Listed, ListBoards
<1>4. Plan(req[u])'
  BY <1>1, <1>2, <1>3 DEF Plan, Condemned, Unnamed
<1> QED BY <1>4, OwnPlan DEF BoardsKept

LEMMA DeleteKeeps ==
  ASSUME BTypes, UploadInv, NEW u \in Users, Delete(u)
  PROVE  UploadInv'
<1> USE DEF stores, history
<1>1. ASSUME NEW b \in boards, ListVersions(u, b) PROVE UploadInv'
  <2> DEFINE q == [NoRequest EXCEPT !.at = "versions",
           !.project = b.project, !.board = b.id, !.listed = ListBoards(b.project)]
  <2>1. /\ req' = [req EXCEPT ![u] = q] /\ boards' = boards /\ blob' = blob
        /\ exposed' = exposed /\ Grows
    BY <1>1 DEF ListVersions, Grows
  <2>2. q.listed = ListBoards(q.project) /\ q.orphaned = {} /\ q.at = "versions"
    BY DEF NoRequest
  <2> HIDE DEF q
  <2> QED BY <2>1, <2>2, ListingKeeps
<1>2. ASSUME NEW p, ListRunsOfProject(u, p) PROVE UploadInv'
  <2> DEFINE q == [NoRequest EXCEPT !.at = "runs",
           !.project = p, !.runs = RunIdsOf(RunsOn(ListBoards(p)))]
  <2>1. req' = [req EXCEPT ![u] = q] /\ boards' = boards /\ blob' = blob /\ BoardsKept /\ Grows
    BY <1>2 DEF ListRunsOfProject, BoardsKept, Grows
  <2>2. q.listed = {} /\ q.orphaned = {} /\ q.at = "runs"
    BY DEF NoRequest
  <2> HIDE DEF q
  <2> QED BY <2>1, <2>2, NoPlan
<1>3. CASE ListRunsOnVersion(u)
  <2> DEFINE mine == RunsOn(Doomed(req[u]))
             q == [req[u] EXCEPT !.at = "checked", !.runs = RunIdsOf(mine)]
  <2>1. /\ boards' = boards /\ blob' = blob /\ BoardsKept /\ Grows /\ exposed' = exposed
        /\ req[u].at = "versions" /\ Plan(req[u])
    BY <1>3 DEF ListRunsOnVersion, BoardsKept, Grows, At, UploadInv
  <2>2. CASE End(u)
    BY <2>1, <2>2, EndsPlan
  <2>3. CASE req' = [req EXCEPT ![u] = q]
    <3>1. /\ q.listed = req[u].listed /\ q.orphaned = req[u].orphaned /\ q.at = "checked"
          /\ q.project = req[u].project /\ q.board = req[u].board
      BY DEF BTypes, BoardsTypeOK, Requests
    <3>2. req'[u] = q
      BY <2>3 DEF BTypes, BoardsTypeOK
    <3> HIDE DEF q
    <3>3. Plan(req[u])'
      BY <2>1, <3>1, <3>2 DEF Plan, ListingHolds, Listed, Doomed, Condemned, Unnamed, Grows
    <3> QED BY <2>1, <2>3, <3>3, OwnPlan
  <2> QED BY <1>3, <2>2, <2>3 DEF ListRunsOnVersion
<1>4. CASE ListBoardsOfProject(u)
  <2> DEFINE q == [req[u] EXCEPT !.at = "checked", !.listed = ListBoards(req[u].project)]
  <2>1. /\ req' = [req EXCEPT ![u] = q] /\ boards' = boards /\ blob' = blob
        /\ exposed' = exposed /\ Grows
    BY <1>4 DEF ListBoardsOfProject, Grows
  <2>2. q.listed = ListBoards(q.project) /\ q.orphaned = {} /\ q.at = "checked"
    BY <1>4 DEF BTypes, BoardsTypeOK, Requests, ListBoardsOfProject, At, UploadInv, Plan
  <2> HIDE DEF q
  <2> QED BY <2>1, <2>2, ListingKeeps
<1>5. CASE CountSharing(u)
  BY <1>5, CountKeeps
<1>6. CASE DeleteBoard(u) \/ DeleteProject(u)
  BY <1>6, RowsGoKeeps
<1>7. CASE EraseRuns(u)
  <2> DEFINE q == [req[u] EXCEPT !.at = "uploads"]
  <2>1. /\ req' = [req EXCEPT ![u] = q] /\ boards' = boards /\ blob' = blob
        /\ BoardsKept /\ Grows /\ exposed' = exposed
        /\ req[u].at = "erasing" /\ Plan(req[u])
    BY <1>7 DEF EraseRuns, Now, At, BoardsKept, Grows, UploadInv
  <2>2. q.listed = req[u].listed /\ q.orphaned = req[u].orphaned /\ q.at = "uploads"
    BY DEF BTypes, BoardsTypeOK, Requests
  <2>3. req'[u] = q
    BY <2>1 DEF BTypes, BoardsTypeOK
  <2> HIDE DEF q
  <2>4. Plan(req[u])'
    BY <2>1, <2>2, <2>3 DEF Plan, ListingHolds, Listed, Condemned, Unnamed, Grows
  <2> QED BY <2>1, <2>4, OwnPlan
<1>8. CASE EraseUpload(u)
  BY <1>8, EraseKeeps
<1> QED BY <1>1, <1>2, <1>3, <1>4, <1>5, <1>6, <1>7, <1>8 DEF Delete

LEMMA WorkerKeeps ==
  ASSUME BTypes, UploadInv, Worker
  PROVE  UploadInv'
<1> USE DEF stores, history
<1>1. ASSUME NEW r \in runs, CompleteRun(r) PROVE UploadInv'
  <2>1. IsFiniteSet(boards')
    <3>1. CASE r.kind = "ingest"
      <4>1. PICK b \in boards : boards' = (boards \ {b}) \cup {[b EXCEPT !.sha = work[r.id]]}
        BY <1>1, <3>1 DEF CompleteRun
      <4>2. IsFiniteSet(boards \ {b})
        BY FS_RemoveElement DEF UploadInv
      <4> QED BY <4>1, <4>2, FS_AddElement
    <3>2. CASE r.kind # "ingest"
      BY <1>1, <3>2 DEF CompleteRun, UploadInv
    <3> QED BY <3>1, <3>2
  <2> QED BY <1>1, <2>1, CompletionKeepsBoards, NoRequestMoves DEF CompleteRun, Grows
<1>2. CASE UNCHANGED <<boards, blob, req, used, exposed>>
  BY <1>2, NoRequestMoves DEF BoardsKept, Grows
<1> QED BY <1>1, <1>2 DEF Worker, ReadInput, FailRun, PutArtifact, LeaveRun

LEMMA NextKeeps == BTypes /\ UploadInv /\ [BoardsNext]_boardsVars => UploadInv'
<1> SUFFICES ASSUME BTypes, UploadInv, [BoardsNext]_boardsVars PROVE UploadInv'
  OBVIOUS
<1>1. ASSUME NEW p \in ProjectIds, CreateProject(p) PROVE UploadInv'
  BY <1>1, NoRequestMoves DEF CreateProject, newID, history, BoardsKept, Grows
<1>2. ASSUME NEW u \in Users, Upload(u) \/ Submit(u) \/ Delete(u) PROVE UploadInv'
  BY <1>2, UploadKeeps, SubmitKeeps, DeleteKeeps
<1>3. CASE Worker
  BY <1>3, WorkerKeeps
<1>4. CASE UNCHANGED boardsVars
  BY <1>4, NoRequestMoves DEF boardsVars, stores, history, BoardsKept, Grows
<1> QED BY <1>1, <1>2, <1>3, <1>4 DEF BoardsNext

LEMMA InitUploadInv == BoardsInit => UploadInv
  BY FS_EmptySet DEF BoardsInit, UploadInv, IdsOnce, UploadStays, Plan, ListingHolds,
     Listed, Condemned, Unnamed, NoRequest

\* A deletion takes an upload only from boards it could not have known of,
\* however many projects, versions and deletions there are.
THEOREM UploadsStay == BoardsSpec => []UploadStays
<1>1. UploadInv => UploadStays
  BY DEF UploadInv
<1> QED BY <1>1, InitUploadInv, NextKeeps, BTypesHold, PTL DEF BoardsSpec


-------------------------------------------------------------------------------
(* Held bytes.  A hash is recorded with the object it was read from.       *)

VerifiedInv ==
    /\ \A b \in boards : b.sha # None => <<b.input, b.sha>> \in verified
    /\ \A u \in Users : req[u].at = "url" => req[u].claim = None
    /\ ReuseIsVerified

\* A step of u's request that touches neither boards nor reports.
LEMMA VerifiedElsewhere ==
  ASSUME BTypes, VerifiedInv, UNCHANGED <<boards, verified>>, NEW u \in Users,
         \A v \in Users \ {u} : req'[v] = req[v],
         req'[u] = req[u] \/ req'[u].at \notin {"url", "uploaded"}
           \/ (req'[u].at \in {"url", "uploaded"} /\ req'[u].claim = None)
  PROVE  VerifiedInv'
<1>1. (\A b \in boards : b.sha # None => <<b.input, b.sha>> \in verified)'
  BY DEF VerifiedInv
<1>2. ASSUME NEW v \in Users
      PROVE  /\ req'[v].at = "url" => req'[v].claim = None
             /\ req'[v].at = "uploaded" /\ req'[v].claim # None => <<req'[v].key, req'[v].claim>> \in verified
  BY DEF VerifiedInv, ReuseIsVerified, At
<1> QED BY <1>1, <1>2 DEF VerifiedInv, ReuseIsVerified, At

LEMMA UploadVerified == ASSUME BTypes, VerifiedInv, NEW u \in Users, Upload(u) PROVE VerifiedInv'
<1> USE DEF stores, history
<1>0. req \in [Users -> Requests]
  BY DEF BTypes, BoardsTypeOK
<1>1. ASSUME NEW p \in ProjectIds, NEW claim \in Claims \cup {None}, ReuseUpload(u, p, claim)
      PROVE  VerifiedInv'
  <2>1. PICK b \in FindBoardByContent(claim) : Held(u, p, b.input, claim)
    BY <1>1 DEF ReuseUpload
  <2>2. <<b.input, claim>> \in verified
    BY <2>1 DEF FindBoardByContent, VerifiedInv
  <2> DEFINE q == [NoRequest EXCEPT !.at = "uploaded", !.project = p, !.key = b.input, !.claim = claim]
  <2>3. q.at = "uploaded" /\ q.key = b.input /\ q.claim = claim
    BY DEF NoRequest
  <2>4. req' = [req EXCEPT ![u] = q] /\ UNCHANGED <<boards, verified>>
    BY <2>1 DEF Held
  <2> HIDE DEF q
  <2>5. \A v \in Users : req'[v] = IF v = u THEN q ELSE req[v]
    BY <1>0, <2>4
  <2> QED BY <2>2, <2>3, <2>4, <2>5 DEF VerifiedInv, ReuseIsVerified, At
<1>2. ASSUME NEW p \in ProjectIds, NEW c \in Contents, NEW claim \in Claims \cup {None},
             SignUpload(u, p, c, claim)
      PROVE  VerifiedInv'
  <2>1. PICK key \in Keys : req' = [req EXCEPT ![u] = [NoRequest EXCEPT
                 !.at = "url", !.project = p, !.key = key, !.bytes = c]]
    BY <1>2 DEF SignUpload
  <2> DEFINE q == [NoRequest EXCEPT !.at = "url", !.project = p, !.key = key, !.bytes = c]
  <2>2. q.at = "url" /\ q.claim = None /\ req' = [req EXCEPT ![u] = q]
    BY <2>1 DEF NoRequest
  <2> HIDE DEF q
  <2> QED BY <1>0, <1>2, <2>2, VerifiedElsewhere DEF SignUpload
<1>3. CASE PutUpload(u)
  <2>1. req[u].claim = None /\ req' = [req EXCEPT ![u].at = "uploaded"]
    BY <1>3 DEF PutUpload, At, Now, VerifiedInv
  <2>2. req'[u].claim = None /\ \A v \in Users \ {u} : req'[v] = req[v]
    BY <1>0, <2>1 DEF Requests
  <2>3. req'[u].at = "uploaded"
    BY <1>0, <2>1 DEF Requests
  <2> QED BY <1>3, <2>2, <2>3, VerifiedElsewhere DEF PutUpload
<1>4. CASE Abandon(u)
  BY <1>0, <1>4, NoRequestTyped, VerifiedElsewhere DEF Abandon, End
<1> QED BY <1>1, <1>2, <1>3, <1>4 DEF Upload

\* A request's next place, and the boards, when it submits or deletes.
LEMMA SubmitVerified == ASSUME BTypes, VerifiedInv, NEW u \in Users, Submit(u) PROVE VerifiedInv'
<1> USE DEF stores, history
<1>0. req \in [Users -> Requests]
  BY DEF BTypes, BoardsTypeOK
<1>1. CASE StatUpload(u)
  <2>1. req' = [req EXCEPT ![u].at = "creating"] \/ req' = [req EXCEPT ![u] = NoRequest]
    BY <1>1 DEF StatUpload, Now, End
  <2>2. req'[u].at \notin {"url", "uploaded"} /\ \A v \in Users \ {u} : req'[v] = req[v]
    BY <1>0, <2>1, NoRequestTyped DEF Requests
  <2> QED BY <1>1, <2>2, VerifiedElsewhere DEF StatUpload
<1>2. CASE InsertFails(u)
  BY <1>0, <1>2, NoRequestTyped, VerifiedElsewhere DEF InsertFails, End
<1>3. ASSUME NEW b \in BoardIds, InsertBoard(u, b) PROVE VerifiedInv'
  <2>1. req'[u].at = "queueing" /\ \A v \in Users \ {u} : req'[v] = req[v]
    BY <1>0, <1>3 DEF InsertBoard, Requests
  <2>2. \A c \in boards' : c \in boards \/ c.sha = None
    BY <1>3 DEF InsertBoard
  <2>3. verified' = verified
    BY <1>3 DEF InsertBoard
  <2> QED BY <2>1, <2>2, <2>3 DEF VerifiedInv, ReuseIsVerified, At
<1>4. ASSUME NEW b \in boards, NEW kind \in {"ingest", "solve"}, CheckBoard(u, b, kind) PROVE VerifiedInv'
  <2>1. req'[u].at = "queueing" /\ \A v \in Users \ {u} : req'[v] = req[v]
    BY <1>0, <1>4 DEF CheckBoard, NoRequest
  <2> QED BY <1>4, <2>1, VerifiedElsewhere DEF CheckBoard
<1>5. ASSUME NEW r \in RunIds, CreateRun(u, r) PROVE VerifiedInv'
  BY <1>0, <1>5, NoRequestTyped, VerifiedElsewhere DEF CreateRun, End
<1>6. ASSUME NEW r \in runs, RetryRun(u, r) PROVE VerifiedInv'
  BY <1>6, VerifiedElsewhere DEF RetryRun
<1> QED BY <1>1, <1>2, <1>3, <1>4, <1>5, <1>6 DEF Submit

\* A deletion's request stays one, and its boards are only taken away.
LEMMA DeleteVerified == ASSUME BTypes, VerifiedInv, NEW u \in Users, Delete(u) PROVE VerifiedInv'
<1> USE DEF stores, history
<1>0. req \in [Users -> Requests]
  BY DEF BTypes, BoardsTypeOK
<1>1. /\ boards' \subseteq boards /\ verified' = verified
      /\ \E q : req' = [req EXCEPT ![u] = q] /\ q.at \notin {"url", "uploaded"}
  <2>1. ASSUME NEW b \in boards, ListVersions(u, b)
        PROVE  \E q : req' = [req EXCEPT ![u] = q] /\ q.at \notin {"url", "uploaded"}
    <3>1. [NoRequest EXCEPT !.at = "versions", !.project = b.project, !.board = b.id,
                            !.listed = ListBoards(b.project)].at = "versions"
      BY DEF NoRequest
    <3> QED BY <2>1, <3>1 DEF ListVersions
  <2>2. ASSUME NEW p \in ProjectIds, ListRunsOfProject(u, p)
        PROVE  \E q : req' = [req EXCEPT ![u] = q] /\ q.at \notin {"url", "uploaded"}
    <3>1. [NoRequest EXCEPT !.at = "runs", !.project = p, !.runs = RunIdsOf(RunsOn(ListBoards(p)))].at = "runs"
      BY DEF NoRequest
    <3> QED BY <2>2, <3>1 DEF ListRunsOfProject
  <2>3. ASSUME End(u) PROVE \E q : req' = [req EXCEPT ![u] = q] /\ q.at \notin {"url", "uploaded"}
    <3>1. NoRequest.at \notin {"url", "uploaded"}
      BY NoRequestTyped
    <3> QED BY <2>3, <3>1 DEF End
  <2>4. ASSUME NEW place \in Deletion, Now(u, place)
        PROVE  \E q : req' = [req EXCEPT ![u] = q] /\ q.at \notin {"url", "uploaded"}
    <3>1. [req[u] EXCEPT !.at = place].at = place
      BY <1>0 DEF Requests
    <3> QED BY <2>4, <3>1 DEF Now, Deletion
  <2>5. ASSUME ListRunsOnVersion(u) \/ ListBoardsOfProject(u) \/ CountSharing(u)
        PROVE  \E q : req' = [req EXCEPT ![u] = q] /\ q.at \notin {"url", "uploaded"}
    <3>1. CASE ListRunsOnVersion(u)
      <4> DEFINE q == [req[u] EXCEPT !.at = "checked", !.runs = RunIdsOf(RunsOn(Doomed(req[u])))]
      <4>1. q.at = "checked"
        BY <1>0 DEF Requests
      <4>2. End(u) \/ req' = [req EXCEPT ![u] = q]
        BY <3>1 DEF ListRunsOnVersion
      <4> HIDE DEF q
      <4> QED BY <2>3, <4>1, <4>2
    <3>2. CASE ListBoardsOfProject(u)
      <4> DEFINE q == [req[u] EXCEPT !.at = "checked", !.listed = ListBoards(req[u].project)]
      <4>1. q.at = "checked"
        BY <1>0 DEF Requests
      <4>2. req' = [req EXCEPT ![u] = q]
        BY <3>2 DEF ListBoardsOfProject
      <4> HIDE DEF q
      <4> QED BY <4>1, <4>2
    <3>3. CASE CountSharing(u)
      <4> DEFINE q == [req[u] EXCEPT !.at = "deleting", !.orphaned = Orphaned(req[u])]
      <4>1. q.at = "deleting"
        BY <1>0 DEF Requests
      <4>2. req' = [req EXCEPT ![u] = q]
        BY <3>3 DEF CountSharing
      <4> HIDE DEF q
      <4> QED BY <4>1, <4>2
    <3> QED BY <2>5, <3>1, <3>2, <3>3
  <2>6. CASE EraseUpload(u)
    <3>1. \A o : [req[u] EXCEPT !.orphaned = o].at = req[u].at
      BY <1>0 DEF Requests
    <3> QED BY <2>3, <2>6, <3>1 DEF EraseUpload, At
  <2>7. CASE DeleteBoard(u) \/ DeleteProject(u) \/ EraseRuns(u)
    BY <2>3, <2>4, <2>7 DEF DeleteBoard, DeleteProject, EraseRuns, Deletion
  <2>8. boards' \subseteq boards /\ verified' = verified
    BY DEF Delete, ListVersions, ListRunsOfProject, ListRunsOnVersion, ListBoardsOfProject, CountSharing,
           DeleteBoard, DeleteProject, EraseRuns, EraseUpload
  <2> QED BY <2>1, <2>2, <2>5, <2>6, <2>7, <2>8 DEF Delete
<1> QED BY <1>0, <1>1 DEF VerifiedInv, ReuseIsVerified, At

LEMMA WorkerVerified == ASSUME BTypes, VerifiedInv, Worker PROVE VerifiedInv'
<1> USE DEF stores, history
<1>1. ASSUME NEW r \in runs, CompleteRun(r) PROVE VerifiedInv'
  <2>1. req' = req /\ verified \subseteq verified'
    BY <1>1 DEF CompleteRun
  <2>2. \A b \in boards' : b.sha # None => <<b.input, b.sha>> \in verified'
    <3>1. CASE r.kind = "ingest"
      <4>1. PICK b \in boards :
              /\ boards' = (boards \ {b}) \cup {[b EXCEPT !.sha = work[r.id]]}
              /\ verified' = verified \cup {<<b.input, work[r.id]>>}
        BY <1>1, <3>1 DEF CompleteRun
      <4>2. [b EXCEPT !.sha = work[r.id]].input = b.input /\ [b EXCEPT !.sha = work[r.id]].sha = work[r.id]
        BY DEF BTypes, BoardsTypeOK, Board
      <4> QED BY <4>1, <4>2 DEF VerifiedInv
    <3>2. CASE r.kind # "ingest"
      BY <1>1, <3>2 DEF CompleteRun, VerifiedInv
    <3> QED BY <3>1, <3>2
  <2> QED BY <2>1, <2>2 DEF VerifiedInv, ReuseIsVerified, At
<1>2. CASE UNCHANGED <<boards, verified, req>>
  BY <1>2 DEF VerifiedInv, ReuseIsVerified, At
<1> QED BY <1>1, <1>2 DEF Worker, ReadInput, FailRun, PutArtifact, LeaveRun

\* Whoever claims what hash of whose object: a client is told to go on without
\* an upload only with an object an ingest has read those bytes from.
THEOREM HeldBytesAreVerified == BoardsSpec => []ReuseIsVerified
<1>1. BoardsInit => VerifiedInv
  BY NoRequestTyped DEF BoardsInit, VerifiedInv, ReuseIsVerified, At
<1>2. BTypes /\ VerifiedInv /\ [BoardsNext]_boardsVars => VerifiedInv'
  <2> SUFFICES ASSUME BTypes, VerifiedInv, [BoardsNext]_boardsVars PROVE VerifiedInv'
    OBVIOUS
  <2>1. CASE UNCHANGED <<boards, verified, req>>
    BY <2>1 DEF VerifiedInv, ReuseIsVerified, At
  <2>2. CASE BoardsNext
    BY <2>1, <2>2, UploadVerified, SubmitVerified, DeleteVerified, WorkerVerified
       DEF BoardsNext, CreateProject, history
  <2> QED BY <2>1, <2>2 DEF boardsVars, stores, history
<1>3. VerifiedInv => ReuseIsVerified
  BY DEF VerifiedInv
<1> QED BY <1>1, <1>2, <1>3, BTypesHold, PTL DEF BoardsSpec

-------------------------------------------------------------------------------
(* Nothing left behind.  While nothing has overlapped a deletion, what it  *)
(* listed is what there is, and it knows of every upload it leaves alone.  *)

\* The rows a deletion is to delete.
Going(q, b) == IF q.board = None THEN b.project = q.project ELSE b.id = q.board

\* A deletion has the database to itself.
Solo ==
    \A u, v \in Users : u # v /\ req[u].at \in Deletion => req[v].at \notin Deletion \cup Submission

SameRow(b, c) == b.id = c.id /\ b.project = c.project /\ b.input = c.input

\* What a deletion has listed is there, and all of it.
ListingIsExact(q) ==
    /\ q.at = "runs" => q.board = None
    /\ q.at \in {"versions", "checked"} =>
        /\ q.board # None => \E l \in q.listed : l.id = q.board
        /\ \A l \in q.listed : l.project = q.project /\ \E b \in boards : SameRow(b, l)
        /\ \A b \in boards : b.project = q.project => \E l \in q.listed : SameRow(b, l)

\* What it has counted: an upload it does not take is named by a row that stays.
CountIsExact(q) ==
    q.at = "deleting" =>
        \A b \in boards : Going(q, b) =>
            b.input \in q.orphaned \/ \E c \in boards : ~Going(q, c) /\ c.input = b.input

Covered ==
    \A k \in named :
        \/ \E b \in boards : b.input = k
        \/ \E u \in Users : req[u].at \in {"erasing", "uploads"} /\ k \in req[u].orphaned

OneProject == \A b, c \in boards : b.id = c.id => b.project = c.project

LeftInv ==
    /\ OneProject
    /\ ~overlapped =>
        /\ Solo
        /\ Covered
        /\ \A u \in Users : ListingIsExact(req[u]) /\ CountIsExact(req[u])


\* Deletions and submissions that u's step may begin, by what the others are at.
Enters(u, place) ==
    LET others == Users \ {u} IN
    /\ place \in Deletion => \/ req[u].at \in Deletion
                             \/ \A v \in others : req[v].at \notin Deletion \cup Submission
    /\ place \in Submission => req[u].at \in Submission \/ \A v \in others : req[v].at \notin Deletion

LEMMA SoloKept ==
  ASSUME BTypes, Solo, NEW u \in Users, NEW q, req' = [req EXCEPT ![u] = q], Enters(u, q.at)
  PROVE  Solo'
<1>1. \A v \in Users : req'[v] = IF v = u THEN q ELSE req[v]
  BY DEF BTypes, BoardsTypeOK
<1>2. Deletion \cap Submission = {}
  BY DEF Deletion, Submission
<1>3. SUFFICES ASSUME NEW v \in Users, NEW w \in Users, v # w, req'[v].at \in Deletion
               PROVE  req'[w].at \notin Deletion \cup Submission
  BY DEF Solo
<1>4. CASE v = u
  BY <1>1, <1>3, <1>4 DEF Solo, Enters
<1>5. CASE w = u
  BY <1>1, <1>2, <1>3, <1>5 DEF Solo, Enters
<1>6. CASE v # u /\ w # u
  BY <1>1, <1>3, <1>6 DEF Solo
<1> QED BY <1>4, <1>5, <1>6

\* The same rows, with another hash perhaps.
SameRows ==
    /\ \A c \in boards' : \E b \in boards : SameRow(b, c)
    /\ \A b \in boards : \E c \in boards' : SameRow(b, c)

LEMMA SameRowsKeep == ASSUME SameRows, OneProject PROVE OneProject'
  BY DEF SameRows, SameRow, OneProject

\* A step of u's request that is not the end of a deletion and leaves the rows.
LEMMA LeftElsewhere ==
  ASSUME BTypes, LeftInv, SameRows, named' = named, overlapped => overlapped',
         NEW u \in Users, NEW q, req' = [req EXCEPT ![u] = q],
         ~overlapped' => Enters(u, q.at),
         ListingIsExact(q), CountIsExact(q),
         req[u].at \in {"erasing", "uploads"} => q.at \in {"erasing", "uploads"} /\ q.orphaned = req[u].orphaned
  PROVE  LeftInv'
<1>1. OneProject'
  BY SameRowsKeep DEF LeftInv
<1> SUFFICES ASSUME ~overlapped' PROVE Solo' /\ Covered' /\ \A v \in Users : (ListingIsExact(req[v]) /\ CountIsExact(req[v]))'
  BY <1>1 DEF LeftInv
<1>2. ~overlapped /\ Solo /\ Covered
  BY DEF LeftInv
<1>3. \A v \in Users : req'[v] = IF v = u THEN q ELSE req[v]
  BY DEF BTypes, BoardsTypeOK
<1>4. Solo'
  BY <1>2, SoloKept
<1>5. Covered'
  BY <1>2, <1>3 DEF Covered, SameRows, SameRow
<1>6. ASSUME NEW v \in Users PROVE (ListingIsExact(req[v]) /\ CountIsExact(req[v]))'
  <2> DEFINE r == IF v = u THEN q ELSE req[v]
  <2>1. ListingIsExact(r) /\ CountIsExact(r)
    BY <1>2 DEF LeftInv
  <2>2. req'[v] = r
    BY <1>3
  <2>3. (\A b \in boards' : \E c \in boards : SameRow(c, b)) /\ \A b \in boards : \E c \in boards' : SameRow(b, c)
    BY DEF SameRows
  <2> HIDE DEF r
  <2>4. ListingIsExact(req[v])'
    <3>1. CASE r.at \notin {"versions", "checked"}
      BY <2>1, <2>2, <3>1 DEF ListingIsExact
    <3>2. CASE r.at \in {"versions", "checked"}
      <4>1. ASSUME NEW l \in r.listed PROVE l.project = r.project /\ \E c \in boards' : SameRow(c, l)
        <5>1. l.project = r.project
          BY <2>1, <3>2 DEF ListingIsExact
        <5>2. PICK b \in boards : SameRow(b, l)
          BY <2>1, <3>2 DEF ListingIsExact
        <5>3. PICK c \in boards' : SameRow(b, c)
          BY <2>3
        <5> QED BY <5>1, <5>2, <5>3 DEF SameRow
      <4>2. ASSUME NEW c \in boards', c.project = r.project PROVE \E l \in r.listed : SameRow(c, l)
        <5>1. PICK b \in boards : SameRow(b, c)
          BY <2>3
        <5>2. PICK l \in r.listed : SameRow(b, l)
          BY <2>1, <3>2, <4>2, <5>1 DEF ListingIsExact, SameRow
        <5> QED BY <5>1, <5>2 DEF SameRow
      <4> QED BY <2>1, <2>2, <3>2, <4>1, <4>2 DEF ListingIsExact
    <3> QED BY <3>1, <3>2
  <2>5. CountIsExact(req[v])'
    BY <2>1, <2>2, <2>3 DEF SameRow, CountIsExact, Going
  <2> QED BY <2>4, <2>5
<1> QED BY <1>4, <1>5, <1>6

\* A request that is no deletion, or has got no further than its runs.
LEMMA NothingToDelete ==
  ASSUME NEW q, q.at \notin {"runs", "versions", "checked", "deleting"}
  PROVE  ListingIsExact(q) /\ CountIsExact(q)
  BY DEF ListingIsExact, CountIsExact

LEMMA NoRequestLeft ==
  ASSUME LeftInv, SameRows, named' = named, req' = req, overlapped => overlapped'
  PROVE  LeftInv'
<1>1. OneProject'
  BY SameRowsKeep DEF LeftInv
<1>2. ASSUME ~overlapped' PROVE Solo' /\ Covered' /\ \A v \in Users : (ListingIsExact(req[v]) /\ CountIsExact(req[v]))'
  <2>1. Solo' /\ Covered'
    BY <1>2 DEF LeftInv, Solo, Covered, SameRows, SameRow
  <2>2. ASSUME NEW v \in Users PROVE ListingIsExact(req[v])' /\ CountIsExact(req[v])'
    <3>1. ListingIsExact(req[v]) /\ CountIsExact(req[v])
      BY <1>2 DEF LeftInv
    <3>2. ListingIsExact(req[v])'
      BY <3>1 DEF ListingIsExact, SameRows, SameRow
    <3>3. CountIsExact(req[v])'
      BY <3>1 DEF CountIsExact, SameRows, SameRow, Going
    <3> QED BY <3>2, <3>3
  <2> QED BY <2>1, <2>2
<1> QED BY <1>1, <1>2 DEF LeftInv


LEMMA UploadLeft == ASSUME BTypes, LeftInv, NEW u \in Users, Upload(u) PROVE LeftInv'
<1>1. \E q : /\ req' = [req EXCEPT ![u] = q] /\ q.at \in {"idle", "url", "uploaded"}
             /\ req[u].at \in {"idle", "url", "uploaded"}
  <2>1. ASSUME NEW p, NEW claim, ReuseUpload(u, p, claim)
        PROVE  \E q : req' = [req EXCEPT ![u] = q] /\ q.at = "uploaded" /\ req[u].at = "idle"
    <3>1. PICK b \in FindBoardByContent(claim) : Held(u, p, b.input, claim)
      BY <2>1 DEF ReuseUpload
    <3> DEFINE q == [NoRequest EXCEPT !.at = "uploaded", !.project = p, !.key = b.input, !.claim = claim]
    <3>2. req' = [req EXCEPT ![u] = q] /\ q.at = "uploaded" /\ req[u].at = "idle"
      BY <3>1 DEF Held, NoRequest, At
    <3> QED BY <3>2
  <2>2. ASSUME NEW p, NEW c, NEW claim, SignUpload(u, p, c, claim)
        PROVE  \E q : req' = [req EXCEPT ![u] = q] /\ q.at = "url" /\ req[u].at = "idle"
    <3>1. PICK key : req' = [req EXCEPT ![u] = [NoRequest EXCEPT
                 !.at = "url", !.project = p, !.key = key, !.bytes = c]]
      BY <2>2 DEF SignUpload
    <3> DEFINE q == [NoRequest EXCEPT !.at = "url", !.project = p, !.key = key, !.bytes = c]
    <3>2. req' = [req EXCEPT ![u] = q] /\ q.at = "url" /\ req[u].at = "idle"
      BY <2>2, <3>1 DEF SignUpload, NoRequest, At
    <3> QED BY <3>2
  <2>3. ASSUME PutUpload(u) \/ Abandon(u)
        PROVE  \E q : /\ req' = [req EXCEPT ![u] = q] /\ q.at \in {"idle", "uploaded"}
                      /\ req[u].at \in {"url", "uploaded"}
    <3>1. NoRequest.at = "idle" /\ [req[u] EXCEPT !.at = "uploaded"].at = "uploaded"
      BY NoRequestTyped DEF BTypes, BoardsTypeOK, Requests
    <3>2. /\ req[u].at \in {"url", "uploaded"}
          /\ req' = [req EXCEPT ![u] = NoRequest] \/ req' = [req EXCEPT ![u] = [req[u] EXCEPT !.at = "uploaded"]]
      BY <2>3 DEF PutUpload, Abandon, Now, End, At
    <3> QED BY <3>1, <3>2
  <2> QED BY <2>1, <2>2, <2>3 DEF Upload
<1>2. PICK q : /\ req' = [req EXCEPT ![u] = q] /\ q.at \in {"idle", "url", "uploaded"}
               /\ req[u].at \in {"idle", "url", "uploaded"}
  BY <1>1
<1>3. UNCHANGED <<boards, named, overlapped>>
  BY DEF Upload, ReuseUpload, Held, SignUpload, PutUpload, Abandon, stores, history
<1>4. SameRows
  BY <1>3 DEF SameRows, SameRow
<1>5. ListingIsExact(q) /\ CountIsExact(q) /\ Enters(u, q.at)
  BY <1>2, NothingToDelete DEF Enters, Deletion, Submission
<1> QED BY <1>2, <1>3, <1>4, <1>5, LeftElsewhere

LEMMA InsertLeft ==
  ASSUME BTypes, UploadInv, LeftInv, NEW u \in Users, NEW b \in BoardIds, InsertBoard(u, b)
  PROVE  LeftInv'
<1> DEFINE row == [id |-> b, project |-> req[u].project, input |-> req[u].key, sha |-> None]
           q == [req[u] EXCEPT !.at = "queueing", !.board = b]
<1>1. /\ boards' = boards \cup {row} /\ row.id = b /\ row.input = req[u].key /\ b \notin used
      /\ named' = named \cup {req[u].key} /\ overlapped' = overlapped
      /\ req' = [req EXCEPT ![u] = q] /\ req[u].at = "creating"
  BY DEF InsertBoard, newID, At
<1>2. q.at = "queueing"
  BY DEF BTypes, BoardsTypeOK, Requests
<1> HIDE DEF row, q
<1>3. \A v \in Users : req'[v] = IF v = u THEN q ELSE req[v]
  BY <1>1 DEF BTypes, BoardsTypeOK
<1>4. OneProject'
  BY <1>1 DEF LeftInv, OneProject, UploadInv, IdsOnce
<1> SUFFICES ASSUME ~overlapped' PROVE Solo' /\ Covered' /\ \A v \in Users : (ListingIsExact(req[v]) /\ CountIsExact(req[v]))'
  BY <1>4 DEF LeftInv
<1>5. ~overlapped /\ Solo /\ Covered
  BY <1>1 DEF LeftInv
<1>6. Solo'
  <2>1. Enters(u, q.at)
    BY <1>1, <1>2 DEF Enters, Deletion, Submission
  <2> QED BY <1>1, <1>5, <2>1, SoloKept
<1>7. Covered'
  BY <1>1, <1>2, <1>3, <1>5 DEF Covered
\* Nothing is being deleted.
<1>8. ASSUME NEW v \in Users PROVE req'[v].at \notin Deletion
  <2>1. CASE v = u
    BY <1>2, <1>3, <2>1 DEF Deletion
  <2>2. CASE v # u
    BY <1>1, <1>3, <1>5, <2>2 DEF Solo, Submission
  <2> QED BY <2>1, <2>2
<1>9. \A v \in Users : (ListingIsExact(req[v]) /\ CountIsExact(req[v]))'
  BY <1>8 DEF ListingIsExact, CountIsExact, Deletion
<1> QED BY <1>6, <1>7, <1>9

LEMMA SubmitLeft ==
  ASSUME BTypes, UploadInv, LeftInv, NEW u \in Users, Submit(u)
  PROVE  LeftInv'
<1> USE DEF stores, history
<1>1. ASSUME NEW b \in BoardIds, InsertBoard(u, b) PROVE LeftInv'
  BY <1>1, InsertLeft
<1>2. ASSUME NEW r \in runs, RetryRun(u, r) PROVE LeftInv'
  <2>1. UNCHANGED <<boards, named, req>> /\ (overlapped => overlapped')
    BY <1>2 DEF RetryRun, Overlap
  <2>2. SameRows
    BY <2>1 DEF SameRows, SameRow
  <2> QED BY <2>1, <2>2, NoRequestLeft
<1>3. ASSUME NEW q, req' = [req EXCEPT ![u] = q], q.at \in {"idle", "creating", "queueing"},
             req[u].at \in {"idle", "uploaded"} \cup Submission, UNCHANGED <<boards, named>>,
             overlapped => overlapped',
             q.at # "idle" /\ ~overlapped' => \A v \in Users \ {u} : req[v].at \notin Deletion
      PROVE  LeftInv'
  <2>1. SameRows
    BY <1>3 DEF SameRows, SameRow
  <2>2. ListingIsExact(q) /\ CountIsExact(q)
    BY <1>3, NothingToDelete
  <2>3. ~overlapped' => Enters(u, q.at)
    <3>1. q.at \notin Deletion /\ (q.at = "idle" => q.at \notin Submission)
      BY <1>3 DEF Deletion, Submission
    <3> QED BY <1>3, <3>1 DEF Enters
  <2>4. req[u].at \notin {"erasing", "uploads"}
    BY <1>3 DEF Submission
  <2> QED BY <1>3, <2>1, <2>2, <2>3, <2>4, LeftElsewhere
<1>4. CASE StatUpload(u)
  <2> DEFINE q == [req[u] EXCEPT !.at = "creating"]
  <2>1. q.at = "creating" /\ NoRequest.at = "idle"
    BY NoRequestTyped DEF BTypes, BoardsTypeOK, Requests
  <2>2. /\ req[u].at = "uploaded" /\ UNCHANGED <<boards, named>> /\ (overlapped => overlapped')
        /\ \/ req' = [req EXCEPT ![u] = q] /\ Overlap(u, FALSE)
           \/ req' = [req EXCEPT ![u] = NoRequest]
    BY <1>4 DEF StatUpload, Now, End, At, Overlap
  <2> HIDE DEF q
  <2>3. CASE req' = [req EXCEPT ![u] = q] /\ Overlap(u, FALSE)
    BY <1>3, <2>1, <2>2, <2>3 DEF Overlap
  <2>4. CASE req' = [req EXCEPT ![u] = NoRequest]
    BY <1>3, <2>1, <2>2, <2>4
  <2> QED BY <2>2, <2>3, <2>4
<1>5. ASSUME InsertFails(u) \/ \E r \in RunIds : CreateRun(u, r) PROVE LeftInv'
  <2>1. /\ req[u].at \in Submission /\ UNCHANGED <<boards, named, overlapped>>
        /\ req' = [req EXCEPT ![u] = NoRequest]
    BY <1>5 DEF InsertFails, CreateRun, End, At, Submission
  <2> QED BY <1>3, <2>1, NoRequestTyped
<1>6. ASSUME NEW b \in boards, NEW kind \in {"ingest", "solve"}, CheckBoard(u, b, kind) PROVE LeftInv'
  <2> DEFINE q == [NoRequest EXCEPT !.at = "queueing", !.board = b.id, !.kind = kind]
  <2>1. q.at = "queueing"
    BY DEF NoRequest
  <2>2. /\ req[u].at = "idle" /\ UNCHANGED <<boards, named>> /\ Overlap(u, FALSE)
        /\ req' = [req EXCEPT ![u] = q]
    BY <1>6 DEF CheckBoard, At
  <2> HIDE DEF q
  <2> QED BY <1>3, <2>1, <2>2 DEF Overlap
<1> QED BY <1>1, <1>2, <1>4, <1>5, <1>6 DEF Submit

\* A step of a deletion that reads.
LEMMA ReadingLeft ==
  ASSUME BTypes, LeftInv, NEW u \in Users, NEW q, req' = [req EXCEPT ![u] = q],
         UNCHANGED <<boards, named>>, overlapped => overlapped',
         q.at \in Deletion \cup {"idle"}, req[u].at \notin {"erasing", "uploads"},
         ~overlapped' => \/ q.at = "idle" \/ req[u].at \in Deletion
                         \/ \A v \in Users \ {u} : req[v].at \notin Deletion \cup Submission,
         ~overlapped' => ListingIsExact(q) /\ CountIsExact(q)
  PROVE  LeftInv'
<1>1. SameRows
  BY DEF SameRows, SameRow
<1>2. ~overlapped' => Enters(u, q.at)
  BY DEF Enters, Deletion, Submission
<1>3. CASE overlapped'
  BY <1>1, <1>3, SameRowsKeep DEF LeftInv
<1>4. CASE ~overlapped'
  BY <1>1, <1>2, <1>4, LeftElsewhere
<1> QED BY <1>3, <1>4

\* The lists that are read in a deletion that has the database to itself.
LEMMA ListingLeft ==
  ASSUME BTypes, LeftInv, NEW u \in Users,
         \/ \E b \in boards : ListVersions(u, b)
         \/ \E p \in ProjectIds : ListRunsOfProject(u, p)
         \/ ListRunsOnVersion(u) \/ ListBoardsOfProject(u)
  PROVE  LeftInv'
<1> USE DEF stores, history
<1>1. ASSUME NEW b \in boards, ListVersions(u, b) PROVE LeftInv'
  <2> DEFINE q == [NoRequest EXCEPT !.at = "versions",
           !.project = b.project, !.board = b.id, !.listed = ListBoards(b.project)]
  <2>1. q.at = "versions" /\ q.project = b.project /\ q.board = b.id /\ q.listed = ListBoards(b.project)
    BY DEF NoRequest
  <2>2. /\ req[u].at = "idle" /\ req' = [req EXCEPT ![u] = q] /\ UNCHANGED <<boards, named>>
        /\ Overlap(u, TRUE)
    BY <1>1 DEF ListVersions, At
  <2> HIDE DEF q
  <2>3. ListingIsExact(q) /\ CountIsExact(q)
    BY <2>1 DEF ListingIsExact, CountIsExact, ListBoards, SameRow
  <2> QED BY <2>1, <2>2, <2>3, ReadingLeft DEF Overlap, Deletion
<1>2. ASSUME NEW p \in ProjectIds, ListRunsOfProject(u, p) PROVE LeftInv'
  <2> DEFINE q == [NoRequest EXCEPT !.at = "runs",
           !.project = p, !.runs = RunIdsOf(RunsOn(ListBoards(p)))]
  <2>1. q.at = "runs" /\ q.board = None
    BY DEF NoRequest
  <2>2. /\ req[u].at = "idle" /\ req' = [req EXCEPT ![u] = q] /\ UNCHANGED <<boards, named>>
        /\ Overlap(u, TRUE)
    BY <1>2 DEF ListRunsOfProject, At
  <2> HIDE DEF q
  <2>3. ListingIsExact(q) /\ CountIsExact(q)
    BY <2>1 DEF ListingIsExact, CountIsExact
  <2> QED BY <2>1, <2>2, <2>3, ReadingLeft DEF Overlap, Deletion
<1>3. CASE ListRunsOnVersion(u)
  <2> DEFINE q == [req[u] EXCEPT !.at = "checked", !.runs = RunIdsOf(RunsOn(Doomed(req[u])))]
  <2>1. /\ q.at = "checked" /\ q.project = req[u].project /\ q.board = req[u].board
        /\ q.listed = req[u].listed /\ NoRequest.at = "idle"
    BY NoRequestTyped DEF BTypes, BoardsTypeOK, Requests
  <2>2. /\ req[u].at = "versions" /\ UNCHANGED <<boards, named, overlapped>>
        /\ req' = [req EXCEPT ![u] = q] \/ req' = [req EXCEPT ![u] = NoRequest]
    BY <1>3 DEF ListRunsOnVersion, At, End
  <2> HIDE DEF q
  <2>3. CASE req' = [req EXCEPT ![u] = q]
    <3>1. ~overlapped' => ListingIsExact(q) /\ CountIsExact(q)
      BY <2>1, <2>2 DEF LeftInv, ListingIsExact, CountIsExact
    <3> QED BY <2>1, <2>2, <2>3, <3>1, ReadingLeft DEF Deletion
  <2>4. CASE req' = [req EXCEPT ![u] = NoRequest]
    BY <2>1, <2>2, <2>4, NothingToDelete, ReadingLeft
  <2> QED BY <2>2, <2>3, <2>4
<1>4. CASE ListBoardsOfProject(u)
  <2> DEFINE q == [req[u] EXCEPT !.at = "checked", !.listed = ListBoards(req[u].project)]
  <2>1. /\ q.at = "checked" /\ q.project = req[u].project /\ q.board = req[u].board
        /\ q.listed = ListBoards(req[u].project)
    BY DEF BTypes, BoardsTypeOK, Requests
  <2>2. /\ req[u].at = "runs" /\ req' = [req EXCEPT ![u] = q]
        /\ UNCHANGED <<boards, named, overlapped>>
    BY <1>4 DEF ListBoardsOfProject, At
  <2> HIDE DEF q
  <2>3. ~overlapped' => ListingIsExact(q) /\ CountIsExact(q)
    BY <2>1, <2>2 DEF LeftInv, ListingIsExact, CountIsExact, ListBoards, SameRow
  <2> QED BY <2>1, <2>2, <2>3, ReadingLeft DEF Deletion
<1> QED BY <1>1, <1>2, <1>3, <1>4

\* What the count leaves alone is named by a row that stays.
LEMMA CountLeft ==
  ASSUME BTypes, UploadInv, LeftInv, NEW u \in Users, CountSharing(u)
  PROVE  LeftInv'
<1> DEFINE old == req[u]
           q == [old EXCEPT !.at = "deleting", !.orphaned = Orphaned(old)]
<1>1. q.at = "deleting" /\ q.project = old.project /\ q.board = old.board /\ q.orphaned = Orphaned(old)
  BY DEF BTypes, BoardsTypeOK, Requests
<1>2. /\ old.at = "checked" /\ req' = [req EXCEPT ![u] = q]
      /\ UNCHANGED <<boards, named, overlapped>>
  BY DEF CountSharing, At, history, stores
<1>3. old.board \in BoardIds \cup {None} /\ old.listed \subseteq Board /\ boards \subseteq Board
  BY DEF BTypes, BoardsTypeOK, Requests
<1>4. OneProject /\ (~overlapped => ListingIsExact(old))
  BY DEF LeftInv
<1> HIDE DEF q, old
<1>5. ASSUME ~overlapped, NEW b \in boards, Going(q, b), b.input \notin q.orphaned
      PROVE  \E c \in boards : ~Going(q, c) /\ c.input = b.input
  <2>1. b.project = old.project
    BY <1>1, <1>2, <1>4, <1>5 DEF Going, ListingIsExact, SameRow, OneProject
  <2>2. PICK l \in old.listed : SameRow(b, l)
    BY <1>2, <1>4, <1>5, <2>1 DEF ListingIsExact
  <2>3. l \in Doomed(old)
    BY <1>1, <1>5, <2>2 DEF Doomed, Going, SameRow
  <2>4. \/ \E m \in old.listed \ Doomed(old) : m.input = b.input
        \/ CountBoardsSharingInput(b.input, old.project) # 0
    BY <1>1, <1>5, <2>2, <2>3 DEF Orphaned, SameRow
  <2>5. CASE \E m \in old.listed \ Doomed(old) : m.input = b.input
    <3>1. PICK m \in old.listed \ Doomed(old) : m.input = b.input
      BY <2>5
    <3>2. PICK c \in boards : SameRow(c, m)
      BY <1>2, <1>4, <1>5, <3>1 DEF ListingIsExact
    <3>3. ~Going(q, c)
      BY <1>1, <3>1, <3>2 DEF Going, Doomed, SameRow
    <3> QED BY <3>1, <3>2, <3>3 DEF SameRow
  <2>6. CASE CountBoardsSharingInput(b.input, old.project) # 0
    <3> DEFINE sharing == {c \in boards : c.input = b.input /\ c.project # old.project}
    <3>1. sharing # {}
      BY <2>6, FS_EmptySet DEF CountBoardsSharingInput
    <3>2. PICK c \in boards : c.input = b.input /\ c.project # old.project
      BY <3>1
    <3>3. ~Going(q, c)
      BY <1>1, <1>4, <1>5, <2>1, <3>2 DEF Going, OneProject
    <3> QED BY <3>2, <3>3
  <2> QED BY <2>4, <2>5, <2>6
<1>6. ~overlapped' => ListingIsExact(q) /\ CountIsExact(q)
  BY <1>1, <1>2, <1>5 DEF ListingIsExact, CountIsExact
<1>7. old.at \in Deletion /\ q.at \in Deletion
  BY <1>1, <1>2 DEF Deletion
<1> QED BY <1>2, <1>6, <1>7, ReadingLeft DEF old

\* The rows go, and the deletion still has the uploads nothing else names.
LEMMA RowsGoLeft ==
  ASSUME BTypes, LeftInv, NEW u \in Users, DeleteBoard(u) \/ DeleteProject(u)
  PROVE  LeftInv'
<1> DEFINE q == [req[u] EXCEPT !.at = "erasing"]
<1>1. q.at = "erasing" /\ q.orphaned = req[u].orphaned /\ NoRequest.at = "idle"
  BY NoRequestTyped DEF BTypes, BoardsTypeOK, Requests
<1>2. /\ req[u].at = "deleting" /\ UNCHANGED <<named, overlapped>>
      /\ \/ req' = [req EXCEPT ![u] = q] /\ boards' = {b \in boards : ~Going(req[u], b)}
         \/ req' = [req EXCEPT ![u] = NoRequest] /\ boards' = boards
  BY DEF DeleteBoard, DeleteProject, At, Now, End, Going, ListBoards, history
<1> HIDE DEF q
<1>3. CASE req' = [req EXCEPT ![u] = NoRequest] /\ boards' = boards
  BY <1>1, <1>2, <1>3, NothingToDelete, ReadingLeft
<1>4. CASE req' = [req EXCEPT ![u] = q] /\ boards' = {b \in boards : ~Going(req[u], b)}
  <2>1. OneProject'
    BY <1>4 DEF LeftInv, OneProject
  <2> SUFFICES ASSUME ~overlapped'
               PROVE Solo' /\ Covered' /\ \A v \in Users : (ListingIsExact(req[v]) /\ CountIsExact(req[v]))'
    BY <2>1 DEF LeftInv
  <2>2. ~overlapped /\ Solo /\ Covered /\ CountIsExact(req[u])
    BY <1>2 DEF LeftInv
  <2>3. \A v \in Users : req'[v] = IF v = u THEN q ELSE req[v]
    BY <1>4 DEF BTypes, BoardsTypeOK
  <2>4. Solo'
    <3>1. Enters(u, q.at)
      BY <1>1, <1>2 DEF Enters, Deletion, Submission
    <3> QED BY <1>4, <2>2, <3>1, SoloKept
  <2>5. Covered'
    <3> SUFFICES ASSUME NEW k \in named
                 PROVE  \/ \E b \in boards' : b.input = k
                        \/ \E v \in Users : req'[v].at \in {"erasing", "uploads"} /\ k \in req'[v].orphaned
      BY <1>2 DEF Covered
    <3>1. CASE \E b \in boards : b.input = k
      BY <1>1, <1>2, <1>4, <2>2, <2>3, <3>1 DEF CountIsExact
    <3>2. CASE \E v \in Users : req[v].at \in {"erasing", "uploads"} /\ k \in req[v].orphaned
      BY <1>2, <2>3, <3>2
    <3> QED BY <2>2, <3>1, <3>2 DEF Covered
  <2>6. ASSUME NEW v \in Users PROVE req'[v].at \notin {"runs", "versions", "checked", "deleting"}
    BY <1>1, <1>2, <2>2, <2>3 DEF Solo, Deletion
  <2>7. \A v \in Users : (ListingIsExact(req[v]) /\ CountIsExact(req[v]))'
    BY <2>6 DEF ListingIsExact, CountIsExact
  <2> QED BY <2>4, <2>5, <2>7
<1> QED BY <1>2, <1>3, <1>4

LEMMA EraseLeft ==
  ASSUME BTypes, LeftInv, NEW u \in Users, EraseUpload(u)
  PROVE  LeftInv'
<1>1. PICK q : /\ req' = [req EXCEPT ![u] = q] /\ q.at \in {"idle", "uploads"}
               /\ \/ \E k \in Keys : named' = named \ {k} /\ q.at = "uploads" /\ q.orphaned = req[u].orphaned \ {k}
                  \/ named' = named /\ req[u].orphaned = {}
  <2>1. CASE End(u) /\ named' = named /\ req[u].orphaned = {}
    BY <2>1, NoRequestTyped DEF End
  <2>2. ASSUME NEW k \in req[u].orphaned, named' = named \ {k},
               req' = [req EXCEPT ![u].orphaned = @ \ {k}]
        PROVE  \E q : /\ req' = [req EXCEPT ![u] = q] /\ q.at = "uploads"
                      /\ q.orphaned = req[u].orphaned \ {k} /\ k \in Keys
    <3> DEFINE q == [req[u] EXCEPT !.orphaned = @ \ {k}]
    <3>1. q.at = "uploads" /\ q.orphaned = req[u].orphaned \ {k} /\ k \in Keys
      BY DEF EraseUpload, At, BTypes, BoardsTypeOK, Requests
    <3>2. req' = [req EXCEPT ![u] = q]
      BY <2>2
    <3> QED BY <3>1, <3>2
  <2> QED BY <2>1, <2>2 DEF EraseUpload
<1>2. req[u].at = "uploads" /\ UNCHANGED <<boards, overlapped>>
  BY DEF EraseUpload, At
<1>3. OneProject'
  BY <1>2 DEF LeftInv, OneProject
<1> SUFFICES ASSUME ~overlapped'
             PROVE Solo' /\ Covered' /\ \A v \in Users : (ListingIsExact(req[v]) /\ CountIsExact(req[v]))'
  BY <1>3 DEF LeftInv
<1>4. ~overlapped /\ Solo /\ Covered
  BY <1>2 DEF LeftInv
<1>5. \A v \in Users : req'[v] = IF v = u THEN q ELSE req[v]
  BY <1>1 DEF BTypes, BoardsTypeOK
<1>6. Solo'
  <2>1. Enters(u, q.at)
    BY <1>1, <1>2 DEF Enters, Deletion, Submission
  <2> QED BY <1>1, <1>4, <2>1, SoloKept
<1>7. Covered'
  BY <1>1, <1>2, <1>4, <1>5 DEF Covered
<1>8. ASSUME NEW v \in Users PROVE (ListingIsExact(req[v]) /\ CountIsExact(req[v]))'
  <2>1. CASE v = u
    BY <1>1, <1>5, <2>1 DEF ListingIsExact, CountIsExact
  <2>2. CASE v # u
    <3>1. req'[v] = req[v] /\ ListingIsExact(req[v]) /\ CountIsExact(req[v])
      BY <1>4, <1>5, <2>2 DEF LeftInv
    <3> QED BY <1>2, <3>1 DEF ListingIsExact, CountIsExact, Going
  <2> QED BY <2>1, <2>2
<1> QED BY <1>6, <1>7, <1>8

LEMMA DeleteLeft ==
  ASSUME BTypes, UploadInv, LeftInv, NEW u \in Users, Delete(u)
  PROVE  LeftInv'
<1>1. CASE EraseRuns(u)
  <2> DEFINE q == [req[u] EXCEPT !.at = "uploads"]
  <2>1. q.at = "uploads" /\ q.orphaned = req[u].orphaned
    BY DEF BTypes, BoardsTypeOK, Requests
  <2>2. /\ req[u].at = "erasing" /\ UNCHANGED <<boards, named, overlapped>>
        /\ req' = [req EXCEPT ![u] = q]
    BY <1>1 DEF EraseRuns, At, Now, history
  <2> HIDE DEF q
  <2>3. SameRows
    BY <2>2 DEF SameRows, SameRow
  <2>4. Enters(u, q.at)
    BY <2>1, <2>2 DEF Enters, Deletion, Submission
  <2> QED BY <2>1, <2>2, <2>3, <2>4, NothingToDelete, LeftElsewhere
<1> QED BY <1>1, ListingLeft, CountLeft, RowsGoLeft, EraseLeft DEF Delete

LEMMA WorkerLeft ==
  ASSUME BTypes, UploadInv, LeftInv, Worker
  PROVE  LeftInv'
<1> USE DEF stores, history
<1>1. ASSUME NEW r \in runs, CompleteRun(r) PROVE SameRows /\ UNCHANGED <<named, req, overlapped>>
  <2>1. CASE r.kind = "ingest"
    <3>1. PICK b \in boards : boards' = (boards \ {b}) \cup {[b EXCEPT !.sha = work[r.id]]}
      BY <1>1, <2>1 DEF CompleteRun
    <3>2. SameRow(b, [b EXCEPT !.sha = work[r.id]])
      BY DEF BTypes, BoardsTypeOK, Board, SameRow
    <3>3. \A c \in boards : SameRow(c, c)
      BY DEF SameRow
    <3> QED BY <1>1, <3>1, <3>2, <3>3 DEF SameRows, CompleteRun
  <2>2. CASE r.kind # "ingest"
    BY <1>1, <2>2 DEF CompleteRun, SameRows, SameRow
  <2> QED BY <2>1, <2>2
<1>2. CASE UNCHANGED <<boards, named, req, overlapped>>
  <2>1. SameRows
    BY <1>2 DEF SameRows, SameRow
  <2> QED BY <1>2, <2>1, NoRequestLeft
<1> QED BY <1>1, <1>2, NoRequestLeft DEF Worker, ReadInput, FailRun, PutArtifact, LeaveRun

LEMMA NextLeft ==
  ASSUME BTypes, UploadInv, LeftInv, [BoardsNext]_boardsVars
  PROVE  LeftInv'
<1>1. CASE UNCHANGED <<boards, named, req, overlapped>>
  <2>1. SameRows
    BY <1>1 DEF SameRows, SameRow
  <2> QED BY <1>1, <2>1, NoRequestLeft
<1>2. CASE BoardsNext
  BY <1>1, <1>2, UploadLeft, SubmitLeft, DeleteLeft, WorkerLeft DEF BoardsNext, CreateProject, history
<1> QED BY <1>1, <1>2 DEF boardsVars, stores, history

\* While nothing has overlapped a deletion, an upload goes with the last board
\* that named it, whichever projects and versions share it.
THEOREM NothingIsLeftBehind == BoardsSpec => []NothingLeftBehind
<1>1. BoardsInit => LeftInv
  BY NoRequestTyped DEF BoardsInit, LeftInv, OneProject, Solo, Covered, ListingIsExact, CountIsExact, Deletion
<1>2. LeftInv => NothingLeftBehind
  BY DEF LeftInv, Covered, NothingLeftBehind
<1> QED BY <1>1, <1>2, NextLeft, InitUploadInv, NextKeeps, BTypesHold, PTL DEF BoardsSpec

===============================================================================
