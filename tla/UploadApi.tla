------------------------------ MODULE UploadApi ------------------------------
(***************************************************************************)
(* POST of a ZIP / STEP file (cad-uploads.service.ts, storeAndQueue): each *)
(* request looks the upload up by (bom_id, sha256), stores the original if *)
(* it has to, and inserts or requeues the row.  One action per awaited     *)
(* call; what a request has read stays as it was read.                     *)
(***************************************************************************)
EXTENDS UploadStore

CONSTANT Requests   \* upload requests; each is made once

VARIABLE req

(* `fresh`: no row was found.  `raced`: the insert met the row of another  *)
(* request, after which nothing is stored again.                           *)
Req == [pc : {"idle", "checking", "putting", "inserting", "racing",
              "requeueing", "end"},
        up : Uploads, ids : SUBSET Items, gone : BOOLEAN,
        fresh : BOOLEAN, raced : BOOLEAN]

ApiTypeOK == req \in [Requests -> Req]

NoReq == [pc |-> "idle", up |-> AnyUpload, ids |-> {}, gone |-> FALSE,
          fresh |-> FALSE, raced |-> FALSE]

ApiInit == req = [r \in Requests |-> NoReq]

InFlight(r) == req[r].pc \notin {"idle", "end"}

Ends(r) == req' = [req EXCEPT ![r] = [NoReq EXCEPT !.pc = "end"]]

(* Where a request goes that has established it is not a repeat.           *)
AfterRepeatCheckKept(gone, raced) == "requeueing"   \* counts on an original that is gone

AfterRepeatCheck(gone, raced) == IF gone /\ ~raced THEN "putting" ELSE "requeueing"

-----------------------------------------------------------------------------
JudgeHasty(r, u, raced) ==   \* an upload in progress counts as unfinished
  /\ row[u].status # "none"
  /\ req' = [req EXCEPT ![r].pc = AfterRepeatCheck(row[u].gone, raced),
                        ![r].up = u, ![r].raced = raced]

(* isRepeat: a failed upload is imported again, one in progress is not,    *)
(* and a finished one depends on its items, which are looked up next.      *)
Judge(r, u, raced) ==
  \/ /\ row[u].status = "failed"
     /\ req' = [req EXCEPT ![r].pc = AfterRepeatCheck(row[u].gone, raced), ![r].up = u,
                           ![r].raced = raced]
  \/ /\ row[u].status = "done"
     /\ req' = [req EXCEPT ![r].pc = "checking", ![r].up = u,
                           ![r].ids = row[u].created, ![r].gone = row[u].gone,
                           ![r].fresh = FALSE, ![r].raced = raced]
  \/ /\ row[u].status \in {"queued", "running", "analysed", "materializing"}
     /\ Ends(r)

Find(r, u) ==
  /\ req[r].pc = "idle"
  /\ \/ /\ row[u].status = "none"
        /\ req' = [req EXCEPT ![r].pc = "putting", ![r].up = u,
                              ![r].fresh = TRUE]
     \/ Judge(r, u, FALSE)
  /\ UNCHANGED store

(* anyItemLeft, over the ids that were read with the row.                  *)
CheckItems(r) ==
  /\ req[r].pc = "checking"
  /\ IF \E x \in bom : x.id \in req[r].ids
     THEN Ends(r)
     ELSE req' = [req EXCEPT ![r].pc = AfterRepeatCheck(req[r].gone, req[r].raced)]
  /\ UNCHANGED store

Put(r) ==
  /\ req[r].pc = "putting"
  /\ source' = source \cup {SourceOf[req[r].up]}
  /\ req' = [req EXCEPT ![r].pc = IF req[r].fresh THEN "inserting"
                                                  ELSE "requeueing"]
  /\ UNCHANGED <<row, bom, parts>>

(* The unique index on (bom_id, sha256) lets one insert through.           *)
Insert(r) ==
  LET u == req[r].up
  IN  /\ req[r].pc = "inserting"
      /\ IF row[u].status = "none"
         THEN /\ row' = [row EXCEPT ![u] = [NoRow EXCEPT !.status = "queued",
                   !.after = {v \in Uploads : row[v].status # "none"}]]
              /\ Ends(r)
         ELSE /\ req' = [req EXCEPT ![r].pc = "racing"]
              /\ row' = row
      /\ UNCHANGED <<bom, parts, source>>

FindRaced(r) ==
  /\ req[r].pc = "racing"
  /\ IF row[req[r].up].status = "none" THEN Ends(r)
                                       ELSE Judge(r, req[r].up, TRUE)
  /\ UNCHANGED store

(* By id, whatever the row's status is by now; created_item_ids stay.      *)
Requeue(r) ==
  LET u == req[r].up
  IN  /\ req[r].pc = "requeueing"
      /\ row' = IF row[u].status = "none" THEN row
                ELSE [row EXCEPT ![u].status = "queued", ![u].attempts = 0,
                                 ![u].tries = 0, ![u].gone = FALSE]
      /\ Ends(r)
      /\ UNCHANGED <<bom, parts, source>>

(* A call of the request fails, or the request is dropped: an error answer.*)
RequestFails(r) ==
  /\ "error" \in Faults
  /\ InFlight(r)
  /\ Ends(r)
  /\ UNCHANGED store

RequestStep(r) ==
  \/ CheckItems(r)
  \/ Put(r)
  \/ Insert(r)
  \/ FindRaced(r)
  \/ Requeue(r)
  \/ RequestFails(r)
=============================================================================
