------------------------------ MODULE Designs ------------------------------
(***************************************************************************)
(* One electronics design: its revisions, their uploads and the stored     *)
(* files (migrations 909, 912), and the requests that change them:         *)
(* start-upload, reparse-upload and delete-design.use-case.ts.  An upload, *)
(* and a revision, has the id of the request that inserted it.             *)
(***************************************************************************)
EXTENDS JobQueue

CONSTANTS
  Requests,   \* requests of users, each made at most once: a bound
  Contents    \* the inputs a revision can have, by their hash

ASSUME DesignAssumption ==
  /\ Uploads = Requests
  /\ Contents # {} /\ IsFiniteSet(Contents)
  /\ \A s \in Scenarios : s.asks \in [Requests -> SUBSET (Contents \cup {"reparse", "delete"})]

NoId == "no id"

VARIABLES
  design,    \* the design is there
  revision,  \* electronics_design_revisions of the design, by input_sha256
  upload,    \* ecad_uploads
  files,     \* the uploads whose files are stored
  known,     \* the uploads with a parse job in electronics_jobs
  graph,     \* the uploads with a feature graph
  asked      \* how far each request is

tables == <<design, revision, upload, files, known, graph>>

Revision == [id : Requests \cup {NoId}, label : Nat]

NoRevision == [id |-> NoId, label |-> 0]

(* `review`: needs_review or confirmed, as the graph says.                 *)
Upload == [status : {"none", "uploaded", "parsing", "review", "failed"},
           of : Requests \cup {NoId}]

NoUpload == [status |-> "none", of |-> NoId]

Reading == {"uploaded", "parsing"}

(* `seen` is what the request has read of the revisions, `rev` the one it  *)
(* is about, `up` its upload, `revs` the revisions a delete is of, `list`  *)
(* the uploads to erase.                                                   *)
Request == [pc : {"new", "list", "revise", "raced", "winner", "existing", "store", "insert",
                  "unstore", "reuse", "check", "reset", "enqueue", "record", "revisions",
                  "design", "uploads", "erase", "unlink", "drop", "remove", "answered"},
            what : Contents, seen : [Contents -> Revision], rev : Requests \cup {NoId},
            up : Requests \cup {NoId}, revs : SUBSET (Requests \cup {NoId}), list : SUBSET Requests,
            whole : BOOLEAN]

NewRequest == [pc |-> "new", what |-> CHOOSE c \in Contents : TRUE,
               seen |-> [c \in Contents |-> NoRevision], rev |-> NoId, up |-> NoId,
               revs |-> {}, list |-> {}, whole |-> FALSE]

DesignsInit == /\ design = TRUE
               /\ revision = [c \in Contents |-> NoRevision]
               /\ upload = [u \in Uploads |-> NoUpload]
               /\ files = {} /\ known = {} /\ graph = {}
               /\ asked = [r \in Requests |-> NewRequest]

There(u) == upload[u].status # "none"
Listed(rows) == {c \in Contents : rows[c].id # NoId}
Of(revs) == {u \in Uploads : There(u) /\ upload[u].of \in revs}
Ids(rows) == {rows[c].id : c \in Listed(rows)}

Handled == {r \in Requests : asked[r].pc \notin {"new", "answered"}}
Deletes == {r \in Handled : asked[r].pc \in {"revisions", "design", "uploads", "erase",
                                             "unlink", "drop", "remove"}}

Moves(r, pc) == asked' = [asked EXCEPT ![r].pc = pc]
Answered(r) == asked' = [asked EXCEPT ![r] = [NewRequest EXCEPT !.pc = "answered"]]

-----------------------------------------------------------------------------
(* A request arrives: an upload to the design, a reading again of an       *)
(* upload, the delete of a revision.  Without "overlap" a delete is alone. *)
Ask(r) ==
  /\ asked[r].pc = "new"
  /\ "overlap" \in faults \/ Deletes = {}
  /\ \/ /\ design
        /\ \E c \in Contents \cap scenario.asks[r] :
             asked' = [asked EXCEPT ![r].pc = "list", ![r].what = c]
     \/ /\ "reparse" \in scenario.asks[r]
        /\ \E u \in Uploads : There(u) /\ asked' = [asked EXCEPT ![r].pc = "check", ![r].up = u]
     \/ /\ "delete" \in scenario.asks[r]
        /\ "overlap" \in faults \/ Handled = {}
        /\ \E v \in Ids(revision) :
             asked' = [asked EXCEPT ![r].pc = "revisions", ![r].rev = v]
  /\ UNCHANGED <<queue, tables>>

(* execute(): a revision of these inputs, or a new one.                    *)
List(r) ==
  LET old == revision[asked[r].what].id IN
  /\ asked[r].pc = "list"
  /\ asked' = IF old # NoId THEN [asked EXCEPT ![r].pc = "existing", ![r].rev = old]
              ELSE [asked EXCEPT ![r].pc = "revise", ![r].seen = revision]
  /\ UNCHANGED <<queue, tables>>

(* createRevision(): the next number, unless a revision has it; the table  *)
(* refuses a second revision of the label or of the inputs.                *)
Revise(r) ==
  LET c == asked[r].what
      label == Cardinality(Listed(asked[r].seen)) + 1
      taken(rows) == \E d \in Listed(rows) : rows[d].label = label
  IN  /\ asked[r].pc = "revise"
      /\ \/ /\ taken(asked[r].seen) \/ ~design
            /\ Answered(r) /\ UNCHANGED revision
         \/ /\ ~taken(asked[r].seen) /\ design
            /\ IF taken(revision) \/ revision[c].id # NoId
               THEN /\ asked' = [asked EXCEPT ![r] = [NewRequest EXCEPT
                                    !.pc = "raced", !.what = c]]
                    /\ UNCHANGED revision
               ELSE /\ revision' = [revision EXCEPT ![c] = [id |-> r, label |-> label]]
                    /\ asked' = [asked EXCEPT ![r] = [NewRequest EXCEPT
                                    !.pc = "store", !.what = c, !.rev = r]]
      /\ UNCHANGED <<queue, design, upload, files, known, graph>>

(* afterLostRace(): the same inputs won, or another set took the label.    *)
LostRace(r) ==
  LET won == revision[asked[r].what].id IN
  /\ asked[r].pc = "raced"
  /\ IF won = NoId THEN Answered(r)
     ELSE asked' = [asked EXCEPT ![r].pc = "winner", ![r].rev = won]
  /\ UNCHANGED <<queue, tables>>

(* getUploadByRevision(): after a lost race it must be there.              *)
FindUpload(r) ==
  /\ asked[r].pc \in {"existing", "winner"}
  /\ \/ \E u \in Of({asked[r].rev}) : asked' = [asked EXCEPT ![r].pc = "reuse", ![r].up = u]
     \/ /\ Of({asked[r].rev}) = {}
        /\ IF asked[r].pc = "winner" THEN Answered(r) ELSE Moves(r, "store")
  /\ UNCHANGED <<queue, tables>>

(* storeAll(): under paths of the new upload's own; all, or none is left.  *)
Store(r) ==
  /\ asked[r].pc = "store"
  /\ files' = files \cup {r}
  /\ Moves(r, "insert")
  /\ UNCHANGED <<queue, design, revision, upload, known, graph>>

(* insertUpload: one upload a revision, and the revision must be there.    *)
InsertUpload(r) ==
  LET fits == asked[r].rev \in Ids(revision) /\ Of({asked[r].rev}) = {}
      row == [status |-> "uploaded", of |-> asked[r].rev]
  IN  /\ asked[r].pc = "insert"
      /\ \/ /\ fits
            /\ upload' = [upload EXCEPT ![r] = row]
            /\ \/ asked' = [asked EXCEPT ![r].pc = "enqueue", ![r].up = r]
               \/ "lost" \in faults /\ Moves(r, "unstore")
         \/ /\ ~fits \/ "error" \in faults
            /\ Moves(r, "unstore") /\ UNCHANGED upload
      /\ UNCHANGED <<queue, design, revision, files, known, graph>>

UnstoreNothing(r) ==   \* the cleanup is forgotten
  asked[r].pc = "unstore" /\ Answered(r) /\ UNCHANGED <<queue, tables>>

UnstoreShared(r) ==   \* paths by revision: the winner's files go too
  /\ asked[r].pc = "unstore"
  /\ files' = files \ ({r} \cup Of({asked[r].rev}))
  /\ Answered(r)
  /\ UNCHANGED <<queue, design, revision, upload, known, graph>>

Unstore(r) == /\ asked[r].pc = "unstore"
              /\ files' = files \ {r}
              /\ Answered(r)
              /\ UNCHANGED <<queue, design, revision, upload, known, graph>>

(* reuse(): the upload's parse job is the answer, if it has one.           *)
Reuse(r) == /\ asked[r].pc = "reuse"
            /\ IF asked[r].up \in known THEN Answered(r) ELSE Moves(r, "enqueue")
            /\ UNCHANGED <<queue, tables>>

(* reparse: refused while the files are being read.                        *)
Check(r) == /\ asked[r].pc = "check"
            /\ IF upload[asked[r].up].status \in Reading \cup {"none"}
               THEN Answered(r) ELSE Moves(r, "reset")
            /\ UNCHANGED <<queue, tables>>

SetStatus(u, status) == upload' = IF There(u) THEN [upload EXCEPT ![u].status = status]
                                  ELSE upload

ResetReuses(r) ==   \* an upload with a parse job gets no other one
  /\ asked[r].pc = "reset"
  /\ SetStatus(asked[r].up, "uploaded")
  /\ IF asked[r].up \in known THEN Answered(r) ELSE Moves(r, "enqueue")
  /\ UNCHANGED <<queue, design, revision, files, known, graph>>

Reset(r) == /\ asked[r].pc = "reset"
            /\ SetStatus(asked[r].up, "uploaded")
            /\ Moves(r, "enqueue")
            /\ UNCHANGED <<queue, design, revision, files, known, graph>>

(* enqueueParse(): the job, then the record that names it.                 *)
Enqueue(r) == /\ asked[r].pc = "enqueue"
              /\ Enqueued(asked[r].up)
              /\ Moves(r, "record")
              /\ UNCHANGED <<scenario, tables>>

EnqueueLost(r) == /\ "lost" \in faults
                  /\ asked[r].pc = "enqueue"
                  /\ Inserted(asked[r].up)
                  /\ Answered(r)
                  /\ UNCHANGED <<scenario, loop, tables>>

Record(r) == /\ asked[r].pc = "record"
             /\ known' = IF There(asked[r].up) THEN known \cup {asked[r].up} ELSE known
             /\ Answered(r)
             /\ UNCHANGED <<queue, design, revision, upload, files, graph>>

-----------------------------------------------------------------------------
(* deleteRevision(): the last revision goes with the design.               *)
Revisions(r) ==
  /\ asked[r].pc = "revisions"
  /\ IF asked[r].rev \notin Ids(revision) THEN Answered(r)
     ELSE LET last == Cardinality(Listed(revision)) = 1
          IN  asked' = [asked EXCEPT ![r].pc = IF last THEN "design" ELSE "uploads",
                                     ![r].whole = last, ![r].revs = {asked[r].rev}]
  /\ UNCHANGED <<queue, tables>>

(* deleteDesign() finds the design and reads its revisions again.          *)
ReadRevisions(r) ==
  /\ asked[r].pc = "design"
  /\ IF ~design THEN Answered(r)
     ELSE asked' = [asked EXCEPT ![r].pc = "uploads", ![r].revs = Ids(revision)]
  /\ UNCHANGED <<queue, tables>>

(* listUploadsByRevisions(): of the revisions read a call earlier.         *)
ListUploads(r) ==
  /\ asked[r].pc = "uploads"
  /\ asked' = [asked EXCEPT ![r].pc = "erase", ![r].list = Of(asked[r].revs)]
  /\ UNCHANGED <<queue, tables>>

(* eraseUploads(): their jobs and graphs cascade, the queue's jobs do not. *)
EraseUploads(r) ==
  /\ asked[r].pc = "erase"
  /\ upload' = [u \in Uploads |-> IF u \in asked[r].list THEN NoUpload ELSE upload[u]]
  /\ known' = known \ asked[r].list
  /\ graph' = graph \ asked[r].list
  /\ Moves(r, IF asked[r].whole THEN "drop" ELSE "unlink")
  /\ UNCHANGED <<queue, design, revision, files>>

(* eraseRevision(): refused while an upload is of it.                      *)
EraseRevision(r) ==
  /\ asked[r].pc = "unlink"
  /\ IF Of({asked[r].rev}) # {} THEN Answered(r) /\ UNCHANGED revision
     ELSE /\ revision' = [c \in Contents |-> IF revision[c].id = asked[r].rev
                                             THEN NoRevision ELSE revision[c]]
          /\ Moves(r, "remove")
  /\ UNCHANGED <<queue, design, upload, files, known, graph>>

(* eraseDesigns(): its revisions cascade, and are refused likewise.        *)
EraseDesign(r) ==
  /\ asked[r].pc = "drop"
  /\ IF Of(Ids(revision)) # {} THEN Answered(r) /\ UNCHANGED <<design, revision>>
     ELSE /\ design' = FALSE
          /\ revision' = [c \in Contents |-> NoRevision]
          /\ Moves(r, "remove")
  /\ UNCHANGED <<queue, upload, files, known, graph>>

RemoveFiles(r) ==
  /\ asked[r].pc = "remove"
  /\ files' = files \ asked[r].list
  /\ Answered(r)
  /\ UNCHANGED <<queue, design, revision, upload, known, graph>>

(* Any call may fail; the insert of an upload has its own handling.  The   *)
(* process may die too.                                                    *)
RequestFails(r) ==
  /\ r \in Handled
  /\ "crash" \in faults \/ ("error" \in faults /\ asked[r].pc # "insert")
  /\ Answered(r)
  /\ UNCHANGED <<queue, tables>>

RequestStep(r) ==
  \/ List(r) \/ Revise(r) \/ LostRace(r) \/ FindUpload(r) \/ Store(r) \/ InsertUpload(r)
  \/ Unstore(r) \/ Reuse(r) \/ Check(r) \/ Reset(r) \/ Enqueue(r) \/ Record(r)
  \/ Revisions(r) \/ ReadRevisions(r) \/ ListUploads(r) \/ EraseUploads(r)
  \/ EraseRevision(r) \/ EraseDesign(r) \/ RemoveFiles(r)
=============================================================================
