-------------------------- MODULE ElectronicsProofs --------------------------
(***************************************************************************)
(* The electronics uploads, with any number of processes, jobs and         *)
(* requests.  Under any faults: the types and the attempts of the queue.   *)
(* Under those each of them stands: no job is left behind by a stop, an    *)
(* upload has its files and no other files stay, whatever is said to be    *)
(* read will be, and a status tells how the jobs ended.                    *)
(***************************************************************************)
EXTENDS Electronics, FiniteSetTheorems, TLAPS

(* Whoever reads an upload has a job, whoever queues one an upload.        *)
Busy == Handling \cup {"write"}
Holding == {"reuse", "check", "reset", "enqueue", "record"}

(* The types are kept because nobody acts on what it does not have.        *)
Typed == /\ ElectronicsTypeOK
         /\ \A b \in Backends : loop[b].pc \in Busy => loop[b].on \in Jobs
         /\ \A r \in Requests : asked[r].pc \in Holding => asked[r].up \in Uploads

(* The rows before anything is in them.                                    *)
LEMMA EmptyRows == /\ NoRow \in Job /\ Started \in Loop
                   /\ NoRevision \in Revision /\ NoUpload \in Upload /\ NewRequest \in Request
<1>1. (CHOOSE u \in Uploads : TRUE) \in Uploads BY QueueAssumption, Zenon
<1>2. (CHOOSE c \in Contents : TRUE) \in Contents BY DesignAssumption, Zenon
<1>. QED BY <1>1, <1>2 DEF NoRow, Job, Started, Loop, NoRevision, Revision, NoUpload, Upload,
       NewRequest, Request

(* The initial states are typed.                                           *)
LEMMA TypedStart == ElectronicsInit => Typed
<1>1. NewRequest.pc = "new" /\ Started.pc = "head" BY DEF NewRequest, Started
<1>. QED BY <1>1, EmptyRows DEF ElectronicsInit, QueueInit, DesignsInit, Typed, ElectronicsTypeOK,
       Busy, Handling, Holding

(* A job that comes into the queue.                                        *)
LEMMA InsertedType ==
  ASSUME Typed, NEW u \in Uploads, Inserted(u)
  PROVE job' \in [Jobs -> Job]
<1>1. [NoRow EXCEPT !.state = "queued", !.due = TRUE, !.about = u] \in Job
  BY EmptyRows DEF Job
<1>. QED BY <1>1 DEF Inserted, Typed, ElectronicsTypeOK

(* The sweep and the claim.                                                *)
LEMMA SweptType == Typed => Swept \in [Jobs -> Job]
BY DEF Typed, ElectronicsTypeOK, Swept, Job

(* A claim writes a row.                                                   *)
LEMMA ClaimedType ==
  ASSUME Typed, NEW j \in Claimable, Claimed(j)
  PROVE job' \in [Jobs -> Job]
<1>1. j \in Jobs BY DEF Claimable
<1>2. PICK n \in Nat : n = job[j].attempts + 1 BY <1>1 DEF Typed, ElectronicsTypeOK, Job
<1>3. job' = [Swept EXCEPT ![j].state = "running", ![j].stale = FALSE, ![j].attempts = n]
  BY <1>2 DEF Claimed
<1> DEFINE row == [Swept[j] EXCEPT !.state = "running", !.stale = FALSE, !.attempts = n]
<1>4. row \in Job BY <1>1, SweptType DEF Job
<1>5. job' = [Swept EXCEPT ![j] = row] BY <1>3
<1>. QED BY <1>1, <1>4, <1>5, SweptType

(* Rows stay rows when a result, or time, is noted on them.                *)
LEMMA JobRecords ==
  ASSUME NEW x \in Job, NEW s \in {"completed", "queued", "failed"}
  PROVE /\ [x EXCEPT !.state = s, !.due = FALSE, !.stale = FALSE] \in Job
        /\ [x EXCEPT !.due = TRUE] \in Job
        /\ [x EXCEPT !.stale = TRUE] \in Job
BY DEF Job

(* The record of a result, of whatever job.                                *)
LEMMA RecordedType ==
  ASSUME Typed, NEW b, Recorded(b)
  PROVE job' \in [Jobs -> Job]
<1> DEFINE j == loop[b].on
<1>1. CASE job[j].state # "running" BY <1>1 DEF Recorded, Typed, ElectronicsTypeOK
<1>2. CASE job[j].state = "running"
  <2>1. PICK s \in {"completed", "queued", "failed"} :
          job' = [job EXCEPT ![j].state = s, ![j].due = FALSE, ![j].stale = FALSE]
    BY <1>2 DEF Recorded
  <2> DEFINE row == [job[j] EXCEPT !.state = s, !.due = FALSE, !.stale = FALSE]
  <2>2. CASE j \in Jobs
    <3>1. job' = [job EXCEPT ![j] = row] BY <2>1, <2>2 DEF Typed, ElectronicsTypeOK
    <3>2. row \in Job BY <2>2, JobRecords DEF Typed, ElectronicsTypeOK
    <3>. QED BY <2>2, <3>1, <3>2 DEF Typed, ElectronicsTypeOK
  <2>3. CASE j \notin Jobs BY <2>1, <2>3 DEF Typed, ElectronicsTypeOK
  <2>. QED BY <2>2, <2>3
<1>. QED BY <1>1, <1>2

(* What the loops do keeps the queue typed, and a handler its job.         *)
QueueTyped == /\ job \in [Jobs -> Job] /\ loop \in [Backends -> Loop]
              /\ \A b \in Backends : loop[b].pc \in Busy => loop[b].on \in Jobs

(* One loop moves.                                                         *)
LEMMA OneLoop ==
  ASSUME Typed, NEW b \in Backends, NEW l \in Loop, l.pc \in Busy => l.on \in Jobs,
         loop' = [loop EXCEPT ![b] = l], job' \in [Jobs -> Job]
  PROVE QueueTyped'
BY DEF Typed, ElectronicsTypeOK, QueueTyped

(* Loops stay loops when they move.                                        *)
LEMMA LoopRecords ==
  ASSUME NEW l \in Loop, NEW pc \in {"head", "empty", "asleep", "write", "off"} \cup Handling,
         NEW j \in Jobs \cup {NoJob}, NEW ok \in BOOLEAN
  PROVE /\ [l EXCEPT !.pc = pc] \in Loop
        /\ [l EXCEPT !.pc = pc, !.ok = ok] \in Loop
        /\ [l EXCEPT !.pc = pc, !.on = j] \in Loop
        /\ [l EXCEPT !.pc = pc, !.on = j, !.ok = ok] \in Loop
        /\ [l EXCEPT !.stopping = TRUE, !.pc = pc] \in Loop
BY DEF Loop

(* The steps of a loop by what they do to it.                              *)
LEMMA GoesType ==
  ASSUME Typed, NEW b \in Backends, job' \in [Jobs -> Job],
         NEW pc \in {"head", "empty", "asleep", "write", "off"} \cup Handling,
         pc \in Busy => loop[b].on \in Jobs, Goes(b, pc)
  PROVE QueueTyped'
<1> DEFINE l == [loop[b] EXCEPT !.pc = pc]
<1>1. l \in Loop BY LoopRecords DEF Typed, ElectronicsTypeOK, NoJob
<1>2. loop' = [loop EXCEPT ![b] = l] BY DEF Goes
<1>3. l.pc \in Busy => l.on \in Jobs BY DEF Typed, ElectronicsTypeOK, Loop
<1>. HIDE DEF l
<1>. QED BY <1>1, <1>2, <1>3, OneLoop

(* A handler that ends leaves a result to be written.                      *)
LEMMA EndsType ==
  ASSUME Typed, NEW b \in Backends, job' \in [Jobs -> Job], loop[b].on \in Jobs,
         NEW ok \in BOOLEAN, Ends(b, ok)
  PROVE QueueTyped'
<1> DEFINE l == [loop[b] EXCEPT !.pc = "write", !.ok = ok]
<1>1. l \in Loop BY LoopRecords DEF Typed, ElectronicsTypeOK, NoJob
<1>2. loop' = [loop EXCEPT ![b] = l] BY DEF Ends, Typed, ElectronicsTypeOK
<1>3. l.on \in Jobs BY DEF Typed, ElectronicsTypeOK, Loop
<1>. HIDE DEF l
<1>. QED BY <1>1, <1>2, <1>3, OneLoop

(* A loop, step by step.                                                   *)
LEMMA LoopType ==
  ASSUME Typed, NEW b \in Backends, LoopStep(b) \/ ClaimFails(b) \/ Stop(b) \/ LoopCrash(b)
  PROVE QueueTyped'
<1>0. loop[b] \in Loop /\ job \in [Jobs -> Job] BY DEF Typed, ElectronicsTypeOK
<1>1. CASE Claim(b)
  <2>1. CASE \E j \in Claimable : Claimed(j) /\ loop' = [loop EXCEPT ![b].pc = "get", ![b].on = j]
    <3>1. PICK j \in Claimable : Claimed(j) /\ loop' = [loop EXCEPT ![b].pc = "get", ![b].on = j]
      BY <2>1
    <3> DEFINE l == [loop[b] EXCEPT !.pc = "get", !.on = j]
    <3>2. j \in Jobs BY DEF Claimable
    <3>3. l \in Loop BY <1>0, <3>2, LoopRecords DEF Handling
    <3>4. loop' = [loop EXCEPT ![b] = l] BY <3>1 DEF Typed, ElectronicsTypeOK
    <3>5. l.on \in Jobs BY <1>0, <3>2 DEF Loop
    <3>6. job' \in [Jobs -> Job] BY <3>1, ClaimedType
    <3>. HIDE DEF l
    <3>. QED BY <3>3, <3>4, <3>5, <3>6, OneLoop
  <2>2. CASE job' = Swept /\ Goes(b, "empty")
    BY <2>2, SweptType, GoesType DEF Busy, Handling
  <2>. QED BY <1>1, <2>1, <2>2 DEF Claim
<1>2. CASE ClaimFails(b)
  <2>1. job' \in [Jobs -> Job] BY <1>0, <1>2, ClaimedType DEF ClaimFails
  <2>. QED BY <1>2, <2>1, GoesType DEF ClaimFails, Busy, Handling
<1>3. CASE Write(b)
  <2>1. job' \in [Jobs -> Job] BY <1>0, <1>3, RecordedType DEF Write
  <2>2. PICK pc \in {"head", "empty"} : Done(b, pc) BY <1>3 DEF Write
  <2> DEFINE l == [loop[b] EXCEPT !.pc = pc, !.on = NoJob, !.ok = FALSE]
  <2>3. l \in Loop BY <1>0, LoopRecords
  <2>4. loop' = [loop EXCEPT ![b] = l] BY <2>2 DEF Done, Typed, ElectronicsTypeOK
  <2>5. l.pc \notin Busy BY <1>0 DEF Busy, Handling, Loop
  <2>. HIDE DEF l
  <2>. QED BY <2>1, <2>3, <2>4, <2>5, OneLoop
<1>4. CASE FallAsleep(b)
  <2>1. PICK pc \in {"off", "asleep"} : Goes(b, pc) BY <1>4 DEF FallAsleep
  <2>. QED BY <1>0, <1>4, <2>1, GoesType DEF FallAsleep, Busy, Handling
<1>5. CASE Poll(b) \/ EndLoop(b)
  <2>1. PICK pc \in {"head", "off"} : Goes(b, pc) BY <1>5 DEF Poll, EndLoop
  <2>. QED BY <1>0, <1>5, <2>1, GoesType DEF Poll, EndLoop, Busy, Handling
<1>6. CASE StartAgain(b) \/ LoopCrash(b)
  <2>1. Started.pc \notin Busy BY DEF Started, Busy, Handling
  <2>. QED BY <1>0, <1>6, <2>1, EmptyRows, OneLoop DEF StartAgain, LoopCrash
<1>7. CASE Stop(b)
  <2> DEFINE pc == IF loop[b].pc = "asleep" THEN "head" ELSE loop[b].pc
             l == [loop[b] EXCEPT !.stopping = TRUE, !.pc = pc]
  <2>1. pc \in {"head", "empty", "asleep", "write", "off"} \cup Handling BY <1>0 DEF Loop
  <2>2. l \in Loop BY <1>0, <2>1, LoopRecords DEF NoJob
  <2>3. loop' = [loop EXCEPT ![b] = l] BY <1>7 DEF Stop, Typed, ElectronicsTypeOK
  <2>4. l.pc \in Busy => l.on \in Jobs BY <1>0 DEF Typed, Loop, Busy, Handling
  <2>. HIDE DEF l
  <2>. QED BY <1>0, <1>7, <2>2, <2>3, <2>4, OneLoop DEF Stop
<1>. QED BY <1>1, <1>2, <1>3, <1>4, <1>5, <1>6, <1>7 DEF LoopStep

(* Time changes flags only.                                                *)
LEMMA TimeType ==
  ASSUME Typed, NEW j \in Jobs, ComeDue(j) \/ GoStale(j)
  PROVE QueueTyped'
<1>1. job[j] \in Job /\ job \in [Jobs -> Job] BY DEF Typed, ElectronicsTypeOK
<1>2. job' \in [Jobs -> Job]
  <2>1. PICK row \in Job : job' = [job EXCEPT ![j] = row]
    <3>1. CASE ComeDue(j) BY <1>1, <3>1, JobRecords DEF ComeDue
    <3>2. CASE GoStale(j) BY <1>1, <3>2, JobRecords DEF GoStale
    <3>. QED BY <3>1, <3>2
  <2>. QED BY <1>1, <2>1
<1>3. loop' = loop BY DEF ComeDue, GoStale
<1>. QED BY <1>2, <1>3 DEF Typed, ElectronicsTypeOK, QueueTyped

(* A status that is set, of an upload that is there.                       *)
LEMMA StatusType ==
  ASSUME Typed, NEW u \in Uploads, NEW s \in {"uploaded", "parsing", "review", "failed"},
         SetStatus(u, s)
  PROVE upload' \in [Uploads -> Upload]
<1>1. [upload[u] EXCEPT !.status = s] \in Upload BY DEF Typed, ElectronicsTypeOK, Upload
<1>. QED BY <1>1 DEF SetStatus, Typed, ElectronicsTypeOK

(* The handler: its job names an upload.                                   *)
LEMMA HandlerType ==
  ASSUME Typed, NEW b \in Backends, Handler(b)
  PROVE QueueTyped' /\ upload' \in [Uploads -> Upload] /\ graph' \subseteq Uploads
<1>1. loop[b].on \in Jobs
  BY DEF Handler, Get, SetParsing, ReadFiles, InsertGraph, SetReview, SetFailed, Typed, Busy,
     Handling
<1>2. Names(b) \in Uploads /\ job \in [Jobs -> Job] BY <1>1 DEF Names, Job, Typed, ElectronicsTypeOK
<1>3. job' = job
  BY DEF Handler, Get, SetParsing, ReadFiles, InsertGraph, SetReview, SetFailed, others
<1>4. \/ \E pc \in Handling : Goes(b, pc)
      \/ \E ok \in BOOLEAN : Ends(b, ok)
  BY DEF Handler, Get, SetParsing, ReadFiles, InsertGraph, SetReview, SetFailed, Handling
<1>5. QueueTyped' BY <1>1, <1>2, <1>3, <1>4, GoesType, EndsType
<1>6. upload' = upload \/ \E s \in {"parsing", "review", "failed"} : SetStatus(Names(b), s)
  BY DEF Handler, Get, SetParsing, ReadFiles, InsertGraph, SetReview, SetFailed
<1>7. upload' \in [Uploads -> Upload] BY <1>2, <1>6, StatusType DEF Typed, ElectronicsTypeOK
<1>8. graph' \subseteq Uploads
  BY <1>2 DEF Handler, Get, SetParsing, ReadFiles, InsertGraph, SetReview, SetFailed, Typed,
     ElectronicsTypeOK
<1>. QED BY <1>5, <1>7, <1>8

(* A request as it goes on: in what it holds, an upload.                   *)
AskedTyped == /\ asked \in [Requests -> Request]
              /\ \A r \in Requests : asked[r].pc \in Holding => asked[r].up \in Uploads

(* The record of one request is replaced.                                  *)
LEMMA OneRequest ==
  ASSUME Typed, NEW r \in Requests, NEW q \in Request, q.pc \in Holding => q.up \in Uploads,
         asked' = [asked EXCEPT ![r] = q]
  PROVE AskedTyped'
BY DEF Typed, ElectronicsTypeOK, AskedTyped

(* What requests read into their records.                                  *)
RequestSteps == {"new", "list", "revise", "raced", "winner", "existing", "store", "insert",
                 "unstore", "reuse", "check", "reset", "enqueue", "record", "revisions",
                 "design", "uploads", "erase", "unlink", "drop", "remove", "answered"}

(* Requests stay requests.                                                 *)
LEMMA RequestRecords ==
  ASSUME NEW q \in Request, NEW pc \in RequestSteps
  PROVE /\ [q EXCEPT !.pc = pc] \in Request
        /\ \A c \in Contents, v \in Requests \cup {NoId} :
             [q EXCEPT !.pc = pc, !.what = c, !.rev = v] \in Request
        /\ \A c \in Contents : [q EXCEPT !.pc = pc, !.what = c] \in Request
        /\ \A v \in Requests \cup {NoId} : /\ [q EXCEPT !.pc = pc, !.rev = v] \in Request
                                          /\ [q EXCEPT !.pc = pc, !.up = v] \in Request
        /\ \A rows \in [Contents -> Revision] : [q EXCEPT !.pc = pc, !.seen = rows] \in Request
        /\ \A l \in SUBSET Requests : [q EXCEPT !.pc = pc, !.list = l] \in Request
        /\ \A whole \in BOOLEAN, revs \in SUBSET (Requests \cup {NoId}) :
             [q EXCEPT !.pc = pc, !.whole = whole, !.revs = revs] \in Request
        /\ \A revs \in SUBSET (Requests \cup {NoId}) :
             [q EXCEPT !.pc = pc, !.revs = revs] \in Request
<1>1. [q EXCEPT !.pc = pc] \in Request
  BY DEF Request, RequestSteps
<1>2. \A c \in Contents, v \in Requests \cup {NoId} :
             [q EXCEPT !.pc = pc, !.what = c, !.rev = v] \in Request
  BY DEF Request, RequestSteps
<1>3. \A c \in Contents : [q EXCEPT !.pc = pc, !.what = c] \in Request
  BY DEF Request, RequestSteps
<1>4. \A v \in Requests \cup {NoId} : [q EXCEPT !.pc = pc, !.rev = v] \in Request
  BY DEF Request, RequestSteps
<1>5. \A v \in Requests \cup {NoId} : [q EXCEPT !.pc = pc, !.up = v] \in Request
  BY DEF Request, RequestSteps
<1>6. \A rows \in [Contents -> Revision] : [q EXCEPT !.pc = pc, !.seen = rows] \in Request
  BY DEF Request, RequestSteps
<1>7. \A l \in SUBSET Requests : [q EXCEPT !.pc = pc, !.list = l] \in Request
  BY DEF Request, RequestSteps
<1>8. \A whole \in BOOLEAN, revs \in SUBSET (Requests \cup {NoId}) :
             [q EXCEPT !.pc = pc, !.whole = whole, !.revs = revs] \in Request
  BY DEF Request, RequestSteps
<1>9. \A revs \in SUBSET (Requests \cup {NoId}) : [q EXCEPT !.pc = pc, !.revs = revs] \in Request
  BY DEF Request, RequestSteps
<1>. QED BY <1>1, <1>2, <1>3, <1>4, <1>5, <1>6, <1>7, <1>8, <1>9

(* One request moves, or is answered.                                      *)
LEMMA MovesType ==
  ASSUME Typed, NEW r \in Requests, NEW pc \in RequestSteps,
         pc \in Holding => asked[r].up \in Uploads, Moves(r, pc)
  PROVE AskedTyped'
<1> DEFINE q == [asked[r] EXCEPT !.pc = pc]
<1>0. asked[r] \in Request BY DEF Typed, ElectronicsTypeOK
<1>1. q \in Request BY <1>0 DEF Request, RequestSteps
<1>2. asked' = [asked EXCEPT ![r] = q] BY DEF Moves
<1>3. q.pc \in Holding => q.up \in Uploads BY <1>0 DEF Request
<1>. HIDE DEF q
<1>. QED BY <1>1, <1>2, <1>3, OneRequest

(* An answered request holds nothing.                                      *)
LEMMA AnsweredType ==
  ASSUME Typed, NEW r \in Requests, Answered(r)
  PROVE AskedTyped'
<1> DEFINE q == [NewRequest EXCEPT !.pc = "answered"]
<1>1. q \in Request BY EmptyRows DEF Request
<1>2. q.pc \notin Holding BY EmptyRows DEF Request, Holding
<1>3. asked' = [asked EXCEPT ![r] = q] BY DEF Answered
<1>. HIDE DEF q
<1>. QED BY <1>1, <1>2, <1>3, OneRequest

(* The design, its revisions and its uploads.                              *)
TablesTyped == /\ design \in BOOLEAN
               /\ revision \in [Contents -> Revision]
               /\ upload \in [Uploads -> Upload]
               /\ files \subseteq Uploads /\ known \subseteq Uploads /\ graph \subseteq Uploads

(* A step that does not touch the tables.                                  *)
LEMMA SameTables == Typed /\ UNCHANGED tables => TablesTyped'
BY DEF Typed, ElectronicsTypeOK, TablesTyped, tables

(* A request that does not touch the queue.                                *)
LEMMA SameQueue == Typed /\ UNCHANGED queue => QueueTyped'
BY DEF Typed, ElectronicsTypeOK, QueueTyped, queue

(* Requests that read: what they take is in the tables.                    *)
LEMMA ReadingType ==
  ASSUME Typed, NEW r \in Requests,
         Ask(r) \/ List(r) \/ LostRace(r) \/ FindUpload(r) \/ Reuse(r) \/ Check(r)
         \/ Revisions(r) \/ ReadRevisions(r) \/ ListUploads(r) \/ RequestFails(r)
  PROVE AskedTyped'
<1> DEFINE With(q) == asked' = [asked EXCEPT ![r] = q]
<1>0. /\ asked[r] \in Request /\ asked \in [Requests -> Request]
      /\ revision \in [Contents -> Revision] /\ Uploads = Requests
  BY DesignAssumption DEF Typed, ElectronicsTypeOK
<1>1. CASE Ask(r)
  <2>1. CASE \E c \in Contents : asked' = [asked EXCEPT ![r].pc = "list", ![r].what = c]
    <3>1. PICK c \in Contents : asked' = [asked EXCEPT ![r].pc = "list", ![r].what = c] BY <2>1
    <3> DEFINE q == [asked[r] EXCEPT !.pc = "list", !.what = c]
    <3>2. q \in Request BY <1>0, RequestRecords DEF RequestSteps
    <3>3. q.pc \notin Holding BY <1>0 DEF Request, Holding
    <3>4. asked' = [asked EXCEPT ![r] = q] BY <1>0, <3>1
    <3>. HIDE DEF q
    <3>. QED BY <3>2, <3>3, <3>4, OneRequest
  <2>2. CASE \E u \in Uploads : asked' = [asked EXCEPT ![r].pc = "check", ![r].up = u]
    <3>1. PICK u \in Uploads : asked' = [asked EXCEPT ![r].pc = "check", ![r].up = u] BY <2>2
    <3> DEFINE q == [asked[r] EXCEPT !.pc = "check", !.up = u]
    <3>2. q \in Request BY <1>0, RequestRecords DEF RequestSteps
    <3>3. q.up \in Uploads BY <1>0 DEF Request
    <3>4. asked' = [asked EXCEPT ![r] = q] BY <1>0, <3>1
    <3>. HIDE DEF q
    <3>. QED BY <3>2, <3>3, <3>4, OneRequest
  <2>3. CASE \E v \in Ids(revision) : asked' = [asked EXCEPT ![r].pc = "revisions", ![r].rev = v]
    <3>1. PICK v \in Ids(revision) : asked' = [asked EXCEPT ![r].pc = "revisions", ![r].rev = v]
      BY <2>3
    <3>2. v \in Requests \cup {NoId} BY <1>0 DEF Ids, Listed, Revision
    <3> DEFINE q == [asked[r] EXCEPT !.pc = "revisions", !.rev = v]
    <3>3. q \in Request BY <1>0, <3>2, RequestRecords DEF RequestSteps
    <3>4. q.pc \notin Holding BY <1>0 DEF Request, Holding
    <3>5. asked' = [asked EXCEPT ![r] = q] BY <1>0, <3>1
    <3>. HIDE DEF q
    <3>. QED BY <3>3, <3>4, <3>5, OneRequest
  <2>. QED BY <1>1, <2>1, <2>2, <2>3 DEF Ask
<1>2. CASE List(r)
  <2> DEFINE old == revision[asked[r].what].id
             q1 == [asked[r] EXCEPT !.pc = "existing", !.rev = old]
             q2 == [asked[r] EXCEPT !.pc = "revise", !.seen = revision]
  <2>1. old \in Requests \cup {NoId} BY <1>0 DEF Request, Revision
  <2>2. q1 \in Request /\ q2 \in Request BY <1>0, <2>1, RequestRecords DEF RequestSteps
  <2>3. q1.pc \notin Holding /\ q2.pc \notin Holding BY <1>0 DEF Request, Holding
  <2>4. With(q1) \/ With(q2) BY <1>0, <1>2 DEF List
  <2>. HIDE DEF q1, q2
  <2>. QED BY <2>2, <2>3, <2>4, OneRequest
<1>3. CASE LostRace(r)
  <2> DEFINE won == revision[asked[r].what].id
             q == [asked[r] EXCEPT !.pc = "winner", !.rev = won]
  <2>1. won \in Requests \cup {NoId} BY <1>0 DEF Request, Revision
  <2>2. q \in Request BY <1>0, <2>1, RequestRecords DEF RequestSteps
  <2>3. q.pc \notin Holding BY <1>0 DEF Request, Holding
  <2>4. With(q) \/ Answered(r) BY <1>0, <1>3 DEF LostRace
  <2>. HIDE DEF q
  <2>. QED BY <2>2, <2>3, <2>4, OneRequest, AnsweredType
<1>4. CASE FindUpload(r)
  <2>1. CASE \E u \in Uploads : asked' = [asked EXCEPT ![r].pc = "reuse", ![r].up = u]
    <3>1. PICK u \in Uploads : asked' = [asked EXCEPT ![r].pc = "reuse", ![r].up = u] BY <2>1
    <3> DEFINE q == [asked[r] EXCEPT !.pc = "reuse", !.up = u]
    <3>2. q \in Request BY <1>0, RequestRecords DEF RequestSteps
    <3>3. q.up \in Uploads BY <1>0 DEF Request
    <3>4. asked' = [asked EXCEPT ![r] = q] BY <1>0, <3>1
    <3>. HIDE DEF q
    <3>. QED BY <3>2, <3>3, <3>4, OneRequest
  <2>2. CASE Answered(r) BY <2>2, AnsweredType
  <2>3. CASE Moves(r, "store") BY <2>3, MovesType DEF RequestSteps, Holding
  <2>. QED BY <1>4, <2>1, <2>2, <2>3 DEF FindUpload, Of
<1>5. CASE Reuse(r)
  BY <1>5, MovesType, AnsweredType DEF Reuse, RequestSteps, Holding, Typed
<1>6. CASE Check(r)
  BY <1>6, MovesType, AnsweredType DEF Check, RequestSteps, Holding, Typed
<1>7. CASE Revisions(r)
  <2>0. PICK whole \in BOOLEAN : whole = (Cardinality(Listed(revision)) = 1) OBVIOUS
  <2>1. PICK pc \in {"design", "uploads"} : pc = IF whole THEN "design" ELSE "uploads" OBVIOUS
  <2> DEFINE q == [asked[r] EXCEPT !.pc = pc, !.whole = whole, !.revs = {asked[r].rev}]
  <2>2. q \in Request
    <3>1. {asked[r].rev} \in SUBSET (Requests \cup {NoId}) BY <1>0 DEF Request
    <3>. QED BY <1>0, <3>1, RequestRecords DEF RequestSteps
  <2>3. q.pc \notin Holding BY <1>0 DEF Request, Holding
  <2>4. With(q) \/ Answered(r) BY <1>0, <1>7, <2>0, <2>1 DEF Revisions
  <2>. HIDE DEF q
  <2>. QED BY <2>2, <2>3, <2>4, OneRequest, AnsweredType
<1>10. CASE ReadRevisions(r)
  <2> DEFINE q == [asked[r] EXCEPT !.pc = "uploads", !.revs = Ids(revision)]
  <2>1. Ids(revision) \in SUBSET (Requests \cup {NoId}) BY <1>0 DEF Ids, Listed, Revision
  <2>2. q \in Request BY <1>0, <2>1, RequestRecords DEF RequestSteps
  <2>3. q.pc \notin Holding BY <1>0 DEF Request, Holding
  <2>4. With(q) \/ Answered(r) BY <1>0, <1>10 DEF ReadRevisions
  <2>. HIDE DEF q
  <2>. QED BY <2>2, <2>3, <2>4, OneRequest, AnsweredType
<1>8. CASE ListUploads(r)
  <2> DEFINE l == Of(asked[r].revs)
             q == [asked[r] EXCEPT !.pc = "erase", !.list = l]
  <2>1. l \in SUBSET Requests BY <1>0 DEF Of
  <2>4. With(q) BY <1>0, <1>8 DEF ListUploads
  <2>. HIDE DEF l
  <2>2. q \in Request BY <1>0, <2>1, RequestRecords DEF RequestSteps
  <2>3. q.pc \notin Holding BY <1>0 DEF Request, Holding
  <2>. HIDE DEF q
  <2>. QED BY <2>2, <2>3, <2>4, OneRequest
<1>9. CASE RequestFails(r) BY <1>9, AnsweredType DEF RequestFails
<1>. QED BY <1>1, <1>2, <1>3, <1>4, <1>5, <1>6, <1>7, <1>8, <1>9, <1>10

(* Contents are finitely many in all that is listed: a count is a number.  *)
LEMMA ListedCount ==
  ASSUME NEW rows
  PROVE Cardinality(Listed(rows)) + 1 \in Nat
<1>1. IsFiniteSet(Listed(rows)) BY DesignAssumption, FS_Subset DEF Listed
<1>. QED BY <1>1, FS_CardinalityType

(* The processes of a scenario are backends.                               *)
LEMMA ScenarioBackends == Typed => scenario.backends \subseteq Backends
BY QueueAssumption DEF Typed, ElectronicsTypeOK

(* Requests that write.                                                    *)
LEMMA WritingType ==
  ASSUME Typed, NEW r \in Requests,
         Revise(r) \/ Store(r) \/ InsertUpload(r) \/ Unstore(r) \/ Reset(r) \/ Record(r)
         \/ EraseUploads(r) \/ EraseRevision(r) \/ EraseDesign(r) \/ RemoveFiles(r)
  PROVE TablesTyped' /\ AskedTyped'
<1> USE DEF TablesTyped
<1>0. /\ asked[r] \in Request /\ asked \in [Requests -> Request] /\ r \in Uploads
      /\ Uploads = Requests /\ TablesTyped
  BY DesignAssumption DEF Typed, ElectronicsTypeOK
<1>1. CASE Revise(r)
  <2> DEFINE c == asked[r].what
             label == Cardinality(Listed(asked[r].seen)) + 1
             raced == [NewRequest EXCEPT !.pc = "raced", !.what = c]
             store == [NewRequest EXCEPT !.pc = "store", !.what = c, !.rev = r]
  <2>1. c \in Contents BY <1>0 DEF Request
  <2>2. raced \in Request /\ store \in Request
    BY <1>0, <2>1, EmptyRows, RequestRecords DEF RequestSteps
  <2>3. raced.pc \notin Holding /\ store.pc \notin Holding BY EmptyRows DEF Request, Holding
  <2>4. \/ Answered(r) /\ UNCHANGED revision
        \/ asked' = [asked EXCEPT ![r] = raced] /\ UNCHANGED revision
        \/ /\ asked' = [asked EXCEPT ![r] = store]
           /\ revision' = [revision EXCEPT ![c] = [id |-> r, label |-> label]]
    BY <1>1 DEF Revise
  <2>5. UNCHANGED <<design, upload, files, known, graph>> BY <1>1 DEF Revise
  <2>6. AskedTyped'
    <3>. HIDE DEF raced, store
    <3>. QED BY <2>2, <2>3, <2>4, AnsweredType, OneRequest
  <2>7. revision' \in [Contents -> Revision]
    <3>1. label \in Nat BY ListedCount
    <3>. HIDE DEF label
    <3>2. [id |-> r, label |-> label] \in Revision BY <3>1 DEF Revision
    <3>. QED BY <1>0, <2>1, <2>4, <3>2
  <2>. QED BY <1>0, <2>5, <2>6, <2>7
<1>2. CASE Store(r)
  BY <1>0, <1>2, MovesType DEF Store, RequestSteps, Holding
<1>3. CASE InsertUpload(r)
  <2> DEFINE row == [status |-> "uploaded", of |-> asked[r].rev]
             q == [asked[r] EXCEPT !.pc = "enqueue", !.up = r]
  <2>1. row \in Upload BY <1>0 DEF Upload, Request
  <2>2. upload' \in [Uploads -> Upload]
    <3>1. upload' = [upload EXCEPT ![r] = row] \/ upload' = upload BY <1>3 DEF InsertUpload
    <3>. HIDE DEF row
    <3>. QED BY <1>0, <2>1, <3>1
  <2>3. q \in Request BY <1>0, RequestRecords DEF RequestSteps
  <2>4. q.up \in Uploads BY <1>0 DEF Request
  <2>5. asked' = [asked EXCEPT ![r] = q] \/ Moves(r, "unstore") BY <1>0, <1>3 DEF InsertUpload
  <2>6. AskedTyped'
    <3>. HIDE DEF q
    <3>. QED BY <2>3, <2>4, <2>5, OneRequest, MovesType DEF RequestSteps, Holding
  <2>. QED BY <1>0, <1>3, <2>2, <2>6 DEF InsertUpload
<1>4. CASE Unstore(r) \/ RemoveFiles(r)
  BY <1>0, <1>4, AnsweredType DEF Unstore, RemoveFiles
<1>5. CASE Reset(r)
  <2>1. asked[r].up \in Uploads BY <1>5 DEF Reset, Typed, Holding
  <2>2. upload' \in [Uploads -> Upload] BY <1>5, <2>1, StatusType DEF Reset
  <2>3. AskedTyped' BY <1>5, <2>1, MovesType DEF Reset, RequestSteps
  <2>. QED BY <1>0, <1>5, <2>2, <2>3 DEF Reset
<1>6. CASE Record(r)
  <2>1. asked[r].up \in Uploads BY <1>6 DEF Record, Typed, Holding
  <2>. QED BY <1>0, <1>6, <2>1, AnsweredType DEF Record
<1>7. CASE EraseUploads(r)
  <2>1. upload' \in [Uploads -> Upload] BY <1>0, <1>7, EmptyRows DEF EraseUploads
  <2>2. AskedTyped' BY <1>7, MovesType DEF EraseUploads, RequestSteps, Holding
  <2>. QED BY <1>0, <1>7, <2>1, <2>2 DEF EraseUploads
<1>8. CASE EraseRevision(r)
  <2>1. revision' \in [Contents -> Revision] BY <1>0, <1>8, EmptyRows DEF EraseRevision
  <2>2. AskedTyped' BY <1>8, MovesType, AnsweredType DEF EraseRevision, RequestSteps, Holding
  <2>. QED BY <1>0, <1>8, <2>1, <2>2 DEF EraseRevision
<1>9. CASE EraseDesign(r)
  <2>1. revision' \in [Contents -> Revision] /\ design' \in BOOLEAN
    BY <1>0, <1>9, EmptyRows DEF EraseDesign
  <2>2. AskedTyped' BY <1>9, MovesType, AnsweredType DEF EraseDesign, RequestSteps, Holding
  <2>. QED BY <1>0, <1>9, <2>1, <2>2 DEF EraseDesign
<1>. QED BY <1>1, <1>2, <1>3, <1>4, <1>5, <1>6, <1>7, <1>8, <1>9

(* Requests that queue a job.                                              *)
LEMMA EnqueueType ==
  ASSUME Typed, NEW r \in Requests, Enqueue(r) \/ EnqueueLost(r)
  PROVE QueueTyped' /\ AskedTyped'
<1>1. asked[r].up \in Uploads BY DEF Enqueue, EnqueueLost, Typed, Holding
<1>2. Inserted(asked[r].up) BY DEF Enqueue, EnqueueLost, Enqueued
<1>3. job' \in [Jobs -> Job] BY <1>1, <1>2, InsertedType
<1>4. AskedTyped'
  BY <1>1, MovesType, AnsweredType DEF Enqueue, EnqueueLost, RequestSteps
<1>5. loop' = loop \/ \E b \in Backends : Goes(b, "head")
  BY ScenarioBackends DEF Enqueue, EnqueueLost, Enqueued, Wakes, Goes
<1>6. QueueTyped'
  <2>1. CASE loop' = loop BY <1>3, <2>1 DEF QueueTyped, Typed, ElectronicsTypeOK
  <2>2. CASE \E b \in Backends : Goes(b, "head")
    BY <1>3, <2>2, GoesType DEF Busy, Handling
  <2>. QED BY <1>5, <2>1, <2>2
<1>. QED BY <1>4, <1>6

(* Every step keeps every type.                                            *)
LEMMA TypedStep ==
  ASSUME Typed, [ElectronicsNext]_vars
  PROVE Typed'
<1>0. /\ scenario \in Scenarios /\ QueueTyped /\ TablesTyped /\ AskedTyped
      /\ (scenario' \in Scenarios /\ QueueTyped' /\ TablesTyped' /\ AskedTyped') => Typed'
  BY DEF Typed, ElectronicsTypeOK, QueueTyped, TablesTyped, AskedTyped
<1>1. CASE UNCHANGED vars
  BY <1>1 DEF vars, queue, tables, Typed, ElectronicsTypeOK
<1>2. CASE \E b \in scenario.backends :
             \/ Runs(b)
             \/ (ClaimFails(b) \/ Stop(b) \/ LoopCrash(b)) /\ UNCHANGED <<tables, asked>>
  <2>1. PICK b \in Backends :
          \/ Runs(b)
          \/ (ClaimFails(b) \/ Stop(b) \/ LoopCrash(b)) /\ UNCHANGED <<tables, asked>>
    BY <1>2, ScenarioBackends
  <2>2. CASE Handler(b)
    <3>1. UNCHANGED <<scenario, design, revision, files, known, asked>>
      BY <2>2 DEF Handler, Get, SetParsing, ReadFiles, InsertGraph, SetReview, SetFailed, others
    <3>. QED BY <1>0, <2>2, <3>1, HandlerType DEF TablesTyped, AskedTyped
  <2>3. CASE ~Handler(b)
    <3>1. LoopStep(b) \/ ClaimFails(b) \/ Stop(b) \/ LoopCrash(b) BY <2>1, <2>3 DEF Runs
    <3>2. scenario' = scenario
      BY <3>1 DEF LoopStep, Claim, FallAsleep, Poll, Write, EndLoop, StartAgain, ClaimFails, Stop,
         LoopCrash
    <3>3. QueueTyped' BY <3>1, LoopType
    <3>4. UNCHANGED <<tables, asked>> BY <2>1, <2>3 DEF Runs
    <3>. QED BY <1>0, <3>2, <3>3, <3>4, SameTables DEF AskedTyped
  <2>. QED BY <2>2, <2>3
<1>3. CASE \E r \in Requests : Ask(r) \/ RequestStep(r) \/ EnqueueLost(r) \/ RequestFails(r)
  <2>1. PICK r \in Requests : Ask(r) \/ RequestStep(r) \/ EnqueueLost(r) \/ RequestFails(r) BY <1>3
  <2>2. CASE Enqueue(r) \/ EnqueueLost(r)
    <3>1. UNCHANGED <<scenario, tables>> BY <2>2 DEF Enqueue, EnqueueLost
    <3>. QED BY <1>0, <2>2, <3>1, EnqueueType, SameTables
  <2>3. CASE Ask(r) \/ List(r) \/ LostRace(r) \/ FindUpload(r) \/ Reuse(r) \/ Check(r)
             \/ Revisions(r) \/ ReadRevisions(r) \/ ListUploads(r) \/ RequestFails(r)
    <3>1. UNCHANGED <<queue, tables>>
      BY <2>3 DEF Ask, List, LostRace, FindUpload, Reuse, Check, Revisions, ReadRevisions,
         ListUploads, RequestFails
    <3>. QED BY <1>0, <2>3, <3>1, ReadingType, SameTables, SameQueue DEF queue
  <2>4. CASE Revise(r) \/ Store(r) \/ InsertUpload(r) \/ Unstore(r) \/ Reset(r) \/ Record(r)
             \/ EraseUploads(r) \/ EraseRevision(r) \/ EraseDesign(r) \/ RemoveFiles(r)
    <3>1. UNCHANGED queue
      BY <2>4 DEF Revise, Store, InsertUpload, Unstore, Reset, Record, EraseUploads, EraseRevision,
         EraseDesign, RemoveFiles
    <3>. QED BY <1>0, <2>4, <3>1, WritingType, SameQueue DEF queue
  <2>. QED BY <2>1, <2>2, <2>3, <2>4 DEF RequestStep
<1>4. CASE \E j \in Jobs : (ComeDue(j) \/ GoStale(j)) /\ UNCHANGED <<tables, asked>>
  <2>1. QueueTyped' /\ scenario' = scenario BY <1>4, TimeType DEF ComeDue, GoStale
  <2>2. UNCHANGED <<tables, asked>> BY <1>4
  <2>. QED BY <1>0, <2>1, <2>2, SameTables DEF AskedTyped
<1>. QED BY <1>1, <1>2, <1>3, <1>4 DEF ElectronicsNext

(* Every reachable state is of the right types, with any faults.           *)
THEOREM ElectronicsTyped == ElectronicsSpec => []Typed
<1>. QED BY TypedStart, TypedStep, PTL DEF ElectronicsSpec

(* ElectronicsTypeOK as the runs check it.                                 *)
THEOREM ElectronicsTypeCorrect == ElectronicsSpec => []ElectronicsTypeOK
<1>1. Typed => ElectronicsTypeOK BY DEF Typed
<1>. QED BY <1>1, ElectronicsTyped, PTL

-----------------------------------------------------------------------------
(* The attempts of a job.  Only its row matters: a loop may write a result *)
(* late, twice, or for a job another one has claimed since.                *)

(* A row that has ended stays.                                             *)
KeepsEnded == \A j \in Jobs : job[j].state \in {"completed", "failed"} => job'[j] = job[j]

(* How the row of a job may change: the steps of JobLifecycle.             *)
RowMoves(old, new) ==
  \/ old.state = "none" /\ new.state = "queued" /\ new.attempts = 0
  \/ /\ old.state \in {"queued", "running"} /\ new.state = "running"
     /\ old.attempts < MaxAttempts /\ new.attempts = old.attempts + 1
  \/ /\ old.state = "running" /\ new.attempts = old.attempts
     /\ \/ new.state = "completed"
        \/ new.state = "queued" /\ old.attempts < MaxAttempts
        \/ new.state = "failed" /\ old.attempts = MaxAttempts
  \/ new.state = old.state /\ new.attempts = old.attempts

(* What every step does to the rows.                                       *)
WellKept == /\ JobAttemptsBounded' /\ KeepsEnded
            /\ \A j \in Jobs : RowMoves(job[j], job'[j])

(* Rows that stay, or change in what is not counted.                       *)
LEMMA SameRows ==
  ASSUME Typed, JobAttemptsBounded, job' = job
  PROVE WellKept
BY DEF JobAttemptsBounded, KeepsEnded, RowMoves, WellKept

(* One row changes, that had not ended.                                    *)
LEMMA OneRow ==
  ASSUME Typed, JobAttemptsBounded, NEW j \in Jobs, NEW row, job' = [job EXCEPT ![j] = row],
         job[j].state \notin {"completed", "failed"}, row.attempts <= MaxAttempts,
         row.state = "queued" => row.attempts < MaxAttempts, RowMoves(job[j], row)
  PROVE WellKept
<1>1. \A k \in Jobs : job'[k] = IF k = j THEN row ELSE job[k] BY DEF Typed, ElectronicsTypeOK
<1>2. \A k \in Jobs : RowMoves(job[k], job'[k]) BY <1>1 DEF RowMoves
<1>3. JobAttemptsBounded' BY <1>1 DEF JobAttemptsBounded
<1>4. KeepsEnded BY <1>1 DEF KeepsEnded
<1>. QED BY <1>2, <1>3, <1>4 DEF WellKept

(* A new job has no attempt yet.                                           *)
LEMMA InsertedKeeps ==
  ASSUME Typed, JobAttemptsBounded, NEW u \in Uploads, Inserted(u)
  PROVE WellKept
<1> DEFINE row == [NoRow EXCEPT !.state = "queued", !.due = TRUE, !.about = u]
<1>1. PICK j \in Jobs : job[j].state = "none" /\ job' = [job EXCEPT ![j] = row] BY DEF Inserted
<1>2. row.state = "queued" /\ row.attempts = 0 BY EmptyRows DEF Job, NoRow
<1>. HIDE DEF row
<1>3. RowMoves(job[j], row) BY <1>1, <1>2 DEF RowMoves
<1>4. row.attempts <= MaxAttempts /\ row.attempts < MaxAttempts BY <1>2, QueueAssumption
<1>. QED BY <1>1, <1>2, <1>3, <1>4, OneRow

(* The sweep only fails rows.                                              *)
LEMMA SweptKeeps ==
  ASSUME Typed, JobAttemptsBounded, job' = Swept
  PROVE WellKept
<1>1. \A j \in Jobs : /\ job[j].attempts \in Nat /\ job[j].attempts <= MaxAttempts
                      /\ \/ job'[j] = job[j]
                         \/ /\ job[j].state = "running" /\ job[j].attempts >= MaxAttempts
                            /\ job'[j].state = "failed" /\ job'[j].attempts = job[j].attempts
  BY DEF Typed, ElectronicsTypeOK, Job, Swept, Exhausted, JobAttemptsBounded
<1>2. \A j \in Jobs : RowMoves(job[j], job'[j]) BY <1>1, QueueAssumption DEF RowMoves
<1>. QED BY <1>1, <1>2 DEF JobAttemptsBounded, KeepsEnded, WellKept

(* A claim counts, of a row that has an attempt left.                      *)
LEMMA ClaimedKeeps ==
  ASSUME Typed, JobAttemptsBounded, NEW j \in Claimable, Claimed(j)
  PROVE WellKept
<1>1. /\ j \in Jobs /\ job[j].state \in {"queued", "running"} /\ ~Exhausted(j)
      /\ job[j].attempts \in Nat /\ job[j].attempts < MaxAttempts
  BY QueueAssumption DEF Claimable, Exhausted, JobAttemptsBounded, Typed, ElectronicsTypeOK, Job
<1>2. Swept \in [Jobs -> Job] /\ job \in [Jobs -> Job] BY SweptType DEF Typed, ElectronicsTypeOK
<1> DEFINE row == [Swept[j] EXCEPT !.state = "running", !.stale = FALSE,
                                   !.attempts = job[j].attempts + 1]
<1>3. job' = [Swept EXCEPT ![j] = row] BY <1>1, <1>2 DEF Claimed
<1>4. row.state = "running" /\ row.attempts = job[j].attempts + 1 BY <1>1, <1>2 DEF Job
<1>. HIDE DEF row
<1>5. \A k \in Jobs : job'[k] = IF k = j THEN row ELSE Swept[k] BY <1>1, <1>2, <1>3
<1>6. \A k \in Jobs : /\ Swept[k].attempts = job[k].attempts
                      /\ Swept[k].state = "queued" => job[k].state = "queued"
                      /\ job[k].state \in {"completed", "failed"} => Swept[k] = job[k]
                      /\ Exhausted(k) \/ Swept[k] = job[k]
                      /\ Exhausted(k) => Swept[k].state = "failed"
  BY <1>2 DEF Swept, Exhausted, Job
<1>7. \A k \in Jobs : Exhausted(k) => job[k].state = "running" /\ job[k].attempts = MaxAttempts
  <2>1. \A k \in Jobs : job[k].attempts \in Nat /\ job[k].attempts <= MaxAttempts
    BY <1>2 DEF Job, JobAttemptsBounded
  <2>. QED BY <2>1, QueueAssumption DEF Exhausted
<1>8. \A k \in Jobs : RowMoves(job[k], job'[k])
  <2>1. RowMoves(job[j], job'[j]) BY <1>1, <1>4, <1>5 DEF RowMoves
  <2>2. \A k \in Jobs \ {j} : RowMoves(job[k], job'[k]) BY <1>5, <1>6, <1>7 DEF RowMoves
  <2>. QED BY <2>1, <2>2
<1>. QED BY <1>1, <1>4, <1>5, <1>6, <1>8, QueueAssumption DEF JobAttemptsBounded, KeepsEnded, WellKept

(* A result is recorded of a running row: its count stays.                 *)
LEMMA RecordedKeeps ==
  ASSUME Typed, JobAttemptsBounded, NEW b, Recorded(b)
  PROVE WellKept
<1> DEFINE j == loop[b].on
           s == IF loop[b].ok THEN "completed"
                ELSE IF job[j].attempts < MaxAttempts THEN "queued" ELSE "failed"
           row == [job[j] EXCEPT !.state = s, !.due = FALSE, !.stale = FALSE]
<1>0. job \in [Jobs -> Job] BY DEF Typed, ElectronicsTypeOK
<1>1. CASE job[j].state = "running" /\ j \in Jobs
  <2>1. job' = [job EXCEPT ![j] = row] BY <1>0, <1>1 DEF Recorded
  <2>2. row.state = s /\ row.attempts = job[j].attempts BY <1>0, <1>1 DEF Job
  <2>3. /\ s \in {"completed", "queued", "failed"}
        /\ s = "queued" => job[j].attempts < MaxAttempts
        /\ s = "failed" => ~(job[j].attempts < MaxAttempts)
    OBVIOUS
  <2>4. job[j].attempts \in Nat /\ job[j].attempts <= MaxAttempts
    BY <1>0, <1>1 DEF Job, JobAttemptsBounded
  <2>. HIDE DEF row, s
  <2>5. RowMoves(job[j], row) BY <1>1, <2>2, <2>3, <2>4, QueueAssumption DEF RowMoves
  <2>. QED BY <1>1, <2>1, <2>2, <2>3, <2>4, <2>5, OneRow
<1>2. CASE ~(job[j].state = "running" /\ j \in Jobs)
  <2>1. job' = job BY <1>0, <1>2 DEF Recorded
  <2>. QED BY <2>1, SameRows
<1>. QED BY <1>1, <1>2

(* Time changes flags only.                                                *)
LEMMA TimeKeeps ==
  ASSUME Typed, JobAttemptsBounded, NEW j \in Jobs, ComeDue(j) \/ GoStale(j)
  PROVE WellKept
<1>0. job \in [Jobs -> Job] BY DEF Typed, ElectronicsTypeOK
<1>1. PICK row \in {[job[j] EXCEPT !.due = TRUE], [job[j] EXCEPT !.stale = TRUE]} :
        job' = [job EXCEPT ![j] = row]
  BY <1>0 DEF ComeDue, GoStale
<1>2. row.state = job[j].state /\ row.attempts = job[j].attempts BY <1>0, <1>1 DEF Job
<1>3. job[j].state \in {"queued", "running"} BY DEF ComeDue, GoStale
<1>. QED BY <1>1, <1>2, <1>3, OneRow DEF JobAttemptsBounded, RowMoves

(* Only claims, results, new jobs and time touch the queue.                *)
LEMMA RowsKept ==
  ASSUME Typed, JobAttemptsBounded, [ElectronicsNext]_vars
  PROVE WellKept
<1>1. CASE \E b \in scenario.backends : Claim(b) \/ ClaimFails(b)
  BY <1>1, SameRows, SweptKeeps, ClaimedKeeps DEF Claim, ClaimFails
<1>2. CASE \E b \in scenario.backends : Write(b)
  BY <1>2, SameRows, RecordedKeeps DEF Write
<1>3. CASE \E r \in Requests : Enqueue(r) \/ EnqueueLost(r)
  <2>1. PICK r \in Requests : Enqueue(r) \/ EnqueueLost(r) BY <1>3
  <2>2. asked[r].up \in Uploads /\ Inserted(asked[r].up)
    BY <2>1 DEF Enqueue, EnqueueLost, Enqueued, Typed, Holding
  <2>. QED BY <2>2, InsertedKeeps
<1>4. CASE \E j \in Jobs : ComeDue(j) \/ GoStale(j)
  BY <1>4, TimeKeeps
<1>5. CASE job' = job
  BY <1>5, SameRows
<1>6. CASE UNCHANGED vars BY <1>5, <1>6 DEF vars, queue
<1>7. CASE \E b \in scenario.backends : Runs(b) \/ Stop(b) \/ LoopCrash(b)
  <2>1. PICK b \in scenario.backends : Runs(b) \/ Stop(b) \/ LoopCrash(b) BY <1>7
  <2>2. CASE Handler(b)
    BY <1>5, <2>2 DEF Handler, Get, SetParsing, ReadFiles, InsertGraph, SetReview, SetFailed, others
  <2>3. CASE FallAsleep(b) \/ Poll(b) \/ EndLoop(b) \/ StartAgain(b) \/ Stop(b) \/ LoopCrash(b)
    BY <1>5, <2>3 DEF FallAsleep, Poll, EndLoop, StartAgain, Stop, LoopCrash
  <2>. QED BY <1>1, <1>2, <2>1, <2>2, <2>3 DEF Runs, LoopStep
<1>8. CASE \E r \in Requests : Ask(r) \/ RequestStep(r) \/ RequestFails(r)
  <2>1. PICK r \in Requests : Ask(r) \/ RequestStep(r) \/ RequestFails(r) BY <1>8
  <2>2. CASE Ask(r) \/ List(r) \/ LostRace(r) \/ FindUpload(r) \/ Reuse(r) \/ Check(r)
             \/ Revisions(r) \/ ReadRevisions(r) \/ ListUploads(r) \/ RequestFails(r)
    BY <1>5, <2>2 DEF Ask, List, LostRace, FindUpload, Reuse, Check, Revisions, ReadRevisions,
       ListUploads, RequestFails, queue
  <2>3. CASE Revise(r) \/ Store(r) \/ InsertUpload(r) \/ Unstore(r) \/ Reset(r) \/ Record(r)
             \/ EraseUploads(r) \/ EraseRevision(r) \/ EraseDesign(r) \/ RemoveFiles(r)
    BY <1>5, <2>3 DEF Revise, Store, InsertUpload, Unstore, Reset, Record, EraseUploads,
       EraseRevision, EraseDesign, RemoveFiles, queue
  <2>. QED BY <1>3, <2>1, <2>2, <2>3 DEF RequestStep
<1>. QED BY <1>1, <1>3, <1>4, <1>6, <1>7, <1>8 DEF ElectronicsNext

(* A job is claimed at most MAX_ATTEMPTS times, whatever goes wrong, and a *)
(* queued one has an attempt left.                                         *)
THEOREM AttemptsOfJobsBounded == ElectronicsSpec => []JobAttemptsBounded
<1>1. ElectronicsInit => JobAttemptsBounded
  BY QueueAssumption DEF ElectronicsInit, QueueInit, NoRow, JobAttemptsBounded
<1>2. Typed /\ JobAttemptsBounded /\ [ElectronicsNext]_vars => JobAttemptsBounded'
  BY RowsKept DEF WellKept
<1>. QED BY <1>1, <1>2, ElectronicsTyped, PTL DEF ElectronicsSpec

(* A job that has completed or failed stays as it is: no late attempt      *)
(* rewrites it.                                                            *)
THEOREM EndOfJobIsFinal == ElectronicsSpec => JobFinal
<1>1. Typed /\ JobAttemptsBounded /\ [ElectronicsNext]_vars => [KeepsEnded]_vars
  BY RowsKept DEF WellKept
<1>2. ElectronicsSpec => [][KeepsEnded]_vars
  BY <1>1, ElectronicsTyped, AttemptsOfJobsBounded, PTL DEF ElectronicsSpec
<1>. QED BY <1>2 DEF JobFinal, KeepsEnded

(* The rows move as the jobs of JobLifecycle do.                           *)
LEMMA RowsAreJobs ==
  ASSUME WellKept
  PROVE JobLife!Next
<1>1. \A j \in Jobs : JobLife!Step(j)
  BY DEF WellKept, RowMoves, JobLife!Step, JobLife!Enqueue, JobLife!Begin, JobLife!Retry,
     JobLife!Complete, JobLife!GiveUp, JobLife!Stays, JobLife!Moves, JobLife!Keeps
<1>. QED BY <1>1 DEF JobLife!Next

(* The queue with its loops, its handlers and the requests implements      *)
(* JobLifecycle, for any number of them and under any faults: a crashed or *)
(* abandoned attempt counts, a job is given up only when its attempts are  *)
(* used up, and a late result, of which there can be several, neither      *)
(* gives an attempt back nor takes an end back.                            *)
THEOREM JobsLiveAsPromised == ElectronicsSpec => KeepsJobLife
<1>1. ElectronicsInit => JobLife!Init
  BY DEF ElectronicsInit, QueueInit, NoRow, JobLife!Init
<1>2. Typed /\ JobAttemptsBounded /\ [ElectronicsNext]_vars => [JobLife!Next]_JobLife!life
  BY RowsKept, RowsAreJobs
<1>. QED BY <1>1, <1>2, ElectronicsTyped, AttemptsOfJobsBounded, PTL
       DEF ElectronicsSpec, KeepsJobLife, JobLife!Spec

-----------------------------------------------------------------------------
(* What the queue and its loops know of each other.  A loop that handles   *)
(* no job holds none, and the job it holds is one; unless attempts outlive *)
(* their window, it is running and nobody else's; and unless an answer is  *)
(* lost or a process dies, a running job is held.                          *)
HoldsNone(b) == loop[b].pc \notin Busy => loop[b].on = NoJob

HoldsOne(b) == loop[b].on \in Jobs => job[loop[b].on].state # "none"

HoldsAlone(b) ==
  loop[b].on \in Jobs =>
    /\ job[loop[b].on].state = "running" /\ ~job[loop[b].on].stale
    /\ \A c \in Backends : loop[c].on = loop[b].on => b = c

Held(j) == job[j].state = "running" => \E b \in Backends : loop[b].on = j

Undisturbed == {"error", "lost", "crash", "outlive"} \cap faults = {}

QueueInv == /\ \A b \in Backends : HoldsNone(b) /\ HoldsOne(b)
            /\ "outlive" \notin faults => \A b \in Backends : HoldsAlone(b)
            /\ Undisturbed => \A j \in Jobs : Held(j)

(* Who will read an upload that is said to be read.                        *)
ToBeRead(u) ==
  \/ \E r \in Requests : asked[r].pc = "enqueue" /\ asked[r].up = u
  \/ \E j \in Jobs : job[j].state = "queued" /\ job[j].about = u
  \/ \E b \in Backends : loop[b].pc \in Handling /\ Names(b) = u

ReadInv == \A u \in Uploads : upload[u].status \in Reading => ToBeRead(u)

(* Which job a status was set by, and that it has not moved on since.      *)
Reviewed(j) == \/ job[j].state = "completed"
               \/ \E b \in Backends : loop[b].on = j /\ loop[b].pc = "write" /\ loop[b].ok

Unread(j) == \/ job[j].state \in {"queued", "failed"}
             \/ \E b \in Backends : /\ loop[b].on = j
                                    /\ \/ loop[b].pc \in {"get", "parsing"}
                                       \/ loop[b].pc = "write" /\ ~loop[b].ok

SaidBy(u) ==
  /\ upload[u].status = "review" => \E j \in Jobs : job[j].about = u /\ Reviewed(j)
  /\ upload[u].status = "failed" => \E j \in Jobs : job[j].about = u /\ Unread(j)

StatusInv == \A u \in Uploads : SaidBy(u)

(* The files of an upload.  A request inserts its upload once, after its   *)
(* files; what a delete has listed is there no more once it is erased.     *)
Spent == {"reuse", "check", "reset", "enqueue", "record", "revisions", "design", "uploads",
          "erase", "unlink", "drop", "remove", "answered"}

Erasing == {"unlink", "drop", "remove"}

Filed(u) ==
  /\ There(u) => u \in files /\ asked[u].pc \in Spent
  /\ asked[u].pc = "insert" => u \in files
  /\ \A r \in Requests : (asked[r].pc \in Erasing \cup {"erase"} /\ u \in asked[r].list)
       => asked[u].pc \in Spent /\ (asked[r].pc \in Erasing => ~There(u))

FilesInv == \A u \in Uploads : Filed(u)

(* Whoever will remove a file that no upload has; a delete is alone, and   *)
(* erases all there is of what it deletes.                                 *)
Kept(u) == \/ There(u)
           \/ asked[u].pc \in {"insert", "unstore"}
           \/ \E r \in Requests : asked[r].pc \in Erasing /\ u \in asked[r].list

AboutRevisions(r) == IF asked[r].whole THEN Ids(revision) ELSE {asked[r].rev}

DeletesAlone(r) ==
  /\ r \in Deletes => Handled = {r}
  /\ asked[r].pc = "design" => asked[r].whole
  /\ asked[r].pc = "uploads" => asked[r].revs = AboutRevisions(r)
  /\ asked[r].pc = "erase" => asked[r].list = Of(AboutRevisions(r))
  /\ asked[r].pc \in {"unlink", "drop"} => Of(AboutRevisions(r)) = {}
  /\ asked[r].pc = "unlink" => ~asked[r].whole
  /\ asked[r].pc = "drop" => asked[r].whole

TidyInv == /\ \A u \in files : Kept(u)
           /\ \A r \in Requests : DeletesAlone(r)

Orderly == {"error", "lost", "crash", "overlap"} \cap faults = {}

ElectronicsInv ==
  /\ Typed /\ JobAttemptsBounded /\ QueueInv
  /\ faults \subseteq {"stop", "overlap", "outlive"} => ReadInv
  /\ Undisturbed => StatusInv
  /\ "lost" \notin faults => FilesInv
  /\ Orderly => TidyInv

-----------------------------------------------------------------------------
(* The rows of the queue after a step.                                     *)
Same(k) == job'[k] = job[k]

SweptAt(k) == Exhausted(k) /\ job'[k].state = "failed" /\ job'[k].about = job[k].about

(* The sweep fails rows whose attempts are used up.                        *)
LEMMA SweptRows ==
  ASSUME Typed, job' = Swept
  PROVE  \A k \in Jobs : Same(k) \/ SweptAt(k)
BY DEF Typed, ElectronicsTypeOK, Job, Swept, Same, SweptAt

(* A claim makes one row run.                                              *)
LEMMA ClaimedRows ==
  ASSUME Typed, NEW j \in Claimable, Claimed(j)
  PROVE  /\ j \in Jobs /\ ~Exhausted(j)
         /\ job[j].state = "queued" \/ (job[j].state = "running" /\ job[j].stale)
         /\ job'[j].state = "running" /\ ~job'[j].stale /\ job'[j].about = job[j].about
         /\ \A k \in Jobs : k = j \/ Same(k) \/ SweptAt(k)
<1>1. j \in Jobs /\ ~Exhausted(j) BY DEF Claimable, Exhausted
<1>2. Swept \in [Jobs -> Job] /\ job \in [Jobs -> Job] BY SweptType DEF Typed, ElectronicsTypeOK
<1> DEFINE row == [Swept[j] EXCEPT !.state = "running", !.stale = FALSE,
                                   !.attempts = job[j].attempts + 1]
<1>3. job' = [Swept EXCEPT ![j] = row] BY <1>1, <1>2 DEF Claimed
<1>4. row.state = "running" /\ ~row.stale /\ row.about = job[j].about
  BY <1>1, <1>2 DEF Job, Swept
<1>. HIDE DEF row
<1>5. \A k \in Jobs : job'[k] = IF k = j THEN row ELSE Swept[k] BY <1>1, <1>2, <1>3
<1>6. \A k \in Jobs : k = j \/ Same(k) \/ SweptAt(k)
  BY <1>2, <1>5 DEF Swept, Same, SweptAt, Job
<1>. QED BY <1>1, <1>4, <1>5, <1>6 DEF Claimable

(* A record ends, or queues again, the row it is about, if that runs.      *)
LEMMA RecordedRows ==
  ASSUME Typed, NEW b \in Backends, loop[b].on \in Jobs, Recorded(b)
  PROVE  LET j == loop[b].on IN
         /\ \A k \in Jobs : k # j => Same(k)
         /\ job[j].state # "running" => Same(j)
         /\ job[j].state = "running" =>
              /\ job'[j].about = job[j].about
              /\ IF loop[b].ok THEN job'[j].state = "completed"
                               ELSE job'[j].state \in {"queued", "failed"}
<1>1. job \in [Jobs -> Job] BY DEF Typed, ElectronicsTypeOK
<1>2. CASE job[loop[b].on].state # "running" BY <1>1, <1>2 DEF Recorded, Same
<1>3. CASE job[loop[b].on].state = "running"
  <2> DEFINE j == loop[b].on
  <2>1. PICK s \in {"completed", "queued", "failed"} :
          /\ job' = [job EXCEPT ![j].state = s, ![j].due = FALSE, ![j].stale = FALSE]
          /\ IF loop[b].ok THEN s = "completed" ELSE s \in {"queued", "failed"}
    BY <1>3 DEF Recorded
  <2> DEFINE row == [job[j] EXCEPT !.state = s, !.due = FALSE, !.stale = FALSE]
  <2>2. job' = [job EXCEPT ![j] = row] BY <1>1, <2>1
  <2>3. row.state = s /\ row.about = job[j].about BY <1>1 DEF Job
  <2>. HIDE DEF row
  <2>. QED BY <1>1, <1>3, <2>1, <2>2, <2>3 DEF Same
<1>. QED BY <1>2, <1>3

(* A job that comes in was not there.                                      *)
LEMMA InsertedRows ==
  ASSUME Typed, NEW u \in Uploads, Inserted(u)
  PROVE  \E j \in Jobs : /\ job[j].state = "none"
                         /\ job'[j].state = "queued" /\ job'[j].about = u
                         /\ \A k \in Jobs : k # j => Same(k)
<1> DEFINE row == [NoRow EXCEPT !.state = "queued", !.due = TRUE, !.about = u]
<1>1. PICK j \in Jobs : job[j].state = "none" /\ job' = [job EXCEPT ![j] = row] BY DEF Inserted
<1>2. row.state = "queued" /\ row.about = u BY DEF NoRow
<1>. HIDE DEF row
<1>. QED BY <1>1, <1>2 DEF Typed, ElectronicsTypeOK, Same

(* Time changes neither what a row is about nor its state.                 *)
LEMMA TimeRows ==
  ASSUME Typed, NEW j \in Jobs, ComeDue(j) \/ GoStale(j)
  PROVE  /\ loop' = loop
         /\ \A k \in Jobs : /\ job'[k].state = job[k].state /\ job'[k].about = job[k].about
                            /\ job'[k].stale = job[k].stale \/ "outlive" \in faults
                                                            \/ Attempts(k) = {}
<1>0. job \in [Jobs -> Job] BY DEF Typed, ElectronicsTypeOK
<1>1. CASE ComeDue(j) BY <1>0, <1>1 DEF ComeDue, Job
<1>2. CASE GoStale(j) BY <1>0, <1>2 DEF GoStale, Job
<1>. QED BY <1>1, <1>2

-----------------------------------------------------------------------------
(* What a step of a loop comes to, for the job it holds.                   *)
OthersRun(b) == \A c \in Backends : c # b => loop'[c] = loop[c]

Takes(b, j) == /\ j \in Claimable /\ Claimed(j)
               /\ loop[b].pc = "head" /\ loop'[b].pc = "get" /\ loop'[b].on = j

FindsNone(b) == /\ loop[b].pc = "head" /\ loop'[b].pc = "empty" /\ loop'[b].on = loop[b].on
                /\ \/ job' = Swept
                   \/ "error" \in faults /\ job' = job
                   \/ "lost" \in faults /\ \E j \in Claimable : Claimed(j)

Writes(b) == /\ loop[b].pc = "write" /\ loop'[b].pc \notin Busy /\ loop'[b].on = NoJob
             /\ Recorded(b) \/ ("error" \in faults /\ job' = job)

Rests(b) == /\ job' = job /\ loop'[b].on = loop[b].on
            /\ \/ loop[b].pc \notin Busy /\ loop'[b].pc \notin Busy
               \/ loop'[b].pc = loop[b].pc /\ loop'[b].ok = loop[b].ok

Dies(b) == /\ "crash" \in faults /\ job' = job
           /\ loop'[b].pc \notin Busy /\ loop'[b].on = NoJob

Turns(b) == \/ \E j \in Jobs : Takes(b, j)
            \/ FindsNone(b) \/ Writes(b) \/ Rests(b) \/ Dies(b)

(* Every step of a loop but the handler's is one of these.                 *)
LEMMA LoopTurns ==
  ASSUME Typed, NEW b \in Backends, HoldsNone(b),
         LoopStep(b) \/ ClaimFails(b) \/ Stop(b) \/ LoopCrash(b)
  PROVE  OthersRun(b) /\ Turns(b)
<1>0. loop[b] \in Loop /\ loop \in [Backends -> Loop] BY DEF Typed, ElectronicsTypeOK
<1>1. CASE Claim(b)
  <2>1. CASE \E j \in Claimable : Claimed(j) /\ loop' = [loop EXCEPT ![b].pc = "get", ![b].on = j]
    <3>1. PICK j \in Claimable : Claimed(j) /\ loop' = [loop EXCEPT ![b].pc = "get", ![b].on = j]
      BY <2>1
    <3>2. j \in Jobs BY DEF Claimable
    <3>. QED BY <1>0, <1>1, <3>1, <3>2 DEF Claim, OthersRun, Turns, Takes, Loop
  <2>2. CASE job' = Swept /\ Goes(b, "empty")
    BY <1>0, <1>1, <2>2 DEF Claim, Goes, OthersRun, Turns, FindsNone, Loop
  <2>. QED BY <1>1, <2>1, <2>2 DEF Claim
<1>2. CASE ClaimFails(b)
  <2>1. /\ loop[b].pc = "head" /\ Goes(b, "empty")
        /\ \/ "error" \in faults /\ job' = job
           \/ "lost" \in faults /\ \E j \in Claimable : Claimed(j)
    BY <1>2 DEF ClaimFails
  <2>. QED BY <1>0, <2>1 DEF Goes, OthersRun, Turns, FindsNone, Loop
<1>3. CASE Write(b)
  <2>1. PICK pc \in {"head", "empty"} : Done(b, pc) BY <1>3 DEF Write
  <2>2. Recorded(b) \/ ("error" \in faults /\ job' = job) BY <1>3 DEF Write
  <2>3. loop'[b].pc = pc /\ loop'[b].on = NoJob BY <1>0, <2>1 DEF Done, Loop
  <2>4. OthersRun(b) BY <1>0, <2>1 DEF Done, OthersRun
  <2>. QED BY <1>3, <2>2, <2>3, <2>4 DEF Write, Turns, Writes, Busy, Handling
<1>4. CASE FallAsleep(b) \/ Poll(b) \/ EndLoop(b)
  <2>1. PICK pc \in {"off", "asleep", "head"} : Goes(b, pc)
    BY <1>4 DEF FallAsleep, Poll, EndLoop
  <2>2. loop[b].pc \notin Busy /\ job' = job
    BY <1>4 DEF FallAsleep, Poll, EndLoop, Busy, Handling
  <2>. QED BY <1>0, <2>1, <2>2 DEF Goes, OthersRun, Turns, Rests, Loop, Busy, Handling
<1>5. CASE StartAgain(b)
  <2>1. loop[b].on = NoJob /\ loop[b].pc \notin Busy
    BY <1>5 DEF StartAgain, HoldsNone, Busy, Handling
  <2>. QED BY <1>0, <1>5, <2>1 DEF StartAgain, Started, OthersRun, Turns, Rests, Busy, Handling
<1>6. CASE Stop(b)
  <2> DEFINE pc == IF loop[b].pc = "asleep" THEN "head" ELSE loop[b].pc
             l == [loop[b] EXCEPT !.stopping = TRUE, !.pc = pc]
  <2>1. loop' = [loop EXCEPT ![b] = l] /\ job' = job BY <1>0, <1>6 DEF Stop
  <2>2. l.pc = pc /\ l.on = loop[b].on /\ l.ok = loop[b].ok BY <1>0 DEF Loop
  <2>. HIDE DEF l
  <2>. QED BY <1>0, <2>1, <2>2 DEF OthersRun, Turns, Rests, Busy, Handling
<1>7. CASE LoopCrash(b)
  BY <1>0, <1>7 DEF LoopCrash, Started, OthersRun, Turns, Dies, Busy, Handling
<1>. QED BY <1>1, <1>2, <1>3, <1>4, <1>5, <1>6, <1>7 DEF LoopStep

(* What a step of the handler comes to: it goes on, or ends, and may set   *)
(* the status of its upload.                                               *)
HandlesOn(b) == /\ loop[b].pc \in Handling /\ loop'[b].on = loop[b].on
                /\ loop'[b].pc \in Handling \/ loop'[b].pc = "write"

Sets(u, status) == /\ \A v \in Uploads : v # u => upload'[v] = upload[v]
                   /\ There(u) => /\ upload'[u].status = status
                                  /\ upload'[u].of = upload[u].of
                   /\ ~There(u) => upload'[u] = upload[u]

HandledAs(b) ==
  LET pc == loop[b].pc
      to == loop'[b].pc
  IN  \/ upload' = upload /\ pc = "get" /\ to = "parsing"
      \/ /\ upload' = upload /\ pc = "get" /\ to = "write" /\ ~loop'[b].ok
         /\ ~There(Names(b)) \/ "error" \in faults
      \/ Sets(Names(b), "parsing") /\ pc = "parsing" /\ to = "read"
      \/ "error" \in faults /\ upload' = upload /\ pc = "parsing" /\ to = "write" /\ ~loop'[b].ok
      \/ upload' = upload /\ pc \in {"read", "graph"} /\ to \in Handling
      \/ Sets(Names(b), "review") /\ pc = "status" /\ to = "write" /\ loop'[b].ok
      \/ "error" \in faults /\ upload' = upload /\ pc = "status" /\ to = "failing"
      \/ /\ pc = "failing" /\ to = "write" /\ ~loop'[b].ok
         /\ Sets(Names(b), "failed") \/ ("error" \in faults /\ upload' = upload)

(* A status is set of an upload that is there.                             *)
LEMMA SetsStatus ==
  ASSUME Typed, NEW u \in Uploads, NEW s, SetStatus(u, s)
  PROVE  Sets(u, s)
BY DEF Typed, ElectronicsTypeOK, Upload, SetStatus, Sets

(* Every step of the handler is one of these.                              *)
LEMMA HandlerTurns ==
  ASSUME Typed, NEW b \in Backends, Handler(b)
  PROVE  /\ OthersRun(b) /\ HandlesOn(b) /\ HandledAs(b)
         /\ UNCHANGED <<scenario, job, revision, files, asked>>
         /\ loop[b].on \in Jobs /\ Names(b) \in Uploads
<1>0. loop[b] \in Loop /\ loop \in [Backends -> Loop] BY DEF Typed, ElectronicsTypeOK
<1>1. loop[b].on \in Jobs
  BY DEF Handler, Get, SetParsing, ReadFiles, InsertGraph, SetReview, SetFailed, Typed, Busy,
     Handling
<1>2. Names(b) \in Uploads BY <1>1 DEF Names, Job, Typed, ElectronicsTypeOK
<1>3. UNCHANGED <<scenario, job, revision, files, asked>>
  BY DEF Handler, Get, SetParsing, ReadFiles, InsertGraph, SetReview, SetFailed, others
<1>. SUFFICES OthersRun(b) /\ HandlesOn(b) /\ HandledAs(b) BY <1>1, <1>2, <1>3
<1> USE DEF Goes, Ends, OthersRun, HandlesOn, HandledAs, Handling, Loop
<1>6. CASE Get(b) BY <1>0, <1>6 DEF Get
<1>7. CASE SetParsing(b) BY <1>0, <1>2, <1>7, SetsStatus DEF SetParsing
<1>8. CASE ReadFiles(b) \/ InsertGraph(b) BY <1>0, <1>8 DEF ReadFiles, InsertGraph
<1>9. CASE SetReview(b) BY <1>0, <1>2, <1>9, SetsStatus DEF SetReview
<1>10. CASE SetFailed(b) BY <1>0, <1>2, <1>10, SetsStatus DEF SetFailed
<1>. QED BY <1>6, <1>7, <1>8, <1>9, <1>10 DEF Handler

-----------------------------------------------------------------------------
(* What a step of a request comes to, for the uploads and the files.       *)
OthersAsk(r) == \A q \in Requests : q # r => asked'[q] = asked[q]

WithFiles == {"insert", "unstore", "erase"} \cup Erasing

GoesOn(r) == /\ UNCHANGED <<upload, files>>
             /\ asked[r].pc \notin WithFiles \cup {"enqueue"} /\ asked'[r].pc \notin WithFiles
             /\ asked[r].pc \in Spent => asked'[r].pc \in Spent

Stores(r) == /\ upload' = upload /\ files' = files \cup {r}
             /\ asked[r].pc = "store" /\ asked'[r].pc = "insert"

Inserts(r) == /\ \A u \in Uploads : u # r => upload'[u] = upload[u]
              /\ upload'[r].status = "uploaded" /\ files' = files
              /\ asked[r].pc = "insert"
              /\ \/ asked'[r].pc = "enqueue" /\ asked'[r].up = r
                 \/ asked'[r].pc = "unstore" /\ "lost" \in faults

IsRefused(r) == /\ UNCHANGED <<upload, files>>
                /\ asked[r].pc = "insert" /\ asked'[r].pc = "unstore"

Unstores(r) == /\ upload' = upload /\ files' = files \ {r}
               /\ asked[r].pc = "unstore" /\ asked'[r].pc = "answered"

Resets(r) == /\ Sets(asked[r].up, "uploaded") /\ files' = files
             /\ asked[r].pc = "reset" /\ asked'[r].pc = "enqueue"
             /\ asked'[r].up = asked[r].up /\ asked[r].up \in Uploads

Enqueues(r) == /\ asked[r].pc = "enqueue" /\ asked[r].up \in Uploads
               /\ UNCHANGED <<upload, files>> /\ Inserted(asked[r].up)
               /\ \A b \in Backends :
                    \/ loop'[b] = loop[b]
                    \/ /\ loop[b].pc = "asleep" /\ loop'[b].pc = "head"
                       /\ loop'[b].on = loop[b].on
               /\ asked'[r].pc = "record" \/ ("lost" \in faults /\ asked'[r].pc = "answered")

SameRevisions(r) == /\ revision' = revision
                    /\ asked'[r].rev = asked[r].rev /\ asked'[r].whole = asked[r].whole

Lists(r) == /\ UNCHANGED <<upload, files>> /\ SameRevisions(r)
            /\ asked[r].pc = "uploads" /\ asked'[r].pc = "erase"
            /\ asked'[r].list = Of(asked[r].revs)

Erases(r) == /\ \A u \in Uploads : upload'[u] = IF u \in asked[r].list THEN NoUpload ELSE upload[u]
             /\ files' = files /\ SameRevisions(r)
             /\ asked[r].pc = "erase" /\ asked'[r].list = asked[r].list
             /\ asked'[r].pc = IF asked[r].whole THEN "drop" ELSE "unlink"

Drops(r) == /\ UNCHANGED <<upload, files>>
            /\ \/ asked[r].pc = "unlink" /\ (asked'[r].pc = "remove" \/ Of({asked[r].rev}) # {})
               \/ asked[r].pc = "drop" /\ (asked'[r].pc = "remove" \/ Of(Ids(revision)) # {})
            /\ asked'[r].pc \in {"remove", "answered"}
            /\ asked'[r].pc = "remove" => asked'[r].list = asked[r].list

Removes(r) == /\ upload' = upload /\ files' = files \ asked[r].list
              /\ asked[r].pc = "remove" /\ asked'[r].pc = "answered"

GivesUp(r) == /\ UNCHANGED <<upload, files>> /\ r \in Handled /\ asked'[r].pc = "answered"
              /\ "crash" \in faults \/ ("error" \in faults /\ asked[r].pc # "insert")

Alters(r) == \/ Stores(r) \/ Inserts(r) \/ IsRefused(r) \/ Unstores(r) \/ Resets(r)
             \/ Lists(r) \/ Erases(r) \/ Drops(r) \/ Removes(r) \/ GivesUp(r)

Acts(r) == GoesOn(r) \/ Alters(r)

RequestActs(r) == Ask(r) \/ RequestStep(r) \/ EnqueueLost(r) \/ RequestFails(r)

(* The record of a request that has its answer, and of one that moved.     *)
LEMMA RecordMoves ==
  ASSUME Typed, NEW r \in Requests
  PROVE  /\ Answered(r) => asked'[r].pc = "answered" /\ OthersAsk(r)
         /\ \A pc : Moves(r, pc) => /\ asked'[r].pc = pc
                                    /\ asked'[r].up = asked[r].up /\ asked'[r].list = asked[r].list
                                    /\ asked'[r].rev = asked[r].rev
                                    /\ asked'[r].whole = asked[r].whole /\ OthersAsk(r)
<1>1. asked[r] \in Request /\ asked \in [Requests -> Request] BY DEF Typed, ElectronicsTypeOK
<1>2. Answered(r) => asked'[r].pc = "answered" /\ OthersAsk(r)
  <2> DEFINE q == [NewRequest EXCEPT !.pc = "answered"]
  <2>1. q.pc = "answered" BY DEF NewRequest
  <2>2. Answered(r) => asked' = [asked EXCEPT ![r] = q] BY DEF Answered
  <2>. HIDE DEF q
  <2>. QED BY <1>1, <2>1, <2>2 DEF OthersAsk
<1>3. ASSUME NEW pc, Moves(r, pc)
      PROVE  /\ asked'[r].pc = pc
             /\ asked'[r].up = asked[r].up /\ asked'[r].list = asked[r].list
             /\ asked'[r].rev = asked[r].rev
             /\ asked'[r].whole = asked[r].whole /\ OthersAsk(r)
  BY <1>1, <1>3 DEF Moves, OthersAsk, Request
<1>. QED BY <1>2, <1>3

(* A step that reads, or makes a revision, goes on.                        *)
LEMMA ReadingActs ==
  ASSUME Typed, NEW r \in Requests,
         Ask(r) \/ List(r) \/ Revise(r) \/ LostRace(r) \/ FindUpload(r) \/ Reuse(r) \/ Check(r)
         \/ Record(r) \/ Revisions(r) \/ ReadRevisions(r)
  PROVE  OthersAsk(r) /\ GoesOn(r)
<1>0. /\ asked[r] \in Request /\ asked \in [Requests -> Request]
      /\ Uploads = Requests
  BY DesignAssumption DEF Typed, ElectronicsTypeOK
<1> USE RecordMoves DEF WithFiles, Erasing, Spent
<1>1. CASE Ask(r)
  <2>1. UNCHANGED <<upload, files>> BY <1>1 DEF Ask, tables
  <2>2. asked[r].pc = "new" BY <1>1 DEF Ask
  <2>3. CASE \E c \in Contents : asked' = [asked EXCEPT ![r].pc = "list", ![r].what = c]
    BY <1>0, <2>1, <2>2, <2>3 DEF GoesOn, OthersAsk, Request
  <2>4. CASE \E u \in Uploads : asked' = [asked EXCEPT ![r].pc = "check", ![r].up = u]
    BY <1>0, <2>1, <2>2, <2>4 DEF GoesOn, OthersAsk, Request
  <2>5. CASE \E v \in Ids(revision) : asked' = [asked EXCEPT ![r].pc = "revisions", ![r].rev = v]
    BY <1>0, <2>1, <2>2, <2>5 DEF GoesOn, OthersAsk, Request
  <2>. QED BY <1>1, <2>3, <2>4, <2>5 DEF Ask
<1>2. CASE List(r)
  <2>1. UNCHANGED <<upload, files>> /\ asked[r].pc = "list" BY <1>2 DEF List, tables
  <2>2. PICK v, s : \/ asked' = [asked EXCEPT ![r].pc = "existing", ![r].rev = v]
                    \/ asked' = [asked EXCEPT ![r].pc = "revise", ![r].seen = s]
    BY <1>2 DEF List
  <2>. QED BY <1>0, <2>1, <2>2 DEF GoesOn, OthersAsk, Request
<1>3. CASE Revise(r)
  <2> DEFINE c == asked[r].what
             raced == [NewRequest EXCEPT !.pc = "raced", !.what = c]
             store == [NewRequest EXCEPT !.pc = "store", !.what = c, !.rev = r]
  <2>1. raced.pc = "raced" /\ store.pc = "store" BY DEF NewRequest
  <2>2. \/ Answered(r)
        \/ asked' = [asked EXCEPT ![r] = raced]
        \/ asked' = [asked EXCEPT ![r] = store]
    BY <1>3 DEF Revise
  <2>3. UNCHANGED <<upload, files>> /\ asked[r].pc = "revise" BY <1>3 DEF Revise
  <2>. HIDE DEF raced, store
  <2>. QED BY <1>0, <2>1, <2>2, <2>3 DEF GoesOn, OthersAsk
<1>4. CASE LostRace(r)
  <2>1. UNCHANGED <<upload, files>> /\ asked[r].pc = "raced" BY <1>4 DEF LostRace, tables
  <2>2. PICK v : Answered(r) \/ asked' = [asked EXCEPT ![r].pc = "winner", ![r].rev = v]
    BY <1>4 DEF LostRace
  <2>. QED BY <1>0, <2>1, <2>2 DEF GoesOn, OthersAsk, Request
<1>5. CASE FindUpload(r)
  <2>1. UNCHANGED <<upload, files>> /\ asked[r].pc \in {"existing", "winner"}
    BY <1>5 DEF FindUpload, tables
  <2>2. PICK v : \/ asked' = [asked EXCEPT ![r].pc = "reuse", ![r].up = v]
                 \/ Answered(r) \/ Moves(r, "store")
    BY <1>5 DEF FindUpload
  <2>. QED BY <1>0, <2>1, <2>2 DEF GoesOn, OthersAsk, Request
<1>6. CASE Reuse(r)
  <2>1. UNCHANGED <<upload, files>> /\ asked[r].pc = "reuse" BY <1>6 DEF Reuse, tables
  <2>. QED BY <1>6, <2>1 DEF Reuse, GoesOn
<1>7. CASE Check(r)
  <2>1. UNCHANGED <<upload, files>> /\ asked[r].pc = "check" BY <1>7 DEF Check, tables
  <2>. QED BY <1>7, <2>1 DEF Check, GoesOn
<1>8. CASE Record(r) BY <1>8 DEF Record, GoesOn
<1>9. CASE Revisions(r)
  <2>1. UNCHANGED <<upload, files>> /\ asked[r].pc = "revisions" BY <1>9 DEF Revisions, tables
  <2>2. PICK last \in BOOLEAN :
          \/ Answered(r)
          \/ asked' = [asked EXCEPT ![r].pc = IF last THEN "design" ELSE "uploads",
                                   ![r].whole = last, ![r].revs = {asked[r].rev}]
    BY <1>9 DEF Revisions
  <2>. QED BY <1>0, <2>1, <2>2 DEF GoesOn, OthersAsk, Request
<1>10. CASE ReadRevisions(r)
  <2>1. UNCHANGED <<upload, files>> /\ asked[r].pc = "design" BY <1>10 DEF ReadRevisions, tables
  <2>2. PICK v : Answered(r) \/ asked' = [asked EXCEPT ![r].pc = "uploads", ![r].revs = v]
    BY <1>10 DEF ReadRevisions
  <2>. QED BY <1>0, <2>1, <2>2 DEF GoesOn, OthersAsk, Request
<1>. QED BY <1>1, <1>2, <1>3, <1>4, <1>5, <1>6, <1>7, <1>8, <1>9, <1>10

(* A step that queues a job.                                               *)
LEMMA EnqueueActs ==
  ASSUME Typed, NEW r \in Requests, Enqueue(r) \/ EnqueueLost(r)
  PROVE  OthersAsk(r) /\ Enqueues(r) /\ UNCHANGED <<scenario, tables>>
<1>1. asked[r].pc = "enqueue" /\ asked[r].up \in Uploads
  BY DEF Enqueue, EnqueueLost, Typed, Holding
<1>2. Inserted(asked[r].up) BY DEF Enqueue, EnqueueLost, Enqueued
<1>3. UNCHANGED <<scenario, tables>> BY DEF Enqueue, EnqueueLost
<1>4. \/ Moves(r, "record") /\ \E b \in Backends : Wakes(b)
      \/ "lost" \in faults /\ Answered(r) /\ loop' = loop
  BY ScenarioBackends DEF Enqueue, EnqueueLost, Enqueued
<1>5. \A b \in Backends : \/ loop'[b] = loop[b]
                          \/ /\ loop[b].pc = "asleep" /\ loop'[b].pc = "head"
                             /\ loop'[b].on = loop[b].on
  BY <1>4 DEF Wakes, Typed, ElectronicsTypeOK, Loop
<1>. QED BY <1>1, <1>2, <1>3, <1>4, <1>5, RecordMoves DEF Enqueues, tables

(* A step that writes.                                                     *)
LEMMA WritingActs ==
  ASSUME Typed, NEW r \in Requests,
         Store(r) \/ InsertUpload(r) \/ Unstore(r) \/ Reset(r) \/ ListUploads(r)
         \/ EraseUploads(r) \/ EraseRevision(r) \/ EraseDesign(r) \/ RemoveFiles(r)
         \/ RequestFails(r)
  PROVE  OthersAsk(r) /\ Alters(r)
<1>0. /\ asked[r] \in Request /\ asked \in [Requests -> Request]
      /\ Uploads = Requests /\ upload \in [Uploads -> Upload]
  BY DesignAssumption DEF Typed, ElectronicsTypeOK
<1> USE RecordMoves DEF Alters
<1>1. CASE Store(r) BY <1>1 DEF Store, Stores
<1>2. CASE InsertUpload(r)
  <2> DEFINE row == [status |-> "uploaded", of |-> asked[r].rev]
  <2>1. /\ asked[r].pc = "insert" /\ files' = files
        /\ \/ /\ upload' = [upload EXCEPT ![r] = row]
              /\ \/ asked' = [asked EXCEPT ![r].pc = "enqueue", ![r].up = r]
                 \/ "lost" \in faults /\ Moves(r, "unstore")
           \/ Moves(r, "unstore") /\ UNCHANGED upload
    BY <1>2 DEF InsertUpload
  <2>2. row.status = "uploaded" OBVIOUS
  <2>. HIDE DEF row
  <2>3. CASE /\ upload' = [upload EXCEPT ![r] = row]
             /\ asked' = [asked EXCEPT ![r].pc = "enqueue", ![r].up = r]
    <3>1. asked'[r].pc = "enqueue" /\ asked'[r].up = r /\ OthersAsk(r)
      BY <1>0, <2>3 DEF Request, OthersAsk
    <3>. QED BY <1>0, <2>1, <2>2, <2>3, <3>1 DEF Inserts
  <2>4. CASE upload' = [upload EXCEPT ![r] = row] /\ "lost" \in faults /\ Moves(r, "unstore")
    BY <1>0, <2>1, <2>2, <2>4 DEF Inserts
  <2>5. CASE Moves(r, "unstore") /\ UNCHANGED upload BY <2>1, <2>5 DEF IsRefused
  <2>. QED BY <2>1, <2>3, <2>4, <2>5
<1>3. CASE Unstore(r) BY <1>3 DEF Unstore, Unstores
<1>4. CASE Reset(r)
  <2>1. asked[r].up \in Uploads BY <1>4 DEF Reset, Typed, Holding
  <2>. QED BY <1>4, <2>1, SetsStatus DEF Reset, Resets
<1>5. CASE ListUploads(r)
  <2>1. /\ asked[r].pc = "uploads" /\ UNCHANGED <<upload, files, revision>>
        /\ asked' = [asked EXCEPT ![r].pc = "erase", ![r].list = Of(asked[r].revs)]
    BY <1>5 DEF ListUploads, tables
  <2>2. /\ asked'[r].pc = "erase" /\ asked'[r].list = Of(asked[r].revs) /\ OthersAsk(r)
        /\ asked'[r].rev = asked[r].rev /\ asked'[r].whole = asked[r].whole
    BY <1>0, <2>1 DEF Request, OthersAsk
  <2>. QED BY <2>1, <2>2 DEF Lists, SameRevisions
<1>6. CASE EraseUploads(r)
  <2>1. /\ asked[r].pc = "erase" /\ UNCHANGED <<files, revision>>
        /\ Moves(r, IF asked[r].whole THEN "drop" ELSE "unlink")
        /\ upload' = [u \in Uploads |-> IF u \in asked[r].list THEN NoUpload ELSE upload[u]]
    BY <1>6 DEF EraseUploads
  <2>. QED BY <2>1 DEF Erases, SameRevisions
<1>7. CASE EraseRevision(r) BY <1>7 DEF EraseRevision, Drops
<1>8. CASE EraseDesign(r) BY <1>8 DEF EraseDesign, Drops
<1>9. CASE RemoveFiles(r) BY <1>9 DEF RemoveFiles, Removes
<1>10. CASE RequestFails(r) BY <1>10 DEF RequestFails, GivesUp, tables
<1>. QED BY <1>1, <1>2, <1>3, <1>4, <1>5, <1>6, <1>7, <1>8, <1>9, <1>10

(* Every step of a request is one of these.                                *)
LEMMA RequestTurns ==
  ASSUME Typed, NEW r \in Requests, RequestActs(r)
  PROVE  OthersAsk(r) /\ scenario' = scenario /\ (Enqueues(r) \/ (UNCHANGED queue /\ Acts(r)))
<1>1. CASE Enqueue(r) \/ EnqueueLost(r) BY <1>1, EnqueueActs
<1>2. CASE Ask(r) \/ List(r) \/ Revise(r) \/ LostRace(r) \/ FindUpload(r) \/ Reuse(r) \/ Check(r)
           \/ Record(r) \/ Revisions(r) \/ ReadRevisions(r)
  <2>1. UNCHANGED queue
    BY <1>2 DEF Ask, List, Revise, LostRace, FindUpload, Reuse, Check, Record, Revisions,
       ReadRevisions
  <2>. QED BY <1>2, <2>1, ReadingActs DEF Acts, queue
<1>3. CASE Store(r) \/ InsertUpload(r) \/ Unstore(r) \/ Reset(r) \/ ListUploads(r)
           \/ EraseUploads(r) \/ EraseRevision(r) \/ EraseDesign(r) \/ RemoveFiles(r)
           \/ RequestFails(r)
  <2>1. UNCHANGED queue
    BY <1>3 DEF Store, InsertUpload, Unstore, Reset, ListUploads, EraseUploads, EraseRevision,
       EraseDesign, RemoveFiles, RequestFails
  <2>. QED BY <1>3, <2>1, WritingActs DEF Acts, queue
<1>. QED BY <1>1, <1>2, <1>3 DEF RequestActs, RequestStep

(* A loop moves, or time passes.                                           *)
LoopActs(b) == /\ LoopStep(b) \/ ClaimFails(b) \/ Stop(b) \/ LoopCrash(b)
               /\ UNCHANGED <<tables, asked>>

TimeActs(j) == (ComeDue(j) \/ GoStale(j)) /\ UNCHANGED <<scenario, tables, asked>>

(* A step of the whole is one of a loop, a handler, a request, or time's.  *)
LEMMA NextActs ==
  ASSUME Typed, [ElectronicsNext]_vars
  PROVE  \/ UNCHANGED vars
         \/ \E b \in Backends : Handler(b) \/ (LoopActs(b) /\ scenario' = scenario)
         \/ \E r \in Requests : RequestActs(r)
         \/ \E j \in Jobs : TimeActs(j)
<1>1. \A b : LoopStep(b) \/ ClaimFails(b) \/ Stop(b) \/ LoopCrash(b) => scenario' = scenario
  BY DEF LoopStep, Claim, FallAsleep, Poll, Write, EndLoop, StartAgain, ClaimFails, Stop, LoopCrash
<1>. QED BY <1>1, ScenarioBackends DEF ElectronicsNext, Runs, LoopActs, RequestActs, TimeActs,
       ComeDue, GoStale

-----------------------------------------------------------------------------
(* The queue and its loops, step by step.                                  *)
LEMMA QueueStarts == ElectronicsInit => QueueInv
<1>. SUFFICES ASSUME ElectronicsInit PROVE QueueInv OBVIOUS
<1>1. \A b \in Backends : loop[b].on = NoJob BY DEF ElectronicsInit, QueueInit, Started
<1>2. \A j \in Jobs : job[j].state = "none" BY DEF ElectronicsInit, QueueInit, NoRow
<1>3. NoJob \notin Jobs BY DEF NoJob, Jobs
<1>. QED BY <1>1, <1>2, <1>3 DEF QueueInv, HoldsNone, HoldsOne, HoldsAlone, Held

(* A loop takes a job that nobody holds, and gives up only its own.        *)
LEMMA QueueByLoop ==
  ASSUME Typed, QueueInv, NEW b \in Backends, OthersRun(b), Turns(b), scenario' = scenario
  PROVE  QueueInv'
<1>0. NoJob \notin Jobs /\ job \in [Jobs -> Job] BY DEF NoJob, Jobs, Typed, ElectronicsTypeOK
<1>a. loop[b].pc \in Busy => loop[b].on \in Jobs BY DEF Typed
<1>1. ASSUME NEW j \in Jobs, Takes(b, j) PROVE QueueInv'
  <2>1. /\ ~Exhausted(j)
        /\ job[j].state = "queued" \/ (job[j].state = "running" /\ job[j].stale)
        /\ job'[j].state = "running" /\ ~job'[j].stale
        /\ \A k \in Jobs : k = j \/ Same(k) \/ SweptAt(k)
    BY <1>1, ClaimedRows DEF Takes
  <2>2. loop[b].on = NoJob BY <1>1 DEF Takes, QueueInv, HoldsNone, Busy, Handling
  <2>3. \A c \in Backends : HoldsNone(c)' /\ HoldsOne(c)'
    BY <1>1, <2>1 DEF Takes, OthersRun, QueueInv, HoldsNone, HoldsOne, Busy, Handling, Same,
       SweptAt
  <2>4. ASSUME "outlive" \notin faults PROVE \A c \in Backends : HoldsAlone(c)'
    <3>1. \A c \in Backends : loop[c].on # j
      BY <2>1, <2>4 DEF QueueInv, HoldsAlone
    <3>2. \A c \in Backends : loop[c].on \in Jobs => Same(loop[c].on)
      BY <2>1, <2>4, <3>1 DEF QueueInv, HoldsAlone, SweptAt, Exhausted
    <3>. QED BY <1>1, <2>1, <2>2, <2>4, <3>1, <3>2 DEF Takes, OthersRun, QueueInv, HoldsAlone, Same
  <2>5. ASSUME Undisturbed PROVE \A k \in Jobs : Held(k)'
    BY <1>0, <1>1, <2>1, <2>2, <2>5 DEF Takes, OthersRun, QueueInv, Held, Same, SweptAt
  <2>. QED BY <2>3, <2>4, <2>5 DEF QueueInv, Undisturbed, faults
<1>2. ASSUME FindsNone(b) PROVE QueueInv'
  <2>1. loop[b].on = NoJob BY <1>2 DEF FindsNone, QueueInv, HoldsNone, Busy, Handling
  <2>2. \A c \in Backends : loop'[c].on = loop[c].on BY <1>2 DEF FindsNone, OthersRun
  <2>3. \/ \A k \in Jobs : Same(k) \/ SweptAt(k)
        \/ /\ "lost" \in faults
           /\ \E j \in Jobs : /\ \/ job[j].state = "queued"
                                 \/ job[j].state = "running" /\ job[j].stale
                              /\ job'[j].state = "running"
                              /\ \A k \in Jobs : k = j \/ Same(k) \/ SweptAt(k)
    BY <1>2, SweptRows, ClaimedRows DEF FindsNone, Same
  <2>4. \A c \in Backends : HoldsNone(c)' /\ HoldsOne(c)'
    BY <1>2, <2>2, <2>3 DEF FindsNone, OthersRun, QueueInv, HoldsNone, HoldsOne, Busy, Handling, Same,
       SweptAt
  <2>5. ASSUME "outlive" \notin faults PROVE \A c \in Backends : HoldsAlone(c)'
    <3>1. \A c \in Backends : loop[c].on \in Jobs => Same(loop[c].on)
      BY <2>3, <2>5 DEF QueueInv, HoldsAlone, SweptAt, Exhausted
    <3>. QED BY <2>2, <2>5, <3>1 DEF QueueInv, HoldsAlone, Same
  <2>6. ASSUME Undisturbed PROVE \A k \in Jobs : Held(k)'
    BY <2>2, <2>3, <2>6 DEF QueueInv, Undisturbed, Held, Same, SweptAt
  <2>. QED BY <2>4, <2>5, <2>6 DEF QueueInv, Undisturbed, faults
<1>3. ASSUME Writes(b) PROVE QueueInv'
  <2>1. loop[b].on \in Jobs BY <1>3, <1>a DEF Writes, Busy
  <2>2. /\ \A k \in Jobs : k # loop[b].on => Same(k)
        /\ ~Same(loop[b].on) =>
             /\ job[loop[b].on].state = "running"
             /\ job'[loop[b].on].state \in {"completed", "queued", "failed"}
        /\ "error" \notin faults /\ job[loop[b].on].state = "running" => ~Same(loop[b].on)
    <3>1. CASE Recorded(b)
      BY <2>1, <3>1, RecordedRows DEF Same
    <3>2. CASE "error" \in faults /\ job' = job BY <3>2 DEF Same
    <3>. QED BY <1>3, <3>1, <3>2 DEF Writes
  <2>3. \A c \in Backends : HoldsNone(c)' /\ HoldsOne(c)'
    BY <1>0, <1>3, <2>2 DEF Writes, OthersRun, QueueInv, HoldsNone, HoldsOne, Same
  <2>4. ASSUME "outlive" \notin faults PROVE \A c \in Backends : HoldsAlone(c)'
    <3>1. \A c \in Backends : c # b => loop[c].on # loop[b].on
      BY <2>1, <2>4 DEF QueueInv, HoldsAlone
    <3>. QED BY <1>0, <1>3, <2>2, <2>4, <3>1 DEF Writes, OthersRun, QueueInv, HoldsAlone, Same
  <2>5. ASSUME Undisturbed PROVE \A k \in Jobs : Held(k)'
    <3>. SUFFICES ASSUME NEW k \in Jobs, job'[k].state = "running"
                  PROVE  \E c \in Backends : loop'[c].on = k
      BY DEF Held
    <3>1. k # loop[b].on /\ Same(k) BY <2>2, <2>5 DEF Undisturbed, Same
    <3>2. PICK c \in Backends : loop[c].on = k BY <2>5, <3>1 DEF QueueInv, Held, Same
    <3>. QED BY <3>1, <3>2 DEF OthersRun
  <2>. QED BY <2>3, <2>4, <2>5 DEF QueueInv, Undisturbed, faults
<1>4. ASSUME Rests(b) \/ Dies(b) PROVE QueueInv'
  <2>1. /\ job' = job /\ HoldsNone(b)'
        /\ \A c \in Backends : loop'[c].on = loop[c].on
                               \/ (c = b /\ loop'[c].on = NoJob /\ "crash" \in faults)
    BY <1>4 DEF Rests, Dies, OthersRun, QueueInv, HoldsNone
  <2>2. \A c \in Backends : HoldsNone(c)' /\ HoldsOne(c)'
    BY <1>0, <2>1 DEF OthersRun, QueueInv, HoldsNone, HoldsOne
  <2>3. ASSUME "outlive" \notin faults PROVE \A c \in Backends : HoldsAlone(c)'
    BY <1>0, <2>1, <2>3 DEF QueueInv, HoldsAlone
  <2>4. ASSUME Undisturbed PROVE \A k \in Jobs : Held(k)'
    BY <2>1, <2>4 DEF QueueInv, Undisturbed, Held
  <2>. QED BY <2>2, <2>3, <2>4 DEF QueueInv, Undisturbed, faults
<1>. QED BY <1>1, <1>2, <1>3, <1>4 DEF Turns

(* A handler holds on to its job.                                          *)
LEMMA QueueByHandler ==
  ASSUME Typed, QueueInv, NEW b \in Backends, OthersRun(b), HandlesOn(b),
         UNCHANGED <<scenario, job>>
  PROVE  QueueInv'
<1>1. \A c \in Backends : loop'[c].on = loop[c].on BY DEF OthersRun, HandlesOn
<1>2. \A c \in Backends : HoldsNone(c)' /\ HoldsOne(c)'
  BY <1>1 DEF QueueInv, HoldsNone, HoldsOne, OthersRun, HandlesOn, Busy
<1>. QED BY <1>1, <1>2 DEF QueueInv, HoldsAlone, Held, Undisturbed, faults

(* A new job is nobody's.                                                  *)
LEMMA QueueByRequest ==
  ASSUME Typed, QueueInv, NEW r \in Requests, Enqueues(r), scenario' = scenario
  PROVE  QueueInv'
<1>1. PICK j \in Jobs : /\ job[j].state = "none" /\ job'[j].state = "queued"
                        /\ \A k \in Jobs : k # j => Same(k)
  BY InsertedRows DEF Enqueues
<1>2. \A c \in Backends : loop'[c].on = loop[c].on BY DEF Enqueues
<1>3. \A c \in Backends : loop[c].on # j BY <1>1 DEF QueueInv, HoldsOne
<1>4. \A c \in Backends : HoldsNone(c)' /\ HoldsOne(c)'
  BY <1>1, <1>2, <1>3 DEF QueueInv, HoldsNone, HoldsOne, Enqueues, Busy, Handling, Same
<1>5. "outlive" \notin faults => \A c \in Backends : HoldsAlone(c)'
  BY <1>1, <1>2, <1>3 DEF QueueInv, HoldsAlone, Same
<1>6. Undisturbed => \A k \in Jobs : Held(k)' BY <1>1, <1>2 DEF QueueInv, Held, Same
<1>. QED BY <1>4, <1>5, <1>6 DEF QueueInv, Undisturbed, faults

(* The window of a job that is held does not end, unless it may.           *)
LEMMA QueueByTime ==
  ASSUME Typed, QueueInv, NEW j \in Jobs, TimeActs(j)
  PROVE  QueueInv'
<1>1. /\ loop' = loop /\ scenario' = scenario
      /\ \A k \in Jobs : /\ job'[k].state = job[k].state
                         /\ job'[k].stale = job[k].stale \/ "outlive" \in faults \/ Attempts(k) = {}
  BY TimeRows DEF TimeActs
<1>2. "outlive" \notin faults => \A c \in Backends : HoldsAlone(c)'
  BY <1>1 DEF QueueInv, HoldsAlone, Attempts
<1>. QED BY <1>1, <1>2 DEF QueueInv, HoldsNone, HoldsOne, Held, Undisturbed, faults

(* Whatever step is taken.                                                 *)
LEMMA QueueSteps ==
  ASSUME Typed, QueueInv, [ElectronicsNext]_vars
  PROVE  QueueInv'
<1>1. ASSUME UNCHANGED queue PROVE QueueInv'
  BY <1>1 DEF queue, QueueInv, HoldsNone, HoldsOne, HoldsAlone, Held, Undisturbed, faults
<1>2. ASSUME NEW b \in Backends, LoopActs(b), scenario' = scenario PROVE QueueInv'
  BY <1>2, LoopTurns, QueueByLoop DEF LoopActs, QueueInv
<1>3. ASSUME NEW b \in Backends, Handler(b) PROVE QueueInv'
  BY <1>3, HandlerTurns, QueueByHandler
<1>4. ASSUME NEW r \in Requests, RequestActs(r) PROVE QueueInv'
  BY <1>1, <1>4, RequestTurns, QueueByRequest
<1>. QED BY <1>1, <1>2, <1>3, <1>4, NextActs, QueueByTime DEF vars

-----------------------------------------------------------------------------
(* At first nothing is there, and nobody has asked.                        *)
LEMMA NothingStarts == ElectronicsInit => ReadInv /\ StatusInv /\ FilesInv /\ TidyInv
<1>. SUFFICES ASSUME ElectronicsInit PROVE ReadInv /\ StatusInv /\ FilesInv /\ TidyInv OBVIOUS
<1>1. \A u \in Uploads : upload[u].status = "none" BY DEF ElectronicsInit, DesignsInit, NoUpload
<1>2. \A r \in Requests : asked[r].pc = "new" BY DEF ElectronicsInit, DesignsInit, NewRequest
<1>3. files = {} BY DEF ElectronicsInit, DesignsInit
<1>. QED BY <1>1, <1>2, <1>3, DesignAssumption DEF ReadInv, Reading, StatusInv, SaidBy, FilesInv,
       Filed, There, Erasing, TidyInv, DeletesAlone, Deletes, Handled

-----------------------------------------------------------------------------
(* Uploads that are said to be read: nothing fails, so who is to read them *)
(* goes on until they are.                                                 *)
Quiet == faults \subseteq {"stop", "overlap", "outlive"}

(* A job in the queue is taken by a handler, or stays; handlers stay.      *)
LEMMA ReadByLoop ==
  ASSUME Typed, QueueInv, ReadInv, Quiet, NEW b \in Backends, OthersRun(b), Turns(b),
         UNCHANGED <<upload, asked>>
  PROVE  ReadInv'
<1>. SUFFICES ASSUME NEW u \in Uploads, ToBeRead(u) PROVE ToBeRead(u)' BY DEF ReadInv
<1>0. /\ job \in [Jobs -> Job]
      /\ \A c \in Backends : loop[c].pc \in Handling => loop[c].on \in Jobs
  BY DEF Typed, ElectronicsTypeOK, Busy
<1>1. loop[b].pc = "write" => loop[b].on \in Jobs BY DEF Typed, Busy
<1>2. ASSUME \A k \in Jobs : job'[k].about = job[k].about,
             \A k \in Jobs : job[k].state = "queued" =>
               job'[k].state = "queued" \/ (loop'[b].pc = "get" /\ loop'[b].on = k),
             loop[b].pc \in Handling => loop'[b].pc = loop[b].pc /\ loop'[b].on = loop[b].on
      PROVE  ToBeRead(u)'
  <2>1. CASE \E r \in Requests : asked[r].pc = "enqueue" /\ asked[r].up = u
    BY <2>1 DEF ToBeRead
  <2>2. CASE \E j \in Jobs : job[j].state = "queued" /\ job[j].about = u
    BY <1>2, <2>2 DEF ToBeRead, Names, Handling
  <2>3. CASE \E c \in Backends : loop[c].pc \in Handling /\ Names(c) = u
    <3>1. PICK c \in Backends : loop[c].pc \in Handling /\ Names(c) = u BY <2>3
    <3>2. loop'[c].pc \in Handling /\ loop'[c].on = loop[c].on BY <1>2, <3>1 DEF OthersRun
    <3>3. Names(c)' = u BY <1>0, <1>2, <3>1, <3>2 DEF Names
    <3>. QED BY <3>2, <3>3 DEF ToBeRead
  <2>. QED BY <2>1, <2>2, <2>3 DEF ToBeRead
<1>3. CASE \E j \in Jobs : Takes(b, j)
  <2>1. PICK j \in Jobs : Takes(b, j) BY <1>3
  <2>2. /\ job'[j].about = job[j].about
        /\ \A k \in Jobs : k = j \/ Same(k) \/ SweptAt(k)
    BY <2>1, ClaimedRows DEF Takes
  <2>. QED BY <1>2, <2>1, <2>2 DEF Takes, Same, SweptAt, Exhausted, Handling
<1>4. CASE FindsNone(b)
  <2>1. \A k \in Jobs : Same(k) \/ SweptAt(k)
    BY <1>4, SweptRows DEF FindsNone, Quiet
  <2>. QED BY <1>2, <1>4, <2>1 DEF FindsNone, Same, SweptAt, Exhausted, Handling
<1>5. CASE Writes(b)
  <2>1. Recorded(b) /\ loop[b].pc = "write" BY <1>5 DEF Writes, Quiet
  <2>2. \A k \in Jobs : Same(k) \/ (job[k].state = "running" /\ job'[k].about = job[k].about)
    BY <1>1, <2>1, RecordedRows
  <2>. QED BY <1>2, <2>1, <2>2 DEF Same, Handling
<1>6. CASE Rests(b) BY <1>2, <1>6 DEF Rests, Busy, Handling
<1>7. ~Dies(b) BY DEF Dies, Quiet
<1>. QED BY <1>3, <1>4, <1>5, <1>6, <1>7 DEF Turns

(* A handler that ends has set a status, unless its upload is gone.        *)
LEMMA ReadByHandler ==
  ASSUME Typed, ReadInv, Quiet, NEW b \in Backends, Handler(b)
  PROVE  ReadInv'
<1>1. /\ OthersRun(b) /\ HandlesOn(b) /\ HandledAs(b) /\ UNCHANGED <<job, asked>>
      /\ Names(b) \in Uploads
  BY HandlerTurns
<1>2. Names(b)' = Names(b) BY <1>1 DEF HandlesOn, Names
<1>3. ASSUME NEW u \in Uploads, u # Names(b), upload'[u].status \in Reading PROVE ToBeRead(u)'
  <2>1. upload'[u] = upload[u] BY <1>1, <1>3 DEF HandledAs, Sets
  <2>2. ToBeRead(u) BY <1>3, <2>1 DEF ReadInv
  <2>3. ASSUME NEW c \in Backends, loop[c].pc \in Handling, Names(c) = u
        PROVE  loop'[c].pc \in Handling /\ Names(c)' = u
    BY <1>1, <1>3, <2>3 DEF OthersRun, Names
  <2>. QED BY <1>1, <2>2, <2>3 DEF ToBeRead
<1>4. ASSUME upload'[Names(b)].status \in Reading PROVE loop'[b].pc \in Handling
  BY <1>1, <1>4 DEF HandledAs, Sets, Quiet, Reading, Handling, There
<1>. QED BY <1>1, <1>2, <1>3, <1>4 DEF ReadInv, ToBeRead

(* Whoever sets `uploaded` is about to queue a job, and then has.          *)
LEMMA ReadByRequest ==
  ASSUME Typed, QueueInv, ReadInv, Quiet, NEW r \in Requests, OthersAsk(r),
         Enqueues(r) \/ (UNCHANGED queue /\ Acts(r))
  PROVE  ReadInv'
<1>0. \A c \in Backends : loop[c].pc \in Handling => loop[c].on \in Jobs
  BY DEF Typed, Busy
<1>1. CASE Enqueues(r)
  <2>1. PICK j \in Jobs : /\ job[j].state = "none"
                          /\ job'[j].state = "queued" /\ job'[j].about = asked[r].up
                          /\ \A k \in Jobs : k # j => Same(k)
    BY <1>1, InsertedRows DEF Enqueues
  <2>2. \A c \in Backends : loop[c].pc \in Handling =>
           loop'[c] = loop[c] /\ job'[loop[c].on] = job[loop[c].on]
    BY <1>0, <1>1, <2>1 DEF Enqueues, Handling, QueueInv, HoldsOne, Same
  <2>3. ASSUME NEW u \in Uploads, ToBeRead(u) PROVE ToBeRead(u)'
    <3>1. CASE \E q \in Requests : asked[q].pc = "enqueue" /\ asked[q].up = u
      BY <2>1, <3>1 DEF OthersAsk, ToBeRead
    <3>2. CASE \E k \in Jobs : job[k].state = "queued" /\ job[k].about = u
      BY <2>1, <3>2 DEF ToBeRead, Same
    <3>3. CASE \E c \in Backends : loop[c].pc \in Handling /\ Names(c) = u
      BY <2>2, <3>3 DEF ToBeRead, Names
    <3>. QED BY <2>3, <3>1, <3>2, <3>3 DEF ToBeRead
  <2>. QED BY <1>1, <2>3 DEF Enqueues, ReadInv
<1>2. CASE UNCHANGED queue /\ Acts(r)
  <2>0. ~GivesUp(r) BY DEF GivesUp, Quiet
  <2>1. ASSUME NEW u \in Uploads, upload'[u] = upload[u], upload'[u].status \in Reading,
               asked[r].pc # "enqueue"
        PROVE  ToBeRead(u)'
    <3>1. ToBeRead(u) BY <2>1 DEF ReadInv
    <3>2. UNCHANGED <<job, loop>> BY <1>2 DEF queue
    <3>. QED BY <2>1, <3>1, <3>2 DEF OthersAsk, ToBeRead, Names
  <2>2. CASE Inserts(r) BY <2>1, <2>2 DEF Inserts, ReadInv, ToBeRead, Quiet
  <2>3. CASE Resets(r) BY <2>1, <2>3 DEF Resets, Sets, ReadInv, ToBeRead
  <2>4. CASE Erases(r) BY <2>1, <2>4 DEF Erases, ReadInv, NoUpload, Reading
  <2>5. CASE GoesOn(r) \/ Stores(r) \/ IsRefused(r) \/ Unstores(r) \/ Lists(r) \/ Drops(r)
             \/ Removes(r)
    BY <2>1, <2>5 DEF GoesOn, Stores, IsRefused, Unstores, Lists, Drops, Removes, ReadInv
  <2>. QED BY <1>2, <2>0, <2>2, <2>3, <2>4, <2>5 DEF Acts, Alters
<1>. QED BY <1>1, <1>2

(* Whatever step is taken.                                                 *)
LEMMA ReadSteps ==
  ASSUME Typed, QueueInv, ReadInv, Quiet, [ElectronicsNext]_vars
  PROVE  ReadInv'
<1>1. CASE UNCHANGED vars
  BY <1>1 DEF vars, queue, tables, ReadInv, ToBeRead, Names
<1>2. ASSUME NEW b \in Backends, LoopActs(b) PROVE ReadInv'
  BY <1>2, LoopTurns, ReadByLoop DEF LoopActs, QueueInv, tables
<1>3. ASSUME NEW r \in Requests, RequestActs(r) PROVE ReadInv'
  BY <1>3, RequestTurns, ReadByRequest
<1>4. ASSUME NEW j \in Jobs, TimeActs(j) PROVE ReadInv'
  <2>1. /\ loop' = loop
        /\ \A k \in Jobs : job'[k].state = job[k].state /\ job'[k].about = job[k].about
    BY <1>4, TimeRows DEF TimeActs
  <2>2. \A c \in Backends : loop[c].pc \in Handling => loop[c].on \in Jobs BY DEF Typed, Busy
  <2>. QED BY <1>4, <2>1, <2>2 DEF TimeActs, tables, ReadInv, ToBeRead, Names
<1>. QED BY <1>1, <1>2, <1>3, <1>4, ReadByHandler, NextActs

-----------------------------------------------------------------------------
(* What a status says: the job it was set by has ended so, or will.        *)

(* What a job has come to stays so; the attempt under way records it.      *)
Stands == \A k \in Jobs : /\ Reviewed(k) => Reviewed(k)'
                          /\ Unread(k) => Unread(k)'
                          /\ job[k].state # "none" => job'[k].about = job[k].about

(* A status that is not set is still that of a job that ended so, or will. *)
LEMMA StatusStands ==
  ASSUME Typed, QueueInv, StatusInv, Stands,
         NEW u \in Uploads, upload'[u].status = upload[u].status
  PROVE  SaidBy(u)'
<1>1. \A k \in Jobs : Reviewed(k) \/ Unread(k) => job[k].state # "none"
  BY DEF Reviewed, Unread, QueueInv, HoldsOne
<1>. QED BY <1>1 DEF StatusInv, SaidBy, Stands

(* A loop records what its attempt came to, and takes what waits.          *)
LEMMA StandsByLoop ==
  ASSUME Typed, QueueInv, Undisturbed, NEW b \in Backends, OthersRun(b), Turns(b)
  PROVE  Stands
<1>1. CASE \E j \in Jobs : Takes(b, j)
  <2>1. PICK j \in Jobs : Takes(b, j) BY <1>1
  <2>2. /\ job[j].state = "queued" \/ job[j].state = "running"
        /\ job'[j].about = job[j].about
        /\ \A k \in Jobs : k = j \/ Same(k) \/ SweptAt(k)
    BY <2>1, ClaimedRows DEF Takes
  <2>. QED BY <2>1, <2>2 DEF Takes, OthersRun, Stands, Reviewed, Unread, Same, SweptAt, Exhausted
<1>2. CASE FindsNone(b)
  <2>1. \A k \in Jobs : Same(k) \/ SweptAt(k)
    BY <1>2, SweptRows DEF FindsNone, Undisturbed
  <2>. QED BY <1>2, <2>1 DEF FindsNone, OthersRun, Stands, Reviewed, Unread, Same, SweptAt,
         Exhausted
<1>3. CASE Writes(b)
  <2>1. Recorded(b) /\ loop[b].pc = "write" BY <1>3 DEF Writes, Undisturbed
  <2>2. PICK j \in Jobs : j = loop[b].on BY <2>1 DEF Typed, Busy
  <2>3. job[j].state = "running" BY <2>2 DEF QueueInv, HoldsAlone, Undisturbed
  <2>4. /\ \A k \in Jobs : k # j => Same(k)
        /\ job'[j].about = job[j].about
        /\ IF loop[b].ok THEN job'[j].state = "completed"
                         ELSE job'[j].state \in {"queued", "failed"}
    BY <2>1, <2>2, <2>3, RecordedRows
  <2>5. \A c \in Backends : c # b => loop[c].on # j
    BY <2>2 DEF QueueInv, HoldsAlone, Undisturbed
  <2>6. ASSUME NEW k \in Jobs, k # j
        PROVE  /\ Reviewed(k) => Reviewed(k)'
               /\ Unread(k) => Unread(k)'
               /\ job'[k].about = job[k].about
    BY <2>2, <2>4, <2>6 DEF OthersRun, Reviewed, Unread, Same
  <2>7. Reviewed(j) => loop[b].ok
    <3>1. ASSUME NEW c \in Backends, loop[c].on = j, loop[c].ok PROVE loop[b].ok
      BY <2>5, <3>1
    <3>. QED BY <2>3, <3>1 DEF Reviewed
  <2>8. Unread(j) => ~loop[b].ok
    <3>1. ASSUME NEW c \in Backends, loop[c].on = j,
                 loop[c].pc \in {"get", "parsing"} \/ ~loop[c].ok
          PROVE  ~loop[b].ok
      BY <2>1, <2>5, <3>1
    <3>. QED BY <2>3, <3>1 DEF Unread
  <2>9. /\ Reviewed(j) => Reviewed(j)'
        /\ Unread(j) => Unread(j)'
        /\ job'[j].about = job[j].about
    <3>1. CASE loop[b].ok
      <4>1. job'[j].state = "completed" BY <2>4, <3>1
      <4>. QED BY <2>4, <2>8, <3>1, <4>1 DEF Reviewed
    <3>2. CASE ~loop[b].ok
      <4>1. job'[j].state \in {"queued", "failed"} BY <2>4, <3>2
      <4>. QED BY <2>4, <2>7, <3>2, <4>1 DEF Unread
    <3>. QED BY <3>1, <3>2
  <2>. SUFFICES ASSUME NEW k \in Jobs
                PROVE  /\ Reviewed(k) => Reviewed(k)'
                       /\ Unread(k) => Unread(k)'
                       /\ job'[k].about = job[k].about
    BY DEF Stands
  <2>. QED BY <2>6, <2>9
<1>4. CASE Rests(b)
  BY <1>4 DEF Rests, OthersRun, Stands, Reviewed, Unread, Busy, Handling
<1>5. ~Dies(b) BY DEF Dies, Undisturbed
<1>. QED BY <1>1, <1>2, <1>3, <1>4, <1>5 DEF Turns

(* A handler sets the status its attempt comes to.                         *)
LEMMA StatusByHandler ==
  ASSUME Typed, QueueInv, Undisturbed, StatusInv, NEW b \in Backends, Handler(b)
  PROVE  StatusInv'
<1>1. /\ OthersRun(b) /\ HandlesOn(b) /\ HandledAs(b) /\ UNCHANGED job
      /\ loop[b].on \in Jobs
  BY HandlerTurns
<1>2. ASSUME NEW k \in Jobs, k # loop[b].on
      PROVE  (Reviewed(k) => Reviewed(k)') /\ (Unread(k) => Unread(k)')
  BY <1>1, <1>2 DEF OthersRun, Reviewed, Unread
<1>3. ASSUME NEW u \in Uploads, u # Names(b) PROVE SaidBy(u)'
  <2>1. upload'[u] = upload[u] BY <1>1, <1>3 DEF HandledAs, Sets
  <2>2. \A k \in Jobs : job[k].about = u => k # loop[b].on BY <1>3 DEF Names
  <2>. QED BY <1>1, <1>2, <2>1, <2>2 DEF StatusInv, SaidBy
<1>4. ASSUME NEW u \in Uploads, u = Names(b) PROVE SaidBy(u)'
  <2>0. PICK j \in Jobs : j = loop[b].on BY <1>1
  <2>1. job[j].about = u /\ loop'[b].on = j BY <1>1, <1>4, <2>0 DEF Names, HandlesOn
  <2>2. ASSUME upload' = upload, Unread(j) => Unread(j)', Reviewed(j) => Reviewed(j)'
        PROVE  SaidBy(u)'
    BY <1>1, <1>2, <1>4, <2>0, <2>2 DEF StatusInv, SaidBy
  <2>3. \A c \in Backends : c # b => loop[c].on # j
    BY <1>1, <2>0 DEF QueueInv, HoldsAlone, Undisturbed
  <2>4. job[j].state = "running" BY <1>1, <2>0 DEF QueueInv, HoldsAlone, Undisturbed
  <2>5. CASE upload' = upload /\ loop[b].pc = "get" /\ loop'[b].pc = "parsing"
    <3>1. Unread(j)' BY <1>1, <2>1, <2>5 DEF Unread
    <3>2. ~Reviewed(j) BY <2>3, <2>4, <2>5 DEF Reviewed
    <3>. QED BY <2>2, <2>5, <3>1, <3>2
  <2>6. CASE upload' = upload /\ ~There(u) BY <1>4, <2>6 DEF There, SaidBy
  <2>7. CASE Sets(u, "parsing") BY <1>4, <2>7 DEF Sets, There, SaidBy
  <2>8. CASE upload' = upload /\ loop[b].pc \in {"read", "graph"}
    <3>1. ~Reviewed(j) BY <2>3, <2>4, <2>8 DEF Reviewed
    <3>2. ~Unread(j) BY <2>3, <2>4, <2>8 DEF Unread
    <3>. QED BY <2>2, <2>8, <3>1, <3>2
  <2>9. CASE Sets(u, "review") /\ loop'[b].pc = "write" /\ loop'[b].ok
    <3>1. upload'[u].status # "failed" BY <1>4, <2>9 DEF Sets, There
    <3>2. Reviewed(j)' BY <2>1, <2>9 DEF Reviewed
    <3>3. job'[j].about = u BY <1>1, <2>1
    <3>. QED BY <1>1, <3>1, <3>2, <3>3 DEF SaidBy
  <2>10. CASE Sets(u, "failed") /\ loop'[b].pc = "write" /\ ~loop'[b].ok
    <3>1. upload'[u].status # "review" BY <1>4, <2>10 DEF Sets, There
    <3>2. Unread(j)' BY <2>1, <2>10 DEF Unread
    <3>3. job'[j].about = u BY <1>1, <2>1
    <3>. QED BY <1>1, <3>1, <3>2, <3>3 DEF SaidBy
  <2>. QED BY <1>1, <1>4, <2>5, <2>6, <2>7, <2>8, <2>9, <2>10 DEF HandledAs, Undisturbed
<1>. QED BY <1>3, <1>4 DEF StatusInv

(* A request sets no status but `uploaded`.                                *)
LEMMA StatusByRequest ==
  ASSUME Typed, QueueInv, StatusInv, NEW r \in Requests,
         Enqueues(r) \/ (UNCHANGED queue /\ Acts(r))
  PROVE  StatusInv'
<1>1. CASE Enqueues(r)
  <2>1. PICK j \in Jobs : /\ job[j].state = "none" /\ \A k \in Jobs : k # j => Same(k)
    BY <1>1, InsertedRows DEF Enqueues
  <2>2. \A c \in Backends : loop[c].on # j BY <2>1 DEF QueueInv, HoldsOne
  <2>3. Stands BY <1>1, <2>1, <2>2 DEF Enqueues, Stands, Reviewed, Unread, Same
  <2>. QED BY <1>1, <2>3, StatusStands DEF Enqueues, StatusInv
<1>2. CASE UNCHANGED queue /\ Acts(r)
  <2>1. Stands BY <1>2 DEF queue, Stands, Reviewed, Unread
  <2>2. \A u \in Uploads : \/ upload'[u].status = upload[u].status
                           \/ upload'[u].status \in {"uploaded", "none"}
    BY <1>2 DEF Acts, Alters, GoesOn, Stores, Inserts, IsRefused, Unstores, Resets, Sets, Lists,
       Erases,
       NoUpload, Drops, Removes, GivesUp
  <2>. QED BY <2>1, <2>2, StatusStands DEF StatusInv, SaidBy
<1>. QED BY <1>1, <1>2

(* Whatever step is taken.                                                 *)
LEMMA StatusSteps ==
  ASSUME Typed, QueueInv, Undisturbed, StatusInv, [ElectronicsNext]_vars
  PROVE  StatusInv'
<1>1. CASE UNCHANGED vars
  BY <1>1 DEF vars, queue, tables, StatusInv, SaidBy, Reviewed, Unread
<1>2. ASSUME NEW b \in Backends, LoopActs(b) PROVE StatusInv'
  <2>1. Stands BY <1>2, LoopTurns, StandsByLoop DEF LoopActs, QueueInv
  <2>. QED BY <1>2, <2>1, StatusStands DEF LoopActs, tables, StatusInv
<1>3. ASSUME NEW r \in Requests, RequestActs(r) PROVE StatusInv'
  BY <1>3, RequestTurns, StatusByRequest
<1>4. ASSUME NEW j \in Jobs, TimeActs(j) PROVE StatusInv'
  <2>1. Stands BY <1>4, TimeRows DEF TimeActs, Stands, Reviewed, Unread
  <2>. QED BY <1>4, <2>1, StatusStands DEF TimeActs, tables, StatusInv
<1>. QED BY <1>1, <1>2, <1>3, <1>4, StatusByHandler, NextActs

-----------------------------------------------------------------------------
(* The files of the uploads.                                               *)

(* What is there of an upload, whatever its status.                        *)
SameThere == \A u \in Uploads : There(u)' <=> There(u)

(* A handler makes no upload, and removes none.                            *)
LEMMA HandlerThere == ASSUME Typed, NEW b \in Backends, Handler(b)
                      PROVE  SameThere /\ UNCHANGED <<scenario, files, asked, revision>>
                             /\ \A u \in Uploads : upload'[u].of = upload[u].of
<1>1. HandledAs(b) /\ UNCHANGED <<scenario, files, asked, revision>> BY HandlerTurns
<1>. QED BY <1>1 DEF HandledAs, Sets, SameThere, There

(* A request that has inserted its upload, or will not, stays so.          *)
LEMMA FiledByRequest ==
  ASSUME Typed, FilesInv, "lost" \notin faults, NEW r \in Requests, OthersAsk(r),
         Enqueues(r) \/ Acts(r)
  PROVE  FilesInv'
<1>0. Uploads = Requests BY DesignAssumption
<1>1. \A u \in Uploads : asked[u].pc \in Spent => asked'[u].pc \in Spent
  <2>1. asked[r].pc \in Spent => asked'[r].pc \in Spent
    BY DEF Enqueues, Acts, Alters, GoesOn, Stores, Inserts, IsRefused, Unstores, Resets, Lists,
       Erases,
       Drops, Removes, GivesUp, Spent
  <2>. QED BY <1>0, <2>1 DEF OthersAsk
<1>2. ASSUME NEW u \in Uploads, upload' = upload, files' = files,
             asked'[r].pc = "insert" => r # u,
             asked'[r].pc \notin Erasing \cup {"erase"}
      PROVE  Filed(u)'
  BY <1>0, <1>1, <1>2 DEF FilesInv, Filed, There, OthersAsk
<1>3. CASE Enqueues(r) \/ GoesOn(r) \/ IsRefused(r) \/ GivesUp(r)
  <2>1. asked'[r].pc \notin Erasing \cup {"erase", "insert"}
    BY <1>3 DEF Enqueues, GoesOn, IsRefused, GivesUp, WithFiles, Erasing
  <2>. QED BY <1>2, <1>3, <2>1 DEF Enqueues, GoesOn, IsRefused, GivesUp, FilesInv
<1>4. CASE Stores(r)
  BY <1>0, <1>1, <1>4 DEF Stores, FilesInv, Filed, There, OthersAsk, Erasing
<1>5. CASE Inserts(r)
  BY <1>0, <1>1, <1>5 DEF Inserts, FilesInv, Filed, There, OthersAsk, Erasing, Spent
<1>6. CASE Unstores(r)
  BY <1>0, <1>1, <1>6 DEF Unstores, FilesInv, Filed, There, OthersAsk, Erasing, Spent
<1>7. CASE Resets(r)
  BY <1>0, <1>1, <1>7 DEF Resets, Sets, FilesInv, Filed, There, OthersAsk, Erasing
<1>8. CASE Lists(r)
  <2>1. \A u \in asked'[r].list : u \in Uploads /\ There(u) BY <1>8 DEF Lists, Of
  <2>. QED BY <1>0, <1>1, <1>8, <2>1 DEF Lists, FilesInv, Filed, There, OthersAsk, Erasing
<1>9. CASE Erases(r)
  BY <1>0, <1>1, <1>9 DEF Erases, FilesInv, Filed, There, OthersAsk, Erasing, NoUpload
<1>10. CASE Drops(r)
  BY <1>0, <1>1, <1>10 DEF Drops, FilesInv, Filed, There, OthersAsk, Erasing
<1>11. CASE Removes(r)
  BY <1>0, <1>1, <1>11 DEF Removes, FilesInv, Filed, There, OthersAsk, Erasing, Spent
<1>. QED BY <1>3, <1>4, <1>5, <1>6, <1>7, <1>8, <1>9, <1>10, <1>11 DEF Acts, Alters

(* Whatever step is taken.                                                 *)
LEMMA FiledSteps ==
  ASSUME Typed, FilesInv, "lost" \notin faults, [ElectronicsNext]_vars
  PROVE  FilesInv'
<1>1. ASSUME SameThere, UNCHANGED <<files, asked>> PROVE FilesInv'
  BY <1>1 DEF FilesInv, Filed, SameThere
<1>2. CASE UNCHANGED vars BY <1>1, <1>2 DEF vars, tables, SameThere, There
<1>3. ASSUME NEW b \in Backends, LoopActs(b) PROVE FilesInv'
  BY <1>1, <1>3 DEF LoopActs, tables, SameThere, There
<1>4. ASSUME NEW j \in Jobs, TimeActs(j) PROVE FilesInv'
  BY <1>1, <1>4 DEF TimeActs, tables, SameThere, There
<1>. QED BY <1>1, <1>2, <1>3, <1>4, HandlerThere, RequestTurns, FiledByRequest, NextActs

-----------------------------------------------------------------------------
(* Files that no upload has.                                               *)

(* A delete settles what it is of: the one revision, or all the design's.  *)
Plans(r) ==
  /\ UNCHANGED <<upload, files, revision>>
  /\ \/ asked[r].pc = "revisions" /\ asked'[r].pc = "design" /\ asked'[r].whole
     \/ /\ asked[r].pc = "revisions" /\ asked'[r].pc = "uploads"
        /\ ~asked'[r].whole /\ asked'[r].revs = {asked'[r].rev}
     \/ /\ asked[r].pc = "design" /\ asked'[r].pc = "uploads"
        /\ asked'[r].whole = asked[r].whole /\ asked'[r].revs = Ids(revision)

(* A delete is asked for alone, and nothing else is while it is handled.   *)
LEMMA DeleteAlone ==
  ASSUME Typed, Orderly, NEW r \in Requests, RequestActs(r)
  PROVE  /\ r \in Handled \/ Deletes = {}
         /\ asked'[r].pc \in {"revisions", "design", "uploads"} => r \in Deletes \/ Handled = {}
         /\ asked'[r].pc \in {"design", "uploads"} => Plans(r)
<1>0. /\ asked[r] \in Request /\ asked \in [Requests -> Request]
      /\ "overlap" \notin faults
  BY DEF Typed, ElectronicsTypeOK, Orderly
<1>1. CASE Ask(r)
  <2>1. Deletes = {} BY <1>0, <1>1 DEF Ask
  <2>2. CASE /\ Handled = {}
             /\ \E v \in Ids(revision) : asked' = [asked EXCEPT ![r].pc = "revisions", ![r].rev = v]
    BY <1>0, <2>1, <2>2 DEF Request
  <2>3. CASE \E c \in Contents : asked' = [asked EXCEPT ![r].pc = "list", ![r].what = c]
    BY <1>0, <2>1, <2>3 DEF Request
  <2>4. CASE \E u \in Uploads : asked' = [asked EXCEPT ![r].pc = "check", ![r].up = u]
    BY <1>0, <2>1, <2>4 DEF Request
  <2>. QED BY <1>0, <1>1, <2>2, <2>3, <2>4 DEF Ask
<1>2. CASE ~Ask(r) /\ asked[r].pc \notin {"revisions", "design"}
  <2>1. r \in Handled
    BY <1>2 DEF RequestActs, RequestStep, List, Revise, LostRace, FindUpload, Store, InsertUpload,
       Unstore, Reuse, Check, Reset, Enqueue, EnqueueLost, Record, Revisions, ReadRevisions,
       ListUploads, EraseUploads, EraseRevision, EraseDesign, RemoveFiles, RequestFails, Handled
  <2>2. asked'[r].pc \notin {"revisions", "design", "uploads"}
    <3> USE RecordMoves
    <3>1. CASE List(r)
      <4>1. PICK v, s : \/ asked' = [asked EXCEPT ![r].pc = "existing", ![r].rev = v]
                        \/ asked' = [asked EXCEPT ![r].pc = "revise", ![r].seen = s]
        BY <3>1 DEF List
      <4>. QED BY <1>0, <4>1 DEF Request
    <3>2. CASE Revise(r)
      <4> DEFINE raced == [NewRequest EXCEPT !.pc = "raced", !.what = asked[r].what]
                 store == [NewRequest EXCEPT !.pc = "store", !.what = asked[r].what, !.rev = r]
      <4>1. raced.pc = "raced" /\ store.pc = "store" BY DEF NewRequest
      <4>2. \/ Answered(r)
            \/ asked' = [asked EXCEPT ![r] = raced]
            \/ asked' = [asked EXCEPT ![r] = store]
        BY <3>2 DEF Revise
      <4>. HIDE DEF raced, store
      <4>. QED BY <1>0, <4>1, <4>2
    <3>3. CASE LostRace(r)
      <4>1. PICK v : Answered(r) \/ asked' = [asked EXCEPT ![r].pc = "winner", ![r].rev = v]
        BY <3>3 DEF LostRace
      <4>. QED BY <1>0, <4>1 DEF Request
    <3>4. CASE FindUpload(r)
      <4>1. PICK v : \/ asked' = [asked EXCEPT ![r].pc = "reuse", ![r].up = v]
                     \/ Answered(r) \/ Moves(r, "store")
        BY <3>4 DEF FindUpload
      <4>. QED BY <1>0, <4>1 DEF Request
    <3>5. CASE Reuse(r) BY <3>5 DEF Reuse
    <3>6. CASE Check(r) BY <3>6 DEF Check
    <3>7. CASE Record(r) BY <3>7 DEF Record
    <3>8. CASE Enqueue(r) \/ EnqueueLost(r) BY <3>8 DEF Enqueue, EnqueueLost
    <3>9. CASE Store(r) \/ InsertUpload(r) \/ Unstore(r) \/ Reset(r) \/ ListUploads(r)
               \/ EraseUploads(r) \/ EraseRevision(r) \/ EraseDesign(r) \/ RemoveFiles(r)
               \/ RequestFails(r)
      <4>1. Alters(r) BY <3>9, WritingActs
      <4>. QED BY <4>1 DEF Alters, Stores, Inserts, IsRefused, Unstores, Resets, Lists, Erases,
             Drops, Removes, GivesUp
    <3>10. ~Revisions(r) /\ ~ReadRevisions(r) BY <1>2 DEF Revisions, ReadRevisions
    <3>. QED BY <1>2, <3>1, <3>2, <3>3, <3>4, <3>5, <3>6, <3>7, <3>8, <3>9, <3>10
           DEF RequestActs, RequestStep
  <2>. QED BY <2>1, <2>2
<1>3. CASE ~Ask(r) /\ asked[r].pc \in {"revisions", "design"}
  <2>1. r \in Deletes /\ r \in Handled BY <1>3 DEF Handled, Deletes
  <2>2. Revisions(r) \/ ReadRevisions(r) \/ RequestFails(r)
    BY <1>3 DEF RequestActs, RequestStep, List, Revise, LostRace, FindUpload, Store, InsertUpload,
       Unstore, Reuse, Check, Reset, Enqueue, EnqueueLost, Record, ListUploads,
       EraseUploads, EraseRevision, EraseDesign, RemoveFiles
  <2>3. ASSUME Revisions(r), ~Answered(r) PROVE Plans(r)
    <3>1. UNCHANGED <<upload, files, revision>> /\ asked[r].pc = "revisions"
      BY <2>3 DEF Revisions, tables
    <3>2. PICK last \in BOOLEAN :
            asked' = [asked EXCEPT ![r].pc = IF last THEN "design" ELSE "uploads",
                                   ![r].whole = last, ![r].revs = {asked[r].rev}]
      BY <2>3 DEF Revisions
    <3>. QED BY <1>0, <3>1, <3>2 DEF Plans, Request
  <2>4. ASSUME ReadRevisions(r), ~Answered(r) PROVE Plans(r)
    <3>1. /\ UNCHANGED <<upload, files, revision>> /\ asked[r].pc = "design"
          /\ asked' = [asked EXCEPT ![r].pc = "uploads", ![r].revs = Ids(revision)]
      BY <2>4 DEF ReadRevisions, tables
    <3>. QED BY <1>0, <3>1 DEF Plans, Request
  <2>. QED BY <2>1, <2>2, <2>3, <2>4, RecordMoves DEF RequestFails
<1>. QED BY <1>1, <1>2, <1>3

(* While a delete is handled, nobody else moves; and others delete nothing *)
(* that it could meet.                                                     *)
LEMMA DeletesByRequest ==
  ASSUME Typed, Orderly, TidyInv, NEW r \in Requests, RequestActs(r)
  PROVE  \A q \in Requests : DeletesAlone(q)'
<1>0. OthersAsk(r) /\ (Enqueues(r) \/ (UNCHANGED queue /\ Acts(r))) BY RequestTurns
<1> USE DeleteAlone
<1>1. ASSUME r \in Deletes \/ Handled = {} PROVE \A q \in Requests : q # r => q \notin Handled'
  BY <1>0, <1>1 DEF TidyInv, DeletesAlone, OthersAsk, Handled
<1>2. asked'[r].pc \in {"revisions", "design", "uploads", "erase", "unlink", "drop", "remove"} =>
        r \in Deletes \/ Handled = {}
  <2>1. r \in Handled /\ asked[r].pc \in {"uploads", "erase", "unlink", "drop"} => r \in Deletes
    BY DEF Deletes
  <2>. QED BY <1>0, <2>1 DEF Enqueues, Acts, Alters, GoesOn, WithFiles, Erasing, Stores, Inserts,
         IsRefused, Unstores, Resets, Lists, Erases, Drops, Removes, GivesUp, Handled
<1>3. ASSUME NEW q \in Requests, q # r PROVE q \notin Deletes'
  <2>1. q \in Deletes' => q \in Deletes BY <1>0, <1>3 DEF OthersAsk, Deletes, Handled
  <2>2. q \in Deletes => r \notin Handled BY <1>3 DEF TidyInv, DeletesAlone
  <2>. QED BY <2>1, <2>2
<1>4. r \in Deletes' => Handled' = {r}
  <2>1. r \in Deletes' => r \in Handled' BY DEF Deletes
  <2>2. Handled' \subseteq Requests BY DEF Handled
  <2>. QED BY <1>1, <1>2, <2>1, <2>2 DEF Deletes
<1>5. CASE Lists(r)
  <2>1. asked[r].revs = AboutRevisions(r) BY <1>5 DEF Lists, TidyInv, DeletesAlone
  <2>2. asked'[r].list = Of(AboutRevisions(r))' BY <1>5, <2>1
    DEF Lists, SameRevisions, AboutRevisions, Of, There
  <2>. QED BY <1>3, <1>4, <1>5, <2>2 DEF Lists, DeletesAlone, Deletes, Handled
<1>6. CASE Erases(r)
  <2>1. asked[r].list = Of(AboutRevisions(r)) BY <1>6 DEF TidyInv, DeletesAlone, Erases
  <2>2. AboutRevisions(r)' = AboutRevisions(r) BY <1>6 DEF Erases, SameRevisions, AboutRevisions
  <2>3. Of(AboutRevisions(r))' = {}
    BY <1>6, <2>1, <2>2 DEF Erases, Of, There, NoUpload
  <2>. QED BY <1>3, <1>4, <1>6, <2>3 DEF Erases, SameRevisions, DeletesAlone, Deletes, Handled
<1>7. CASE Plans(r)
  <2>1. asked[r].pc = "design" => asked[r].whole BY DEF TidyInv, DeletesAlone
  <2>2. Ids(revision)' = Ids(revision) BY <1>7 DEF Plans, Ids, Listed
  <2>. QED BY <1>3, <1>4, <1>7, <2>1, <2>2 DEF Plans, AboutRevisions, DeletesAlone, Deletes, Handled
<1>8. CASE ~Lists(r) /\ ~Erases(r) /\ ~Plans(r)
  <2>1. asked'[r].pc \notin {"design", "uploads", "erase", "unlink", "drop"}
    BY <1>0, <1>8 DEF Enqueues, Acts, Alters, GoesOn, WithFiles, Erasing, Stores, Inserts,
       IsRefused, Unstores, Resets, Drops, Removes, GivesUp
  <2>. QED BY <1>3, <1>4, <2>1 DEF DeletesAlone, Deletes, Handled
<1>. QED BY <1>5, <1>6, <1>7, <1>8

(* Whoever leaves a file without its upload will remove it.                *)
LEMMA KeptByRequest ==
  ASSUME Typed, Orderly, TidyInv, NEW r \in Requests, OthersAsk(r), Enqueues(r) \/ Acts(r)
  PROVE  \A u \in files' : Kept(u)'
<1>0. Uploads = Requests /\ files \subseteq Uploads BY DesignAssumption DEF Typed, ElectronicsTypeOK
<1>1. CASE Enqueues(r) \/ GoesOn(r) \/ Lists(r)
  <2>1. asked[r].pc \notin Erasing \cup {"insert", "unstore"} /\ UNCHANGED <<upload, files>>
    BY <1>1 DEF Enqueues, GoesOn, Lists, WithFiles, Erasing
  <2>. QED BY <1>0, <2>1 DEF TidyInv, Kept, There, OthersAsk
<1>2. CASE Stores(r) \/ IsRefused(r) \/ Unstores(r)
  <2>1. /\ asked[r].pc \notin Erasing /\ upload' = upload /\ files' \subseteq files \cup {r}
        /\ r \in files' => asked'[r].pc \in {"insert", "unstore"}
    BY <1>2 DEF Stores, IsRefused, Unstores, Erasing
  <2>. QED BY <1>0, <2>1 DEF TidyInv, Kept, There, OthersAsk
<1>3. CASE Inserts(r)
  BY <1>0, <1>3 DEF Inserts, TidyInv, Kept, There, OthersAsk, Erasing
<1>4. CASE Resets(r)
  <2>1. \A u \in Uploads : There(u) => There(u)' BY <1>4 DEF Resets, Sets, There
  <2>. QED BY <1>0, <1>4, <2>1 DEF Resets, TidyInv, Kept, OthersAsk, Erasing
<1>5. CASE Erases(r)
  <2>1. asked'[r].pc \in Erasing /\ asked'[r].list = asked[r].list BY <1>5 DEF Erases, Erasing
  <2>2. \A u \in Uploads : There(u) => There(u)' \/ u \in asked[r].list BY <1>5 DEF Erases, There
  <2>. QED BY <1>0, <1>5, <2>1, <2>2 DEF Erases, TidyInv, Kept, OthersAsk, Erasing
<1>6. CASE Drops(r)
  <2>1. asked'[r].pc = "remove" /\ asked'[r].list = asked[r].list
    BY <1>6 DEF Drops, TidyInv, DeletesAlone, AboutRevisions
  <2>. QED BY <1>0, <1>6, <2>1 DEF Drops, TidyInv, Kept, There, OthersAsk, Erasing
<1>7. CASE Removes(r)
  BY <1>0, <1>7 DEF Removes, TidyInv, Kept, There, OthersAsk, Erasing
<1>8. ~GivesUp(r) BY DEF GivesUp, Orderly
<1>. QED BY <1>1, <1>2, <1>3, <1>4, <1>5, <1>6, <1>7, <1>8 DEF Acts, Alters

(* Whatever step is taken.                                                 *)
LEMMA TidySteps ==
  ASSUME Typed, Orderly, TidyInv, [ElectronicsNext]_vars
  PROVE  TidyInv'
<1>0. files \subseteq Uploads BY DEF Typed, ElectronicsTypeOK
<1>1. ASSUME SameThere, \A u \in Uploads : upload'[u].of = upload[u].of,
             UNCHANGED <<files, asked, revision>>
      PROVE  TidyInv'
  <2>1. \A u \in files : Kept(u)' BY <1>0, <1>1 DEF TidyInv, Kept, SameThere
  <2>2. ASSUME NEW r \in Requests PROVE DeletesAlone(r)'
    <3>1. DeletesAlone(r) BY DEF TidyInv
    <3>2. AboutRevisions(r)' = AboutRevisions(r) BY <1>1 DEF AboutRevisions, Ids, Listed
    <3>3. Of(AboutRevisions(r))' = Of(AboutRevisions(r)) BY <1>1, <3>2 DEF Of, SameThere
    <3>. QED BY <1>1, <3>1, <3>2, <3>3 DEF DeletesAlone, Deletes, Handled
  <2>. QED BY <1>1, <2>1, <2>2 DEF TidyInv
<1>2. CASE UNCHANGED vars BY <1>1, <1>2 DEF vars, tables, SameThere, There
<1>3. ASSUME NEW b \in Backends, LoopActs(b) PROVE TidyInv'
  BY <1>1, <1>3 DEF LoopActs, tables, SameThere, There
<1>4. ASSUME NEW j \in Jobs, TimeActs(j) PROVE TidyInv'
  BY <1>1, <1>4 DEF TimeActs, tables, SameThere, There
<1>5. ASSUME NEW r \in Requests, RequestActs(r) PROVE TidyInv'
  BY <1>5, RequestTurns, KeptByRequest, DeletesByRequest DEF TidyInv
<1>. QED BY <1>1, <1>2, <1>3, <1>4, <1>5, HandlerThere, NextActs

-----------------------------------------------------------------------------
(* No step has another scenario.                                           *)
LEMMA SameScenario ==
  ASSUME Typed, [ElectronicsNext]_vars
  PROVE  scenario' = scenario
<1>1. \A b \in Backends : Handler(b) => scenario' = scenario BY HandlerTurns
<1>2. \A r \in Requests : RequestActs(r) => scenario' = scenario BY RequestTurns
<1>. QED BY <1>1, <1>2, NextActs DEF vars, queue, TimeActs

(* The queue, who reads an upload, what its status says, where its files   *)
(* are and who removes them: each under the faults it stands.              *)
THEOREM ElectronicsInvariant == ElectronicsSpec => []ElectronicsInv
<1>1. ElectronicsInit => ElectronicsInv
  <2>1. ElectronicsInit => JobAttemptsBounded
    BY QueueAssumption DEF ElectronicsInit, QueueInit, NoRow, JobAttemptsBounded
  <2>. QED BY <2>1, TypedStart, QueueStarts, NothingStarts DEF ElectronicsInv
<1>2. ElectronicsInv /\ [ElectronicsNext]_vars => ElectronicsInv'
  <2>. SUFFICES ASSUME ElectronicsInv, [ElectronicsNext]_vars PROVE ElectronicsInv' OBVIOUS
  <2>1. Typed /\ JobAttemptsBounded /\ QueueInv BY DEF ElectronicsInv
  <2>2. faults' = faults BY <2>1, SameScenario DEF faults
  <2>3. Typed' /\ JobAttemptsBounded' /\ QueueInv'
    BY <2>1, TypedStep, RowsKept, QueueSteps DEF WellKept
  <2>4. (faults \subseteq {"stop", "overlap", "outlive"} => ReadInv)'
    BY <2>1, <2>2, ReadSteps DEF ElectronicsInv, Quiet
  <2>5. (Undisturbed => StatusInv)'
    BY <2>1, <2>2, StatusSteps DEF ElectronicsInv, Undisturbed
  <2>6. ("lost" \notin faults => FilesInv)'
    BY <2>1, <2>2, FiledSteps DEF ElectronicsInv
  <2>7. (Orderly => TidyInv)'
    BY <2>1, <2>2, TidySteps DEF ElectronicsInv, Orderly
  <2>. QED BY <2>3, <2>4, <2>5, <2>6, <2>7 DEF ElectronicsInv
<1>. QED BY <1>1, <1>2, PTL DEF ElectronicsSpec

(* A process that stops in order leaves no running job without an attempt: *)
(* a job runs only in the loop that holds it, until its end is recorded.   *)
THEOREM StopsAreClean == ElectronicsSpec => []CleanStop
<1>1. ElectronicsInv => CleanStop
  BY DEF ElectronicsInv, QueueInv, Undisturbed, Held, CleanStop, Attempts
<1>. QED BY <1>1, ElectronicsInvariant, PTL

(* An upload in the table has its files in the store, as long as the store *)
(* and the table answer: whatever fails, and whoever deletes meanwhile.    *)
THEOREM UploadsHaveFiles == ElectronicsSpec => []UploadFilesKept
<1>1. ElectronicsInv => UploadFilesKept BY DEF ElectronicsInv, FilesInv, Filed, UploadFilesKept
<1>. QED BY <1>1, ElectronicsInvariant, PTL

(* When the requests are over, every stored file is that of an upload: the *)
(* refused inserts and the deletes have removed theirs.                    *)
THEOREM FilesHaveUploads == ElectronicsSpec => []NoStrayFiles
<1>1. ElectronicsInv => NoStrayFiles
  <2>. SUFFICES ASSUME ElectronicsInv, Orderly, Handled = {}, NEW u \in files PROVE There(u)
    BY DEF NoStrayFiles, Orderly
  <2>1. Kept(u) BY DEF ElectronicsInv, TidyInv
  <2>2. u \in Requests BY DesignAssumption DEF ElectronicsInv, Typed, ElectronicsTypeOK
  <2>3. \A r \in Requests : asked[r].pc \in {"new", "answered"} BY DEF Handled
  <2>. QED BY <2>1, <2>2, <2>3 DEF Kept, Erasing
<1>. QED BY <1>1, ElectronicsInvariant, PTL

(* While nothing fails, an upload that is said to be read has a job, an    *)
(* attempt, or a request that is about to queue one.                       *)
THEOREM ReadingHasReader == ElectronicsSpec => []ReadingHasJob
<1>1. ElectronicsInv => ReadingHasJob
  <2>. SUFFICES ASSUME ElectronicsInv, Quiet, NEW u \in Uploads, upload[u].status \in Reading
                PROVE  BeingRead(u)
    BY DEF ReadingHasJob, Quiet
  <2>1. ToBeRead(u) BY DEF ElectronicsInv, ReadInv, Quiet
  <2>2. \A b \in Backends : loop[b].pc \in Handling => loop[b].on # NoJob
    BY QueueAssumption DEF ElectronicsInv, Typed, Busy, Jobs, NoJob
  <2>. QED BY <2>1, <2>2 DEF ToBeRead, BeingRead, Live, Handled
<1>. QED BY <1>1, ElectronicsInvariant, PTL

(* When the jobs of an upload are over, and all came to the same, that is  *)
(* what its status says.                                                   *)
THEOREM StatusTellsTheTruth == ElectronicsSpec => []StatusTruthful
<1>1. ElectronicsInv => StatusTruthful
  <2> DEFINE JobsOf(u) == {j \in Jobs : job[j].state # "none" /\ job[j].about = u}
  <2>. SUFFICES ASSUME ElectronicsInv, Undisturbed, NEW u \in Uploads, There(u), JobsOf(u) # {},
                       JobsOf(u) \cap Live = {}, \A r \in Handled : asked[r].up # u
                PROVE  /\ (\A j \in JobsOf(u) : job[j].state = "completed") =>
                            upload[u].status = "review"
                       /\ (\A j \in JobsOf(u) : job[j].state = "failed") =>
                            upload[u].status = "failed"
    BY DEF StatusTruthful, Undisturbed
  <2>1. Typed /\ QueueInv /\ StatusInv BY DEF ElectronicsInv
  <2>2. ReadInv
    <3>1. faults \subseteq FaultKinds BY <2>1, QueueAssumption DEF Typed, ElectronicsTypeOK, faults
    <3>2. Quiet BY <3>1 DEF Undisturbed, FaultKinds, Quiet
    <3>. QED BY <3>2 DEF ElectronicsInv, Quiet
  <2>3. \A b \in Backends : loop[b].on \in Jobs => job[loop[b].on].state = "running"
    BY <2>1 DEF QueueInv, HoldsAlone, Undisturbed
  <2>4. \A j \in Jobs : job[j].about = u => job[j].state \notin {"queued", "running"}
    BY DEF Live
  <2>5. upload[u].status \notin Reading
    <3>1. ~\E b \in Backends : loop[b].pc \in Handling /\ Names(b) = u
      BY <2>1, <2>3, <2>4 DEF Typed, Busy, Names
    <3>. QED BY <2>2, <2>4, <3>1 DEF ReadInv, ToBeRead, Handled
  <2>6. upload[u].status \in {"review", "failed"}
    BY <2>1, <2>5 DEF Typed, ElectronicsTypeOK, Upload, There, Reading
  <2>7. upload[u].status = "review" => \E j \in JobsOf(u) : job[j].state = "completed"
    BY <2>1, <2>3, <2>4 DEF StatusInv, SaidBy, Reviewed
  <2>8. upload[u].status = "failed" => \E j \in JobsOf(u) : job[j].state = "failed"
    BY <2>1, <2>3, <2>4 DEF StatusInv, SaidBy, Unread
  <2>. QED BY <2>6, <2>7, <2>8
<1>. QED BY <1>1, ElectronicsInvariant, PTL
=============================================================================
