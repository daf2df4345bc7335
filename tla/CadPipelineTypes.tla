------------------------- MODULE CadPipelineTypes -------------------------
(***************************************************************************)
(* Theorems about the CAD upload pipeline that hold under any faults, for  *)
(* any number of uploads, parts, lines, runners, replicas and requests and *)
(* any limit of attempts: the types, and by how much attempts may exceed   *)
(* their limit.  The lemmas about what a step does to a row are here too,  *)
(* as CadPipelineSafety rests on them as well.                             *)
(***************************************************************************)
EXTENDS CadPipeline, FiniteSetTheorems, TLAPS

-----------------------------------------------------------------------------
(* Type correctness.                                                       *)

(* Some upload exists, for idle processes to point at.                     *)
LEMMA AnyUploadExists == AnyUpload \in Uploads
  BY StoreAssumption DEF AnyUpload

(* The initial states are of the right types.                              *)
LEMMA TypeInit == Init => TypeOK
  BY AnyUploadExists, StoreAssumption
  DEF Init, StoreInit, RunnerInit, BackendInit, ApiInit, TypeOK, StoreTypeOK,
      RunnerTypeOK, BackendTypeOK, ApiTypeOK, Row, NoRow, Statuses, Run, NoRun,
      Job, NoJob, Req, NoReq

(* What the updates of several fields at once make of a record.            *)
LEMMA RowRecords ==
  ASSUME NEW r \in Row, NEW s \in Statuses, NEW n \in Nat
  PROVE  /\ [r EXCEPT !.status = s, !.attempts = n, !.stale = FALSE] \in Row
         /\ [r EXCEPT !.status = s, !.tries = n, !.stale = FALSE] \in Row
         /\ [r EXCEPT !.status = s, !.attempts = 0, !.tries = 0,
                      !.gone = FALSE] \in Row
         /\ [r EXCEPT !.stale = TRUE] \in Row
  BY DEF Row, Statuses

(* What a Rust runner keeps of the row it has claimed is a run.            *)
LEMMA RunClaimed ==
  ASSUME NEW u \in Uploads, NEW n \in Nat, NEW gone \in BOOLEAN
  PROVE  [NoRun EXCEPT !.pc = "claimed", !.up = u, !.attempt = n, !.gone = gone]
           \in Run
  BY DEF NoRun, Run

(* What a backend keeps of the row it has claimed is a job.                *)
LEMMA JobClaimed ==
  ASSUME NEW u \in Uploads, NEW n \in Nat, NEW gone \in BOOLEAN,
         NEW pc \in {"loading", "removing"}, NEW ids \in SUBSET Items
  PROVE  [NoJob EXCEPT !.pc = pc, !.up = u, !.attempt = n, !.gone = gone,
                       !.ids = ids] \in Job
  BY DEF NoJob, Job

(* A backend that starts on a listed original has a job.                   *)
LEMMA JobListed ==
  ASSUME NEW u \in Uploads, NEW list \in SUBSET Uploads
  PROVE  /\ [NoJob EXCEPT !.pc = "source", !.up = u, !.list = list] \in Job
         /\ \A r \in Job :
              [r EXCEPT !.pc = "source", !.up = u, !.list = list] \in Job
  BY DEF NoJob, Job

(* What a request keeps of the row it has found is a request.              *)
LEMMA ReqRecords ==
  ASSUME NEW r \in Req, NEW u \in Uploads, NEW raced \in BOOLEAN,
         NEW pc \in {"putting", "requeueing"}
  PROVE  /\ [r EXCEPT !.pc = pc, !.up = u, !.raced = raced] \in Req
         /\ [r EXCEPT !.pc = "putting", !.up = u, !.fresh = TRUE] \in Req
  BY DEF Req

(* Taking an analysis off the queue, or finding only exhausted ones.       *)
LEMMA ClaimType ==
  ASSUME StoreTypeOK, NEW u \in Uploads,
         \/ ClaimNextCadUpload(u) \/ SweepCadUploads
         \/ ClaimNextAnalysedUpload(u) \/ SweepAnalysedUploads
  PROVE  row' \in [Uploads -> Row]
<1>1. RunSwept \in [Uploads -> Row] BY DEF RunSwept, StoreTypeOK, Row, Statuses
<1>2. TrySwept \in [Uploads -> Row] BY DEF TrySwept, StoreTypeOK, Row, Statuses
<1>3. CASE ClaimNextCadUpload(u)
  <2>1. PICK n \in Nat : n = row[u].attempts + 1
    BY DEF StoreTypeOK, Row
  <2>2. row' = [RunSwept EXCEPT ![u].status = "running", ![u].attempts = n,
                             ![u].stale = FALSE]
    BY <1>3, <2>1 DEF ClaimNextCadUpload
  <2> QED BY <1>1, <2>2, RowRecords DEF Statuses
<1>4. CASE ClaimNextAnalysedUpload(u)
  <2>1. PICK n \in Nat : n = row[u].tries + 1
    BY DEF StoreTypeOK, Row
  <2>2. row' = [TrySwept EXCEPT ![u].status = "materializing", ![u].tries = n,
                             ![u].stale = FALSE]
    BY <1>4, <2>1 DEF ClaimNextAnalysedUpload
  <2> QED BY <1>2, <2>2, RowRecords DEF Statuses
<1>5. CASE SweepCadUploads BY <1>1, <1>5 DEF SweepCadUploads
<1>6. CASE SweepAnalysedUploads BY <1>2, <1>6 DEF SweepAnalysedUploads
<1> QED BY <1>3, <1>4, <1>5, <1>6

(* A runner's bookkeeping keeps its type, whatever it decides on a retry.   *)
LEMMA GiveType ==
  ASSUME RunnerTypeOK, NEW w \in Runners, NEW permanent \in BOOLEAN,
         Give(w, permanent) \/ Cleanup(w)
  PROVE  RunnerTypeOK'
<1> DEFINE again == run[w].attempt < MaxAttempts
           b == ~permanent /\ again
<1>1. again \in BOOLEAN /\ b \in BOOLEAN OBVIOUS
<1>2. \/ run' = [run EXCEPT ![w].pc = "failing", ![w].retry = b]
      \/ run' = [run EXCEPT ![w].pc = "cleaning", ![w].retry = again]
  BY DEF Give, Cleanup
<1> HIDE DEF b, again
<1> QED BY <1>1, <1>2 DEF Run, RunnerTypeOK

(* A runner that lets go of its upload keeps the types.                    *)
LEMMA IdleType ==
  ASSUME RunnerTypeOK, NEW w \in Runners, Idle(w)
  PROVE  RunnerTypeOK'
  BY AnyUploadExists DEF Idle, NoRun, Run, RunnerTypeOK

(* A step of a Rust runner.                                                *)
LEMMA RunnerType ==
  ASSUME TypeOK, NEW w \in Runners, RunnerStep(w)
  PROVE  StoreTypeOK' /\ RunnerTypeOK'
<1> USE DEF TypeOK
<1>0. StoreTypeOK /\ RunnerTypeOK OBVIOUS
<1>a. UNCHANGED store => StoreTypeOK' BY <1>0 DEF StoreTypeOK, store
<1>1. CASE RunnerClaims(w)
  <2>1. row' \in [Uploads -> Row]
    BY <1>0, <1>1, StoreAssumption, ClaimType DEF RunnerClaims
  <2>2. ASSUME NEW u \in Uploads,
               run' = [run EXCEPT ![w] =
                 [NoRun EXCEPT !.pc = "claimed", !.up = u,
                               !.attempt = row[u].attempts + 1,
                               !.gone = row[u].gone]]
        PROVE  RunnerTypeOK'
    <3>1. row[u].attempts + 1 \in Nat /\ row[u].gone \in BOOLEAN
      BY <1>0 DEF StoreTypeOK, Row
    <3> QED BY <1>0, <2>2, <3>1, RunClaimed DEF RunnerTypeOK
  <2>3. RunnerTypeOK' BY <1>0, <1>1, <2>2 DEF RunnerClaims, RunnerTypeOK
  <2> QED BY <1>0, <1>1, <2>1, <2>3 DEF RunnerClaims, StoreTypeOK
<1>2. CASE Download(w)
  <2>1. CASE Give(w, TRUE) \/ Give(w, FALSE)
    BY <1>0, <1>2, <1>a, <2>1, GiveType DEF Download
  <2>2. CASE run' = [run EXCEPT ![w].pc = "fetched"]
    BY <1>0, <1>2, <1>a, <2>2 DEF Download, RunnerTypeOK, Run
  <2> QED BY <1>2, <2>1, <2>2 DEF Download
<1>3. CASE Analyse(w)
  <2>1. CASE Give(w, TRUE) \/ Give(w, FALSE)
    BY <1>0, <1>3, <1>a, <2>1, GiveType DEF Analyse
  <2>2. CASE run' = [run EXCEPT ![w].pc = "storing"]
    BY <1>0, <1>3, <1>a, <2>2 DEF Analyse, RunnerTypeOK, Run
  <2> QED BY <1>3, <2>1, <2>2 DEF Analyse
<1>4. CASE PartNotReturned(w) BY <1>0, <1>4, <1>a, GiveType DEF PartNotReturned
<1>5. ASSUME NEW p \in Parts, StorePart(w, p) PROVE StoreTypeOK' /\ RunnerTypeOK'
  <2>1. StoreTypeOK' BY <1>0, <1>5 DEF StorePart, StoreTypeOK, RunnerTypeOK, Run
  <2>2. CASE Cleanup(w) BY <1>0, <2>1, <2>2, GiveType
  <2>3. CASE run' = [run EXCEPT ![w].stored = run[w].stored \cup {p}]
    BY <1>0, <2>1, <2>3 DEF RunnerTypeOK, Run
  <2> QED BY <1>5, <2>2, <2>3 DEF StorePart
<1>6. ASSUME NEW p \in Parts, CleanPart(w, p) PROVE StoreTypeOK' /\ RunnerTypeOK'
  BY <1>0, <1>6 DEF CleanPart, StoreTypeOK, RunnerTypeOK, Run
<1>7. CASE FinishAnalysed(w)
  <2>1. RunnerTypeOK' BY <1>0, <1>7, IdleType, GiveType DEF FinishAnalysed
  <2>2. row' \in [Uploads -> Row]
    BY <1>0, <1>7 DEF FinishAnalysed, MarkAnalysed, StoreTypeOK, Row, Statuses
  <2> QED BY <1>0, <1>7, <2>1, <2>2 DEF FinishAnalysed, StoreTypeOK
<1>8. CASE EndCleanup(w) BY <1>0, <1>8, <1>a DEF EndCleanup, RunnerTypeOK, Run
<1>9. CASE FinishFailed(w)
  <2>1. row' \in [Uploads -> Row]
    BY <1>0, <1>9 DEF FinishFailed, MarkFailed, StoreTypeOK, Row, Statuses
  <2> QED BY <1>0, <1>9, <2>1, IdleType DEF FinishFailed, StoreTypeOK
<1> QED BY <1>1, <1>2, <1>3, <1>4, <1>5, <1>6, <1>7, <1>8, <1>9 DEF RunnerStep

(* The backend's updates by id, its bookkeeping, and its steps.            *)
LEMMA UpdateType ==
  ASSUME StoreTypeOK, NEW u \in Uploads, NEW s \in Statuses,
         NEW ids \in SUBSET Items,
         SetStatus(u, s) \/ SaveCreated(u, ids) \/ StampSource(u)
  PROVE  row' \in [Uploads -> Row]
<1>1. row \in [Uploads -> Row] BY DEF StoreTypeOK
<1>2. CASE SetStatus(u, s)
  <2>1. PICK t \in Statuses : row' = [row EXCEPT ![u].status = t]
    BY <1>2 DEF SetStatus, Statuses
  <2> QED BY <1>1, <2>1 DEF Row
<1>3. CASE SaveCreated(u, ids)
  <2>1. PICK t \in SUBSET Items : row' = [row EXCEPT ![u].created = t]
    BY <1>3 DEF SaveCreated
  <2> QED BY <1>1, <2>1 DEF Row
<1>4. CASE StampSource(u)
  <2>1. PICK t \in BOOLEAN : row' = [row EXCEPT ![u].gone = t]
    BY <1>4 DEF StampSource
  <2> QED BY <1>1, <2>1 DEF Row
<1> QED BY <1>2, <1>3, <1>4

JobPcs == {"idle", "removing", "loading", "creating", "recording", "undoing",
           "failing", "parts", "source", "stamp"}

(* A job that only moves on, fails or rests keeps the types.               *)
LEMMA JobMoves ==
  ASSUME BackendTypeOK, NEW b \in Backends, NEW pc \in JobPcs,
         NEW permanent \in BOOLEAN, To(b, pc) \/ Fails(b, permanent) \/ Rest(b)
  PROVE  BackendTypeOK'
<1>1. CASE To(b, pc) BY <1>1 DEF To, Job, BackendTypeOK, JobPcs
<1>2. CASE Fails(b, permanent)
  <2>1. [job[b] EXCEPT !.pc = "failing", !.permanent = permanent] \in Job
    BY DEF Job, BackendTypeOK
  <2> QED BY <1>2, <2>1 DEF Fails, BackendTypeOK
<1>3. CASE Rest(b)
  BY <1>3, AnyUploadExists DEF Rest, NoJob, Job, BackendTypeOK
<1> QED BY <1>1, <1>2, <1>3

(* So does the next of the originals maintenance has listed.               *)
LEMMA AfterSourceType ==
  ASSUME BackendTypeOK, NEW b \in Backends, AfterSource(b)
  PROVE  BackendTypeOK'
<1>1. CASE Rest(b) BY <1>1, JobMoves DEF JobPcs
<1>2. ASSUME NEW u \in job[b].list,
             job' = [job EXCEPT ![b].pc = "source", ![b].up = u,
                                ![b].list = job[b].list \ {u}]
      PROVE  BackendTypeOK'
  <2>1. u \in Uploads /\ job[b].list \ {u} \in SUBSET Uploads
    BY DEF BackendTypeOK, Job
  <2> QED BY <1>2, <2>1, JobListed DEF BackendTypeOK
<1> QED BY <1>1, <1>2 DEF AfterSource

(* A step of a backend, maintenance and crashes included, keeps the        *)
(* types.                                                                  *)
LEMMA BackendType ==
  ASSUME TypeOK, NEW b \in Backends,
         \/ JobStep(b) \/ \E i \in Items : CreateItem(b, i)
         \/ \E expired \in SUBSET Uploads : Maintain(b, expired)
         \/ JobCrash(b)
  PROVE  StoreTypeOK' /\ BackendTypeOK'
<1>0. StoreTypeOK /\ BackendTypeOK BY DEF TypeOK
<1>a. UNCHANGED store => StoreTypeOK' BY <1>0 DEF StoreTypeOK, store
<1>b. /\ job[b].up \in Uploads
      /\ job[b].ids \in SUBSET Items
      /\ job[b].todo \in SUBSET Lines
      /\ job[b].permanent \in BOOLEAN
      /\ {} \in SUBSET Items
  BY <1>0 DEF BackendTypeOK, Job
<1>c. \A u \in Uploads : /\ row[u].attempts + 1 \in Nat
                         /\ row[u].tries + 1 \in Nat
                         /\ row[u].gone \in BOOLEAN
                         /\ row[u].created \in SUBSET Items
  BY <1>0 DEF StoreTypeOK, Row
<1>d. JobPcs = {"idle", "removing", "loading", "creating", "recording",
                "undoing", "failing", "parts", "source", "stamp"}
  BY DEF JobPcs
<1>e. Statuses = {"none", "queued", "running", "analysed", "materializing",
                  "done", "failed"}
  BY DEF Statuses
<1>1. CASE JobClaims(b)
  <2>1. row' \in [Uploads -> Row]
    BY <1>0, <1>1, StoreAssumption, ClaimType DEF JobClaims
  <2>2. ASSUME NEW u \in Uploads,
               job' = [job EXCEPT ![b] =
                 [NoJob EXCEPT
                    !.pc = IF row[u].created = {} THEN "loading" ELSE "removing",
                    !.up = u,
                    !.attempt = Begun(u) + 1,
                    !.gone = row[u].gone,
                    !.ids = row[u].created]]
        PROVE  BackendTypeOK'
    <3>1. PICK n \in Nat : n = Begun(u) + 1
      BY <1>c DEF Begun
    <3>2. PICK pc \in {"loading", "removing"} :
            pc = IF row[u].created = {} THEN "loading" ELSE "removing"
      OBVIOUS
    <3>3. job' = [job EXCEPT ![b] =
                    [NoJob EXCEPT !.pc = pc, !.up = u, !.attempt = n,
                                  !.gone = row[u].gone, !.ids = row[u].created]]
      BY <2>2, <3>1, <3>2
    <3> QED BY <1>0, <1>c, <3>3, JobClaimed DEF BackendTypeOK
  <2>3. BackendTypeOK' BY <1>0, <1>1, <2>2 DEF JobClaims, BackendTypeOK
  <2> QED BY <1>0, <1>1, <2>1, <2>3 DEF JobClaims, StoreTypeOK
<1>2. ASSUME NEW i \in Items, RemoveItem(b, i)
      PROVE  StoreTypeOK' /\ BackendTypeOK'
  <2>1. bom' \subseteq bom BY <1>2 DEF RemoveItem, Without
  <2>2. job' = [job EXCEPT ![b].ids = job[b].ids \ {i}] BY <1>2 DEF RemoveItem
  <2> QED BY <1>0, <1>2, <2>1, <2>2 DEF RemoveItem, StoreTypeOK, BackendTypeOK, Job
<1>3. CASE ForgetItems(b)
  <2>1. row' \in [Uploads -> Row]
    BY <1>0, <1>3, <1>b, <1>e, UpdateType DEF ForgetItems, StoreTypeOK
  <2>2. BackendTypeOK' BY <1>0, <1>3, <1>d, JobMoves DEF ForgetItems
  <2> QED BY <1>0, <1>3, <2>1, <2>2 DEF ForgetItems, StoreTypeOK
<1>4. CASE Load(b)
  <2>1. CASE Fails(b, TRUE) \/ Fails(b, FALSE)
    BY <1>0, <1>4, <1>a, <1>d, <2>1, JobMoves DEF Load
  <2>2. CASE job' = [job EXCEPT ![b].pc = "creating", ![b].todo = Lines]
    <3>1. [job[b] EXCEPT !.pc = "creating", !.todo = Lines] \in Job
      BY <1>0 DEF Job, BackendTypeOK
    <3> QED BY <1>0, <1>4, <1>a, <2>2, <3>1 DEF Load, BackendTypeOK
  <2> QED BY <1>4, <2>1, <2>2 DEF Load
<1>5. ASSUME NEW i \in Items, CreateItem(b, i)
      PROVE  StoreTypeOK' /\ BackendTypeOK'
  <2>1. PICK k \in Lines : bom' = bom \cup {[id |-> i, up |-> job[b].up, line |-> k]}
    BY <1>5, <1>b DEF CreateItem
  <2>a. StoreTypeOK'
    <3>1. [id |-> i, up |-> job[b].up, line |-> k] \in BomItem BY <1>b DEF BomItem
    <3> QED BY <1>0, <1>5, <2>1, <3>1 DEF CreateItem, StoreTypeOK
  <2>2. CASE To(b, "undoing") BY <1>0, <1>d, <2>a, <2>2, JobMoves
  <2>3. ASSUME NEW l \in job[b].todo,
               job' = [job EXCEPT ![b].pc = "recording",
                                  ![b].ids = job[b].ids \cup {i},
                                  ![b].todo = job[b].todo \ {l}]
        PROVE  BackendTypeOK'
    BY <1>0, <1>b, <2>3 DEF BackendTypeOK, Job
  <2> QED BY <1>5, <2>a, <2>2, <2>3 DEF CreateItem
<1>6. CASE RecordItem(b)
  <2>1. row' \in [Uploads -> Row]
    BY <1>0, <1>6, <1>b, <1>e, UpdateType DEF RecordItem, StoreTypeOK
  <2>2. BackendTypeOK' BY <1>0, <1>6, <1>d, JobMoves DEF RecordItem
  <2> QED BY <1>0, <1>6, <2>1, <2>2 DEF RecordItem, StoreTypeOK
<1>7. CASE CreateFails(b) BY <1>0, <1>7, <1>a, <1>d, JobMoves DEF CreateFails
<1>8. CASE FinishDone(b)
  <2>1. row' \in [Uploads -> Row]
    BY <1>0, <1>8, <1>b, <1>e, UpdateType DEF FinishDone, StoreTypeOK
  <2>2. BackendTypeOK'
    <3>1. PICK pc \in JobPcs : pc = IF RustCore THEN "parts" ELSE "source" BY <1>d
    <3> QED BY <1>0, <1>8, <3>1, JobMoves DEF FinishDone
  <2> QED BY <1>0, <1>8, <2>1, <2>2 DEF FinishDone, StoreTypeOK
<1>9. CASE Fail(b)
  <2>1. row' \in [Uploads -> Row]
    <3>1. CASE row' = row BY <1>0, <3>1 DEF StoreTypeOK
    <3>2. ASSUME row' # row PROVE \E s \in Statuses : SetStatus(job[b].up, s)
      BY <1>9, <1>e, <3>2 DEF Fail
    <3> QED BY <1>0, <1>b, <3>1, <3>2, UpdateType
  <2>2. BackendTypeOK' BY <1>0, <1>9, <1>d, JobMoves DEF Fail
  <2> QED BY <1>0, <1>9, <2>1, <2>2 DEF Fail, StoreTypeOK
<1>10. CASE RemoveParts(b)
  <2>1. BackendTypeOK' BY <1>0, <1>10, <1>d, JobMoves DEF RemoveParts
  <2> QED BY <1>0, <1>10, <1>b, <2>1 DEF RemoveParts, StoreTypeOK
<1>11. CASE RemoveSource(b)
  <2>1. BackendTypeOK'
    BY <1>0, <1>11, <1>d, JobMoves, AfterSourceType DEF RemoveSource
  <2> QED BY <1>0, <1>11, <2>1 DEF RemoveSource, StoreTypeOK
<1>12. CASE RecordRemoval(b)
  <2>1. row' \in [Uploads -> Row]
    BY <1>0, <1>12, <1>b, <1>e, UpdateType DEF RecordRemoval, StoreTypeOK
  <2>2. BackendTypeOK' BY <1>0, <1>12, AfterSourceType DEF RecordRemoval
  <2> QED BY <1>0, <1>12, <2>1, <2>2 DEF RecordRemoval, StoreTypeOK
<1>13. ASSUME NEW expired \in SUBSET Uploads, Maintain(b, expired)
       PROVE  StoreTypeOK' /\ BackendTypeOK'
  <2>1. PICK u \in expired :
          job' = [job EXCEPT ![b] = [NoJob EXCEPT !.pc = "source", !.up = u,
                                                  !.list = expired \ {u}]]
    BY <1>13 DEF Maintain
  <2> QED BY <1>0, <1>13, <1>a, <2>1, JobListed DEF Maintain, BackendTypeOK
<1>14. CASE JobCrash(b) BY <1>0, <1>14, <1>a, <1>d, JobMoves DEF JobCrash
<1> QED BY <1>1, <1>2, <1>3, <1>4, <1>5, <1>6, <1>7, <1>8, <1>9, <1>10, <1>11,
           <1>12, <1>13, <1>14 DEF JobStep

(* A request's bookkeeping, and its steps.                                 *)
LEMMA EndsType ==
  ASSUME ApiTypeOK, NEW r \in Requests, Ends(r)
  PROVE  ApiTypeOK'
  BY AnyUploadExists DEF Ends, NoReq, Req, ApiTypeOK

(* A request that has read a row and judged it keeps the types.            *)
LEMMA JudgeType ==
  ASSUME TypeOK, NEW r \in Requests, NEW u \in Uploads, NEW raced \in BOOLEAN,
         Judge(r, u, raced)
  PROVE  ApiTypeOK'
<1>0. ApiTypeOK BY DEF TypeOK
<1>1. row[u].created \in SUBSET Items /\ row[u].gone \in BOOLEAN
  BY DEF TypeOK, StoreTypeOK, Row
<1>2. CASE Ends(r) BY <1>0, <1>2, EndsType
<1>3. CASE req' = [req EXCEPT ![r].pc = "checking", ![r].up = u,
                     ![r].ids = row[u].created, ![r].gone = row[u].gone,
                     ![r].fresh = FALSE, ![r].raced = raced]
  <2>1. [req[r] EXCEPT !.pc = "checking", !.up = u, !.ids = row[u].created,
           !.gone = row[u].gone, !.fresh = FALSE, !.raced = raced] \in Req
    BY <1>0, <1>1 DEF ApiTypeOK, Req
  <2> QED BY <1>0, <1>3, <2>1 DEF ApiTypeOK
<1>4. CASE req' = [req EXCEPT ![r].pc = AfterRepeatCheck(row[u].gone, raced),
                     ![r].up = u, ![r].raced = raced]
  <2>1. PICK pc \in {"putting", "requeueing"} :
          pc = AfterRepeatCheck(row[u].gone, raced)
    BY DEF AfterRepeatCheck
  <2>2. req' = [req EXCEPT ![r].pc = pc, ![r].up = u, ![r].raced = raced]
    BY <1>4, <2>1
  <2> QED BY <1>0, <2>2, ReqRecords DEF ApiTypeOK
<1> QED BY <1>2, <1>3, <1>4 DEF Judge

(* A step of an upload request keeps the types.                            *)
LEMMA RequestType ==
  ASSUME TypeOK, NEW r \in Requests,
         RequestStep(r) \/ \E u \in Uploads : Find(r, u)
  PROVE  StoreTypeOK' /\ ApiTypeOK'
<1>0. StoreTypeOK /\ ApiTypeOK BY DEF TypeOK
<1>a. UNCHANGED store => StoreTypeOK' BY <1>0 DEF StoreTypeOK, store
<1>b. req[r].up \in Uploads /\ req[r].raced \in BOOLEAN /\ req[r].gone \in BOOLEAN
  BY <1>0 DEF ApiTypeOK, Req
<1>1. ASSUME NEW u \in Uploads, Find(r, u)
      PROVE  StoreTypeOK' /\ ApiTypeOK'
  <2>1. CASE Judge(r, u, FALSE) BY <1>1, <1>a, <2>1, JudgeType DEF Find
  <2>2. CASE req' = [req EXCEPT ![r].pc = "putting", ![r].up = u,
                                ![r].fresh = TRUE]
    BY <1>0, <1>1, <1>a, <2>2, ReqRecords DEF Find, ApiTypeOK
  <2> QED BY <1>1, <2>1, <2>2 DEF Find
<1>2. CASE CheckItems(r)
  <2>1. CASE Ends(r) BY <1>0, <1>2, <1>a, <2>1, EndsType DEF CheckItems
  <2>2. CASE ~Ends(r)
    <3>1. PICK pc \in {"putting", "requeueing"} :
            pc = AfterRepeatCheck(req[r].gone, req[r].raced)
      BY DEF AfterRepeatCheck
    <3>2. req' = [req EXCEPT ![r].pc = pc]
      BY <1>2, <2>2, <3>1 DEF CheckItems
    <3> QED BY <1>0, <1>2, <1>a, <3>2 DEF CheckItems, ApiTypeOK, Req
  <2> QED BY <2>1, <2>2
<1>3. CASE Put(r)
  <2>1. StoreTypeOK'
    BY <1>0, <1>3, <1>b, StoreAssumption DEF Put, StoreTypeOK
  <2>2. PICK pc \in {"inserting", "requeueing"} : req' = [req EXCEPT ![r].pc = pc]
    BY <1>3 DEF Put
  <2> QED BY <1>0, <2>1, <2>2 DEF ApiTypeOK, Req
<1>4. CASE Insert(r)
  <2>1. row' \in [Uploads -> Row]
    <3>1. CASE row' = row BY <1>0, <3>1 DEF StoreTypeOK
    <3>2. CASE row' # row
      <4> DEFINE older == {v \in Uploads : row[v].status # "none"}
      <4>1. [NoRow EXCEPT !.status = "queued", !.after = older] \in Row
        BY DEF NoRow, Row, Statuses
      <4>2. row' = [row EXCEPT ![req[r].up] =
                      [NoRow EXCEPT !.status = "queued", !.after = older]]
        BY <1>4, <3>2 DEF Insert
      <4> QED BY <1>0, <4>1, <4>2 DEF StoreTypeOK
    <3> QED BY <3>1, <3>2
  <2>2. CASE Ends(r) BY <1>0, <1>4, <2>1, <2>2, EndsType DEF Insert, StoreTypeOK
  <2>3. CASE req' = [req EXCEPT ![r].pc = "racing"]
    BY <1>0, <1>4, <2>1, <2>3 DEF Insert, StoreTypeOK, ApiTypeOK, Req
  <2> QED BY <1>4, <2>2, <2>3 DEF Insert
<1>5. CASE FindRaced(r)
  BY <1>0, <1>5, <1>a, <1>b, EndsType, JudgeType DEF FindRaced
<1>6. CASE Requeue(r)
  <2>1. row' \in [Uploads -> Row]
    BY <1>0, <1>6, RowRecords DEF Requeue, StoreTypeOK, Statuses
  <2> QED BY <1>0, <1>6, <2>1, EndsType DEF Requeue, StoreTypeOK
<1>7. CASE RequestFails(r) BY <1>0, <1>7, <1>a, EndsType DEF RequestFails
<1> QED BY <1>1, <1>2, <1>3, <1>4, <1>5, <1>6, <1>7 DEF RequestStep

(* Every step keeps the types.                                             *)
LEMMA TypeStep == TypeOK /\ [Next]_vars => TypeOK'
<1> SUFFICES ASSUME TypeOK, [Next]_vars PROVE TypeOK'
  OBVIOUS
<1>1. CASE \E w \in Runners : CadRunnerStep(w)
  BY <1>1, RunnerType DEF CadRunnerStep, TypeOK, BackendTypeOK, ApiTypeOK
<1>2. CASE \E b \in Backends : BackendStep(b) \/ Maintenance(b)
  BY <1>2, BackendType
  DEF BackendStep, Maintenance, TypeOK, RunnerTypeOK, ApiTypeOK
<1>3. CASE \E r \in Requests : RequestArrives(r) \/ RequestRuns(r)
  BY <1>3, RequestType
  DEF RequestArrives, RequestRuns, TypeOK, RunnerTypeOK, BackendTypeOK
<1>4. CASE \E u \in Uploads : TimePasses(u) \/ RowPruned(u)
  <2>1. PICK u \in Uploads : TimePasses(u) \/ RowPruned(u) BY <1>4
  <2>2. row \in [Uploads -> Row] BY DEF TypeOK, StoreTypeOK
  <2>3. row' \in [Uploads -> Row]
    <3>1. CASE TimePasses(u)
      <4>1. [row[u] EXCEPT !.stale = TRUE] \in Row
        <5>1. row[u] \in Row BY <2>2
        <5>2. "none" \in Statuses /\ 0 \in Nat BY DEF Statuses
        <5> QED BY <5>1, <5>2, RowRecords
      <4> QED BY <2>2, <3>1, <4>1 DEF TimePasses, GoStale
    <3>2. CASE RowPruned(u)
      <4>1. NoRow \in Row BY DEF NoRow, Row, Statuses
      <4>2. \A v \in Uploads : [row[v] EXCEPT !.after = row[v].after \ {u}] \in Row
        BY <2>2 DEF Row
      <4> QED BY <3>2, <4>1, <4>2 DEF RowPruned, Prune
    <3> QED BY <2>1, <3>1, <3>2
  <2> QED BY <2>1, <2>3 DEF TimePasses, RowPruned, GoStale, Prune, TypeOK,
            StoreTypeOK, RunnerTypeOK, BackendTypeOK, ApiTypeOK
<1>5. CASE ItemDeleted
  BY <1>5 DEF ItemDeleted, UserDeletes, TypeOK, StoreTypeOK, RunnerTypeOK,
              BackendTypeOK, ApiTypeOK
<1>6. CASE ProcessDies
  <2>1. ASSUME NEW w \in Runners, RunnerCrash(w), UNCHANGED <<job, req>>
        PROVE  TypeOK'
    BY <2>1, AnyUploadExists
    DEF RunnerCrash, store, Idle, NoRun, Run, TypeOK, StoreTypeOK,
        RunnerTypeOK, BackendTypeOK, ApiTypeOK
  <2>2. ASSUME NEW b \in Backends, JobCrash(b), UNCHANGED <<run, req>>
        PROVE  TypeOK'
    BY <2>2, BackendType DEF TypeOK, RunnerTypeOK, ApiTypeOK
  <2> QED BY <1>6, <2>1, <2>2 DEF ProcessDies
<1>7. CASE UNCHANGED vars
  BY <1>7 DEF vars, TypeOK, StoreTypeOK, RunnerTypeOK, BackendTypeOK, ApiTypeOK
<1> QED BY <1>1, <1>2, <1>3, <1>4, <1>5, <1>6, <1>7 DEF Next

(* Every variable keeps its type: no interleaving of the parties, under    *)
(* any faults, brings a row or a process into a state the code has no name *)
(* for.                                                                    *)
THEOREM TypeCorrect == Spec => []TypeOK
  BY TypeInit, TypeStep, PTL DEF Spec

-----------------------------------------------------------------------------
(* What the steps do to rows, and to what a process has in hand.           *)

SameRow(u) == /\ row'[u].status = row[u].status
              /\ row'[u].stale = row[u].stale
              /\ row'[u].attempts = row[u].attempts
              /\ row'[u].tries = row[u].tries

(* The counts of a row are numbers.                                        *)
LEMMA RowCounts ==
  ASSUME TypeOK, NEW u \in Uploads
  PROVE  row[u].attempts \in Nat /\ row[u].tries \in Nat
  BY DEF TypeOK, StoreTypeOK, Row

(* The claims of the two halves: upload u is taken, exhausted uploads are  *)
(* failed, the others are left alone.                                      *)
LEMMA CadClaimRows ==
  ASSUME TypeOK, NEW u \in Uploads, ClaimNextCadUpload(u)
  PROVE  /\ \/ row[u].status = "queued"
            \/ /\ row[u].status = "running"
               /\ row[u].stale
               /\ row[u].attempts < MaxAttempts
         /\ row'[u].status = "running"
         /\ ~row'[u].stale
         /\ row'[u].attempts = row[u].attempts + 1
         /\ row'[u].tries = row[u].tries
<1>1. row \in [Uploads -> Row] BY DEF TypeOK, StoreTypeOK
<1>2. row[u].attempts \in Nat BY <1>1 DEF Row
<1>3. u \in RunWaiting BY DEF ClaimNextCadUpload, Oldest
<1>4. row' = [RunSwept EXCEPT ![u].status = "running",
                              ![u].attempts = row[u].attempts + 1,
                              ![u].stale = FALSE]
  BY DEF ClaimNextCadUpload
<1>5. ~RunExhausted(u) BY <1>3 DEF RunWaiting, RunExhausted
<1>6. RunSwept[u] = row[u] BY <1>5 DEF RunSwept
<1>7. /\ row'[u].status = "running" /\ ~row'[u].stale
      /\ row'[u].attempts = row[u].attempts + 1 /\ row'[u].tries = row[u].tries
  BY <1>1, <1>4, <1>6 DEF Row, RunSwept
<1>8. \/ row[u].status = "queued"
      \/ /\ row[u].status = "running" /\ row[u].stale
         /\ row[u].attempts < MaxAttempts
  BY <1>2, <1>3, StoreAssumption DEF RunWaiting, RunExhausted
<1> QED BY <1>7, <1>8

(* What the claim of the first half does to the other uploads.             *)
LEMMA CadClaimOthers ==
  ASSUME TypeOK, NEW u \in Uploads, ClaimNextCadUpload(u), NEW v \in Uploads, v # u
  PROVE  \/ SameRow(v)
         \/ /\ row[v].status = "running"
            /\ row[v].stale
            /\ row'[v].status = "failed"
            /\ row'[v].attempts = row[v].attempts
            /\ row'[v].tries = row[v].tries
<1>1. row \in [Uploads -> Row] BY DEF TypeOK, StoreTypeOK
<1>2. row'[v] = RunSwept[v] BY DEF ClaimNextCadUpload, RunSwept
<1>3. CASE RunExhausted(v) BY <1>1, <1>2, <1>3 DEF RunSwept, RunExhausted, Row
<1>4. CASE ~RunExhausted(v) BY <1>2, <1>4 DEF RunSwept, SameRow
<1> QED BY <1>3, <1>4

(* The same for the claim of the second half: the upload it takes,         *)
LEMMA AnalysedClaimRows ==
  ASSUME TypeOK, NEW u \in Uploads, ClaimNextAnalysedUpload(u)
  PROVE  /\ \/ row[u].status = "analysed"
            \/ /\ row[u].status = "materializing"
               /\ row[u].stale
               /\ row[u].tries < MaxAttempts
         /\ row'[u].status = "materializing"
         /\ ~row'[u].stale
         /\ row'[u].tries = row[u].tries + 1
         /\ row'[u].attempts = row[u].attempts
<1>1. row \in [Uploads -> Row] BY DEF TypeOK, StoreTypeOK
<1>2. row[u].tries \in Nat BY <1>1 DEF Row
<1>3. u \in TryWaiting BY DEF ClaimNextAnalysedUpload, Oldest
<1>4. row' = [TrySwept EXCEPT ![u].status = "materializing",
                              ![u].tries = row[u].tries + 1,
                              ![u].stale = FALSE]
  BY DEF ClaimNextAnalysedUpload
<1>5. ~TryExhausted(u) BY <1>3 DEF TryWaiting, TryExhausted
<1>6. TrySwept[u] = row[u] BY <1>5 DEF TrySwept
<1>7. /\ row'[u].status = "materializing" /\ ~row'[u].stale
      /\ row'[u].tries = row[u].tries + 1 /\ row'[u].attempts = row[u].attempts
  BY <1>1, <1>4, <1>6 DEF Row, TrySwept
<1>8. \/ row[u].status = "analysed"
      \/ /\ row[u].status = "materializing" /\ row[u].stale
         /\ row[u].tries < MaxAttempts
  BY <1>2, <1>3, StoreAssumption DEF TryWaiting, TryExhausted
<1> QED BY <1>7, <1>8

(* and the other uploads.                                                  *)
LEMMA AnalysedClaimOthers ==
  ASSUME TypeOK, NEW u \in Uploads, ClaimNextAnalysedUpload(u), NEW v \in Uploads, v # u
  PROVE  \/ SameRow(v)
         \/ /\ row[v].status = "materializing"
            /\ row[v].stale
            /\ row'[v].status = "failed"
            /\ row'[v].attempts = row[v].attempts
            /\ row'[v].tries = row[v].tries
<1>1. row \in [Uploads -> Row] BY DEF TypeOK, StoreTypeOK
<1>2. row'[v] = TrySwept[v] BY DEF ClaimNextAnalysedUpload, TrySwept
<1>3. CASE TryExhausted(v) BY <1>1, <1>2, <1>3 DEF TrySwept, TryExhausted, Row
<1>4. CASE ~TryExhausted(v) BY <1>2, <1>4 DEF TrySwept, SameRow
<1> QED BY <1>3, <1>4

(* The sweep of a claim that takes nothing.                                *)
LEMMA SweepRows ==
  ASSUME TypeOK, SweepAnalysedUploads \/ SweepCadUploads, NEW v \in Uploads
  PROVE  \/ SameRow(v)
         \/ /\ row[v].status \in {"running", "materializing"}
            /\ row[v].stale
            /\ row'[v].status = "failed"
            /\ row'[v].attempts = row[v].attempts
            /\ row'[v].tries = row[v].tries
<1>1. row \in [Uploads -> Row] BY DEF TypeOK, StoreTypeOK
<1>2. CASE row' = RunSwept
  <2>1. CASE RunExhausted(v) BY <1>1, <1>2, <2>1 DEF RunSwept, RunExhausted, Row
  <2>2. CASE ~RunExhausted(v) BY <1>2, <2>2 DEF RunSwept, SameRow
  <2> QED BY <2>1, <2>2
<1>3. CASE row' = TrySwept
  <2>1. CASE TryExhausted(v) BY <1>1, <1>3, <2>1 DEF TrySwept, TryExhausted, Row
  <2>2. CASE ~TryExhausted(v) BY <1>3, <2>2 DEF TrySwept, SameRow
  <2> QED BY <2>1, <2>2
<1> QED BY <1>2, <1>3 DEF SweepAnalysedUploads, SweepCadUploads

(* Whatever it does but claim, a runner goes on with its attempt or ends   *)
(* it.                                                                     *)
LEMMA RunnerMoves ==
  ASSUME TypeOK, NEW w \in Runners, RunnerStep(w), ~RunnerClaims(w)
  PROVE  /\ \A v \in Runners \ {w} : run'[v] = run[v]
         /\ \/ run'[w].pc = "idle"
            \/ /\ Analysing(w)
               /\ run'[w].up = run[w].up
               /\ run'[w].attempt = run[w].attempt
<1>1. run \in [Runners -> Run] BY DEF TypeOK, RunnerTypeOK
<1>2. CASE Download(w)
  BY <1>1, <1>2 DEF Download, Give, Run, Analysing
<1>3. CASE Analyse(w)
  BY <1>1, <1>3 DEF Analyse, Give, Run, Analysing
<1>4. CASE PartNotReturned(w)
  BY <1>1, <1>4 DEF PartNotReturned, Give, Run, Analysing
<1>5. CASE \E p \in Parts : StorePart(w, p)
  BY <1>1, <1>5 DEF StorePart, Cleanup, Run, Analysing
<1>6. CASE \E p \in Parts : CleanPart(w, p)
  BY <1>1, <1>6 DEF CleanPart, Run, Analysing
<1>7. CASE FinishAnalysed(w)
  BY <1>1, <1>7 DEF FinishAnalysed, Idle, NoRun, Cleanup, Run, Analysing
<1>8. CASE EndCleanup(w)
  BY <1>1, <1>8 DEF EndCleanup, Run, Analysing
<1>9. CASE FinishFailed(w)
  BY <1>1, <1>9 DEF FinishFailed, Idle, NoRun, Run, Analysing
<1> QED BY <1>2, <1>3, <1>4, <1>5, <1>6, <1>7, <1>8, <1>9 DEF RunnerStep

(* The steps that leave status and counts of every row as they are.        *)
LEMMA JobStepRows ==
  ASSUME TypeOK, NEW b \in Backends, NEW v \in Uploads,
         \/ \E i \in Items : RemoveItem(b, i) \/ CreateItem(b, i)
         \/ ForgetItems(b) \/ Load(b) \/ RecordItem(b) \/ CreateFails(b)
         \/ (FinishDone(b) \/ Fail(b)) /\ row' = row
         \/ RemoveParts(b) \/ RemoveSource(b) \/ RecordRemoval(b) \/ JobCrash(b)
  PROVE  SameRow(v)
<1>0. row \in [Uploads -> Row] BY DEF TypeOK, StoreTypeOK
<1>1. CASE row' = row BY <1>1 DEF SameRow
<1>2. CASE row' # row
  <2>1. \/ \E ids : SaveCreated(job[b].up, ids)
        \/ StampSource(job[b].up)
    BY <1>2
    DEF RemoveItem, CreateItem, ForgetItems, Load, RecordItem, CreateFails,
        RemoveParts, RemoveSource, RecordRemoval, JobCrash, store
  <2>2. ASSUME NEW ids, SaveCreated(job[b].up, ids) PROVE SameRow(v)
    <3>1. PICK x : row' = [row EXCEPT ![job[b].up].created = x]
      BY <2>2 DEF SaveCreated
    <3> QED BY <1>0, <3>1 DEF SameRow, Row
  <2>3. CASE StampSource(job[b].up)
    <3>1. PICK x : row' = [row EXCEPT ![job[b].up].gone = x]
      BY <2>3 DEF StampSource
    <3> QED BY <1>0, <3>1 DEF SameRow, Row
  <2> QED BY <2>1, <2>2, <2>3
<1> QED BY <1>1, <1>2

(* A backend that does not claim goes on with its attempt, or ends it, or  *)
(* is at none.                                                             *)
LEMMA BackendMoves ==
  ASSUME TypeOK, NEW b \in Backends,
         \/ JobStep(b) /\ ~JobClaims(b)
         \/ \E i \in Items : CreateItem(b, i)
         \/ \E expired \in SUBSET Uploads : Maintain(b, expired)
         \/ JobCrash(b)
  PROVE  /\ \A a \in Backends \ {b} : job'[a] = job[a]
         /\ Importing(b)' => /\ Importing(b)
                             /\ job'[b].up = job[b].up
                             /\ job'[b].attempt = job[b].attempt
<1> USE DEF To, Fails, Importing, AttemptSteps, Job
<1>1. job \in [Backends -> Job] BY DEF TypeOK, BackendTypeOK
<1>2. ASSUME AfterSource(b)
      PROVE  (\A a \in Backends \ {b} : job'[a] = job[a]) /\ ~Importing(b)'
  <2>1. CASE Rest(b) BY <1>1, <2>1 DEF Rest, NoJob
  <2>2. CASE ~Rest(b)
    <3>1. PICK u \in job[b].list :
            job' = [job EXCEPT ![b].pc = "source", ![b].up = u,
                               ![b].list = job[b].list \ {u}]
      BY <1>2, <2>2 DEF AfterSource
    <3> QED BY <1>1, <3>1
  <2> QED BY <2>1, <2>2
<1>3. CASE \E i \in Items : RemoveItem(b, i) BY <1>1, <1>3 DEF RemoveItem
<1>4. CASE \E i \in Items : CreateItem(b, i)
  <2>1. job[b].pc = "creating" BY <1>4 DEF CreateItem
  <2>2. CASE To(b, "undoing") BY <1>1, <2>1, <2>2
  <2>3. CASE ~To(b, "undoing")
    <3>1. PICK ids, todo : job' = [job EXCEPT ![b].pc = "recording",
                                              ![b].ids = ids, ![b].todo = todo]
      BY <1>4, <2>3 DEF CreateItem
    <3> QED BY <1>1, <2>1, <3>1
  <2> QED BY <2>2, <2>3
<1>5. CASE ForgetItems(b) BY <1>1, <1>5 DEF ForgetItems
<1>6. CASE Load(b) BY <1>1, <1>6 DEF Load
<1>7. CASE RecordItem(b) BY <1>1, <1>7 DEF RecordItem
<1>8. CASE CreateFails(b) BY <1>1, <1>8 DEF CreateFails
<1>9. CASE FinishDone(b) BY <1>1, <1>9 DEF FinishDone
<1>10. CASE Fail(b) BY <1>1, <1>10 DEF Fail, Rest, NoJob
<1>11. CASE RemoveParts(b) BY <1>1, <1>11 DEF RemoveParts
<1>12. CASE RemoveSource(b) BY <1>1, <1>2, <1>12 DEF RemoveSource
<1>13. CASE RecordRemoval(b) BY <1>1, <1>2, <1>13 DEF RecordRemoval
<1>14. ASSUME NEW expired \in SUBSET Uploads, Maintain(b, expired)
       PROVE  (\A a \in Backends \ {b} : job'[a] = job[a]) /\ ~Importing(b)'
  <2>1. PICK u : job' = [job EXCEPT ![b] = [NoJob EXCEPT !.pc = "source", !.up = u,
                                                         !.list = expired \ {u}]]
    BY <1>14 DEF Maintain
  <2> QED BY <1>1, <2>1 DEF NoJob
<1>15. CASE JobCrash(b) BY <1>1, <1>15 DEF JobCrash, Rest, NoJob
<1> QED BY <1>3, <1>4, <1>5, <1>6, <1>7, <1>8, <1>9, <1>10, <1>11, <1>12, <1>13,
           <1>14, <1>15 DEF JobStep

(* Requests, time, pruning and users change one row at most, and reset its *)
(* counts or leave them and its status as they are.                        *)
LEMMA OtherRows ==
  ASSUME TypeOK,
         \/ \E r \in Requests : RequestArrives(r) \/ RequestRuns(r)
         \/ \E u \in Uploads : TimePasses(u) \/ RowPruned(u)
         \/ ItemDeleted
         \/ \E w \in Runners : RunnerCrash(w) /\ UNCHANGED <<job, req>>
         \/ UNCHANGED vars,
         row' # row
  PROVE  \E u \in Uploads :
           /\ \A v \in Uploads : v # u => SameRow(v)
           /\ \/ /\ row'[u].attempts = 0
                 /\ row'[u].tries = 0
              \/ /\ row'[u].status = row[u].status
                 /\ row'[u].attempts = row[u].attempts
                 /\ row'[u].tries = row[u].tries
<1>0. row \in [Uploads -> Row] BY DEF TypeOK, StoreTypeOK
<1>1. ASSUME NEW u \in Uploads, TimePasses(u)
      PROVE  /\ \A v \in Uploads : v # u => SameRow(v)
             /\ row'[u].status = row[u].status
             /\ row'[u].attempts = row[u].attempts
             /\ row'[u].tries = row[u].tries
  BY <1>0, <1>1 DEF TimePasses, GoStale, SameRow, Row
<1>2. ASSUME NEW u \in Uploads, RowPruned(u)
      PROVE  /\ \A v \in Uploads : v # u => SameRow(v)
             /\ row'[u].attempts = 0
             /\ row'[u].tries = 0
  BY <1>0, <1>2 DEF RowPruned, Prune, NoRow, SameRow, Row
<1>3. ASSUME NEW r \in Requests, Insert(r) \/ Requeue(r)
      PROVE  \E u \in Uploads :
               /\ \A v \in Uploads : v # u => SameRow(v)
               /\ row'[u].attempts = 0
               /\ row'[u].tries = 0
  <2>1. PICK u \in Uploads : u = req[r].up
    BY DEF TypeOK, ApiTypeOK, Req
  <2>2. CASE Insert(r)
    <3>1. PICK older : row' = [row EXCEPT ![u] =
            [NoRow EXCEPT !.status = "queued", !.after = older]]
      BY <1>3, <2>1, <2>2 DEF Insert
    <3> QED BY <1>0, <3>1 DEF NoRow, SameRow
  <2>3. CASE Requeue(r)
    <3>1. row' = [row EXCEPT ![u].status = "queued", ![u].attempts = 0,
                             ![u].tries = 0, ![u].gone = FALSE]
      BY <1>3, <2>1, <2>3 DEF Requeue
    <3> QED BY <1>0, <3>1 DEF SameRow, Row
  <2> QED BY <1>3, <2>2, <2>3
<1> QED BY <1>1, <1>2, <1>3
    DEF RequestArrives, RequestRuns, RequestStep, Find, CheckItems, Put,
        FindRaced, RequestFails, ItemDeleted, UserDeletes, RunnerCrash, vars,
        store

(* A Rust runner asks for a retry only while an attempt is left.           *)
LEMMA RunnerRetries ==
  ASSUME TypeOK, RetriesBelow, NEW w \in Runners, RunnerStep(w)
  PROVE  RetriesBelow'
<1>0. run \in [Runners -> Run] BY DEF TypeOK, RunnerTypeOK
<1>1. /\ \A v \in Runners \ {w} : run'[v] = run[v]
      /\ \/ run'[w] = run[w]
         \/ run'[w].attempt = run[w].attempt /\ run'[w].retry = run[w].retry
         \/ run'[w].attempt = run[w].attempt /\ run[w].attempt < MaxAttempts
         \/ ~run'[w].retry
  <2> USE <1>0 DEF Run, NoRun, Give, Idle
  <2>1. CASE RunnerClaims(w) BY <2>1 DEF RunnerClaims
  <2>2. CASE Download(w) BY <2>2 DEF Download
  <2>3. CASE Analyse(w) BY <2>3 DEF Analyse
  <2>4. CASE PartNotReturned(w) BY <2>4 DEF PartNotReturned
  <2>5. CASE \E p \in Parts : StorePart(w, p) BY <2>5 DEF StorePart, Cleanup
  <2>6. CASE \E p \in Parts : CleanPart(w, p) BY <2>6 DEF CleanPart
  <2>7. CASE FinishAnalysed(w) BY <2>7 DEF FinishAnalysed, Cleanup
  <2>8. CASE EndCleanup(w) BY <2>8 DEF EndCleanup
  <2>9. CASE FinishFailed(w) BY <2>9 DEF FinishFailed
  <2> QED BY <2>1, <2>2, <2>3, <2>4, <2>5, <2>6, <2>7, <2>8, <2>9 DEF RunnerStep
<1> QED BY <1>0, <1>1 DEF RetriesBelow

-----------------------------------------------------------------------------
(* When attempts overlap.  Those that may still ask for another are as     *)
(* many as there are processes at most, and none is added to them once the *)
(* limit is reached.                                                       *)

(* An upload waits in a queue or does not.                                 *)
LEMMA WaitsCounts ==
  ASSUME NEW u, NEW s
  PROVE  /\ Waits(u, s) \in {0, 1} /\ Waits(u, s)' \in {0, 1}
         /\ Waits(u, s) = 1 <=> row[u].status = s
         /\ Waits(u, s)' = 1 <=> row'[u].status = s
  BY DEF Waits

(* A part of a finite set is no larger, and smaller when something is      *)
(* missing.                                                                *)
LEMMA PartCounts ==
  ASSUME NEW S, IsFiniteSet(S), NEW T \in SUBSET S
  PROVE  /\ IsFiniteSet(T)
         /\ Cardinality(T) \in Nat /\ Cardinality(S) \in Nat
         /\ Cardinality(T) <= Cardinality(S)
         /\ S \ T # {} => Cardinality(T) < Cardinality(S)
<1>1. IsFiniteSet(T) /\ Cardinality(T) <= Cardinality(S) BY FS_Subset
<1>2. Cardinality(T) \in Nat /\ Cardinality(S) \in Nat BY <1>1, FS_CardinalityType
<1>3. ASSUME NEW x \in S \ T PROVE Cardinality(T) < Cardinality(S)
  <2>1. IsFiniteSet(S \ {x}) /\ Cardinality(S \ {x}) = Cardinality(S) - 1
    BY FS_RemoveElement, FS_Subset
  <2>2. Cardinality(T) <= Cardinality(S \ {x}) BY <2>1, FS_Subset
  <2> QED BY <1>2, <2>1, <2>2
<1> QED BY <1>1, <1>2, <1>3

(* No attempt that may ask for another has come to upload u.               *)
NoMoreYoung(u) == /\ YoungRuns(u)' \subseteq YoungRuns(u)
                  /\ YoungImports(u)' \subseteq YoungImports(u)

(* Someone who might have asked for another analysis no longer does.       *)
OneYoungLess(u) == \/ YoungRuns(u) \ YoungRuns(u)' # {}
                   \/ ~RustCore /\ YoungImports(u) \ YoungImports(u)' # {}

(* The attempts that may ask for another are counted.                      *)
LEMMA YoungCounts ==
  ASSUME NEW u
  PROVE  /\ Analysers \in Nat /\ Cardinality(Backends) \in Nat
         /\ YoungAnalyses(u) \in Nat /\ Cardinality(YoungImports(u)) \in Nat
         /\ IsFiniteSet(YoungRuns(u)) /\ IsFiniteSet(YoungImports(u))
<1>1. YoungRuns(u) \in SUBSET Runners /\ YoungImports(u) \in SUBSET Backends
  BY DEF YoungRuns, YoungImports
<1> QED BY <1>1, PartCounts, RunnerAssumption, BackendAssumption
    DEF Analysers, YoungAnalyses

(* They are fewer than the processes while one of these is not among them. *)
LEMMA YoungBelow ==
  ASSUME NEW u
  PROVE  /\ Runners \ YoungRuns(u) # {} => YoungAnalyses(u) < Analysers
         /\ Backends \ YoungImports(u) # {} =>
              /\ Cardinality(YoungImports(u)) < Cardinality(Backends)
              /\ ~RustCore => YoungAnalyses(u) < Analysers
<1>1. YoungRuns(u) \in SUBSET Runners /\ YoungImports(u) \in SUBSET Backends
  BY DEF YoungRuns, YoungImports
<1>2. /\ Cardinality(YoungRuns(u)) \in Nat /\ Cardinality(Runners) \in Nat
      /\ Cardinality(YoungRuns(u)) <= Cardinality(Runners)
      /\ Runners \ YoungRuns(u) # {} => Cardinality(YoungRuns(u)) < Cardinality(Runners)
  BY <1>1, PartCounts, RunnerAssumption
<1>3. /\ Cardinality(YoungImports(u)) \in Nat /\ Cardinality(Backends) \in Nat
      /\ Cardinality(YoungImports(u)) <= Cardinality(Backends)
      /\ Backends \ YoungImports(u) # {} =>
           Cardinality(YoungImports(u)) < Cardinality(Backends)
  BY <1>1, PartCounts, BackendAssumption
<1> QED BY <1>2, <1>3 DEF Analysers, YoungAnalyses

(* Their number does not grow while none comes, and falls when one goes.   *)
LEMMA YoungFewer ==
  ASSUME NEW u, NoMoreYoung(u)
  PROVE  /\ YoungAnalyses(u)' \in Nat /\ Cardinality(YoungImports(u)') \in Nat
         /\ YoungAnalyses(u)' <= YoungAnalyses(u)
         /\ Cardinality(YoungImports(u)') <= Cardinality(YoungImports(u))
         /\ OneYoungLess(u) => YoungAnalyses(u)' < YoungAnalyses(u)
         /\ YoungImports(u) \ YoungImports(u)' # {} =>
              Cardinality(YoungImports(u)') < Cardinality(YoungImports(u))
<1>1. IsFiniteSet(YoungRuns(u)) /\ IsFiniteSet(YoungImports(u)) BY YoungCounts
<1>2. /\ Cardinality(YoungRuns(u)') \in Nat /\ Cardinality(YoungRuns(u)) \in Nat
      /\ Cardinality(YoungRuns(u)') <= Cardinality(YoungRuns(u))
      /\ YoungRuns(u) \ YoungRuns(u)' # {} =>
           Cardinality(YoungRuns(u)') < Cardinality(YoungRuns(u))
  BY <1>1, PartCounts DEF NoMoreYoung
<1>3. /\ Cardinality(YoungImports(u)') \in Nat /\ Cardinality(YoungImports(u)) \in Nat
      /\ Cardinality(YoungImports(u)') <= Cardinality(YoungImports(u))
      /\ YoungImports(u) \ YoungImports(u)' # {} =>
           Cardinality(YoungImports(u)') < Cardinality(YoungImports(u))
  BY <1>1, PartCounts DEF NoMoreYoung
<1> HIDE DEF YoungRuns, YoungImports
<1> QED BY <1>2, <1>3 DEF YoungAnalyses, OneYoungLess

(* An upload that is not claimed, with no more attempts that may ask for   *)
(* another: it is as before, or starts again, or leaves the queue it is    *)
(* in, or an attempt puts it back there and is gone.                       *)
LEMMA OverrunStays ==
  ASSUME TypeOK, TypeOK', NEW u \in Uploads, OverrunAt(u), NoMoreYoung(u),
         \/ row'[u].attempts = 0 /\ row'[u].tries = 0
         \/ /\ row'[u].attempts = row[u].attempts
            /\ row'[u].tries = row[u].tries
            /\ row'[u].status = "queued" => row[u].status = "queued" \/ OneYoungLess(u)
            /\ row'[u].status = "analysed" =>
                 \/ row[u].status = "analysed" \/ row[u].tries = 0
                 \/ YoungImports(u) \ YoungImports(u)' # {}
            /\ row'[u].status \in {"queued", "running"} =>
                 ~RustCore \/ row[u].status \in {"queued", "running"}
  PROVE  OverrunAt(u)'
<1>1. /\ row[u].attempts \in Nat /\ row[u].tries \in Nat
      /\ row'[u].attempts \in Nat /\ row'[u].tries \in Nat
  BY DEF TypeOK, StoreTypeOK, Row
<1>2. /\ YoungAnalyses(u) \in Nat /\ Cardinality(YoungImports(u)) \in Nat
      /\ Analysers \in Nat /\ Cardinality(Backends) \in Nat
  BY YoungCounts
<1>3. /\ YoungAnalyses(u)' \in Nat /\ Cardinality(YoungImports(u)') \in Nat
      /\ YoungAnalyses(u)' <= YoungAnalyses(u)
      /\ Cardinality(YoungImports(u)') <= Cardinality(YoungImports(u))
      /\ OneYoungLess(u) => YoungAnalyses(u)' < YoungAnalyses(u)
      /\ YoungImports(u) \ YoungImports(u)' # {} =>
           Cardinality(YoungImports(u)') < Cardinality(YoungImports(u))
  BY YoungFewer
<1>4. Within(row[u].attempts, YoungAnalyses(u) + Waits(u, "queued"), Analysers)'
  <2>1. Within(row[u].attempts, YoungAnalyses(u) + Waits(u, "queued"), Analysers)
    BY DEF OverrunAt
  <2>2. \/ row'[u].attempts = 0
        \/ /\ row'[u].attempts = row[u].attempts
           /\ YoungAnalyses(u)' + Waits(u, "queued")'
                <= YoungAnalyses(u) + Waits(u, "queued")
    BY <1>2, <1>3, WaitsCounts
  <2>3. /\ YoungAnalyses(u) + Waits(u, "queued") \in Nat
        /\ YoungAnalyses(u)' + Waits(u, "queued")' \in Nat
    BY <1>2, <1>3, WaitsCounts
  <2>4. Within(row'[u].attempts, YoungAnalyses(u)' + Waits(u, "queued")', Analysers)
    BY <1>1, <1>2, <2>1, <2>2, <2>3, StoreAssumption DEF Within
  <2> QED BY <2>4 DEF Within, Analysers
<1>5. Within(row[u].tries, Cardinality(YoungImports(u)) + Waits(u, "analysed"),
             Cardinality(Backends))'
  <2>1. Within(row[u].tries, Cardinality(YoungImports(u)) + Waits(u, "analysed"),
               Cardinality(Backends))
    BY DEF OverrunAt
  <2>2. \/ row'[u].tries = 0
        \/ /\ row'[u].tries = row[u].tries
           /\ Cardinality(YoungImports(u)') + Waits(u, "analysed")'
                <= Cardinality(YoungImports(u)) + Waits(u, "analysed")
    BY <1>2, <1>3, WaitsCounts
  <2>3. /\ Cardinality(YoungImports(u)) + Waits(u, "analysed") \in Nat
        /\ Cardinality(YoungImports(u)') + Waits(u, "analysed")' \in Nat
    BY <1>2, <1>3, WaitsCounts
  <2>4. Within(row'[u].tries, Cardinality(YoungImports(u)') + Waits(u, "analysed")',
               Cardinality(Backends))
    BY <1>1, <1>2, <2>1, <2>2, <2>3, StoreAssumption DEF Within
  <2> QED BY <2>4 DEF Within
<1>6. ~RustCore \/ row'[u].status \in {"queued", "running"} => row'[u].tries = 0
  BY DEF OverrunAt
<1> QED BY <1>4, <1>5, <1>6 DEF OverrunAt

(* An upload taken by the claim of the first half: its claimant was not    *)
(* among those who may ask for another attempt, and is only if the limit   *)
(* is not reached.                                                         *)
LEMMA OverrunByCadClaim ==
  ASSUME TypeOK, TypeOK', NEW u \in Uploads, OverrunAt(u), ClaimNextCadUpload(u),
         row[u].attempts + 1 >= MaxAttempts => NoMoreYoung(u),
         YoungAnalyses(u) < Analysers
  PROVE  OverrunAt(u)'
<1>1. /\ row[u].attempts \in Nat /\ row[u].tries \in Nat
      /\ MaxAttempts \in Nat /\ MaxAttempts > 0
  BY StoreAssumption DEF TypeOK, StoreTypeOK, Row
<1>2. /\ \/ row[u].status = "queued"
         \/ row[u].status = "running" /\ row[u].attempts < MaxAttempts
      /\ row'[u].status = "running"
      /\ row'[u].attempts = row[u].attempts + 1
      /\ row'[u].tries = row[u].tries
  BY CadClaimRows
<1>3. row'[u].tries = 0 BY <1>2 DEF OverrunAt
<1>4. YoungAnalyses(u) \in Nat /\ Analysers \in Nat BY YoungCounts
<1>5. row[u].attempts + 1 >= MaxAttempts =>
        YoungAnalyses(u)' \in Nat /\ YoungAnalyses(u)' <= YoungAnalyses(u)
  BY YoungFewer
<1>6. Within(row[u].attempts, YoungAnalyses(u) + Waits(u, "queued"), Analysers)'
  <2>1. Waits(u, "queued")' = 0 BY <1>2, WaitsCounts
  <2>2. CASE row[u].attempts + 1 < MaxAttempts BY <1>1, <1>2, <2>2 DEF Within
  <2>3. CASE row[u].attempts + 1 >= MaxAttempts
    <3>1. Within(row[u].attempts, YoungAnalyses(u) + Waits(u, "queued"), Analysers)
      BY DEF OverrunAt
    <3>2. row[u].attempts >= MaxAttempts => Waits(u, "queued") = 1
      BY <1>1, <1>2, WaitsCounts
    <3>3. YoungAnalyses(u) + Waits(u, "queued") \in Nat BY <1>4, WaitsCounts
    <3>4. Within(row'[u].attempts, YoungAnalyses(u)', Analysers)
      BY <1>1, <1>2, <1>4, <1>5, <2>3, <3>1, <3>2, <3>3, StoreAssumption DEF Within
    <3> QED BY <1>5, <2>1, <2>3, <3>4 DEF Within, Analysers
  <2> QED BY <1>1, <2>2, <2>3
<1>7. Within(row[u].tries, Cardinality(YoungImports(u)) + Waits(u, "analysed"),
             Cardinality(Backends))'
  BY <1>1, <1>3 DEF Within
<1> QED BY <1>3, <1>6, <1>7 DEF OverrunAt

(* The same for the claim of the second half.                              *)
LEMMA OverrunByAnalysedClaim ==
  ASSUME TypeOK, TypeOK', RustCore, NEW u \in Uploads, OverrunAt(u),
         ClaimNextAnalysedUpload(u), YoungRuns(u)' = YoungRuns(u),
         row[u].tries + 1 >= MaxAttempts => NoMoreYoung(u),
         Cardinality(YoungImports(u)) < Cardinality(Backends)
  PROVE  OverrunAt(u)'
<1>1. /\ row[u].attempts \in Nat /\ row[u].tries \in Nat
      /\ MaxAttempts \in Nat /\ MaxAttempts > 0
  BY StoreAssumption DEF TypeOK, StoreTypeOK, Row
<1>2. /\ \/ row[u].status = "analysed"
         \/ row[u].status = "materializing" /\ row[u].tries < MaxAttempts
      /\ row'[u].status = "materializing"
      /\ row'[u].tries = row[u].tries + 1
      /\ row'[u].attempts = row[u].attempts
  BY AnalysedClaimRows
<1>3. /\ YoungAnalyses(u) \in Nat /\ Analysers \in Nat
      /\ Cardinality(YoungImports(u)) \in Nat /\ Cardinality(Backends) \in Nat
  BY YoungCounts
<1>4. Within(row[u].attempts, YoungAnalyses(u) + Waits(u, "queued"), Analysers)'
  <2>1. YoungAnalyses(u)' = YoungAnalyses(u) BY DEF YoungAnalyses
  <2>2. Within(row[u].attempts, YoungAnalyses(u) + Waits(u, "queued"), Analysers)
    BY DEF OverrunAt
  <2>3. /\ YoungAnalyses(u) + Waits(u, "queued") \in Nat
        /\ YoungAnalyses(u)' + Waits(u, "queued")' \in Nat
        /\ YoungAnalyses(u)' + Waits(u, "queued")'
             <= YoungAnalyses(u) + Waits(u, "queued")
    BY <1>2, <1>3, <2>1, WaitsCounts
  <2>4. Within(row'[u].attempts, YoungAnalyses(u)' + Waits(u, "queued")', Analysers)
    BY <1>1, <1>2, <1>3, <2>2, <2>3, StoreAssumption DEF Within
  <2> QED BY <2>4 DEF Within, Analysers
<1>5. row[u].tries + 1 >= MaxAttempts =>
        /\ Cardinality(YoungImports(u)') \in Nat
        /\ Cardinality(YoungImports(u)') <= Cardinality(YoungImports(u))
  BY YoungFewer
<1>6. Within(row[u].tries, Cardinality(YoungImports(u)) + Waits(u, "analysed"),
             Cardinality(Backends))'
  <2>1. Waits(u, "analysed")' = 0 BY <1>2, WaitsCounts
  <2>2. CASE row[u].tries + 1 < MaxAttempts BY <1>1, <1>2, <2>2 DEF Within
  <2>3. CASE row[u].tries + 1 >= MaxAttempts
    <3>1. Within(row[u].tries, Cardinality(YoungImports(u)) + Waits(u, "analysed"),
                 Cardinality(Backends))
      BY DEF OverrunAt
    <3>2. row[u].tries >= MaxAttempts => Waits(u, "analysed") = 1
      BY <1>1, <1>2, WaitsCounts
    <3>3. Cardinality(YoungImports(u)) + Waits(u, "analysed") \in Nat
      BY <1>3, WaitsCounts
    <3>4. Within(row'[u].tries, Cardinality(YoungImports(u)'), Cardinality(Backends))
      BY <1>1, <1>2, <1>3, <1>5, <2>3, <3>1, <3>2, <3>3, StoreAssumption DEF Within
    <3> QED BY <1>5, <2>1, <2>3, <3>4 DEF Within
  <2> QED BY <1>1, <2>2, <2>3
<1>7. ~RustCore \/ row'[u].status \in {"queued", "running"} => row'[u].tries = 0
  BY <1>2
<1> QED BY <1>4, <1>6, <1>7 DEF OverrunAt

Overruns == \A u \in Uploads : OverrunAt(u)

(* Rows whose status and counts stay, or that a sweep fails.               *)
LEMMA OverrunUnclaimed ==
  ASSUME TypeOK, TypeOK', NEW u \in Uploads, OverrunAt(u), NoMoreYoung(u),
         \/ SameRow(u)
         \/ /\ row'[u].status \in {"failed", "done"}
            /\ row'[u].attempts = row[u].attempts
            /\ row'[u].tries = row[u].tries
  PROVE  OverrunAt(u)'
  BY OverrunStays DEF SameRow

(* A claim by a Rust runner.                                               *)
LEMMA RunnerClaimOverrun ==
  ASSUME TypeOK, TypeOK', Overruns, NEW w \in Runners, RunnerClaims(w),
         UNCHANGED <<job, req>>
  PROVE  Overruns'
<1>1. run \in [Runners -> Run] BY DEF TypeOK, RunnerTypeOK
<1>2. ASSUME NEW u \in Uploads, ClaimNextCadUpload(u),
             run' = [run EXCEPT ![w] = [NoRun EXCEPT !.pc = "claimed", !.up = u,
                                          !.attempt = row[u].attempts + 1,
                                          !.gone = row[u].gone]],
             NEW v \in Uploads
      PROVE  OverrunAt(v)'
  <2>1. /\ run[w].pc = "idle" /\ run'[w].pc = "claimed" /\ run'[w].up = u
        /\ run'[w].attempt = row[u].attempts + 1
        /\ \A x \in Runners \ {w} : run'[x] = run[x]
    BY <1>1, <1>2 DEF RunnerClaims, NoRun, Run
  <2>2. CASE v = u
    <3>1. w \in Runners \ YoungRuns(u) BY <2>1 DEF YoungRuns, Analysing
    <3>2. YoungAnalyses(u) < Analysers BY <3>1, YoungBelow
    <3>3. row[u].attempts + 1 >= MaxAttempts => NoMoreYoung(u)
      <4>1. row[u].attempts \in Nat /\ MaxAttempts \in Nat BY RowCounts, StoreAssumption
      <4> QED BY <2>1, <4>1 DEF NoMoreYoung, YoungRuns, YoungImports, Analysing, Importing
    <3> QED BY <1>2, <2>2, <3>2, <3>3, OverrunByCadClaim DEF Overruns
  <2>3. CASE v # u
    <3>1. NoMoreYoung(v)
      BY <2>1, <2>3 DEF NoMoreYoung, YoungRuns, YoungImports, Analysing, Importing
    <3> QED BY <1>2, <2>3, <3>1, CadClaimOthers, OverrunUnclaimed DEF Overruns
  <2> QED BY <2>2, <2>3
<1>3. ASSUME SweepCadUploads, run' = run, NEW v \in Uploads
      PROVE  OverrunAt(v)'
  <2>1. NoMoreYoung(v)
    BY <1>3 DEF NoMoreYoung, YoungRuns, YoungImports, Analysing, Importing
  <2> QED BY <1>3, <2>1, SweepRows, OverrunUnclaimed DEF Overruns
<1> QED BY <1>2, <1>3 DEF RunnerClaims, Overruns

(* Every step of a Rust runner: a retry that is granted uses up the        *)
(* attempt that asks for it.                                               *)
LEMMA RunnerOverrun ==
  ASSUME TypeOK, TypeOK', RetriesBelow, Overruns, NEW w \in Runners, CadRunnerStep(w)
  PROVE  Overruns'
<1>1. run \in [Runners -> Run] /\ row \in [Uploads -> Row] /\ RunnerStep(w)
  BY DEF TypeOK, RunnerTypeOK, StoreTypeOK, CadRunnerStep
<1>2. CASE RunnerClaims(w) BY <1>2, RunnerClaimOverrun DEF CadRunnerStep
<1>3. CASE ~RunnerClaims(w)
  <2>1. \A v \in Uploads : NoMoreYoung(v)
    <3>1. /\ \A v \in Runners \ {w} : run'[v] = run[v]
          /\ \/ run'[w].pc = "idle"
             \/ /\ Analysing(w)
                /\ run'[w].up = run[w].up
                /\ run'[w].attempt = run[w].attempt
      BY <1>1, <1>3, RunnerMoves
    <3> QED BY <3>1
        DEF CadRunnerStep, NoMoreYoung, YoungRuns, YoungImports, Analysing, Importing
  <2>2. CASE row' = row BY <2>1, <2>2, OverrunUnclaimed DEF Overruns, SameRow
  <2>3. CASE row' # row
    <3>1. PICK u \in Uploads : u = run[w].up BY <1>1 DEF Run
    <3>2. /\ Analysing(w)
          /\ \/ MarkAnalysed(u)
             \/ MarkFailed(u, run[w].retry) /\ Idle(w)
      BY <1>1, <1>3, <2>3, <3>1
      DEF RunnerStep, Download, Analyse, PartNotReturned, StorePart, CleanPart,
          FinishAnalysed, EndCleanup, FinishFailed, store, Analysing
    <3>3. /\ row[u].status = "running"
          /\ \A v \in Uploads : v # u => SameRow(v)
          /\ row'[u].attempts = row[u].attempts
          /\ row'[u].tries = row[u].tries
          /\ \/ row'[u].status \in {"analysed", "failed"}
             \/ row'[u].status = "queued" /\ run[w].retry /\ Idle(w)
      BY <1>1, <3>2 DEF MarkAnalysed, MarkFailed, SameRow, Row
    <3>4. row[u].tries = 0 BY <3>3 DEF Overruns, OverrunAt
    <3>5. row'[u].status = "queued" => OneYoungLess(u)
      <4>1. CASE row'[u].status = "queued"
        <5>1. run[w].retry /\ run'[w].pc = "idle" BY <1>1, <3>3, <4>1 DEF Idle, NoRun
        <5>2. w \in YoungRuns(u) BY <3>1, <3>2, <5>1 DEF YoungRuns, RetriesBelow
        <5>3. w \notin YoungRuns(u)' BY <5>1 DEF YoungRuns, Analysing
        <5> QED BY <5>2, <5>3 DEF OneYoungLess
      <4> QED BY <4>1
    <3>6. OverrunAt(u)' BY <2>1, <3>3, <3>4, <3>5, OverrunStays DEF Overruns
    <3>7. \A v \in Uploads : v # u => OverrunAt(v)'
      BY <2>1, <3>3, OverrunUnclaimed DEF Overruns
    <3> QED BY <3>6, <3>7 DEF Overruns
  <2> QED BY <2>2, <2>3
<1> QED BY <1>2, <1>3

(* A claim by a backend, of either half.                                   *)
LEMMA JobClaimOverrun ==
  ASSUME TypeOK, TypeOK', Overruns, NEW b \in Backends, JobClaims(b),
         UNCHANGED <<run, req>>
  PROVE  Overruns'
<1>1. job \in [Backends -> Job] BY DEF TypeOK, BackendTypeOK
<1>2. ASSUME NEW u \in Uploads,
             IF RustCore THEN ClaimNextAnalysedUpload(u) ELSE ClaimNextCadUpload(u),
             job' = [job EXCEPT ![b] =
               [NoJob EXCEPT
                  !.pc = IF row[u].created = {} THEN "loading" ELSE "removing",
                  !.up = u,
                  !.attempt = Begun(u) + 1,
                  !.gone = row[u].gone,
                  !.ids = row[u].created]],
             NEW v \in Uploads
      PROVE  OverrunAt(v)'
  <2>1. /\ job[b].pc = "idle" /\ job'[b].up = u
        /\ job'[b].attempt = Begun(u) + 1
        /\ \A a \in Backends \ {b} : job'[a] = job[a]
    BY <1>1, <1>2 DEF JobClaims, NoJob, Job
  <2>2. \A x \in Uploads : YoungRuns(x)' = YoungRuns(x) BY DEF YoungRuns, Analysing
  <2>3. CASE v = u
    <3>1. b \in Backends \ YoungImports(u)
      BY <2>1 DEF YoungImports, Importing, AttemptSteps
    <3>2. Begun(u) + 1 >= MaxAttempts => NoMoreYoung(u)
      <4>1. Begun(u) \in Nat /\ MaxAttempts \in Nat
        BY RowCounts, StoreAssumption DEF Begun
      <4> QED BY <2>1, <2>2, <4>1 DEF NoMoreYoung, YoungImports, Importing
    <3>3. CASE RustCore
      <4>1. Cardinality(YoungImports(u)) < Cardinality(Backends) BY <3>1, YoungBelow
      <4>2. row[u].tries + 1 >= MaxAttempts => NoMoreYoung(u) BY <3>2, <3>3 DEF Begun
      <4> QED BY <1>2, <2>2, <2>3, <3>3, <4>1, <4>2, OverrunByAnalysedClaim DEF Overruns
    <3>4. CASE ~RustCore
      <4>1. YoungAnalyses(u) < Analysers BY <3>1, <3>4, YoungBelow
      <4>2. row[u].attempts + 1 >= MaxAttempts => NoMoreYoung(u) BY <3>2, <3>4 DEF Begun
      <4> QED BY <1>2, <2>3, <3>4, <4>1, <4>2, OverrunByCadClaim DEF Overruns
    <3> QED BY <3>3, <3>4
  <2>4. CASE v # u
    <3>1. NoMoreYoung(v)
      BY <2>1, <2>2, <2>4 DEF NoMoreYoung, YoungImports, Importing
    <3> QED BY <1>2, <2>4, <3>1, CadClaimOthers, AnalysedClaimOthers, OverrunUnclaimed
        DEF Overruns
  <2> QED BY <2>3, <2>4
<1>3. ASSUME SweepCadUploads \/ SweepAnalysedUploads, job' = job, NEW v \in Uploads
      PROVE  OverrunAt(v)'
  <2>1. NoMoreYoung(v)
    BY <1>3 DEF NoMoreYoung, YoungRuns, YoungImports, Analysing, Importing
  <2> QED BY <1>3, <2>1, SweepRows, OverrunUnclaimed DEF Overruns
<1> QED BY <1>2, <1>3 DEF JobClaims, Overruns

(* Every step of a backend, whose updates are by id alone.                 *)
LEMMA BackendOverrun ==
  ASSUME TypeOK, TypeOK', Overruns, NEW b \in Backends,
         \/ BackendStep(b) \/ Maintenance(b)
         \/ JobCrash(b) /\ UNCHANGED <<run, req>>
  PROVE  Overruns'
<1>1. job \in [Backends -> Job] /\ row \in [Uploads -> Row] /\ UNCHANGED <<run, req>>
  BY DEF TypeOK, BackendTypeOK, StoreTypeOK, BackendStep, Maintenance
<1>2. CASE JobClaims(b) BY <1>1, <1>2, JobClaimOverrun
<1>3. CASE ~JobClaims(b)
  <2>1. \A v \in Uploads : NoMoreYoung(v)
    <3>1. /\ \A a \in Backends \ {b} : job'[a] = job[a]
          /\ Importing(b)' => /\ Importing(b)
                              /\ job'[b].up = job[b].up
                              /\ job'[b].attempt = job[b].attempt
      BY <1>3, BackendMoves DEF BackendStep, Maintenance
    <3> QED BY <1>1, <3>1
        DEF NoMoreYoung, YoungRuns, YoungImports, Analysing, Importing
  <2>2. CASE \A v \in Uploads : SameRow(v) BY <2>1, <2>2, OverrunUnclaimed DEF Overruns
  <2>3. CASE row' # row /\ (FinishDone(b) \/ Fail(b))
    <3>1. PICK u \in Uploads : u = job[b].up BY <1>1 DEF Job
    <3>2. PICK s \in Statuses :
            /\ SetStatus(u, s)
            /\ \/ s \in {"failed", "done"}
               \/ /\ s = IF RustCore THEN "analysed" ELSE "queued"
                  /\ job[b].pc = "failing" /\ Rest(b)
                  /\ job[b].attempt < MaxAttempts
      BY <2>3, <3>1 DEF FinishDone, Fail, Statuses
    <3>3. /\ \A v \in Uploads : v # u => SameRow(v)
          /\ row'[u].attempts = row[u].attempts
          /\ row'[u].tries = row[u].tries
          /\ row'[u].status \in {s, "none"}
      BY <1>1, <3>2 DEF SetStatus, SameRow, Row
    <3>4. \/ row'[u].status \in {"failed", "done", "none"}
          \/ /\ row'[u].status = IF RustCore THEN "analysed" ELSE "queued"
             /\ YoungImports(u) \ YoungImports(u)' # {}
      <4>1. CASE s \in {"failed", "done"} BY <3>3, <4>1
      <4>2. CASE s \notin {"failed", "done"}
        <5>1. b \in YoungImports(u)
          BY <3>1, <3>2, <4>2 DEF YoungImports, Importing, AttemptSteps
        <5>2. job'[b].pc = "idle" BY <1>1, <3>2, <4>2 DEF Rest, NoJob
        <5>3. b \notin YoungImports(u)'
          BY <5>2 DEF YoungImports, Importing, AttemptSteps
        <5> QED BY <3>2, <3>3, <4>2, <5>1, <5>3
      <4> QED BY <4>1, <4>2
    <3>5. OverrunAt(u)'
      BY <2>1, <3>3, <3>4, OverrunStays DEF Overruns, OneYoungLess
    <3> QED BY <2>1, <3>3, <3>5, OverrunUnclaimed DEF Overruns
  <2> QED BY <1>3, <2>2, <2>3, JobStepRows
      DEF BackendStep, JobStep, Maintenance, Maintain, store, SameRow
<1> QED BY <1>2, <1>3

(* Nobody else claims, or puts back a row whose counts stay.               *)
LEMMA OtherOverrun ==
  ASSUME TypeOK, TypeOK', Overruns,
         \/ \E r \in Requests : RequestArrives(r) \/ RequestRuns(r)
         \/ \E u \in Uploads : TimePasses(u) \/ RowPruned(u)
         \/ ItemDeleted
         \/ \E w \in Runners : RunnerCrash(w) /\ UNCHANGED <<job, req>>
         \/ UNCHANGED vars
  PROVE  Overruns'
<1>1. \A v \in Uploads : NoMoreYoung(v)
  <2>1. CASE run' = run /\ job' = job
    BY <2>1 DEF NoMoreYoung, YoungRuns, YoungImports, Analysing, Importing
  <2>2. ASSUME NEW w \in Runners, RunnerCrash(w), UNCHANGED <<job, req>>,
               NEW v \in Uploads
        PROVE  NoMoreYoung(v)
    <3>1. run'[w].pc = "idle" /\ \A x \in Runners \ {w} : run'[x] = run[x]
      BY <2>2 DEF RunnerCrash, Idle, NoRun, TypeOK, RunnerTypeOK
    <3> QED BY <2>2, <3>1
        DEF NoMoreYoung, YoungRuns, YoungImports, Analysing, Importing
  <2> QED BY <2>1, <2>2 DEF RequestArrives, RequestRuns, TimePasses, RowPruned,
                            ItemDeleted, vars
<1>2. CASE row' = row BY <1>1, <1>2, OverrunUnclaimed DEF Overruns, SameRow
<1>3. CASE row' # row
  <2>1. PICK u \in Uploads :
          /\ \A v \in Uploads : v # u => SameRow(v)
          /\ \/ /\ row'[u].attempts = 0
                /\ row'[u].tries = 0
             \/ /\ row'[u].status = row[u].status
                /\ row'[u].attempts = row[u].attempts
                /\ row'[u].tries = row[u].tries
    BY <1>3, OtherRows
  <2>2. OverrunAt(u)' BY <1>1, <2>1, OverrunStays DEF Overruns
  <2> QED BY <1>1, <2>1, <2>2, OverrunUnclaimed DEF Overruns
<1> QED BY <1>2, <1>3

(* Nobody but a Rust runner changes what its retries are.                  *)
LEMMA RetriesStep ==
  ASSUME TypeOK, RetriesBelow, [Next]_vars
  PROVE  RetriesBelow'
<1>1. CASE run' = run BY <1>1 DEF RetriesBelow
<1>2. ASSUME NEW w \in Runners, RunnerCrash(w) PROVE RetriesBelow'
  BY <1>2 DEF RunnerCrash, Idle, NoRun, TypeOK, RunnerTypeOK, Run, RetriesBelow
<1> QED BY <1>1, <1>2, RunnerRetries
    DEF Next, ProcessDies, CadRunnerStep, BackendStep, Maintenance, RequestArrives,
        RequestRuns, TimePasses, RowPruned, ItemDeleted, vars

(* At first nothing was attempted.                                         *)
LEMMA OverrunInit == Init => OverrunInv
<1> SUFFICES ASSUME Init PROVE OverrunInv OBVIOUS
<1>1. /\ \A u \in Uploads : row[u].attempts = 0 /\ row[u].tries = 0
      /\ \A w \in Runners : ~run[w].retry
  BY DEF Init, StoreInit, RunnerInit, NoRow, NoRun
<1> QED BY <1>1, StoreAssumption DEF OverrunInv, RetriesBelow, OverrunAt, Within

(* OverrunInv is inductive, given the types, under any faults.             *)
LEMMA OverrunStep ==
  ASSUME TypeOK, OverrunInv, [Next]_vars
  PROVE  OverrunInv'
<1>1. TypeOK' BY TypeStep
<1>2. RetriesBelow /\ Overruns BY DEF OverrunInv, Overruns
<1>3. Overruns'
  BY <1>1, <1>2, RunnerOverrun, BackendOverrun, OtherOverrun DEF Next, ProcessDies
<1>4. RetriesBelow' BY <1>2, RetriesStep
<1> QED BY <1>3, <1>4 DEF OverrunInv, Overruns

(* OverrunInv holds, under any faults.                                     *)
THEOREM OverrunCorrect == Spec => [](TypeOK /\ OverrunInv)
<1>1. Init => TypeOK /\ OverrunInv BY TypeInit, OverrunInit
<1>2. TypeOK /\ OverrunInv /\ [Next]_vars => (TypeOK /\ OverrunInv)'
  BY TypeStep, OverrunStep
<1> QED BY <1>1, <1>2, PTL DEF Spec

(* Whatever fails, each process of a half beyond the first adds at most    *)
(* one attempt to MAX_ATTEMPTS.                                            *)
THEOREM OverrunIsBounded == Spec => []OverrunBounded
<1>1. ASSUME TypeOK, OverrunInv PROVE OverrunBounded
  <2>1. ASSUME NEW u \in Uploads
        PROVE  /\ row[u].attempts < MaxAttempts + Analysers
               /\ row[u].tries < MaxAttempts + Cardinality(Backends)
    <3>1. OverrunAt(u) BY <1>1, <2>1 DEF OverrunInv
    <3>2. row[u].attempts \in Nat /\ row[u].tries \in Nat BY <1>1, RowCounts
    <3>3. /\ YoungAnalyses(u) \in Nat /\ Cardinality(YoungImports(u)) \in Nat
          /\ Analysers \in Nat /\ Cardinality(Backends) \in Nat
      BY YoungCounts
    <3>4. Waits(u, "queued") \in {0, 1} /\ Waits(u, "analysed") \in {0, 1}
      BY WaitsCounts
    <3>5. row[u].attempts < MaxAttempts + Analysers
      BY <3>1, <3>2, <3>3, <3>4, StoreAssumption DEF OverrunAt, Within
    <3>6. row[u].tries < MaxAttempts + Cardinality(Backends)
      BY <3>1, <3>2, <3>3, <3>4, StoreAssumption DEF OverrunAt, Within
    <3> QED BY <3>5, <3>6
  <2> QED BY <2>1 DEF OverrunBounded
<1> QED BY <1>1, OverrunCorrect, PTL
=============================================================================
