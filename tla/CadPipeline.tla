---------------------------- MODULE CadPipeline ----------------------------
(***************************************************************************)
(* The CAD upload pipeline: upload requests, the Rust analysis runners,    *)
(* the backend's runners, users and housekeeping, over one database and    *)
(* one object store.                                                       *)
(***************************************************************************)
EXTENDS CadRunner, BackendRunner, UploadApi

vars == <<row, bom, parts, source, run, job, req>>

Init == StoreInit /\ RunnerInit /\ BackendInit /\ ApiInit

(* What the table, the store and everyone's work in hand can be.           *)
TypeOK == StoreTypeOK /\ RunnerTypeOK /\ BackendTypeOK /\ ApiTypeOK

(* Work of the backend on upload u that is not an attempt: the removals    *)
(* after `done`, and maintenance.                                          *)
Tidying(b, u) ==
  /\ job[b].pc \in {"parts", "source", "stamp"}
  /\ u = job[b].up \/ u \in job[b].list

(* Nobody is about to change upload u other than an attempt at it.         *)
Quiet(u) ==
  /\ \A r \in Requests : ~(InFlight(r) /\ req[r].up = u)
  /\ \A b \in Backends : ~Tidying(b, u)

(* Without the fault "overlap", requests, housekeeping and tidying up take *)
(* turns on an upload.                                                     *)
MayTouch(u) == "overlap" \in Faults \/ Quiet(u)

(* An attempt, in either runner, is under way on upload u.                 *)
Attempted(u) ==
  \/ \E w \in Runners : Analysing(w) /\ run[w].up = u
  \/ \E b \in Backends : Importing(b) /\ job[b].up = u

(* The database's choice of an id no item has and nobody still holds; the  *)
(* smallest, as any would do.                                              *)
Unused(i) == /\ \A x \in bom : x.id # i
             /\ \A u \in Uploads : i \notin row[u].created
             /\ \A b \in Backends : i \notin job[b].ids
             /\ \A r \in Requests : i \notin req[r].ids

NewId(i) == Unused(i) /\ \A j \in Items : Unused(j) => i <= j

-----------------------------------------------------------------------------
CadRunnerStep(w) == RunnerStep(w) /\ UNCHANGED <<job, req>>

BackendStep(b) ==
  /\ JobStep(b) \/ \E i \in Items : NewId(i) /\ CreateItem(b, i)
  /\ UNCHANGED <<run, req>>

BackendClaims(b) == JobClaims(b) /\ UNCHANGED <<run, req>>

Maintenance(b) ==
  /\ \E expired \in SUBSET Uploads :
       Maintain(b, expired) /\ \A u \in expired : MayTouch(u)
  /\ UNCHANGED <<run, req>>

RequestArrives(r) == /\ \E u \in Uploads : MayTouch(u) /\ Find(r, u)
                     /\ UNCHANGED <<run, job>>

RequestRuns(r) == RequestStep(r) /\ UNCHANGED <<run, job>>

(* STALE_SECONDS is longer than an attempt takes, unless one outlives it.  *)
TimePasses(u) == /\ "outlive" \in Faults \/ ~Attempted(u)
                 /\ GoStale(u)
                 /\ UNCHANGED <<run, job, req>>

RowPruned(u) == MayTouch(u) /\ Prune(u) /\ UNCHANGED <<run, job, req>>

ItemDeleted == /\ \E x \in bom : UserDeletes(x)
               /\ UNCHANGED <<run, job, req>>

ProcessDies ==
  \/ \E w \in Runners : RunnerCrash(w) /\ UNCHANGED <<job, req>>
  \/ \E b \in Backends : JobCrash(b) /\ UNCHANGED <<run, req>>

Next ==
  \/ \E w \in Runners : CadRunnerStep(w)
  \/ \E b \in Backends : BackendStep(b) \/ Maintenance(b)
  \/ \E r \in Requests : RequestArrives(r) \/ RequestRuns(r)
  \/ \E u \in Uploads : TimePasses(u) \/ RowPruned(u)
  \/ ItemDeleted
  \/ ProcessDies

Spec == Init /\ [][Next]_vars

(* Both runners poll for ever and await what they have begun, a request    *)
(* is answered, and an abandoned attempt becomes stale.  A backend's tick  *)
(* claims before it maintains, so hourly maintenance cannot keep it from   *)
(* claiming for ever.                                                      *)
Fairness ==
  /\ \A w \in Runners : WF_vars(CadRunnerStep(w))
  /\ \A b \in Backends : /\ WF_vars(BackendStep(b))
                         /\ SF_vars(BackendClaims(b))
  /\ \A r \in Requests : WF_vars(RequestRuns(r))
  /\ \A u \in Uploads : WF_vars(TimePasses(u))

FairSpec == Spec /\ Fairness

-----------------------------------------------------------------------------
(* Safety.  Each property says under which faults it is meant to hold; the *)
(* runs of the others show what those faults do to it.                     *)

(* No two attempts, of either kind of runner, are under way on one upload  *)
(* at a time: SKIP LOCKED keeps two claims apart, the window keeps a claim *)
(* and an older attempt apart.  Not with "lost", "outlive" or "overlap".   *)
OneAttempt ==
  /\ \A v, w \in Runners :
       Analysing(v) /\ Analysing(w) /\ run[v].up = run[w].up => v = w
  /\ \A a, b \in Backends :
       Importing(a) /\ Importing(b) /\ job[a].up = job[b].up => a = b
  /\ \A w \in Runners, b \in Backends :
       Analysing(w) /\ Importing(b) => run[w].up # job[b].up

(* An upload is begun at most MAX_ATTEMPTS times in each half before       *)
(* someone asks for it again, across failures, crashes and stale claims.   *)
AttemptsBounded ==
  \A u \in Uploads : row[u].attempts <= MaxAttempts /\ row[u].tries <= MaxAttempts

(* Even when attempts outlive the window, answers get lost and requests    *)
(* overlap, each process of a half beyond the first adds at most one       *)
(* attempt: only an attempt claimed below the limit asks for another, and  *)
(* once the limit is reached no claim makes one of these.                  *)
Analysers == Cardinality(Runners) + IF RustCore THEN 0 ELSE Cardinality(Backends)

OverrunBounded ==
  \A u \in Uploads : /\ row[u].attempts < MaxAttempts + Analysers
                     /\ row[u].tries < MaxAttempts + Cardinality(Backends)

(* While an upload waits to be materialized, every one of its parts is     *)
(* stored, whatever cleanups of earlier attempts went before.              *)
AnalysedHasParts ==
  \A u \in Uploads : row[u].status = "analysed" => parts[u] = Parts

(* Every imported item is one the upload's row or the attempt under way    *)
(* knows of, so that a retry can remove it: createItems' failures and      *)
(* crashes at any other point included.  Not with "unrecorded",            *)
(* "undeleted", "abandoned" or "lost".                                     *)
ItemsAccounted ==
  \A x \in bom : \/ x.id \in row[x.up].created
                 \/ \E b \in Backends : /\ Importing(b)
                                        /\ job[b].up = x.up
                                        /\ x.id \in job[b].ids

(* The original an upload in progress will need is stored unless its row   *)
(* says it is gone; so is that of a failed one, whose retry sends nothing. *)
(* Not with "unstamped", "overlap", or originals that uploads share.       *)
SourceKept ==
  \A u \in Uploads :
    /\ row[u].status \in {"queued", "running", "failed"}
    /\ ~row[u].gone
    /\ \A b \in Backends : ~Tidying(b, u)
    => SourceOf[u] \in source

(* An upload becomes done only when the BOM holds each of its lines once,  *)
(* and the row lists exactly these items: nothing of an earlier attempt is *)
(* left, nothing is missing.                                               *)
Whole(u) ==
  /\ {x.line : x \in ItemsOf(u)} = Lines
  /\ \A x, y \in ItemsOf(u) : x.line = y.line => x = y
  /\ {x.id : x \in ItemsOf(u)} = row[u].created

DoneTreeWhole ==
  [][\A u \in Uploads :
       row[u].status # "done" /\ row'[u].status = "done" => Whole(u)]_vars

(* A request for an upload that is being processed adds nothing: it never  *)
(* puts it back to the start of the queue.  Not with "overlap".            *)
NeverInterrupted ==
  [][\A u \in Uploads :
       row[u].status \in {"running", "analysed", "materializing"}
         => ~(row'[u].status = "queued" /\ row'[u].attempts < row[u].attempts)]_vars

(* A finished upload starts over only when it is asked for again.          *)
DoneIsFinal ==
  [][\A u \in Uploads :
       row[u].status = "done" => \/ row'[u].status = "done"
                                 \/ /\ row'[u].status = "queued"
                                    /\ row'[u].attempts = 0]_vars

-----------------------------------------------------------------------------
(* Why OneAttempt, AttemptsBounded and AnalysedHasParts hold when no       *)
(* answer is lost, no attempt outlives its window and nothing overlaps:    *)
(* whoever works on a row finds it as its claim left it, and whoever       *)
(* requests or tidies finds it at rest.  SafetyInv is inductive.           *)
Orderly == Faults \cap {"lost", "outlive", "overlap"} = {}

RunsOwn ==
  \A w \in Runners : Analysing(w) =>
    /\ row[run[w].up].status = "running"
    /\ ~row[run[w].up].stale
    /\ row[run[w].up].attempts = run[w].attempt

JobsOwn ==
  \A b \in Backends : Importing(b) =>
    /\ row[job[b].up].status = Working
    /\ ~row[job[b].up].stale
    /\ Begun(job[b].up) = job[b].attempt
    /\ job[b].list = {}

RequestsAlone ==
  \A r \in Requests : InFlight(r) =>
    /\ row[req[r].up].status \in {"none", "failed", "done"}
    /\ \A q \in Requests : InFlight(q) /\ req[q].up = req[r].up => q = r
    /\ \A b \in Backends : ~Tidying(b, req[r].up)

TidiedAtRest ==
  \A b \in Backends, u \in Uploads :
    Tidying(b, u) => row[u].status \in {"failed", "done"}

CountsBelow ==
  \A u \in Uploads :
    /\ row[u].attempts <= MaxAttempts
    /\ row[u].tries <= MaxAttempts
    /\ row[u].status = "queued" => row[u].attempts < MaxAttempts
    /\ row[u].status = "analysed" => row[u].tries < MaxAttempts
    /\ row[u].status \in {"queued", "running"} => row[u].tries = 0

RetriesBelow ==
  \A w \in Runners : run[w].retry => run[w].attempt < MaxAttempts

PartsKept ==
  /\ \A u \in Uploads : row[u].status \in {"analysed", "materializing"}
                           => Parts \subseteq parts[u]
  /\ \A w \in Runners :
       Analysing(w) => run[w].stored \subseteq parts[run[w].up]

(* Attempts own their rows, everyone else meets rows at rest, counters are *)
(* below the limits and parts are kept: inductive when Orderly.            *)
SafetyInv == /\ RunsOwn
             /\ JobsOwn
             /\ OneAttempt
             /\ RequestsAlone
             /\ TidiedAtRest
             /\ CountsBelow
             /\ RetriesBelow
             /\ PartsKept

(* Why OverrunBounded holds under all faults: with the limit reached, the  *)
(* attempts begun, those under way that may still ask for another and the  *)
(* one that waits to be claimed are together as few.                       *)
YoungRuns(u) == {w \in Runners : /\ Analysing(w) /\ run[w].up = u
                                 /\ run[w].attempt < MaxAttempts}

YoungImports(u) == {b \in Backends : /\ Importing(b) /\ job[b].up = u
                                     /\ job[b].attempt < MaxAttempts}

YoungAnalyses(u) ==
  Cardinality(YoungRuns(u)) + IF RustCore THEN 0 ELSE Cardinality(YoungImports(u))

Waits(u, status) == IF row[u].status = status THEN 1 ELSE 0

Within(begun, still, processes) ==
  begun >= MaxAttempts => begun + still < MaxAttempts + processes

OverrunAt(u) ==
  /\ Within(row[u].attempts, YoungAnalyses(u) + Waits(u, "queued"), Analysers)
  /\ Within(row[u].tries, Cardinality(YoungImports(u)) + Waits(u, "analysed"),
            Cardinality(Backends))
  /\ ~RustCore \/ row[u].status \in {"queued", "running"} => row[u].tries = 0

OverrunInv == RetriesBelow /\ \A u \in Uploads : OverrunAt(u)

-----------------------------------------------------------------------------
(* Every upload that was accepted ends as done or failed, through errors,  *)
(* crashes at any point and lost failure reports.                          *)
Active == {"queued", "running", "analysed", "materializing"}

Settles ==
  \A u \in Uploads : row[u].status \in Active
                       ~> row[u].status \in {"done", "failed"}

(* The pipeline does what the upload's lifecycle promises.                 *)
Lifecycle == INSTANCE UploadLifecycle WITH
  phase <- [u \in Uploads |-> row[u].status],
  used  <- [u \in Uploads |-> <<row[u].attempts, row[u].tries>>]

(* Each status change and each count of attempts is a step of the          *)
(* lifecycle that migration 923 draws.                                     *)
KeepsLifecycle == Lifecycle!Spec
=============================================================================
