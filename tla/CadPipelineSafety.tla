------------------------- MODULE CadPipelineSafety -------------------------
(***************************************************************************)
(* Proof that SafetyInv is an inductive invariant of the pipeline when no  *)
(* answer is lost, no attempt outlives its window and nothing overlaps,    *)
(* and what follows from it: the safety properties, and that every step    *)
(* is one of the abstract lifecycle or leaves it alone.  On top of it, two *)
(* more inductive invariants: ItemsInv, from which every imported item is  *)
(* accounted for and no import ends in part, and SourceInv, from which an  *)
(* original is kept while an upload may need it.  The conjuncts of         *)
(* SafetyInv that say who may be at work on a row are regrouped per upload *)
(* (SettledAt), since a step touches one upload and leaves the others as   *)
(* they are.                                                               *)
(***************************************************************************)
EXTENDS CadPipelineTypes

Analyses(w, u) == Analysing(w) /\ run[w].up = u
Imports(b, u) == Importing(b) /\ job[b].up = u
AsksFor(r, u) == InFlight(r) /\ req[r].up = u

(* What SafetyInv says of one upload and whoever is at work on it.         *)
SettledAt(u) ==
  /\ \A w \in Runners : Analyses(w, u) =>
       /\ row[u].status = "running"
       /\ ~row[u].stale
       /\ row[u].attempts = run[w].attempt
       /\ \A v \in Runners : Analyses(v, u) => v = w
       /\ \A b \in Backends : ~Imports(b, u)
  /\ \A b \in Backends : Imports(b, u) =>
       /\ row[u].status = Working
       /\ ~row[u].stale
       /\ Begun(u) = job[b].attempt
       /\ job[b].list = {}
       /\ \A a \in Backends : Imports(a, u) => a = b
  /\ \A r \in Requests : AsksFor(r, u) =>
       /\ row[u].status \in {"none", "failed", "done"}
       /\ \A q \in Requests : AsksFor(q, u) => q = r
       /\ \A b \in Backends : ~Tidying(b, u)
  /\ \A b \in Backends : Tidying(b, u) => row[u].status \in {"failed", "done"}

Settled == \A u \in Uploads : SettledAt(u)

Held == RunsOwn /\ JobsOwn /\ OneAttempt /\ RequestsAlone /\ TidiedAtRest

(* The five conjuncts about who is at work say the same as SettledAt of    *)
(* every upload.                                                           *)
LEMMA HeldIsSettled == ASSUME TypeOK PROVE Held <=> Settled
<1> USE DEF Held, Settled, SettledAt, RunsOwn, JobsOwn, OneAttempt,
            RequestsAlone, TidiedAtRest, Analyses, Imports, AsksFor
<1>1. /\ \A w \in Runners : run[w].up \in Uploads
      /\ \A b \in Backends : job[b].up \in Uploads
      /\ \A r \in Requests : req[r].up \in Uploads
  BY DEF TypeOK, RunnerTypeOK, Run, BackendTypeOK, Job, ApiTypeOK, Req
<1>2. ASSUME Held PROVE Settled BY <1>2
<1>3. ASSUME Settled PROVE Held BY <1>1, <1>3
<1> QED BY <1>2, <1>3

(* Nobody is at work on upload u, and nobody is about to change it.        *)
Free(u) ==
  /\ \A w \in Runners : ~Analyses(w, u)
  /\ \A b \in Backends : ~Imports(b, u) /\ ~Tidying(b, u)
  /\ \A r \in Requests : ~AsksFor(r, u)

(* Nobody has come to work on upload u: whoever is was so before.          *)
GoesOn(u) ==
  /\ \A w \in Runners : Analyses(w, u)' =>
       Analyses(w, u) /\ run'[w].attempt = run[w].attempt
  /\ \A b \in Backends :
       /\ Imports(b, u)' => /\ Imports(b, u)
                            /\ job'[b].attempt = job[b].attempt
                            /\ job'[b].list = job[b].list
       /\ Tidying(b, u)' => Tidying(b, u)
  /\ \A r \in Requests : AsksFor(r, u)' => AsksFor(r, u)

(* An upload nobody has come to, and whose row is as before, stays         *)
(* settled.                                                                *)
LEMMA StaysSettled ==
  ASSUME NEW u \in Uploads, SettledAt(u), GoesOn(u), SameRow(u)
  PROVE  SettledAt(u)'
  BY DEF SettledAt, GoesOn, SameRow, Begun, Working

(* An upload nobody is at work on is settled, whatever its row says.       *)
LEMMA FreeIsSettled ==
  ASSUME NEW u \in Uploads, Free(u)'
  PROVE  SettledAt(u)'
  BY DEF SettledAt, Free

(* An upload is free as long as nobody comes to it.                        *)
LEMMA StaysFree ==
  ASSUME NEW u \in Uploads, Free(u), GoesOn(u)
  PROVE  Free(u)'
  BY DEF GoesOn, Free

(* An upload that waits, or whose attempt went stale, is free.             *)
LEMMA WaitingIsFree ==
  ASSUME NEW u \in Uploads, SettledAt(u),
         \/ row[u].status \in {"queued", "analysed"}
         \/ row[u].status \in {"running", "materializing"} /\ row[u].stale
  PROVE  Free(u)
  BY DEF SettledAt, Free, Working

(* The three faults the theorems exclude, one by one.                      *)
LEMMA OrderlyMeans ==
  ASSUME Orderly
  PROVE  "lost" \notin Faults /\ "outlive" \notin Faults /\ "overlap" \notin Faults
  BY DEF Orderly

-----------------------------------------------------------------------------
(* Steps of a Rust runner.                                                 *)

(* A runner that goes on with its upload, or lets go of it, brings nobody  *)
(* to work on any.                                                         *)
LEMMA RunnerGoesOn ==
  ASSUME NEW w \in Runners, NEW u \in Uploads, UNCHANGED <<job, req>>,
         \A v \in Runners \ {w} : run'[v] = run[v],
         \/ run'[w].pc = "idle"
         \/ /\ Analysing(w)
            /\ run'[w].up = run[w].up
            /\ run'[w].attempt = run[w].attempt
  PROVE  GoesOn(u)
  BY DEF GoesOn, Analyses, Imports, AsksFor, Analysing, Importing, InFlight, Tidying

(* A claim by a Rust runner meets its upload free and has it alone.        *)
LEMMA RunnerClaimSettled ==
  ASSUME TypeOK, Settled, NEW w \in Runners, RunnerClaims(w),
         UNCHANGED <<job, req>>
  PROVE  Settled'
<1>1. run \in [Runners -> Run] /\ row \in [Uploads -> Row]
  BY DEF TypeOK, RunnerTypeOK, StoreTypeOK
<1>2. ASSUME NEW u \in Uploads, ClaimNextCadUpload(u),
             run' = [run EXCEPT ![w] = [NoRun EXCEPT !.pc = "claimed", !.up = u,
                                          !.attempt = row[u].attempts + 1,
                                          !.gone = row[u].gone]],
             NEW v \in Uploads
      PROVE  SettledAt(v)'
  <2>1. /\ run'[w].pc = "claimed" /\ run'[w].up = u
        /\ run'[w].attempt = row[u].attempts + 1
        /\ \A x \in Runners \ {w} : run'[x] = run[x]
    BY <1>1, <1>2 DEF NoRun, Run
  <2>2. CASE v = u
    <3>1. /\ \/ row[u].status = "queued"
             \/ row[u].status = "running" /\ row[u].stale
          /\ row'[u].status = "running" /\ ~row'[u].stale
          /\ row'[u].attempts = row[u].attempts + 1
      BY <1>2, CadClaimRows
    <3>2. Free(u) BY <3>1, WaitingIsFree DEF Settled
    <3> QED BY <2>1, <2>2, <3>1, <3>2
        DEF SettledAt, Free, Analyses, Imports, AsksFor, Analysing, Importing,
            InFlight, Tidying
  <2>3. CASE v # u
    <3>1. GoesOn(v)
      BY <2>1, <2>3
      DEF GoesOn, Analyses, Imports, AsksFor, Analysing, Importing, InFlight,
          Tidying
    <3>2. \/ SameRow(v)
          \/ row[v].status = "running" /\ row[v].stale
      BY <1>2, <2>3, CadClaimOthers
    <3> QED BY <3>1, <3>2, StaysSettled, StaysFree, FreeIsSettled, WaitingIsFree
        DEF Settled
  <2> QED BY <2>2, <2>3
<1>3. ASSUME SweepCadUploads, run' = run, NEW v \in Uploads
      PROVE  SettledAt(v)'
  <2>1. GoesOn(v) BY <1>3 DEF GoesOn, Analyses, Imports, AsksFor, Analysing,
                          Importing, InFlight, Tidying
  <2>2. \/ SameRow(v)
        \/ row[v].status \in {"running", "materializing"} /\ row[v].stale
    BY <1>3, SweepRows
  <2> QED BY <2>1, <2>2, StaysSettled, StaysFree, FreeIsSettled, WaitingIsFree
      DEF Settled
<1> QED BY <1>2, <1>3 DEF RunnerClaims, Settled

(* Marking the row ends the attempt.                                       *)
LEMMA RunnerMarkSettled ==
  ASSUME TypeOK, Settled, NEW w \in Runners, Analysing(w), Idle(w),
         UNCHANGED <<job, req>>, row[run[w].up].status = "running",
         \A v \in Uploads \ {run[w].up} : row'[v] = row[v]
  PROVE  Settled'
<1>1. PICK u \in Uploads : u = run[w].up /\ run \in [Runners -> Run]
  BY DEF TypeOK, RunnerTypeOK, Run
<1>2. run'[w].pc = "idle" /\ \A v \in Runners \ {w} : run'[v] = run[v]
  BY <1>1 DEF Idle, NoRun
<1>3. \A v \in Uploads : GoesOn(v) BY <1>2, RunnerGoesOn
<1>4. Free(u)'
  <2>1. SettledAt(u) /\ Analyses(w, u) BY <1>1 DEF Settled, Analyses
  <2>2. /\ \A v \in Runners \ {w} : ~Analyses(v, u)
        /\ \A b \in Backends : ~Imports(b, u) /\ ~Tidying(b, u)
        /\ \A r \in Requests : ~AsksFor(r, u)
    BY <2>1 DEF SettledAt
  <2> QED BY <1>2, <2>2 DEF Free, Analyses, Imports, AsksFor, Analysing,
                            Importing, InFlight, Tidying
<1>5. \A v \in Uploads \ {u} : SameRow(v) BY <1>1 DEF SameRow
<1> QED BY <1>1, <1>3, <1>4, <1>5, StaysSettled, FreeIsSettled DEF Settled

(* Every step of a Rust runner leaves every upload settled.                *)
LEMMA RunnerSettled ==
  ASSUME TypeOK, Settled, Orderly, NEW w \in Runners, CadRunnerStep(w)
  PROVE  Settled'
<1> USE DEF CadRunnerStep
<1>1. run \in [Runners -> Run] /\ row \in [Uploads -> Row]
  BY DEF TypeOK, RunnerTypeOK, StoreTypeOK
<1>2. CASE RunnerClaims(w) BY <1>2, RunnerClaimSettled
<1>3. CASE row' = row /\ ~RunnerClaims(w)
  <2>1. \A u \in Uploads : GoesOn(u) BY <1>3, RunnerMoves, RunnerGoesOn
  <2> QED BY <1>3, <2>1, StaysSettled DEF Settled, SameRow
<1>4. CASE row' # row /\ ~RunnerClaims(w)
  <2>1. \/ FinishAnalysed(w) /\ MarkAnalysed(run[w].up) /\ Idle(w)
        \/ FinishFailed(w) /\ MarkFailed(run[w].up, run[w].retry) /\ Idle(w)
    BY <1>4, OrderlyMeans
    DEF RunnerStep, Download, Analyse, PartNotReturned, StorePart, CleanPart,
        FinishAnalysed, EndCleanup, FinishFailed, store
  <2>2. Analysing(w) BY <2>1 DEF FinishAnalysed, FinishFailed, Analysing
  <2>3. /\ row[run[w].up].status = "running"
        /\ \A v \in Uploads \ {run[w].up} : row'[v] = row[v]
    BY <1>1, <2>1 DEF MarkAnalysed, MarkFailed
  <2> QED BY <2>1, <2>2, <2>3, RunnerMarkSettled
<1> QED BY <1>2, <1>3, <1>4

-----------------------------------------------------------------------------
(* Steps of a backend.                                                     *)

(* A backend that goes on with its attempt or its tidying, or rests.       *)
LEMMA JobGoesOn ==
  ASSUME NEW b \in Backends, NEW u \in Uploads, UNCHANGED <<run, req>>,
         \A a \in Backends \ {b} : job'[a] = job[a],
         Imports(b, u)' => /\ Imports(b, u)
                           /\ job'[b].attempt = job[b].attempt
                           /\ job'[b].list = job[b].list,
         Tidying(b, u)' => Tidying(b, u)
  PROVE  GoesOn(u)
<1>1. \A a \in Backends \ {b} : /\ Imports(a, u)' => Imports(a, u)
                                /\ job'[a].attempt = job[a].attempt
                                /\ job'[a].list = job[a].list
                                /\ Tidying(a, u)' => Tidying(a, u)
  BY DEF Imports, Importing, Tidying
<1> QED BY <1>1 DEF GoesOn, Analyses, AsksFor, Analysing, InFlight

(* A claim by a backend meets its upload free and has it alone.            *)
LEMMA JobClaimSettled ==
  ASSUME TypeOK, Settled, NEW b \in Backends, JobClaims(b),
         UNCHANGED <<run, req>>
  PROVE  Settled'
<1>1. job \in [Backends -> Job] /\ row \in [Uploads -> Row]
  BY DEF TypeOK, BackendTypeOK, StoreTypeOK
<1>2. ASSUME NEW u \in Uploads,
             IF RustCore THEN ClaimNextAnalysedUpload(u) ELSE ClaimNextCadUpload(u),
             job' = [job EXCEPT ![b] =
               [NoJob EXCEPT
                  !.pc = IF row[u].created = {} THEN "loading" ELSE "removing",
                  !.up = u,
                  !.attempt = Begun(u) + 1,
                  !.gone = row[u].gone,
                  !.ids = row[u].created]],
             NEW v \in Uploads
      PROVE  SettledAt(v)'
  <2>1. /\ job'[b].pc \in {"loading", "removing"} /\ job'[b].up = u
        /\ job'[b].attempt = Begun(u) + 1 /\ job'[b].list = {}
        /\ \A a \in Backends \ {b} : job'[a] = job[a]
    BY <1>1, <1>2 DEF NoJob, Job
  <2>2. CASE v = u
    <3>1. /\ \/ row[u].status \in {"queued", "analysed"}
             \/ row[u].status \in {"running", "materializing"} /\ row[u].stale
          /\ row'[u].status = Working /\ ~row'[u].stale
          /\ Begun(u)' = Begun(u) + 1
      <4>1. CASE RustCore
        BY <1>2, <4>1, AnalysedClaimRows DEF Working, Begun
      <4>2. CASE ~RustCore
        BY <1>2, <4>2, CadClaimRows DEF Working, Begun
      <4> QED BY <4>1, <4>2
    <3>2. Free(u) BY <3>1, WaitingIsFree DEF Settled
    <3>3. /\ \A w \in Runners : ~Analyses(w, u)'
          /\ \A a \in Backends \ {b} : ~Imports(a, u)'
          /\ \A a \in Backends : ~Tidying(a, u)'
          /\ \A r \in Requests : ~AsksFor(r, u)'
      BY <2>1, <3>2 DEF Free, Analyses, Imports, AsksFor, Analysing, Importing,
                        InFlight, Tidying
    <3>4. row'[u].status = Working' BY <3>1 DEF Working
    <3> QED BY <2>1, <2>2, <3>1, <3>3, <3>4 DEF SettledAt, Imports
  <2>3. CASE v # u
    <3>1. GoesOn(v)
      BY <2>1, <2>3, JobGoesOn DEF Imports, Importing, AttemptSteps, Tidying
    <3>2. \/ SameRow(v)
          \/ row[v].status \in {"running", "materializing"} /\ row[v].stale
      BY <1>2, <2>3, CadClaimOthers, AnalysedClaimOthers
    <3> QED BY <3>1, <3>2, StaysSettled, StaysFree, FreeIsSettled, WaitingIsFree
        DEF Settled
  <2> QED BY <2>2, <2>3
<1>3. ASSUME SweepAnalysedUploads \/ SweepCadUploads, job' = job, NEW v \in Uploads
      PROVE  SettledAt(v)'
  <2>1. GoesOn(v) BY <1>3 DEF GoesOn, Analyses, Imports, AsksFor, Analysing,
                          Importing, InFlight, Tidying
  <2>2. \/ SameRow(v)
        \/ row[v].status \in {"running", "materializing"} /\ row[v].stale
    BY <1>3, SweepRows
  <2> QED BY <2>1, <2>2, StaysSettled, StaysFree, FreeIsSettled, WaitingIsFree
      DEF Settled
<1>4. \/ \E u \in Uploads :
           /\ IF RustCore THEN ClaimNextAnalysedUpload(u) ELSE ClaimNextCadUpload(u)
           /\ job' = [job EXCEPT ![b] =
                [NoJob EXCEPT
                   !.pc = IF row[u].created = {} THEN "loading" ELSE "removing",
                   !.up = u,
                   !.attempt = Begun(u) + 1,
                   !.gone = row[u].gone,
                   !.ids = row[u].created]]
      \/ (SweepAnalysedUploads \/ SweepCadUploads) /\ job' = job
  BY DEF JobClaims
<1> QED BY <1>2, <1>3, <1>4 DEF Settled

(* What an attempt in hand says of its upload.                             *)
LEMMA ImportAlone ==
  ASSUME TypeOK, Settled, NEW b \in Backends, Importing(b)
  PROVE  /\ job[b].up \in Uploads
         /\ row[job[b].up].status = Working
         /\ Begun(job[b].up) = job[b].attempt
         /\ job[b].list = {}
         /\ \A w \in Runners : ~Analyses(w, job[b].up)
         /\ \A a \in Backends \ {b} : ~Imports(a, job[b].up)
         /\ \A a \in Backends : ~Tidying(a, job[b].up)
         /\ \A r \in Requests : ~AsksFor(r, job[b].up)
<1>1. PICK u \in Uploads : u = job[b].up
  BY DEF TypeOK, BackendTypeOK, Job
<1>2. SettledAt(u) /\ Imports(b, u) BY <1>1 DEF Settled, Imports
<1>3. /\ row[u].status = Working
      /\ Begun(u) = job[b].attempt
      /\ job[b].list = {}
      /\ \A w \in Runners : ~Analyses(w, u)
      /\ \A a \in Backends \ {b} : ~Imports(a, u)
  BY <1>2 DEF SettledAt
<1>4. row[u].status \in {"running", "materializing"} BY <1>3 DEF Working
<1>5. /\ \A a \in Backends : ~Tidying(a, u)
      /\ \A r \in Requests : ~AsksFor(r, u)
  BY <1>2, <1>4 DEF SettledAt
<1> QED BY <1>1, <1>3, <1>5

(* The end of an attempt: the row is set, the backend rests or tidies up.  *)
LEMMA FinishSettled ==
  ASSUME TypeOK, Settled, Orderly, NEW b \in Backends, FinishDone(b) \/ Fail(b),
         row' # row, UNCHANGED <<run, req>>
  PROVE  Settled'
<1>1. job \in [Backends -> Job] /\ row \in [Uploads -> Row]
  BY DEF TypeOK, BackendTypeOK, StoreTypeOK
<1>2. Importing(b) BY DEF FinishDone, Fail, Importing, AttemptSteps
<1>3. PICK u \in Uploads : u = job[b].up BY <1>2, ImportAlone
<1>4. /\ row[u].status = Working
      /\ job[b].list = {}
      /\ \A w \in Runners : ~Analyses(w, u)
      /\ \A a \in Backends \ {b} : ~Imports(a, u)
      /\ \A a \in Backends : ~Tidying(a, u)
      /\ \A r \in Requests : ~AsksFor(r, u)
  BY <1>2, <1>3, ImportAlone
<1>5. /\ \/ job'[b].pc = "idle"
         \/ /\ job'[b].pc \in {"parts", "source"}
            /\ row'[u].status = "done"
            /\ job'[b].up = u
            /\ job'[b].list = {}
      /\ \A a \in Backends \ {b} : job'[a] = job[a]
      /\ \A v \in Uploads \ {u} : row'[v] = row[v]
  <2>1. CASE FinishDone(b)
    <3>1. SetStatus(u, "done") /\ To(b, IF RustCore THEN "parts" ELSE "source")
      BY <1>3, <2>1, OrderlyMeans DEF FinishDone
    <3> QED BY <1>1, <1>3, <1>4, <3>1 DEF SetStatus, To, Row, Job, Working
  <2>2. CASE Fail(b)
    <3>1. PICK s \in Statuses : SetStatus(u, s)
      BY <1>3, <2>2 DEF Fail, Statuses
    <3>2. Rest(b) BY <2>2 DEF Fail
    <3> QED BY <1>1, <3>1, <3>2 DEF SetStatus, Rest, NoJob, Row, Job
  <2> QED BY <2>1, <2>2
<1>6. ASSUME NEW v \in Uploads, v # u PROVE SettledAt(v)'
  <2>1. ~Imports(b, v)' /\ ~Tidying(b, v)'
    BY <1>5, <1>6 DEF Imports, Importing, AttemptSteps, Tidying
  <2>2. GoesOn(v) BY <1>5, <2>1, JobGoesOn
  <2> QED BY <1>5, <1>6, <2>2, StaysSettled DEF Settled, SameRow
<1>7. SettledAt(u)'
  <2>1. /\ \A w \in Runners : ~Analyses(w, u)'
        /\ \A a \in Backends \ {b} : ~Imports(a, u)' /\ ~Tidying(a, u)'
        /\ \A r \in Requests : ~AsksFor(r, u)'
    BY <1>4, <1>5 DEF Analyses, Imports, AsksFor, Analysing, Importing, InFlight,
                      Tidying
  <2>2. /\ ~Imports(b, u)'
        /\ Tidying(b, u)' => row'[u].status = "done"
    BY <1>5 DEF Imports, Importing, AttemptSteps, Tidying
  <2> QED BY <2>1, <2>2 DEF SettledAt
<1> QED BY <1>6, <1>7 DEF Settled

(* Maintenance starts only on quiet uploads that failed.                   *)
LEMMA MaintenanceSettled ==
  ASSUME TypeOK, Settled, Orderly, NEW b \in Backends, Maintenance(b)
  PROVE  Settled'
<1>1. job \in [Backends -> Job] BY DEF TypeOK, BackendTypeOK
<1>2. PICK expired \in SUBSET Uploads :
        Maintain(b, expired) /\ \A u \in expired : MayTouch(u)
  BY DEF Maintenance
<1>3. /\ job'[b].pc = "source"
      /\ job'[b].up \in expired
      /\ job'[b].list \subseteq expired
      /\ \A a \in Backends \ {b} : job'[a] = job[a]
      /\ row' = row
  BY <1>1, <1>2 DEF Maintain, NoJob, Job, store
<1>4. ASSUME NEW v \in Uploads PROVE SettledAt(v)'
  <2>1. CASE v \notin expired
    <3>1. GoesOn(v)
      BY <1>3, <2>1, JobGoesOn
      DEF Maintenance, Imports, Importing, AttemptSteps, Tidying
    <3> QED BY <1>3, <3>1, StaysSettled DEF Settled, SameRow
  <2>2. CASE v \in expired
    <3>1. row[v].status = "failed" /\ Quiet(v)
      BY <1>2, <2>2, OrderlyMeans DEF Maintain, MayTouch
    <3>2. /\ \A w \in Runners : ~Analyses(w, v)
          /\ \A a \in Backends : ~Imports(a, v)
      BY <3>1 DEF Settled, SettledAt, Working
    <3>3. \A r \in Requests : ~AsksFor(r, v) BY <3>1 DEF Quiet, AsksFor
    <3>4. /\ \A w \in Runners : ~Analyses(w, v)'
          /\ \A a \in Backends : ~Imports(a, v)'
          /\ \A r \in Requests : ~AsksFor(r, v)'
      BY <1>3, <3>2, <3>3
      DEF Maintenance, Analyses, Imports, AsksFor, Analysing, Importing, InFlight,
          AttemptSteps
    <3> QED BY <1>3, <3>1, <3>4 DEF SettledAt
  <2> QED BY <2>1, <2>2
<1> QED BY <1>4 DEF Settled

(* The steps that leave everybody where they are, as far as SettledAt is   *)
(* concerned.                                                              *)
LEMMA JobStepSettled ==
  ASSUME TypeOK, Settled, Orderly, NEW b \in Backends, UNCHANGED <<run, req>>,
         \/ \E i \in Items : RemoveItem(b, i) \/ CreateItem(b, i)
         \/ ForgetItems(b) \/ Load(b) \/ RecordItem(b) \/ CreateFails(b)
         \/ (FinishDone(b) \/ Fail(b)) /\ row' = row
         \/ RemoveParts(b) \/ RemoveSource(b) \/ RecordRemoval(b) \/ JobCrash(b)
  PROVE  Settled'
<1> USE DEF To, Fails
<1>1. job \in [Backends -> Job] /\ row \in [Uploads -> Row]
  BY DEF TypeOK, BackendTypeOK, StoreTypeOK
<1>2. ASSUME NEW v \in Uploads PROVE SameRow(v) BY <1>2, JobStepRows
<1> DEFINE OnTo(pcs) == /\ job'[b].pc \in pcs
                        /\ job'[b].up = job[b].up
                        /\ job'[b].attempt = job[b].attempt
                        /\ job'[b].list = job[b].list
<1>3. /\ \A a \in Backends \ {b} : job'[a] = job[a]
      /\ \/ job'[b].pc = "idle"
         \/ Importing(b) /\ OnTo(AttemptSteps)
         \/ job[b].pc \in {"parts", "source"} /\ OnTo({"source", "stamp"})
         \/ /\ job[b].pc \in {"source", "stamp"}
            /\ job'[b].pc = "source"
            /\ job'[b].up \in job[b].list
            /\ job'[b].list \subseteq job[b].list
  <2> USE <1>1 DEF Importing, AttemptSteps, Job
  <2>a. ASSUME AfterSource(b)
        PROVE  /\ \A a \in Backends \ {b} : job'[a] = job[a]
               /\ \/ job'[b].pc = "idle"
                  \/ /\ job'[b].pc = "source"
                     /\ job'[b].up \in job[b].list
                     /\ job'[b].list \subseteq job[b].list
    <3>1. CASE Rest(b) BY <3>1 DEF Rest, NoJob
    <3>2. CASE ~Rest(b)
      <4>1. PICK u \in job[b].list :
              job' = [job EXCEPT ![b].pc = "source", ![b].up = u,
                                 ![b].list = job[b].list \ {u}]
        BY <2>a, <3>2 DEF AfterSource
      <4> QED BY <4>1
    <3> QED BY <3>1, <3>2
  <2>1. CASE \E i \in Items : RemoveItem(b, i) BY <2>1 DEF RemoveItem
  <2>2. ASSUME NEW i \in Items, CreateItem(b, i)
        PROVE  /\ \A a \in Backends \ {b} : job'[a] = job[a]
               /\ Importing(b) /\ OnTo(AttemptSteps)
    <3>1. job[b].pc = "creating" BY <2>2 DEF CreateItem
    <3>2. CASE To(b, "undoing") BY <3>1, <3>2
    <3>3. CASE ~To(b, "undoing")
      <4>1. PICK ids, todo : job' = [job EXCEPT ![b].pc = "recording",
                                                ![b].ids = ids, ![b].todo = todo]
        BY <2>2, <3>3 DEF CreateItem
      <4> QED BY <3>1, <4>1
    <3> QED BY <3>2, <3>3
  <2>3. CASE ForgetItems(b) BY <2>3 DEF ForgetItems
  <2>4. CASE Load(b) BY <2>4 DEF Load
  <2>5. CASE RecordItem(b) BY <2>5 DEF RecordItem
  <2>6. CASE CreateFails(b) BY <2>6 DEF CreateFails
  <2>7. CASE FinishDone(b) /\ row' = row
    <3>1. Fails(b, FALSE)
      <4>1. ASSUME SetStatus(job[b].up, "done") PROVE FALSE
        <5>1. Importing(b) BY <2>7 DEF FinishDone
        <5>2. PICK u \in Uploads : u = job[b].up /\ row[u].status = Working
          BY <5>1, ImportAlone
        <5>3. row'[u].status = "done"
          BY <4>1, <5>2 DEF SetStatus, Working, Row
        <5> QED BY <2>7, <5>2, <5>3 DEF Working
      <4> QED BY <2>7, <4>1, OrderlyMeans DEF FinishDone
    <3> QED BY <2>7, <3>1 DEF FinishDone
  <2>8. CASE Fail(b) BY <2>8 DEF Fail, Rest, NoJob
  <2>9. CASE RemoveParts(b) BY <2>9 DEF RemoveParts
  <2>10. CASE RemoveSource(b)
    BY <2>10, <2>a DEF RemoveSource
  <2>11. CASE RecordRemoval(b)
    BY <2>11, <2>a DEF RecordRemoval
  <2>12. CASE JobCrash(b) BY <2>12 DEF JobCrash, Rest, NoJob
  <2> QED BY <2>1, <2>2, <2>3, <2>4, <2>5, <2>6, <2>7, <2>8, <2>9, <2>10, <2>11,
             <2>12
<1>4. ASSUME NEW v \in Uploads PROVE GoesOn(v)
  <2>1. Imports(b, v)' => /\ Imports(b, v)
                          /\ job'[b].attempt = job[b].attempt
                          /\ job'[b].list = job[b].list
    BY <1>3 DEF Imports, Importing, AttemptSteps
  <2>2. Tidying(b, v)' => Tidying(b, v)
    BY <1>3 DEF Tidying, AttemptSteps, Importing
  <2> QED BY <1>3, <2>1, <2>2, JobGoesOn
<1> QED BY <1>2, <1>4, StaysSettled DEF Settled

(* Every step of a backend leaves every upload settled.                    *)
LEMMA BackendSettled ==
  ASSUME TypeOK, Settled, Orderly, NEW b \in Backends,
         \/ BackendStep(b) \/ Maintenance(b)
         \/ JobCrash(b) /\ UNCHANGED <<run, req>>
  PROVE  Settled'
<1>1. CASE JobClaims(b) /\ UNCHANGED <<run, req>> BY <1>1, JobClaimSettled
<1>2. CASE (FinishDone(b) \/ Fail(b)) /\ UNCHANGED <<run, req>>
  BY <1>2, FinishSettled, JobStepSettled
<1>3. CASE Maintenance(b) BY <1>3, MaintenanceSettled
<1> QED BY <1>1, <1>2, <1>3, JobStepSettled DEF BackendStep, JobStep

-----------------------------------------------------------------------------
(* Steps of a request, of time and of housekeeping.                        *)

(* A request that goes on with its upload, or ends, brings nobody to any.  *)
LEMMA RequestGoesOn ==
  ASSUME NEW r \in Requests, NEW u \in Uploads, UNCHANGED <<run, job>>,
         \A q \in Requests \ {r} : req'[q] = req[q],
         AsksFor(r, u)' => AsksFor(r, u)
  PROVE  GoesOn(u)
  BY DEF GoesOn, Analyses, Imports, AsksFor, Analysing, Importing, InFlight, Tidying

(* A request that judged a row ended, or goes on with an upload at rest.   *)
LEMMA JudgeSteps ==
  ASSUME req \in [Requests -> Req], NEW r \in Requests, NEW u, NEW raced,
         Judge(r, u, raced)
  PROVE  /\ \A q \in Requests \ {r} : req'[q] = req[q]
         /\ \/ req'[r].pc = "end"
            \/ /\ req'[r].up = u
               /\ row[u].status \in {"failed", "done"}
<1>1. CASE Ends(r) BY <1>1 DEF Ends, NoReq, Req
<1>2. CASE row[u].status = "failed" /\ ~Ends(r)
  <2>1. PICK pc, x : req' = [req EXCEPT ![r].pc = pc, ![r].up = u, ![r].raced = x]
    BY <1>2 DEF Judge
  <2> QED BY <1>2, <2>1 DEF Req
<1>3. CASE row[u].status = "done" /\ ~Ends(r)
  <2>1. req' = [req EXCEPT ![r].pc = "checking", ![r].up = u,
                           ![r].ids = row[u].created, ![r].gone = row[u].gone,
                           ![r].fresh = FALSE, ![r].raced = raced]
    BY <1>3 DEF Judge
  <2> QED BY <1>3, <2>1 DEF Req
<1> QED BY <1>1, <1>2, <1>3 DEF Judge

(* A request takes up only a quiet upload that is not being processed.     *)
LEMMA ArrivalSettled ==
  ASSUME TypeOK, Settled, Orderly, NEW r \in Requests, RequestArrives(r)
  PROVE  Settled'
<1>1. req \in [Requests -> Req] BY DEF TypeOK, ApiTypeOK
<1>2. PICK u \in Uploads : MayTouch(u) /\ Find(r, u) BY DEF RequestArrives
<1>3. row' = row BY <1>2 DEF Find, store
<1>4. /\ \A q \in Requests \ {r} : req'[q] = req[q]
      /\ \/ req'[r].pc = "end"
         \/ /\ req'[r].up = u
            /\ row[u].status \in {"none", "failed", "done"}
  <2>1. CASE Judge(r, u, FALSE) BY <1>1, <2>1, JudgeSteps
  <2>2. CASE ~Judge(r, u, FALSE)
    <3>1. /\ row[u].status = "none"
          /\ req' = [req EXCEPT ![r].pc = "putting", ![r].up = u, ![r].fresh = TRUE]
      BY <1>2, <2>2 DEF Find
    <3> QED BY <1>1, <3>1 DEF Req
  <2> QED BY <2>1, <2>2
<1>5. ASSUME NEW v \in Uploads, ~AsksFor(r, v)' PROVE SettledAt(v)'
  <2>1. GoesOn(v) BY <1>4, <1>5, RequestGoesOn DEF RequestArrives
  <2> QED BY <1>3, <2>1, StaysSettled DEF Settled, SameRow
<1>6. ASSUME AsksFor(r, u)' PROVE SettledAt(u)'
  <2>1. row[u].status \in {"none", "failed", "done"}
    BY <1>4, <1>6 DEF AsksFor, InFlight
  <2>2. Quiet(u) BY <1>2, OrderlyMeans DEF MayTouch
  <2>3. /\ \A w \in Runners : ~Analyses(w, u)
        /\ \A b \in Backends : ~Imports(b, u)
    BY <2>1 DEF Settled, SettledAt, Working
  <2>4. /\ \A b \in Backends : ~Tidying(b, u)
        /\ \A q \in Requests : ~AsksFor(q, u)
    BY <2>2 DEF Quiet, AsksFor
  <2>5. /\ \A w \in Runners : ~Analyses(w, u)'
        /\ \A b \in Backends : ~Imports(b, u)' /\ ~Tidying(b, u)'
        /\ \A q \in Requests \ {r} : ~AsksFor(q, u)'
    BY <1>4, <2>3, <2>4
    DEF RequestArrives, Analyses, Imports, AsksFor, Analysing, Importing,
        InFlight, Tidying
  <2> QED BY <1>3, <2>1, <2>5 DEF SettledAt
<1> QED BY <1>4, <1>5, <1>6 DEF Settled, AsksFor, InFlight

(* Every step of a request after its first leaves every upload settled.    *)
LEMMA RequestSettled ==
  ASSUME TypeOK, Settled, NEW r \in Requests, RequestRuns(r)
  PROVE  Settled'
<1>1. req \in [Requests -> Req] /\ row \in [Uploads -> Row]
  BY DEF TypeOK, ApiTypeOK, StoreTypeOK
<1>2. PICK u \in Uploads : u = req[r].up BY <1>1 DEF Req
<1>3. /\ InFlight(r)
      /\ \A q \in Requests \ {r} : req'[q] = req[q]
      /\ InFlight(r)' => req'[r].up = req[r].up
      /\ \A v \in Uploads \ {u} : row'[v] = row[v]
      /\ SameRow(u) \/ ~InFlight(r)'
  <2> USE <1>1, <1>2 DEF InFlight, RequestRuns, SameRow, Req, Ends, NoReq, store
  <2>1. CASE CheckItems(r) BY <2>1 DEF CheckItems
  <2>2. CASE Put(r) BY <2>2 DEF Put
  <2>3. CASE Insert(r) BY <2>3 DEF Insert
  <2>4. CASE FindRaced(r)
    <3>1. CASE Judge(r, u, TRUE) BY <2>4, <3>1, JudgeSteps DEF FindRaced
    <3>2. CASE ~Judge(r, u, TRUE) BY <2>4, <3>2 DEF FindRaced
    <3> QED BY <3>1, <3>2
  <2>5. CASE Requeue(r) BY <2>5 DEF Requeue
  <2>6. CASE RequestFails(r) BY <2>6 DEF RequestFails
  <2> QED BY <2>1, <2>2, <2>3, <2>4, <2>5, <2>6 DEF RequestStep
<1>4. ASSUME NEW v \in Uploads PROVE GoesOn(v)
  BY <1>3, RequestGoesOn DEF RequestRuns, AsksFor
<1>5. ASSUME NEW v \in Uploads, v # u \/ SameRow(u) PROVE SettledAt(v)'
  BY <1>3, <1>4, <1>5, StaysSettled DEF Settled, SameRow
<1>6. ASSUME ~InFlight(r)' PROVE SettledAt(u)'
  <2>1. SettledAt(u) /\ AsksFor(r, u) BY <1>2, <1>3 DEF Settled, AsksFor
  <2>2. /\ \A w \in Runners : ~Analyses(w, u)
        /\ \A b \in Backends : ~Imports(b, u) /\ ~Tidying(b, u)
        /\ \A q \in Requests \ {r} : ~AsksFor(q, u)
    BY <2>1 DEF SettledAt, Working
  <2>3. Free(u)'
    BY <1>3, <1>6, <2>2
    DEF Free, RequestRuns, Analyses, Imports, AsksFor, Analysing, Importing,
        InFlight, Tidying
  <2> QED BY <2>3, FreeIsSettled
<1> QED BY <1>3, <1>5, <1>6 DEF Settled

(* So do passing time, pruning, users and crashes of Rust runners.         *)
LEMMA WorldSettled ==
  ASSUME TypeOK, Settled, Orderly,
         \/ \E u \in Uploads : TimePasses(u) \/ RowPruned(u)
         \/ ItemDeleted
         \/ \E w \in Runners : RunnerCrash(w) /\ UNCHANGED <<job, req>>
         \/ UNCHANGED vars
  PROVE  Settled'
<1>1. run \in [Runners -> Run] /\ row \in [Uploads -> Row]
  BY DEF TypeOK, RunnerTypeOK, StoreTypeOK
<1>2. ASSUME NEW u \in Uploads, TimePasses(u) \/ RowPruned(u) PROVE Settled'
  <2>1. Free(u)
    <3>1. CASE TimePasses(u)
      <4>1. ~Attempted(u) /\ row[u].status \in {"running", "materializing"}
        BY <3>1, OrderlyMeans DEF TimePasses, GoStale
      <4> QED BY <4>1 DEF Settled, SettledAt, Free, Attempted, Analyses, Imports
    <3>2. CASE RowPruned(u)
      <4>1. Quiet(u) /\ row[u].status = "failed"
        BY <3>2, OrderlyMeans DEF RowPruned, Prune, MayTouch
      <4> QED BY <4>1 DEF Settled, SettledAt, Free, Quiet, AsksFor, Working
    <3> QED BY <1>2, <3>1, <3>2
  <2>2. \A v \in Uploads : GoesOn(v)
    BY <1>2 DEF TimePasses, RowPruned, GoesOn, Analyses, Imports, AsksFor, Analysing,
                Importing, InFlight, Tidying
  <2>3. \A v \in Uploads : v # u => SameRow(v)
    BY <1>1, <1>2 DEF TimePasses, RowPruned, GoStale, Prune, SameRow, Row
  <2> QED BY <2>1, <2>2, <2>3, StaysSettled, StaysFree, FreeIsSettled DEF Settled
<1>3. ASSUME row' = row, \A v \in Uploads : GoesOn(v) PROVE Settled'
  BY <1>3, StaysSettled DEF Settled, SameRow
<1>4. CASE ItemDeleted
  BY <1>3, <1>4 DEF ItemDeleted, UserDeletes, GoesOn, Analyses, Imports, AsksFor,
                    Analysing, Importing, InFlight, Tidying
<1>5. ASSUME NEW w \in Runners, RunnerCrash(w), UNCHANGED <<job, req>>
      PROVE  Settled'
  <2>1. run'[w].pc = "idle" /\ \A v \in Runners \ {w} : run'[v] = run[v]
    BY <1>1, <1>5 DEF RunnerCrash, Idle, NoRun
  <2>2. \A v \in Uploads : GoesOn(v) BY <1>5, <2>1, RunnerGoesOn
  <2> QED BY <1>3, <1>5, <2>2 DEF RunnerCrash, store
<1>6. CASE UNCHANGED vars
  BY <1>3, <1>6 DEF vars, GoesOn, Analyses, Imports, AsksFor, Analysing, Importing,
                    InFlight, Tidying
<1> QED BY <1>2, <1>4, <1>5, <1>6

(* Every step of the pipeline leaves every upload settled.                 *)
LEMMA StepSettled ==
  ASSUME TypeOK, Settled, Orderly, [Next]_vars
  PROVE  Settled'
  BY RunnerSettled, BackendSettled, ArrivalSettled, RequestSettled, WorldSettled
  DEF Next, ProcessDies

-----------------------------------------------------------------------------
(* The counts of attempts.                                                 *)

CountAt(u) ==
  /\ row[u].attempts <= MaxAttempts
  /\ row[u].tries <= MaxAttempts
  /\ row[u].status = "queued" => row[u].attempts < MaxAttempts
  /\ row[u].status = "analysed" => row[u].tries < MaxAttempts
  /\ row[u].status \in {"queued", "running"} => row[u].tries = 0

(* The counts of an upload that is left alone, or ends, stay below the     *)
(* limits.                                                                 *)
LEMMA CountStays ==
  ASSUME NEW u \in Uploads, CountAt(u),
         \/ SameRow(u)
         \/ /\ row'[u].status \in {"failed", "done"}
            /\ row'[u].attempts = row[u].attempts
            /\ row'[u].tries = row[u].tries
  PROVE  CountAt(u)'
  BY DEF CountAt, SameRow

(* A claim takes only an upload that has an attempt left.                  *)
LEMMA ClaimCounts ==
  ASSUME TypeOK, CountsBelow, NEW u \in Uploads,
         ClaimNextCadUpload(u) \/ ClaimNextAnalysedUpload(u)
  PROVE  CountsBelow'
<1>1. \A v \in Uploads : CountAt(v) BY DEF CountsBelow, CountAt
<1>2. row[u].attempts \in Nat /\ row[u].tries \in Nat /\ MaxAttempts \in Nat \ {0}
  BY StoreAssumption DEF TypeOK, StoreTypeOK, Row
<1>3. ASSUME NEW v \in Uploads, v # u PROVE CountAt(v)'
  BY <1>1, <1>3, CountStays, CadClaimOthers, AnalysedClaimOthers
<1>4. CountAt(u)'
  <2>1. CASE ClaimNextCadUpload(u)
    <3>1. /\ row[u].tries = 0
          /\ row[u].attempts < MaxAttempts
          /\ row'[u].status = "running"
          /\ row'[u].attempts = row[u].attempts + 1
          /\ row'[u].tries = row[u].tries
      BY <1>1, <2>1, CadClaimRows DEF CountAt
    <3> QED BY <1>2, <3>1 DEF CountAt
  <2>2. CASE ClaimNextAnalysedUpload(u)
    <3>1. /\ row[u].attempts <= MaxAttempts
          /\ row[u].tries < MaxAttempts
          /\ row'[u].status = "materializing"
          /\ row'[u].attempts = row[u].attempts
          /\ row'[u].tries = row[u].tries + 1
      BY <1>1, <2>2, AnalysedClaimRows DEF CountAt
    <3> QED BY <1>2, <3>1 DEF CountAt
  <2> QED BY <2>1, <2>2
<1> QED BY <1>3, <1>4 DEF CountsBelow, CountAt

(* A sweep changes no count.                                               *)
LEMMA SweepCounts ==
  ASSUME TypeOK, CountsBelow, SweepAnalysedUploads \/ SweepCadUploads
  PROVE  CountsBelow'
<1>1. \A v \in Uploads : CountAt(v)' BY SweepRows, CountStays DEF CountsBelow, CountAt
<1> QED BY <1>1 DEF CountsBelow, CountAt

(* Rows that stay keep their counts.                                       *)
LEMMA SameCounts ==
  ASSUME CountsBelow, \A v \in Uploads : SameRow(v)
  PROVE  CountsBelow'
<1>1. \A v \in Uploads : CountAt(v)' BY CountStays DEF CountsBelow, CountAt
<1> QED BY <1>1 DEF CountsBelow, CountAt

(* A Rust runner puts its row back only if an attempt is left.             *)
LEMMA RunnerCounts ==
  ASSUME TypeOK, SafetyInv, Orderly, NEW w \in Runners, CadRunnerStep(w)
  PROVE  CountsBelow' /\ RetriesBelow'
<1>0. /\ CountsBelow /\ RetriesBelow /\ RunsOwn
      /\ run \in [Runners -> Run] /\ row \in [Uploads -> Row]
      /\ RunnerStep(w)
  BY DEF SafetyInv, TypeOK, RunnerTypeOK, StoreTypeOK, CadRunnerStep
<1>1. CountsBelow'
  <2>1. CASE RunnerClaims(w)
    BY <1>0, <2>1, ClaimCounts, SweepCounts DEF RunnerClaims
  <2>2. CASE row' = row BY <1>0, <2>2, SameCounts DEF SameRow
  <2>3. CASE row' # row /\ ~RunnerClaims(w)
    <3>1. PICK u \in Uploads : u = run[w].up BY <1>0 DEF Run
    <3>2. Analysing(w) /\ (MarkAnalysed(u) \/ MarkFailed(u, run[w].retry))
      BY <1>0, <2>3, <3>1
      DEF RunnerStep, Download, Analyse, PartNotReturned, StorePart, CleanPart,
          FinishAnalysed, EndCleanup, FinishFailed, store, Analysing
    <3>3. /\ row[u].status = "running"
          /\ row[u].tries = 0
          /\ row[u].attempts <= MaxAttempts
          /\ run[w].retry => row[u].attempts < MaxAttempts
      BY <1>0, <3>1, <3>2 DEF RunsOwn, CountsBelow, RetriesBelow
    <3>4. /\ \A v \in Uploads : v # u => SameRow(v)
          /\ row'[u].attempts = row[u].attempts
          /\ row'[u].tries = row[u].tries
          /\ \/ row'[u].status \in {"analysed", "failed"}
             \/ row'[u].status = "queued" /\ run[w].retry
      BY <1>0, <3>2 DEF MarkAnalysed, MarkFailed, SameRow, Row
    <3>5. MaxAttempts \in Nat \ {0} /\ row[u].attempts \in Nat
      BY <1>0, StoreAssumption DEF Row
    <3>6. CountAt(u)' BY <3>3, <3>4, <3>5 DEF CountAt
    <3>7. \A v \in Uploads : CountAt(v)'
      BY <1>0, <3>4, <3>6, CountStays DEF CountsBelow, CountAt
    <3> QED BY <3>7 DEF CountsBelow, CountAt
  <2> QED BY <2>1, <2>2, <2>3
<1>2. RetriesBelow' BY <1>0, RunnerRetries
<1> QED BY <1>1, <1>2

(* So does a backend.                                                      *)
LEMMA BackendCounts ==
  ASSUME TypeOK, SafetyInv, Settled, NEW b \in Backends,
         \/ BackendStep(b) \/ Maintenance(b)
         \/ JobCrash(b) /\ UNCHANGED <<run, req>>
  PROVE  CountsBelow' /\ RetriesBelow'
<1>0. /\ CountsBelow /\ RetriesBelow /\ JobsOwn
      /\ job \in [Backends -> Job] /\ row \in [Uploads -> Row]
  BY DEF SafetyInv, TypeOK, BackendTypeOK, StoreTypeOK
<1>1. RetriesBelow'
  BY <1>0 DEF RetriesBelow, BackendStep, Maintenance
<1>2. CASE JobClaims(b)
  BY <1>0, <1>1, <1>2, ClaimCounts, SweepCounts DEF JobClaims
<1>3. CASE row' = row BY <1>0, <1>1, <1>3, SameCounts DEF SameRow
<1>4. CASE row' # row /\ (FinishDone(b) \/ Fail(b))
  <2>1. Importing(b) BY <1>4 DEF FinishDone, Fail, Importing, AttemptSteps
  <2>2. PICK u \in Uploads : u = job[b].up BY <2>1, ImportAlone
  <2>3. /\ row[u].status = Working
        /\ Begun(u) = job[b].attempt
        /\ CountAt(u)
    BY <1>0, <2>1, <2>2, ImportAlone DEF CountsBelow, CountAt
  <2>4. PICK s \in Statuses :
          /\ SetStatus(u, s)
          /\ \/ s \in {"failed", "done"}
             \/ /\ s = IF RustCore THEN "analysed" ELSE "queued"
                /\ job[b].attempt < MaxAttempts
    BY <1>4, <2>2 DEF FinishDone, Fail, Statuses
  <2>5. /\ \A v \in Uploads : v # u => SameRow(v)
        /\ row'[u].attempts = row[u].attempts
        /\ row'[u].tries = row[u].tries
        /\ row'[u].status = s
    BY <1>0, <2>3, <2>4 DEF SetStatus, SameRow, Row, Working
  <2>6. CountAt(u)'
    BY <2>3, <2>4, <2>5 DEF CountAt, Working, Begun
  <2>7. \A v \in Uploads : CountAt(v)'
    BY <1>0, <2>5, <2>6, CountStays DEF CountsBelow, CountAt
  <2> QED BY <1>1, <2>7 DEF CountsBelow, CountAt
<1>5. CASE row' # row /\ ~JobClaims(b) /\ ~FinishDone(b) /\ ~Fail(b)
  <2>1. \A v \in Uploads : SameRow(v)
    BY <1>5, JobStepRows DEF BackendStep, JobStep, Maintenance, Maintain, store
  <2> QED BY <1>0, <1>1, <2>1, SameCounts
<1> QED BY <1>2, <1>3, <1>4, <1>5

(* Nobody else adds an attempt; a request sets the counts to zero.         *)
LEMMA OtherCounts ==
  ASSUME TypeOK, SafetyInv,
         \/ \E r \in Requests : RequestArrives(r) \/ RequestRuns(r)
         \/ \E u \in Uploads : TimePasses(u) \/ RowPruned(u)
         \/ ItemDeleted
         \/ \E w \in Runners : RunnerCrash(w) /\ UNCHANGED <<job, req>>
         \/ UNCHANGED vars
  PROVE  CountsBelow' /\ RetriesBelow'
<1>0. /\ CountsBelow /\ RetriesBelow
      /\ row \in [Uploads -> Row] /\ run \in [Runners -> Run]
      /\ MaxAttempts \in Nat \ {0}
  BY StoreAssumption DEF SafetyInv, TypeOK, StoreTypeOK, RunnerTypeOK
<1>1. RetriesBelow'
  <2>1. CASE run' = run BY <1>0, <2>1 DEF RetriesBelow
  <2>2. ASSUME NEW w \in Runners, RunnerCrash(w) PROVE RetriesBelow'
    BY <1>0, <2>2 DEF RunnerCrash, Idle, NoRun, Run, RetriesBelow
  <2> QED BY <2>1, <2>2 DEF RequestArrives, RequestRuns, TimePasses, RowPruned,
                            ItemDeleted, vars
<1>2. CASE row' = row BY <1>0, <1>1, <1>2, SameCounts DEF SameRow
<1>3. CASE row' # row
  <2>1. PICK u \in Uploads :
          /\ \A v \in Uploads : v # u => SameRow(v)
          /\ \/ /\ row'[u].attempts = 0
                /\ row'[u].tries = 0
             \/ /\ row'[u].status = row[u].status
                /\ row'[u].attempts = row[u].attempts
                /\ row'[u].tries = row[u].tries
    BY <1>3, OtherRows
  <2>2. CountAt(u)' BY <1>0, <2>1 DEF CountsBelow, CountAt
  <2>3. \A v \in Uploads : CountAt(v)'
    BY <1>0, <2>1, <2>2, CountStays DEF CountsBelow, CountAt
  <2> QED BY <1>1, <2>3 DEF CountsBelow, CountAt
<1> QED BY <1>2, <1>3

-----------------------------------------------------------------------------
(* The stored parts.                                                       *)

(* A step that takes no part away and starts no attempt.                   *)
LEMMA PartsStay ==
  ASSUME TypeOK, PartsKept,
         \A u \in Uploads : parts[u] \subseteq parts'[u],
         \A u \in Uploads :
           row'[u].status \in {"analysed", "materializing"} =>
             \/ row[u].status \in {"analysed", "materializing"}
             \/ Parts \subseteq parts'[u],
         \A w \in Runners : Analysing(w)' =>
           \/ run'[w] = run[w]
           \/ run'[w].stored = {}
           \/ /\ Analysing(w)
              /\ run'[w].up = run[w].up
              /\ run'[w].stored \subseteq parts'[run[w].up]
  PROVE  PartsKept'
<1>1. \A u \in Uploads : row'[u].status \in {"analysed", "materializing"}
                           => Parts \subseteq parts'[u]
  BY DEF PartsKept
<1>2. \A w \in Runners : run[w].up \in Uploads
  BY DEF TypeOK, RunnerTypeOK, Run
<1>3. ASSUME NEW w \in Runners, Analysing(w)'
      PROVE  run'[w].stored \subseteq parts'[run'[w].up]
  <2>1. CASE run'[w] = run[w]
    <3>1. Analysing(w) BY <1>3, <2>1 DEF Analysing
    <3> QED BY <1>2, <2>1, <3>1 DEF PartsKept
  <2>2. CASE run'[w] # run[w] BY <1>3, <2>2
  <2> QED BY <2>1, <2>2
<1> QED BY <1>1, <1>3 DEF PartsKept

(* A Rust runner hands over an upload with its parts, and cleans up only   *)
(* what is not handed over.                                                *)
LEMMA RunnerParts ==
  ASSUME TypeOK, SafetyInv, Settled, Orderly, NEW w \in Runners, CadRunnerStep(w)
  PROVE  PartsKept'
<1>0. /\ PartsKept /\ RunsOwn /\ RunnerStep(w)
      /\ run \in [Runners -> Run] /\ row \in [Uploads -> Row]
      /\ parts \in [Uploads -> SUBSET Parts]
  BY DEF SafetyInv, TypeOK, RunnerTypeOK, StoreTypeOK, CadRunnerStep
<1>1. PICK u \in Uploads : u = run[w].up BY <1>0 DEF Run
<1>2. CASE RunnerClaims(w)
  <2>1. \A v \in Uploads : row'[v].status \in {"analysed", "materializing"}
                             => row[v].status \in {"analysed", "materializing"}
    BY <1>2, CadClaimRows, CadClaimOthers, SweepRows DEF RunnerClaims, SameRow
  <2>2. \A v \in Runners : run'[v] = run[v] \/ run'[v].stored = {}
    BY <1>0, <1>2 DEF RunnerClaims, NoRun
  <2>3. parts' = parts BY <1>2 DEF RunnerClaims
  <2> QED BY <1>0, <2>1, <2>2, <2>3, PartsStay
<1>3. ASSUME NEW p \in Parts, CleanPart(w, p) PROVE PartsKept'
  <2>1. /\ Analysing(w)
        /\ row[u].status = "running"
        /\ row' = row
        /\ \A v \in Uploads \ {u} : parts'[v] = parts[v]
        /\ parts'[u] = parts[u] \ {p}
        /\ \A v \in Runners \ {w} : run'[v] = run[v]
        /\ run'[w].up = u /\ run'[w].stored = run[w].stored \ {p}
    BY <1>0, <1>1, <1>3 DEF CleanPart, RunsOwn, Analysing, Run
  <2>2. \A v \in Runners \ {w} : Analysing(v) => run[v].up # u
    BY <1>1, <2>1 DEF SafetyInv, OneAttempt
  <2>3. \A v \in Uploads : row'[v].status \in {"analysed", "materializing"}
                             => Parts \subseteq parts'[v]
    BY <1>0, <2>1 DEF PartsKept
  <2>4. ASSUME NEW v \in Runners, Analysing(v)'
        PROVE  run'[v].stored \subseteq parts'[run'[v].up]
    <3>1. CASE v = w BY <1>0, <1>1, <2>1, <3>1 DEF PartsKept
    <3>2. CASE v # w
      <4>1. Analysing(v) /\ run'[v] = run[v] BY <2>1, <2>4, <3>2 DEF Analysing
      <4>2. run[v].up # u /\ run[v].up \in Uploads
        BY <1>0, <2>2, <3>2, <4>1 DEF Run
      <4> QED BY <1>0, <2>1, <4>1, <4>2 DEF PartsKept
    <3> QED BY <3>1, <3>2
  <2> QED BY <2>3, <2>4 DEF PartsKept
<1>4. ASSUME NEW p \in Parts, StorePart(w, p) PROVE PartsKept'
  <2>1. /\ Analysing(w)
        /\ row' = row
        /\ \A v \in Uploads : parts[v] \subseteq parts'[v]
        /\ \A v \in Runners \ {w} : run'[v] = run[v]
        /\ run'[w].up = u
        /\ \/ run'[w].stored = run[w].stored
           \/ run'[w].stored = run[w].stored \cup {p} /\ p \in parts'[u]
    BY <1>0, <1>1, <1>4, OrderlyMeans DEF StorePart, Cleanup, Analysing, Run
  <2>2. run[w].stored \subseteq parts[u] BY <1>0, <1>1, <2>1 DEF PartsKept
  <2> QED BY <1>0, <1>1, <2>1, <2>2, PartsStay
<1>5. CASE FinishAnalysed(w) /\ MarkAnalysed(u)
  <2>1. /\ Analysing(w)
        /\ run[w].stored = Parts
        /\ parts' = parts
        /\ Idle(w)
        /\ \A v \in Uploads \ {u} : row'[v] = row[v]
    <3>1. row[u].status = "running" /\ row'[u].status = "analysed"
      BY <1>0, <1>5 DEF MarkAnalysed, Row
    <3> QED BY <1>0, <1>1, <1>5, <3>1, OrderlyMeans
        DEF FinishAnalysed, MarkAnalysed, Analysing
  <2>2. Parts \subseteq parts[u] BY <1>0, <1>1, <2>1 DEF PartsKept
  <2>3. \A v \in Runners : run'[v] = run[v] \/ run'[v].stored = {}
    BY <1>0, <2>1 DEF Idle, NoRun
  <2> QED BY <1>0, <2>1, <2>2, <2>3, PartsStay
<1>6. CASE ~RunnerClaims(w) /\ ~MarkAnalysed(u)
           /\ \A p \in Parts : ~CleanPart(w, p) /\ ~StorePart(w, p)
  <2>1. /\ parts' = parts
        /\ \A v \in Runners \ {w} : run'[v] = run[v]
        /\ \/ run'[w].pc = "idle"
           \/ /\ Analysing(w)
              /\ run'[w].up = run[w].up
              /\ run'[w].stored = run[w].stored
        /\ \A v \in Uploads : \/ row'[v].status = row[v].status
                              \/ row'[v].status \in {"queued", "failed"}
    <3> USE <1>0, <1>1, <1>6 DEF Run, NoRun, Give, Idle, Analysing, store
    <3>1. CASE Download(w) BY <3>1 DEF Download
    <3>2. CASE Analyse(w) BY <3>2 DEF Analyse
    <3>3. CASE PartNotReturned(w) BY <3>3 DEF PartNotReturned
    <3>4. CASE FinishAnalysed(w) BY <3>4 DEF FinishAnalysed, Cleanup
    <3>5. CASE EndCleanup(w) BY <3>5 DEF EndCleanup
    <3>6. CASE FinishFailed(w) BY <3>6 DEF FinishFailed, MarkFailed, Row
    <3> QED BY <3>1, <3>2, <3>3, <3>4, <3>5, <3>6 DEF RunnerStep
  <2>2. Analysing(w) => run[w].stored \subseteq parts[run[w].up]
    BY <1>0 DEF PartsKept
  <2> QED BY <1>0, <2>1, <2>2, PartsStay DEF Analysing
<1>7. CASE MarkAnalysed(u) /\ ~RunnerClaims(w) /\ ~FinishAnalysed(w)
  <2>1. row[u].status = "running" /\ row'[u].status = "analysed"
    BY <1>0, <1>7 DEF MarkAnalysed, Row
  <2>2. FinishFailed(w)
    BY <1>0, <1>7, <2>1
    DEF RunnerStep, Download, Analyse, PartNotReturned, StorePart, CleanPart,
        EndCleanup, store
  <2>3. row'[u].status \in {"queued", "failed", "running"}
    BY <1>0, <1>1, <2>1, <2>2 DEF FinishFailed, MarkFailed, Row
  <2> QED BY <2>1, <2>3
<1> QED BY <1>2, <1>3, <1>4, <1>5, <1>6, <1>7

(* A backend removes parts only after the upload is done.                  *)
LEMMA BackendParts ==
  ASSUME TypeOK, SafetyInv, Settled, NEW b \in Backends,
         \/ BackendStep(b) \/ Maintenance(b)
         \/ JobCrash(b) /\ UNCHANGED <<run, req>>
  PROVE  PartsKept'
<1>0. /\ PartsKept /\ run' = run
      /\ run \in [Runners -> Run] /\ row \in [Uploads -> Row]
      /\ job \in [Backends -> Job] /\ parts \in [Uploads -> SUBSET Parts]
  BY DEF SafetyInv, TypeOK, RunnerTypeOK, BackendTypeOK, StoreTypeOK, BackendStep,
         Maintenance
<1>1. CASE RemoveParts(b) /\ parts' # parts
  <2>1. PICK u \in Uploads : u = job[b].up BY <1>0 DEF Job
  <2>2. Tidying(b, u) BY <1>1, <2>1 DEF RemoveParts, Tidying
  <2>3. /\ row[u].status \in {"failed", "done"}
        /\ \A w \in Runners : ~Analyses(w, u)
    BY <2>2 DEF Settled, SettledAt
  <2>4. row' = row /\ \A v \in Uploads \ {u} : parts'[v] = parts[v]
    BY <1>0, <1>1, <2>1 DEF RemoveParts
  <2>5. \A v \in Uploads : row'[v].status \in {"analysed", "materializing"}
                             => Parts \subseteq parts'[v]
    BY <1>0, <2>3, <2>4 DEF PartsKept
  <2>6. ASSUME NEW w \in Runners, Analysing(w)'
        PROVE  run'[w].stored \subseteq parts'[run'[w].up]
    <3>1. Analysing(w) BY <1>0, <2>6 DEF Analysing
    <3>2. run[w].up # u /\ run[w].up \in Uploads
      BY <1>0, <2>3, <3>1 DEF Analyses, Run
    <3> QED BY <1>0, <2>4, <3>1, <3>2 DEF PartsKept
  <2> QED BY <2>5, <2>6 DEF PartsKept
<1>2. CASE parts' = parts
  <2>1. \A v \in Uploads : row'[v].status \in {"analysed", "materializing"}
                             => row[v].status \in {"analysed", "materializing"}
    <3>1. CASE JobClaims(b)
      BY <3>1, CadClaimRows, CadClaimOthers, AnalysedClaimRows,
         AnalysedClaimOthers, SweepRows DEF JobClaims, SameRow
    <3>2. CASE FinishDone(b) \/ Fail(b)
      <4>1. Importing(b) BY <3>2 DEF FinishDone, Fail, Importing, AttemptSteps
      <4>2. PICK u \in Uploads : u = job[b].up /\ row[u].status = Working
        BY <4>1, ImportAlone
      <4>3. \/ row' = row
            \/ \E s \in {"done", "failed", IF RustCore THEN "analysed" ELSE "queued"} :
                 SetStatus(u, s)
        BY <3>2, <4>2 DEF FinishDone, Fail
      <4> QED BY <1>0, <4>2, <4>3 DEF SetStatus, Row, Working
    <3>3. CASE row' = row BY <3>3
    <3>4. CASE row' # row /\ ~JobClaims(b) /\ ~FinishDone(b) /\ ~Fail(b)
      BY <3>4, JobStepRows
      DEF BackendStep, JobStep, Maintenance, Maintain, store, SameRow
    <3> QED BY <3>1, <3>2, <3>3, <3>4
  <2> QED BY <1>0, <1>2, <2>1, PartsStay
<1>3. parts' = parts \/ RemoveParts(b)
  BY DEF BackendStep, Maintenance, Maintain, JobCrash, JobStep, JobClaims, RemoveItem,
         ForgetItems, Load, CreateItem, RecordItem, CreateFails, FinishDone, Fail,
         RemoveSource, RecordRemoval, store
<1> QED BY <1>1, <1>2, <1>3

(* Requests, time, pruning and users leave a status as it is, or make it   *)
(* queued or none.                                                         *)
LEMMA OtherStatuses ==
  ASSUME TypeOK, NEW x \in Uploads,
         \/ \E r \in Requests : RequestArrives(r) \/ RequestRuns(r)
         \/ \E u \in Uploads : TimePasses(u) \/ RowPruned(u)
         \/ ItemDeleted
         \/ \E w \in Runners : RunnerCrash(w) /\ UNCHANGED <<job, req>>
         \/ UNCHANGED vars
  PROVE  row'[x].status = row[x].status \/ row'[x].status \in {"none", "queued"}
<1>0. row \in [Uploads -> Row] BY DEF TypeOK, StoreTypeOK
<1>1. CASE row' = row BY <1>1
<1>2. ASSUME NEW u \in Uploads, TimePasses(u) \/ RowPruned(u)
      PROVE  \A v \in Uploads : \/ row'[v].status = row[v].status
                                \/ row'[v].status = "none"
  BY <1>0, <1>2 DEF TimePasses, RowPruned, GoStale, Prune, NoRow, Row
<1>3. ASSUME NEW r \in Requests, Insert(r) \/ Requeue(r)
      PROVE  \A v \in Uploads : \/ row'[v].status = row[v].status
                                \/ row'[v].status = "queued"
  <2>1. PICK u \in Uploads : u = req[r].up BY DEF TypeOK, ApiTypeOK, Req
  <2>2. CASE Insert(r) /\ row' # row
    <3>1. PICK older : row' = [row EXCEPT ![u] =
            [NoRow EXCEPT !.status = "queued", !.after = older]]
      BY <2>1, <2>2 DEF Insert
    <3> QED BY <1>0, <3>1 DEF NoRow
  <2>3. CASE Requeue(r) /\ row' # row
    <3>1. row' = [row EXCEPT ![u].status = "queued", ![u].attempts = 0,
                             ![u].tries = 0, ![u].gone = FALSE]
      BY <2>1, <2>3 DEF Requeue
    <3> QED BY <1>0, <3>1 DEF Row
  <2> QED BY <1>3, <2>2, <2>3
<1> QED BY <1>1, <1>2, <1>3
    DEF RequestArrives, RequestRuns, RequestStep, Find, CheckItems, Put,
        FindRaced, RequestFails, ItemDeleted, UserDeletes, RunnerCrash, vars, store

(* Nobody else removes parts, and a request meets no upload that needs     *)
(* them.                                                                   *)
LEMMA OtherParts ==
  ASSUME TypeOK, SafetyInv,
         \/ \E r \in Requests : RequestArrives(r) \/ RequestRuns(r)
         \/ \E u \in Uploads : TimePasses(u) \/ RowPruned(u)
         \/ ItemDeleted
         \/ \E w \in Runners : RunnerCrash(w) /\ UNCHANGED <<job, req>>
         \/ UNCHANGED vars
  PROVE  PartsKept'
<1>0. /\ PartsKept
      /\ row \in [Uploads -> Row] /\ run \in [Runners -> Run]
  BY DEF SafetyInv, TypeOK, StoreTypeOK, RunnerTypeOK
<1>1. parts' = parts
  BY DEF RequestArrives, RequestRuns, RequestStep, Find, CheckItems, Put, Insert,
         FindRaced, Requeue, RequestFails, TimePasses, GoStale, RowPruned, Prune,
         ItemDeleted, UserDeletes, RunnerCrash, vars, store
<1>2. \A w \in Runners : run'[w] = run[w] \/ run'[w].stored = {}
  BY <1>0 DEF RequestArrives, RequestRuns, TimePasses, RowPruned, ItemDeleted,
         RunnerCrash, Idle, NoRun, vars
<1>3. \A u \in Uploads : row'[u].status \in {"analysed", "materializing"}
                           => row[u].status \in {"analysed", "materializing"}
  BY OtherStatuses
<1> QED BY <1>0, <1>1, <1>2, <1>3, PartsStay

-----------------------------------------------------------------------------
(* The invariant, and what it gives.                                       *)

(* At the start nobody is at work and nothing is counted.                  *)
LEMMA SafetyInit == Init => SafetyInv
<1> SUFFICES ASSUME Init PROVE SafetyInv OBVIOUS
<1>1. /\ \A w \in Runners : run[w] = NoRun
      /\ \A b \in Backends : job[b] = NoJob
      /\ \A r \in Requests : req[r] = NoReq
      /\ \A u \in Uploads : row[u] = NoRow
  BY DEF Init, StoreInit, RunnerInit, BackendInit, ApiInit
<1>2. /\ \A w \in Runners : ~Analysing(w) /\ ~run[w].retry
      /\ \A b \in Backends : ~Importing(b) /\ \A u \in Uploads : ~Tidying(b, u)
      /\ \A r \in Requests : ~InFlight(r)
  BY <1>1 DEF NoRun, NoJob, NoReq, Analysing, Importing, AttemptSteps, InFlight,
              Tidying
<1>3. \A u \in Uploads : /\ row[u].status = "none"
                         /\ row[u].attempts = 0
                         /\ row[u].tries = 0
  BY <1>1 DEF NoRow
<1> QED BY <1>2, <1>3, StoreAssumption
    DEF SafetyInv, RunsOwn, JobsOwn, OneAttempt, RequestsAlone, TidiedAtRest,
        CountsBelow, RetriesBelow, PartsKept

(* SafetyInv is inductive, given the types.                                *)
LEMMA SafetyStep ==
  ASSUME TypeOK, SafetyInv, Orderly, [Next]_vars
  PROVE  SafetyInv'
<1>1. Settled BY HeldIsSettled DEF SafetyInv, Held
<1>2. Held'
  <2>1. TypeOK' BY TypeStep
  <2>2. Settled' BY <1>1, StepSettled
  <2>3. Held' <=> Settled' BY <2>1, HeldIsSettled, PTL
  <2> QED BY <2>2, <2>3
<1>3. CountsBelow' /\ RetriesBelow' /\ PartsKept'
  BY <1>1, RunnerCounts, BackendCounts, OtherCounts, RunnerParts, BackendParts,
     OtherParts DEF Next, ProcessDies
<1> QED BY <1>2, <1>3 DEF SafetyInv, Held

(* When no answer is lost, no attempt outlives its window and nothing      *)
(* overlaps, whoever works on a row finds it as its claim left it,         *)
(* whatever else fails and whoever crashes.                                *)
THEOREM SafetyCorrect == ASSUME Orderly PROVE Spec => [](TypeOK /\ SafetyInv)
<1>1. Init => TypeOK /\ SafetyInv BY TypeInit, SafetyInit
<1>2. TypeOK /\ SafetyInv /\ [Next]_vars => (TypeOK /\ SafetyInv)'
  BY TypeStep, SafetyStep
<1> QED BY <1>1, <1>2, PTL DEF Spec

(* No two attempts, of either kind of runner, are on one upload at a time. *)
THEOREM OneAttemptAtATime == ASSUME Orderly PROVE Spec => []OneAttempt
<1>1. SafetyInv => OneAttempt BY DEF SafetyInv
<1> QED BY <1>1, SafetyCorrect, PTL

(* An upload is begun at most MAX_ATTEMPTS times in each half.             *)
THEOREM AttemptsAreBounded == ASSUME Orderly PROVE Spec => []AttemptsBounded
<1>1. SafetyInv => AttemptsBounded
  BY DEF SafetyInv, CountsBelow, AttemptsBounded
<1> QED BY <1>1, SafetyCorrect, PTL

(* While an upload waits to be materialized, all its parts are stored.     *)
THEOREM AnalysedIsStored == ASSUME Orderly PROVE Spec => []AnalysedHasParts
<1>1. TypeOK /\ SafetyInv => AnalysedHasParts
  BY DEF SafetyInv, PartsKept, AnalysedHasParts, TypeOK, StoreTypeOK
<1> QED BY <1>1, SafetyCorrect, PTL

-----------------------------------------------------------------------------
(* The lifecycle.                                                          *)

KeepsCounts(u) == /\ row'[u].attempts = row[u].attempts
                  /\ row'[u].tries = row[u].tries

Turns(u, from, to) == row[u].status = from /\ row'[u].status = to

(* What a step may make of an upload, when nothing is lost, outlived or    *)
(* overlapping: its claims, the ends of its attempts, and its starting     *)
(* again or being forgotten when it is at rest.                            *)
Claimed(u) ==
  \/ /\ row[u].status \in {"queued", "running"} /\ row'[u].status = "running"
     /\ row[u].attempts < MaxAttempts
     /\ row'[u].attempts = row[u].attempts + 1 /\ row'[u].tries = row[u].tries
  \/ /\ row[u].status \in {"analysed", "materializing"}
     /\ row'[u].status = "materializing"
     /\ row[u].tries < MaxAttempts
     /\ row'[u].attempts = row[u].attempts /\ row'[u].tries = row[u].tries + 1

Ended(u) ==
  /\ KeepsCounts(u)
  /\ \/ Turns(u, "running", "queued") /\ row[u].attempts < MaxAttempts
     \/ Turns(u, "materializing", "analysed") /\ row[u].tries < MaxAttempts
     \/ Turns(u, "running", "analysed") /\ Runners # {}
     \/ Turns(u, Working, "done")
     \/ Turns(u, "running", "failed")
     \/ Turns(u, "materializing", "failed")

Renewed(u) ==
  /\ row'[u].attempts = 0 /\ row'[u].tries = 0
  /\ \/ row[u].status \in {"none", "failed", "done"} /\ row'[u].status = "queued"
     \/ Turns(u, "failed", "none")

Follows(u) == \/ Claimed(u) \/ Ended(u) \/ Renewed(u)
              \/ row'[u].status = row[u].status /\ KeepsCounts(u)

(* Rows that stay, or that a sweep fails, follow their lifecycle.          *)
LEMMA SameFollows == ASSUME NEW u, SameRow(u) PROVE Follows(u)
  BY DEF SameRow, Follows, KeepsCounts

(* So do all rows at a claim of either half, or a sweep.                   *)
LEMMA ClaimFollows ==
  ASSUME TypeOK, CountsBelow, NEW v \in Uploads,
         \/ \E u \in Uploads : ClaimNextCadUpload(u) \/ ClaimNextAnalysedUpload(u)
         \/ SweepCadUploads \/ SweepAnalysedUploads
  PROVE  Follows(v)
<1>1. ASSUME NEW u \in Uploads, ClaimNextCadUpload(u) PROVE Follows(v)
  <2>1. CASE v = u
    <3>1. Claimed(u) BY <1>1, CadClaimRows DEF Claimed, CountsBelow
    <3> QED BY <2>1, <3>1 DEF Follows
  <2>2. CASE v # u
    BY <1>1, <2>2, CadClaimOthers, SameFollows DEF Follows, Ended, KeepsCounts, Turns
  <2> QED BY <2>1, <2>2
<1>2. ASSUME NEW u \in Uploads, ClaimNextAnalysedUpload(u) PROVE Follows(v)
  <2>1. CASE v = u
    <3>1. Claimed(u) BY <1>2, AnalysedClaimRows DEF Claimed, CountsBelow
    <3> QED BY <2>1, <3>1 DEF Follows
  <2>2. CASE v # u
    BY <1>2, <2>2, AnalysedClaimOthers, SameFollows DEF Follows, Ended, KeepsCounts, Turns
  <2> QED BY <2>1, <2>2
<1>3. CASE SweepCadUploads \/ SweepAnalysedUploads
  BY <1>3, SweepRows, SameFollows DEF Follows, Ended, KeepsCounts, Turns
<1> QED BY <1>1, <1>2, <1>3

(* A Rust runner ends only the attempt that is on the row.                 *)
LEMMA RunnerFollows ==
  ASSUME TypeOK, SafetyInv, NEW w \in Runners, CadRunnerStep(w), NEW v \in Uploads
  PROVE  Follows(v)
<1>1. /\ CountsBelow /\ RetriesBelow /\ RunsOwn
      /\ run \in [Runners -> Run] /\ row \in [Uploads -> Row]
      /\ RunnerStep(w)
  BY DEF SafetyInv, TypeOK, RunnerTypeOK, StoreTypeOK, CadRunnerStep
<1>2. CASE RunnerClaims(w) BY <1>1, <1>2, ClaimFollows DEF RunnerClaims
<1>3. CASE row' = row BY <1>3, SameFollows DEF SameRow
<1>4. CASE row' # row /\ ~RunnerClaims(w)
  <2>1. PICK u \in Uploads : u = run[w].up BY <1>1 DEF Run
  <2>2. Analysing(w) /\ (MarkAnalysed(u) \/ MarkFailed(u, run[w].retry))
    BY <1>1, <1>4, <2>1
    DEF RunnerStep, Download, Analyse, PartNotReturned, StorePart, CleanPart,
        FinishAnalysed, EndCleanup, FinishFailed, store, Analysing
  <2>3. /\ row[u].status = "running"
        /\ run[w].retry => row[u].attempts < MaxAttempts
    BY <1>1, <2>1, <2>2 DEF RunsOwn, RetriesBelow
  <2>4. /\ \A x \in Uploads : x # u => SameRow(x)
        /\ KeepsCounts(u)
        /\ \/ row'[u].status \in {"analysed", "failed"}
           \/ row'[u].status = "queued" /\ run[w].retry
    BY <1>1, <2>2 DEF MarkAnalysed, MarkFailed, SameRow, Row, KeepsCounts
  <2>5. Follows(u) BY <2>3, <2>4 DEF Follows, Ended, Turns
  <2> QED BY <2>4, <2>5, SameFollows
<1> QED BY <1>2, <1>3, <1>4

(* So does a backend, though it ends it by id.                             *)
LEMMA BackendFollows ==
  ASSUME TypeOK, SafetyInv, Settled, NEW b \in Backends, NEW v \in Uploads,
         \/ BackendStep(b) \/ Maintenance(b)
         \/ JobCrash(b) /\ UNCHANGED <<run, req>>
  PROVE  Follows(v)
<1>1. CountsBelow /\ job \in [Backends -> Job] /\ row \in [Uploads -> Row]
  BY DEF SafetyInv, TypeOK, BackendTypeOK, StoreTypeOK
<1>2. CASE JobClaims(b) BY <1>1, <1>2, ClaimFollows DEF JobClaims
<1>3. CASE row' = row BY <1>3, SameFollows DEF SameRow
<1>4. CASE row' # row /\ (FinishDone(b) \/ Fail(b))
  <2>1. Importing(b) BY <1>4 DEF FinishDone, Fail, Importing, AttemptSteps
  <2>2. PICK u \in Uploads : u = job[b].up BY <2>1, ImportAlone
  <2>3. row[u].status = Working /\ Begun(u) = job[b].attempt
    BY <2>1, <2>2, ImportAlone
  <2>4. PICK s \in Statuses :
          /\ SetStatus(u, s)
          /\ \/ s \in {"failed", "done"}
             \/ /\ s = IF RustCore THEN "analysed" ELSE "queued"
                /\ job[b].attempt < MaxAttempts
    BY <1>4, <2>2 DEF FinishDone, Fail, Statuses
  <2>5. /\ \A x \in Uploads : x # u => SameRow(x)
        /\ KeepsCounts(u)
        /\ row'[u].status = s
    BY <1>1, <2>3, <2>4 DEF SetStatus, SameRow, Row, Working, KeepsCounts
  <2>6. Follows(u)
    BY <2>3, <2>4, <2>5 DEF Follows, Ended, Turns, Working, Begun
  <2> QED BY <2>5, <2>6, SameFollows
<1>5. CASE row' # row /\ ~JobClaims(b) /\ ~FinishDone(b) /\ ~Fail(b)
  <2>1. SameRow(v)
    BY <1>5, JobStepRows DEF BackendStep, JobStep, Maintenance, Maintain, store
  <2> QED BY <2>1, SameFollows
<1> QED BY <1>2, <1>3, <1>4, <1>5

(* A request starts an upload again, and housekeeping forgets it, only     *)
(* when it is at rest.                                                     *)
LEMMA OtherFollows ==
  ASSUME TypeOK, SafetyInv, NEW v \in Uploads,
         \/ \E r \in Requests : RequestArrives(r) \/ RequestRuns(r)
         \/ \E u \in Uploads : TimePasses(u) \/ RowPruned(u)
         \/ ItemDeleted
         \/ \E w \in Runners : RunnerCrash(w) /\ UNCHANGED <<job, req>>
         \/ UNCHANGED vars
  PROVE  Follows(v)
<1>1. RequestsAlone /\ row \in [Uploads -> Row] /\ req \in [Requests -> Req]
  BY DEF SafetyInv, TypeOK, StoreTypeOK, ApiTypeOK
<1>2. CASE row' = row BY <1>2, SameFollows DEF SameRow
<1>3. ASSUME NEW u \in Uploads, TimePasses(u) PROVE Follows(v)
  BY <1>1, <1>3 DEF TimePasses, GoStale, Row, Follows, KeepsCounts
<1>4. ASSUME NEW u \in Uploads, RowPruned(u) PROVE Follows(v)
  <2>1. /\ row[u].status = "failed"
        /\ row' = [x \in Uploads |-> IF x = u THEN NoRow
                     ELSE [row[x] EXCEPT !.after = row[x].after \ {u}]]
    BY <1>4 DEF RowPruned, Prune
  <2>2. CASE v = u BY <2>1, <2>2 DEF NoRow, Follows, Renewed, Turns
  <2>3. CASE v # u
    <3>1. SameRow(v) BY <1>1, <2>1, <2>3 DEF SameRow, Row
    <3> QED BY <3>1, SameFollows
  <2> QED BY <2>2, <2>3
<1>5. ASSUME NEW r \in Requests, Insert(r), row' # row PROVE Follows(v)
  <2>1. PICK u \in Uploads : u = req[r].up BY <1>1 DEF Req
  <2>2. PICK older : /\ row[u].status = "none"
                     /\ row' = [row EXCEPT ![u] =
                          [NoRow EXCEPT !.status = "queued", !.after = older]]
    BY <1>5, <2>1 DEF Insert
  <2>3. CASE v = u BY <1>1, <2>2, <2>3 DEF NoRow, Follows, Renewed
  <2>4. CASE v # u BY <1>1, <2>2, <2>4, SameFollows DEF SameRow
  <2> QED BY <2>3, <2>4
<1>6. ASSUME NEW r \in Requests, Requeue(r), row' # row PROVE Follows(v)
  <2>1. PICK u \in Uploads : u = req[r].up BY <1>1 DEF Req
  <2>2. row[u].status \in {"none", "failed", "done"}
    BY <1>1, <1>6, <2>1 DEF Requeue, InFlight, RequestsAlone
  <2>3. row' = [row EXCEPT ![u].status = "queued", ![u].attempts = 0,
                           ![u].tries = 0, ![u].gone = FALSE]
    BY <1>6, <2>1 DEF Requeue
  <2>4. CASE v = u BY <1>1, <2>2, <2>3, <2>4 DEF Row, Follows, Renewed
  <2>5. CASE v # u BY <1>1, <2>3, <2>5, SameFollows DEF SameRow
  <2> QED BY <2>4, <2>5
<1> QED BY <1>2, <1>3, <1>4, <1>5, <1>6
    DEF RequestArrives, RequestRuns, RequestStep, Find, CheckItems, Put, FindRaced,
        RequestFails, ItemDeleted, UserDeletes, RunnerCrash, vars, store

(* Every step follows the lifecycle, of every upload.                      *)
LEMMA StepFollows ==
  ASSUME TypeOK, SafetyInv, [Next]_vars
  PROVE  \A v \in Uploads : Follows(v)
<1>1. Settled BY HeldIsSettled DEF SafetyInv, Held
<1> QED BY <1>1, RunnerFollows, BackendFollows, OtherFollows DEF Next, ProcessDies

(* A request for an upload that is being processed adds nothing: it never  *)
(* puts it back to the start of the queue.                                 *)
THEOREM WorkIsNotInterrupted == ASSUME Orderly PROVE Spec => NeverInterrupted
<1>1. ASSUME TypeOK, SafetyInv, [Next]_vars, NEW u \in Uploads,
             row[u].status \in {"running", "analysed", "materializing"}
      PROVE  ~(row'[u].status = "queued" /\ row'[u].attempts < row[u].attempts)
  <2>1. Follows(u) BY <1>1, StepFollows
  <2>2. row[u].attempts \in Nat BY <1>1, RowCounts
  <2> QED BY <1>1, <2>1, <2>2 DEF Follows, Claimed, Ended, Renewed, KeepsCounts, Turns
<1>2. TypeOK /\ SafetyInv /\ [Next]_vars =>
        [\A u \in Uploads :
           row[u].status \in {"running", "analysed", "materializing"}
             => ~(row'[u].status = "queued" /\ row'[u].attempts < row[u].attempts)]_vars
  BY <1>1
<1> QED BY <1>2, SafetyCorrect, PTL DEF Spec, NeverInterrupted

(* "Exactly one analyser may run for a deployment": without the Rust core  *)
(* there is no Rust runner.                                                *)
OneAnalyser == RustCore \/ Runners = {}

(* What the lifecycle makes of one upload in a step.                       *)
Lives(u) == \/ Lifecycle!Works(u) \/ Lifecycle!Submit(u) \/ Lifecycle!Forget(u)
            \/ /\ [v \in Uploads |-> row[v].status]'[u]
                    = [v \in Uploads |-> row[v].status][u]
               /\ Lifecycle!Keeps(u)

(* The pair of counts is a function of the two halves.                     *)
LEMMA PairOfCounts ==
  ASSUME NEW a \in Nat, NEW b \in Nat, NEW c \in Nat
  PROVE  /\ <<a, b>>[1] = a /\ <<a, b>>[2] = b
         /\ [<<a, b>> EXCEPT ![1] = c] = <<c, b>>
         /\ [<<a, b>> EXCEPT ![2] = c] = <<a, c>>
         /\ <<0, 0>> = [h \in {1, 2} |-> 0]
  OBVIOUS

(* What a row does is a step of the lifecycle of its upload.               *)
LEMMA FollowsLives ==
  ASSUME TypeOK, TypeOK', OneAnalyser, NEW u \in Uploads, Follows(u)
  PROVE  Lives(u)
<1> DEFINE phase == [v \in Uploads |-> row[v].status]
           used == [v \in Uploads |-> <<row[v].attempts, row[v].tries>>]
<1>1. /\ phase[u] = row[u].status /\ phase'[u] = row'[u].status
      /\ used[u] = <<row[u].attempts, row[u].tries>>
      /\ used'[u] = <<row'[u].attempts, row'[u].tries>>
  OBVIOUS
<1>2. /\ row[u].attempts \in Nat /\ row[u].tries \in Nat
      /\ row'[u].attempts \in Nat /\ row'[u].tries \in Nat
  BY DEF TypeOK, StoreTypeOK, Row
<1>3. used[u][1] = row[u].attempts /\ used[u][2] = row[u].tries
  BY <1>1, <1>2, PairOfCounts
<1>4. ASSUME NEW from, NEW to, Turns(u, from, to) PROVE Lifecycle!Moves(u, from, to)
  BY <1>1, <1>4 DEF Lifecycle!Moves, Turns
<1>5. ASSUME KeepsCounts(u) PROVE Lifecycle!Keeps(u)
  BY <1>1, <1>5 DEF Lifecycle!Keeps, KeepsCounts
<1>6. CASE Claimed(u)
  <2>1. CASE row'[u].status = "running"
    <3>1. /\ row[u].status \in {"queued", "running"} /\ row[u].attempts < MaxAttempts
          /\ row'[u].attempts = row[u].attempts + 1 /\ row'[u].tries = row[u].tries
      BY <1>6, <2>1 DEF Claimed
    <3>2. /\ used[u][1] < MaxAttempts
          /\ used'[u] = [used[u] EXCEPT ![1] = used[u][1] + 1]
      BY <1>1, <1>2, <1>3, <3>1, PairOfCounts
    <3>3. Lifecycle!Spends(u, Lifecycle!First)
      BY <3>2 DEF Lifecycle!Spends, Lifecycle!First
    <3>4. Turns(u, "queued", "running") \/ Turns(u, "running", "running")
      BY <2>1, <3>1 DEF Turns
    <3> QED BY <1>4, <3>3, <3>4 DEF Lives, Lifecycle!Works, Lifecycle!Begin
  <2>2. CASE row'[u].status # "running"
    <3>1. /\ row[u].status \in {"analysed", "materializing"}
          /\ row'[u].status = "materializing" /\ row[u].tries < MaxAttempts
          /\ row'[u].attempts = row[u].attempts /\ row'[u].tries = row[u].tries + 1
      BY <1>6, <2>2 DEF Claimed
    <3>2. /\ used[u][2] < MaxAttempts
          /\ used'[u] = [used[u] EXCEPT ![2] = used[u][2] + 1]
      BY <1>1, <1>2, <1>3, <3>1, PairOfCounts
    <3>3. Lifecycle!Spends(u, Lifecycle!Second)
      BY <3>2 DEF Lifecycle!Spends, Lifecycle!Second
    <3>4. \/ Turns(u, "analysed", "materializing")
          \/ Turns(u, "materializing", "materializing")
      BY <3>1 DEF Turns
    <3> QED BY <1>4, <3>3, <3>4 DEF Lives, Lifecycle!Works, Lifecycle!BeginImport
  <2> QED BY <2>1, <2>2
<1>7. CASE Ended(u)
  <2>1. Lifecycle!Keeps(u) BY <1>5, <1>7 DEF Ended
  <2>2. CASE Turns(u, "running", "queued") /\ row[u].attempts < MaxAttempts
    <3>1. Lifecycle!Retry(u)
      BY <1>3, <1>4, <2>1, <2>2 DEF Lifecycle!Retry, Lifecycle!First
    <3> QED BY <3>1 DEF Lives, Lifecycle!Works
  <2>3. CASE Turns(u, "materializing", "analysed") /\ row[u].tries < MaxAttempts
    <3>1. Lifecycle!RetryImport(u)
      BY <1>3, <1>4, <2>1, <2>3 DEF Lifecycle!RetryImport, Lifecycle!Second
    <3> QED BY <3>1 DEF Lives, Lifecycle!Works
  <2>4. CASE Turns(u, "running", "analysed") /\ Runners # {}
    <3>1. Lifecycle!HandOver(u)
      BY <1>4, <2>1, <2>4 DEF Lifecycle!HandOver, OneAnalyser
    <3> QED BY <3>1 DEF Lives, Lifecycle!Works
  <2>5. CASE Turns(u, Working, "done")
    <3>1. Lifecycle!Finish(u) BY <1>4, <2>1, <2>5 DEF Lifecycle!Finish, Working
    <3> QED BY <3>1 DEF Lives, Lifecycle!Works
  <2>6. CASE Turns(u, "running", "failed") \/ Turns(u, "materializing", "failed")
    <3>1. Lifecycle!GiveUp(u) BY <1>4, <2>1, <2>6 DEF Lifecycle!GiveUp
    <3> QED BY <3>1 DEF Lives, Lifecycle!Works
  <2> QED BY <1>7, <2>2, <2>3, <2>4, <2>5, <2>6 DEF Ended
<1>8. CASE Renewed(u)
  <2>1. used'[u] = Lifecycle!Fresh
    BY <1>1, <1>8, PairOfCounts
    DEF Renewed, Lifecycle!Fresh, Lifecycle!First, Lifecycle!Second
  <2>2. \/ Turns(u, "none", "queued") \/ Turns(u, "failed", "queued")
        \/ Turns(u, "done", "queued") \/ Turns(u, "failed", "none")
    BY <1>8 DEF Renewed, Turns
  <2>3. Lifecycle!Submit(u) \/ Lifecycle!Forget(u)
    BY <1>4, <2>1, <2>2 DEF Lifecycle!Submit, Lifecycle!Forget
  <2> QED BY <2>3 DEF Lives
<1>9. CASE row'[u].status = row[u].status /\ KeepsCounts(u)
  BY <1>1, <1>5, <1>9 DEF Lives
<1> QED BY <1>6, <1>7, <1>8, <1>9 DEF Follows

(* At first no upload was asked for.                                       *)
LEMMA LifeInit == Init => Lifecycle!Init
<1> SUFFICES ASSUME Init PROVE Lifecycle!Init OBVIOUS
<1>1. \A u \in Uploads : row[u] = NoRow BY DEF Init, StoreInit
<1>2. \A u \in Uploads : /\ row[u].status = "none"
                         /\ <<row[u].attempts, row[u].tries>> = Lifecycle!Fresh
  BY <1>1, PairOfCounts
  DEF NoRow, Lifecycle!Fresh, Lifecycle!First, Lifecycle!Second
<1> QED BY <1>2 DEF Lifecycle!Init

(* Every step is a step of the lifecycle, or leaves it alone.              *)
LEMMA LifeStep ==
  ASSUME TypeOK, SafetyInv, OneAnalyser, [Next]_vars
  PROVE  [Lifecycle!Next]_(Lifecycle!life)
<1>1. TypeOK' BY TypeStep
<1>2. \A u \in Uploads : Lives(u) BY <1>1, StepFollows, FollowsLives
<1> QED BY <1>2 DEF Lifecycle!Next, Lifecycle!life, Lives

(* Each status change and each count of attempts is a step of the          *)
(* lifecycle that migration 923 draws.                                     *)
THEOREM PipelineKeepsLifecycle ==
  ASSUME Orderly, OneAnalyser PROVE Spec => KeepsLifecycle
<1>1. TypeOK /\ SafetyInv /\ [Next]_vars => [Lifecycle!Next]_(Lifecycle!life)
  BY LifeStep
<1> QED BY <1>1, LifeInit, SafetyCorrect, PTL
    DEF Spec, KeepsLifecycle, Lifecycle!Spec

-----------------------------------------------------------------------------
(* Imported items.                                                         *)

(* Why imported items are accounted for, and an import ends whole, when    *)
(* the faults are not there that leave an item behind: at each step of an  *)
(* attempt its ids, its lines to do and its row say which items there are. *)
(* A retry removes by id, so no id may ever belong to two uploads.         *)
ItemsTracked == Faults \cap {"unrecorded", "undeleted", "abandoned", "early"} = {}

IdsOf(u) == {x.id : x \in ItemsOf(u)}

LineOnce(u) == \A x, y \in ItemsOf(u) : x.line = y.line => x = y

InHand(b, u) ==
  /\ job[b].pc \in {"removing", "undoing"} => IdsOf(u) \subseteq job[b].ids
  /\ job[b].pc = "loading" =>
       /\ ItemsOf(u) = {}
       /\ job[b].ids = {}
       /\ row[u].created = {}
  /\ job[b].pc \in {"creating", "recording"} =>
       /\ IdsOf(u) = job[b].ids
       /\ {x.line : x \in ItemsOf(u)} = Lines \ job[b].todo
       /\ LineOnce(u)
  /\ job[b].pc = "creating" => row[u].created = job[b].ids
  /\ job[b].pc = "failing" => IdsOf(u) \subseteq row[u].created

ItemsAt(u) ==
  /\ \A b \in Backends : Importing(b) /\ job[b].up = u => InHand(b, u)
  /\ \/ \E b \in Backends : Importing(b) /\ job[b].up = u
     \/ IdsOf(u) \subseteq row[u].created
  /\ row[u].status = "none" => row[u].created = {}

Owns(u, i) ==
  \/ i \in row[u].created
  \/ \E b \in Backends : Importing(b) /\ job[b].up = u /\ i \in job[b].ids

IdsApart == \A u, v \in Uploads, i \in Items : Owns(u, i) /\ Owns(v, i) => u = v

ItemsInv == (\A u \in Uploads : ItemsAt(u)) /\ IdsApart

(* Row v lists the same items as before, and is not forgotten.             *)
SameCreated(v) == /\ row'[v].created = row[v].created
                  /\ row'[v].status = "none" => row[v].status = "none"

(* It is there or not as before, and says the same of its original.        *)
SameGone(v) == /\ row'[v].gone = row[v].gone
               /\ row'[v].status = "none" <=> row[v].status = "none"

Carries(v) == SameCreated(v) /\ SameGone(v)

(* A claim or a sweep changes status, counts and window only.              *)
LEMMA ClaimCarries ==
  ASSUME TypeOK, NEW v \in Uploads,
         \/ \E u \in Uploads : ClaimNextCadUpload(u) \/ ClaimNextAnalysedUpload(u)
         \/ SweepCadUploads \/ SweepAnalysedUploads
  PROVE  Carries(v)
<1>0. row \in [Uploads -> Row] BY DEF TypeOK, StoreTypeOK
<1>1. ASSUME NEW u \in Uploads, ClaimNextCadUpload(u) PROVE Carries(v)
  <2>1. /\ row' = [RunSwept EXCEPT ![u].status = "running",
                                   ![u].attempts = row[u].attempts + 1,
                                   ![u].stale = FALSE]
        /\ row[u].status # "none"
    BY <1>1 DEF ClaimNextCadUpload, Oldest, RunWaiting
  <2>2. /\ RunSwept \in [Uploads -> Row]
        /\ RunSwept[v].created = row[v].created /\ RunSwept[v].gone = row[v].gone
        /\ RunSwept[v].status = "none" <=> row[v].status = "none"
    BY <1>0 DEF RunSwept, RunExhausted, Row, Statuses
  <2> QED BY <1>0, <2>1, <2>2 DEF Row, Carries, SameCreated, SameGone
<1>2. ASSUME NEW u \in Uploads, ClaimNextAnalysedUpload(u) PROVE Carries(v)
  <2>1. /\ row' = [TrySwept EXCEPT ![u].status = "materializing",
                                   ![u].tries = row[u].tries + 1,
                                   ![u].stale = FALSE]
        /\ row[u].status # "none"
    BY <1>2 DEF ClaimNextAnalysedUpload, Oldest, TryWaiting
  <2>2. /\ TrySwept \in [Uploads -> Row]
        /\ TrySwept[v].created = row[v].created /\ TrySwept[v].gone = row[v].gone
        /\ TrySwept[v].status = "none" <=> row[v].status = "none"
    BY <1>0 DEF TrySwept, TryExhausted, Row, Statuses
  <2> QED BY <1>0, <2>1, <2>2 DEF Row, Carries, SameCreated, SameGone
<1>3. CASE SweepCadUploads \/ SweepAnalysedUploads
  BY <1>0, <1>3 DEF SweepCadUploads, SweepAnalysedUploads, RunSwept, TrySwept,
                    RunExhausted, TryExhausted, Row, Carries, SameCreated,
                    SameGone
<1> QED BY <1>1, <1>2, <1>3

(* So does every step of a Rust runner.                                    *)
LEMMA RunnerCarries ==
  ASSUME TypeOK, NEW w \in Runners, CadRunnerStep(w), NEW v \in Uploads
  PROVE  Carries(v)
<1>1. row \in [Uploads -> Row] /\ RunnerStep(w)
  BY DEF TypeOK, StoreTypeOK, CadRunnerStep
<1>2. CASE RunnerClaims(w) BY <1>2, ClaimCarries DEF RunnerClaims
<1>3. CASE row' = row BY <1>3 DEF Carries, SameCreated, SameGone
<1>4. CASE row' # row /\ ~RunnerClaims(w)
  <2>1. MarkAnalysed(run[w].up) \/ MarkFailed(run[w].up, run[w].retry)
    BY <1>1, <1>4
    DEF RunnerStep, Download, Analyse, PartNotReturned, StorePart, CleanPart,
        FinishAnalysed, EndCleanup, FinishFailed, store
  <2> QED BY <1>1, <2>1 DEF MarkAnalysed, MarkFailed, Row, Carries, SameCreated, SameGone
<1> QED BY <1>2, <1>3, <1>4

(* A backend lists items and records removals for its own upload.          *)
LEMMA BackendCarries ==
  ASSUME TypeOK, NEW b \in Backends, NEW v \in Uploads,
         \/ BackendStep(b) \/ Maintenance(b)
         \/ JobCrash(b) /\ UNCHANGED <<run, req>>
  PROVE  \/ Carries(v)
         \/ v = job[b].up /\ (ForgetItems(b) \/ RecordItem(b) \/ RecordRemoval(b))
<1>1. row \in [Uploads -> Row] /\ job \in [Backends -> Job]
  BY DEF TypeOK, StoreTypeOK, BackendTypeOK
<1>2. CASE JobClaims(b) BY <1>2, ClaimCarries DEF JobClaims
<1>3. CASE row' = row BY <1>3 DEF Carries, SameCreated, SameGone
<1>4. CASE row' # row /\ (FinishDone(b) \/ Fail(b))
  <2>1. PICK s \in Statuses \ {"none"} : SetStatus(job[b].up, s)
    BY <1>4 DEF FinishDone, Fail, Statuses
  <2> QED BY <1>1, <2>1 DEF SetStatus, Row, Carries, SameCreated, SameGone
<1>5. CASE row' # row /\ (ForgetItems(b) \/ RecordItem(b) \/ RecordRemoval(b))
  <2>1. CASE v = job[b].up BY <1>5, <2>1
  <2>2. CASE v # job[b].up
    <3>1. row'[v] = row[v]
      BY <1>1, <1>5, <2>2
      DEF ForgetItems, RecordItem, RecordRemoval, SaveCreated, StampSource
    <3> QED BY <3>1 DEF Carries, SameCreated, SameGone
  <2> QED BY <2>1, <2>2
<1>6. \/ JobClaims(b) \/ row' = row \/ FinishDone(b) \/ Fail(b)
      \/ ForgetItems(b) \/ RecordItem(b) \/ RecordRemoval(b)
  BY DEF BackendStep, JobStep, Maintenance, Maintain, JobCrash, RemoveItem, Load,
         CreateItem, CreateFails, RemoveParts, RemoveSource, store
<1> QED BY <1>2, <1>3, <1>4, <1>5, <1>6

(* An upload whose items, list and attempt are as before.                  *)
LEMMA ItemsUntouched ==
  ASSUME NEW v \in Uploads, ItemsAt(v), SameCreated(v), ItemsOf(v)' = ItemsOf(v),
         \A b \in Backends : Imports(b, v)' <=> Imports(b, v),
         \A b \in Backends : Imports(b, v) => job'[b] = job[b]
  PROVE  ItemsAt(v)'
<1>1. IdsOf(v)' = IdsOf(v) /\ (LineOnce(v) => LineOnce(v)') BY DEF IdsOf, LineOnce
<1>2. ASSUME NEW b \in Backends, Imports(b, v)' PROVE InHand(b, v)'
  <2>1. Imports(b, v) /\ job'[b] = job[b] BY <1>2
  <2>2. InHand(b, v) BY <2>1 DEF ItemsAt, Imports
  <2> QED BY <1>1, <2>1, <2>2 DEF InHand, SameCreated
<1>3. \/ \E b \in Backends : Imports(b, v)'
      \/ IdsOf(v)' \subseteq row'[v].created
  BY <1>1 DEF ItemsAt, Imports, SameCreated
<1>4. row'[v].status = "none" => row'[v].created = {} BY DEF ItemsAt, SameCreated
<1> QED BY <1>2, <1>3, <1>4 DEF ItemsAt, Imports

(* Steps that touch neither items nor their lists nor an attempt at them.  *)
LEMMA ItemsStay ==
  ASSUME ItemsInv, bom' = bom, \A v \in Uploads : SameCreated(v),
         \A b \in Backends : job'[b] = job[b] \/ (~Importing(b) /\ ~Importing(b)')
  PROVE  ItemsInv'
<1>1. \A v \in Uploads, b \in Backends :
        /\ Imports(b, v)' <=> Imports(b, v)
        /\ Imports(b, v) => job'[b] = job[b]
  BY DEF Imports, Importing
<1>2. \A v \in Uploads : ItemsAt(v)'
  <2>1. \A v \in Uploads : ItemsOf(v)' = ItemsOf(v) BY DEF ItemsOf
  <2> QED BY <1>1, <2>1, ItemsUntouched DEF ItemsInv
<1>3. IdsApart'
  <2>1. \A v \in Uploads, i \in Items : Owns(v, i)' => Owns(v, i)
    BY <1>1 DEF Owns, Imports, SameCreated
  <2> QED BY <2>1 DEF ItemsInv, IdsApart
<1> QED BY <1>2, <1>3 DEF ItemsInv

(* Id i belongs to upload u, or to none.                                   *)
MayOwn(u, i) == Owns(u, i) \/ \A v \in Uploads : ~Owns(v, i)

(* A step of the attempt at upload u.                                      *)
LEMMA ImportItems ==
  ASSUME TypeOK, Settled, ItemsInv, NEW b \in Backends, Importing(b),
         NEW u \in Uploads, u = job[b].up,
         \A a \in Backends \ {b} : job'[a] = job[a],
         Importing(b)' => job'[b].up = u,
         \A v \in Uploads \ {u} : SameCreated(v) /\ ItemsOf(v)' = ItemsOf(v),
         row'[u].status # "none",
         Importing(b)' => InHand(b, u)',
         ~Importing(b)' => IdsOf(u)' \subseteq row'[u].created,
         \A i \in row'[u].created : MayOwn(u, i),
         Importing(b)' => \A i \in job'[b].ids : MayOwn(u, i)
  PROVE  ItemsInv'
<1>1. \A a \in Backends \ {b} : ~Imports(a, u) /\ ~Imports(a, u)'
  BY ImportAlone DEF Imports, Importing
<1>2. Imports(b, u)' <=> Importing(b)' BY DEF Imports
<1>3. ItemsAt(u)'
  <2>1. \A a \in Backends : Imports(a, u)' => InHand(a, u)' BY <1>1, <1>2
  <2>2. \/ \E a \in Backends : Imports(a, u)'
        \/ IdsOf(u)' \subseteq row'[u].created
    BY <1>2
  <2> QED BY <2>1, <2>2 DEF ItemsAt, Imports
<1>4. ASSUME NEW v \in Uploads \ {u}
      PROVE  /\ \A a \in Backends : Imports(a, v)' <=> Imports(a, v)
             /\ \A a \in Backends : Imports(a, v) => job'[a] = job[a]
  BY <1>4 DEF Imports, Importing
<1>5. \A v \in Uploads \ {u} : ItemsAt(v)' BY <1>4, ItemsUntouched DEF ItemsInv
<1>6. IdsApart'
  <2>1. \A v \in Uploads \ {u}, i \in Items : Owns(v, i)' => Owns(v, i)
    BY <1>4 DEF Owns, Imports, SameCreated
  <2>2. \A i \in Items : Owns(u, i)' => MayOwn(u, i)
    BY <1>1, <1>2 DEF Owns, Imports
  <2>3. ASSUME NEW v \in Uploads, NEW w \in Uploads, NEW i \in Items,
               Owns(v, i)', Owns(w, i)'
        PROVE  v = w
    BY <2>1, <2>2, <2>3 DEF ItemsInv, IdsApart, MayOwn
  <2> QED BY <2>3 DEF IdsApart
<1> QED BY <1>3, <1>5, <1>6 DEF ItemsInv

(* What is known of the attempt a backend is at.                           *)
LEMMA ImportKnown ==
  ASSUME TypeOK, Settled, ItemsInv, NEW b \in Backends, Importing(b)
  PROVE  /\ job[b].up \in Uploads
         /\ row[job[b].up].status \in {"running", "materializing"}
         /\ InHand(b, job[b].up)
<1>1. job[b].up \in Uploads /\ row[job[b].up].status = Working BY ImportAlone
<1>2. InHand(b, job[b].up) BY <1>1 DEF ItemsInv, ItemsAt
<1> QED BY <1>1, <1>2 DEF Working

(* An item belongs to whoever owns its id.                                 *)
LEMMA ItemOwned ==
  ASSUME TypeOK, ItemsInv, NEW x \in bom
  PROVE  Owns(x.up, x.id) /\ x.up \in Uploads /\ x.id \in Items
<1>1. x.up \in Uploads /\ x.id \in Items /\ x.id \in IdsOf(x.up)
  BY DEF TypeOK, StoreTypeOK, BomItem, IdsOf, ItemsOf
<1>2. ItemsAt(x.up) BY <1>1 DEF ItemsInv
<1>3. CASE \E b \in Backends : Importing(b) /\ job[b].up = x.up
  <2>1. PICK b \in Backends : Importing(b) /\ job[b].up = x.up BY <1>3
  <2>2. InHand(b, x.up) BY <1>2, <2>1 DEF ItemsAt
  <2>3. x \in ItemsOf(x.up) BY DEF ItemsOf
  <2>4. x.id \in job[b].ids \/ x.id \in row[x.up].created
    BY <1>1, <2>1, <2>2, <2>3 DEF InHand, Importing, AttemptSteps
  <2> QED BY <1>1, <2>1, <2>4 DEF Owns
<1>4. CASE IdsOf(x.up) \subseteq row[x.up].created BY <1>1, <1>4 DEF Owns
<1> QED BY <1>1, <1>2, <1>3, <1>4 DEF ItemsAt

(* A claim meets an upload nobody is at, and takes its list in hand.       *)
LEMMA ClaimItems ==
  ASSUME TypeOK, Settled, ItemsInv, NEW b \in Backends, JobClaims(b)
  PROVE  ItemsInv'
<1>1. job \in [Backends -> Job] /\ row \in [Uploads -> Row] /\ bom' = bom
  BY DEF TypeOK, BackendTypeOK, StoreTypeOK, JobClaims
<1>2. \A v \in Uploads : SameCreated(v) BY ClaimCarries DEF JobClaims, Carries
<1>3. CASE job' = job
  <2>1. \A a \in Backends : job'[a] = job[a] \/ (~Importing(a) /\ ~Importing(a)')
    BY <1>3
  <2> QED BY <1>1, <1>2, <2>1, ItemsStay
<1>4. ASSUME NEW u \in Uploads,
             IF RustCore THEN ClaimNextAnalysedUpload(u) ELSE ClaimNextCadUpload(u),
             job' = [job EXCEPT ![b] =
               [NoJob EXCEPT
                  !.pc = IF row[u].created = {} THEN "loading" ELSE "removing",
                  !.up = u,
                  !.attempt = Begun(u) + 1,
                  !.gone = row[u].gone,
                  !.ids = row[u].created]]
      PROVE  ItemsInv'
  <2>1. /\ job'[b].pc = IF row[u].created = {} THEN "loading" ELSE "removing"
        /\ job'[b].up = u /\ job'[b].ids = row[u].created
        /\ \A a \in Backends \ {b} : job'[a] = job[a]
    BY <1>1, <1>4 DEF NoJob, Job
  <2>2. /\ \A a \in Backends : ~Imports(a, u)
        /\ ~Importing(b)
    <3>1. \/ row[u].status \in {"queued", "analysed"}
          \/ row[u].status \in {"running", "materializing"} /\ row[u].stale
      BY <1>4, CadClaimRows, AnalysedClaimRows
    <3>2. Free(u) BY <3>1, WaitingIsFree DEF Settled
    <3>3. job[b].pc = "idle" BY DEF JobClaims
    <3> QED BY <3>2, <3>3 DEF Free, Importing, AttemptSteps
  <2>3. IdsOf(u) \subseteq row[u].created BY <2>2 DEF ItemsInv, ItemsAt, Imports
  <2>4. ItemsOf(u)' = ItemsOf(u) /\ IdsOf(u)' = IdsOf(u)
    BY <1>1 DEF ItemsOf, IdsOf
  <2>5. InHand(b, u)'
    <3>1. row[u].created = {} => ItemsOf(u) = {} BY <2>3 DEF IdsOf
    <3> QED BY <1>2, <2>1, <2>3, <2>4, <3>1 DEF InHand, SameCreated
  <2>6. /\ \A a \in Backends : Imports(a, u)' => a = b
        /\ Imports(b, u)'
    BY <2>1, <2>2 DEF Imports, Importing, AttemptSteps
  <2>7. ItemsAt(u)'
    BY <1>2, <2>5, <2>6 DEF ItemsAt, Imports, ItemsInv, SameCreated
  <2>8. ASSUME NEW v \in Uploads \ {u}
        PROVE  /\ \A a \in Backends : Imports(a, v)' <=> Imports(a, v)
               /\ \A a \in Backends : Imports(a, v) => job'[a] = job[a]
    BY <2>1, <2>2 DEF Imports, Importing
  <2>9. \A v \in Uploads \ {u} : ItemsAt(v)'
    <3>1. \A v \in Uploads : ItemsOf(v)' = ItemsOf(v) BY <1>1 DEF ItemsOf
    <3> QED BY <1>2, <2>8, <3>1, ItemsUntouched DEF ItemsInv
  <2>10. \A v \in Uploads, i \in Items : Owns(v, i)' => Owns(v, i)
    <3>1. \A i \in Items : Owns(u, i)' => Owns(u, i)
      BY <1>2, <2>1, <2>6 DEF Owns, Imports, SameCreated
    <3>2. \A v \in Uploads \ {u}, i \in Items : Owns(v, i)' => Owns(v, i)
      BY <1>2, <2>8 DEF Owns, Imports, SameCreated
    <3> QED BY <3>1, <3>2
  <2> QED BY <2>7, <2>9, <2>10 DEF ItemsInv, IdsApart
<1> QED BY <1>3, <1>4 DEF JobClaims

(* The steps of an attempt at importing: each brings its upload from what  *)
(* InHand says of one place to what it says of the next.                   *)
LEMMA RemoveItems ==
  ASSUME TypeOK, Settled, ItemsInv, ItemsTracked, NEW b \in Backends,
         NEW i \in Items, RemoveItem(b, i)
  PROVE  ItemsInv'
<1>1. Importing(b) BY DEF RemoveItem, Importing, AttemptSteps
<1>2. PICK u \in Uploads : u = job[b].up BY <1>1, ImportKnown
<1>3. /\ row[u].status \in {"running", "materializing"} /\ InHand(b, u)
      /\ job \in [Backends -> Job]
  BY <1>1, <1>2, ImportKnown DEF TypeOK, BackendTypeOK
<1>4. /\ job[b].pc \in {"removing", "undoing"}
      /\ i \in job[b].ids
      /\ bom' = Without(i)
      /\ job' = [job EXCEPT ![b].ids = job[b].ids \ {i}]
      /\ row' = row
  BY DEF RemoveItem, ItemsTracked
<1>5. /\ job'[b].pc = job[b].pc /\ job'[b].up = u
      /\ job'[b].ids = job[b].ids \ {i}
      /\ \A a \in Backends \ {b} : job'[a] = job[a]
  BY <1>2, <1>3, <1>4 DEF Job
<1>6. InHand(b, u)'
  <2>1. IdsOf(u) \subseteq job[b].ids BY <1>3, <1>4 DEF InHand
  <2>2. IdsOf(u)' \subseteq job'[b].ids
    BY <1>4, <1>5, <2>1 DEF IdsOf, ItemsOf, Without
  <2> QED BY <1>4, <1>5, <2>2 DEF InHand
<1>7. \A v \in Uploads \ {u} : SameCreated(v) /\ ItemsOf(v)' = ItemsOf(v)
  <2>1. Owns(u, i) BY <1>1, <1>2, <1>4 DEF Owns
  <2>2. ASSUME NEW v \in Uploads \ {u}, NEW x \in ItemsOf(v) PROVE x.id # i
    <3>1. x \in bom /\ x.up = v BY <2>2 DEF ItemsOf
    <3> QED BY <2>1, <2>2, <3>1, ItemOwned DEF ItemsInv, IdsApart
  <2>3. \A v \in Uploads \ {u} : ItemsOf(v)' = ItemsOf(v)
    BY <1>4, <2>2 DEF ItemsOf, Without
  <2> QED BY <1>4, <2>3 DEF SameCreated
<1>8. row'[u].status # "none" BY <1>3, <1>4
<1>9. Importing(b)' BY <1>1, <1>5 DEF Importing
<1>10. /\ \A j \in row'[u].created : MayOwn(u, j)
       /\ \A j \in job'[b].ids : MayOwn(u, j)
  BY <1>1, <1>2, <1>4, <1>5 DEF MayOwn, Owns
<1> QED BY <1>1, <1>2, <1>5, <1>6, <1>7, <1>8, <1>9, <1>10, ImportItems

(* Once every item it listed is removed, the row lists none.               *)
LEMMA ForgetItemsKept ==
  ASSUME TypeOK, Settled, Orderly, ItemsInv, NEW b \in Backends, ForgetItems(b)
  PROVE  ItemsInv'
<1>1. Importing(b) BY DEF ForgetItems, Importing, AttemptSteps
<1>2. PICK u \in Uploads : u = job[b].up BY <1>1, ImportKnown
<1>3. /\ row[u].status \in {"running", "materializing"} /\ InHand(b, u)
      /\ job \in [Backends -> Job] /\ row \in [Uploads -> Row]
  BY <1>1, <1>2, ImportKnown DEF TypeOK, BackendTypeOK, StoreTypeOK
<1>4. ItemsOf(u) = {} /\ job[b].ids = {} /\ bom' = bom
  <2>1. job[b].pc \in {"removing", "undoing"} /\ job[b].ids = {} /\ bom' = bom
    BY DEF ForgetItems
  <2>2. IdsOf(u) = {} BY <1>3, <2>1 DEF InHand
  <2> QED BY <2>1, <2>2 DEF IdsOf
<1>5. /\ job'[b].up = u /\ job'[b].ids = {}
      /\ \/ job'[b].pc = "loading" /\ row' = [row EXCEPT ![u].created = {}]
         \/ job'[b].pc = "failing" /\ row' = [row EXCEPT ![u].created = {}]
         \/ job'[b].pc = "failing" /\ row' = row
      /\ \A a \in Backends \ {b} : job'[a] = job[a]
  <2>1. SaveCreated(u, {}) => row' = [row EXCEPT ![u].created = {}]
    BY <1>3 DEF SaveCreated
  <2>2. \/ SaveCreated(u, {}) /\ (To(b, "loading") \/ Fails(b, FALSE))
        \/ row' = row /\ Fails(b, FALSE)
    BY <1>2, OrderlyMeans DEF ForgetItems
  <2> QED BY <1>2, <1>3, <1>4, <2>1, <2>2 DEF To, Fails, Job
<1>6. \A v \in Uploads : ItemsOf(v)' = ItemsOf(v) BY <1>4 DEF ItemsOf
<1>7. /\ row'[u].created \in {{}, row[u].created}
      /\ job'[b].pc = "loading" => row'[u].created = {}
      /\ row'[u].status = row[u].status
      /\ \A v \in Uploads \ {u} : row'[v] = row[v]
  BY <1>3, <1>5 DEF Row
<1>8. InHand(b, u)' BY <1>4, <1>5, <1>6, <1>7 DEF InHand, IdsOf
<1>9. Importing(b)' BY <1>5 DEF Importing, AttemptSteps
<1>10. \A v \in Uploads \ {u} : SameCreated(v) BY <1>7 DEF SameCreated
<1>11. /\ \A j \in row'[u].created : MayOwn(u, j)
       /\ \A j \in job'[b].ids : MayOwn(u, j)
  BY <1>1, <1>2, <1>5, <1>7 DEF MayOwn, Owns
<1>12. row'[u].status # "none" BY <1>3, <1>7
<1> QED BY <1>1, <1>2, <1>5, <1>6, <1>8, <1>9, <1>10, <1>11, <1>12, ImportItems

(* An attempt starts making items, or stops, with the items as they were.  *)
LEMMA LoadItems ==
  ASSUME TypeOK, Settled, ItemsInv, NEW b \in Backends, Load(b) \/ CreateFails(b)
  PROVE  ItemsInv'
<1>1. Importing(b) BY DEF Load, CreateFails, Importing, AttemptSteps
<1>2. PICK u \in Uploads : u = job[b].up BY <1>1, ImportKnown
<1>3. /\ row[u].status \in {"running", "materializing"} /\ InHand(b, u)
      /\ job \in [Backends -> Job]
  BY <1>1, <1>2, ImportKnown DEF TypeOK, BackendTypeOK
<1>4. row' = row /\ bom' = bom BY DEF Load, CreateFails, store
<1>5. \A v \in Uploads : SameCreated(v) /\ ItemsOf(v)' = ItemsOf(v)
  BY <1>4 DEF SameCreated, ItemsOf
<1>6. /\ job'[b].up = u /\ job'[b].ids = job[b].ids
      /\ \/ /\ job[b].pc = "loading"
            /\ \/ job'[b].pc = "creating" /\ job'[b].todo = Lines
               \/ job'[b].pc = "failing"
         \/ job[b].pc = "creating" /\ job'[b].pc = "undoing"
      /\ \A a \in Backends \ {b} : job'[a] = job[a]
  BY <1>2, <1>3 DEF Load, CreateFails, Fails, To, Job
<1>7. InHand(b, u)'
  <2>1. CASE job[b].pc = "loading"
    <3>1. ItemsOf(u) = {} /\ job[b].ids = {} /\ row[u].created = {}
      BY <1>3, <2>1 DEF InHand
    <3>2. /\ ItemsOf(u)' = {} /\ IdsOf(u)' = {} /\ LineOnce(u)'
          /\ {x.line : x \in ItemsOf(u)'} = {}
      BY <1>5, <3>1 DEF IdsOf, LineOnce
    <3> QED BY <1>4, <1>6, <2>1, <3>1, <3>2 DEF InHand
  <2>2. CASE job[b].pc = "creating"
    <3>1. IdsOf(u) = job[b].ids BY <1>3, <2>2 DEF InHand
    <3>2. IdsOf(u)' = job'[b].ids BY <1>5, <1>6, <3>1 DEF IdsOf
    <3> QED BY <1>6, <2>2, <3>2 DEF InHand
  <2> QED BY <1>6, <2>1, <2>2
<1>8. Importing(b)' BY <1>6 DEF Importing, AttemptSteps
<1>9. /\ \A j \in row'[u].created : MayOwn(u, j)
      /\ \A j \in job'[b].ids : MayOwn(u, j)
  BY <1>1, <1>2, <1>4, <1>6 DEF MayOwn, Owns
<1>10. row'[u].status # "none" BY <1>3, <1>4
<1> QED BY <1>1, <1>2, <1>5, <1>6, <1>7, <1>8, <1>9, <1>10, ImportItems

(* The next line is made as one item, with an id nobody has.               *)
LEMMA CreateItems ==
  ASSUME TypeOK, Settled, Orderly, ItemsInv, NEW b \in Backends, NEW i \in Items,
         NewId(i), CreateItem(b, i)
  PROVE  ItemsInv'
<1>1. Importing(b) /\ job[b].pc = "creating"
  BY DEF CreateItem, Importing, AttemptSteps
<1>2. PICK u \in Uploads : u = job[b].up BY <1>1, ImportKnown
<1>3. /\ row[u].status \in {"running", "materializing"} /\ InHand(b, u)
      /\ job \in [Backends -> Job] /\ row' = row
  BY <1>1, <1>2, ImportKnown DEF TypeOK, BackendTypeOK, CreateItem
<1>4. PICK l \in job[b].todo :
        /\ bom' = bom \cup {[id |-> i, up |-> u, line |-> l]}
        /\ job' = [job EXCEPT ![b].pc = "recording",
                              ![b].ids = job[b].ids \cup {i},
                              ![b].todo = job[b].todo \ {l}]
  BY <1>2, OrderlyMeans DEF CreateItem
<1>5. /\ job'[b].pc = "recording" /\ job'[b].up = u
      /\ job'[b].ids = job[b].ids \cup {i}
      /\ job'[b].todo = job[b].todo \ {l}
      /\ \A a \in Backends \ {b} : job'[a] = job[a]
  BY <1>2, <1>3, <1>4 DEF Job
<1>6. DEFINE new == [id |-> i, up |-> u, line |-> l]
<1>7. /\ ItemsOf(u)' = ItemsOf(u) \cup {new}
      /\ \A v \in Uploads \ {u} : ItemsOf(v)' = ItemsOf(v)
      /\ new.id = i /\ new.line = l
  BY <1>4 DEF ItemsOf
<1>8. l \in Lines /\ job[b].todo \subseteq Lines BY <1>3, <1>4 DEF Job
<1>9. InHand(b, u)'
  <2>1. /\ IdsOf(u) = job[b].ids
        /\ {x.line : x \in ItemsOf(u)} = Lines \ job[b].todo
        /\ LineOnce(u)
    BY <1>1, <1>3 DEF InHand
  <2> HIDE DEF new
  <2>2. IdsOf(u)' = job'[b].ids
    <3>1. IdsOf(u)' = IdsOf(u) \cup {new.id} BY <1>7 DEF IdsOf
    <3> QED BY <1>5, <1>7, <2>1, <3>1
  <2>3. {x.line : x \in ItemsOf(u)'} = Lines \ job'[b].todo
    <3>1. {x.line : x \in ItemsOf(u)'} = {x.line : x \in ItemsOf(u)} \cup {new.line}
      BY <1>7
    <3> QED BY <1>4, <1>5, <1>7, <1>8, <2>1, <3>1
  <2>4. LineOnce(u)'
    <3>1. \A x \in ItemsOf(u) : x.line # new.line BY <1>4, <1>7, <2>1
    <3> QED BY <1>7, <2>1, <3>1 DEF LineOnce
  <2> QED BY <1>5, <2>2, <2>3, <2>4 DEF InHand
<1>10. \A v \in Uploads \ {u} : SameCreated(v) BY <1>3 DEF SameCreated
<1>11. \A v \in Uploads : ~Owns(v, i) BY DEF NewId, Unused, Owns
<1>12. /\ \A j \in row'[u].created : MayOwn(u, j)
       /\ \A j \in job'[b].ids : MayOwn(u, j)
  BY <1>1, <1>2, <1>3, <1>5, <1>11 DEF MayOwn, Owns
<1>13. Importing(b)' /\ row'[u].status # "none"
  BY <1>3, <1>5 DEF Importing, AttemptSteps
<1> QED BY <1>1, <1>2, <1>5, <1>7, <1>9, <1>10, <1>12, <1>13, ImportItems

(* The row lists what the attempt has made, or the attempt will undo it.   *)
LEMMA RecordItems ==
  ASSUME TypeOK, Settled, Orderly, ItemsInv, NEW b \in Backends, RecordItem(b)
  PROVE  ItemsInv'
<1>1. Importing(b) /\ job[b].pc = "recording"
  BY DEF RecordItem, Importing, AttemptSteps
<1>2. PICK u \in Uploads : u = job[b].up BY <1>1, ImportKnown
<1>3. /\ row[u].status \in {"running", "materializing"} /\ InHand(b, u)
      /\ job \in [Backends -> Job] /\ row \in [Uploads -> Row] /\ bom' = bom
  BY <1>1, <1>2, ImportKnown
  DEF TypeOK, BackendTypeOK, StoreTypeOK, RecordItem
<1>4. /\ job'[b].up = u /\ job'[b].ids = job[b].ids /\ job'[b].todo = job[b].todo
      /\ \/ /\ job'[b].pc = "creating"
            /\ row' = [row EXCEPT ![u].created = job[b].ids]
         \/ job'[b].pc = "undoing" /\ row' = row
      /\ \A a \in Backends \ {b} : job'[a] = job[a]
  <2>1. SaveCreated(u, job[b].ids) => row' = [row EXCEPT ![u].created = job[b].ids]
    BY <1>3 DEF SaveCreated
  <2>2. \/ SaveCreated(u, job[b].ids) /\ To(b, "creating")
        \/ row' = row /\ To(b, "undoing")
    BY <1>2, OrderlyMeans DEF RecordItem
  <2> QED BY <1>2, <1>3, <2>1, <2>2 DEF To, Job
<1>5. /\ row'[u].created \in {job[b].ids, row[u].created}
      /\ job'[b].pc = "creating" => row'[u].created = job[b].ids
      /\ row'[u].status = row[u].status
      /\ \A v \in Uploads \ {u} : row'[v] = row[v]
  BY <1>3, <1>4 DEF Row
<1>6. \A v \in Uploads : ItemsOf(v)' = ItemsOf(v) BY <1>3 DEF ItemsOf
<1>7. InHand(b, u)'
  <2>1. /\ IdsOf(u) = job[b].ids
        /\ {x.line : x \in ItemsOf(u)} = Lines \ job[b].todo
        /\ LineOnce(u)
    BY <1>1, <1>3 DEF InHand
  <2>2. /\ IdsOf(u)' = job'[b].ids
        /\ {x.line : x \in ItemsOf(u)'} = Lines \ job'[b].todo
        /\ LineOnce(u)'
    BY <1>4, <1>6, <2>1 DEF IdsOf, LineOnce
  <2> QED BY <1>4, <1>5, <2>2 DEF InHand
<1>8. \A v \in Uploads \ {u} : SameCreated(v) BY <1>5 DEF SameCreated
<1>9. /\ \A j \in row'[u].created : MayOwn(u, j)
      /\ \A j \in job'[b].ids : MayOwn(u, j)
  BY <1>1, <1>2, <1>4, <1>5 DEF MayOwn, Owns
<1>10. Importing(b)' /\ row'[u].status # "none"
  BY <1>3, <1>4, <1>5 DEF Importing, AttemptSteps
<1> QED BY <1>1, <1>2, <1>4, <1>6, <1>7, <1>8, <1>9, <1>10, ImportItems

(* However an attempt ends, its row lists what there is.                   *)
LEMMA EndItems ==
  ASSUME TypeOK, Settled, Orderly, ItemsTracked, ItemsInv, NEW b \in Backends,
         Importing(b), FinishDone(b) \/ Fail(b) \/ JobCrash(b)
  PROVE  ItemsInv'
<1>2. PICK u \in Uploads : u = job[b].up BY ImportKnown
<1>3. /\ row[u].status \in {"running", "materializing"} /\ InHand(b, u)
      /\ job \in [Backends -> Job] /\ row \in [Uploads -> Row] /\ bom' = bom
  BY <1>2, ImportKnown
  DEF TypeOK, BackendTypeOK, StoreTypeOK, FinishDone, Fail, JobCrash, store
<1>4. IdsOf(u) \subseteq row[u].created
  <2>1. CASE FinishDone(b) \/ Fail(b)
    BY <1>3, <2>1 DEF InHand, FinishDone, Fail
  <2>2. CASE JobCrash(b)
    <3>1. job[b].ids \subseteq row[u].created
      BY <1>2, <2>2 DEF JobCrash, ItemsTracked
    <3>2. \/ IdsOf(u) \subseteq job[b].ids
          \/ IdsOf(u) \subseteq row[u].created
          \/ ItemsOf(u) = {}
      BY <1>3 DEF InHand, Importing, AttemptSteps
    <3> QED BY <3>1, <3>2 DEF IdsOf
  <2> QED BY <2>1, <2>2
<1>5. /\ Importing(b)' => job'[b].up = u /\ job'[b].pc = "failing"
      /\ \A a \in Backends \ {b} : job'[a] = job[a]
  BY <1>2, <1>3, OrderlyMeans
  DEF FinishDone, Fail, JobCrash, To, Fails, Rest, NoJob, Job, Importing,
      AttemptSteps
<1>6. \A v \in Uploads : SameCreated(v)
  <2>1. row' = row \/ \E s \in Statuses \ {"none"} : SetStatus(u, s)
    BY <1>2 DEF FinishDone, Fail, JobCrash, store, Statuses
  <2> QED BY <1>3, <2>1 DEF SetStatus, SameCreated, Row
<1>7. \A v \in Uploads : ItemsOf(v)' = ItemsOf(v) BY <1>3 DEF ItemsOf
<1>8. IdsOf(u)' \subseteq row'[u].created
  BY <1>4, <1>6, <1>7 DEF IdsOf, SameCreated
<1>9. Importing(b)' => InHand(b, u)' BY <1>5, <1>8 DEF InHand
<1>10. row'[u].status # "none" BY <1>3, <1>6 DEF SameCreated
<1>11. /\ \A j \in row'[u].created : MayOwn(u, j)
       /\ Importing(b)' => \A j \in job'[b].ids : MayOwn(u, j)
  <2>1. Importing(b)' => job'[b].ids = job[b].ids
    BY <1>3, OrderlyMeans
    DEF FinishDone, Fail, JobCrash, To, Fails, Rest, NoJob, Job, Importing,
        AttemptSteps
  <2> QED BY <1>2, <1>6, <2>1 DEF MayOwn, Owns, SameCreated
<1> QED BY <1>2, <1>5, <1>6, <1>7, <1>8, <1>9, <1>10, <1>11, ImportItems

(* Every step of a backend keeps ItemsInv.                                 *)
LEMMA BackendItems ==
  ASSUME TypeOK, Settled, Orderly, ItemsTracked, ItemsInv, NEW b \in Backends,
         \/ BackendStep(b) \/ Maintenance(b)
         \/ JobCrash(b) /\ UNCHANGED <<run, req>>
  PROVE  ItemsInv'
<1>1. CASE JobClaims(b) BY <1>1, ClaimItems
<1>2. CASE \E i \in Items : RemoveItem(b, i) BY <1>2, RemoveItems
<1>3. CASE \E i \in Items : NewId(i) /\ CreateItem(b, i) BY <1>3, CreateItems
<1>4. CASE ForgetItems(b) BY <1>4, ForgetItemsKept
<1>5. CASE Load(b) \/ CreateFails(b) BY <1>5, LoadItems
<1>6. CASE RecordItem(b) BY <1>6, RecordItems
<1>7. CASE FinishDone(b) \/ Fail(b) \/ (JobCrash(b) /\ Importing(b))
  <2>1. Importing(b) BY <1>7 DEF FinishDone, Fail, Importing, AttemptSteps
  <2> QED BY <1>7, <2>1, EndItems
<1>8. CASE \/ RemoveParts(b) \/ RemoveSource(b) \/ RecordRemoval(b) \/ Maintenance(b)
           \/ JobCrash(b) /\ ~Importing(b)
  <2>1. ~Importing(b) /\ bom' = bom
    BY <1>8
    DEF RemoveParts, RemoveSource, RecordRemoval, Maintenance, Maintain, JobCrash,
        Importing, AttemptSteps, store
  <2>2. (\A a \in Backends \ {b} : job'[a] = job[a]) /\ ~Importing(b)'
    <3>1. \/ JobStep(b) /\ ~JobClaims(b)
          \/ \E expired \in SUBSET Uploads : Maintain(b, expired)
          \/ JobCrash(b)
      BY <1>8 DEF Maintenance, JobStep, JobClaims, RemoveParts, RemoveSource,
                  RecordRemoval
    <3> QED BY <2>1, <3>1, BackendMoves
  <2>3. \A v \in Uploads : SameCreated(v)
    <3>1. row \in [Uploads -> Row] BY DEF TypeOK, StoreTypeOK
    <3>2. row' = row \/ StampSource(job[b].up)
      BY <1>8 DEF RemoveParts, RemoveSource, RecordRemoval, Maintenance, Maintain,
                  JobCrash, store
    <3> QED BY <3>1, <3>2 DEF StampSource, SameCreated, Row
  <2>4. \A a \in Backends : job'[a] = job[a] \/ (~Importing(a) /\ ~Importing(a)')
    BY <2>1, <2>2
  <2> QED BY <2>1, <2>3, <2>4, ItemsStay
<1> QED BY <1>1, <1>2, <1>3, <1>4, <1>5, <1>6, <1>7, <1>8 DEF BackendStep, JobStep

(* What leaves the attempts alone, but may take items away from an upload  *)
(* that nobody imports.                                                    *)
LEMMA RestingItems ==
  ASSUME TypeOK, ItemsInv, job' = job, NEW u \in Uploads,
         \A b \in Backends : ~Imports(b, u),
         bom' \subseteq bom,
         \A v \in Uploads \ {u} : SameCreated(v) /\ ItemsOf(v)' = ItemsOf(v),
         \/ SameCreated(u)
         \/ row'[u].created = {} /\ ItemsOf(u)' = {}
  PROVE  ItemsInv'
<1>1. \A v \in Uploads, b \in Backends :
        (Imports(b, v)' <=> Imports(b, v)) /\ job'[b] = job[b]
  BY DEF Imports, Importing
<1>2. \A v \in Uploads \ {u} : ItemsAt(v)' BY <1>1, ItemsUntouched DEF ItemsInv
<1>3. ItemsAt(u)'
  <2>1. IdsOf(u) \subseteq row[u].created BY DEF ItemsInv, ItemsAt, Imports
  <2>2. IdsOf(u)' \subseteq row'[u].created
    BY <2>1 DEF IdsOf, ItemsOf, SameCreated
  <2>3. row'[u].status = "none" => row'[u].created = {}
    BY DEF ItemsInv, ItemsAt, SameCreated
  <2>4. \A b \in Backends : ~Imports(b, u)' BY <1>1
  <2> QED BY <2>2, <2>3, <2>4 DEF ItemsAt, Imports
<1>4. \A v \in Uploads, i \in Items : Owns(v, i)' => Owns(v, i)
  BY <1>1 DEF Owns, Imports, SameCreated
<1> QED BY <1>2, <1>3, <1>4 DEF ItemsInv, IdsApart

(* Requests, users and housekeeping.                                       *)
LEMMA OtherItems ==
  ASSUME TypeOK, Settled, ItemsTracked, ItemsInv,
         \/ \E r \in Requests : RequestArrives(r) \/ RequestRuns(r)
         \/ \E u \in Uploads : TimePasses(u) \/ RowPruned(u)
         \/ ItemDeleted
         \/ \E w \in Runners : RunnerCrash(w) /\ UNCHANGED <<job, req>>
         \/ UNCHANGED vars
  PROVE  ItemsInv'
<1>1. /\ row \in [Uploads -> Row] /\ req \in [Requests -> Req] /\ job' = job
      /\ \A b \in Backends : job'[b] = job[b] \/ (~Importing(b) /\ ~Importing(b)')
  <2>1. job' = job
    BY DEF RequestArrives, RequestRuns, TimePasses, RowPruned, ItemDeleted, vars
  <2> QED BY <2>1 DEF TypeOK, StoreTypeOK, ApiTypeOK
<1>2. CASE row' = row /\ bom' = bom
  BY <1>1, <1>2, ItemsStay DEF SameCreated
<1>3. ASSUME NEW u \in Uploads, TimePasses(u) PROVE ItemsInv'
  <2>1. bom' = bom /\ \A v \in Uploads : SameCreated(v)
    BY <1>1, <1>3 DEF TimePasses, GoStale, SameCreated, Row
  <2> QED BY <1>1, <2>1, ItemsStay
<1>4. ASSUME NEW u \in Uploads, RowPruned(u) PROVE ItemsInv'
  <2>1. /\ row[u].status = "failed" /\ ItemsOf(u) = {} /\ bom' = bom
        /\ row' = [x \in Uploads |-> IF x = u THEN NoRow
                     ELSE [row[x] EXCEPT !.after = row[x].after \ {u}]]
    BY <1>4 DEF RowPruned, Prune, ItemsTracked
  <2>2. \A b \in Backends : ~Imports(b, u)
    BY <2>1 DEF Settled, SettledAt, Working
  <2>3. /\ \A v \in Uploads \ {u} : SameCreated(v)
        /\ row'[u].created = {}
    BY <1>1, <2>1 DEF NoRow, SameCreated, Row
  <2>4. \A v \in Uploads : ItemsOf(v)' = ItemsOf(v) BY <2>1 DEF ItemsOf
  <2> QED BY <1>1, <2>1, <2>2, <2>3, <2>4, RestingItems
<1>5. CASE ItemDeleted
  <2>1. PICK x \in bom : UserDeletes(x) BY <1>5 DEF ItemDeleted
  <2>2. PICK u \in Uploads : u = x.up BY <2>1 DEF TypeOK, StoreTypeOK, BomItem
  <2>3. row[u].status = "done" /\ bom' = bom \ {x} /\ row' = row
    BY <2>1, <2>2 DEF UserDeletes, ItemsTracked
  <2>4. \A b \in Backends : ~Imports(b, u)
    BY <2>3 DEF Settled, SettledAt, Working
  <2>5. /\ \A v \in Uploads \ {u} : SameCreated(v) /\ ItemsOf(v)' = ItemsOf(v)
        /\ SameCreated(u) /\ bom' \subseteq bom
    BY <2>2, <2>3 DEF SameCreated, ItemsOf
  <2> QED BY <1>1, <2>4, <2>5, RestingItems
<1>6. ASSUME NEW r \in Requests, Insert(r) \/ Requeue(r), row' # row
      PROVE  ItemsInv'
  <2>1. PICK u \in Uploads : u = req[r].up BY <1>1 DEF Req
  <2>2. bom' = bom BY <1>6 DEF Insert, Requeue
  <2>3. CASE Insert(r)
    <3>1. PICK older : /\ row[u].status = "none"
                       /\ row' = [row EXCEPT ![u] =
                            [NoRow EXCEPT !.status = "queued", !.after = older]]
      BY <1>6, <2>1, <2>3 DEF Insert
    <3>2. row[u].created = {} BY <3>1 DEF ItemsInv, ItemsAt
    <3>3. \A v \in Uploads : SameCreated(v)
      BY <1>1, <3>1, <3>2 DEF NoRow, SameCreated
    <3> QED BY <1>1, <2>2, <3>3, ItemsStay
  <2>4. CASE Requeue(r)
    <3>1. row' = [row EXCEPT ![u].status = "queued", ![u].attempts = 0,
                             ![u].tries = 0, ![u].gone = FALSE]
      BY <1>6, <2>1, <2>4 DEF Requeue
    <3>2. \A v \in Uploads : SameCreated(v) BY <1>1, <3>1 DEF SameCreated, Row
    <3> QED BY <1>1, <2>2, <3>2, ItemsStay
  <2> QED BY <1>6, <2>3, <2>4
<1>7. \/ row' = row /\ bom' = bom
      \/ \E u \in Uploads : TimePasses(u) \/ RowPruned(u)
      \/ ItemDeleted
      \/ \E r \in Requests : (Insert(r) \/ Requeue(r)) /\ row' # row
  BY DEF RequestArrives, RequestRuns, RequestStep, Find, CheckItems, Put, Insert,
         FindRaced, Requeue, RequestFails, RunnerCrash, vars, store
<1> QED BY <1>2, <1>3, <1>4, <1>5, <1>6, <1>7

(* ItemsInv is inductive, given SafetyInv.                                 *)
LEMMA ItemsStep ==
  ASSUME TypeOK, SafetyInv, Orderly, ItemsTracked, ItemsInv, [Next]_vars
  PROVE  ItemsInv'
<1>1. Settled BY HeldIsSettled DEF SafetyInv, Held
<1>2. ASSUME NEW w \in Runners, CadRunnerStep(w) PROVE ItemsInv'
  <2>1. \A v \in Uploads : SameCreated(v) BY <1>2, RunnerCarries DEF Carries
  <2>2. /\ bom' = bom
        /\ \A b \in Backends : job'[b] = job[b] \/ (~Importing(b) /\ ~Importing(b)')
    BY <1>2
    DEF CadRunnerStep, RunnerStep, RunnerClaims, Download, Analyse, PartNotReturned,
        StorePart, FinishAnalysed, CleanPart, EndCleanup, FinishFailed, store
  <2> QED BY <2>1, <2>2, ItemsStay
<1> QED BY <1>1, <1>2, BackendItems, OtherItems DEF Next, ProcessDies

(* At the start nothing is imported and nobody imports.                    *)
LEMMA ItemsInit == Init => ItemsInv
<1> SUFFICES ASSUME Init PROVE ItemsInv OBVIOUS
<1>1. /\ \A b \in Backends : job[b] = NoJob
      /\ \A u \in Uploads : row[u] = NoRow
      /\ bom = {}
  BY DEF Init, StoreInit, BackendInit
<1>2. /\ \A b \in Backends : ~Importing(b)
      /\ \A u \in Uploads : row[u].created = {} /\ ItemsOf(u) = {}
  BY <1>1 DEF NoRow, NoJob, Importing, AttemptSteps, ItemsOf
<1>3. \A u \in Uploads : IdsOf(u) = {} BY <1>2 DEF IdsOf
<1> QED BY <1>2, <1>3 DEF ItemsInv, ItemsAt, IdsApart, Owns

(* At each step of an import, its upload's row and its attempt say which   *)
(* items there are.                                                        *)
THEOREM ItemsCorrect ==
  ASSUME Orderly, ItemsTracked PROVE Spec => [](TypeOK /\ SafetyInv /\ ItemsInv)
<1>1. TypeOK /\ SafetyInv /\ ItemsInv /\ [Next]_vars => ItemsInv' BY ItemsStep
<1> QED BY <1>1, ItemsInit, SafetyCorrect, PTL DEF Spec

(* Every imported item is one the row or the attempt under way knows of.   *)
THEOREM ItemsAreAccounted ==
  ASSUME Orderly, ItemsTracked PROVE Spec => []ItemsAccounted
<1>1. TypeOK /\ ItemsInv => ItemsAccounted BY ItemOwned DEF ItemsAccounted, Owns
<1> QED BY <1>1, ItemsCorrect, PTL

(* Only the end of an import makes an upload done.                         *)
LEMMA BecomesDone ==
  ASSUME TypeOK, SafetyInv, [Next]_vars, NEW u \in Uploads,
         row[u].status # "done", row'[u].status = "done"
  PROVE  \E b \in Backends : FinishDone(b) /\ job[b].up = u
<1>1. Settled BY HeldIsSettled DEF SafetyInv, Held
<1>2. row \in [Uploads -> Row] BY DEF TypeOK, StoreTypeOK
<1>3. ASSUME \E v \in Uploads : ClaimNextCadUpload(v) \/ ClaimNextAnalysedUpload(v)
      PROVE  FALSE
  BY <1>3, CadClaimRows, CadClaimOthers, AnalysedClaimRows, AnalysedClaimOthers
  DEF SameRow
<1>4. ASSUME SweepCadUploads \/ SweepAnalysedUploads PROVE FALSE
  BY <1>4, SweepRows DEF SameRow
<1>5. ASSUME NEW w \in Runners, CadRunnerStep(w) PROVE FALSE
  <2>1. ~RunnerClaims(w) BY <1>3, <1>4 DEF RunnerClaims
  <2>2. MarkAnalysed(run[w].up) \/ MarkFailed(run[w].up, run[w].retry)
    BY <1>5, <2>1
    DEF CadRunnerStep, RunnerStep, Download, Analyse, PartNotReturned, StorePart,
        CleanPart, FinishAnalysed, EndCleanup, FinishFailed, store
  <2> QED BY <1>2, <2>2 DEF MarkAnalysed, MarkFailed, Row
<1>6. ASSUME NEW b \in Backends,
             \/ BackendStep(b) \/ Maintenance(b)
             \/ JobCrash(b) /\ UNCHANGED <<run, req>>
      PROVE  FinishDone(b) /\ job[b].up = u
  <2>1. ~JobClaims(b) BY <1>3, <1>4 DEF JobClaims
  <2>2. FinishDone(b) \/ Fail(b)
    BY <1>6, <2>1, JobStepRows
    DEF BackendStep, JobStep, Maintenance, Maintain, store, SameRow
  <2>3. \E s \in Statuses : SetStatus(job[b].up, s) /\ (s = "done" => FinishDone(b))
    BY <2>2 DEF FinishDone, Fail, Statuses
  <2> QED BY <1>2, <2>3 DEF SetStatus, Row
<1>7. ASSUME \/ \E r \in Requests : RequestArrives(r) \/ RequestRuns(r)
             \/ \E v \in Uploads : TimePasses(v) \/ RowPruned(v)
             \/ ItemDeleted
             \/ \E w \in Runners : RunnerCrash(w) /\ UNCHANGED <<job, req>>
             \/ UNCHANGED vars
      PROVE  FALSE
  <2>1. \A v \in Uploads : row'[v].status = row[v].status \/ row'[v].status # "done"
    BY <1>7, OtherStatuses
  <2> QED BY <2>1
<1> QED BY <1>5, <1>6, <1>7 DEF Next, ProcessDies

(* An upload becomes done only with each of its lines once in the BOM and  *)
(* exactly these items on its row.                                         *)
THEOREM DoneTreesAreWhole ==
  ASSUME Orderly, ItemsTracked PROVE Spec => DoneTreeWhole
<1>1. ASSUME TypeOK, SafetyInv, ItemsInv, [Next]_vars, NEW u \in Uploads,
             row[u].status # "done", row'[u].status = "done"
      PROVE  Whole(u)
  <2>1. PICK b \in Backends : FinishDone(b) /\ job[b].up = u
    BY <1>1, BecomesDone
  <2>2. Importing(b) /\ job[b].pc = "creating" /\ job[b].todo = {}
    BY <2>1 DEF FinishDone, Importing, AttemptSteps
  <2>3. InHand(b, u) BY <1>1, <2>1, <2>2 DEF ItemsInv, ItemsAt
  <2> QED BY <2>2, <2>3 DEF InHand, Whole, LineOnce, IdsOf
<1>2. TypeOK /\ SafetyInv /\ ItemsInv /\ [Next]_vars =>
        [\A u \in Uploads :
           row[u].status # "done" /\ row'[u].status = "done" => Whole(u)]_vars
  BY <1>1
<1> QED BY <1>2, ItemsCorrect, PTL DEF Spec, DoneTreeWhole

-----------------------------------------------------------------------------
(* Originals.                                                              *)

(* Why originals are kept: an original goes only while its row is about to *)
(* say so, and a request that will start the upload without storing it has *)
(* seen, or has put, an original that nobody can have removed since.       *)
SourcesApart == \A u, v \in Uploads : SourceOf[u] = SourceOf[v] => u = v

Stamping(u) == \E b \in Backends : job[b].pc = "stamp" /\ job[b].up = u

CountsOnSource(r) ==
  \/ req[r].pc \in {"inserting", "racing", "requeueing"}
  \/ req[r].pc = "checking" /\ (req[r].gone => req[r].raced)

OriginalAt(u) == row[u].status # "none" /\ ~row[u].gone /\ ~Stamping(u)
                   => SourceOf[u] \in source

SourceInv ==
  /\ \A u \in Uploads : OriginalAt(u)
  /\ \A r \in Requests : CountsOnSource(r) => SourceOf[req[r].up] \in source

(* A step that removes no original and clears no mark leaves u's as it is. *)
LEMMA OriginalStays ==
  ASSUME NEW u \in Uploads, OriginalAt(u), SameGone(u), source \subseteq source',
         \A b \in Backends : job[b].pc = "stamp" => job'[b] = job[b]
  PROVE  OriginalAt(u)'
<1>1. Stamping(u) => Stamping(u)' BY DEF Stamping
<1> QED BY <1>1 DEF OriginalAt, SameGone

(* SourceInv is kept when no original goes, no row says otherwise of its   *)
(* original, no request moves and whoever is about to say so still is.     *)
LEMMA SourceStays ==
  ASSUME SourceInv, req' = req, source \subseteq source',
         \A u \in Uploads : SameGone(u),
         \A b \in Backends : job[b].pc = "stamp" => job'[b] = job[b]
  PROVE  SourceInv'
<1>1. \A u \in Uploads : OriginalAt(u)'
  BY OriginalStays DEF SourceInv, OriginalAt
<1>2. \A r \in Requests : CountsOnSource(r)' => SourceOf[req'[r].up] \in source'
  BY DEF SourceInv, CountsOnSource
<1> QED BY <1>1, <1>2 DEF SourceInv, OriginalAt

(* A removal concerns no request and no other upload, and its upload is    *)
(* about to be stamped.                                                    *)
LEMMA RemoveSourceKept ==
  ASSUME TypeOK, SafetyInv, SourceInv, SourcesApart, NEW b \in Backends,
         RemoveSource(b), req' = req
  PROVE  SourceInv'
<1>1. job \in [Backends -> Job] /\ SourceOf \in [Uploads -> Sources]
  BY StoreAssumption DEF TypeOK, BackendTypeOK
<1>2. PICK u \in Uploads : u = job[b].up BY <1>1 DEF Job
<1>3. job[b].pc = "source" /\ row' = row BY DEF RemoveSource
<1>4. \A a \in Backends \ {b} : job'[a] = job[a]
  BY <1>3, BackendMoves DEF JobStep, JobClaims
<1>5. \A v \in Uploads : SameGone(v) BY <1>3 DEF SameGone
<1>6. \A a \in Backends : job[a].pc = "stamp" => job'[a] = job[a] BY <1>3, <1>4
<1>7. CASE source' = source BY <1>5, <1>6, <1>7, SourceStays
<1>8. CASE source' = source \ {SourceOf[u]} /\ To(b, "stamp")
  <2>1. job'[b].pc = "stamp" /\ job'[b].up = u BY <1>1, <1>2, <1>8 DEF To, Job
  <2>2. OriginalAt(u)' BY <2>1 DEF OriginalAt, Stamping
  <2>3. ASSUME NEW v \in Uploads \ {u} PROVE OriginalAt(v)'
    <3>1. SourceOf[v] # SourceOf[u] BY <2>3 DEF SourcesApart
    <3>2. Stamping(v) => Stamping(v)' BY <1>6 DEF Stamping
    <3> QED BY <1>3, <1>8, <3>1, <3>2 DEF SourceInv, OriginalAt
  <2>4. ASSUME NEW r \in Requests, CountsOnSource(r)'
        PROVE  SourceOf[req'[r].up] \in source'
    <3>1. CountsOnSource(r) /\ InFlight(r) BY <2>4 DEF CountsOnSource, InFlight
    <3>2. Tidying(b, u) BY <1>2, <1>3 DEF Tidying
    <3>3. req[r].up # u BY <3>1, <3>2 DEF SafetyInv, RequestsAlone
    <3>4. req[r].up \in Uploads BY DEF TypeOK, ApiTypeOK, Req
    <3>5. SourceOf[req[r].up] # SourceOf[u] BY <3>3, <3>4 DEF SourcesApart
    <3> QED BY <1>8, <3>1, <3>5 DEF SourceInv
  <2> QED BY <2>2, <2>3, <2>4 DEF SourceInv, OriginalAt
<1> QED BY <1>2, <1>7, <1>8 DEF RemoveSource

(* The row says that its original is gone.                                 *)
LEMMA RecordRemovalKept ==
  ASSUME TypeOK, SourceInv, "unstamped" \notin Faults, NEW b \in Backends,
         RecordRemoval(b), req' = req
  PROVE  SourceInv'
<1>1. job \in [Backends -> Job] /\ row \in [Uploads -> Row]
  BY DEF TypeOK, BackendTypeOK, StoreTypeOK
<1>2. PICK u \in Uploads : u = job[b].up BY <1>1 DEF Job
<1>3. /\ row' = [row EXCEPT ![u].gone = row[u].status # "none"]
      /\ source' = source /\ job[b].pc = "stamp"
  BY <1>2 DEF RecordRemoval, StampSource
<1>4. \A a \in Backends \ {b} : job'[a] = job[a]
  BY <1>3, BackendMoves DEF JobStep, JobClaims
<1>5. OriginalAt(u)'
  <2>1. PICK gone : row' = [row EXCEPT ![u].gone = gone]
                    /\ gone = (row[u].status # "none")
    BY <1>3
  <2>2. row'[u].status = row[u].status /\ row'[u].gone = gone
    BY <1>1, <2>1 DEF Row
  <2> QED BY <2>1, <2>2 DEF OriginalAt
<1>6. ASSUME NEW v \in Uploads \ {u} PROVE OriginalAt(v)'
  <2>1. row'[v] = row[v] BY <1>1, <1>3
  <2>2. Stamping(v) => Stamping(v)' BY <1>2, <1>4 DEF Stamping
  <2> QED BY <1>3, <2>1, <2>2 DEF SourceInv, OriginalAt
<1>7. \A r \in Requests : CountsOnSource(r)' => SourceOf[req'[r].up] \in source'
  BY <1>3 DEF SourceInv, CountsOnSource
<1> QED BY <1>5, <1>6, <1>7 DEF SourceInv, OriginalAt

(* Every step of a backend keeps SourceInv.                                *)
LEMMA BackendSource ==
  ASSUME TypeOK, SafetyInv, SourceInv, SourcesApart, "unstamped" \notin Faults,
         NEW b \in Backends,
         \/ BackendStep(b) \/ Maintenance(b)
         \/ JobCrash(b) /\ UNCHANGED <<run, req>>
  PROVE  SourceInv'
<1>1. req' = req BY DEF BackendStep, Maintenance
<1>2. CASE RemoveSource(b) BY <1>1, <1>2, RemoveSourceKept
<1>3. CASE RecordRemoval(b) BY <1>1, <1>3, RecordRemovalKept
<1>4. CASE ~RemoveSource(b) /\ ~RecordRemoval(b)
  <2>1. source' = source
    BY <1>4
    DEF BackendStep, JobStep, Maintenance, Maintain, JobCrash, JobClaims, RemoveItem,
        ForgetItems, Load, CreateItem, RecordItem, CreateFails, FinishDone, Fail,
        RemoveParts, store
  <2>2. job[b].pc # "stamp"
    BY <1>4
    DEF BackendStep, JobStep, Maintenance, Maintain, JobCrash, JobClaims, RemoveItem,
        ForgetItems, Load, CreateItem, RecordItem, CreateFails, FinishDone, Fail,
        RemoveParts
  <2>3. \A a \in Backends : job[a].pc = "stamp" => job'[a] = job[a]
    <3>1. CASE JobClaims(b)
      <4>1. job' = job \/ \E j : job' = [job EXCEPT ![b] = j] BY <3>1 DEF JobClaims
      <4> QED BY <2>2, <4>1 DEF TypeOK, BackendTypeOK
    <3>2. CASE ~JobClaims(b)
      BY <2>2, <3>2, BackendMoves DEF BackendStep, Maintenance
    <3> QED BY <3>1, <3>2
  <2>4. ASSUME NEW v \in Uploads PROVE SameGone(v)
    <3>1. CASE Carries(v) BY <3>1 DEF Carries
    <3>2. CASE ForgetItems(b) \/ RecordItem(b)
      <4>1. row' = row \/ \E ids : SaveCreated(job[b].up, ids)
        BY <3>2 DEF ForgetItems, RecordItem
      <4>2. row' = row \/ \E x : row' = [row EXCEPT ![job[b].up].created = x]
        BY <4>1 DEF SaveCreated
      <4>3. row \in [Uploads -> Row] BY DEF TypeOK, StoreTypeOK
      <4>4. CASE row' = row BY <4>4 DEF SameGone
      <4>5. CASE \E x : row' = [row EXCEPT ![job[b].up].created = x]
        <5>1. PICK x : row' = [row EXCEPT ![job[b].up].created = x] BY <4>5
        <5>2. row'[v].gone = row[v].gone /\ row'[v].status = row[v].status
          BY <4>3, <5>1 DEF Row
        <5> QED BY <5>2 DEF SameGone
      <4> QED BY <4>2, <4>4, <4>5
    <3> QED BY <1>4, <3>1, <3>2, BackendCarries
  <2> QED BY <1>1, <2>1, <2>3, <2>4, SourceStays
<1> QED BY <1>2, <1>3, <1>4

(* Requests count on what they have seen or put.                           *)
LEMMA RequestSource ==
  ASSUME TypeOK, SafetyInv, SourceInv, Orderly, NEW r \in Requests,
         RequestArrives(r) \/ RequestRuns(r)
  PROVE  SourceInv'
<1>1. /\ req \in [Requests -> Req] /\ row \in [Uploads -> Row] /\ job' = job
      /\ source \subseteq source'
  BY DEF TypeOK, ApiTypeOK, StoreTypeOK, RequestArrives, RequestRuns, RequestStep,
         Find, CheckItems, Put, Insert, FindRaced, Requeue, RequestFails, store
<1>2. /\ \A q \in Requests \ {r} : req'[q] = req[q]
      /\ CountsOnSource(r)' =>
           /\ req'[r].up \in Uploads
           /\ SourceOf[req'[r].up] \in source'
  <2>1. CASE Ends(r) BY <1>1, <2>1 DEF Ends, NoReq, CountsOnSource
  <2>2. ASSUME NEW u \in Uploads, NEW raced \in BOOLEAN, Judge(r, u, raced), ~Ends(r),
               ~row[u].gone \/ raced => SourceOf[u] \in source
        PROVE  /\ \A q \in Requests \ {r} : req'[q] = req[q]
               /\ CountsOnSource(r)' =>
                    req'[r].up \in Uploads /\ SourceOf[req'[r].up] \in source
    BY <1>1, <2>2 DEF Judge, AfterRepeatCheck, CountsOnSource, Req
  <2>3. CASE RequestArrives(r) /\ ~Ends(r)
    <3>1. PICK u \in Uploads : MayTouch(u) /\ Find(r, u) BY <2>3 DEF RequestArrives
    <3>2. ~Stamping(u)
      BY <3>1, OrderlyMeans DEF MayTouch, Quiet, Tidying, Stamping
    <3>3. CASE row[u].status = "none" BY <1>1, <2>3, <3>1, <3>3
      DEF Find, Judge, CountsOnSource, Req
    <3>4. CASE row[u].status # "none"
      <4>1. ~row[u].gone => SourceOf[u] \in source BY <3>2, <3>4 DEF SourceInv, OriginalAt
      <4>2. Judge(r, u, FALSE) /\ source' = source BY <3>1, <3>4 DEF Find, store
      <4> QED BY <2>2, <2>3, <4>1, <4>2
    <3> QED BY <3>3, <3>4
  <2>4. CASE FindRaced(r) /\ ~Ends(r)
    <3>1. PICK u \in Uploads : u = req[r].up BY <1>1 DEF Req
    <3>2. SourceOf[u] \in source
      BY <2>4, <3>1 DEF FindRaced, SourceInv, CountsOnSource
    <3>3. Judge(r, u, TRUE) /\ source' = source
      BY <2>4, <3>1 DEF FindRaced, store
    <3> QED BY <2>2, <2>4, <3>2, <3>3
  <2>5. CASE CheckItems(r) /\ ~Ends(r)
    <3>1. /\ req[r].pc = "checking"
          /\ req' = [req EXCEPT ![r].pc = AfterRepeatCheck(req[r].gone, req[r].raced)]
      BY <2>5 DEF CheckItems
    <3>2. CountsOnSource(r)' => CountsOnSource(r)
      BY <1>1, <3>1 DEF CountsOnSource, AfterRepeatCheck, Req
    <3> QED BY <1>1, <3>1, <3>2 DEF SourceInv, Req
  <2>6. CASE Put(r)
    BY <1>1, <2>6 DEF Put, Req
  <2>7. CASE Insert(r) /\ ~Ends(r)
    <3>1. CountsOnSource(r) /\ req' = [req EXCEPT ![r].pc = "racing"]
      BY <2>7 DEF Insert, CountsOnSource
    <3> QED BY <1>1, <3>1 DEF SourceInv, Req
  <2> QED BY <2>1, <2>3, <2>4, <2>5, <2>6, <2>7
      DEF RequestRuns, RequestStep, Requeue, RequestFails
<1>3. \A q \in Requests : CountsOnSource(q)' => SourceOf[req'[q].up] \in source'
  BY <1>1, <1>2 DEF SourceInv, CountsOnSource
<1>4. \A v \in Uploads : OriginalAt(v)'
  <2>1. ASSUME NEW v \in Uploads, SameGone(v) PROVE OriginalAt(v)'
    BY <1>1, <2>1, OriginalStays DEF SourceInv, OriginalAt
  <2>2. CASE row' = row BY <2>1, <2>2 DEF SameGone
  <2>3. CASE row' # row
    <3>1. PICK u \in Uploads : u = req[r].up BY <1>1 DEF Req
    <3>2. /\ CountsOnSource(r)
          /\ \A v \in Uploads \ {u} : row'[v] = row[v]
      BY <1>1, <2>3, <3>1
      DEF RequestArrives, RequestRuns, RequestStep, Find, CheckItems, Put, Insert,
          FindRaced, Requeue, RequestFails, store, CountsOnSource
    <3>3. OriginalAt(u)' BY <1>1, <3>1, <3>2 DEF OriginalAt, SourceInv
    <3> QED BY <2>1, <3>2, <3>3 DEF SameGone
  <2> QED BY <2>2, <2>3
<1> QED BY <1>3, <1>4 DEF SourceInv, OriginalAt

(* SourceInv is inductive, given SafetyInv.                                *)
LEMMA SourceStep ==
  ASSUME TypeOK, SafetyInv, SourceInv, Orderly, SourcesApart,
         "unstamped" \notin Faults, [Next]_vars
  PROVE  SourceInv'
<1>0. row \in [Uploads -> Row] BY DEF TypeOK, StoreTypeOK
<1>1. ASSUME NEW w \in Runners, CadRunnerStep(w) PROVE SourceInv'
  <2>1. \A v \in Uploads : SameGone(v) BY <1>1, RunnerCarries DEF Carries
  <2>2. UNCHANGED <<source, job, req>>
    BY <1>1
    DEF CadRunnerStep, RunnerStep, RunnerClaims, Download, Analyse, PartNotReturned,
        StorePart, FinishAnalysed, CleanPart, EndCleanup, FinishFailed, store
  <2> QED BY <2>1, <2>2, SourceStays
<1>2. ASSUME NEW u \in Uploads, RowPruned(u) PROVE SourceInv'
  <2>1. /\ row' = [x \in Uploads |-> IF x = u THEN NoRow
                     ELSE [row[x] EXCEPT !.after = row[x].after \ {u}]]
        /\ UNCHANGED <<source, job, req>>
    BY <1>2 DEF RowPruned, Prune
  <2>2. OriginalAt(u)' BY <2>1 DEF OriginalAt, NoRow
  <2>3. ASSUME NEW v \in Uploads \ {u} PROVE OriginalAt(v)'
    <3>1. SameGone(v) BY <1>0, <2>1, <2>3 DEF SameGone, Row
    <3> QED BY <2>1, <3>1, OriginalStays DEF SourceInv, OriginalAt
  <2> QED BY <2>1, <2>2, <2>3 DEF SourceInv, OriginalAt, CountsOnSource
<1>3. CASE \/ \E u \in Uploads : TimePasses(u)
           \/ ItemDeleted
           \/ \E w \in Runners : RunnerCrash(w) /\ UNCHANGED <<job, req>>
           \/ UNCHANGED vars
  <2>1. UNCHANGED <<source, job, req>>
    BY <1>3 DEF TimePasses, GoStale, ItemDeleted, UserDeletes, RunnerCrash, store,
                vars
  <2>2. row' = row \/ \E u \in Uploads : row' = [row EXCEPT ![u].stale = TRUE]
    BY <1>3 DEF TimePasses, GoStale, ItemDeleted, UserDeletes, RunnerCrash, store,
                vars
  <2>3. \A v \in Uploads : SameGone(v) BY <1>0, <2>2 DEF SameGone, Row
  <2> QED BY <2>1, <2>3, SourceStays
<1> QED BY <1>1, <1>2, <1>3, BackendSource, RequestSource DEF Next, ProcessDies

(* At the start there is no row and no request.                            *)
LEMMA SourceInit == Init => SourceInv
<1> SUFFICES ASSUME Init PROVE SourceInv OBVIOUS
<1>1. /\ \A r \in Requests : req[r] = NoReq
      /\ \A u \in Uploads : row[u] = NoRow
  BY DEF Init, StoreInit, ApiInit
<1> QED BY <1>1 DEF SourceInv, OriginalAt, NoRow, NoReq, CountsOnSource

(* An original is there unless its row says, or is about to say, that it   *)
(* is gone, and for whoever counts on it.                                  *)
THEOREM SourceCorrect ==
  ASSUME Orderly, SourcesApart, "unstamped" \notin Faults
  PROVE  Spec => [](TypeOK /\ SafetyInv /\ SourceInv)
<1>1. TypeOK /\ SafetyInv /\ SourceInv /\ [Next]_vars => SourceInv' BY SourceStep
<1> QED BY <1>1, SourceInit, SafetyCorrect, PTL DEF Spec

(* The original an upload in progress will need is stored unless its row   *)
(* says it is gone.                                                        *)
THEOREM SourceIsKept ==
  ASSUME Orderly, SourcesApart, "unstamped" \notin Faults
  PROVE  Spec => []SourceKept
<1>1. SourceInv => SourceKept
  BY DEF SourceInv, OriginalAt, SourceKept, Stamping, Tidying
<1> QED BY <1>1, SourceCorrect, PTL
=============================================================================
