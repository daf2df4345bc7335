---------------------------- MODULE BackendRunner ----------------------------
(***************************************************************************)
(* class CadUploadRunner of the backend (cad-upload-runner.ts), one per    *)
(* API replica.  With CAD_CORE=rust it turns analysed uploads into BOM     *)
(* items (materialize); without it it also does the analysis (process).    *)
(* One action per awaited call that reads or writes shared state.          *)
(***************************************************************************)
EXTENDS UploadStore

CONSTANTS
  Backends,   \* API replicas
  RustCore    \* CAD_CORE=rust

ASSUME BackendAssumption == IsFiniteSet(Backends) /\ RustCore \in BOOLEAN

VARIABLE job  \* what each replica's runner is doing

(* `ids` are the item ids in hand: first those of an earlier attempt, then *)
(* the ones createItems has made; `todo` are the lines it has still to     *)
(* make; `list` the uploads whose original maintenance is to remove.       *)
Job == [pc : {"idle", "removing", "loading", "creating", "recording",
              "undoing", "failing", "parts", "source", "stamp"},
        up : Uploads, attempt : Nat, gone : BOOLEAN, ids : SUBSET Items,
        todo : SUBSET Lines, permanent : BOOLEAN, list : SUBSET Uploads]

BackendTypeOK == job \in [Backends -> Job]

NoJob == [pc |-> "idle", up |-> AnyUpload, attempt |-> 0, gone |-> FALSE,
          ids |-> {}, todo |-> {}, permanent |-> FALSE, list |-> {}]

BackendInit == job = [b \in Backends |-> NoJob]

AttemptSteps == {"removing", "loading", "creating", "recording", "undoing",
                 "failing"}

Importing(b) == job[b].pc \in AttemptSteps

(* The status a row has while this runner's attempt is on it.              *)
Working == IF RustCore THEN "materializing" ELSE "running"

(* The attempts of this half that were begun.                              *)
Begun(u) == IF RustCore THEN row[u].tries ELSE row[u].attempts

To(b, pc) == job' = [job EXCEPT ![b].pc = pc]

Fails(b, permanent) ==
  job' = [job EXCEPT ![b].pc = "failing", ![b].permanent = permanent]

Rest(b) == job' = [job EXCEPT ![b] = NoJob]

-----------------------------------------------------------------------------
JobClaimsOnTop(b) ==   \* a retry does not start clean
  /\ job[b].pc = "idle"
  /\ \E u \in Uploads :
       /\ IF RustCore THEN ClaimNextAnalysedUpload(u) ELSE ClaimNextCadUpload(u)
       /\ job' = [job EXCEPT ![b] =
            [NoJob EXCEPT !.pc = "loading", !.up = u, !.attempt = Begun(u) + 1,
                          !.gone = row[u].gone]]
  /\ UNCHANGED <<bom, parts, source>>

(* materializeNext and analyseNext.                                        *)
JobClaims(b) ==
  /\ job[b].pc = "idle"
  /\ \/ \E u \in Uploads :
          /\ IF RustCore THEN ClaimNextAnalysedUpload(u)
                         ELSE ClaimNextCadUpload(u)
          /\ job' = [job EXCEPT ![b] =
               [NoJob EXCEPT
                  !.pc = IF row[u].created = {} THEN "loading" ELSE "removing",
                  !.up = u,
                  !.attempt = Begun(u) + 1,
                  !.gone = row[u].gone,
                  !.ids = row[u].created]]
     \/ /\ IF RustCore THEN SweepAnalysedUploads ELSE SweepCadUploads
        /\ job' = job
  /\ UNCHANGED <<bom, parts, source>>

(* deleteItemsForUpload: a delete that fails is only logged.               *)
RemoveItem(b, i) ==
  /\ job[b].pc \in {"removing", "undoing"}
  /\ i \in job[b].ids
  /\ \/ bom' = Without(i)
     \/ "undeleted" \in Faults /\ bom' = bom
  /\ job' = [job EXCEPT ![b].ids = job[b].ids \ {i}]
  /\ UNCHANGED <<row, parts, source>>

ForgetItemsFirst(b) ==   \* the list is cleared before the items are removed
  /\ job[b].pc \in {"removing", "undoing"}
  /\ SaveCreated(job[b].up, {})
  /\ IF job[b].pc = "removing" THEN To(b, "loading") ELSE Fails(b, FALSE)
  /\ UNCHANGED <<bom, parts, source>>

(* saveCreated([]) after the removals: at the start of an attempt, or on   *)
(* createItems' way out, after which the attempt's error is rethrown.      *)
ForgetItems(b) ==
  /\ job[b].pc \in {"removing", "undoing"}
  /\ job[b].ids = {}
  /\ \/ /\ SaveCreated(job[b].up, {})
        /\ IF job[b].pc = "removing" THEN To(b, "loading") ELSE Fails(b, FALSE)
     \/ /\ "error" \in Faults
        /\ row' = row
        /\ Fails(b, FALSE)
     \/ /\ "lost" \in Faults
        /\ SaveCreated(job[b].up, {})
        /\ Fails(b, FALSE)
  /\ UNCHANGED <<bom, parts, source>>

(* What an attempt needs: the stored parts, or the original and the        *)
(* engine.  A report that does not parse, files the engine refuses and a   *)
(* removed original are permanent.                                         *)
Load(b) ==
  LET u == job[b].up
      expired == ~RustCore /\ job[b].gone
      there == IF RustCore THEN Parts \subseteq parts[u]
                           ELSE SourceOf[u] \in source
  IN  /\ job[b].pc = "loading"
      /\ \/ /\ ~expired /\ there
            /\ job' = [job EXCEPT ![b].pc = "creating", ![b].todo = Lines]
         \/ /\ ~expired
            /\ ~there \/ "error" \in Faults
            /\ Fails(b, FALSE)
         \/ Fails(b, TRUE)
      /\ UNCHANGED store

(* createForUpload, for the next line of the plan.                         *)
CreateItem(b, i) ==
  /\ job[b].pc = "creating"
  /\ \E l \in job[b].todo :
       /\ \A k \in job[b].todo : l <= k
       /\ bom' = bom \cup {[id |-> i, up |-> job[b].up, line |-> l]}
       /\ \/ job' = [job EXCEPT ![b].pc = "recording",
                                ![b].ids = job[b].ids \cup {i},
                                ![b].todo = job[b].todo \ {l}]
          \/ "lost" \in Faults /\ To(b, "undoing")
  /\ UNCHANGED <<row, parts, source>>

(* saveCreated(created): the whole list, by upload id.                     *)
RecordItem(b) ==
  /\ job[b].pc = "recording"
  /\ \/ SaveCreated(job[b].up, job[b].ids) /\ To(b, "creating")
     \/ "error" \in Faults /\ row' = row /\ To(b, "undoing")
     \/ /\ "lost" \in Faults
        /\ SaveCreated(job[b].up, job[b].ids)
        /\ To(b, "undoing")
  /\ UNCHANGED <<bom, parts, source>>

(* An insert fails, or a part's file cannot be stored or attached.         *)
CreateFails(b) ==
  /\ job[b].pc = "creating"
  /\ "error" \in Faults
  /\ To(b, "undoing")
  /\ UNCHANGED store

(* The row is `done` whatever it was; a failed update is an ordinary       *)
(* failure of the attempt, after the items were made and recorded.         *)
FinishDone(b) ==
  /\ job[b].pc = "creating"
  /\ job[b].todo = {}
  /\ \/ /\ SetStatus(job[b].up, "done")
        /\ To(b, IF RustCore THEN "parts" ELSE "source")
     \/ "unsaved" \in Faults /\ row' = row /\ Fails(b, FALSE)
     \/ "lost" \in Faults /\ SetStatus(job[b].up, "done") /\ Fails(b, FALSE)
  /\ UNCHANGED <<bom, parts, source>>

FailRetries(b) ==   \* the attempt is not counted
  /\ job[b].pc = "failing"
  /\ SetStatus(job[b].up, IF job[b].permanent THEN "failed"
                          ELSE IF RustCore THEN "analysed" ELSE "queued")
  /\ Rest(b)
  /\ UNCHANGED <<bom, parts, source>>

(* fail(): back to the queue it came from, or failed; unconditional too.   *)
Fail(b) ==
  LET retry == ~job[b].permanent /\ job[b].attempt < MaxAttempts
  IN  /\ job[b].pc = "failing"
      /\ \/ SetStatus(job[b].up, IF ~retry THEN "failed"
                                 ELSE IF RustCore THEN "analysed" ELSE "queued")
         \/ "error" \in Faults /\ row' = row
      /\ Rest(b)
      /\ UNCHANGED <<bom, parts, source>>

(* After `done`: the work copies, then the original.                       *)
RemoveParts(b) ==
  /\ job[b].pc = "parts"
  /\ \/ parts' = [parts EXCEPT ![job[b].up] = {}]
     \/ "error" \in Faults /\ parts' = parts
  /\ To(b, "source")
  /\ UNCHANGED <<row, bom, source>>

(* dropSource, also for each upload maintenance has listed.                *)
AfterSource(b) ==
  \/ job[b].list = {} /\ Rest(b)
  \/ \E u \in job[b].list :
       job' = [job EXCEPT ![b].pc = "source", ![b].up = u,
                          ![b].list = job[b].list \ {u}]

RemoveSource(b) ==
  /\ job[b].pc = "source"
  /\ \/ source' = source \ {SourceOf[job[b].up]} /\ To(b, "stamp")
     \/ "error" \in Faults /\ source' = source /\ AfterSource(b)
  /\ UNCHANGED <<row, bom, parts>>

RecordRemoval(b) ==
  /\ job[b].pc = "stamp"
  /\ \/ StampSource(job[b].up)
     \/ "unstamped" \in Faults /\ row' = row
  /\ AfterSource(b)
  /\ UNCHANGED <<bom, parts, source>>

(* maintain(): the originals of uploads that failed a week ago.            *)
Maintain(b, expired) ==
  /\ job[b].pc = "idle"
  /\ expired # {}
  /\ \A u \in expired : row[u].status = "failed" /\ ~row[u].gone
  /\ \E u \in expired :
       job' = [job EXCEPT ![b] = [NoJob EXCEPT !.pc = "source", !.up = u,
                                               !.list = expired \ {u}]]
  /\ UNCHANGED store

JobCrash(b) ==
  /\ "crash" \in Faults
  /\ job[b].pc # "idle"
  /\ "unrecorded" \in Faults \/ job[b].ids \subseteq row[job[b].up].created
  /\ job[b].pc = "stamp" => "unstamped" \in Faults
  /\ Rest(b)
  /\ UNCHANGED store

(* Every step but the creation of an item, whose id the database picks,    *)
(* and the start of maintenance.                                           *)
JobStep(b) ==
  \/ JobClaims(b)
  \/ \E i \in Items : RemoveItem(b, i)
  \/ ForgetItems(b)
  \/ Load(b)
  \/ RecordItem(b)
  \/ CreateFails(b)
  \/ FinishDone(b)
  \/ Fail(b)
  \/ RemoveParts(b)
  \/ RemoveSource(b)
  \/ RecordRemoval(b)
=============================================================================
