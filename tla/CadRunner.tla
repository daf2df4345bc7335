------------------------------ MODULE CadRunner ------------------------------
(***************************************************************************)
(* The Rust runner (core/crates/runner/src/job.rs): claims one queued      *)
(* upload at a time, has the geometry worker analyse it, stores one file   *)
(* per distinct part and marks the upload `analysed`.  One action per      *)
(* awaited call.                                                           *)
(***************************************************************************)
EXTENDS UploadStore

CONSTANT Runners   \* cad-runner processes

ASSUME RunnerAssumption == IsFiniteSet(Runners)

VARIABLE run       \* the attempt each runner is on

Run == [pc : {"idle", "claimed", "fetched", "storing", "cleaning", "failing"},
        up : Uploads, attempt : Nat, gone : BOOLEAN, stored : SUBSET Parts,
        retry : BOOLEAN]

RunnerTypeOK == run \in [Runners -> Run]

NoRun == [pc |-> "idle", up |-> AnyUpload, attempt |-> 0, gone |-> FALSE,
          stored |-> {}, retry |-> FALSE]

RunnerInit == run = [w \in Runners |-> NoRun]

Analysing(w) == run[w].pc # "idle"

Idle(w) == run' = [run EXCEPT ![w] = NoRun]

(* process() returns Err: a permanent failure is never retried, any other  *)
(* one is while the attempt claimed is below MAX_ATTEMPTS.                 *)
GiveRetries(w, permanent) ==   \* the attempt is not counted
  run' = [run EXCEPT ![w].pc = "failing", ![w].retry = ~permanent]

Give(w, permanent) ==
  run' = [run EXCEPT ![w].pc = "failing",
                     ![w].retry = ~permanent /\ run[w].attempt < MaxAttempts]

Cleanup(w) ==
  run' = [run EXCEPT ![w].pc = "cleaning",
                     ![w].retry = run[w].attempt < MaxAttempts]

-----------------------------------------------------------------------------
RunnerClaims(w) ==
  /\ run[w].pc = "idle"
  /\ \/ \E u \in Uploads :
          /\ ClaimNextCadUpload(u)
          /\ run' = [run EXCEPT ![w] =
               [NoRun EXCEPT !.pc = "claimed", !.up = u,
                             !.attempt = row[u].attempts + 1,
                             !.gone = row[u].gone]]
     \/ SweepCadUploads /\ run' = run
  /\ UNCHANGED <<bom, parts, source>>

(* source_expired is permanent; a download that fails, or finds nothing,   *)
(* is not.                                                                 *)
Download(w) ==
  /\ run[w].pc = "claimed"
  /\ \/ run[w].gone /\ Give(w, TRUE)
     \/ /\ ~run[w].gone
        /\ SourceOf[run[w].up] \in source
        /\ run' = [run EXCEPT ![w].pc = "fetched"]
     \/ /\ ~run[w].gone
        /\ SourceOf[run[w].up] \notin source \/ "error" \in Faults
        /\ Give(w, FALSE)
  /\ UNCHANGED store

(* Unzip, worker run, typed parse and domain::verify.  A verdict on the    *)
(* files is permanent, an unwell worker is not (worker.rs classify).       *)
Analyse(w) ==
  /\ run[w].pc = "fetched"
  /\ \/ run' = [run EXCEPT ![w].pc = "storing"]
     \/ Give(w, TRUE)
     \/ "error" \in Faults /\ Give(w, FALSE)
  /\ UNCHANGED store

(* A part the worker did not return ends the attempt on the spot.          *)
PartNotReturned(w) ==
  /\ run[w].pc = "storing"
  /\ run[w].stored # Parts
  /\ "short" \in Faults
  /\ Give(w, FALSE)
  /\ UNCHANGED store

StorePart(w, p) ==
  /\ run[w].pc = "storing"
  /\ p \notin run[w].stored
  /\ \/ /\ parts' = [parts EXCEPT ![run[w].up] = parts[run[w].up] \cup {p}]
        /\ run' = [run EXCEPT ![w].stored = run[w].stored \cup {p}]
     \/ "error" \in Faults /\ Cleanup(w) /\ parts' = parts
     \/ /\ "lost" \in Faults
        /\ parts' = [parts EXCEPT ![run[w].up] = parts[run[w].up] \cup {p}]
        /\ Cleanup(w)
  /\ UNCHANGED <<row, bom, source>>

(* false from the function is an error here, and every error cleans up.    *)
FinishAnalysedEarly(w) ==   \* does not wait for the uploads
  /\ run[w].pc = "storing"
  /\ MarkAnalysed(run[w].up)
  /\ Idle(w)
  /\ UNCHANGED <<bom, parts, source>>

FinishAnalysed(w) ==
  /\ run[w].pc = "storing"
  /\ run[w].stored = Parts
  /\ \/ MarkAnalysed(run[w].up) /\ Idle(w)
     \/ "lost" \in Faults /\ MarkAnalysed(run[w].up) /\ Cleanup(w)
     \/ /\ row[run[w].up].status # "running" \/ "error" \in Faults
        /\ Cleanup(w)
        /\ row' = row
  /\ UNCHANGED <<bom, parts, source>>

(* remove() deletes one path after another and stops at the first error.   *)
CleanPart(w, p) ==
  /\ run[w].pc = "cleaning"
  /\ p \in run[w].stored
  /\ parts' = [parts EXCEPT ![run[w].up] = parts[run[w].up] \ {p}]
  /\ run' = [run EXCEPT ![w].stored = run[w].stored \ {p}]
  /\ UNCHANGED <<row, bom, source>>

EndCleanup(w) ==
  /\ run[w].pc = "cleaning"
  /\ run[w].stored = {} \/ "error" \in Faults
  /\ run' = [run EXCEPT ![w].pc = "failing"]
  /\ UNCHANGED store

(* The failure is recorded if the row is still running and the call goes   *)
(* through; if not it is logged, and the row waits to become stale.        *)
FinishFailed(w) ==
  /\ run[w].pc = "failing"
  /\ \/ MarkFailed(run[w].up, run[w].retry)
     \/ /\ row[run[w].up].status # "running" \/ "error" \in Faults
        /\ row' = row
  /\ Idle(w)
  /\ UNCHANGED <<bom, parts, source>>

RunnerCrash(w) ==
  /\ "crash" \in Faults
  /\ Analysing(w)
  /\ Idle(w)
  /\ UNCHANGED store

RunnerStep(w) ==
  \/ RunnerClaims(w)
  \/ Download(w)
  \/ Analyse(w)
  \/ PartNotReturned(w)
  \/ \E p \in Parts : StorePart(w, p) \/ CleanPart(w, p)
  \/ FinishAnalysed(w)
  \/ EndCleanup(w)
  \/ FinishFailed(w)
=============================================================================
