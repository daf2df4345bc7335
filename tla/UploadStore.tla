---------------------------- MODULE UploadStore ----------------------------
(***************************************************************************)
(* What the parts of the CAD upload pipeline share: the table cad_uploads  *)
(* (migrations 917, 918, 923), the table bom_items as far as an upload     *)
(* fills it, and the object store.  Each SQL function is one transaction   *)
(* on one row and is one operator here; who calls it, and when, is in      *)
(* CadRunner, BackendRunner and UploadApi.                                 *)
(***************************************************************************)
EXTENDS Naturals, FiniteSets

CONSTANTS
  Uploads,      \* identities of cad_uploads rows: one per (bom_id, sha256)
  Sources,      \* storage paths of originals: one per (organization, sha256)
  SourceOf,     \* the storage_path of each upload
  Parts,        \* the distinct parts of an upload, one stored STEP file each
  Lines,        \* the BOM lines planned for an upload, parents first
  Items,        \* ids of bom_items: a bound on the items alive at one time
  MaxAttempts,  \* MAX_ATTEMPTS of both runners (3 in the code)
  Faults        \* what may go wrong in this run, a subset of FaultKinds

(* "error":      a call fails without effect                               *)
(* "short":      the worker's answer leaves out a part                     *)
(* "crash":      a process dies between two steps and starts again         *)
(* "unsaved":    the update that makes an upload `done` fails              *)
(* "unrecorded": a process dies with an item its row does not list         *)
(* "undeleted":  the delete of an item fails, which is only logged         *)
(* "unstamped":  an original is removed, and the update that says so fails *)
(*               or is never sent                                          *)
(* "abandoned":  a failed row is pruned while items of it are in the BOM   *)
(* "early":      a user deletes an item of an upload that is not done      *)
(* "lost":       a call takes effect but its answer is lost                *)
(* "outlive":    an attempt still runs when its row becomes stale          *)
(* "overlap":    requests, housekeeping and the work after `done` overlap  *)
FaultKinds == {"error", "short", "crash", "unsaved", "unrecorded", "undeleted",
               "unstamped", "abandoned", "early", "lost", "outlive", "overlap"}

ASSUME StoreAssumption ==
  /\ Uploads # {}
  /\ SourceOf \in [Uploads -> Sources]
  /\ Lines \subseteq Nat
  /\ Items \subseteq Nat
  /\ MaxAttempts \in Nat \ {0}
  /\ Faults \subseteq FaultKinds

VARIABLES
  row,     \* cad_uploads
  bom,     \* bom_items that came from uploads
  parts,   \* stored part files, per upload
  source   \* storage paths whose original is stored

store == <<row, bom, parts, source>>

Statuses == {"none", "queued", "running", "analysed", "materializing",
             "done", "failed"}

(* `stale` stands for started_at being older than the claim's limit,       *)
(* `gone` for source_deleted_at, `created` for created_item_ids; `after`   *)
(* holds the rows that are older, for ORDER BY created_at.                 *)
Row == [status : Statuses, attempts : Nat, tries : Nat, stale : BOOLEAN,
        gone : BOOLEAN, created : SUBSET Items, after : SUBSET Uploads]

NoRow == [status |-> "none", attempts |-> 0, tries |-> 0, stale |-> FALSE,
          gone |-> FALSE, created |-> {}, after |-> {}]

AnyUpload == CHOOSE u \in Uploads : TRUE   \* what an idle process points at

BomItem == [id : Items, up : Uploads, line : Lines]

StoreTypeOK ==
  /\ row \in [Uploads -> Row]
  /\ bom \subseteq BomItem
  /\ parts \in [Uploads -> SUBSET Parts]
  /\ source \subseteq Sources

StoreInit ==
  /\ row = [u \in Uploads |-> NoRow]
  /\ bom = {}
  /\ parts = [u \in Uploads |-> {}]
  /\ source = {}

ItemsOf(u) == {x \in bom : x.up = u}

Without(i) == {x \in bom : x.id # i}

Oldest(S) == {u \in S : row[u].after \cap S = {}}

-----------------------------------------------------------------------------
(* claim_next_cad_upload: rows whose last attempt went stale are failed,   *)
(* then the oldest queued or stale row is taken.  A queued row is taken    *)
(* whatever its attempts are.                                              *)
RunExhaustedLate(u) == /\ row[u].status = "running"
                       /\ row[u].stale
                       /\ row[u].attempts > MaxAttempts   \* off by one

RunExhausted(u) == /\ row[u].status = "running"
                   /\ row[u].stale
                   /\ row[u].attempts >= MaxAttempts

RunSwept == [u \in Uploads |-> IF RunExhausted(u)
                               THEN [row[u] EXCEPT !.status = "failed"]
                               ELSE row[u]]

RunWaitingNoWindow == {u \in Uploads :
  row[u].status \in {"queued", "running"} /\ ~RunExhausted(u)}   \* no window

RunWaitingQueued == {u \in Uploads : row[u].status = "queued"}   \* no re-claim

RunWaiting == {u \in Uploads : \/ row[u].status = "queued"
                               \/ /\ row[u].status = "running"
                                  /\ row[u].stale
                                  /\ ~RunExhausted(u)}

ClaimNextCadUpload(u) ==
  /\ u \in Oldest(RunWaiting)
  /\ row' = [RunSwept EXCEPT ![u].status = "running",
                             ![u].attempts = row[u].attempts + 1,
                             ![u].stale = FALSE]

(* The call that finds nothing to take still fails the exhausted rows.     *)
SweepCadUploads == /\ RunWaiting = {}
                   /\ \E u \in Uploads : RunExhausted(u)
                   /\ row' = RunSwept

(* claim_next_analysed_upload: the same for the second half.               *)
TryExhausted(u) == /\ row[u].status = "materializing"
                   /\ row[u].stale
                   /\ row[u].tries >= MaxAttempts

TrySwept == [u \in Uploads |-> IF TryExhausted(u)
                               THEN [row[u] EXCEPT !.status = "failed"]
                               ELSE row[u]]

TryWaitingAnalysed == {u \in Uploads : row[u].status = "analysed"}

TryWaiting == {u \in Uploads : \/ row[u].status = "analysed"
                               \/ /\ row[u].status = "materializing"
                                  /\ row[u].stale
                                  /\ ~TryExhausted(u)}

ClaimNextAnalysedUpload(u) ==
  /\ u \in Oldest(TryWaiting)
  /\ row' = [TrySwept EXCEPT ![u].status = "materializing",
                             ![u].tries = row[u].tries + 1,
                             ![u].stale = FALSE]

SweepAnalysedUploads == /\ TryWaiting = {}
                        /\ \E u \in Uploads : TryExhausted(u)
                        /\ row' = TrySwept

(* cad_runner_mark_analysed and cad_runner_mark_failed change only a row   *)
(* that is still `running`, whichever attempt it is running.               *)
MarkAnalysed(u) == /\ row[u].status = "running"
                   /\ row' = [row EXCEPT ![u].status = "analysed"]

MarkFailed(u, retry) ==
  /\ row[u].status = "running"
  /\ row' = [row EXCEPT ![u].status = IF retry THEN "queued" ELSE "failed"]

(* The backend's own updates, by id alone: they change whatever is there.  *)
SetStatus(u, s) == row' = [row EXCEPT ![u].status =
                             IF row[u].status = "none" THEN "none" ELSE s]

SaveCreated(u, ids) == row' = [row EXCEPT ![u].created =
                             IF row[u].status = "none" THEN {} ELSE ids]

StampSource(u) == row' = [row EXCEPT ![u].gone = row[u].status # "none"]

(* prune_old_rows: a failed row is deleted 30 days after it failed.        *)
Prune(u) ==
  /\ row[u].status = "failed"
  /\ "abandoned" \in Faults \/ ItemsOf(u) = {}
  /\ row' = [v \in Uploads |-> IF v = u THEN NoRow
                 ELSE [row[v] EXCEPT !.after = row[v].after \ {u}]]
  /\ UNCHANGED <<bom, parts, source>>

(* Time passes: the attempt's started_at falls out of the claim's window.  *)
GoStale(u) ==
  /\ row[u].status \in {"running", "materializing"}
  /\ ~row[u].stale
  /\ row' = [row EXCEPT ![u].stale = TRUE]
  /\ UNCHANGED <<bom, parts, source>>

(* A user deletes an imported item.                                        *)
UserDeletes(x) ==
  /\ row[x.up].status = "done" \/ "early" \in Faults
  /\ bom' = bom \ {x}
  /\ UNCHANGED <<row, parts, source>>
=============================================================================
