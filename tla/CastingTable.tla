---------------------------- MODULE CastingTable ----------------------------
(***************************************************************************)
(* What the parts of the sand casting module share: the queue and result   *)
(* table casting_analyses (migration 955), the 3D files of BOM items, and  *)
(* the files a worker run leaves in the object store, one prefix a row.    *)
(* The key of a row (file hash, worker version, schema, configuration) is  *)
(* the contents of its file here: one worker and one configuration.        *)
(***************************************************************************)
EXTENDS Naturals, FiniteSets

CONSTANTS
  Items,        \* BOM items of one organization
  Paths,        \* stored 3D files, each never rewritten
  ContentsOf,   \* the bytes at each path
  FirstFile,    \* the file_3d_path each item starts with
  LaterFiles,   \* the paths an item's file may be replaced by
  Ids,          \* ids of casting_analyses rows ever inserted: a bound
  MaxAttempts,  \* MAX_ATTEMPTS (3 in the code)
  Backends,     \* the backend processes
  Requests,     \* requests of users, each made at most once: a bound
  Scenarios     \* the instances a run covers: one is chosen at the start

(* "error":   a call fails without effect                                  *)
(* "crash":   a backend process dies between two steps and starts again    *)
(* "outlive": an attempt still runs when its row becomes stale             *)
(* "double":  two requests for one item are handled at the same time       *)
(* "overlap": retention runs while requests and attempts are under way     *)
FaultKinds == {"error", "crash", "outlive", "double", "overlap"}

NoPath == "no path"   \* file_3d_path is null
Gone == "item gone"   \* the item was deleted
NoId == "no id"       \* output_prefix is null

ASSUME CastingAssumption ==
  /\ Items # {} /\ IsFiniteSet(Backends)
  /\ FirstFile \in [Items -> Paths]
  /\ LaterFiles \in [Items -> SUBSET Paths]
  /\ DOMAIN ContentsOf = Paths
  /\ {NoPath, Gone} \cap Paths = {}
  /\ NoId \notin Ids
  /\ MaxAttempts \in Nat \ {0}
  /\ Scenarios \subseteq [faults : SUBSET FaultKinds, backends : SUBSET Backends,
                         asks : [Requests -> SUBSET Items], changing : SUBSET Items,
                         aging : BOOLEAN]

VARIABLES
  scenario,  \* what may go wrong, who runs and who asks: never changes
  file,      \* bom_items.file_3d_path
  analysis,  \* casting_analyses
  output     \* the rows whose worker files are all stored under their prefix

table == <<scenario, file, analysis, output>>

faults == scenario.faults

Finished == {"succeeded", "failed"}   \* `partial` is a success here

(* `stale`: started_at is older than STALE_SECONDS; `old`: finished_at is  *)
(* older than the retention; `prefix`: the row whose files these are;      *)
(* `after`: the rows created before, for ORDER BY created_at.  A row that  *)
(* is "removed" never comes back, ids being fresh; what an attempt has     *)
(* read of it is still known.                                              *)
Analysis == [status : {"none", "queued", "running", "removed"} \cup Finished,
             item : Items, path : Paths, attempts : Nat, prefix : Ids \cup {NoId},
             stale : BOOLEAN, old : BOOLEAN, after : SUBSET Ids]

NoAnalysis == [status |-> "none", item |-> CHOOSE i \in Items : TRUE,
               path |-> CHOOSE p \in Paths : TRUE, attempts |-> 0,
               prefix |-> NoId, stale |-> FALSE, old |-> FALSE, after |-> {}]

TableInit == /\ scenario \in Scenarios
             /\ file = FirstFile
             /\ analysis = [a \in Ids |-> NoAnalysis]
             /\ output = {}

Rows == {a \in Ids : analysis[a].status \notin {"none", "removed"}}

Key(a) == ContentsOf[analysis[a].path]

(* The one row of an item and a key, by the table's UNIQUE constraint.     *)
RowsFor(i, p) == {a \in Rows : analysis[a].item = i /\ Key(a) = ContentsOf[p]}

(* findFinished and finishedTwin: a result of the same key, of any item.   *)
Twins(p) == {a \in Rows : /\ analysis[a].status = "succeeded"
                          /\ Key(a) = ContentsOf[p]
                          /\ analysis[a].prefix # NoId}

-----------------------------------------------------------------------------
(* claim_next_casting_analysis.                                            *)
Exhausted(a) == /\ analysis[a].status = "running"
                /\ analysis[a].stale
                /\ analysis[a].attempts >= MaxAttempts

Swept == [a \in Ids |-> IF Exhausted(a)
                        THEN [analysis[a] EXCEPT !.status = "failed"]
                        ELSE analysis[a]]

WaitingQueued == {a \in Ids : analysis[a].status = "queued"}

Waiting == {a \in Ids : \/ analysis[a].status = "queued"
                        \/ /\ analysis[a].status = "running"
                           /\ analysis[a].stale
                           /\ ~Exhausted(a)}

ClaimNext(a) ==
  /\ a \in Waiting
  /\ analysis[a].after \cap Waiting = {}
  /\ analysis' = [Swept EXCEPT ![a].status = "running",
                               ![a].attempts = analysis[a].attempts + 1,
                               ![a].stale = FALSE]

(* The runner's updates change only a row that is `running`, by whomever.  *)
WhileRunning(a, new) ==
  analysis' = IF analysis[a].status = "running"
              THEN [analysis EXCEPT ![a] = new] ELSE analysis

(* The rows of S are deleted.                                              *)
Without(S) == [a \in Ids |->
  IF a \in S THEN [NoAnalysis EXCEPT !.status = "removed",
                     !.item = analysis[a].item, !.path = analysis[a].path]
             ELSE analysis[a]]

(* Time passes for a row: out of the claim's window, past the retention.   *)
GoStale(a) == /\ analysis[a].status = "running"
              /\ ~analysis[a].stale
              /\ analysis' = [analysis EXCEPT ![a].stale = TRUE]
              /\ UNCHANGED <<scenario, file, output>>

GrowOld(a) == /\ analysis[a].status \in Finished
              /\ ~analysis[a].old
              /\ analysis' = [analysis EXCEPT ![a].old = TRUE]
              /\ UNCHANGED <<scenario, file, output>>

(* The rest of the program gives an item another file, or none, or deletes *)
(* the item: its analyses go with it (ON DELETE CASCADE), their files not. *)
ReplaceFile(i) ==
  /\ file[i] # Gone
  /\ \E p \in LaterFiles[i] \cup {NoPath} :
       /\ file[i] # p
       /\ file[i] = FirstFile[i]
       /\ file' = [file EXCEPT ![i] = p]
  /\ UNCHANGED <<scenario, analysis, output>>

DeleteItem(i) ==
  /\ file[i] # Gone
  /\ file' = [file EXCEPT ![i] = Gone]
  /\ analysis' = Without({a \in Rows : analysis[a].item = i})
  /\ UNCHANGED <<scenario, output>>
=============================================================================
