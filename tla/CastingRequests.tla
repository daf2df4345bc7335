--------------------------- MODULE CastingRequests ---------------------------
(***************************************************************************)
(* sand-casting.service.ts: a user asks for the analysis of a BOM item.    *)
(* The analysis that is there is used, a failed one is tried again, the    *)
(* result of an identical file is copied, or a new row is queued.          *)
(***************************************************************************)
EXTENDS CastingRunner

VARIABLE asked      \* how far each request is

(* `id` is the row found, `prefix` that of the finished twin found.        *)
Request == [pc : {"new", "find", "move", "requeue", "twin", "insert", "raced",
                  "wake", "answered"},
            item : Items, path : Paths, id : Ids \cup {NoId}, prefix : Ids \cup {NoId}]

NewRequest == [pc |-> "new", item |-> CHOOSE i \in Items : TRUE,
               path |-> CHOOSE p \in Paths : TRUE, id |-> NoId, prefix |-> NoId]

RequestsInit == asked = [r \in Requests |-> NewRequest]

Answer == [NewRequest EXCEPT !.pc = "answered"]

Answered(r) == asked' = [asked EXCEPT ![r] = Answer]

Handled == {r \in Requests : asked[r].pc \notin {"new", "answered"}}

(* request(): the item is read, as the user, and its file.                 *)
Ask(r, i) ==
  /\ asked[r].pc = "new"
  /\ "double" \in faults \/ \A q \in Handled : asked[q].item # i
  /\ file[i] \in Paths
  /\ asked' = [asked EXCEPT ![r].pc = "find", ![r].item = i, ![r].path = file[i]]
  /\ UNCHANGED <<table, runner>>

FindAll(r) ==   \* any row that is there is asked for again
  /\ asked[r].pc = "find"
  /\ \/ \E a \in RowsFor(asked[r].item, asked[r].path) :
          asked' = [asked EXCEPT ![r].pc = "requeue", ![r].id = a]
     \/ /\ RowsFor(asked[r].item, asked[r].path) = {}
        /\ asked' = [asked EXCEPT ![r].pc = "twin"]
  /\ UNCHANGED <<table, runner>>

(* queueOrReuse(): the row of this item and key decides what is to do.     *)
Find(r) ==
  /\ asked[r].pc = "find"
  /\ \/ \E a \in RowsFor(asked[r].item, asked[r].path) :
          \/ /\ analysis[a].status = "failed"
             /\ asked' = [asked EXCEPT ![r].pc = "requeue", ![r].id = a]
          \/ /\ analysis[a].status # "failed"
             /\ analysis[a].path # asked[r].path
             /\ asked' = [asked EXCEPT ![r].pc = "move", ![r].id = a]
          \/ /\ analysis[a].status # "failed"
             /\ analysis[a].path = asked[r].path
             /\ Answered(r)
     \/ /\ RowsFor(asked[r].item, asked[r].path) = {}
        /\ asked' = [asked EXCEPT ![r].pc = "twin"]
  /\ UNCHANGED <<table, runner>>

(* The same bytes under a new path: the row now belongs to that path.      *)
Move(r) ==
  /\ asked[r].pc = "move"
  /\ \/ analysis' = [a \in Ids |-> IF a \in Rows \cap {asked[r].id}
                       THEN [analysis[a] EXCEPT !.path = asked[r].path]
                       ELSE analysis[a]]
     \/ "error" \in faults /\ analysis' = analysis
  /\ Answered(r)
  /\ UNCHANGED <<scenario, file, output, runner>>

(* The row is queued, and the request goes on to wake a runner.            *)
Waking(r) == [NewRequest EXCEPT !.pc = "wake", !.item = asked[r].item]

Queued(r) == asked' = [asked EXCEPT ![r] = Waking(r)]

(* requeue(): by id alone, whatever the row is by now; a row that is gone  *)
(* is an error.                                                            *)
Requeue(r) ==
  /\ asked[r].pc = "requeue"
  /\ IF asked[r].id \in Rows
     THEN /\ analysis' = [analysis EXCEPT ![asked[r].id].status = "queued",
                            ![asked[r].id].attempts = 0, ![asked[r].id].old = FALSE,
                            ![asked[r].id].stale = FALSE]
          /\ Queued(r)
     ELSE analysis' = analysis /\ Answered(r)
  /\ UNCHANGED <<scenario, file, output, runner>>

(* findFinished().                                                         *)
FindTwin(r) ==
  /\ asked[r].pc = "twin"
  /\ \/ \E t \in Twins(asked[r].path) : asked' = [asked EXCEPT ![r].pc = "insert",
                                                   ![r].prefix = analysis[t].prefix]
     \/ /\ Twins(asked[r].path) = {}
        /\ asked' = [asked EXCEPT ![r].pc = "insert"]
  /\ UNCHANGED <<table, runner>>

(* Ids are made up as rows are: which of those left is next is the same.   *)
NewIds == {a \in Ids : analysis[a].status = "none"}

(* The insert: a finished copy, or a queued row; the table refuses a       *)
(* second row of the item and key, and a row of an item that is gone.      *)
Insert(r) ==
  LET q == asked[r]
  IN  /\ q.pc = "insert"
      /\ \/ /\ RowsFor(q.item, q.path) = {}
            /\ file[q.item] # Gone
            /\ NewIds # {}
            /\ analysis' = [analysis EXCEPT ![CHOOSE a \in NewIds : TRUE] = [NoAnalysis EXCEPT
                 !.status = IF q.prefix = NoId THEN "queued" ELSE "succeeded",
                 !.item = q.item, !.path = q.path, !.prefix = q.prefix, !.after = Rows]]
            /\ IF q.prefix = NoId THEN Queued(r) ELSE Answered(r)
         \/ /\ RowsFor(q.item, q.path) # {}
            /\ asked' = [asked EXCEPT ![r].pc = "raced"]
            /\ analysis' = analysis
         \/ /\ file[q.item] = Gone
            /\ Answered(r)
            /\ analysis' = analysis
      /\ UNCHANGED <<scenario, file, output, runner>>

(* The row is there: this process wakes its own runner.                    *)
Wake(r) ==
  /\ asked[r].pc = "wake"
  /\ \E b \in scenario.backends : runner' = [runner EXCEPT ![b] = Woken(b)]
  /\ Answered(r)
  /\ UNCHANGED table

(* Lost a race: the other request's row is the answer, or it is gone too.  *)
FindRaced(r) ==
  /\ asked[r].pc = "raced"
  /\ Answered(r)
  /\ UNCHANGED <<table, runner>>

RequestFails(r) ==
  /\ "error" \in faults
  /\ r \in Handled
  /\ Answered(r)
  /\ UNCHANGED <<table, runner>>

RequestStep(r) == \/ Find(r) \/ Move(r) \/ Requeue(r) \/ FindTwin(r)
                  \/ Insert(r) \/ FindRaced(r) \/ Wake(r)
=============================================================================
