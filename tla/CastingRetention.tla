-------------------------- MODULE CastingRetention --------------------------
(***************************************************************************)
(* casting-retention.ts: one pass removes the finished analyses that are   *)
(* older than the retention and that nobody works from any more, then the  *)
(* files no remaining row points at.                                       *)
(***************************************************************************)
EXTENDS CastingRequests

VARIABLE pass   \* the pass of the retention that is under way

(* `rows` are copies of the rows selected, `prefixes` those whose files    *)
(* are still to be looked at, `now` the one whose files are being removed. *)
Seen == [id : Ids, failed : BOOLEAN, item : Items, path : Paths, prefix : Ids \cup {NoId}]

Pass == [pc : {"off", "items", "delete", "count", "remove"}, rows : SUBSET Seen,
         prefixes : SUBSET Ids, now : Ids \cup {NoId}]

NoPass == [pc |-> "off", rows |-> {}, prefixes |-> {}, now |-> NoId]

RetentionInit == pass = NoPass

shared == <<scenario, file, runner, asked>>

(* A pass that overlaps nothing: no request, no attempt.                   *)
Alone == Handled = {} /\ \A b \in Backends : runner[b].pc \in {"idle", "drain", "empty"}

Expired(a) == analysis[a].status \in Finished /\ analysis[a].old

Select ==
  /\ pass.pc = "off"
  /\ "overlap" \in faults \/ Alone
  /\ \E a \in Ids : Expired(a)
  /\ pass' = [NoPass EXCEPT !.pc = "items", !.rows =
       {[id |-> a, failed |-> analysis[a].status = "failed", item |-> analysis[a].item,
         path |-> analysis[a].path, prefix |-> analysis[a].prefix] :
           a \in {x \in Ids : Expired(x)}}]
  /\ UNCHANGED <<shared, analysis, output>>

(* prunable(): the items' files are read after the rows.  A row of an item *)
(* that is gone is not pruned: it is gone too.                             *)
Prunable(s) == \/ s.failed
               \/ file[s.item] # Gone /\ file[s.item] # s.path

ReadItems ==
  LET rows == {s \in pass.rows : Prunable(s)}
  IN  /\ pass.pc = "items"
      /\ pass' = IF rows = {} THEN NoPass
                 ELSE [pass EXCEPT !.pc = "delete", !.rows = rows]
      /\ UNCHANGED <<shared, analysis, output>>

(* The rows are deleted by id, whatever they are by now.                   *)
DeleteRows ==
  LET ids == {s.id : s \in pass.rows}
  IN  /\ pass.pc = "delete"
      /\ analysis' = Without(ids)
      /\ pass' = [NoPass EXCEPT !.pc = "count",
                    !.prefixes = {s.prefix : s \in pass.rows} \ {NoId}]
      /\ UNCHANGED <<shared, output>>

PointsAt(p) == {a \in Rows : analysis[a].prefix = p}

CountNothing ==   \* the files go with the row they were made for
  /\ pass.pc = "count"
  /\ \/ \E p \in pass.prefixes :
          pass' = [pass EXCEPT !.prefixes = pass.prefixes \ {p}, !.pc = "remove", !.now = p]
     \/ pass.prefixes = {} /\ pass' = NoPass
  /\ UNCHANGED <<shared, analysis, output>>

(* One prefix at a time: its files are kept when a row still points at it, *)
(* or when the count fails.                                                *)
Count ==
  /\ pass.pc = "count"
  /\ \/ \E p \in pass.prefixes :
          \/ /\ PointsAt(p) # {} \/ "error" \in faults
             /\ pass' = [pass EXCEPT !.prefixes = pass.prefixes \ {p}]
          \/ /\ PointsAt(p) = {}
             /\ pass' = [pass EXCEPT !.prefixes = pass.prefixes \ {p},
                                     !.pc = "remove", !.now = p]
     \/ pass.prefixes = {} /\ pass' = NoPass
  /\ UNCHANGED <<shared, analysis, output>>

RemoveTree ==
  /\ pass.pc = "remove"
  /\ output' = output \ {pass.now}
  /\ pass' = [pass EXCEPT !.pc = "count", !.now = NoId]
  /\ UNCHANGED <<shared, analysis>>

PassFails ==
  /\ pass.pc # "off"
  /\ "error" \in faults \/ "crash" \in faults
  /\ pass' = NoPass
  /\ UNCHANGED <<shared, analysis, output>>

RetentionStep == Select \/ ReadItems \/ DeleteRows \/ Count \/ RemoveTree
=============================================================================
