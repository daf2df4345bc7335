---------------------------- MODULE CastingRunner ----------------------------
(***************************************************************************)
(* casting-analysis-runner.ts: the loop of a backend process that claims   *)
(* queued analyses one at a time, has the worker host analyse the file or  *)
(* takes over the result of an identical file, and records how it ended.   *)
(***************************************************************************)
EXTENDS CastingTable

VARIABLE runner   \* per backend: its loop, and the row it is working on

(* `drain` is about to claim, `empty` was told that nothing waits, `idle`  *)
(* sleeps until a poll or a wake; `wake` is wakeRequested.  `attempt` is   *)
(* that of the claimed row, `prefix` and `retry` what it will record.      *)
Runner == [pc : {"idle", "drain", "empty", "read", "twin", "work", "store", "save", "fail"},
           wake : BOOLEAN, on : Ids \cup {NoId}, attempt : Nat,
           prefix : Ids \cup {NoId}, retry : BOOLEAN]

IdleRunner == [pc |-> "idle", wake |-> FALSE, on |-> NoId, attempt |-> 0,
               prefix |-> NoId, retry |-> FALSE]

RunnerInit == runner = [b \in Backends |-> IdleRunner]

Attempts(a) == {b \in Backends : runner[b].on = a}

Does(b, pc) == runner' = [runner EXCEPT ![b].pc = pc]

WokenForgets(b) ==   \* a busy runner takes no notice
  IF runner[b].pc = "idle" THEN [IdleRunner EXCEPT !.pc = "drain"] ELSE runner[b]

(* wake(): starts the loop; a busy runner remembers it.                    *)
Woken(b) == IF runner[b].pc = "idle" THEN [IdleRunner EXCEPT !.pc = "drain"]
            ELSE [runner[b] EXCEPT !.wake = TRUE]

(* tick(), by the poll timer: to a busy runner the same as a wake.         *)
Poll(b) == /\ runner' = [runner EXCEPT ![b] = Woken(b)]
           /\ UNCHANGED table

(* runNext() returned false: look again if someone asked meanwhile.        *)
EndDrain(b) == runner' = [runner EXCEPT ![b] =
                 [IdleRunner EXCEPT !.pc = IF runner[b].wake THEN "drain" ELSE "idle"]]

(* runNext() returned true, or threw: then a wake stays unheard.           *)
NextRow(b) == runner' = [runner EXCEPT ![b] =
                [IdleRunner EXCEPT !.pc = "drain", !.wake = runner[b].wake]]

Throw(b) == runner' = [runner EXCEPT ![b] = IdleRunner]

Failing(b, retry) ==
  runner' = [runner EXCEPT ![b].pc = "fail", ![b].prefix = NoId,
                           ![b].retry = retry /\ runner[b].attempt < MaxAttempts]

Claim(b) ==
  /\ runner[b].pc = "drain"
  /\ \/ \E a \in Ids :
          /\ ClaimNext(a)
          /\ runner' = [runner EXCEPT ![b].pc = "read", ![b].on = a,
                                      ![b].attempt = analysis[a].attempts + 1]
     \/ /\ Waiting = {}
        /\ analysis' = Swept
        /\ Does(b, "empty")
  /\ UNCHANGED <<scenario, file, output>>

(* The end of the drain comes after the answer that nothing waits.         *)
FindEmpty(b) == /\ runner[b].pc = "empty"
                /\ EndDrain(b)
                /\ UNCHANGED table

ClaimFails(b) == /\ "error" \in faults
                 /\ runner[b].pc = "drain"
                 /\ Throw(b)
                 /\ UNCHANGED table

(* process(), up to the hash: no file, or another one, is a final failure. *)
Read(b) ==
  LET row == analysis[runner[b].on]
      same == /\ file[row.item] \in Paths
              /\ ContentsOf[file[row.item]] = ContentsOf[row.path]
  IN  /\ runner[b].pc = "read"
      /\ \/ IF same THEN Does(b, "twin") ELSE Failing(b, FALSE)
         \/ "error" \in faults /\ Failing(b, TRUE)
      /\ UNCHANGED table

(* finishedTwin(): a look-up that fails is no reason to fail the analysis. *)
LookForTwin(b) ==
  LET found == Twins(analysis[runner[b].on].path) \ {runner[b].on}
  IN  /\ runner[b].pc = "twin"
      /\ \/ \E t \in found : runner' = [runner EXCEPT ![b].pc = "save",
                                          ![b].prefix = analysis[t].prefix]
         \/ /\ found = {} \/ "error" \in faults
            /\ Does(b, "work")
      /\ UNCHANGED table

(* The worker's result is good, or it fails for good (a result that is no  *)
(* result, another worker version), or the attempt may be repeated.        *)
RunWorker(b) ==
  /\ runner[b].pc = "work"
  /\ Does(b, "store") \/ Failing(b, FALSE) \/ Failing(b, TRUE)
  /\ UNCHANGED table

StoreParts(b) ==
  /\ runner[b].pc = "store"
  /\ \/ /\ output' = output \cup {runner[b].on}
        /\ runner' = [runner EXCEPT ![b].pc = "save", ![b].prefix = runner[b].on]
     \/ /\ "error" \in faults
        /\ output' = output
        /\ Failing(b, TRUE)
  /\ UNCHANGED <<scenario, file, analysis>>

(* The last update of process(), or adopt().                               *)
Save(b) ==
  /\ runner[b].pc = "save"
  /\ \/ /\ WhileRunning(runner[b].on, [analysis[runner[b].on] EXCEPT
             !.status = "succeeded", !.prefix = runner[b].prefix, !.stale = FALSE])
        /\ NextRow(b)
     \/ /\ "error" \in faults
        /\ Failing(b, TRUE)
        /\ analysis' = analysis
  /\ UNCHANGED <<scenario, file, output>>

FailRetries(b) ==   \* every failure goes back to the queue
  /\ runner[b].pc = "fail"
  /\ WhileRunning(runner[b].on, [analysis[runner[b].on] EXCEPT !.status = "queued",
                                                               !.stale = FALSE])
  /\ EndDrain(b)
  /\ UNCHANGED <<scenario, file, output>>

FailOther(b) ==   \* a status the table does not have
  /\ runner[b].pc = "fail"
  /\ WhileRunning(runner[b].on, [analysis[runner[b].on] EXCEPT !.status = "crashed"])
  /\ NextRow(b)
  /\ UNCHANGED <<scenario, file, output>>

(* fail(): a retry ends the drain and waits for the next poll.             *)
Fail(b) ==
  /\ runner[b].pc = "fail"
  /\ \/ /\ WhileRunning(runner[b].on, [analysis[runner[b].on] EXCEPT
             !.status = IF runner[b].retry THEN "queued" ELSE "failed",
             !.stale = FALSE])
        /\ IF runner[b].retry THEN EndDrain(b) ELSE NextRow(b)
     \/ /\ "error" \in faults
        /\ Throw(b)
        /\ analysis' = analysis
  /\ UNCHANGED <<scenario, file, output>>

RunnerCrash(b) == /\ "crash" \in faults
                  /\ runner[b].pc # "idle"
                  /\ Throw(b)
                  /\ UNCHANGED table

RunnerStep(b) == \/ Poll(b) \/ Claim(b) \/ FindEmpty(b) \/ Read(b) \/ LookForTwin(b)
                 \/ RunWorker(b) \/ StoreParts(b) \/ Save(b) \/ Fail(b)
=============================================================================
