------------------------------- MODULE Casting -------------------------------
(***************************************************************************)
(* The sand casting module as a whole: users' requests, the runners of the *)
(* backend processes and the retention work on one table.                  *)
(***************************************************************************)
EXTENDS CastingRetention

vars == <<table, runner, asked, pass>>

CastingInit == TableInit /\ RunnerInit /\ RequestsInit /\ RetentionInit

(* Without "overlap" nothing starts while a pass of the retention runs.    *)
NoPassRuns == "overlap" \in faults \/ pass.pc = "off"

Runs(b) == /\ b \in scenario.backends
           /\ runner[b].pc = "drain" => NoPassRuns
           /\ UNCHANGED <<asked, pass>>

(* Without "outlive" only a row whose attempt has ended becomes stale.     *)
TimePasses == \/ \E a \in Ids : /\ "outlive" \in faults \/ Attempts(a) = {}
                                /\ GoStale(a)
              \/ \E a \in Ids : scenario.aging /\ GrowOld(a)

CastingNext ==
  \/ \E b \in Backends : Runs(b) /\ (RunnerStep(b) \/ ClaimFails(b) \/ RunnerCrash(b))
  \/ \E r \in Requests :
       /\ \/ NoPassRuns /\ \E i \in scenario.asks[r] : Ask(r, i)
          \/ RequestStep(r)
          \/ RequestFails(r)
       /\ pass' = pass
  \/ RetentionStep
  \/ PassFails
  \/ TimePasses /\ UNCHANGED <<runner, asked, pass>>
  \/ \E i \in scenario.changing : (ReplaceFile(i) \/ DeleteItem(i)) /\ UNCHANGED <<runner, asked, pass>>

CastingSpec == CastingInit /\ [][CastingNext]_vars

(* Timers poll, awaits end, and a pass of the retention ends; time makes   *)
(* the row of an ended attempt stale.  Not every claim fails, and passes,  *)
(* six hours apart, do not keep a runner from claiming: strong fairness.   *)
(* Nobody has to ask, to replace a file, or to start a pass.               *)
CastingFair ==
  /\ CastingSpec
  /\ \A b \in Backends : WF_vars(Runs(b) /\ RunnerStep(b)) /\ SF_vars(Runs(b) /\ Claim(b))
  /\ WF_vars(pass.pc # "off" /\ RetentionStep)
  /\ \A a \in Ids : WF_vars(Attempts(a) = {} /\ GoStale(a) /\ UNCHANGED <<runner, asked, pass>>)

-----------------------------------------------------------------------------
(* What the tables, the runners, the requests and the retention can be.    *)
CastingTypeOK ==
  /\ scenario \in Scenarios
  /\ file \in [Items -> Paths \cup {NoPath, Gone}]
  /\ analysis \in [Ids -> Analysis]
  /\ output \subseteq Ids
  /\ runner \in [Backends -> Runner]
  /\ asked \in [Requests -> Request]
  /\ pass \in Pass

(* "A reused row points at the original's" files, and they are removed     *)
(* "only when no remaining row points at the same output prefix": whoever  *)
(* opens a finished analysis finds its meshes.                             *)
ResultKept == \A a \in Rows : analysis[a].status = "succeeded" => analysis[a].prefix \in output

ResultKeptByPass == "overlap" \notin faults => ResultKept

(* An analysis is claimed at most MAX_ATTEMPTS times until it is asked for *)
(* again.  An attempt that outlived its window, or that a second retry     *)
(* overtook, may queue its successor's row once more: each process but the *)
(* last one to claim can add one.                                          *)
CastingAttemptsBounded ==
  \A a \in Ids : analysis[a].attempts <=
    IF {"outlive", "double"} \cap faults = {} THEN MaxAttempts
    ELSE MaxAttempts + Cardinality(Backends) - 1

Fresh(a) == analysis[a].status = "queued" /\ analysis[a].attempts = 0

(* "A retryable failure ends this drain": the older row was tried and      *)
(* waits for the next poll, or has gone since.                             *)
RetryAhead(a) ==
  \E c \in analysis[a].after : \/ analysis[c].status = "queued" /\ analysis[c].attempts > 0
                               \/ analysis[c].status = "removed"

(* "Start now instead of waiting for the next poll": a request that queued *)
(* a row leaves a runner at work once it has woken it, unless a claim      *)
(* fails, a backend dies, or the drain ends at the retry of an older row.  *)
FreshStarts ==
  /\ {"error", "crash"} \cap faults = {}
  /\ \A r \in Requests : asked[r].pc # "wake"
  /\ \A b \in scenario.backends : runner[b].pc = "idle"
  => \A a \in Ids : Fresh(a) => RetryAhead(a)

(* A result is final: it is not rewritten, and not worked out again.       *)
ResultFinal ==
  [][\A a \in Rows : analysis[a].status = "succeeded" =>
       \/ analysis'[a] = [analysis[a] EXCEPT !.path = analysis'[a].path,
                                             !.old = analysis'[a].old]
       \/ analysis'[a].status = "removed"
       \/ "double" \in faults]_vars

(* An analysis that was asked for ends: it has a result, or it has failed, *)
(* or it is gone with its item.                                            *)
AnalysisEnds ==
  \A a \in Ids : analysis[a].status \in {"queued", "running"} ~>
                 analysis[a].status \notin {"queued", "running"}
=============================================================================
