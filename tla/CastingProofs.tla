---------------------------- MODULE CastingProofs ----------------------------
(***************************************************************************)
(* Proofs about the sand casting module: its types, and that a result is   *)
(* final and keeps its files, attempts are bounded and a request leaves a  *)
(* runner at work, for any numbers of items, rows, backends and requests.  *)
(***************************************************************************)
EXTENDS Casting, FiniteSetTheorems, TLAPS

(* What a runner knows at each of its steps.                               *)
LoopPcs == {"idle", "drain", "empty"}

AtWork(b) == runner[b].pc \notin LoopPcs

WellShaped(s) ==
  /\ s \in Runner
  /\ IF s.pc \in LoopPcs THEN s.on = NoId /\ ~s.retry ELSE s.on \in Ids
  /\ s.pc = "idle" => ~s.wake
  /\ s.retry => s.attempt < MaxAttempts
  /\ s.pc = "save" => s.prefix # NoId

Typed == /\ CastingTypeOK
         /\ \A b \in Backends : /\ WellShaped(runner[b])
                                /\ b \notin scenario.backends => runner[b].pc = "idle"

-----------------------------------------------------------------------------
(* The records the steps start from are of their types.                    *)
LEMMA Blanks ==
  /\ NoAnalysis \in Analysis /\ NewRequest \in Request /\ Answer \in Request
  /\ NoPass \in Pass /\ WellShaped(IdleRunner)
<1>1. (CHOOSE i \in Items : TRUE) \in Items BY CastingAssumption
<1>2. (CHOOSE p \in Paths : TRUE) \in Paths BY CastingAssumption
<1>3. NoAnalysis \in Analysis BY <1>1, <1>2 DEF NoAnalysis, Analysis
<1>4. NewRequest \in Request BY <1>1, <1>2 DEF NewRequest, Request
<1>5. Answer \in Request BY <1>4 DEF Answer, Request
<1>6. NoPass \in Pass BY DEF NoPass, Pass
<1>7. WellShaped(IdleRunner) BY DEF WellShaped, IdleRunner, Runner, LoopPcs
<1>. QED BY <1>3, <1>4, <1>5, <1>6, <1>7

(* The first states are well typed.                                        *)
LEMMA TypedStarts == CastingInit => Typed
<1>. SUFFICES ASSUME CastingInit PROVE Typed OBVIOUS
<1>1. scenario \in Scenarios /\ file \in [Items -> Paths \cup {NoPath, Gone}]
  BY CastingAssumption DEF CastingInit, TableInit
<1>2. analysis \in [Ids -> Analysis] /\ output \subseteq Ids
  BY Blanks DEF CastingInit, TableInit
<1>3. runner \in [Backends -> Runner] BY Blanks DEF CastingInit, RunnerInit, WellShaped
<1>4. asked \in [Requests -> Request] BY Blanks DEF CastingInit, RequestsInit
<1>5. pass \in Pass BY Blanks DEF CastingInit, RetentionInit
<1>6. \A b \in Backends : WellShaped(runner[b]) /\ runner[b].pc = "idle"
  <2>1. IdleRunner.pc = "idle" BY DEF IdleRunner
  <2>. QED BY <2>1, Blanks DEF CastingInit, RunnerInit
<1>. QED BY <1>1, <1>2, <1>3, <1>4, <1>5, <1>6 DEF Typed, CastingTypeOK

-----------------------------------------------------------------------------
(* The claims of rows keep their types.                                    *)
LEMMA SweptRows ==
  ASSUME Typed
  PROVE  /\ Swept \in [Ids -> Analysis]
         /\ \A a \in Ids : Swept[a] = IF Exhausted(a)
              THEN [analysis[a] EXCEPT !.status = "failed"] ELSE analysis[a]
<1>1. \A a \in Ids : analysis[a] \in Analysis BY DEF Typed, CastingTypeOK
<1>2. \A a \in Ids : [analysis[a] EXCEPT !.status = "failed"] \in Analysis
  BY <1>1 DEF Analysis, Finished
<1>. QED BY <1>1, <1>2 DEF Swept

(* A claim changes the row it takes, and sweeps the others.                *)
LEMMA ClaimedRow ==
  ASSUME Typed, NEW a \in Ids, ClaimNext(a)
  PROVE  /\ analysis' \in [Ids -> Analysis]
         /\ \A c \in Ids : analysis'[c] = IF c = a
              THEN [analysis[a] EXCEPT !.status = "running", !.stale = FALSE,
                                       !.attempts = analysis[a].attempts + 1]
              ELSE Swept[c]
<1>1. analysis[a] \in Analysis BY DEF Typed, CastingTypeOK
<1> DEFINE new == [analysis[a] EXCEPT !.status = "running", !.stale = FALSE,
                                      !.attempts = analysis[a].attempts + 1]
<1>2. new \in Analysis
  <2>1. analysis[a].attempts + 1 \in Nat BY <1>1 DEF Analysis
  <2>. QED BY <1>1, <2>1 DEF Analysis
<1>3. Swept[a] = analysis[a]
  <2>1. ~Exhausted(a) BY <1>1 DEF ClaimNext, Waiting, Exhausted, Analysis
  <2>. QED BY <2>1, SweptRows
<1>4. analysis' = [Swept EXCEPT ![a] = [Swept[a] EXCEPT !.status = "running",
           !.attempts = analysis[a].attempts + 1, !.stale = FALSE]]
  BY SweptRows DEF ClaimNext
<1>5. [Swept[a] EXCEPT !.status = "running", !.attempts = analysis[a].attempts + 1,
                       !.stale = FALSE] = new
  BY <1>1, <1>3 DEF Analysis
<1>. QED BY <1>2, <1>4, <1>5, SweptRows

(* What they leave of a row, field by field.                               *)
SameButStatus(x, y) ==
  /\ x.prefix = y.prefix /\ x.item = y.item /\ x.after = y.after /\ x.attempts = y.attempts

(* The sweep changes the status of a row and nothing else.                 *)
LEMMA SweptFields ==
  ASSUME Typed, NEW c \in Ids
  PROVE  /\ SameButStatus(Swept[c], analysis[c])
         /\ \/ Swept[c] = analysis[c] /\ ~Exhausted(c)
            \/ Exhausted(c) /\ Swept[c].status = "failed"
<1>1. analysis[c] \in Analysis BY DEF Typed, CastingTypeOK
<1>2. Swept[c] = IF Exhausted(c) THEN [analysis[c] EXCEPT !.status = "failed"] ELSE analysis[c]
  BY SweptRows
<1>. QED BY <1>1, <1>2 DEF SameButStatus, Analysis

(* A claim counts the attempt of the row it takes.                         *)
LEMMA ClaimedFields ==
  ASSUME Typed, NEW a \in Ids, ClaimNext(a), NEW c \in Ids
  PROVE  /\ analysis[a].status \in {"queued", "running"}
         /\ c # a => /\ SameButStatus(analysis'[c], analysis[c])
                     /\ \/ analysis'[c] = analysis[c] /\ ~Exhausted(c)
                        \/ Exhausted(c) /\ analysis'[c].status = "failed"
         /\ c = a => /\ analysis'[c].prefix = analysis[c].prefix
                     /\ analysis'[c].item = analysis[c].item
                     /\ analysis'[c].after = analysis[c].after
                     /\ analysis'[c].attempts = analysis[c].attempts + 1
                     /\ analysis'[c].status = "running" /\ analysis'[c].stale = FALSE
<1>1. analysis[c] \in Analysis BY DEF Typed, CastingTypeOK
<1>2. analysis[a].status \in {"queued", "running"} BY DEF ClaimNext, Waiting
<1>3. CASE c # a
  <2>1. analysis'[c] = Swept[c] BY <1>3, ClaimedRow
  <2>. QED BY <1>2, <1>3, <2>1, SweptFields
<1>4. CASE c = a
  <2>1. analysis'[c] = [analysis[c] EXCEPT !.status = "running", !.stale = FALSE,
                                           !.attempts = analysis[c].attempts + 1]
    BY <1>4, ClaimedRow
  <2>. QED BY <1>1, <1>2, <1>4, <2>1 DEF Analysis
<1>. QED BY <1>3, <1>4

(* A row of a runner's update, if it is still running.                     *)
LEMMA UpdatedRow ==
  ASSUME Typed, NEW a \in Ids, NEW new \in Analysis, WhileRunning(a, new)
  PROVE  /\ analysis' \in [Ids -> Analysis]
         /\ \A c \in Ids : analysis'[c] = IF c = a /\ analysis[a].status = "running"
                                          THEN new ELSE analysis[c]
BY DEF WhileRunning, Typed, CastingTypeOK

(* What is left of deleted rows.                                           *)
LEMMA DeletedRows ==
  ASSUME Typed, NEW S
  PROVE  /\ Without(S) \in [Ids -> Analysis]
         /\ \A a \in S \cap Ids : /\ Without(S)[a].status = "removed"
                                  /\ Without(S)[a].attempts = 0
                                  /\ Without(S)[a].prefix = NoId
                                  /\ Without(S)[a].item = analysis[a].item
                                  /\ Without(S)[a].after = {}
         /\ \A a \in Ids \ S : Without(S)[a] = analysis[a]
<1> DEFINE gone(a) == [NoAnalysis EXCEPT !.status = "removed", !.item = analysis[a].item,
                                         !.path = analysis[a].path]
<1>1. \A a \in Ids : analysis[a] \in Analysis BY DEF Typed, CastingTypeOK
<1>2. \A a \in Ids : gone(a) \in Analysis BY <1>1, Blanks DEF Analysis
<1>3. \A a \in Ids : /\ gone(a).status = "removed" /\ gone(a).attempts = 0
                     /\ gone(a).prefix = NoId /\ gone(a).item = analysis[a].item
                     /\ gone(a).after = {}
  BY DEF NoAnalysis
<1>4. \A a \in Ids : Without(S)[a] = IF a \in S THEN gone(a) ELSE analysis[a]
  BY DEF Without
<1>5. Without(S) \in [Ids -> Analysis]
  <2> HIDE DEF gone
  <2>1. \A a \in Ids : (IF a \in S THEN gone(a) ELSE analysis[a]) \in Analysis BY <1>1, <1>2
  <2>2. Without(S) = [a \in Ids |-> IF a \in S THEN gone(a) ELSE analysis[a]]
    BY DEF Without, gone
  <2>. QED BY <2>1, <2>2
<1> HIDE DEF gone
<1>. QED BY <1>3, <1>4, <1>5

-----------------------------------------------------------------------------
(* What a step of a runner does, seen from the table: it claims, finds     *)
(* nothing, goes on with its row, records how the attempt ended, turns in  *)
(* its loop, or drops what it was doing.                                   *)
Takes(b, s, a) ==
  /\ runner[b].pc = "drain" /\ s.pc = "read"
  /\ s.on = a /\ s.attempt = analysis[a].attempts + 1 /\ s.wake = runner[b].wake
  /\ ClaimNext(a)
  /\ output' = output

FindsNothing(b, s) ==
  /\ runner[b].pc = "drain" /\ s.pc = "empty"
  /\ Waiting = {} /\ analysis' = Swept
  /\ output' = output

GoesOn(b, s) ==
  /\ AtWork(b) /\ s.pc \notin LoopPcs
  /\ s.on = runner[b].on /\ s.attempt = runner[b].attempt
  /\ runner[b].wake => s.wake
  /\ analysis' = analysis
  /\ output \subseteq output' /\ output' \subseteq output \cup {runner[b].on}
  /\ s.pc = "save" => \/ runner[b].pc = "save" /\ s.prefix = runner[b].prefix
                      \/ \E t \in Rows : /\ analysis[t].status = "succeeded"
                                         /\ s.prefix = analysis[t].prefix
                      \/ s.prefix \in output'

Saves(b, s) ==
  /\ runner[b].pc = "save" /\ s.pc = "drain"
  /\ WhileRunning(runner[b].on, [analysis[runner[b].on] EXCEPT
       !.status = "succeeded", !.prefix = runner[b].prefix, !.stale = FALSE])
  /\ output' = output

Gives(b, s) ==
  /\ runner[b].pc = "fail"
  /\ IF runner[b].retry /\ ~runner[b].wake THEN s.pc = "idle" ELSE s.pc = "drain"
  /\ WhileRunning(runner[b].on, [analysis[runner[b].on] EXCEPT
       !.status = IF runner[b].retry THEN "queued" ELSE "failed", !.stale = FALSE])
  /\ output' = output

Loops(b, s) ==
  /\ runner[b].pc \in LoopPcs /\ s.pc \in LoopPcs
  /\ runner[b].pc = "drain" => s.pc = "drain"
  /\ runner[b].wake => s.pc = "drain" \/ s.wake
  /\ UNCHANGED <<analysis, output>>

Drops(b, s) ==
  /\ {"error", "crash"} \cap faults # {}
  /\ s = IdleRunner
  /\ UNCHANGED <<analysis, output>>

Turned(b, s) == \/ \E a \in Ids : Takes(b, s, a)
                \/ FindsNothing(b, s) \/ GoesOn(b, s) \/ Saves(b, s)
                \/ Gives(b, s) \/ Loops(b, s) \/ Drops(b, s)

(* The records of a runner's next step.                                    *)
LEMMA NextShapes ==
  ASSUME Typed, NEW b \in Backends
  PROVE  /\ WellShaped([IdleRunner EXCEPT !.pc = "drain", !.wake = runner[b].wake])
         /\ WellShaped([IdleRunner EXCEPT !.pc = IF runner[b].wake THEN "drain" ELSE "idle"])
         /\ \A retry \in BOOLEAN : AtWork(b) =>
              WellShaped([runner[b] EXCEPT !.pc = "fail", !.prefix = NoId,
                            !.retry = retry /\ runner[b].attempt < MaxAttempts])
         /\ \A pc \in {"twin", "work", "store"} : AtWork(b) =>
              WellShaped([runner[b] EXCEPT !.pc = pc])
         /\ \A p \in Ids : AtWork(b) =>
              WellShaped([runner[b] EXCEPT !.pc = "save", !.prefix = p])
<1>. DEFINE w == runner[b].wake
            x == runner[b]
<1>1. WellShaped(x) /\ w \in BOOLEAN BY DEF Typed, WellShaped, Runner
<1>2. AtWork(b) => x.on \in Ids BY <1>1 DEF WellShaped, AtWork
<1>3. WellShaped([IdleRunner EXCEPT !.pc = "drain", !.wake = w])
  <2> HIDE DEF w
  <2>. QED BY <1>1 DEF WellShaped, IdleRunner, Runner, LoopPcs
<1>4. WellShaped([IdleRunner EXCEPT !.pc = IF w THEN "drain" ELSE "idle"])
  <2> HIDE DEF w
  <2>1. CASE w BY <2>1 DEF WellShaped, IdleRunner, Runner, LoopPcs
  <2>2. CASE ~w BY <2>2 DEF WellShaped, IdleRunner, Runner, LoopPcs
  <2>. QED BY <2>1, <2>2
<1>5. ASSUME NEW retry \in BOOLEAN, AtWork(b)
      PROVE  WellShaped([x EXCEPT !.pc = "fail", !.prefix = NoId,
                                  !.retry = retry /\ x.attempt < MaxAttempts])
  <2> HIDE DEF x
  <2> DEFINE y == retry /\ x.attempt < MaxAttempts
  <2>1. y \in BOOLEAN /\ (y => x.attempt < MaxAttempts) OBVIOUS
  <2> HIDE DEF y
  <2>2. WellShaped([x EXCEPT !.pc = "fail", !.prefix = NoId, !.retry = y])
    BY <1>1, <1>2, <1>5, <2>1 DEF WellShaped, Runner, LoopPcs
  <2>. QED BY <2>2 DEF y
<1>6. ASSUME NEW pc \in {"twin", "work", "store"}, AtWork(b)
      PROVE  WellShaped([x EXCEPT !.pc = pc])
  BY <1>1, <1>2, <1>6 DEF WellShaped, Runner, LoopPcs
<1>7. ASSUME NEW p \in Ids, AtWork(b)
      PROVE  WellShaped([x EXCEPT !.pc = "save", !.prefix = p])
  BY <1>1, <1>2, <1>7, CastingAssumption DEF WellShaped, Runner, LoopPcs
<1>. QED BY <1>3, <1>4, <1>5, <1>6, <1>7

(* A poll, and the end of a drain.                                         *)
LEMMA LoopTurns ==
  ASSUME Typed, NEW b \in Backends, Poll(b) \/ FindEmpty(b)
  PROVE  \E s : WellShaped(s) /\ runner' = [runner EXCEPT ![b] = s] /\ Turned(b, s)
<1>1. WellShaped(runner[b]) BY DEF Typed
<1>2. CASE Poll(b)
  <2> DEFINE s == Woken(b)
  <2>1. WellShaped(s) BY <1>1 DEF WellShaped, Woken, IdleRunner, Runner, LoopPcs
  <2>2. runner' = [runner EXCEPT ![b] = s] /\ UNCHANGED <<analysis, output>>
    BY <1>2 DEF Poll, table
  <2>3. CASE runner[b].pc = "idle"
    <3>1. s.pc = "drain" BY <2>3 DEF Woken, IdleRunner
    <3>. QED BY <2>1, <2>2, <2>3, <3>1 DEF Turned, Loops, LoopPcs
  <2>4. CASE runner[b].pc # "idle"
    <3>1. s = [runner[b] EXCEPT !.wake = TRUE] BY <2>4 DEF Woken
    <3>2. /\ s.pc = runner[b].pc /\ s.on = runner[b].on /\ s.attempt = runner[b].attempt
          /\ s.prefix = runner[b].prefix /\ s.wake = TRUE
      BY <1>1, <3>1 DEF WellShaped, Runner
    <3> HIDE DEF s
    <3>3. CASE AtWork(b)
      BY <2>1, <2>2, <3>2, <3>3 DEF Turned, GoesOn, AtWork
    <3>4. CASE ~AtWork(b)
      BY <2>1, <2>2, <3>2, <3>4 DEF Turned, Loops, AtWork
    <3>. QED BY <3>3, <3>4
  <2>. QED BY <2>3, <2>4
<1>3. CASE FindEmpty(b)
  <2> DEFINE s == [IdleRunner EXCEPT !.pc = IF runner[b].wake THEN "drain" ELSE "idle"]
  <2>1. WellShaped(s) BY NextShapes
  <2>2. /\ runner' = [runner EXCEPT ![b] = s] /\ UNCHANGED <<analysis, output>>
        /\ runner[b].pc = "empty"
    BY <1>3 DEF FindEmpty, EndDrain, table
  <2>3. s.pc = IF runner[b].wake THEN "drain" ELSE "idle" BY DEF IdleRunner
  <2> HIDE DEF s
  <2>. QED BY <2>1, <2>2, <2>3 DEF Turned, Loops, LoopPcs
<1>. QED BY <1>2, <1>3

(* A claim takes a row, or finds that none waits.                          *)
LEMMA ClaimTurns ==
  ASSUME Typed, NEW b \in Backends, Claim(b)
  PROVE  \E s : WellShaped(s) /\ runner' = [runner EXCEPT ![b] = s] /\ Turned(b, s)
<1>1. WellShaped(runner[b]) BY DEF Typed
<1>2. ASSUME NEW a \in Ids, ClaimNext(a),
             runner' = [runner EXCEPT ![b].pc = "read", ![b].on = a,
                                      ![b].attempt = analysis[a].attempts + 1]
      PROVE  \E s : WellShaped(s) /\ runner' = [runner EXCEPT ![b] = s] /\ Turned(b, s)
  <2>1. analysis[a].attempts + 1 \in Nat BY DEF Typed, CastingTypeOK, Analysis
  <2> DEFINE n == analysis[a].attempts + 1
             s == [runner[b] EXCEPT !.pc = "read", !.on = a, !.attempt = n]
  <2>2. runner' = [runner EXCEPT ![b] = s] BY <1>2
  <2>3. runner[b].pc = "drain" /\ output' = output BY DEF Claim
  <2> HIDE DEF n
  <2>4. WellShaped(s) BY <1>1, <2>1, <2>3 DEF WellShaped, Runner, LoopPcs, n
  <2>5. s.pc = "read" /\ s.on = a /\ s.attempt = n /\ s.wake = runner[b].wake
    BY <1>1 DEF WellShaped, Runner
  <2> HIDE DEF s
  <2>6. Takes(b, s, a) BY <1>2, <2>3, <2>5 DEF Takes, n
  <2>. QED BY <2>2, <2>4, <2>6 DEF Turned
<1>3. ASSUME Waiting = {}, analysis' = Swept, Does(b, "empty")
      PROVE  \E s : WellShaped(s) /\ runner' = [runner EXCEPT ![b] = s] /\ Turned(b, s)
  <2> DEFINE s == [runner[b] EXCEPT !.pc = "empty"]
  <2>1. runner' = [runner EXCEPT ![b] = s] BY <1>3 DEF Does
  <2>2. runner[b].pc = "drain" /\ output' = output BY DEF Claim
  <2>3. WellShaped(s) BY <1>1, <2>2 DEF WellShaped, Runner, LoopPcs
  <2>4. s.pc = "empty" BY <1>1 DEF WellShaped, Runner
  <2>. QED BY <1>3, <2>1, <2>2, <2>3, <2>4 DEF Turned, FindsNothing
<1>. QED BY <1>2, <1>3 DEF Claim

(* A claim that fails, and a backend that dies.                            *)
LEMMA DropTurns ==
  ASSUME Typed, NEW b \in Backends, ClaimFails(b) \/ RunnerCrash(b)
  PROVE  \E s : WellShaped(s) /\ runner' = [runner EXCEPT ![b] = s] /\ Turned(b, s)
BY Blanks DEF ClaimFails, RunnerCrash, Throw, Turned, Drops, table

(* An attempt that fails is at its last step, with what it will record.    *)
LEMMA FailingTurns ==
  ASSUME Typed, NEW b \in Backends, AtWork(b), NEW retry \in BOOLEAN, Failing(b, retry),
         UNCHANGED <<analysis, output>>
  PROVE  \E s : WellShaped(s) /\ runner' = [runner EXCEPT ![b] = s] /\ Turned(b, s)
<1> DEFINE x == runner[b]
           y == retry /\ x.attempt < MaxAttempts
           s == [x EXCEPT !.pc = "fail", !.prefix = NoId, !.retry = y]
<1>1. WellShaped(x) BY DEF Typed
<1>2. runner' = [runner EXCEPT ![b] = s] BY DEF Failing
<1>3. WellShaped(s) BY NextShapes
<1> HIDE DEF y
<1>4. s.pc = "fail" /\ s.on = x.on /\ s.attempt = x.attempt /\ s.wake = x.wake
  BY <1>1 DEF WellShaped, Runner
<1> HIDE DEF s
<1>. QED BY <1>2, <1>3, <1>4 DEF Turned, GoesOn, LoopPcs

(* An attempt that goes on to a step before its result is there.           *)
LEMMA DoesTurns ==
  ASSUME Typed, NEW b \in Backends, AtWork(b), NEW pc \in {"twin", "work", "store"},
         Does(b, pc), UNCHANGED <<analysis, output>>
  PROVE  \E s : WellShaped(s) /\ runner' = [runner EXCEPT ![b] = s] /\ Turned(b, s)
<1> DEFINE x == runner[b]
           s == [x EXCEPT !.pc = pc]
<1>1. WellShaped(x) BY DEF Typed
<1>2. runner' = [runner EXCEPT ![b] = s] BY DEF Does
<1>3. WellShaped(s) BY NextShapes
<1>4. s.pc = pc /\ s.on = x.on /\ s.attempt = x.attempt /\ s.wake = x.wake
  BY <1>1 DEF WellShaped, Runner
<1> HIDE DEF s
<1>. QED BY <1>2, <1>3, <1>4 DEF Turned, GoesOn, LoopPcs

(* An attempt whose result is there, or was found.                         *)
LEMMA ResultTurns ==
  ASSUME Typed, NEW b \in Backends, AtWork(b), NEW p \in Ids,
         runner' = [runner EXCEPT ![b].pc = "save", ![b].prefix = p],
         analysis' = analysis, output \subseteq output',
         output' \subseteq output \cup {runner[b].on},
         \/ \E t \in Rows : analysis[t].status = "succeeded" /\ p = analysis[t].prefix
         \/ p \in output'
  PROVE  \E s : WellShaped(s) /\ runner' = [runner EXCEPT ![b] = s] /\ Turned(b, s)
<1> DEFINE x == runner[b]
           s == [x EXCEPT !.pc = "save", !.prefix = p]
<1>1. WellShaped(x) BY DEF Typed
<1>2. runner' = [runner EXCEPT ![b] = s] OBVIOUS
<1>3. WellShaped(s) BY NextShapes
<1>4. /\ s.pc = "save" /\ s.on = x.on /\ s.attempt = x.attempt /\ s.wake = x.wake
      /\ s.prefix = p
  BY <1>1 DEF WellShaped, Runner
<1> HIDE DEF s
<1>5. GoesOn(b, s) BY <1>4 DEF GoesOn, LoopPcs
<1>. QED BY <1>2, <1>3, <1>5 DEF Turned

(* The steps of an attempt, up to its result.                              *)
LEMMA WorkTurns ==
  ASSUME Typed, NEW b \in Backends,
         Read(b) \/ LookForTwin(b) \/ RunWorker(b) \/ StoreParts(b)
  PROVE  \E s : WellShaped(s) /\ runner' = [runner EXCEPT ![b] = s] /\ Turned(b, s)
<1>1. AtWork(b) /\ analysis' = analysis
  BY DEF Read, LookForTwin, RunWorker, StoreParts, AtWork, LoopPcs, table
<1>2. CASE Read(b)
  BY <1>1, <1>2, DoesTurns, FailingTurns DEF Read, table
<1>3. CASE LookForTwin(b)
  <2>1. UNCHANGED <<analysis, output>> BY <1>3 DEF LookForTwin, table
  <2>2. ASSUME NEW t \in Twins(analysis[runner[b].on].path),
               runner' = [runner EXCEPT ![b].pc = "save", ![b].prefix = analysis[t].prefix]
        PROVE  \E s : WellShaped(s) /\ runner' = [runner EXCEPT ![b] = s] /\ Turned(b, s)
    <3>1. t \in Rows /\ analysis[t].status = "succeeded" /\ analysis[t].prefix # NoId
      BY DEF Twins
    <3>2. analysis[t].prefix \in Ids BY <3>1 DEF Typed, CastingTypeOK, Analysis, Rows
    <3>. QED BY <1>1, <2>1, <2>2, <3>1, <3>2, ResultTurns
  <2>. QED BY <1>1, <1>3, <2>1, <2>2, DoesTurns DEF LookForTwin
<1>4. CASE RunWorker(b)
  BY <1>1, <1>4, DoesTurns, FailingTurns DEF RunWorker, table
<1>5. CASE StoreParts(b)
  <2>1. runner[b].on \in Ids BY <1>1 DEF Typed, WellShaped, AtWork
  <2>. QED BY <1>1, <1>5, <2>1, ResultTurns, FailingTurns DEF StoreParts
<1>. QED BY <1>2, <1>3, <1>4, <1>5

(* The last update of an attempt, or its failure.                          *)
LEMMA SaveTurns ==
  ASSUME Typed, NEW b \in Backends, Save(b)
  PROVE  \E s : WellShaped(s) /\ runner' = [runner EXCEPT ![b] = s] /\ Turned(b, s)
<1>1. runner[b].pc = "save" /\ AtWork(b) /\ output' = output
  BY DEF Save, AtWork, LoopPcs
<1>2. ASSUME NextRow(b), WhileRunning(runner[b].on, [analysis[runner[b].on] EXCEPT
               !.status = "succeeded", !.prefix = runner[b].prefix, !.stale = FALSE])
      PROVE  \E s : WellShaped(s) /\ runner' = [runner EXCEPT ![b] = s] /\ Turned(b, s)
  <2> DEFINE s == [IdleRunner EXCEPT !.pc = "drain", !.wake = runner[b].wake]
  <2>1. WellShaped(s) BY NextShapes
  <2>2. runner' = [runner EXCEPT ![b] = s] BY <1>2 DEF NextRow
  <2>3. s.pc = "drain" BY DEF IdleRunner
  <2> HIDE DEF s
  <2>4. Saves(b, s) BY <1>1, <1>2, <2>3 DEF Saves
  <2>. QED BY <2>1, <2>2, <2>4 DEF Turned
<1>3. CASE Failing(b, TRUE) /\ analysis' = analysis
  BY <1>1, <1>3, FailingTurns
<1>. QED BY <1>2, <1>3 DEF Save

(* A failure is recorded, or is not.                                       *)
LEMMA FailTurns ==
  ASSUME Typed, NEW b \in Backends, Fail(b)
  PROVE  \E s : WellShaped(s) /\ runner' = [runner EXCEPT ![b] = s] /\ Turned(b, s)
<1>1. runner[b].pc = "fail" /\ output' = output BY DEF Fail
<1>2. ASSUME WhileRunning(runner[b].on, [analysis[runner[b].on] EXCEPT
               !.status = IF runner[b].retry THEN "queued" ELSE "failed", !.stale = FALSE]),
             IF runner[b].retry THEN EndDrain(b) ELSE NextRow(b)
      PROVE  \E s : WellShaped(s) /\ runner' = [runner EXCEPT ![b] = s] /\ Turned(b, s)
  <2>1. CASE runner[b].retry
    <3> DEFINE s == [IdleRunner EXCEPT !.pc = IF runner[b].wake THEN "drain" ELSE "idle"]
    <3>1. WellShaped(s) BY NextShapes
    <3>2. runner' = [runner EXCEPT ![b] = s] BY <1>2, <2>1 DEF EndDrain
    <3>3. s.pc = IF runner[b].wake THEN "drain" ELSE "idle" BY DEF IdleRunner
    <3> HIDE DEF s
    <3>4. Gives(b, s) BY <1>1, <1>2, <2>1, <3>3 DEF Gives
    <3>. QED BY <3>1, <3>2, <3>4 DEF Turned
  <2>2. CASE ~runner[b].retry
    <3> DEFINE s == [IdleRunner EXCEPT !.pc = "drain", !.wake = runner[b].wake]
    <3>1. WellShaped(s) BY NextShapes
    <3>2. runner' = [runner EXCEPT ![b] = s] BY <1>2, <2>2 DEF NextRow
    <3>3. s.pc = "drain" BY DEF IdleRunner
    <3> HIDE DEF s
    <3>4. Gives(b, s) BY <1>1, <1>2, <2>2, <3>3 DEF Gives
    <3>. QED BY <3>1, <3>2, <3>4 DEF Turned
  <2>. QED BY <2>1, <2>2
<1>3. CASE "error" \in faults /\ Throw(b) /\ analysis' = analysis
  BY <1>1, <1>3, Blanks DEF Throw, Turned, Drops
<1>. QED BY <1>2, <1>3 DEF Fail

(* Every step of a runner is one of these, and keeps the types.            *)
RunnerActs(b) == Runs(b) /\ (RunnerStep(b) \/ ClaimFails(b) \/ RunnerCrash(b))

(* All of them.                                                            *)
LEMMA RunnerTurns ==
  ASSUME Typed, NEW b \in Backends, RunnerActs(b)
  PROVE  /\ b \in scenario.backends /\ UNCHANGED <<scenario, file, asked, pass>>
         /\ \E s : /\ WellShaped(s)
                   /\ \A c \in Backends : runner'[c] = IF c = b THEN s ELSE runner[c]
                   /\ Turned(b, s)
         /\ runner[b].pc = "drain" => NoPassRuns
<1>1. \E s : WellShaped(s) /\ runner' = [runner EXCEPT ![b] = s] /\ Turned(b, s)
  BY LoopTurns, ClaimTurns, DropTurns, WorkTurns, SaveTurns, FailTurns
  DEF RunnerActs, RunnerStep
<1>2. b \in scenario.backends /\ UNCHANGED <<scenario, file, asked, pass>>
  BY DEF RunnerActs, Runs, RunnerStep, Poll, Claim, FindEmpty, Read, LookForTwin, RunWorker,
         StoreParts, Save, Fail, ClaimFails, RunnerCrash, table
<1>3. runner \in [Backends -> Runner] BY DEF Typed, CastingTypeOK
<1>4. runner[b].pc = "drain" => NoPassRuns BY DEF RunnerActs, Runs
<1>. QED BY <1>1, <1>2, <1>3, <1>4

(* The row a runner updates, before and after.                             *)
LEMMA SavedRow ==
  ASSUME Typed, NEW b \in Backends, NEW s, Saves(b, s)
  PROVE  /\ runner[b].on \in Ids /\ runner[b].prefix \in Ids
         /\ analysis' \in [Ids -> Analysis]
         /\ \A c \in Ids : analysis'[c] =
              IF c = runner[b].on /\ analysis[c].status = "running"
              THEN [analysis[c] EXCEPT !.status = "succeeded", !.prefix = runner[b].prefix,
                                       !.stale = FALSE]
              ELSE analysis[c]
<1> DEFINE a == runner[b].on
           p == runner[b].prefix
           new == [analysis[a] EXCEPT !.status = "succeeded", !.prefix = p, !.stale = FALSE]
<1>1. a \in Ids /\ p \in Ids BY DEF Typed, WellShaped, Saves, LoopPcs, Runner
<1>2. analysis[a] \in Analysis BY <1>1 DEF Typed, CastingTypeOK
<1> HIDE DEF a, p
<1>3. new \in Analysis BY <1>1, <1>2 DEF Analysis, Finished
<1>4. WhileRunning(a, new) BY DEF Saves, a, p
<1> HIDE DEF new
<1>5. /\ analysis' \in [Ids -> Analysis]
      /\ \A c \in Ids : analysis'[c] = IF c = a /\ analysis[a].status = "running"
                                       THEN new ELSE analysis[c]
  BY <1>1, <1>3, <1>4, UpdatedRow
<1>. QED BY <1>1, <1>5 DEF a, p, new

(* The same of a failure.                                                  *)
LEMMA GivenRow ==
  ASSUME Typed, NEW b \in Backends, NEW s, Gives(b, s)
  PROVE  /\ runner[b].on \in Ids
         /\ analysis' \in [Ids -> Analysis]
         /\ \A c \in Ids : analysis'[c] =
              IF c = runner[b].on /\ analysis[c].status = "running"
              THEN [analysis[c] EXCEPT !.status = IF runner[b].retry THEN "queued" ELSE "failed",
                                       !.stale = FALSE]
              ELSE analysis[c]
<1> DEFINE a == runner[b].on
           e == IF runner[b].retry THEN "queued" ELSE "failed"
           new == [analysis[a] EXCEPT !.status = e, !.stale = FALSE]
<1>1. a \in Ids BY DEF Typed, WellShaped, Gives, LoopPcs
<1>2. analysis[a] \in Analysis BY <1>1 DEF Typed, CastingTypeOK
<1>3. e \in {"queued", "failed"} OBVIOUS
<1> HIDE DEF a, e
<1>4. new \in Analysis BY <1>1, <1>2, <1>3 DEF Analysis, Finished
<1>5. WhileRunning(a, new) BY DEF Gives, a, e
<1> HIDE DEF new
<1>6. /\ analysis' \in [Ids -> Analysis]
      /\ \A c \in Ids : analysis'[c] = IF c = a /\ analysis[a].status = "running"
                                       THEN new ELSE analysis[c]
  BY <1>1, <1>4, <1>5, UpdatedRow
<1>. QED BY <1>1, <1>6 DEF a, e, new

(* A result changes the row of a running attempt only.                     *)
LEMMA SavedFields ==
  ASSUME Typed, NEW b \in Backends, NEW s, Saves(b, s), NEW c \in Ids
  PROVE  \/ analysis'[c] = analysis[c] /\ ~(c = runner[b].on /\ analysis[c].status = "running")
         \/ /\ c = runner[b].on /\ analysis[c].status = "running"
            /\ analysis'[c].status = "succeeded" /\ analysis'[c].prefix = runner[b].prefix
            /\ analysis'[c].item = analysis[c].item /\ analysis'[c].after = analysis[c].after
            /\ analysis'[c].attempts = analysis[c].attempts
<1>1. analysis[c] \in Analysis BY DEF Typed, CastingTypeOK
<1> DEFINE p == runner[b].prefix
           y == [analysis[c] EXCEPT !.status = "succeeded", !.prefix = p, !.stale = FALSE]
<1>2. /\ y.status = "succeeded" /\ y.prefix = p /\ y.item = analysis[c].item
      /\ y.after = analysis[c].after /\ y.attempts = analysis[c].attempts
  <2> HIDE DEF p
  <2>. QED BY <1>1 DEF Analysis
<1>3. analysis'[c] = IF c = runner[b].on /\ analysis[c].status = "running" THEN y ELSE analysis[c]
  BY SavedRow
<1> HIDE DEF y
<1>. QED BY <1>2, <1>3

(* So does a failure, and only its status.                                 *)
LEMMA GivenFields ==
  ASSUME Typed, NEW b \in Backends, NEW s, Gives(b, s), NEW c \in Ids
  PROVE  \/ analysis'[c] = analysis[c] /\ ~(c = runner[b].on /\ analysis[c].status = "running")
         \/ /\ c = runner[b].on /\ analysis[c].status = "running"
            /\ analysis'[c].status = IF runner[b].retry THEN "queued" ELSE "failed"
            /\ SameButStatus(analysis'[c], analysis[c])
<1>1. analysis[c] \in Analysis BY DEF Typed, CastingTypeOK
<1> DEFINE e == IF runner[b].retry THEN "queued" ELSE "failed"
           y == [analysis[c] EXCEPT !.status = e, !.stale = FALSE]
<1>2. y.status = e /\ SameButStatus(y, analysis[c])
  <2> HIDE DEF e
  <2>. QED BY <1>1 DEF Analysis, SameButStatus
<1>3. analysis'[c] = IF c = runner[b].on /\ analysis[c].status = "running" THEN y ELSE analysis[c]
  BY GivenRow
<1> HIDE DEF y
<1>. QED BY <1>2, <1>3

(* A runner keeps the types.                                               *)
LEMMA RunnerTyped ==
  ASSUME Typed, NEW b \in Backends, RunnerActs(b)
  PROVE  Typed'
<1>1. PICK s : /\ WellShaped(s)
               /\ \A c \in Backends : runner'[c] = IF c = b THEN s ELSE runner[c]
               /\ Turned(b, s)
  BY RunnerTurns
<1>2. /\ b \in scenario.backends /\ UNCHANGED <<scenario, file, asked, pass>>
      /\ runner \in [Backends -> Runner]
  BY RunnerTurns DEF Typed, CastingTypeOK
<1>3. analysis' \in [Ids -> Analysis]
  <2>1. analysis \in [Ids -> Analysis] BY DEF Typed, CastingTypeOK
  <2>. QED BY <1>1, <2>1, ClaimedRow, SweptRows, SavedRow, GivenRow
           DEF Turned, Takes, FindsNothing, GoesOn, Loops, Drops
<1>4. output' \subseteq Ids
  BY <1>1 DEF Typed, CastingTypeOK, WellShaped, AtWork, Turned, Takes, FindsNothing, GoesOn,
              Saves, Gives, Loops, Drops
<1>5. runner' \in [Backends -> Runner]
  <2>1. runner' = [runner EXCEPT ![b] = s]
    <3>1. \E t : runner' = [runner EXCEPT ![b] = t]
      BY LoopTurns, ClaimTurns, DropTurns, WorkTurns, SaveTurns, FailTurns
      DEF RunnerActs, RunnerStep
    <3>. QED BY <1>1, <1>2, <3>1
  <2>. QED BY <1>1, <1>2, <2>1 DEF WellShaped
<1>6. \A c \in Backends : /\ WellShaped(runner'[c])
                          /\ c \notin scenario.backends => runner'[c].pc = "idle"
  BY <1>1, <1>2 DEF Typed
<1>. QED BY <1>2, <1>3, <1>4, <1>5, <1>6 DEF Typed, CastingTypeOK, WellShaped

-----------------------------------------------------------------------------
(* A step of a request, seen from the table: it begins, goes on, ends, or  *)
(* changes a row and ends.                                                 *)
Begins(r, x) ==
  /\ asked[r].pc = "new" /\ x.pc = "find" /\ x.prefix = asked[r].prefix
  /\ "double" \in faults \/ \A q \in Handled : asked[q].item # x.item
  /\ NoPassRuns
  /\ UNCHANGED <<analysis, runner>>

Continues(r, x) ==
  /\ r \in Handled /\ asked[r].pc # "wake"
  /\ x.pc \notin {"new", "answered"} /\ x.item = asked[r].item
  /\ x.pc \in {"move", "requeue"} => x.id \in Rows /\ analysis[x.id].item = x.item
  /\ x.pc = "requeue" => analysis[x.id].status = "failed"
  /\ \/ x.prefix = asked[r].prefix
     \/ \E t \in Rows : analysis[t].status = "succeeded" /\ x.prefix = analysis[t].prefix
  /\ UNCHANGED <<analysis, runner>>

Wakes(b, s) ==
  /\ b \in scenario.backends /\ WellShaped(s)
  /\ runner' \in [Backends -> Runner]
  /\ \A c \in Backends : runner'[c] = IF c = b THEN s ELSE runner[c]
  /\ s.pc = "drain" \/ s.wake
  /\ s.on = runner[b].on /\ (AtWork(b) <=> s.pc \notin LoopPcs)
  /\ AtWork(b) => /\ s.pc = runner[b].pc /\ s.attempt = runner[b].attempt
                  /\ s.prefix = runner[b].prefix

Requeued(a) == [analysis[a] EXCEPT !.status = "queued", !.attempts = 0, !.old = FALSE,
                                   !.stale = FALSE]

Requeues(r) ==
  /\ asked[r].pc = "requeue" /\ asked[r].id \in Rows
  /\ \A c \in Ids : analysis'[c] = IF c = asked[r].id THEN Requeued(c) ELSE analysis[c]
  /\ runner' = runner

Repaths(r) ==
  /\ asked[r].pc = "move"
  /\ \A c \in Ids : analysis'[c] = IF c \in Rows \cap {asked[r].id}
                      THEN [analysis[c] EXCEPT !.path = asked[r].path] ELSE analysis[c]
  /\ runner' = runner

Inserted(r) ==
  [NoAnalysis EXCEPT !.status = IF asked[r].prefix = NoId THEN "queued" ELSE "succeeded",
     !.item = asked[r].item, !.path = asked[r].path, !.prefix = asked[r].prefix, !.after = Rows]

Inserts(r) ==
  /\ asked[r].pc = "insert"
  /\ \E a \in Ids : /\ analysis[a].status = "none"
                    /\ \A c \in Ids : analysis'[c] = IF c = a THEN Inserted(r) ELSE analysis[c]
  /\ runner' = runner

Ends(r) ==
  \/ /\ asked[r].pc # "wake" \/ "error" \in faults
     /\ UNCHANGED <<analysis, runner>>
  \/ Repaths(r)
  \/ Inserts(r) /\ asked[r].prefix # NoId
  \/ /\ asked[r].pc = "wake" /\ analysis' = analysis
     /\ \E b \in Backends, s \in Runner : Wakes(b, s)

Queues(r) == Requeues(r) \/ (Inserts(r) /\ asked[r].prefix = NoId)

Acted(r, x) == \/ Begins(r, x) \/ Continues(r, x)
               \/ x = Answer /\ r \in Handled /\ Ends(r)
               \/ x = Waking(r) /\ r \in Handled /\ Queues(r)

RequestActs(r) == /\ \/ NoPassRuns /\ \E i \in scenario.asks[r] : Ask(r, i)
                     \/ RequestStep(r)
                     \/ RequestFails(r)
                  /\ pass' = pass

(* A scenario is about processes, requests and items there are.            *)
LEMMA ScenarioTyped ==
  ASSUME Typed
  PROVE  /\ scenario.backends \subseteq Backends /\ scenario.changing \subseteq Items
         /\ \A r \in Requests : scenario.asks[r] \subseteq Items
         /\ faults \subseteq FaultKinds
BY CastingAssumption DEF Typed, CastingTypeOK, faults

(* A woken runner starts, or remembers it.                                 *)
LEMMA WakeTyped ==
  ASSUME Typed, NEW r \in Requests, Wake(r)
  PROVE  \E b \in Backends, s \in Runner : Wakes(b, s)
<1>1. PICK b \in scenario.backends : runner' = [runner EXCEPT ![b] = Woken(b)]
  BY DEF Wake
<1>2. b \in Backends BY ScenarioTyped
<1>3. WellShaped(runner[b]) BY <1>2 DEF Typed
<1> DEFINE s == Woken(b)
<1>4. WellShaped(s) BY <1>3 DEF WellShaped, Woken, IdleRunner, Runner, LoopPcs
<1>5. /\ s.pc = "drain" \/ s.wake
      /\ s.on = runner[b].on /\ (AtWork(b) <=> s.pc \notin LoopPcs)
      /\ AtWork(b) => /\ s.pc = runner[b].pc /\ s.attempt = runner[b].attempt
                      /\ s.prefix = runner[b].prefix
  BY <1>3 DEF WellShaped, Woken, IdleRunner, Runner, LoopPcs, AtWork
<1>6. /\ runner' \in [Backends -> Runner]
      /\ \A c \in Backends : runner'[c] = IF c = b THEN s ELSE runner[c]
  <2> HIDE DEF s
  <2>1. runner' = [runner EXCEPT ![b] = s] BY <1>1 DEF s
  <2>. QED BY <1>2, <1>4, <2>1 DEF Typed, CastingTypeOK, WellShaped
<1> HIDE DEF s
<1>7. Wakes(b, s) BY <1>1, <1>4, <1>5, <1>6 DEF Wakes
<1>. QED BY <1>2, <1>4, <1>7 DEF WellShaped

(* A request changes only its own record, to one of its type.              *)
Records(r, x) == /\ x \in Request
                 /\ asked' = [asked EXCEPT ![r] = x]
                 /\ analysis' \in [Ids -> Analysis]

(* A request begins with the file its item has.                            *)
LEMMA AskTurns ==
  ASSUME Typed, NEW r \in Requests, NEW i \in Items, NoPassRuns, Ask(r, i)
  PROVE  \E x : Records(r, x) /\ Acted(r, x)
<1> DEFINE x == [asked[r] EXCEPT !.pc = "find", !.item = i, !.path = file[i]]
<1>1. asked[r] \in Request /\ file[i] \in Paths
  BY DEF Typed, CastingTypeOK, Ask
<1>2. x \in Request BY <1>1 DEF Request
<1>3. asked' = [asked EXCEPT ![r] = x] BY DEF Ask
<1>4. x.pc = "find" /\ x.item = i /\ x.prefix = asked[r].prefix BY <1>1 DEF Request
<1> HIDE DEF x
<1>5. Begins(r, x) BY <1>4 DEF Begins, Ask, table
<1>6. analysis' \in [Ids -> Analysis] BY <1>5 DEF Begins, Typed, CastingTypeOK
<1>. QED BY <1>2, <1>3, <1>5, <1>6 DEF Records, Acted

(* A request that ends without a change.                                   *)
LEMMA AnsweredTurns ==
  ASSUME Typed, NEW r \in Requests, r \in Handled, Answered(r), UNCHANGED <<analysis, runner>>,
         asked[r].pc # "wake" \/ "error" \in faults
  PROVE  \E x : Records(r, x) /\ Acted(r, x)
BY Blanks DEF Records, Acted, Ends, Answered, Typed, CastingTypeOK

(* The record of a request that is to wake a runner.                       *)
LEMMA WakingTyped ==
  ASSUME Typed, NEW r \in Requests
  PROVE  /\ Waking(r) \in Request /\ Waking(r).pc = "wake"
         /\ Waking(r).item = asked[r].item /\ Waking(r).prefix = NoId
<1>1. NewRequest \in Request /\ NewRequest.prefix = NoId /\ asked[r].item \in Items
  BY Blanks DEF NewRequest, Request, Typed, CastingTypeOK
<1>. QED BY <1>1 DEF Waking, Request

(* It wakes its runner.                                                    *)
LEMMA WakeTurns ==
  ASSUME Typed, NEW r \in Requests, Wake(r)
  PROVE  \E x : Records(r, x) /\ Acted(r, x)
<1>1. r \in Handled /\ asked[r].pc = "wake" /\ analysis' = analysis
  BY DEF Wake, Handled, table
<1>2. asked' = [asked EXCEPT ![r] = Answer] BY DEF Wake, Answered
<1>3. Ends(r) BY <1>1, WakeTyped DEF Ends
<1>. QED BY <1>1, <1>2, <1>3, Blanks DEF Records, Acted, Typed, CastingTypeOK

(* A request that goes on.                                                 *)
LEMMA GoesTurns ==
  ASSUME Typed, NEW r \in Requests, NEW x, r \in Handled, x \in Request,
         asked' = [asked EXCEPT ![r] = x], Continues(r, x)
  PROVE  \E y : Records(r, y) /\ Acted(r, y)
BY DEF Continues, Records, Acted, Typed, CastingTypeOK

(* It finds the row of its item and key, or none.                          *)
LEMMA FindTurns ==
  ASSUME Typed, NEW r \in Requests, Find(r)
  PROVE  \E x : Records(r, x) /\ Acted(r, x)
<1>1. asked[r] \in Request BY DEF Typed, CastingTypeOK
<1>2. r \in Handled /\ asked[r].pc # "wake" /\ UNCHANGED <<analysis, runner>>
  BY DEF Find, Handled, table
<1>3. ASSUME NEW a \in RowsFor(asked[r].item, asked[r].path), NEW pc \in {"move", "requeue"},
             pc = "requeue" => analysis[a].status = "failed",
             asked' = [asked EXCEPT ![r].pc = pc, ![r].id = a]
      PROVE  \E x : Records(r, x) /\ Acted(r, x)
  <2> DEFINE x == [asked[r] EXCEPT !.pc = pc, !.id = a]
  <2>1. a \in Rows /\ analysis[a].item = asked[r].item /\ a \in Ids BY DEF RowsFor, Rows
  <2>2. x \in Request BY <1>1, <2>1 DEF Request
  <2>3. asked' = [asked EXCEPT ![r] = x] BY <1>3
  <2>4. x.pc = pc /\ x.id = a /\ x.item = asked[r].item /\ x.prefix = asked[r].prefix
    BY <1>1 DEF Request
  <2> HIDE DEF x
  <2>5. Continues(r, x) BY <1>2, <1>3, <2>1, <2>4 DEF Continues
  <2>. QED BY <1>2, <2>2, <2>3, <2>5, GoesTurns
<1>4. ASSUME asked' = [asked EXCEPT ![r].pc = "twin"]
      PROVE  \E x : Records(r, x) /\ Acted(r, x)
  <2> DEFINE x == [asked[r] EXCEPT !.pc = "twin"]
  <2>1. x \in Request BY <1>1 DEF Request
  <2>2. asked' = [asked EXCEPT ![r] = x] BY <1>4
  <2>3. x.pc = "twin" /\ x.item = asked[r].item /\ x.prefix = asked[r].prefix
    BY <1>1 DEF Request
  <2> HIDE DEF x
  <2>4. Continues(r, x) BY <1>2, <2>3 DEF Continues
  <2>. QED BY <1>2, <2>1, <2>2, <2>4, GoesTurns
<1>5. CASE Answered(r) BY <1>2, <1>5, AnsweredTurns
<1>. QED BY <1>3, <1>4, <1>5 DEF Find

(* It finds a finished row of the same bytes, or none.                     *)
LEMMA FindTwinTurns ==
  ASSUME Typed, NEW r \in Requests, FindTwin(r)
  PROVE  \E x : Records(r, x) /\ Acted(r, x)
<1>1. asked[r] \in Request BY DEF Typed, CastingTypeOK
<1>2. r \in Handled /\ asked[r].pc # "wake" /\ UNCHANGED <<analysis, runner>>
  BY DEF FindTwin, Handled, table
<1>3. ASSUME NEW p \in Ids \cup {NoId},
             \/ p = asked[r].prefix
             \/ \E t \in Rows : analysis[t].status = "succeeded" /\ p = analysis[t].prefix,
             asked' = [asked EXCEPT ![r].pc = "insert", ![r].prefix = p]
      PROVE  \E x : Records(r, x) /\ Acted(r, x)
  <2> DEFINE x == [asked[r] EXCEPT !.pc = "insert", !.prefix = p]
  <2>1. x \in Request BY <1>1 DEF Request
  <2>2. asked' = [asked EXCEPT ![r] = x] BY <1>3
  <2>3. x.pc = "insert" /\ x.item = asked[r].item /\ x.prefix = p
    BY <1>1 DEF Request
  <2> HIDE DEF x
  <2>4. Continues(r, x) BY <1>2, <1>3, <2>3 DEF Continues
  <2>. QED BY <1>2, <2>1, <2>2, <2>4, GoesTurns
<1>4. ASSUME NEW t \in Twins(asked[r].path),
             asked' = [asked EXCEPT ![r].pc = "insert", ![r].prefix = analysis[t].prefix]
      PROVE  \E x : Records(r, x) /\ Acted(r, x)
  <2>1. t \in Rows /\ analysis[t].status = "succeeded" BY DEF Twins
  <2>2. analysis[t].prefix \in Ids \cup {NoId} BY <2>1 DEF Rows, Typed, CastingTypeOK, Analysis
  <2>. QED BY <1>3, <1>4, <2>1, <2>2
<1>5. ASSUME asked' = [asked EXCEPT ![r].pc = "insert"]
      PROVE  \E x : Records(r, x) /\ Acted(r, x)
  <2>1. asked[r].prefix \in Ids \cup {NoId} BY <1>1 DEF Request
  <2>2. [asked[r] EXCEPT !.pc = "insert"] =
        [asked[r] EXCEPT !.pc = "insert", !.prefix = asked[r].prefix]
    BY <1>1 DEF Request
  <2>3. asked' = [asked EXCEPT ![r].pc = "insert", ![r].prefix = asked[r].prefix]
    BY <1>5, <2>2
  <2>. QED BY <1>3, <2>1, <2>3
<1>. QED BY <1>4, <1>5 DEF FindTwin

(* It moves the row to the path of the same bytes.                         *)
LEMMA MoveTurns ==
  ASSUME Typed, NEW r \in Requests, Move(r)
  PROVE  \E x : Records(r, x) /\ Acted(r, x)
<1>1. asked[r] \in Request /\ analysis \in [Ids -> Analysis] BY DEF Typed, CastingTypeOK
<1>2. r \in Handled /\ asked[r].pc = "move" /\ runner' = runner BY DEF Move, Handled
<1>3. asked' = [asked EXCEPT ![r] = Answer] BY DEF Move, Answered
<1>4. CASE analysis' = analysis
  BY <1>2, <1>3, <1>4, AnsweredTurns DEF Answered
<1>5. CASE analysis' = [a \in Ids |-> IF a \in Rows \cap {asked[r].id}
                          THEN [analysis[a] EXCEPT !.path = asked[r].path] ELSE analysis[a]]
  <2> DEFINE p == asked[r].path
             new(a) == [analysis[a] EXCEPT !.path = p]
  <2>1. p \in Paths BY <1>1 DEF Request
  <2> HIDE DEF p
  <2>2. \A a \in Ids : new(a) \in Analysis BY <1>1, <2>1 DEF Analysis
  <2>3. analysis' = [a \in Ids |-> IF a \in Rows \cap {asked[r].id} THEN new(a) ELSE analysis[a]]
    BY <1>5 DEF p
  <2>4. \A a \in Ids : analysis'[a] = IF a \in Rows \cap {asked[r].id}
                          THEN [analysis[a] EXCEPT !.path = asked[r].path] ELSE analysis[a]
    BY <1>5
  <2> HIDE DEF new
  <2>5. analysis' \in [Ids -> Analysis] BY <1>1, <2>2, <2>3
  <2>6. Repaths(r) BY <1>2, <2>4 DEF Repaths
  <2>. QED BY <1>2, <1>3, <2>5, <2>6, Blanks DEF Records, Acted, Ends
<1>. QED BY <1>4, <1>5 DEF Move

(* It queues a failed row again.                                           *)
LEMMA RequeueTurns ==
  ASSUME Typed, NEW r \in Requests, Requeue(r)
  PROVE  \E x : Records(r, x) /\ Acted(r, x)
<1>1. asked[r] \in Request /\ analysis \in [Ids -> Analysis] BY DEF Typed, CastingTypeOK
<1>2. r \in Handled /\ asked[r].pc = "requeue" BY DEF Requeue, Handled
<1>3. runner' = runner BY DEF Requeue
<1>4. CASE asked[r].id \notin Rows
  BY <1>2, <1>3, <1>4, AnsweredTurns DEF Requeue
<1>5. CASE asked[r].id \in Rows
  <2> DEFINE a == asked[r].id
  <2>1. a \in Ids BY <1>5 DEF Rows
  <2>2. analysis' = [analysis EXCEPT ![a].status = "queued", ![a].attempts = 0,
                                     ![a].old = FALSE, ![a].stale = FALSE]
    BY <1>5 DEF Requeue
  <2> HIDE DEF a
  <2>3. Requeued(a) \in Analysis
    <3> DEFINE y == [analysis[a] EXCEPT !.status = "queued", !.attempts = 0]
    <3>1. analysis[a] \in Analysis /\ 0 \in Nat BY <1>1, <2>1
    <3>2. y \in Analysis BY <3>1 DEF Analysis
    <3>3. Requeued(a) = [y EXCEPT !.old = FALSE, !.stale = FALSE] BY DEF Requeued
    <3> HIDE DEF y
    <3>. QED BY <3>2, <3>3 DEF Analysis
  <2>4. analysis' = [analysis EXCEPT ![a] = Requeued(a)] BY <2>2 DEF Requeued
  <2>5. analysis' \in [Ids -> Analysis] BY <1>1, <2>3, <2>4
  <2>6. \A c \in Ids : analysis'[c] = IF c = a THEN Requeued(c) ELSE analysis[c]
    BY <1>1, <2>4
  <2>7. asked' = [asked EXCEPT ![r] = Waking(r)] BY <1>5 DEF Requeue, Queued
  <2>8. Requeues(r) BY <1>2, <1>3, <1>5, <2>6 DEF Requeues, a
  <2>. QED BY <1>2, <2>5, <2>7, <2>8, WakingTyped DEF Records, Acted, Queues
<1>. QED BY <1>4, <1>5

(* It inserts its row, unless it lost a race or the item is gone.          *)
LEMMA InsertTurns ==
  ASSUME Typed, NEW r \in Requests, Insert(r)
  PROVE  \E x : Records(r, x) /\ Acted(r, x)
<1>1. asked[r] \in Request /\ analysis \in [Ids -> Analysis] BY DEF Typed, CastingTypeOK
<1>2. r \in Handled /\ asked[r].pc = "insert" BY DEF Insert, Handled
<1>3. ASSUME NEW a \in {x \in Ids : analysis[x].status = "none"},
             analysis' = [analysis EXCEPT ![a] = Inserted(r)], runner' = runner,
             IF asked[r].prefix = NoId THEN Queued(r) ELSE Answered(r)
      PROVE  \E x : Records(r, x) /\ Acted(r, x)
  <2> DEFINE q == asked[r]
             e == IF q.prefix = NoId THEN "queued" ELSE "succeeded"
  <2>1. /\ q.prefix \in Ids \cup {NoId} /\ q.item \in Items /\ q.path \in Paths
        /\ e \in {"queued", "succeeded"} /\ Rows \subseteq Ids
    BY <1>1 DEF Request, Rows
  <2>2. Inserted(r) = [NoAnalysis EXCEPT !.status = e, !.item = q.item, !.path = q.path,
                                         !.prefix = q.prefix, !.after = Rows]
    BY DEF Inserted
  <2> HIDE DEF q, e
  <2>3. Inserted(r) \in Analysis BY <2>1, <2>2, Blanks DEF Analysis, Finished
  <2>4. analysis' \in [Ids -> Analysis] BY <1>1, <1>3, <2>3
  <2>5. \A c \in Ids : analysis'[c] = IF c = a THEN Inserted(r) ELSE analysis[c]
    BY <1>1, <1>3
  <2>6. Inserts(r) BY <1>2, <1>3, <2>5 DEF Inserts
  <2>7. CASE asked[r].prefix = NoId
    BY <1>2, <1>3, <2>4, <2>6, <2>7, WakingTyped DEF Records, Acted, Queues, Queued
  <2>8. CASE asked[r].prefix # NoId
    BY <1>2, <1>3, <2>4, <2>6, <2>8, Blanks DEF Records, Acted, Ends, Answered
  <2>. QED BY <2>7, <2>8
<1>4. ASSUME asked' = [asked EXCEPT ![r].pc = "raced"], UNCHANGED <<analysis, runner>>
      PROVE  \E x : Records(r, x) /\ Acted(r, x)
  <2> DEFINE x == [asked[r] EXCEPT !.pc = "raced"]
  <2>1. x \in Request BY <1>1 DEF Request
  <2>2. asked' = [asked EXCEPT ![r] = x] BY <1>4
  <2>3. x.pc = "raced" /\ x.item = asked[r].item /\ x.prefix = asked[r].prefix
    BY <1>1 DEF Request
  <2> HIDE DEF x
  <2>4. Continues(r, x) BY <1>2, <1>4, <2>3 DEF Continues
  <2>. QED BY <1>2, <2>1, <2>2, <2>4, GoesTurns
<1>5. NewIds # {} => (CHOOSE a \in NewIds : TRUE) \in NewIds OBVIOUS
<1>. QED BY <1>2, <1>3, <1>4, <1>5, AnsweredTurns DEF Insert, Inserted, NewIds

(* Every step of a request is one of these, and keeps the types.           *)
LEMMA RequestTurns ==
  ASSUME Typed, NEW r \in Requests, RequestActs(r)
  PROVE  /\ r \in Requests /\ UNCHANGED <<scenario, file, output, pass>>
         /\ \E x : Records(r, x) /\ Acted(r, x)
<1>1. r \in Requests /\ scenario.asks[r] \subseteq Items BY ScenarioTyped
<1>2. UNCHANGED <<scenario, file, output, pass>>
  BY DEF RequestActs, Ask, RequestStep, RequestFails, Find, Move, Requeue, FindTwin, Insert,
         FindRaced, Wake, table
<1>3. \E x : Records(r, x) /\ Acted(r, x)
  <2>1. CASE NoPassRuns /\ \E i \in scenario.asks[r] : Ask(r, i) BY <1>1, <2>1, AskTurns
  <2>2. CASE FindRaced(r) \/ RequestFails(r)
    <3>1. /\ r \in Handled /\ UNCHANGED <<analysis, runner>> /\ Answered(r)
          /\ asked[r].pc # "wake" \/ "error" \in faults
      BY <1>1, <2>2 DEF FindRaced, RequestFails, Handled, table
    <3>. QED BY <1>1, <3>1, AnsweredTurns
  <2>. QED BY <1>1, <2>1, <2>2, FindTurns, MoveTurns, RequeueTurns, FindTwinTurns, InsertTurns,
           WakeTurns DEF RequestActs, RequestStep
<1>. QED BY <1>1, <1>2, <1>3

(* A request keeps the types.                                              *)
LEMMA RequestTyped ==
  ASSUME Typed, NEW r \in Requests, RequestActs(r)
  PROVE  Typed'
<1>1. UNCHANGED <<scenario, file, output, pass>> /\ r \in Requests BY RequestTurns
<1>2. PICK x : Records(r, x) /\ Acted(r, x) BY RequestTurns
<1>3. asked' \in [Requests -> Request] BY <1>2 DEF Records, Typed, CastingTypeOK
<1>4. /\ runner' \in [Backends -> Runner]
      /\ \A c \in Backends : /\ WellShaped(runner'[c])
                             /\ c \notin scenario.backends => runner'[c].pc = "idle"
  <2>1. CASE runner' = runner BY <2>1 DEF Typed, CastingTypeOK
  <2>2. ASSUME NEW b \in Backends, NEW s \in Runner, Wakes(b, s)
        PROVE  <1>4
    BY <2>2 DEF Wakes, Typed
  <2>. QED BY <1>2, <2>1, <2>2 DEF Acted, Begins, Continues, Ends, Queues, Requeues, Repaths,
         Inserts
<1>. QED BY <1>1, <1>2, <1>3, <1>4 DEF Records, Typed, CastingTypeOK

-----------------------------------------------------------------------------
(* A pass of the retention keeps the types.                                *)
LEMMA RetentionTyped ==
  ASSUME Typed, RetentionStep \/ PassFails
  PROVE  /\ Typed' /\ UNCHANGED shared
         /\ \/ UNCHANGED <<analysis, output>>
            \/ pass.pc = "delete" /\ pass'.pc = "count" /\ output' = output
            \/ pass.pc = "remove" /\ analysis' = analysis
<1>1. /\ analysis \in [Ids -> Analysis] /\ output \subseteq Ids /\ pass \in Pass
  BY DEF Typed, CastingTypeOK
<1>2. UNCHANGED shared
  BY DEF RetentionStep, PassFails, Select, ReadItems, DeleteRows, Count, RemoveTree
<1>3. /\ analysis' \in [Ids -> Analysis] /\ output' \subseteq Ids /\ pass' \in Pass
      /\ \/ UNCHANGED <<analysis, output>>
         \/ pass.pc = "delete" /\ pass'.pc = "count" /\ output' = output
         \/ pass.pc = "remove" /\ analysis' = analysis
  <2>1. CASE Select
    <3> DEFINE copy(a) == [id |-> a, failed |-> analysis[a].status = "failed",
                           item |-> analysis[a].item, path |-> analysis[a].path,
                           prefix |-> analysis[a].prefix]
               rows == {copy(a) : a \in {x \in Ids : Expired(x)}}
    <3>1. \A a \in Ids : copy(a) \in Seen
      <4>1. \A a \in Ids : analysis[a] \in Analysis BY <1>1
      <4>. QED BY <4>1 DEF Seen, Analysis
    <3>2. rows \subseteq Seen
      <4> HIDE DEF copy
      <4>. QED BY <3>1
    <3>3. pass' = [NoPass EXCEPT !.pc = "items", !.rows = rows] BY <2>1 DEF Select
    <3> HIDE DEF rows
    <3>4. pass' \in Pass BY <3>2, <3>3, Blanks DEF Pass
    <3>. QED BY <1>1, <2>1, <3>4 DEF Select
  <2>2. CASE ReadItems
    <3> DEFINE rows == {s \in pass.rows : Prunable(s)}
    <3>1. rows \subseteq Seen BY <1>1 DEF Pass
    <3>2. pass' = NoPass \/ pass' = [pass EXCEPT !.pc = "delete", !.rows = rows]
      BY <2>2 DEF ReadItems
    <3> HIDE DEF rows
    <3>3. [pass EXCEPT !.pc = "delete", !.rows = rows] \in Pass BY <1>1, <3>1 DEF Pass
    <3>. QED BY <1>1, <2>2, <3>2, <3>3, Blanks DEF ReadItems
  <2>3. CASE DeleteRows
    <3> DEFINE prefixes == {s.prefix : s \in pass.rows} \ {NoId}
    <3>1. prefixes \subseteq Ids BY <1>1 DEF Pass, Seen
    <3>2. /\ pass' = [NoPass EXCEPT !.pc = "count", !.prefixes = prefixes]
          /\ \E S : analysis' = Without(S)
          /\ output' = output /\ pass.pc = "delete"
      BY <2>3 DEF DeleteRows
    <3> HIDE DEF prefixes
    <3>3. pass' \in Pass /\ pass'.pc = "count" BY <3>1, <3>2, Blanks DEF Pass
    <3>. QED BY <1>1, <3>2, <3>3, DeletedRows
  <2>4. CASE Count
    <3>1. ASSUME NEW p \in pass.prefixes
          PROVE  /\ [pass EXCEPT !.prefixes = pass.prefixes \ {p}] \in Pass
                 /\ [pass EXCEPT !.prefixes = pass.prefixes \ {p}, !.pc = "remove", !.now = p]
                      \in Pass
      <4> DEFINE left == pass.prefixes \ {p}
      <4>1. left \subseteq Ids /\ p \in Ids BY <1>1 DEF Pass
      <4> HIDE DEF left
      <4>2. [pass EXCEPT !.prefixes = left] \in Pass BY <1>1, <4>1 DEF Pass
      <4>3. [pass EXCEPT !.prefixes = left, !.pc = "remove", !.now = p] \in Pass
        BY <1>1, <4>1 DEF Pass
      <4>. QED BY <4>2, <4>3 DEF left
    <3>. QED BY <1>1, <2>4, <3>1, Blanks DEF Count
  <2>5. CASE RemoveTree BY <1>1, <2>5 DEF RemoveTree, Pass
  <2>6. CASE PassFails BY <1>1, <2>6, Blanks DEF PassFails
  <2>. QED BY <2>1, <2>2, <2>3, <2>4, <2>5, <2>6 DEF RetentionStep
<1>. QED BY <1>2, <1>3 DEF Typed, CastingTypeOK, shared

(* Time and the rest of the program keep the types.                        *)
WorldActs ==
  /\ \/ TimePasses
     \/ \E i \in scenario.changing : ReplaceFile(i) \/ DeleteItem(i)
  /\ UNCHANGED <<runner, asked, pass>>

(* What they do to a row.                                                  *)
Aged(a) == \/ analysis'[a] = analysis[a]
           \/ /\ analysis[a].status = "running" /\ ("outlive" \in faults \/ Attempts(a) = {})
              /\ analysis'[a] = [analysis[a] EXCEPT !.stale = TRUE]
           \/ /\ analysis[a].status \in Finished
              /\ analysis'[a] = [analysis[a] EXCEPT !.old = TRUE]
           \/ a \in Rows /\ analysis'[a] = Without({a})[a]

(* Rows grow old or stale, or go with their item.                          *)
LEMMA WorldTyped ==
  ASSUME Typed, WorldActs
  PROVE  /\ Typed' /\ UNCHANGED <<scenario, output, runner, asked, pass>>
         /\ \A a \in Ids : Aged(a)
<1>1. analysis \in [Ids -> Analysis] /\ file \in [Items -> Paths \cup {NoPath, Gone}]
  BY DEF Typed, CastingTypeOK
<1>2. /\ analysis' \in [Ids -> Analysis] /\ file' \in [Items -> Paths \cup {NoPath, Gone}]
      /\ UNCHANGED <<scenario, output>>
      /\ \A a \in Ids : Aged(a)
  <2>1. ASSUME NEW a \in Ids, "outlive" \in faults \/ Attempts(a) = {}, GoStale(a)
        PROVE  <1>2
    <3>1. analysis[a] \in Analysis BY <1>1
    <3>2. [analysis[a] EXCEPT !.stale = TRUE] \in Analysis BY <3>1 DEF Analysis
    <3>. QED BY <1>1, <2>1, <3>2 DEF GoStale, Aged
  <2>2. ASSUME NEW a \in Ids, GrowOld(a)
        PROVE  <1>2
    <3>1. analysis[a] \in Analysis BY <1>1
    <3>2. [analysis[a] EXCEPT !.old = TRUE] \in Analysis BY <3>1 DEF Analysis
    <3>. QED BY <1>1, <2>2, <3>2 DEF GrowOld, Aged
  <2>3. ASSUME NEW i \in scenario.changing, ReplaceFile(i)
        PROVE  <1>2
    BY <1>1, <2>3, ScenarioTyped, CastingAssumption DEF ReplaceFile, Aged
  <2>4. ASSUME NEW i \in scenario.changing, DeleteItem(i)
        PROVE  <1>2
    <3> DEFINE S == {a \in Rows : analysis[a].item = i}
    <3>1. analysis' = Without(S) /\ UNCHANGED <<scenario, output>> BY <2>4 DEF DeleteItem
    <3>2. file' \in [Items -> Paths \cup {NoPath, Gone}] BY <1>1, <2>4 DEF DeleteItem
    <3>3. \A a \in Ids \ S : Aged(a) BY <3>1, DeletedRows DEF Aged
    <3>4. \A a \in S : a \in Rows /\ a \in Ids /\ Without(S)[a] = Without({a})[a]
      BY DEF Without, Rows
    <3>5. \A a \in Ids : Aged(a) BY <3>1, <3>3, <3>4 DEF Aged
    <3>. QED BY <3>1, <3>2, <3>5, DeletedRows
  <2>. QED BY <2>1, <2>2, <2>3, <2>4 DEF WorldActs, TimePasses
<1>. QED BY <1>2 DEF WorldActs, Typed, CastingTypeOK

(* Every step is one of a runner, of a request, of the retention, or of    *)
(* the world around them.                                                  *)
LEMMA NextActs ==
  ASSUME [CastingNext]_vars
  PROVE  \/ \E b \in Backends : RunnerActs(b)
         \/ \E r \in Requests : RequestActs(r)
         \/ RetentionStep \/ PassFails
         \/ WorldActs
         \/ UNCHANGED vars
BY DEF CastingNext, RunnerActs, RequestActs, WorldActs

(* Whatever step is taken keeps the types.                                 *)
LEMMA TypedSteps ==
  ASSUME Typed, [CastingNext]_vars
  PROVE  Typed'
<1>1. CASE UNCHANGED vars BY <1>1 DEF vars, table, Typed, CastingTypeOK
<1>. QED BY <1>1, NextActs, RunnerTyped, RequestTyped, RetentionTyped, WorldTyped

(* Rows, runners, requests and passes are at one of their steps.           *)
THEOREM CastingTypes == CastingSpec => []CastingTypeOK
<1>1. Typed => CastingTypeOK BY DEF Typed
<1>. QED BY <1>1, TypedStarts, TypedSteps, PTL DEF CastingSpec

-----------------------------------------------------------------------------
(* Whoever holds a prefix, its files are there; a pass that overlaps       *)
(* nothing is alone until it ends, so what it counted stays so.            *)
PrefixKept(a) ==
  analysis[a].status \notin {"none", "removed"} =>
    /\ analysis[a].status = "succeeded" => analysis[a].prefix # NoId
    /\ analysis[a].prefix # NoId => analysis[a].prefix \in output

Unpointed(p) ==
  \A a \in Ids : analysis[a].status \notin {"none", "removed"} => analysis[a].prefix # p

KeptInv ==
  /\ \A a \in Ids : PrefixKept(a)
  /\ \A b \in Backends : runner[b].pc = "save" => runner[b].prefix \in output
  /\ \A r \in Requests : asked[r].prefix # NoId => r \in Handled /\ asked[r].prefix \in output
  /\ pass.pc # "off" => Alone
  /\ pass.pc = "remove" => Unpointed(pass.now)

(* At first nothing is stored and nothing points anywhere.                 *)
LEMMA KeptStarts == CastingInit => KeptInv
<1>. SUFFICES ASSUME CastingInit PROVE KeptInv OBVIOUS
<1>1. \A a \in Ids : PrefixKept(a)
  BY DEF CastingInit, TableInit, PrefixKept, NoAnalysis
<1>2. \A b \in Backends : runner[b].pc = "idle"
  BY DEF CastingInit, RunnerInit, IdleRunner
<1>3. \A r \in Requests : asked[r].prefix = NoId
  BY DEF CastingInit, RequestsInit, NewRequest
<1>4. pass.pc = "off" BY DEF CastingInit, RetentionInit, NoPass
<1>. QED BY <1>1, <1>2, <1>3, <1>4 DEF KeptInv

(* A runner records a prefix only when the files are there.                *)
LEMMA KeptByRunner ==
  ASSUME Typed, KeptInv, "overlap" \notin faults, NEW b \in Backends, RunnerActs(b)
  PROVE  KeptInv'
<1>1. PICK s : /\ WellShaped(s)
               /\ \A c \in Backends : runner'[c] = IF c = b THEN s ELSE runner[c]
               /\ Turned(b, s)
  BY RunnerTurns
<1>2. /\ UNCHANGED <<scenario, file, asked, pass>>
      /\ runner[b].pc = "drain" => pass.pc = "off"
  BY RunnerTurns DEF NoPassRuns
<1>3. output \subseteq output'
  BY <1>1 DEF Turned, Takes, FindsNothing, GoesOn, Saves, Gives, Loops, Drops
<1>5. \A a \in Ids : PrefixKept(a)'
  <2>1. ASSUME NEW a \in Ids,
               \/ analysis'[a] = analysis[a]
               \/ /\ analysis[a].status \notin {"none", "removed"}
                  /\ analysis'[a].status # "succeeded"
                  /\ analysis'[a].prefix = analysis[a].prefix
               \/ analysis'[a].prefix \in output /\ analysis'[a].prefix # NoId
        PROVE  PrefixKept(a)'
    BY <1>3, <2>1 DEF KeptInv, PrefixKept
  <2>2. ASSUME NEW c \in Ids, Takes(b, s, c)
        PROVE  \A a \in Ids : PrefixKept(a)'
    <3>1. ClaimNext(c) /\ analysis[c].status \notin {"none", "removed"}
      BY <2>2 DEF Takes, ClaimNext, Waiting
    <3>2. \A a \in Ids : \/ analysis'[a] = analysis[a]
                         \/ /\ analysis[a].status \notin {"none", "removed"}
                            /\ analysis'[a].status # "succeeded"
                            /\ analysis'[a].prefix = analysis[a].prefix
      BY <3>1, ClaimedFields DEF Exhausted, SameButStatus
    <3>. QED BY <2>1, <3>2
  <2>3. ASSUME FindsNothing(b, s)
        PROVE  \A a \in Ids : PrefixKept(a)'
    <3>1. \A a \in Ids : \/ analysis'[a] = analysis[a]
                         \/ /\ analysis[a].status \notin {"none", "removed"}
                            /\ analysis'[a].status # "succeeded"
                            /\ analysis'[a].prefix = analysis[a].prefix
      BY <2>3, SweptFields DEF FindsNothing, Exhausted, SameButStatus
    <3>. QED BY <2>1, <3>1
  <2>4. ASSUME Saves(b, s)
        PROVE  \A a \in Ids : PrefixKept(a)'
    <3>1. runner[b].prefix \in output /\ runner[b].prefix # NoId
      BY <2>4 DEF Saves, KeptInv, Typed, WellShaped
    <3>2. \A a \in Ids : \/ analysis'[a] = analysis[a]
                         \/ analysis'[a].prefix = runner[b].prefix
      BY <2>4, SavedFields
    <3>. QED BY <2>1, <3>1, <3>2
  <2>5. ASSUME Gives(b, s)
        PROVE  \A a \in Ids : PrefixKept(a)'
    <3>1. \A a \in Ids : \/ analysis'[a] = analysis[a]
                         \/ /\ analysis[a].status \notin {"none", "removed"}
                            /\ analysis'[a].status # "succeeded"
                            /\ analysis'[a].prefix = analysis[a].prefix
      BY <2>5, GivenFields DEF SameButStatus
    <3>. QED BY <2>1, <3>1
  <2>6. ASSUME analysis' = analysis
        PROVE  \A a \in Ids : PrefixKept(a)'
    BY <2>1, <2>6
  <2>. QED BY <1>1, <2>2, <2>3, <2>4, <2>5, <2>6 DEF Turned, GoesOn, Loops, Drops
<1>6. \A c \in Backends : (runner[c].pc = "save" => runner[c].prefix \in output)'
  <2>1. s.pc = "save" => s.prefix \in output'
    <3>1. ASSUME s.pc = "save" PROVE GoesOn(b, s)
      BY <1>1, <3>1 DEF Turned, Takes, FindsNothing, Saves, Gives, Loops, LoopPcs, Drops, IdleRunner
    <3>2. ASSUME s.pc = "save",
                 NEW t \in Rows, analysis[t].status = "succeeded", s.prefix = analysis[t].prefix
          PROVE  s.prefix \in output
      BY <3>2 DEF KeptInv, PrefixKept, Rows
    <3>. QED BY <1>3, <3>1, <3>2 DEF GoesOn, KeptInv
  <2>. QED BY <1>1, <1>3, <2>1 DEF KeptInv
<1>7. \A r \in Requests : (asked[r].prefix # NoId => r \in Handled /\ asked[r].prefix \in output)'
  BY <1>2, <1>3 DEF KeptInv, Handled
<1>8. pass.pc # "off" => s.pc \in LoopPcs /\ analysis' = analysis
  <2>1. ASSUME pass.pc # "off" PROVE runner[b].pc \in {"idle", "empty"}
    BY <1>2, <2>1 DEF KeptInv, Alone
  <2>. QED BY <1>1, <2>1 DEF Turned, Takes, FindsNothing, GoesOn, Saves, Gives, Loops, Drops,
                             AtWork, LoopPcs, IdleRunner
<1>9. /\ (pass.pc # "off" => Alone)'
      /\ (pass.pc = "remove" => Unpointed(pass.now))'
  BY <1>1, <1>2, <1>8 DEF KeptInv, Alone, Handled, LoopPcs, Unpointed
<1>. QED BY <1>5, <1>6, <1>7, <1>9 DEF KeptInv

(* The row a request queues again, moves, or inserts, field by field.      *)
LEMMA RequeuedFields ==
  ASSUME Typed, NEW a \in Ids
  PROVE  LET y == Requeued(a)
         IN  /\ y.status = "queued" /\ y.attempts = 0 /\ y.prefix = analysis[a].prefix
             /\ y.item = analysis[a].item /\ y.after = analysis[a].after
<1>1. analysis[a] \in Analysis BY DEF Typed, CastingTypeOK
<1>. QED BY <1>1 DEF Requeued, Analysis

(* A row that is moved keeps everything but its path.                      *)
LEMMA RepathedFields ==
  ASSUME Typed, NEW r, Repaths(r), NEW c \in Ids
  PROVE  /\ SameButStatus(analysis'[c], analysis[c])
         /\ analysis'[c].status = analysis[c].status
         /\ analysis'[c].stale = analysis[c].stale
         /\ analysis'[c] = [analysis[c] EXCEPT !.path = analysis'[c].path]
<1>1. analysis[c] \in Analysis BY DEF Typed, CastingTypeOK
<1>2. PICK p : analysis'[c] = [analysis[c] EXCEPT !.path = p] \/ analysis'[c] = analysis[c]
  BY DEF Repaths
<1>3. CASE analysis'[c] = analysis[c]
  BY <1>1, <1>3 DEF SameButStatus, Analysis
<1>4. CASE analysis'[c] = [analysis[c] EXCEPT !.path = p]
  BY <1>1, <1>4 DEF SameButStatus, Analysis
<1>. QED BY <1>2, <1>3, <1>4

(* An inserted row is queued, or has the result of its twin.               *)
LEMMA InsertedFields ==
  ASSUME NEW r
  PROVE  LET y == Inserted(r)
         IN  /\ y.status = IF asked[r].prefix = NoId THEN "queued" ELSE "succeeded"
             /\ y.attempts = 0 /\ y.prefix = asked[r].prefix /\ y.item = asked[r].item
             /\ y.after = Rows
<1> DEFINE e == IF asked[r].prefix = NoId THEN "queued" ELSE "succeeded"
           y == [NoAnalysis EXCEPT !.status = e, !.item = asked[r].item,
                  !.path = asked[r].path, !.prefix = asked[r].prefix, !.after = Rows]
<1>1. Inserted(r) = y BY DEF Inserted
<1>2. /\ y.status = e /\ y.attempts = 0 /\ y.prefix = asked[r].prefix
      /\ y.item = asked[r].item /\ y.after = Rows
  <2> HIDE DEF e
  <2>. QED BY DEF NoAnalysis
<1>. QED BY <1>1, <1>2

(* What time and deletion leave of a row.                                  *)
LEMMA AgedFields ==
  ASSUME Typed, NEW a \in Ids, Aged(a)
  PROVE  \/ /\ SameButStatus(analysis'[a], analysis[a])
            /\ analysis'[a].status = analysis[a].status
            /\ \/ analysis'[a].stale = analysis[a].stale
               \/ "outlive" \in faults \/ Attempts(a) = {}
            /\ analysis'[a].old # analysis[a].old => analysis[a].status \in Finished
            /\ analysis[a].status # "running" =>
                 analysis'[a] = [analysis[a] EXCEPT !.old = analysis'[a].old]
         \/ /\ a \in Rows /\ analysis'[a].status = "removed" /\ analysis'[a].attempts = 0
            /\ analysis'[a].item = analysis[a].item /\ analysis'[a].after = {}
<1>1. analysis[a] \in Analysis BY DEF Typed, CastingTypeOK
<1>2. CASE analysis'[a] = analysis[a]
  BY <1>1, <1>2 DEF SameButStatus, Analysis
<1>3. CASE /\ analysis[a].status = "running"
           /\ "outlive" \in faults \/ Attempts(a) = {}
           /\ analysis'[a] = [analysis[a] EXCEPT !.stale = TRUE]
  BY <1>1, <1>3 DEF SameButStatus, Analysis
<1>4. CASE /\ analysis[a].status \in Finished
           /\ analysis'[a] = [analysis[a] EXCEPT !.old = TRUE]
  BY <1>1, <1>4 DEF SameButStatus, Analysis
<1>5. CASE a \in Rows /\ analysis'[a] = Without({a})[a]
  BY <1>5, DeletedRows
<1>. QED BY <1>2, <1>3, <1>4, <1>5 DEF Aged

(* A request copies the prefix of a result that is there.                  *)
LEMMA KeptByRequest ==
  ASSUME Typed, KeptInv, "overlap" \notin faults, NEW r \in Requests, RequestActs(r)
  PROVE  KeptInv'
<1>1. r \in Requests /\ UNCHANGED <<scenario, file, output, pass>> BY RequestTurns
<1>2. PICK x : Records(r, x) /\ Acted(r, x) BY RequestTurns
<1>3. \A q \in Requests : asked'[q] = IF q = r THEN x ELSE asked[q]
  BY <1>1, <1>2 DEF Records, Typed, CastingTypeOK
<1>4. pass.pc = "off"
  BY <1>1, <1>2 DEF Acted, Begins, Continues, NoPassRuns, KeptInv, Alone
<1>5. ASSUME NEW a \in Ids PROVE PrefixKept(a)'
  <2>1. CASE analysis' = analysis BY <1>1, <2>1 DEF KeptInv, PrefixKept
  <2>2. CASE Requeues(r)
    BY <1>1, <2>2, RequeuedFields DEF Requeues, Rows, KeptInv, PrefixKept
  <2>3. CASE Repaths(r)
    BY <1>1, <2>3, RepathedFields DEF SameButStatus, KeptInv, PrefixKept
  <2>4. CASE Inserts(r)
    BY <1>1, <2>4, InsertedFields DEF Inserts, KeptInv, PrefixKept
  <2>. QED BY <1>2, <2>1, <2>2, <2>3, <2>4 DEF Acted, Begins, Continues, Ends, Queues
<1>6. \A b \in Backends : (runner[b].pc = "save" => runner[b].prefix \in output)'
  <2>1. CASE runner' = runner BY <1>1, <2>1 DEF KeptInv
  <2>2. ASSUME NEW b \in Backends, NEW s \in Runner, Wakes(b, s) PROVE <1>6
    BY <1>1, <2>2 DEF Wakes, KeptInv, AtWork, LoopPcs
  <2>. QED BY <1>2, <2>1, <2>2 DEF Acted, Begins, Continues, Ends, Queues, Requeues, Repaths,
         Inserts
<1>7. ASSUME NEW q \in Requests
      PROVE  (asked[q].prefix # NoId => q \in Handled /\ asked[q].prefix \in output)'
  <2>1. CASE q # r BY <1>1, <1>3, <2>1 DEF KeptInv, Handled
  <2>2. CASE q = r
    <3>1. CASE Begins(r, x) BY <1>1, <1>3, <2>2, <3>1 DEF Begins, KeptInv, Handled
    <3>2. CASE Continues(r, x)
      BY <1>1, <1>3, <2>2, <3>2 DEF Continues, KeptInv, Handled, PrefixKept, Rows
    <3>3. CASE x = Answer
      <4>1. x.prefix = NoId BY <3>3 DEF Answer, NewRequest
      <4>. QED BY <1>3, <2>2, <4>1
    <3>4. CASE x = Waking(r) BY <1>1, <1>3, <2>2, <3>4, WakingTyped
    <3>. QED BY <1>2, <3>1, <3>2, <3>3, <3>4 DEF Acted
  <2>. QED BY <2>1, <2>2
<1>. QED BY <1>1, <1>4, <1>5, <1>6, <1>7 DEF KeptInv

(* A pass removes files no row points at.                                  *)
LEMMA KeptByRetention ==
  ASSUME Typed, KeptInv, "overlap" \notin faults, RetentionStep \/ PassFails
  PROVE  KeptInv'
<1>1. UNCHANGED shared /\ pass \in Pass BY RetentionTyped DEF Typed, CastingTypeOK
<1>2. CASE Select
  <2>1. pass'.pc = "items" BY <1>2 DEF Select, NoPass
  <2>. QED BY <1>1, <1>2, <2>1 DEF Select, KeptInv, shared, PrefixKept, Alone, Handled
<1>3. CASE ReadItems
  <2>1. pass.pc = "items" /\ pass'.pc \in {"off", "delete"}
    BY <1>1, <1>3 DEF ReadItems, NoPass, Pass
  <2>. QED BY <1>1, <1>3, <2>1 DEF ReadItems, KeptInv, shared, PrefixKept, Alone, Handled
<1>4. CASE DeleteRows
  <2>1. pass.pc = "delete" /\ pass'.pc = "count" /\ output' = output
    BY <1>4 DEF DeleteRows, NoPass
  <2>2. PICK S : analysis' = Without(S) BY <1>4 DEF DeleteRows
  <2>3. \A a \in Ids : PrefixKept(a)'
    BY <2>1, <2>2, DeletedRows DEF KeptInv, PrefixKept
  <2>. QED BY <1>1, <2>1, <2>3 DEF KeptInv, shared, Alone, Handled
<1>5. CASE Count
  <2>1. pass.pc = "count" /\ UNCHANGED <<analysis, output>> BY <1>5 DEF Count
  <2>2. \/ pass'.pc \in {"off", "count"}
        \/ pass'.pc = "remove" /\ PointsAt(pass'.now) = {}
    <3>1. ASSUME NEW p \in pass.prefixes
          PROVE  /\ [pass EXCEPT !.prefixes = pass.prefixes \ {p}].pc = "count"
                 /\ [pass EXCEPT !.prefixes = pass.prefixes \ {p}, !.pc = "remove",
                                 !.now = p].pc = "remove"
                 /\ [pass EXCEPT !.prefixes = pass.prefixes \ {p}, !.pc = "remove",
                                 !.now = p].now = p
      BY <1>1, <2>1 DEF Pass
    <3>2. NoPass.pc = "off" BY DEF NoPass
    <3>3. CASE pass' = NoPass BY <3>2, <3>3
    <3>4. ASSUME NEW p \in pass.prefixes,
                 pass' = [pass EXCEPT !.prefixes = pass.prefixes \ {p}]
          PROVE  <2>2
      BY <3>1, <3>4
    <3>5. ASSUME NEW p \in pass.prefixes, PointsAt(p) = {},
                 pass' = [pass EXCEPT !.prefixes = pass.prefixes \ {p}, !.pc = "remove",
                                      !.now = p]
          PROVE  <2>2
      BY <3>1, <3>5
    <3>. QED BY <1>5, <3>3, <3>4, <3>5 DEF Count
  <2>3. pass'.pc = "remove" => Unpointed(pass'.now)
    BY <2>2 DEF PointsAt, Rows, Unpointed
  <2>. QED BY <1>1, <2>1, <2>3 DEF KeptInv, shared, PrefixKept, Alone, Handled, Unpointed
<1>6. CASE RemoveTree
  <2>1. /\ pass.pc = "remove" /\ pass'.pc = "count" /\ analysis' = analysis
        /\ output' = output \ {pass.now}
    BY <1>1, <1>6 DEF RemoveTree, Pass
  <2>2. /\ \A a \in Ids : PrefixKept(a)'
        /\ \A b \in Backends : runner[b].pc # "save"
        /\ \A q \in Requests : asked[q].prefix = NoId
    BY <2>1 DEF KeptInv, PrefixKept, Unpointed, Alone
  <2>. QED BY <1>1, <2>1, <2>2 DEF KeptInv, shared, Alone, Handled
<1>7. CASE PassFails
  <2>1. pass'.pc = "off" BY <1>7 DEF PassFails, NoPass
  <2>. QED BY <1>1, <1>7, <2>1 DEF PassFails, KeptInv, shared, PrefixKept, Handled
<1>. QED BY <1>2, <1>3, <1>4, <1>5, <1>6, <1>7 DEF RetentionStep

(* Time and deleted items leave the files alone.                           *)
LEMMA KeptByWorld ==
  ASSUME Typed, KeptInv, WorldActs
  PROVE  KeptInv'
<1>1. UNCHANGED <<scenario, output, runner, asked, pass>> BY WorldTyped
<1>2. \A a \in Ids : \/ /\ analysis'[a].prefix = analysis[a].prefix
                        /\ analysis'[a].status = analysis[a].status
                     \/ analysis'[a].status = "removed"
  BY WorldTyped, AgedFields DEF SameButStatus
<1>3. \A a \in Ids : PrefixKept(a)' BY <1>1, <1>2 DEF KeptInv, PrefixKept
<1>. QED BY <1>1, <1>2, <1>3 DEF KeptInv, Alone, Handled, Unpointed

-----------------------------------------------------------------------------
(* What a row keeps through every step of a runner.                        *)
LEMMA RunnerRows ==
  ASSUME Typed, NEW b \in Backends, RunnerActs(b), NEW c \in Ids
  PROVE  /\ analysis'[c].item = analysis[c].item /\ analysis'[c].after = analysis[c].after
         /\ analysis[c].status \notin {"queued", "running"} => analysis'[c] = analysis[c]
         /\ analysis[c].status \in {"queued", "running"} =>
              analysis'[c].status \in {"queued", "running", "succeeded", "failed"}
<1>1. PICK s : Turned(b, s) BY RunnerTurns
<1>2. CASE analysis' = analysis BY <1>2
<1> DEFINE Goal == /\ analysis'[c].item = analysis[c].item
                   /\ analysis'[c].after = analysis[c].after
                   /\ analysis[c].status \notin {"queued", "running"} => analysis'[c] = analysis[c]
                   /\ analysis[c].status \in {"queued", "running"} =>
                        analysis'[c].status \in {"queued", "running", "succeeded", "failed"}
<1>3. ASSUME NEW a \in Ids, Takes(b, s, a) PROVE Goal
  BY <1>3, ClaimedFields DEF Takes, SameButStatus, Exhausted
<1>4. ASSUME FindsNothing(b, s) PROVE Goal
  BY <1>4, SweptFields DEF FindsNothing, SameButStatus, Exhausted
<1>5. ASSUME Saves(b, s) PROVE Goal BY <1>5, SavedFields
<1>6. ASSUME Gives(b, s) PROVE Goal BY <1>6, GivenFields DEF SameButStatus
<1>. QED BY <1>1, <1>2, <1>3, <1>4, <1>5, <1>6 DEF Turned, GoesOn, Loops, Drops

(* What a step of a request does to a row, if anything.                    *)
LEMMA RequestRows ==
  ASSUME Typed, NEW r \in Requests, NEW x, Acted(r, x), NEW c \in Ids
  PROVE  \/ analysis'[c] = analysis[c]
         \/ /\ Requeues(r) /\ c = asked[r].id /\ c \in Rows
            /\ analysis'[c].status = "queued" /\ analysis'[c].attempts = 0
            /\ analysis'[c].item = analysis[c].item /\ analysis'[c].after = analysis[c].after
         \/ /\ Repaths(r) /\ analysis'[c].status = analysis[c].status
            /\ SameButStatus(analysis'[c], analysis[c])
            /\ analysis'[c].stale = analysis[c].stale
            /\ analysis'[c] = [analysis[c] EXCEPT !.path = analysis'[c].path]
         \/ /\ Inserts(r) /\ analysis[c].status = "none" /\ analysis'[c] = Inserted(r)
            /\ \A d \in Ids \ {c} : analysis'[d] = analysis[d]
<1>1. CASE analysis' = analysis BY <1>1
<1>2. CASE Requeues(r) BY <1>2, RequeuedFields DEF Requeues
<1>3. CASE Repaths(r) BY <1>3, RepathedFields
<1>4. CASE Inserts(r) BY <1>4 DEF Inserts
<1>. QED BY <1>1, <1>2, <1>3, <1>4 DEF Acted, Begins, Continues, Ends, Queues

(* What the retention does to a row.                                       *)
LEMMA RetentionRows ==
  ASSUME Typed, RetentionStep \/ PassFails, NEW c \in Ids
  PROVE  \/ analysis'[c] = analysis[c]
         \/ /\ analysis'[c].status = "removed" /\ analysis'[c].attempts = 0
            /\ analysis'[c].item = analysis[c].item /\ analysis'[c].after = {}
            /\ DeleteRows
<1>1. CASE DeleteRows BY <1>1, DeletedRows DEF DeleteRows
<1>. QED BY <1>1 DEF RetentionStep, PassFails, Select, ReadItems, Count, RemoveTree

-----------------------------------------------------------------------------
(* Who asks for a row: a request has found a row of its item, and only     *)
(* requests handled at the same time find a failed one tried again.        *)
AskedFor(r) ==
  asked[r].pc \in {"move", "requeue"} =>
    /\ asked[r].id \in Ids
    /\ analysis[asked[r].id].status # "none"
    /\ analysis[asked[r].id].item = asked[r].item

TakesTurn(r) ==
  /\ asked[r].pc = "requeue" => analysis[asked[r].id].status \in {"failed", "removed"}
  /\ \A q \in Requests : r \in Handled /\ q \in Handled /\ asked[r].item = asked[q].item => r = q

AskedInv == /\ \A r \in Requests : AskedFor(r)
            /\ "double" \notin faults => \A r \in Requests : TakesTurn(r)

(* At first nobody has asked.                                              *)
LEMMA AskedStarts == CastingInit => AskedInv
BY DEF CastingInit, RequestsInit, NewRequest, AskedInv, AskedFor, TakesTurn, Handled

(* Whoever asks for nothing changes no row that was asked for.             *)
LEMMA AskedKept ==
  ASSUME Typed, AskedInv, UNCHANGED <<scenario, asked>>,
         \A c \in Ids : /\ analysis'[c].item = analysis[c].item
                        /\ analysis[c].status # "none" => analysis'[c].status # "none"
                        /\ analysis[c].status \in {"failed", "removed"} =>
                             analysis'[c].status \in {"failed", "removed"}
  PROVE  AskedInv'
<1>1. \A r \in Requests : AskedFor(r)' BY DEF AskedInv, AskedFor
<1>2. ASSUME "double" \notin faults, NEW r \in Requests PROVE TakesTurn(r)'
  BY <1>2 DEF AskedInv, AskedFor, TakesTurn, Handled
<1>. QED BY <1>1, <1>2 DEF AskedInv, faults

(* A request that found a failed row is the only one of its item.          *)
LEMMA AskedByRequest ==
  ASSUME Typed, AskedInv, NEW r \in Requests, RequestActs(r)
  PROVE  AskedInv'
<1>1. r \in Requests /\ UNCHANGED <<scenario, file, output, pass>> BY RequestTurns
<1>2. PICK x : Records(r, x) /\ Acted(r, x) BY RequestTurns
<1>3. \A q \in Requests : asked'[q] = IF q = r THEN x ELSE asked[q]
  BY <1>1, <1>2 DEF Records, Typed, CastingTypeOK
<1>4. \A c \in Ids : \/ analysis'[c].item = analysis[c].item
                     \/ analysis[c].status = "none"
  BY <1>1, <1>2, RequestRows DEF SameButStatus
<1>5. \A c \in Ids : analysis[c].status # "none" => analysis'[c].status # "none"
  BY <1>1, <1>2, RequestRows
<1>6. x.pc \in {"move", "requeue"} =>
        /\ Continues(r, x) /\ x.id \in Ids /\ analysis[x.id].status \notin {"none", "removed"}
        /\ analysis[x.id].item = x.item
  <2>1. Answer.pc = "answered" BY DEF Answer, NewRequest
  <2>. QED BY <1>1, <1>2, <2>1, WakingTyped DEF Acted, Begins, Continues, Rows
<1>7. ASSUME NEW q \in Requests PROVE AskedFor(q)'
  <2>1. CASE q # r BY <1>3, <1>4, <1>5, <2>1 DEF AskedInv, AskedFor
  <2>2. CASE q = r BY <1>3, <1>4, <1>5, <1>6, <2>2 DEF AskedFor
  <2>. QED BY <2>1, <2>2
<1>8. ASSUME "double" \notin faults, NEW q \in Requests PROVE TakesTurn(q)'
  <2>1. r \in Handled' => \A p \in Handled : asked[p].item = x.item => p = r
    <3>1. CASE Begins(r, x) BY <1>8, <3>1 DEF Begins
    <3>2. CASE Continues(r, x)
      BY <1>1, <1>8, <3>2 DEF Continues, AskedInv, TakesTurn, Handled
    <3>3. CASE x = Answer
      <4>1. x.pc = "answered" BY <3>3 DEF Answer, NewRequest
      <4>. QED BY <1>1, <1>3, <4>1 DEF Handled
    <3>4. CASE x = Waking(r) /\ r \in Handled
      BY <1>1, <1>8, <3>4, WakingTyped DEF AskedInv, TakesTurn, Handled
    <3>. QED BY <1>2, <3>1, <3>2, <3>3, <3>4 DEF Acted
  <2>2. \A p \in Requests : q \in Handled' /\ p \in Handled' /\ asked'[q].item = asked'[p].item
                              => q = p
    BY <1>1, <1>3, <1>8, <2>1 DEF AskedInv, TakesTurn, Handled
  <2>3. asked'[q].pc = "requeue" => analysis'[asked'[q].id].status \in {"failed", "removed"}
    <3>1. CASE q = r BY <1>3, <1>6, <3>1 DEF Continues
    <3>2. ASSUME q # r, asked[q].pc = "requeue"
          PROVE  analysis'[asked[q].id].status \in {"failed", "removed"}
      <4>1. /\ asked[q].id \in Ids /\ analysis[asked[q].id].status \in {"failed", "removed"}
            /\ analysis[asked[q].id].item = asked[q].item /\ q \in Handled
        BY <1>8, <3>2 DEF AskedInv, AskedFor, TakesTurn, Handled
      <4>2. ~(Requeues(r) /\ asked[q].id = asked[r].id)
        BY <1>1, <1>8, <3>2, <4>1 DEF Requeues, AskedInv, AskedFor, TakesTurn, Handled
      <4>. QED BY <1>1, <1>2, <4>1, <4>2, RequestRows
    <3>. QED BY <1>3, <3>1, <3>2
  <2>. QED BY <2>2, <2>3 DEF TakesTurn
<1>. QED BY <1>1, <1>7, <1>8 DEF AskedInv, faults

(* Whatever step is taken, requests know their rows.                       *)
LEMMA AskedSteps ==
  ASSUME Typed, AskedInv, [CastingNext]_vars
  PROVE  AskedInv'
<1>1. CASE UNCHANGED vars
  BY <1>1 DEF vars, table, AskedInv, AskedFor, TakesTurn, Handled, faults
<1>2. ASSUME NEW b \in Backends, RunnerActs(b) PROVE AskedInv'
  BY <1>2, RunnerTurns, RunnerRows, AskedKept
<1>3. CASE RetentionStep \/ PassFails
  BY <1>3, RetentionTyped, RetentionRows, AskedKept DEF shared
<1>4. CASE WorldActs
  BY <1>4, WorldTyped, AgedFields, AskedKept DEF SameButStatus
<1>. QED BY <1>1, <1>2, <1>3, <1>4, AskedByRequest, NextActs

(* A result is not rewritten: only the path and the age of its row change. *)
LEMMA FinalSteps ==
  ASSUME Typed, AskedInv, [CastingNext]_vars, NEW a \in Rows, analysis[a].status = "succeeded"
  PROVE  \/ analysis'[a] = [analysis[a] EXCEPT !.path = analysis'[a].path,
                                               !.old = analysis'[a].old]
         \/ analysis'[a].status = "removed"
         \/ "double" \in faults
<1>1. a \in Ids /\ analysis[a] \in Analysis BY DEF Rows, Typed, CastingTypeOK
<1>2. analysis'[a] = analysis[a] =>
        analysis'[a] = [analysis[a] EXCEPT !.path = analysis'[a].path, !.old = analysis'[a].old]
  BY <1>1 DEF Analysis
<1>3. CASE UNCHANGED vars BY <1>2, <1>3 DEF vars, table
<1>4. ASSUME NEW b \in Backends, RunnerActs(b) PROVE analysis'[a] = analysis[a]
  BY <1>1, <1>4, RunnerRows
<1>5. ASSUME NEW r \in Requests, RequestActs(r)
      PROVE  \/ analysis'[a] = analysis[a]
             \/ analysis'[a] = [analysis[a] EXCEPT !.path = analysis'[a].path,
                                                   !.old = analysis'[a].old]
             \/ "double" \in faults
  <2>1. r \in Requests /\ \E x : Acted(r, x) BY <1>5, RequestTurns
  <2>2. CASE analysis'[a] = [analysis[a] EXCEPT !.path = analysis'[a].path]
    BY <1>1, <2>2 DEF Analysis
  <2>3. ASSUME Requeues(r), a = asked[r].id PROVE "double" \in faults
    BY <2>1, <2>3 DEF Requeues, AskedInv, TakesTurn
  <2>. QED BY <1>1, <2>1, <2>2, <2>3, RequestRows
<1>6. CASE RetentionStep \/ PassFails BY <1>1, <1>2, <1>6, RetentionRows
<1>7. CASE WorldActs
  <2>1. CASE analysis'[a] = [analysis[a] EXCEPT !.old = analysis'[a].old]
    BY <1>1, <2>1 DEF Analysis
  <2>. QED BY <1>1, <1>7, <2>1, WorldTyped, AgedFields
<1>. QED BY <1>2, <1>3, <1>4, <1>5, <1>6, <1>7, NextActs

-----------------------------------------------------------------------------
(* One attempt at a time: the row of a runner at work is still as it was   *)
(* claimed, or gone, and no other runner works on it.                      *)
OneAtATime == {"outlive", "double"} \cap faults = {}

HoldsRow(b) ==
  LET a == runner[b].on
  IN  AtWork(b) => \/ analysis[a].status = "removed"
                   \/ /\ analysis[a].status = "running" /\ ~analysis[a].stale
                      /\ analysis[a].attempts = runner[b].attempt

HoldsAlone(b) ==
  \A c \in Backends : AtWork(b) /\ AtWork(c) /\ runner[b].on = runner[c].on => b = c

WithinLimit(a) ==
  /\ analysis[a].attempts <= MaxAttempts
  /\ analysis[a].status = "queued" => analysis[a].attempts < MaxAttempts

HeldInv == /\ \A b \in Backends : HoldsRow(b) /\ HoldsAlone(b)
           /\ \A a \in Ids : WithinLimit(a)

(* At first nobody works.                                                  *)
LEMMA HeldStarts == CastingInit => HeldInv
<1>. SUFFICES ASSUME CastingInit PROVE HeldInv OBVIOUS
<1>1. \A b \in Backends : ~AtWork(b)
  BY DEF CastingInit, RunnerInit, IdleRunner, AtWork, LoopPcs
<1>2. \A a \in Ids : WithinLimit(a)
  BY CastingAssumption DEF CastingInit, TableInit, NoAnalysis, WithinLimit
<1>. QED BY <1>1, <1>2 DEF HeldInv, HoldsRow, HoldsAlone

(* A runner claims only rows no other works on.                            *)
LEMMA HeldByRunner ==
  ASSUME Typed, HeldInv, OneAtATime, NEW b \in Backends, RunnerActs(b)
  PROVE  HeldInv'
<1>1. PICK s : /\ WellShaped(s)
               /\ \A c \in Backends : runner'[c] = IF c = b THEN s ELSE runner[c]
               /\ Turned(b, s)
  BY RunnerTurns
<1>2. \A c \in Backends : AtWork(c) => runner[c].on \in Ids
  BY DEF Typed, WellShaped, AtWork
<1>3. \A a \in Ids : analysis[a].attempts \in Nat BY DEF Typed, CastingTypeOK, Analysis
<1>4. MaxAttempts \in Nat BY CastingAssumption
<1> DEFINE Steady(c) == \/ analysis'[runner[c].on] = analysis[runner[c].on]
                        \/ ~AtWork(c)
<1>5. ASSUME NEW a \in Ids, Takes(b, s, a) PROVE HeldInv'
  <2>1. ClaimNext(a) /\ s.on = a /\ s.attempt = analysis[a].attempts + 1 /\ ~AtWork(b)
    BY <1>5 DEF Takes, AtWork, LoopPcs
  <2>2. /\ analysis'[a].status = "running" /\ analysis'[a].stale = FALSE
        /\ analysis'[a].attempts = analysis[a].attempts + 1
    BY <2>1, ClaimedFields
  <2>3. ASSUME NEW c \in Backends, AtWork(c) PROVE runner[c].on # a /\ Steady(c)
    <3>1. a \in Waiting BY <2>1 DEF ClaimNext
    <3>2. runner[c].on # a /\ ~Exhausted(runner[c].on)
      BY <2>3, <3>1 DEF HeldInv, HoldsRow, Waiting, Exhausted
    <3>. QED BY <1>2, <2>1, <2>3, <3>2, ClaimedFields
  <2>4. \A c \in Backends : HoldsRow(c)' /\ HoldsAlone(c)'
    BY <1>1, <2>1, <2>2, <2>3 DEF HeldInv, HoldsRow, HoldsAlone, AtWork
  <2>5. analysis[a].attempts < MaxAttempts
    BY <1>3, <1>4, <2>1 DEF HeldInv, WithinLimit, ClaimNext, Waiting, Exhausted
  <2>6. ASSUME NEW c \in Ids PROVE WithinLimit(c)'
    <3>1. CASE c = a BY <1>3, <1>4, <2>2, <2>5, <3>1 DEF WithinLimit
    <3>2. CASE c # a
      BY <2>1, <3>2, ClaimedFields DEF SameButStatus, HeldInv, WithinLimit
    <3>. QED BY <3>1, <3>2
  <2>. QED BY <2>4, <2>6 DEF HeldInv
<1>6. ASSUME FindsNothing(b, s) PROVE HeldInv'
  <2>1. analysis' = Swept /\ s.pc \in LoopPcs BY <1>6 DEF FindsNothing, LoopPcs
  <2>2. ASSUME NEW c \in Backends, AtWork(c) PROVE Steady(c)
    <3>1. ~Exhausted(runner[c].on) BY <2>2 DEF HeldInv, HoldsRow, Exhausted
    <3>. QED BY <1>2, <2>1, <2>2, <3>1, SweptFields
  <2>3. \A c \in Backends : HoldsRow(c)' /\ HoldsAlone(c)'
    BY <1>1, <2>1, <2>2 DEF HeldInv, HoldsRow, HoldsAlone, AtWork
  <2>4. \A c \in Ids : WithinLimit(c)'
    BY <2>1, SweptFields DEF SameButStatus, HeldInv, WithinLimit
  <2>. QED BY <2>3, <2>4 DEF HeldInv
<1>7. ASSUME Saves(b, s) \/ Gives(b, s) PROVE HeldInv'
  <2>1. AtWork(b) /\ s.pc \in LoopPcs BY <1>7 DEF Saves, Gives, AtWork, LoopPcs
  <2>2. ASSUME NEW c \in Backends, AtWork(c), c # b PROVE Steady(c)
    <3>1. runner[c].on # runner[b].on BY <2>1, <2>2 DEF HeldInv, HoldsAlone
    <3>. QED BY <1>2, <1>7, <2>2, <3>1, SavedFields, GivenFields
  <2>3. \A c \in Backends : HoldsRow(c)' /\ HoldsAlone(c)'
    BY <1>1, <2>1, <2>2 DEF HeldInv, HoldsRow, HoldsAlone, AtWork
  <2>4. ASSUME NEW c \in Ids PROVE WithinLimit(c)'
    <3>1. CASE analysis'[c] = analysis[c] BY <3>1 DEF HeldInv, WithinLimit
    <3>2. CASE Saves(b, s) /\ analysis'[c] # analysis[c]
      BY <3>2, SavedFields DEF HeldInv, WithinLimit
    <3>3. CASE Gives(b, s) /\ analysis'[c] # analysis[c]
      <4>1. /\ c = runner[b].on /\ analysis[c].status = "running"
            /\ analysis'[c].attempts = analysis[c].attempts
            /\ analysis'[c].status = IF runner[b].retry THEN "queued" ELSE "failed"
        BY <3>3, GivenFields DEF SameButStatus
      <4>2. analysis[c].attempts = runner[b].attempt BY <2>1, <4>1 DEF HeldInv, HoldsRow
      <4>3. runner[b].retry => runner[b].attempt < MaxAttempts BY DEF Typed, WellShaped
      <4>. QED BY <4>1, <4>2, <4>3 DEF HeldInv, WithinLimit
    <3>. QED BY <1>7, <3>1, <3>2, <3>3
  <2>. QED BY <2>3, <2>4 DEF HeldInv
<1>8. ASSUME analysis' = analysis,
             \/ s.pc \in LoopPcs
             \/ AtWork(b) /\ s.on = runner[b].on /\ s.attempt = runner[b].attempt
      PROVE  HeldInv'
  BY <1>1, <1>8 DEF HeldInv, HoldsRow, HoldsAlone, AtWork, WithinLimit
<1>. QED BY <1>1, <1>5, <1>6, <1>7, <1>8
         DEF Turned, GoesOn, Loops, Drops, IdleRunner, LoopPcs

(* A wake changes no attempt.                                              *)
SameWork(b) == /\ AtWork(b) <=> AtWork(b)'
               /\ AtWork(b) => /\ runner'[b].on = runner[b].on
                               /\ runner'[b].attempt = runner[b].attempt

(* A request wakes runners, and changes nothing else of them.              *)
LEMMA RequestWork ==
  ASSUME Typed, NEW r \in Requests, NEW x, Acted(r, x)
  PROVE  \A b \in Backends : SameWork(b)
<1>1. CASE runner' = runner BY <1>1 DEF SameWork, AtWork
<1>2. ASSUME NEW c \in Backends, NEW s \in Runner, Wakes(c, s)
      PROVE  \A b \in Backends : SameWork(b)
  BY <1>2 DEF Wakes, SameWork, AtWork
<1>. QED BY <1>1, <1>2 DEF Acted, Begins, Continues, Ends, Queues, Requeues, Repaths,
         Inserts

(* Rows nobody works on may change, within the limit.                      *)
LEMMA HeldElsewhere ==
  ASSUME Typed, HeldInv, \A b \in Backends : SameWork(b),
         \A b \in Backends : AtWork(b) =>
           LET a == runner[b].on
           IN  \/ analysis'[a].status = "removed"
               \/ /\ analysis'[a].status = analysis[a].status
                  /\ analysis'[a].stale = analysis[a].stale
                  /\ analysis'[a].attempts = analysis[a].attempts,
         \A a \in Ids : \/ analysis'[a].attempts = 0
                        \/ /\ analysis'[a].status = analysis[a].status
                           /\ analysis'[a].attempts = analysis[a].attempts
  PROVE  HeldInv'
<1>1. \A a \in Ids : WithinLimit(a)' BY CastingAssumption DEF HeldInv, WithinLimit
<1>2. ASSUME NEW b \in Backends PROVE HoldsRow(b)' /\ HoldsAlone(b)'
  BY DEF HeldInv, HoldsRow, HoldsAlone, SameWork
<1>. QED BY <1>1, <1>2 DEF HeldInv

(* Whatever step is taken, attempts stay single and counted.               *)
LEMMA HeldSteps ==
  ASSUME Typed, AskedInv, HeldInv, OneAtATime, [CastingNext]_vars
  PROVE  HeldInv'
<1>1. \A b \in Backends : AtWork(b) => runner[b].on \in Ids
  BY DEF Typed, WellShaped, AtWork
<1>2. CASE UNCHANGED vars
  BY <1>2 DEF vars, table, HeldInv, HoldsRow, HoldsAlone, WithinLimit, AtWork
<1>3. ASSUME NEW r \in Requests, RequestActs(r) PROVE HeldInv'
  <2>1. PICK x : r \in Requests /\ Acted(r, x) BY <1>3, RequestTurns
  <2>2. \A c \in Ids :
          \/ /\ analysis'[c].status = analysis[c].status
             /\ analysis'[c].stale = analysis[c].stale
             /\ analysis'[c].attempts = analysis[c].attempts
          \/ analysis[c].status \in {"none", "failed"} /\ analysis'[c].attempts = 0
    <3>1. \A c \in Rows : Requeues(r) /\ c = asked[r].id => analysis[c].status = "failed"
      BY <2>1 DEF OneAtATime, AskedInv, TakesTurn, Requeues, Rows
    <3>. QED BY <2>1, <3>1, RequestRows, InsertedFields DEF SameButStatus
  <2>3. \A b \in Backends : AtWork(b) =>
          analysis[runner[b].on].status \notin {"none", "failed"}
    BY DEF HeldInv, HoldsRow
  <2>. QED BY <1>1, <2>1, <2>2, <2>3, HeldElsewhere, RequestWork
<1>4. CASE RetentionStep \/ PassFails
  <2>1. \A b \in Backends : SameWork(b) BY <1>4, RetentionTyped DEF shared, SameWork, AtWork
  <2>. QED BY <1>1, <1>4, <2>1, RetentionRows, HeldElsewhere
<1>5. CASE WorldActs
  <2>1. \A b \in Backends : SameWork(b) BY <1>5, WorldTyped DEF SameWork, AtWork
  <2>2. \A b \in Backends : Attempts(runner[b].on) # {} BY DEF Attempts
  <2>3. \A a \in Ids : \/ analysis'[a].status = "removed" /\ analysis'[a].attempts = 0
                       \/ /\ analysis'[a].status = analysis[a].status
                          /\ analysis'[a].attempts = analysis[a].attempts
                          /\ Attempts(a) # {} => analysis'[a].stale = analysis[a].stale
    BY <1>5, WorldTyped, AgedFields DEF SameButStatus, OneAtATime
  <2>. QED BY <1>1, <2>1, <2>2, <2>3, HeldElsewhere
<1>. QED BY <1>2, <1>3, <1>4, <1>5, HeldByRunner, NextActs

-----------------------------------------------------------------------------
(* When attempts overlap: those that may still queue the row again are as  *)
(* many as there are processes at most, and none is added to them once the *)
(* limit is reached.                                                       *)
MayRetry(a) == {b \in Backends : AtWork(b) /\ runner[b].on = a /\ runner[b].attempt < MaxAttempts}

Pending(a) == IF analysis[a].status = "queued" THEN 1 ELSE 0

Overtaken(a) ==
  analysis[a].attempts >= MaxAttempts =>
    analysis[a].attempts + Cardinality(MayRetry(a)) + Pending(a)
      <= MaxAttempts + Cardinality(Backends) - 1

(* Sets of processes are finite, and one less is one less.                 *)
LEMMA SomeBackends ==
  ASSUME NEW S \in SUBSET Backends
  PROVE  /\ IsFiniteSet(S) /\ Cardinality(S) \in Nat /\ Cardinality(Backends) \in Nat
         /\ \A T \in SUBSET S : Cardinality(T) \in Nat /\ Cardinality(T) <= Cardinality(S)
         /\ \A b \in Backends \ S : Cardinality(S) <= Cardinality(Backends) - 1
         /\ \A b \in S : Cardinality(S \ {b}) = Cardinality(S) - 1
<1>1. IsFiniteSet(Backends) BY CastingAssumption
<1>2. IsFiniteSet(S) /\ Cardinality(S) \in Nat /\ Cardinality(Backends) \in Nat
  BY <1>1, FS_Subset, FS_CardinalityType
<1>3. \A T \in SUBSET S : Cardinality(T) \in Nat /\ Cardinality(T) <= Cardinality(S)
  BY <1>2, FS_Subset, FS_CardinalityType
<1>4. ASSUME NEW b \in Backends \ S PROVE Cardinality(S) <= Cardinality(Backends) - 1
  <2>1. Cardinality(Backends \ {b}) = Cardinality(Backends) - 1 BY <1>1, FS_RemoveElement
  <2>2. S \subseteq Backends \ {b} /\ IsFiniteSet(Backends \ {b}) BY <1>1, FS_Subset
  <2>3. Cardinality(S) <= Cardinality(Backends \ {b}) BY <2>2, FS_Subset
  <2>. QED BY <2>1, <2>3
<1>5. \A b \in S : Cardinality(S \ {b}) = Cardinality(S) - 1 BY <1>2, FS_RemoveElement
<1>. QED BY <1>2, <1>3, <1>4, <1>5

(* At first no row was attempted.                                          *)
LEMMA OvertakenStarts == CastingInit => \A a \in Ids : Overtaken(a)
BY CastingAssumption DEF CastingInit, TableInit, NoAnalysis, Overtaken

(* A row that is not claimed, with no more attempts that may queue it.     *)
LEMMA OvertakenElsewhere ==
  ASSUME Typed, NEW a \in Ids, Overtaken(a), MayRetry(a)' \subseteq MayRetry(a),
         \/ analysis'[a].attempts = 0
         \/ /\ analysis'[a].attempts = analysis[a].attempts
            /\ analysis'[a].status = "queued" => analysis[a].status = "queued"
  PROVE  Overtaken(a)'
<1>1. MayRetry(a) \in SUBSET Backends BY DEF MayRetry
<1>2. /\ Cardinality(MayRetry(a)) \in Nat /\ Cardinality(MayRetry(a)') \in Nat
      /\ Cardinality(MayRetry(a)') <= Cardinality(MayRetry(a)) /\ Cardinality(Backends) \in Nat
  BY <1>1, SomeBackends
<1>3. analysis[a].attempts \in Nat /\ MaxAttempts \in Nat /\ MaxAttempts > 0
  BY CastingAssumption DEF Typed, CastingTypeOK, Analysis
<1>4. CASE analysis'[a].attempts = 0 BY <1>3, <1>4 DEF Overtaken
<1>5. CASE /\ analysis'[a].attempts = analysis[a].attempts
           /\ analysis'[a].status = "queued" => analysis[a].status = "queued"
  <2>1. Pending(a)' <= Pending(a) /\ Pending(a)' \in Nat /\ Pending(a) \in Nat
    BY <1>5 DEF Pending
  <2> HIDE DEF Pending
  <2>. QED BY <1>2, <1>3, <1>5, <2>1 DEF Overtaken
<1>. QED BY <1>4, <1>5

(* A claim beyond the limit uses up a retry.                               *)
LEMMA OvertakenByClaim ==
  ASSUME Typed, NEW b \in Backends, NEW s, WellShaped(s),
         \A c \in Backends : runner'[c] = IF c = b THEN s ELSE runner[c],
         NEW a \in Ids, Takes(b, s, a), Overtaken(a)
  PROVE  Overtaken(a)'
<1> DEFINE n == analysis[a].attempts
<1>1. n \in Nat /\ MaxAttempts \in Nat /\ MaxAttempts > 0
  BY CastingAssumption DEF Typed, CastingTypeOK, Analysis
<1>2. ~AtWork(b) /\ ClaimNext(a) /\ s.attempt = n + 1 BY DEF Takes, AtWork, LoopPcs
<1>3. analysis'[a].attempts = n + 1 /\ analysis'[a].status = "running"
  BY <1>2, ClaimedFields
<1>4. CASE n + 1 < MaxAttempts BY <1>1, <1>3, <1>4 DEF Overtaken
<1>5. CASE n + 1 >= MaxAttempts
  <2>1. MayRetry(a)' = MayRetry(a)
    BY <1>1, <1>2, <1>5 DEF MayRetry, AtWork
  <2>2. b \notin MayRetry(a) /\ MayRetry(a) \in SUBSET Backends BY <1>2 DEF MayRetry
  <2>3. /\ Cardinality(MayRetry(a)) \in Nat /\ Cardinality(Backends) \in Nat
        /\ Cardinality(MayRetry(a)) <= Cardinality(Backends) - 1
    BY <2>2, SomeBackends
  <2>4. Pending(a)' = 0 BY <1>3 DEF Pending
  <2>5. n >= MaxAttempts => Pending(a) = 1
    BY <1>1, <1>2 DEF ClaimNext, Waiting, Exhausted, Pending
  <2> HIDE DEF n, Pending, MayRetry
  <2>6. n >= MaxAttempts => n + Cardinality(MayRetry(a)) + Pending(a)
                              <= MaxAttempts + Cardinality(Backends) - 1
    BY DEF Overtaken, n
  <2>7. n + 1 + Cardinality(MayRetry(a)) + 0 <= MaxAttempts + Cardinality(Backends) - 1
    BY <1>1, <1>5, <2>3, <2>5, <2>6
  <2>. QED BY <1>3, <2>1, <2>4, <2>7 DEF Overtaken
<1>. QED BY <1>1, <1>4, <1>5

(* A retry uses up the attempt that queues it.                             *)
LEMMA OvertakenByRetry ==
  ASSUME Typed, NEW b \in Backends, NEW s, WellShaped(s),
         \A c \in Backends : runner'[c] = IF c = b THEN s ELSE runner[c],
         NEW a \in Ids, Gives(b, s), a = runner[b].on, runner[b].retry, Overtaken(a),
         analysis[a].status = "running"
  PROVE  Overtaken(a)'
<1>1. analysis[a].attempts \in Nat /\ MaxAttempts \in Nat
  BY CastingAssumption DEF Typed, CastingTypeOK, Analysis
<1>2. /\ analysis'[a].attempts = analysis[a].attempts /\ analysis'[a].status = "queued"
  BY GivenFields DEF SameButStatus
<1>3. /\ AtWork(b) /\ runner[b].attempt < MaxAttempts /\ s.pc \in LoopPcs
  BY DEF Gives, AtWork, LoopPcs, Typed, WellShaped
<1>4. /\ b \in MayRetry(a) /\ MayRetry(a)' = MayRetry(a) \ {b}
      /\ MayRetry(a) \in SUBSET Backends
  BY <1>3 DEF MayRetry, AtWork
<1>5. /\ Cardinality(MayRetry(a)') = Cardinality(MayRetry(a)) - 1
      /\ Cardinality(MayRetry(a)) \in Nat /\ Cardinality(Backends) \in Nat
  BY <1>4, SomeBackends
<1>6. Pending(a) = 0 /\ Pending(a)' = 1 BY <1>2 DEF Pending
<1> HIDE DEF Pending, MayRetry
<1>. QED BY <1>1, <1>2, <1>5, <1>6 DEF Overtaken

(* Whatever a runner does.                                                 *)
LEMMA OvertakenByRunner ==
  ASSUME Typed, \A a \in Ids : Overtaken(a), NEW b \in Backends, RunnerActs(b), NEW a \in Ids
  PROVE  Overtaken(a)'
<1>1. PICK s : /\ WellShaped(s)
               /\ \A c \in Backends : runner'[c] = IF c = b THEN s ELSE runner[c]
               /\ Turned(b, s)
  BY RunnerTurns
<1>2. ASSUME s.pc \in LoopPcs \/ (AtWork(b) /\ s.on = runner[b].on /\ s.attempt = runner[b].attempt)
                \/ (~AtWork(b) /\ s.on # a)
      PROVE  MayRetry(a)' \subseteq MayRetry(a)
  BY <1>1, <1>2 DEF MayRetry, AtWork
<1>3. ASSUME NEW c \in Ids, Takes(b, s, c) PROVE Overtaken(a)'
  <2>1. CASE c = a BY <1>1, <1>3, <2>1, OvertakenByClaim
  <2>2. CASE c # a
    <3>1. ~AtWork(b) /\ s.on # a /\ ClaimNext(c) BY <1>3, <2>2 DEF Takes, AtWork, LoopPcs
    <3>2. MayRetry(a)' \subseteq MayRetry(a) BY <1>2, <3>1
    <3>. QED BY <2>2, <3>1, <3>2, ClaimedFields, OvertakenElsewhere DEF SameButStatus
  <2>. QED BY <2>1, <2>2
<1>4. ASSUME FindsNothing(b, s) PROVE Overtaken(a)'
  <2>1. MayRetry(a)' \subseteq MayRetry(a) BY <1>2, <1>4 DEF FindsNothing, LoopPcs
  <2>. QED BY <1>4, <2>1, SweptFields, OvertakenElsewhere DEF FindsNothing, SameButStatus
<1>5. ASSUME Saves(b, s) PROVE Overtaken(a)'
  <2>1. MayRetry(a)' \subseteq MayRetry(a) BY <1>2, <1>5 DEF Saves, LoopPcs
  <2>. QED BY <1>5, <2>1, SavedFields, OvertakenElsewhere
<1>6. ASSUME Gives(b, s) PROVE Overtaken(a)'
  <2>1. CASE a = runner[b].on /\ runner[b].retry /\ analysis[a].status = "running"
    BY <1>1, <1>6, <2>1, OvertakenByRetry
  <2>2. CASE ~(a = runner[b].on /\ runner[b].retry /\ analysis[a].status = "running")
    <3>1. MayRetry(a)' \subseteq MayRetry(a) BY <1>2, <1>6 DEF Gives, LoopPcs
    <3>2. /\ analysis'[a].attempts = analysis[a].attempts
          /\ analysis'[a].status = "queued" => analysis[a].status = "queued"
      BY <1>6, <2>2, GivenFields DEF SameButStatus
    <3>. QED BY <3>1, <3>2, OvertakenElsewhere
  <2>. QED BY <2>1, <2>2
<1>7. ASSUME analysis' = analysis,
             \/ s.pc \in LoopPcs
             \/ AtWork(b) /\ s.on = runner[b].on /\ s.attempt = runner[b].attempt
      PROVE  Overtaken(a)'
  BY <1>2, <1>7, OvertakenElsewhere
<1>. QED BY <1>1, <1>3, <1>4, <1>5, <1>6, <1>7
         DEF Turned, GoesOn, Loops, Drops, IdleRunner, LoopPcs

(* Whatever step is taken, those who may retry are few enough.             *)
LEMMA OvertakenSteps ==
  ASSUME Typed, \A a \in Ids : Overtaken(a), [CastingNext]_vars, NEW a \in Ids
  PROVE  Overtaken(a)'
<1>1. (\A b \in Backends : SameWork(b)) => MayRetry(a)' \subseteq MayRetry(a)
  BY DEF SameWork, MayRetry
<1>2. CASE UNCHANGED vars
  BY <1>2 DEF vars, table, Overtaken, MayRetry, Pending, AtWork
<1>3. ASSUME NEW r \in Requests, RequestActs(r) PROVE Overtaken(a)'
  <2>1. PICK x : r \in Requests /\ Acted(r, x) BY <1>3, RequestTurns
  <2>. QED BY <1>1, <2>1, RequestRows, InsertedFields, RequestWork, OvertakenElsewhere
           DEF SameButStatus
<1>4. CASE RetentionStep \/ PassFails
  <2>1. \A b \in Backends : SameWork(b) BY <1>4, RetentionTyped DEF shared, SameWork, AtWork
  <2>. QED BY <1>1, <1>4, <2>1, RetentionRows, OvertakenElsewhere
<1>5. CASE WorldActs
  <2>1. \A b \in Backends : SameWork(b) BY <1>5, WorldTyped DEF SameWork, AtWork
  <2>. QED BY <1>1, <1>5, <2>1, WorldTyped, AgedFields, OvertakenElsewhere DEF SameButStatus
<1>. QED BY <1>2, <1>3, <1>4, <1>5, OvertakenByRunner, NextActs

-----------------------------------------------------------------------------
(* Of two rows one was there before the other, and a row at work has been  *)
(* claimed since it was asked for.                                         *)
Present(a) == analysis[a].status \notin {"none", "removed"}

InOrder(a) ==
  /\ \A c \in analysis[a].after : analysis[c].status # "none"
  /\ \A c \in Ids : Present(a) /\ Present(c) /\ a # c =>
       a \in analysis[c].after \/ c \in analysis[a].after
  /\ analysis[a].status = "running" => analysis[a].attempts > 0

(* At first there are no rows.                                             *)
LEMMA OrderStarts == CastingInit => \A a \in Ids : InOrder(a)
BY DEF CastingInit, TableInit, NoAnalysis, InOrder, Present

(* Rows that stay or go stay in order.                                     *)
LEMMA OrderKept ==
  ASSUME Typed, \A a \in Ids : InOrder(a),
         \A a \in Ids :
           \/ /\ analysis'[a].after = analysis[a].after
              /\ analysis'[a].status = "none" <=> analysis[a].status = "none"
              /\ Present(a)' => Present(a)
              /\ analysis'[a].status = "running" => analysis'[a].attempts > 0
           \/ analysis'[a].status = "removed" /\ analysis'[a].after = {}
  PROVE  \A a \in Ids : InOrder(a)'
<1>1. \A a \in Ids : analysis[a].after \subseteq Ids BY DEF Typed, CastingTypeOK, Analysis
<1>. QED BY <1>1 DEF InOrder, Present

(* A new row comes after all that are there.                               *)
LEMMA OrderByInsert ==
  ASSUME Typed, \A a \in Ids : InOrder(a), NEW r \in Requests, Inserts(r)
  PROVE  \A a \in Ids : InOrder(a)'
<1>1. PICK n \in Ids : /\ analysis[n].status = "none"
                       /\ \A c \in Ids : analysis'[c] = IF c = n THEN Inserted(r) ELSE analysis[c]
  BY DEF Inserts
<1>2. analysis'[n].after = Rows /\ analysis'[n].status \in {"queued", "succeeded"}
  BY <1>1, InsertedFields
<1>3. \A a \in Ids : analysis[a].after \subseteq Ids BY DEF Typed, CastingTypeOK, Analysis
<1>4. \A c \in Ids : Present(c) <=> c \in Rows BY DEF Present, Rows
<1>5. ASSUME NEW a \in Ids, a # n PROVE InOrder(a)'
  BY <1>1, <1>2, <1>3, <1>4, <1>5 DEF InOrder, Present
<1>6. InOrder(n)'
  <2>1. \A c \in Rows : c \in Ids /\ analysis'[c].status # "none"
    BY <1>1, <1>2 DEF Rows
  <2>2. \A c \in Ids : Present(c)' /\ c # n => c \in Rows
    BY <1>1, <1>4 DEF Present
  <2>. QED BY <1>2, <2>1, <2>2 DEF InOrder
<1>. QED BY <1>5, <1>6

(* Whatever step is taken, rows stay in order.                             *)
LEMMA OrderSteps ==
  ASSUME Typed, \A a \in Ids : InOrder(a), [CastingNext]_vars
  PROVE  \A a \in Ids : InOrder(a)'
<1>1. CASE UNCHANGED vars BY <1>1 DEF vars, table, InOrder, Present
<1>2. ASSUME NEW b \in Backends, RunnerActs(b) PROVE \A a \in Ids : InOrder(a)'
  <2>1. PICK s : Turned(b, s) BY <1>2, RunnerTurns
  <2>2. \A a \in Ids : analysis[a].attempts \in Nat BY DEF Typed, CastingTypeOK, Analysis
  <2>3. ASSUME NEW a \in Ids, analysis'[a].status = "running" PROVE analysis'[a].attempts > 0
    <3>1. CASE analysis'[a] = analysis[a] BY <2>3, <3>1 DEF InOrder
    <3>2. ASSUME NEW c \in Ids, Takes(b, s, c) PROVE analysis'[a].attempts > 0
      <4>1. ClaimNext(c) BY <3>2 DEF Takes
      <4>2. CASE c = a
        <5>1. analysis'[a].attempts = analysis[a].attempts + 1 BY <4>1, <4>2, ClaimedFields
        <5>. QED BY <2>2, <5>1
      <4>3. CASE c # a BY <2>3, <3>1, <4>1, <4>3, ClaimedFields
      <4>. QED BY <4>2, <4>3
    <3>3. CASE FindsNothing(b, s) BY <2>3, <3>1, <3>3, SweptFields DEF FindsNothing
    <3>4. CASE Saves(b, s) BY <2>3, <3>1, <3>4, SavedFields
    <3>5. CASE Gives(b, s) BY <2>3, <3>1, <3>5, GivenFields
    <3>. QED BY <2>1, <3>1, <3>2, <3>3, <3>4, <3>5 DEF Turned, GoesOn, Loops, Drops
  <2>. QED BY <1>2, <2>3, RunnerRows, OrderKept DEF Present
<1>3. ASSUME NEW r \in Requests, RequestActs(r) PROVE \A a \in Ids : InOrder(a)'
  <2>1. PICK x : r \in Requests /\ Acted(r, x) BY <1>3, RequestTurns
  <2>2. CASE Inserts(r) BY <2>1, <2>2, OrderByInsert
  <2>3. CASE ~Inserts(r)
    <3>1. ASSUME NEW a \in Ids
          PROVE  /\ analysis'[a].after = analysis[a].after
                 /\ analysis'[a].status = "none" <=> analysis[a].status = "none"
                 /\ Present(a)' => Present(a)
                 /\ analysis'[a].status = "running" => analysis'[a].attempts > 0
      BY <2>1, <2>3, RequestRows DEF SameButStatus, InOrder, Present, Rows
    <3>. QED BY <3>1, OrderKept
  <2>. QED BY <2>2, <2>3
<1>4. CASE RetentionStep \/ PassFails
  <2>1. ASSUME NEW a \in Ids
        PROVE  \/ analysis'[a] = analysis[a]
               \/ analysis'[a].status = "removed" /\ analysis'[a].after = {}
    BY <1>4, RetentionRows
  <2>2. \A a \in Ids : analysis[a].status = "running" => analysis[a].attempts > 0
    BY DEF InOrder
  <2>. QED BY <2>1, <2>2, OrderKept DEF Present
<1>5. CASE WorldActs
  <2>1. ASSUME NEW a \in Ids
        PROVE  \/ /\ analysis'[a].after = analysis[a].after
                  /\ analysis'[a].status = "none" <=> analysis[a].status = "none"
                  /\ Present(a)' => Present(a)
                  /\ analysis'[a].status = "running" => analysis'[a].attempts > 0
               \/ analysis'[a].status = "removed" /\ analysis'[a].after = {}
    BY <1>5, WorldTyped, AgedFields DEF SameButStatus, InOrder, Present
  <2>. QED BY <2>1, OrderKept
<1>. QED BY <1>1, <1>2, <1>3, <1>4, <1>5, NextActs

-----------------------------------------------------------------------------
(* A row that waits for its first attempt is attended to: a runner looks   *)
(* for rows, or works on an older one, unless one waits for its retry.     *)
Looks(b) == runner[b].pc = "drain" \/ runner[b].wake

WorksBefore(b, a) == /\ AtWork(b) /\ runner[b].on \in analysis[a].after
                     /\ analysis[runner[b].on].status = "running"

SoonWoken == \E r \in Requests : asked[r].pc = "wake"

Attended(a) == Fresh(a) => \/ RetryAhead(a) \/ SoonWoken
                           \/ \E b \in Backends : Looks(b) \/ WorksBefore(b, a)

(* At first no row waits.                                                  *)
LEMMA AttendedStarts == CastingInit => \A a \in Ids : Attended(a)
BY DEF CastingInit, TableInit, NoAnalysis, Attended, Fresh

(* A runner that leaves a row to a later poll leaves an older one too.     *)
LEMMA AttendedByRunner ==
  ASSUME Typed, \A a \in Ids : InOrder(a) /\ Attended(a), {"error", "crash"} \cap faults = {},
         NEW b \in Backends, RunnerActs(b), NEW a \in Ids
  PROVE  Attended(a)'
<1>0. SoonWoken => SoonWoken' BY RunnerTurns DEF SoonWoken
<1>. SUFFICES ASSUME Fresh(a)', ~SoonWoken
              PROVE  RetryAhead(a)' \/ \E c \in Backends : Looks(c)' \/ WorksBefore(c, a)'
  BY <1>0 DEF Attended
<1>1. PICK s : /\ WellShaped(s)
               /\ \A c \in Backends : runner'[c] = IF c = b THEN s ELSE runner[c]
               /\ Turned(b, s)
  BY RunnerTurns
<1>2. analysis[a].after \subseteq Ids BY DEF Typed, CastingTypeOK, Analysis
<1>3. ASSUME NEW d \in Ids, Takes(b, s, d) PROVE WorksBefore(b, a)'
  <2>1. ClaimNext(d) /\ s.pc = "read" /\ s.on = d BY <1>3 DEF Takes
  <2>2. d # a /\ Fresh(a) /\ analysis'[d].status = "running"
    BY <2>1, ClaimedFields DEF Fresh
  <2>3. d \in analysis[a].after
    BY <2>1, <2>2 DEF ClaimNext, Waiting, Fresh, InOrder, Present
  <2>4. analysis'[a].after = analysis[a].after BY <2>1, <2>2, ClaimedFields DEF SameButStatus
  <2>. QED BY <1>1, <2>1, <2>2, <2>3, <2>4 DEF WorksBefore, AtWork, LoopPcs
<1>4. ~FindsNothing(b, s)
  <2>1. ASSUME FindsNothing(b, s) PROVE FALSE
    <3>1. Fresh(a) BY <2>1, SweptFields DEF Fresh, FindsNothing
    <3>. QED BY <2>1, <3>1 DEF FindsNothing, Waiting, Fresh
  <2>. QED BY <2>1
<1>5. ASSUME GoesOn(b, s) \/ Loops(b, s)
      PROVE  RetryAhead(a)' \/ \E c \in Backends : Looks(c)' \/ WorksBefore(c, a)'
  <2>1. analysis' = analysis BY <1>5 DEF GoesOn, Loops
  <2>2. CASE RetryAhead(a) BY <2>1, <2>2 DEF RetryAhead
  <2>3. ASSUME NEW c \in Backends, Looks(c) PROVE Looks(c)'
    BY <1>1, <1>5, <2>3 DEF Looks, GoesOn, Loops, AtWork, LoopPcs
  <2>4. ASSUME NEW c \in Backends, WorksBefore(c, a) PROVE WorksBefore(c, a)'
    BY <1>1, <1>5, <2>1, <2>4 DEF WorksBefore, GoesOn, Loops, AtWork
  <2>. QED BY <2>1, <2>2, <2>3, <2>4 DEF Attended, Fresh
<1>6. ASSUME Saves(b, s) PROVE Looks(b)' BY <1>1, <1>6 DEF Saves, Looks
<1>7. ASSUME Gives(b, s)
      PROVE  RetryAhead(a)' \/ \E c \in Backends : Looks(c)' \/ WorksBefore(c, a)'
  <2>1. CASE s.pc = "drain" BY <1>1, <2>1 DEF Looks
  <2>2. CASE s.pc # "drain"
    <3>1. runner[b].retry /\ ~runner[b].wake /\ ~Looks(b)
      BY <1>7, <2>2 DEF Gives, Looks
    <3>2. \A d \in Ids : \/ /\ analysis'[d] = analysis[d]
                           /\ ~(d = runner[b].on /\ analysis[d].status = "running")
                         \/ /\ analysis[d].status = "running" /\ analysis'[d].status = "queued"
                            /\ analysis'[d].attempts > 0
      BY <1>7, <3>1, GivenFields DEF InOrder, SameButStatus
    <3>3. analysis'[a] = analysis[a] BY <3>2 DEF Fresh
    <3>4. CASE RetryAhead(a) BY <1>2, <3>2, <3>3, <3>4 DEF RetryAhead
    <3>5. ASSUME NEW c \in Backends, Looks(c) PROVE Looks(c)'
      BY <1>1, <3>1, <3>5 DEF Looks
    <3>6. ASSUME NEW c \in Backends, WorksBefore(c, a) PROVE RetryAhead(a)' \/ WorksBefore(c, a)'
      <4> DEFINE d == runner[c].on
      <4>1. d \in Ids /\ d \in analysis'[a].after BY <1>2, <3>3, <3>6 DEF WorksBefore
      <4>2. CASE analysis'[d] = analysis[d]
        <5>1. c # b BY <3>2, <3>6, <4>1, <4>2 DEF WorksBefore
        <5>. QED BY <1>1, <3>3, <3>6, <4>2, <5>1 DEF WorksBefore, AtWork
      <4>3. CASE analysis'[d].status = "queued" /\ analysis'[d].attempts > 0
        BY <4>1, <4>3 DEF RetryAhead
      <4>. QED BY <3>2, <4>1, <4>2, <4>3
    <3>. QED BY <3>3, <3>4, <3>5, <3>6 DEF Attended, Fresh
  <2>. QED BY <2>1, <2>2
<1>8. ~Drops(b, s) BY DEF Drops
<1>. QED BY <1>1, <1>3, <1>4, <1>5, <1>6, <1>7, <1>8 DEF Turned

(* Rows that stay or go leave the others attended to.                      *)
LEMMA AttendedElsewhere ==
  ASSUME Typed, NEW a \in Ids, Attended(a), runner' = runner, SoonWoken => SoonWoken',
         Fresh(a)' => /\ Fresh(a) /\ analysis'[a].after = analysis[a].after,
         \A c \in Ids : \/ /\ analysis'[c].status = analysis[c].status
                           /\ analysis'[c].attempts = analysis[c].attempts
                        \/ analysis[c].status = "none"
                        \/ analysis'[c].status = "removed"
  PROVE  Attended(a)'
<1>. SUFFICES ASSUME Fresh(a)', ~SoonWoken
              PROVE  RetryAhead(a)' \/ \E c \in Backends : Looks(c)' \/ WorksBefore(c, a)'
  BY DEF Attended
<1>1. analysis[a].after \subseteq Ids BY DEF Typed, CastingTypeOK, Analysis
<1>2. CASE RetryAhead(a) BY <1>1, <1>2 DEF RetryAhead
<1>3. ASSUME NEW b \in Backends, Looks(b) PROVE Looks(b)' BY <1>3 DEF Looks
<1>4. ASSUME NEW b \in Backends, WorksBefore(b, a) PROVE RetryAhead(a)' \/ WorksBefore(b, a)'
  <2>1. runner[b].on \in Ids /\ analysis[runner[b].on].status = "running"
    BY <1>1, <1>4 DEF WorksBefore
  <2>. QED BY <1>4, <2>1 DEF WorksBefore, RetryAhead, AtWork
<1>. QED BY <1>2, <1>3, <1>4 DEF Attended

(* Whatever step is taken, a row that waits is attended to.                *)
LEMMA AttendedSteps ==
  ASSUME Typed, \A a \in Ids : InOrder(a) /\ Attended(a), {"error", "crash"} \cap faults = {},
         [CastingNext]_vars, NEW a \in Ids
  PROVE  Attended(a)'
<1>1. CASE UNCHANGED vars
  BY <1>1 DEF vars, table, Attended, Fresh, RetryAhead, SoonWoken, Looks, WorksBefore,
            AtWork
<1>2. ASSUME NEW r \in Requests, RequestActs(r) PROVE Attended(a)'
  <2>1. PICK x : r \in Requests /\ Records(r, x) /\ Acted(r, x) BY <1>2, RequestTurns
  <2>2. \A q \in Requests : asked'[q] = IF q = r THEN x ELSE asked[q]
    BY <2>1 DEF Records, Typed, CastingTypeOK
  <2>3. UNCHANGED scenario BY <1>2, RequestTurns
  <2>4. ASSUME NEW b \in Backends, NEW s \in Runner, Wakes(b, s) PROVE Attended(a)'
    BY <2>4 DEF Wakes, Attended, Looks
  <2>5. CASE x = Waking(r)
    <3>1. SoonWoken' BY <2>1, <2>2, <2>3, <2>5, WakingTyped DEF SoonWoken
    <3>. QED BY <3>1 DEF Attended
  <2>6. CASE /\ runner' = runner /\ asked[r].pc # "wake"
             /\ \/ analysis' = analysis
                \/ Repaths(r)
                \/ Inserts(r) /\ asked[r].prefix # NoId
    <3>1. ASSUME NEW c \in Ids
          PROVE  \/ /\ analysis'[c].status = analysis[c].status
                    /\ analysis'[c].attempts = analysis[c].attempts
                    /\ analysis'[c].after = analysis[c].after
                 \/ analysis[c].status = "none" /\ analysis'[c].status = "succeeded"
      BY <2>1, <2>6, RepathedFields, InsertedFields DEF SameButStatus, Inserts
    <3>2. Fresh(a)' => Fresh(a) /\ analysis'[a].after = analysis[a].after
      BY <3>1 DEF Fresh
    <3>3. SoonWoken => SoonWoken'
      BY <2>2, <2>3, <2>6, ScenarioTyped DEF SoonWoken
    <3>. QED BY <2>6, <3>1, <3>2, <3>3, AttendedElsewhere
  <2>7. CASE Ends(r)
    BY <2>4, <2>6, <2>7 DEF Ends, Repaths, Inserts
  <2>. QED BY <2>1, <2>5, <2>6, <2>7 DEF Acted, Begins, Continues
<1>3. CASE RetentionStep \/ PassFails
  <2>1. UNCHANGED <<scenario, runner, asked>> BY <1>3, RetentionTyped DEF shared
  <2>. QED BY <1>3, <2>1, RetentionRows, AttendedElsewhere DEF Fresh, SoonWoken
<1>4. CASE WorldActs
  <2>1. UNCHANGED <<scenario, runner, asked>> BY <1>4, WorldTyped
  <2>2. \A c \in Ids : \/ /\ analysis'[c].status = analysis[c].status
                          /\ analysis'[c].attempts = analysis[c].attempts
                          /\ analysis'[c].after = analysis[c].after
                       \/ analysis'[c].status = "removed"
    BY <1>4, WorldTyped, AgedFields DEF SameButStatus
  <2>. QED BY <2>1, <2>2, AttendedElsewhere DEF Fresh, SoonWoken
<1>. QED BY <1>1, <1>2, <1>3, <1>4, AttendedByRunner, NextActs

-----------------------------------------------------------------------------
(* Together: what every state of the module is like, whatever goes wrong.  *)
CastingInv ==
  /\ Typed /\ AskedInv
  /\ "overlap" \notin faults => KeptInv
  /\ OneAtATime => HeldInv
  /\ \A a \in Ids : Overtaken(a) /\ InOrder(a)
  /\ {"error", "crash"} \cap faults = {} => \A a \in Ids : Attended(a)

(* It holds at first.                                                      *)
LEMMA CastingStarts == CastingInit => CastingInv
BY TypedStarts, AskedStarts, KeptStarts, HeldStarts, OvertakenStarts, OrderStarts, AttendedStarts
DEF CastingInv

(* Without an overlapping pass, whatever step is taken keeps the files.    *)
LEMMA KeptSteps ==
  ASSUME Typed, KeptInv, "overlap" \notin faults, [CastingNext]_vars
  PROVE  KeptInv'
<1>1. CASE UNCHANGED vars
  BY <1>1 DEF vars, table, KeptInv, PrefixKept, Unpointed, Alone, Handled
<1>. QED BY <1>1, KeptByRunner, KeptByRequest, KeptByRetention, KeptByWorld, NextActs

(* Whatever step is taken, it holds after it.                              *)
LEMMA CastingSteps == CastingInv /\ [CastingNext]_vars => CastingInv'
<1>. SUFFICES ASSUME CastingInv, [CastingNext]_vars PROVE CastingInv' OBVIOUS
<1>1. faults' = faults
  <2>1. CASE UNCHANGED vars BY <2>1 DEF vars, table, faults
  <2>. QED BY <2>1, NextActs, RunnerTurns, RequestTurns, RetentionTyped, WorldTyped
           DEF CastingInv, shared, faults
<1>2. Typed' /\ AskedInv' BY TypedSteps, AskedSteps DEF CastingInv
<1>3. ("overlap" \notin faults => KeptInv)' BY <1>1, KeptSteps DEF CastingInv
<1>4. (OneAtATime => HeldInv)' BY <1>1, HeldSteps DEF CastingInv, OneAtATime
<1>5. \A a \in Ids : Overtaken(a)' /\ InOrder(a)'
  BY OvertakenSteps, OrderSteps DEF CastingInv
<1>6. ({"error", "crash"} \cap faults = {} => \A a \in Ids : Attended(a))'
  BY <1>1, AttendedSteps DEF CastingInv
<1>. QED BY <1>2, <1>3, <1>4, <1>5, <1>6 DEF CastingInv

(* Every state of the module is one of these.                              *)
THEOREM CastingInvariant == CastingSpec => []CastingInv
BY CastingStarts, CastingSteps, PTL DEF CastingSpec

(* "A reused row points at the original's" files, which a pass removes     *)
(* only when no row points at them.                                        *)
THEOREM ResultsKeptByPass == CastingSpec => []ResultKeptByPass
<1>1. CastingInv => ResultKeptByPass
  BY DEF CastingInv, KeptInv, PrefixKept, ResultKeptByPass, ResultKept, Rows
<1>. QED BY <1>1, CastingInvariant, PTL

(* MAX_ATTEMPTS holds, or is exceeded by less than one for each process.   *)
THEOREM AttemptsOfCastingsBounded == CastingSpec => []CastingAttemptsBounded
<1>1. CastingInv => CastingAttemptsBounded
  <2>. SUFFICES ASSUME CastingInv, NEW a \in Ids
                PROVE  analysis[a].attempts <= IF OneAtATime THEN MaxAttempts
                         ELSE MaxAttempts + Cardinality(Backends) - 1
    BY DEF CastingAttemptsBounded, OneAtATime
  <2>1. CASE OneAtATime BY <2>1 DEF CastingInv, HeldInv, WithinLimit
  <2>2. CASE ~OneAtATime
    <3>1. analysis[a].attempts \in Nat /\ MaxAttempts \in Nat
      BY CastingAssumption DEF CastingInv, Typed, CastingTypeOK, Analysis
    <3>2. /\ Cardinality(MayRetry(a)) \in Nat /\ Cardinality(Backends) \in Nat
          /\ MayRetry(a) \in SUBSET Backends
      BY SomeBackends DEF MayRetry
    <3>3. Overtaken(a) /\ Pending(a) \in Nat BY DEF CastingInv, Pending
    <3> HIDE DEF MayRetry, Pending
    <3>. QED BY <2>2, <3>1, <3>2, <3>3 DEF Overtaken
  <2>. QED BY <2>1, <2>2
<1>. QED BY <1>1, CastingInvariant, PTL

(* A request that queued a row leaves a runner at work, or an older row    *)
(* waits for its retry.                                                    *)
THEOREM FreshRowsStart == CastingSpec => []FreshStarts
<1>1. CastingInv => FreshStarts
  <2>. SUFFICES ASSUME CastingInv, {"error", "crash"} \cap faults = {}, NEW a \in Ids, Fresh(a),
                       ~SoonWoken,
                       \A b \in scenario.backends : runner[b].pc = "idle"
                PROVE  RetryAhead(a)
    BY DEF FreshStarts, SoonWoken
  <2>1. \A b \in Backends : runner[b].pc = "idle" /\ ~runner[b].wake
    BY DEF CastingInv, Typed, WellShaped
  <2>. QED BY <2>1 DEF CastingInv, Attended, Looks, WorksBefore, AtWork, LoopPcs
<1>. QED BY <1>1, CastingInvariant, PTL

(* A result is not rewritten and not worked out again.                     *)
THEOREM ResultsAreFinal == CastingSpec => ResultFinal
<1> DEFINE Final == \A a \in Rows : analysis[a].status = "succeeded" =>
       \/ analysis'[a] = [analysis[a] EXCEPT !.path = analysis'[a].path,
                                             !.old = analysis'[a].old]
       \/ analysis'[a].status = "removed"
       \/ "double" \in faults
<1>1. CastingInv /\ [CastingNext]_vars => [Final]_vars BY FinalSteps DEF CastingInv
<1>2. CastingSpec => [][Final]_vars BY <1>1, CastingInvariant, PTL DEF CastingSpec
<1>. QED BY <1>2 DEF ResultFinal

=============================================================================
