------------------------------ MODULE JobQueue ------------------------------
(***************************************************************************)
(* The electronics job queue: the table job_queue (migration 920) and the  *)
(* loops of table-job-queue.adapter.ts, one in each backend process.  What *)
(* a loop does with the job it claimed is the module ParseJob.             *)
(***************************************************************************)
EXTENDS Naturals, FiniteSets

CONSTANTS
  MaxJobs,      \* job_queue rows ever inserted, numbered in order: a bound
  Uploads,      \* what the payload of a job names
  MaxAttempts,  \* MAX_ATTEMPTS (3 in the code)
  Backends,     \* the backend processes
  Scenarios     \* the instances a run covers: one is chosen at the start

(* "error":   a call fails without effect                                  *)
(* "lost":    a call takes effect and its answer is lost                   *)
(* "crash":   a backend process dies between two steps and starts again    *)
(* "outlive": an attempt still runs when its row becomes stale             *)
(* "stop":    a backend process is stopped in order and starts again       *)
(* "overlap": requests are handled while a delete is                       *)
FaultKinds == {"error", "lost", "crash", "outlive", "stop", "overlap"}

Jobs == 1..MaxJobs
NoJob == 0

ASSUME QueueAssumption ==
  /\ MaxJobs \in Nat \ {0}
  /\ MaxAttempts \in Nat \ {0}
  /\ Uploads # {}
  /\ \A s \in Scenarios : s.faults \subseteq FaultKinds /\ s.backends \subseteq Backends

VARIABLES
  scenario,  \* what may go wrong, who runs and who asks: never changes
  job,       \* job_queue
  loop       \* per backend: its loop, and the job it is working on

queue == <<scenario, job, loop>>

faults == scenario.faults

(* `due`: run_at has come; `stale`: locked_at is older than STALE_SECONDS. *)
Job == [state : {"none", "queued", "running", "completed", "failed"},
        attempts : Nat, due : BOOLEAN, stale : BOOLEAN, about : Uploads]

NoRow == [state |-> "none", attempts |-> 0, due |-> FALSE, stale |-> FALSE,
          about |-> CHOOSE u \in Uploads : TRUE]

(* `head` is the test of the while, `empty` a claim that found nothing and *)
(* does not sleep yet; `get` to `failing` is the handler; `ok` what it     *)
(* returned, to be written.                                                *)
Handling == {"get", "parsing", "read", "graph", "status", "failing"}

Loop == [pc : {"head", "empty", "asleep", "write", "off"} \cup Handling,
         on : Jobs \cup {NoJob}, ok : BOOLEAN, stopping : BOOLEAN]

Started == [pc |-> "head", on |-> NoJob, ok |-> FALSE, stopping |-> FALSE]

QueueInit == /\ scenario \in Scenarios
             /\ job = [j \in Jobs |-> NoRow]
             /\ loop = [b \in Backends |-> Started]

Live == {j \in Jobs : job[j].state \in {"queued", "running"}}

Attempts(j) == {b \in Backends : loop[b].on = j}

Goes(b, pc) == loop' = [loop EXCEPT ![b].pc = pc]

(* The handler returned, or threw.                                         *)
Ends(b, ok) == loop' = [loop EXCEPT ![b].pc = "write", ![b].ok = ok]

(* The end of runOne: on with the next job, or, thrown, to sleep.          *)
Done(b, pc) == loop' = [loop EXCEPT ![b].pc = pc, ![b].on = NoJob, ![b].ok = FALSE]

-----------------------------------------------------------------------------
(* enqueue_job, by a backend: its own loop is woken, if it sleeps.         *)
Inserted(u) == \E j \in Jobs :
  /\ job[j].state = "none"
  /\ \A i \in 1..(j - 1) : job[i].state # "none"
  /\ job' = [job EXCEPT ![j] = [NoRow EXCEPT !.state = "queued", !.due = TRUE, !.about = u]]

Wakes(b) == loop' = IF loop[b].pc = "asleep" THEN [loop EXCEPT ![b].pc = "head"] ELSE loop

Enqueued(u) == Inserted(u) /\ \E b \in scenario.backends : Wakes(b)

(* claim_next_job.                                                         *)
Exhausted(j) == /\ job[j].state = "running"
                /\ job[j].stale
                /\ job[j].attempts >= MaxAttempts

Swept == [j \in Jobs |-> IF Exhausted(j) THEN [job[j] EXCEPT !.state = "failed"] ELSE job[j]]

ClaimableQueued == {j \in Jobs : job[j].state = "queued" /\ job[j].due}

Claimable == {j \in Jobs : \/ job[j].state = "queued" /\ job[j].due
                           \/ job[j].state = "running" /\ job[j].stale /\ ~Exhausted(j)}

Claimed(j) == job' = [Swept EXCEPT ![j].state = "running", ![j].stale = FALSE,
                                   ![j].attempts = job[j].attempts + 1]

(* Any of the claimable jobs: run_at, which orders them, is not kept.      *)
Claim(b) ==
  /\ loop[b].pc = "head" /\ ~loop[b].stopping
  /\ \/ \E j \in Claimable :
          /\ Claimed(j)
          /\ loop' = [loop EXCEPT ![b].pc = "get", ![b].on = j]
     \/ Claimable = {} /\ job' = Swept /\ Goes(b, "empty")
  /\ UNCHANGED scenario

ClaimFails(b) ==
  /\ loop[b].pc = "head" /\ ~loop[b].stopping
  /\ \/ "error" \in faults /\ job' = job
     \/ "lost" \in faults /\ \E j \in Claimable : Claimed(j)
  /\ Goes(b, "empty")
  /\ UNCHANGED scenario

(* A wake before this step is lost, unless it is that of stop().           *)
FallAsleep(b) == /\ loop[b].pc = "empty"
                 /\ Goes(b, IF loop[b].stopping THEN "off" ELSE "asleep")
                 /\ UNCHANGED <<scenario, job>>

Poll(b) == /\ loop[b].pc = "asleep"
           /\ Goes(b, "head")
           /\ UNCHANGED <<scenario, job>>

RecordedAny(b) ==   \* whatever the job is by now
  LET j == loop[b].on IN
  job' = [job EXCEPT ![j].state = IF loop[b].ok THEN "completed"
                                  ELSE IF job[j].attempts < MaxAttempts THEN "queued" ELSE "failed",
                     ![j].due = FALSE, ![j].stale = FALSE]

(* complete_job and fail_job: a job that is running, by whomever.          *)
Recorded(b) ==
  LET j == loop[b].on IN
  IF job[j].state # "running" THEN job' = job
  ELSE job' = [job EXCEPT
         ![j].state = IF loop[b].ok THEN "completed"
                      ELSE IF job[j].attempts < MaxAttempts THEN "queued" ELSE "failed",
         ![j].due = FALSE, ![j].stale = FALSE]

Write(b) ==
  /\ loop[b].pc = "write"
  /\ \/ Recorded(b) /\ Done(b, "head")
     \/ "error" \in faults /\ job' = job /\ Done(b, "empty")
     \/ "lost" \in faults /\ Recorded(b) /\ Done(b, "empty")
  /\ UNCHANGED scenario

-----------------------------------------------------------------------------
StopAborts(b) ==   \* the loop ends at once
  /\ "stop" \in faults
  /\ loop[b].pc # "off"
  /\ loop' = [loop EXCEPT ![b] = [Started EXCEPT !.pc = "off", !.stopping = TRUE]]
  /\ UNCHANGED <<scenario, job>>

(* stop(): the loop ends once the job it is working on is recorded.        *)
Stop(b) == /\ "stop" \in faults
           /\ loop[b].pc # "off" /\ ~loop[b].stopping
           /\ loop' = [loop EXCEPT ![b].stopping = TRUE,
                ![b].pc = IF loop[b].pc = "asleep" THEN "head" ELSE loop[b].pc]
           /\ UNCHANGED <<scenario, job>>

EndLoop(b) == /\ loop[b].pc = "head" /\ loop[b].stopping
              /\ Goes(b, "off")
              /\ UNCHANGED <<scenario, job>>

(* The next process, with a queue of its own.                              *)
StartAgain(b) == /\ loop[b].pc = "off"
                 /\ loop' = [loop EXCEPT ![b] = Started]
                 /\ UNCHANGED <<scenario, job>>

LoopCrash(b) == /\ "crash" \in faults
                /\ loop[b].on # NoJob
                /\ loop' = [loop EXCEPT ![b] = Started]
                /\ UNCHANGED <<scenario, job>>

(* Time passes for a job: a retry is due, a claim is out of its window.    *)
ComeDue(j) == /\ job[j].state = "queued" /\ ~job[j].due
              /\ job' = [job EXCEPT ![j].due = TRUE]
              /\ UNCHANGED <<scenario, loop>>

GoStale(j) == /\ job[j].state = "running" /\ ~job[j].stale
              /\ "outlive" \in faults \/ Attempts(j) = {}
              /\ job' = [job EXCEPT ![j].stale = TRUE]
              /\ UNCHANGED <<scenario, loop>>

LoopStep(b) == \/ Claim(b) \/ FallAsleep(b) \/ Poll(b) \/ Write(b)
               \/ EndLoop(b) \/ StartAgain(b)
=============================================================================
