----------------------------- MODULE Electronics -----------------------------
(***************************************************************************)
(* The electronics uploads as a whole: users' requests, the queue and the  *)
(* parse handlers of the backend processes.                                *)
(***************************************************************************)
EXTENDS ParseJob

vars == <<queue, tables, asked>>

ElectronicsInit == QueueInit /\ DesignsInit

Runs(b) == \/ Handler(b)
           \/ LoopStep(b) /\ UNCHANGED <<tables, asked>>

ElectronicsNext ==
  \/ \E b \in scenario.backends :
       \/ Runs(b)
       \/ (ClaimFails(b) \/ Stop(b) \/ LoopCrash(b)) /\ UNCHANGED <<tables, asked>>
  \/ \E r \in Requests : Ask(r) \/ RequestStep(r) \/ EnqueueLost(r) \/ RequestFails(r)
  \/ \E j \in Jobs : (ComeDue(j) \/ GoStale(j)) /\ UNCHANGED <<tables, asked>>

ElectronicsSpec == ElectronicsInit /\ [][ElectronicsNext]_vars

(* Timers fire and awaits end; time makes a retry due and the job of an    *)
(* ended attempt stale; a stopped process is replaced.  Not every claim    *)
(* fails, and not every process is stopped before it claims: strong        *)
(* fairness.  Nobody has to ask.                                           *)
ElectronicsFair ==
  /\ ElectronicsSpec
  /\ \A b \in Backends : WF_vars(b \in scenario.backends /\ Runs(b))
  /\ SF_vars(\E b \in scenario.backends : Claim(b) /\ UNCHANGED <<tables, asked>>)
  /\ WF_vars(\E r \in Requests : RequestStep(r))
  /\ WF_vars(/\ \E j \in Jobs : ComeDue(j) \/ (Attempts(j) = {} /\ GoStale(j))
             /\ UNCHANGED <<tables, asked>>)

-----------------------------------------------------------------------------
(* What the tables, the loops and the requests can be.                     *)
ElectronicsTypeOK ==
  /\ scenario \in Scenarios
  /\ job \in [Jobs -> Job]
  /\ loop \in [Backends -> Loop]
  /\ design \in BOOLEAN
  /\ revision \in [Contents -> Revision]
  /\ upload \in [Uploads -> Upload]
  /\ files \subseteq Uploads /\ known \subseteq Uploads /\ graph \subseteq Uploads
  /\ asked \in [Requests -> Request]

(* An attempt has at most MAX_ATTEMPTS claims whatever goes wrong: crashed *)
(* and outlived attempts count, and no write of a late one gives any back. *)
JobAttemptsBounded == \A j \in Jobs : /\ job[j].attempts <= MaxAttempts
                                      /\ job[j].state = "queued" => job[j].attempts < MaxAttempts

(* A process that is stopped in order leaves no job behind that only the   *)
(* window would free: it waits for the one it is working on.               *)
CleanStop ==
  {"error", "lost", "crash", "outlive"} \cap faults = {} =>
    \A j \in Jobs : job[j].state = "running" => Attempts(j) # {}

(* Whatever the order of inserts and deletes, an upload that is there has  *)
(* its files: the next reading of it finds them.                           *)
UploadFilesKept == "lost" \notin faults => \A u \in Uploads : There(u) => u \in files

(* Nothing is left in the object store of an upload that was refused or    *)
(* deleted, once the requests are over.                                    *)
NoStrayFiles ==
  /\ {"error", "lost", "crash", "overlap"} \cap faults = {}
  /\ Handled = {}
  => \A u \in files : There(u)

(* A job is queued or runs, an attempt will set the status again, or a     *)
(* request is about to queue a job.                                        *)
BeingRead(u) == \/ \E j \in Live : job[j].about = u
                \/ \E b \in Backends : loop[b].on # NoJob /\ Names(b) = u
                \/ \E r \in Handled : asked[r].pc = "enqueue" /\ asked[r].up = u

(* Without faults, whatever is said to be read is.                         *)
ReadingHasJob ==
  faults \subseteq {"stop", "overlap", "outlive"} =>
    \A u \in Uploads : upload[u].status \in Reading => BeingRead(u)

(* "These files are already being read", says the request to read them     *)
(* again; so does, with a job's record, a request that sends them again.   *)
NeverStuck == \A u \in known : upload[u].status \in Reading => BeingRead(u)

(* When the queue has finished with an upload, its status says how its     *)
(* jobs ended, however attempts, retries and readings interleaved.         *)
StatusTruthful ==
  {"error", "lost", "crash", "outlive"} \cap faults = {} =>
    \A u \in Uploads :
      LET of == {j \in Jobs : job[j].state # "none" /\ job[j].about = u} IN
      There(u) /\ of # {} /\ of \cap Live = {} /\ (\A r \in Handled : asked[r].up # u) =>
        /\ (\A j \in of : job[j].state = "completed") => upload[u].status = "review"
        /\ (\A j \in of : job[j].state = "failed") => upload[u].status = "failed"

(* The queue keeps what JobLifecycle promises of each job, whatever fails, *)
(* is lost, crashes or outlives its window: a job that is claimed again    *)
(* counts, only one that used its attempts up is given up, and no late     *)
(* attempt rewrites how a job ended.                                       *)
JobLife == INSTANCE JobLifecycle
             WITH state <- [j \in Jobs |-> job[j].state],
                  attempts <- [j \in Jobs |-> job[j].attempts]

KeepsJobLife == JobLife!Spec

(* How a job ended is final: no late attempt rewrites it.                  *)
JobFinal == [][\A j \in Jobs : job[j].state \in {"completed", "failed"} => job'[j] = job[j]]_vars

(* The queue drains, through failed claims, lost answers, crashes and      *)
(* stops: a job neither stays queued nor stays with a dead attempt.        *)
JobsEnd == Live # {} ~> Live = {}
=============================================================================
