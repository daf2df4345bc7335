------------------------------ MODULE ParseJob ------------------------------
(***************************************************************************)
(* process-parse-job.ts: the handler of the parse queue reads the files of *)
(* the upload a job names, stores a feature graph and sets the status of   *)
(* the upload.  An exception fails the attempt, and the queue retries it.  *)
(***************************************************************************)
EXTENDS Designs

Names(b) == job[loop[b].on].about

others == <<scenario, job, design, revision, files, known, asked>>

(* workerGetUpload(): an upload that is gone fails the attempt.            *)
Get(b) == /\ loop[b].pc = "get"
          /\ \/ There(Names(b)) /\ Goes(b, "parsing")
             \/ (~There(Names(b)) \/ "error" \in faults) /\ Ends(b, FALSE)
          /\ UNCHANGED <<others, upload, graph>>

(* Outside the try: the upload does not hear of a failure here.            *)
SetParsing(b) == /\ loop[b].pc = "parsing"
                 /\ \/ SetStatus(Names(b), "parsing") /\ Goes(b, "read")
                    \/ "error" \in faults /\ upload' = upload /\ Ends(b, FALSE)
                 /\ UNCHANGED <<others, graph>>

(* The files are read, parsed, and the graph is validated, or not.         *)
ReadFiles(b) == /\ loop[b].pc = "read"
                /\ \/ Names(b) \in files /\ Goes(b, "graph")
                   \/ Goes(b, "failing")
                /\ UNCHANGED <<others, upload, graph>>

InsertGraph(b) == /\ loop[b].pc = "graph"
                  /\ \/ /\ There(Names(b))
                        /\ graph' = graph \cup {Names(b)}
                        /\ Goes(b, "status")
                     \/ /\ ~There(Names(b)) \/ "error" \in faults
                        /\ graph' = graph
                        /\ Goes(b, "failing")
                  /\ UNCHANGED <<others, upload>>

SetReview(b) == /\ loop[b].pc = "status"
                /\ \/ SetStatus(Names(b), "review") /\ Ends(b, TRUE)
                   \/ "error" \in faults /\ upload' = upload /\ Goes(b, "failing")
                /\ UNCHANGED <<others, graph>>

FailSilently(b) ==   \* the queue's record of the failure is enough
  loop[b].pc = "failing" /\ Ends(b, FALSE) /\ UNCHANGED <<others, upload, graph>>

SetFailed(b) == /\ loop[b].pc = "failing"
                /\ \/ SetStatus(Names(b), "failed")
                   \/ "error" \in faults /\ upload' = upload
                /\ Ends(b, FALSE)
                /\ UNCHANGED <<others, graph>>

Handler(b) == \/ Get(b) \/ SetParsing(b) \/ ReadFiles(b) \/ InsertGraph(b)
              \/ SetReview(b) \/ SetFailed(b)
=============================================================================
