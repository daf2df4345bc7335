--------------------------- MODULE UploadLifecycle ---------------------------
(***************************************************************************)
(* What the pipeline promises of an upload to whoever polls its status:    *)
(*   queued -> running -> analysed -> materializing -> done                *)
(* with failed from any step (migration 923), each half tried at most      *)
(* MaxAttempts times, one attempt at a time, nothing undone once it is     *)
(* done, and an end that comes.  Without the Rust core there is one half.  *)
(***************************************************************************)
EXTENDS Naturals

CONSTANTS Uploads, MaxAttempts, RustCore

VARIABLES phase, used    \* used[u]: the attempts begun, in each half

life == <<phase, used>>

First == 1
Second == 2
Fresh == [h \in {First, Second} |-> 0]

Init == /\ phase = [u \in Uploads |-> "none"]
        /\ used = [u \in Uploads |-> Fresh]

Moves(u, from, to) == phase[u] = from /\ phase'[u] = to

Keeps(u) == used'[u] = used[u]

Spends(u, h) == /\ used[u][h] < MaxAttempts
                /\ used'[u] = [used[u] EXCEPT ![h] = used[u][h] + 1]

Submit(u) == /\ \/ Moves(u, "none", "queued")
                \/ Moves(u, "failed", "queued")
                \/ Moves(u, "done", "queued")
             /\ used'[u] = Fresh

(* An attempt begins, again if the one before it was abandoned.            *)
Begin(u) == /\ Moves(u, "queued", "running") \/ Moves(u, "running", "running")
            /\ Spends(u, First)

BeginImport(u) == /\ \/ Moves(u, "analysed", "materializing")
                     \/ Moves(u, "materializing", "materializing")
                  /\ Spends(u, Second)

Retry(u) == /\ Moves(u, "running", "queued")
            /\ used[u][First] < MaxAttempts
            /\ Keeps(u)

RetryImport(u) == /\ Moves(u, "materializing", "analysed")
                  /\ used[u][Second] < MaxAttempts
                  /\ Keeps(u)

HandOver(u) == RustCore /\ Moves(u, "running", "analysed") /\ Keeps(u)

Finish(u) == /\ Moves(u, IF RustCore THEN "materializing" ELSE "running", "done")
             /\ Keeps(u)

GiveUp(u) == /\ \/ Moves(u, "running", "failed")
                \/ Moves(u, "materializing", "failed")
             /\ Keeps(u)

Forget(u) == Moves(u, "failed", "none") /\ used'[u] = Fresh

Works(u) == \/ Begin(u) \/ BeginImport(u) \/ Retry(u) \/ RetryImport(u)
            \/ HandOver(u) \/ Finish(u) \/ GiveUp(u)

(* One claim may fail several exhausted uploads and begin another.         *)
Next == /\ phase' = [u \in Uploads |-> phase'[u]]
        /\ used' = [u \in Uploads |-> used'[u]]
        /\ \A u \in Uploads : \/ Works(u) \/ Submit(u) \/ Forget(u)
                              \/ phase'[u] = phase[u] /\ Keeps(u)

Spec == Init /\ [][Next]_life
=============================================================================
