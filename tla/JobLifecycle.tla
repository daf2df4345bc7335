---------------------------- MODULE JobLifecycle ----------------------------
(***************************************************************************)
(* What the job queue promises of a job (migration 920):                   *)
(*   queued -> running -> completed                                        *)
(* with queued again after a failed attempt and failed only when           *)
(* MaxAttempts attempts were begun; an attempt whose process is gone is    *)
(* begun again, which counts; and how a job ended is final.                *)
(***************************************************************************)
EXTENDS Naturals

CONSTANTS Jobs, MaxAttempts

VARIABLES state, attempts

life == <<state, attempts>>

Init == /\ state = [j \in Jobs |-> "none"]
        /\ attempts = [j \in Jobs |-> 0]

Moves(j, from, to) == state[j] = from /\ state'[j] = to

Keeps(j) == attempts'[j] = attempts[j]

Enqueue(j) == Moves(j, "none", "queued") /\ attempts'[j] = 0

Begin(j) == /\ Moves(j, "queued", "running") \/ Moves(j, "running", "running")
            /\ attempts[j] < MaxAttempts
            /\ attempts'[j] = attempts[j] + 1

Retry(j) == Moves(j, "running", "queued") /\ attempts[j] < MaxAttempts /\ Keeps(j)

Complete(j) == Moves(j, "running", "completed") /\ Keeps(j)

GiveUp(j) == Moves(j, "running", "failed") /\ attempts[j] = MaxAttempts /\ Keeps(j)

Stays(j) == state'[j] = state[j] /\ Keeps(j)

Step(j) == \/ Enqueue(j) \/ Begin(j) \/ Retry(j) \/ Complete(j) \/ GiveUp(j)
           \/ Stays(j)

(* One claim may give up several jobs and begin another.                   *)
Next == /\ state' = [j \in Jobs |-> state'[j]]
        /\ attempts' = [j \in Jobs |-> attempts'[j]]
        /\ \A j \in Jobs : Step(j)

Spec == Init /\ [][Next]_life
=============================================================================
