------------------------------ MODULE JobQueue ------------------------------
(***************************************************************************)
(* What whoever queues a recovery job is promised, with no word of         *)
(* processes, versions, leases or lost answers: one taker at a time works  *)
(* on it, it acts on the chain once or not at all, it is put back only     *)
(* while it has done nothing, and what its outcome says it did, it did.    *)
(* "failed" promises nothing: an action may have happened whose report was *)
(* lost.                                                                   *)
(***************************************************************************)
EXTENDS Naturals

CONSTANTS Jobs

VARIABLES
    status,     \* "none" until the job is queued
    acts        \* how often it acted on the chain

queueVars == <<status, acts>>

QueueInit == status = [j \in Jobs |-> "none"] /\ acts = [j \in Jobs |-> 0]

Move(j, from, to) ==
    /\ status[j] = from /\ status' = [status EXCEPT ![j] = to]
    /\ UNCHANGED acts

Enqueue(j) == Move(j, "none", "pending")

Take(j) == Move(j, "pending", "claimed")

Act(j) ==
    /\ status[j] = "claimed" /\ acts[j] = 0 /\ acts' = [acts EXCEPT ![j] = 1]
    /\ UNCHANGED status

PutBack(j) == acts[j] = 0 /\ Move(j, "claimed", "pending")

Decide(j) ==
    \/ acts[j] = 1 /\ Move(j, "claimed", "included")
    \/ acts[j] = 0 /\ Move(j, "claimed", "rejected")
    \/ Move(j, "claimed", "failed")

QueueNext ==
    \E j \in Jobs : Enqueue(j) \/ Take(j) \/ Act(j) \/ PutBack(j) \/ Decide(j)

QueueSpec == QueueInit /\ [][QueueNext]_queueVars
=============================================================================
