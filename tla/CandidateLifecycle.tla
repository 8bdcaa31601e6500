------------------------- MODULE CandidateLifecycle -------------------------
(***************************************************************************)
(* What the delivery of task candidates promises: the life of a candidate  *)
(* as frontend/src/types/domain.ts and task_create.py tell it, with every  *)
(* request one step.                                                       *)
(*                                                                         *)
(*     pending --> confirmed                 (the task's ID is known)      *)
(*     pending --> failed --> ... --> failed --> confirmed                 *)
(*     pending, failed --> rejected                                        *)
(*     any --> deleted                                                     *)
(*                                                                         *)
(* A confirmed candidate and its task, and a rejected candidate, are final *)
(* until the call is deleted.                                              *)
(***************************************************************************)
EXTENDS Naturals

CONSTANT Candidates

VARIABLES
    status,     \* "pending", "confirmed", "failed", "rejected" or "deleted"
    taskId      \* the Bitrix task of a confirmed candidate, else 0

vars == <<status, taskId>>

Open(c) == status[c] \in {"pending", "failed"}

Init ==
    /\ status = [c \in Candidates |-> "pending"]
    /\ taskId = [c \in Candidates |-> 0]

Become(c, s) == status' = [status EXCEPT ![c] = s]

Confirm(c) ==
    /\ Open(c)
    /\ Become(c, "confirmed")
    /\ taskId'[c] \in Nat \ {0}
    /\ taskId' = [taskId EXCEPT ![c] = taskId'[c]]

Fail(c) == Open(c) /\ Become(c, "failed") /\ UNCHANGED taskId

Reject(c) == Open(c) /\ Become(c, "rejected") /\ UNCHANGED taskId

Delete(c) ==
    /\ status[c] # "deleted"
    /\ Become(c, "deleted")
    /\ taskId' = [taskId EXCEPT ![c] = 0]

Next == \E c \in Candidates : Confirm(c) \/ Fail(c) \/ Reject(c) \/ Delete(c)

Spec == Init /\ [][Next]_vars
=============================================================================
