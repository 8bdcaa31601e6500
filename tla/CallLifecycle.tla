---------------------------- MODULE CallLifecycle ----------------------------
(***************************************************************************)
(* What the analysis queue promises: every call is analysed by one worker  *)
(* at a time, and what is analysed stays so.                               *)
(*                                                                         *)
(*     absent --> pending --> processing --> completed                     *)
(*                pending <-- processing --> failed --> pending            *)
(*     any --> absent                                                      *)
(*                                                                         *)
(* A worker that takes a pending call owns it: no one else completes it,   *)
(* fails it or puts it back.  Only a call whose owner was lost is put      *)
(* back.  A completed call is final until it is deleted.                   *)
(***************************************************************************)
CONSTANTS Calls, Workers

VARIABLES
    state,      \* "absent", "pending", "processing", "completed" or "failed"
    owners      \* who is analysing the call: nobody or one worker

vars == <<state, owners>>

Init ==
    /\ state = [c \in Calls |-> "absent"]
    /\ owners = [c \in Calls |-> {}]

Become(c, s, o) ==
    /\ state' = [state EXCEPT ![c] = s]
    /\ owners' = [owners EXCEPT ![c] = o]

BecomePending(S) ==
    /\ state' = [c \in Calls |-> IF c \in S THEN "pending" ELSE state[c]]
    /\ UNCHANGED owners

(* A sync brings new calls, a restart puts lost ones back, several at once. *)
Import(S) == (\A c \in S : state[c] = "absent") /\ BecomePending(S)
Recover(S) == (\A c \in S : state[c] = "processing" /\ owners[c] = {}) /\ BecomePending(S)

Take(c, w) ==
    /\ state[c] = "pending" /\ owners[c] = {}
    /\ \A d \in Calls : w \notin owners[d]
    /\ Become(c, "processing", {w})

Complete(c, w) == owners[c] = {w} /\ Become(c, "completed", {})
Fail(c, w)     == owners[c] = {w} /\ Become(c, "failed", {})
Lose(c, w)     == owners[c] = {w} /\ Become(c, state[c], {})

Retry(c)  == state[c] = "failed" /\ Become(c, "pending", {})
Delete(c) == state[c] # "absent" /\ Become(c, "absent", {})

Next ==
    \/ \E S \in SUBSET Calls : Import(S) \/ Recover(S)
    \/ \E c \in Calls, w \in Workers : Take(c, w) \/ Complete(c, w) \/ Fail(c, w) \/ Lose(c, w)
    \/ \E c \in Calls : Retry(c) \/ Delete(c)

Spec == Init /\ [][Next]_vars
=============================================================================
