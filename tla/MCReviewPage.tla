---------------------------- MODULE MCReviewPage ----------------------------
(* ReviewPage with one call in the queue and one to decide on. *)
EXTENDS ReviewPage, TLC

CONSTANTS c1, c2

MCFirst == {[row |-> c1 :> "queued" @@ c2 :> "completed", cand |-> c1 :> "none" @@ c2 :> "pending"]}
=============================================================================
