----------------------------- MODULE MCDelivery -----------------------------
(* Delivery on a small instance.  Requests, and sessions, differ in nothing but
   their names.                                                              *)
EXTENDS Delivery, TLC

RequestSymmetry == Permutations(Requests) \cup Permutations(Sessions)
=============================================================================
