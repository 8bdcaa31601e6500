---------------------------- MODULE MCDeployment ----------------------------
(* Deployment on a small instance: script 1 is 0009_onpremise_task_method, which
   can be executed twice, 2 is 0010 and 3 is 0011. *)
EXTENDS Deployment
=============================================================================
