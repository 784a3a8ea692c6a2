---------------------------- MODULE MCRestoreJobs ----------------------------
(* Instances of RestoreJobs for TLC.  A model value stands for each job; no   *)
(* symmetry, since one of the properties is a liveness property.              *)
EXTENDS RestoreJobs
=============================================================================
