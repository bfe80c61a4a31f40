---------------------------- MODULE MCSlurmBridge ----------------------------
(***************************************************************************)
(* Instances of SlurmBridge for TLC: the sets of disturbances and the job  *)
(* IDs that the configurations name.                                       *)
(***************************************************************************)
EXTENDS SlurmBridge

OneJob  == {1}
TwoJobs == {1, 2}
Nobody  == {}
First   == {1}

Cancelling  == {"user-cancels"}
Endings     == {"jobset-dies", "user-cancels", "late-collection"}
\* All but the late collection of Workloads, which the theorems leave out too.
Everything  == {"evict", "jobset-dies", "operator-deletes", "user-cancels",
                "unmanaged", "mid-tick-reuse"}

=============================================================================
