------------------------------ MODULE JobLifecycle ------------------------------
(***************************************************************************)
(* What k8s-bridge promises about a job, without saying how.  A job that   *)
(* is submitted to a managed partition waits; it is granted capacity that  *)
(* was claimed for this very submission; after that it is released; it     *)
(* does not wait again, and it does not run beside the capacity of another *)
(* submission of its ID.  A job of a partition that is not managed is      *)
(* neither granted capacity, nor released, nor held; anybody may end it,   *)
(* and the bridge does when its ID still has a dead JobSet of an earlier   *)
(* job.  With the opt-in mirror of priorities all this holds for a job     *)
(* until the mirror changes its hold, and again after its next release.    *)
(* SlurmBridge implements this.                                            *)
(***************************************************************************)
EXTENDS Naturals

CONSTANTS
  JobIDs,
  Mirror   \* the mirror of priorities is enabled

VARIABLES
  sub,    \* sub[j]: which submission of the ID j this is
  stage,  \* stage[j]: how far it has come
  claim   \* claim[j]: the submission whose capacity exists, 0: none

Stages == {"absent", "refused", "foreign", "waiting", "granted", "released", "running",
           "mirrored", "ended"}

LifeInit ==
  /\ sub = [j \in JobIDs |-> 0]
  /\ stage = [j \in JobIDs |-> "absent"]
  /\ claim = [j \in JobIDs |-> 0]

Become(j, s) == stage' = [stage EXCEPT ![j] = s]

\* Jobs of other partitions come held or free, and stay so until they end.
Arrives(j) ==
  /\ stage[j] = "absent"
  /\ sub' = [sub EXCEPT ![j] = sub[j] + 1]
  /\ \E s \in {"waiting", "refused", "foreign"} : Become(j, s)
  /\ UNCHANGED claim

\* Capacity is claimed for the newest submission, and given up at any time.
Claims(j) ==
  /\ claim[j] = 0 /\ sub[j] # 0
  /\ claim' = [claim EXCEPT ![j] = sub[j]]
  /\ UNCHANGED <<sub, stage>>

GivesUp(j) ==
  /\ claim[j] # 0
  /\ claim' = [claim EXCEPT ![j] = 0]
  /\ UNCHANGED <<sub, stage>>

Granted(j) ==
  /\ stage[j] = "waiting" /\ claim[j] = sub[j]
  /\ Become(j, "granted")
  /\ UNCHANGED <<sub, claim>>

IsReleased(j) ==
  /\ stage[j] \in {"granted", "mirrored"} /\ claim[j] \in {0, sub[j]}
  /\ Become(j, "released")
  /\ UNCHANGED <<sub, claim>>

\* Slurm starts a released job and may requeue it.
Runs(j) ==
  /\ \/ stage[j] = "released" /\ Become(j, "running")
     \/ stage[j] = "running" /\ Become(j, "released")
  /\ UNCHANGED <<sub, claim>>

\* A mirrored priority holds or frees a job, at whatever stage it is.
Mirrors(j) ==
  /\ Mirror
  /\ stage[j] \notin {"absent", "ended"}
  /\ Become(j, "mirrored")
  /\ UNCHANGED <<sub, claim>>

Ends(j) ==
  /\ stage[j] \notin {"absent", "ended"}
  /\ Become(j, "ended")
  /\ UNCHANGED <<sub, claim>>

Forgotten(j) ==
  /\ stage[j] = "ended"
  /\ Become(j, "absent")
  /\ UNCHANGED <<sub, claim>>

LifeNext ==
  \E j \in JobIDs :
    \/ Arrives(j) \/ Claims(j) \/ GivesUp(j) \/ Granted(j) \/ IsReleased(j)
    \/ Runs(j) \/ Mirrors(j) \/ Ends(j) \/ Forgotten(j)

LifeSpec == LifeInit /\ [][LifeNext]_<<sub, stage, claim>>

=============================================================================
