-------------------------- MODULE SlurmBridgeProofs --------------------------
(***************************************************************************)
(* Safety of SlurmBridge for every set of jobs and every bound, whatever   *)
(* disturbances happen and however far the informer cache lags behind, and *)
(* that it keeps the promise of JobLifecycle.                              *)
(***************************************************************************)
EXTENDS SlurmBridge, TLAPS

(* What the types are made of; a step cites the pieces it touches.          *)
USE DEF Exists, Found, Alive, HeldPending

\* The records the code writes are of the declared types.
LEMMA RecordTypes ==
  /\ NoJob \in JobRecord
  /\ NoJobSet \in JobSetRecord
  /\ NoWorkload \in WorkloadRecord
  /\ \A n \in Nat : [NoJob EXCEPT !.inc = n] \in JobRecord
  /\ \A n \in Nat : [NoJobSet EXCEPT !.inc = n] \in JobSetRecord
BY DEF NoJob, JobRecord, NoJobSet, JobSetRecord, NoWorkload, WorkloadRecord,
       WorkloadState

\* A function stays in its set when one value is replaced.
LEMMA PointUpdate ==
  ASSUME NEW S, NEW T, NEW f \in [S -> T], NEW x, NEW v, x \in S => v \in T
  PROVE  [f EXCEPT ![x] = v] \in [S -> T]
OBVIOUS

\* Replacing one field of a JobSet keeps its type ...
LEMMA JobSetUpdates ==
  ASSUME NEW f \in [JobIDs -> JobSetRecord], NEW j \in JobIDs
  PROVE  /\ [f EXCEPT ![j].cond = "dead"] \in [JobIDs -> JobSetRecord]
         /\ [f EXCEPT ![j].ret = "expired"] \in [JobIDs -> JobSetRecord]
<1>1. f[j] \in JobSetRecord
  OBVIOUS
<1>2. /\ [f[j] EXCEPT !.cond = "dead"] \in JobSetRecord
      /\ [f[j] EXCEPT !.ret = "expired"] \in JobSetRecord
  BY <1>1 DEF JobSetRecord
<1> QED
  BY <1>2, PointUpdate

\* ... and so does replacing fields of a Workload.
LEMMA WorkloadUpdates ==
  ASSUME NEW w \in [JobIDs -> WorkloadRecord], NEW j \in JobIDs,
         NEW st \in WorkloadState, NEW b \in BOOLEAN
  PROVE  /\ [w EXCEPT ![j].cur = st, ![j].boot = b] \in [JobIDs -> WorkloadRecord]
         /\ [w EXCEPT ![j].boot = b] \in [JobIDs -> WorkloadRecord]
<1>1. w[j] \in WorkloadRecord
  OBVIOUS
<1>2. /\ [w[j] EXCEPT !.cur = st, !.boot = b] \in WorkloadRecord
      /\ [w[j] EXCEPT !.boot = b] \in WorkloadRecord
  BY <1>1 DEF WorkloadRecord
<1> QED
  BY <1>2, PointUpdate

\* Lifting a hold keeps the type of the jobs' records and their submissions.
LEMMA Lifting ==
  ASSUME NEW f \in [JobIDs -> JobRecord], NEW j
  PROVE  LET g == [f EXCEPT ![j].held = FALSE, ![j].mirrored = FALSE]
         IN  /\ g \in [JobIDs -> JobRecord]
             /\ \A k \in JobIDs : g[k].inc = f[k].inc
<1> DEFINE g == [f EXCEPT ![j].held = FALSE, ![j].mirrored = FALSE]
<1>1. CASE j \in JobIDs
  <2> DEFINE v == [[f[j] EXCEPT !.held = FALSE] EXCEPT !.mirrored = FALSE]
  <2>1. f[j] \in JobRecord
    BY <1>1
  <2>2. v \in JobRecord /\ v.inc = f[j].inc
    BY <2>1 DEF JobRecord
  <2>3. g = [f EXCEPT ![j] = v]
    BY <1>1
  <2> HIDE DEF v, g
  <2>4. g \in [JobIDs -> JobRecord]
    BY <2>2, <2>3, PointUpdate
  <2>5. \A k \in JobIDs : g[k] = IF k = j THEN v ELSE f[k]
    BY <2>3
  <2>6. g \in [JobIDs -> JobRecord] /\ \A k \in JobIDs : g[k].inc = f[k].inc
    BY <2>2, <2>4, <2>5
  <2> QED
    BY <2>6 DEF g
<1>2. CASE j \notin JobIDs
  <2>1. g = f
    BY <1>2
  <2> QED
    BY <2>1
<1> QED
  BY <1>1, <1>2

\* What the steps do to a job's record keeps its type.
LEMMA JobTypes ==
  ASSUME TypeOK, NEW j,
         \/ job' = job
         \/ job' = [job EXCEPT ![j] = Pinned(job[j])]
         \/ job' = [job EXCEPT ![j].held = FALSE, ![j].mirrored = FALSE]
         \/ \E h \in BOOLEAN : job' = [job EXCEPT ![j] = Mirrored(job[j], h)]
         \/ \E c \in {"bridge", "unmanaged"} : job' = [job EXCEPT ![j].comment = c]
         \/ \E s \in {"pending", "running", "terminal"} : job' = [job EXCEPT ![j].st = s]
  PROVE  job' \in [JobIDs -> JobRecord]
<1>1. job \in [JobIDs -> JobRecord]
  BY DEF TypeOK
<1>2. CASE job' = [job EXCEPT ![j] = Pinned(job[j])]
  BY <1>1, <1>2 DEF Pinned, JobRecord
<1>3. CASE job' = [job EXCEPT ![j].held = FALSE, ![j].mirrored = FALSE]
  BY <1>1, <1>3, Lifting
<1>6. ASSUME NEW h \in BOOLEAN, job' = [job EXCEPT ![j] = Mirrored(job[j], h)]
      PROVE  job' \in [JobIDs -> JobRecord]
  <2>1. j \in JobIDs => Mirrored(job[j], h) \in JobRecord
    <3> SUFFICES ASSUME j \in JobIDs PROVE Mirrored(job[j], h) \in JobRecord
      OBVIOUS
    <3>1. job[j] \in JobRecord
      BY <1>1
    <3>2. (job[j].mirrored \/ job[j].held # h) \in BOOLEAN
      OBVIOUS
    <3> QED
      BY <3>1, <3>2 DEF Mirrored, JobRecord
  <2> QED
    BY <1>1, <1>6, <2>1, PointUpdate
<1>4. ASSUME NEW c \in {"bridge", "unmanaged"}, job' = [job EXCEPT ![j].comment = c]
      PROVE  job' \in [JobIDs -> JobRecord]
  BY <1>1, <1>4 DEF JobRecord
<1>5. ASSUME NEW s \in {"pending", "running", "terminal"}, job' = [job EXCEPT ![j].st = s]
      PROVE  job' \in [JobIDs -> JobRecord]
  BY <1>1, <1>5 DEF JobRecord
<1> QED
  BY <1>1, <1>2, <1>3, <1>4, <1>5, <1>6

\* The two updates that are sent as patches keep the type of a JobSet, and so does
\* what history adds to them.
LEMMA PatchedRecords ==
  ASSUME NEW s \in JobSetRecord
  PROVE  /\ Stamped(s) \in JobSetRecord
         /\ [s EXCEPT !.rel = TRUE] \in JobSetRecord
         /\ Patched(s) \in JobSetRecord
<1>1. Stamped(s) \in JobSetRecord /\ [s EXCEPT !.rel = TRUE] \in JobSetRecord
  BY DEF JobSetRecord, Stamped
<1>2. (s.blind \/ cur \in stale) \in BOOLEAN
  OBVIOUS
<1>3. Patched(s) \in JobSetRecord
  BY <1>2 DEF JobSetRecord, Patched
<1> QED
  BY <1>1, <1>3

\* A Patch of JobSet cur keeps the types when what it writes is a JobSet.
LEMMA PatchTypes ==
  ASSUME TypeOK, NEW v, PatchJobSet(v), cur \in JobIDs => v \in JobSetRecord
  PROVE  /\ js' \in [JobIDs -> JobSetRecord]
         /\ snapJS' \in [JobIDs -> JobSetRecord]
         /\ faults' \in Nat
<1> DEFINE p == Patched(v)
<1>1. /\ js' = [js EXCEPT ![cur] = p] \/ js' = js
      /\ snapJS' = [snapJS EXCEPT ![cur] = p] \/ snapJS' = snapJS
  BY Zenon DEF PatchJobSet
<1>2. faults' \in Nat
  BY DEF PatchJobSet, TypeOK, Succeeds, Fails, RefusedOrFails
<1>3. cur \in JobIDs => p \in JobSetRecord
  BY PatchedRecords
<1> HIDE DEF p
<1> QED
  BY <1>1, <1>2, <1>3, PointUpdate DEF TypeOK

\* The verdicts of cleanup are calls of cleanup.
LEMMA Verdicts ==
  ASSUME NEW r, NEW s, NEW w
  PROVE  /\ AfterNodes(s) \in {"inspect", "delete"}
         /\ NodesOrDelete(s) \in {"inspect", "delete", "nodes"}
         /\ MirrorStep(w) \in {"inspect", "sync"}
         /\ CleanupStep(r, s, w)
              \in {"inspect", "stamp", "explain", "drain", "delete", "nodes", "sync"}
BY DEF AfterNodes, NodesOrDelete, MirrorStep, CleanupStep

\* A failure uses up budget, and nothing else touches it.
LEMMA FaultBudget ==
  ASSUME TypeOK, NEW P \in BOOLEAN
  PROVE  /\ Fails => faults' \in Nat
         /\ Succeeds => faults' \in Nat
         /\ RefusedOrFails(P) => faults' \in Nat
BY DEF TypeOK, Fails, Succeeds, RefusedOrFails

\* A tick that ends leaves its locals well typed.
LEMMA ResetTypes ==
  ASSUME ResetTick
  PROVE  /\ pc' = "idle" /\ at' = "none" /\ cur' = 0
         /\ todo' = {} /\ checking' = {} /\ ready' = {} /\ failed' = FALSE
         /\ byID' \in [JobIDs -> JobRecord]
         /\ snapJS' \in [JobIDs -> JobSetRecord]
         /\ snapWL' \in [JobIDs -> WorkloadState]
         /\ stale' = {}
BY RecordTypes DEF ResetTick, WorkloadState

-----------------------------------------------------------------------------
(* Type correctness *)



\* Deleting a JobSet keeps the types.
LEMMA JobSetGoneTypes ==
  ASSUME TypeOK, NEW j, JobSetGone(j)
  PROVE  js' \in [JobIDs -> JobSetRecord] /\ wl' \in [JobIDs -> WorkloadRecord]
<1>1. js' \in [JobIDs -> JobSetRecord]
  BY RecordTypes DEF JobSetGone, TypeOK
<1>2. ASSUME NEW k \in JobIDs PROVE wl'[k] \in WorkloadRecord
  <2>1. wl[k] \in WorkloadRecord
    BY <1>2 DEF TypeOK
  <2>2. CASE k = j
    BY <1>2, <2>1, <2>2 DEF JobSetGone, TypeOK, NoWorkload, WorkloadRecord, WorkloadState
  <2>3. CASE k # j
    BY <1>2, <2>1, <2>3 DEF JobSetGone, TypeOK
  <2> QED
    BY <2>2, <2>3
<1> QED
  BY <1>1, <1>2 DEF JobSetGone, TypeOK

\* The initial state is well typed.
LEMMA TypeInit == Init => TypeOK
<1> SUFFICES ASSUME Init PROVE TypeOK
  OBVIOUS
<1>1. "none" \in WorkloadState
  BY DEF WorkloadState
<1>2. MaxFaults \in Nat /\ 0 \in Nat
  BY ConstantsOK DEF ConstantsOK
<1> QED
  BY <1>1, <1>2, RecordTypes DEF Init, TypeOK

\* A tick's steps keep the types.
LEMMA TypeBridge == TypeOK /\ BridgeStep => TypeOK'
<1> SUFFICES ASSUME TypeOK, BridgeStep PROVE TypeOK'
  OBVIOUS
<1> USE DEF slurmVars, kubeVars, TypeOK
<1>1. CASE ListJobs
  BY <1>1 DEF ListJobs
<1>2. CASE ListingFails
  BY <1>2, ResetTypes, FaultBudget DEF ListingFails
<1>3. CASE TakeSnapshot
  <2>1. [j \in JobIDs |-> Cached(j)] \in [JobIDs -> JobSetRecord]
    BY DEF Cached
  <2> QED
    BY <1>3, <2>1 DEF TakeSnapshot
<1>4. CASE StartAdmission
  BY <1>4 DEF StartAdmission, ToAdmit
<1>5. CASE EndAdmission
  <2>1. CASE failed
    BY <1>5, <2>1, ResetTypes DEF EndAdmission
  <2>2. CASE ~failed
    BY <1>5, <2>2 DEF EndAdmission
  <2> QED
    BY <2>1, <2>2
<1>6. CASE StampRetention
  <2>1. cur \in JobIDs => Stamped(js[cur]) \in JobSetRecord
    BY PatchedRecords, Zenon
  <2>2. PatchJobSet(Stamped(js[cur]))
    BY <1>6 DEF StampRetention
  <2> QED
    BY <1>6, <2>1, <2>2, PatchTypes DEF StampRetention
<1>7. CASE ExplainFailure
  <2>1. job' \in [JobIDs -> JobRecord]
    BY <1>7, JobTypes DEF ExplainFailure
  <2>2. faults' \in Nat
    BY <1>7, FaultBudget DEF ExplainFailure
  <2> QED
    BY <1>7, <2>1, <2>2 DEF ExplainFailure
<1>8. CASE FailJob
  <2>1. job' \in [JobIDs -> JobRecord]
    BY <1>8, JobTypes DEF FailJob
  <2>2. at' \in {"inspect", "delete", "nodes"}
    BY <1>8, Verdicts DEF FailJob, AfterFailedCancel
  <2>3. faults' \in Nat
    BY <1>8, FaultBudget DEF FailJob
  <2> QED
    BY <1>8, <2>1, <2>2, <2>3 DEF FailJob
<1>9. CASE ReleaseNodes
  <2>1. node' \in [JobIDs -> Nat]
    BY <1>9, PointUpdate, 0 \in Nat DEF ReleaseNodes
  <2>2. at' \in {"mark", "inspect", "delete"}
    BY <1>9, Verdicts DEF ReleaseNodes
  <2>3. faults' \in Nat
    BY <1>9, FaultBudget DEF ReleaseNodes
  <2> QED
    BY <1>9, <2>1, <2>2, <2>3 DEF ReleaseNodes
<1>10. CASE MarkNodesReleased
  <2>1. cur \in JobIDs => [js[cur] EXCEPT !.rel = TRUE] \in JobSetRecord
    BY PatchedRecords, Zenon
  <2>2. PatchJobSet([js[cur] EXCEPT !.rel = TRUE])
    BY <1>10 DEF MarkNodesReleased
  <2>3. at' \in {"inspect", "delete"}
    BY <1>10, Verdicts DEF MarkNodesReleased
  <2> QED
    BY <1>10, <2>1, <2>2, <2>3, PatchTypes DEF MarkNodesReleased
<1>11. CASE DeleteJobSet
  <2>1. js' \in [JobIDs -> JobSetRecord] /\ wl' \in [JobIDs -> WorkloadRecord]
    BY <1>11, JobSetGoneTypes DEF DeleteJobSet
  <2>2. faults' \in Nat
    BY <1>11, FaultBudget DEF DeleteJobSet
  <2> QED
    BY <1>11, <2>1, <2>2 DEF DeleteJobSet
<1>12. CASE DrainNodes
  <2>1. job' \in [JobIDs -> JobRecord]
    BY <1>12, JobTypes DEF DrainNodes
  <2>2. node' \in [JobIDs -> Nat]
    BY <1>12, PointUpdate, 0 \in Nat DEF DrainNodes
  <2>3. faults' \in Nat
    BY <1>12, FaultBudget DEF DrainNodes
  <2>4. at' \in {"inspect", "sync"}
    BY <1>12, Verdicts DEF DrainNodes
  <2> QED
    BY <1>12, <2>1, <2>2, <2>3, <2>4 DEF DrainNodes
<1>21. CASE SyncPriority
  <2>1. job' \in [JobIDs -> JobRecord]
    BY <1>21, JobTypes DEF SyncPriority
  <2> QED
    BY <1>21, <2>1 DEF SyncPriority
<1>13. CASE EndTick
  BY <1>13, ResetTypes DEF EndTick
<1>14. ASSUME NEW j \in JobIDs, SignalUnmanaged(j) PROVE TypeOK'
  <2>1. job' \in [JobIDs -> JobRecord]
    BY <1>14, JobTypes DEF SignalUnmanaged
  <2>2. faults' \in Nat
    BY <1>14, FaultBudget DEF SignalUnmanaged
  <2> QED
    BY <1>14, <2>1, <2>2 DEF SignalUnmanaged
<1>15. ASSUME NEW j \in JobIDs, CreateJobSet(j) PROVE TypeOK'
  <2>1. byID[j].inc \in Nat
    BY DEF JobRecord
  <2>2. js' \in [JobIDs -> JobSetRecord]
    BY <1>15, <2>1, RecordTypes, PointUpdate DEF CreateJobSet
  <2>3. checking' \subseteq JobIDs /\ ready' \subseteq JobIDs /\ failed' \in BOOLEAN
    BY <1>15 DEF CreateJobSet
  <2>4. faults' \in Nat
    BY <1>15 DEF CreateJobSet, Succeeds, Fails, RefusedOrFails
  <2> QED
    BY <1>15, <2>2, <2>3, <2>4 DEF CreateJobSet
<1>16. ASSUME NEW j \in JobIDs, GetExisting(j) PROVE TypeOK'
  <2>1. ready' \subseteq JobIDs /\ failed' \in BOOLEAN
    BY <1>16 DEF GetExisting
  <2>2. faults' \in Nat
    BY <1>16, FaultBudget DEF GetExisting
  <2> QED
    BY <1>16, <2>1, <2>2 DEF GetExisting
<1>17. ASSUME NEW j \in JobIDs, PropagateStatus(j) PROVE TypeOK'
  <2>1. job' \in [JobIDs -> JobRecord]
    BY <1>17, JobTypes DEF PropagateStatus
  <2>2. at' \in {"pin", "status"} /\ todo' \subseteq JobIDs
    BY <1>17 DEF PropagateStatus, NextJob
  <2>3. faults' \in Nat
    BY <1>17, FaultBudget DEF PropagateStatus
  <2> QED
    BY <1>17, <2>1, <2>2, <2>3 DEF PropagateStatus
<1>18. ASSUME NEW j \in JobIDs, Pin(j) PROVE TypeOK'
  <2>1. job' \in [JobIDs -> JobRecord]
    BY <1>18, JobTypes DEF Pin
  <2>2. at' \in {"release", "status"} /\ todo' \subseteq JobIDs
    BY <1>18 DEF Pin, NextJob
  <2>3. faults' \in Nat
    BY <1>18, FaultBudget DEF Pin
  <2> QED
    BY <1>18, <2>1, <2>2, <2>3 DEF Pin
<1>19. ASSUME NEW j \in JobIDs, Release(j) PROVE TypeOK'
  <2>1. job' \in [JobIDs -> JobRecord]
    BY <1>19, JobTypes DEF Release
  <2>2. faults' \in Nat
    BY <1>19, FaultBudget DEF Release
  <2> QED
    BY <1>19, <2>1, <2>2 DEF Release, NextJob
<1>20. ASSUME NEW j \in JobIDs, InspectJob(j) PROVE TypeOK'
  <2>1. byID' \in [JobIDs -> JobRecord] /\ cur' \in JobIDs \cup {0} /\ failed' \in BOOLEAN
    BY <1>20, PointUpdate DEF InspectJob
  <2>2. at' \in {"inspect", "stamp", "explain", "drain", "delete", "nodes", "sync"}
    BY <1>20, Verdicts DEF InspectJob
  <2>3. faults' \in Nat
    BY <1>20, FaultBudget DEF InspectJob
  <2> QED
    BY <1>20, <2>1, <2>2, <2>3 DEF InspectJob
<1> QED
  BY <1>1, <1>2, <1>3, <1>4, <1>5, <1>6, <1>7, <1>8, <1>9, <1>10, <1>11, <1>12,
     <1>13, <1>14, <1>15, <1>16, <1>17, <1>18, <1>19, <1>20, <1>21 DEF BridgeStep

\* So do the steps of Slurm and its users.
LEMMA TypeSlurm == TypeOK /\ (\E j \in JobIDs : SlurmStep(j)) => TypeOK'
<1> SUFFICES ASSUME TypeOK, NEW j \in JobIDs, SlurmStep(j) PROVE TypeOK'
  OBVIOUS
<1> USE DEF slurmVars, kubeVars, tickVars, TypeOK
<1>1. CASE Submit(j)
  <2>1. job[j].inc \in Nat
    BY DEF JobRecord
  <2>2. PICK held \in BOOLEAN, mapped \in BOOLEAN :
          job' = [job EXCEPT ![j] =
                    [inc |-> job[j].inc + 1, st |-> "pending", held |-> held,
                     pinned |-> FALSE, mapped |-> mapped, comment |-> "fresh",
                     mirrored |-> FALSE]]
    BY <1>1 DEF Submit
  <2>3. [inc |-> job[j].inc + 1, st |-> "pending", held |-> held,
         pinned |-> FALSE, mapped |-> mapped, comment |-> "fresh",
         mirrored |-> FALSE] \in JobRecord
    BY <2>1 DEF JobRecord
  <2>4. job' \in [JobIDs -> JobRecord]
    BY <2>2, <2>3, PointUpdate
  <2> QED
    BY <1>1, <2>4 DEF Submit
<1>2. CASE StartJob(j)
  <2>1. job' \in [JobIDs -> JobRecord]
    BY <1>2, JobTypes DEF StartJob, SetState
  <2> QED
    BY <1>2, <2>1 DEF StartJob
<1>3. CASE RequeueJob(j)
  <2>1. job' \in [JobIDs -> JobRecord]
    BY <1>3, JobTypes DEF RequeueJob, SetState
  <2> QED
    BY <1>3, <2>1 DEF RequeueJob
<1>4. CASE FinishJob(j)
  <2>1. job' \in [JobIDs -> JobRecord]
    BY <1>4, JobTypes DEF FinishJob, SetState
  <2> QED
    BY <1>4, <2>1 DEF FinishJob
<1>5. CASE UserCancels(j)
  <2>1. job' \in [JobIDs -> JobRecord]
    BY <1>5, JobTypes DEF UserCancels, SetState
  <2> QED
    BY <1>5, <2>1 DEF UserCancels
<1>6. CASE Purge(j)
  <2>1. [NoJob EXCEPT !.inc = job[j].inc] \in JobRecord
    BY RecordTypes DEF JobRecord
  <2>2. job' \in [JobIDs -> JobRecord] /\ node' \in [JobIDs -> Nat]
    BY <1>6, <2>1, PointUpdate, 0 \in Nat DEF Purge
  <2> QED
    BY <1>6, <2>2 DEF Purge
<1> QED
  BY <1>1, <1>2, <1>3, <1>4, <1>5, <1>6 DEF SlurmStep

\* And those of the cluster, of its operators and of the informer.
LEMMA TypeKube ==
  TypeOK /\ (\E j \in JobIDs : KubeProgress(j) \/ KubeDisturbance(j)) => TypeOK'
<1> SUFFICES ASSUME TypeOK, NEW j \in JobIDs, KubeProgress(j) \/ KubeDisturbance(j)
             PROVE  TypeOK'
  OBVIOUS
<1> USE DEF slurmVars, kubeVars, tickVars, TypeOK
<1>1. CASE KueueQueues(j)
  <2>1. wl' \in [JobIDs -> WorkloadRecord]
    BY <1>1 DEF KueueQueues, WorkloadRecord, WorkloadState
  <2> QED
    BY <1>1, <2>1 DEF KueueQueues
<1>2. CASE KueueAdmits(j)
  <2>1. js[j].inc \in Nat
    BY DEF JobSetRecord
  <2>2. wl' \in [JobIDs -> WorkloadRecord] /\ granted' \in [JobIDs -> Nat]
    BY <1>2, <2>1, WorkloadUpdates, PointUpdate DEF KueueAdmits, WorkloadState
  <2> QED
    BY <1>2, <2>2 DEF KueueAdmits
<1>3. CASE CollectWorkload(j)
  <2>1. wl' \in [JobIDs -> WorkloadRecord]
    BY <1>3 DEF CollectWorkload, WorkloadRecord, WorkloadState
  <2> QED
    BY <1>3, <2>1 DEF CollectWorkload
<1>4. CASE RegisterNode(j)
  <2>1. js[j].inc \in Nat
    BY DEF JobSetRecord
  <2>2. wl' \in [JobIDs -> WorkloadRecord] /\ node' \in [JobIDs -> Nat]
    BY <1>4, <2>1, WorkloadUpdates, PointUpdate DEF RegisterNode, WorkloadState
  <2> QED
    BY <1>4, <2>2 DEF RegisterNode
<1>5. CASE ExpireRetention(j)
  <2>1. /\ js' = js \/ js' = [js EXCEPT ![j].ret = "expired"]
        /\ cache' = cache \/ cache' = [cache EXCEPT ![j].ret = "expired"]
        /\ snapJS' = snapJS \/ snapJS' = [snapJS EXCEPT ![j].ret = "expired"]
    BY <1>5 DEF ExpireRetention
  <2>2. \A f \in [JobIDs -> JobSetRecord] :
          [f EXCEPT ![j].ret = "expired"] \in [JobIDs -> JobSetRecord]
    BY JobSetUpdates
  <2>3. /\ js' \in [JobIDs -> JobSetRecord]
        /\ cache' \in [JobIDs -> JobSetRecord]
        /\ snapJS' \in [JobIDs -> JobSetRecord]
    BY <2>1, <2>2
  <2> QED
    BY <1>5, <2>3 DEF ExpireRetention
<1>6. CASE CacheSync(j)
  <2>1. cache' \in [JobIDs -> JobSetRecord]
    BY <1>6, PointUpdate DEF CacheSync
  <2> QED
    BY <1>6, <2>1 DEF CacheSync
<1>7. CASE KueueEvicts(j)
  <2>1. wl' \in [JobIDs -> WorkloadRecord]
    BY <1>7, WorkloadUpdates DEF KueueEvicts, WorkloadState
  <2> QED
    BY <1>7, <2>1 DEF KueueEvicts
<1>8. CASE JobSetDies(j)
  <2>1. js' \in [JobIDs -> JobSetRecord]
    BY <1>8, JobSetUpdates DEF JobSetDies
  <2>2. wl' \in [JobIDs -> WorkloadRecord]
    BY <1>8, WorkloadUpdates DEF JobSetDies, WorkloadState
  <2> QED
    BY <1>8, <2>1, <2>2 DEF JobSetDies
<1>9. CASE OperatorDeletes(j)
  <2>1. js' \in [JobIDs -> JobSetRecord] /\ wl' \in [JobIDs -> WorkloadRecord]
    BY <1>9, JobSetGoneTypes DEF OperatorDeletes
  <2> QED
    BY <1>9, <2>1 DEF OperatorDeletes
<1> QED
  BY <1>1, <1>2, <1>3, <1>4, <1>5, <1>6, <1>7, <1>8, <1>9
     DEF KubeProgress, KubeDisturbance

\* And a restart of the bridge.
LEMMA TypeCrash == TypeOK /\ Crash => TypeOK'
<1> SUFFICES ASSUME TypeOK, Crash PROVE TypeOK'
  OBVIOUS
<1>1. cache' \in [JobIDs -> JobSetRecord]
  BY DEF Crash, TypeOK
<1>2. faults' \in Nat
  BY FaultBudget DEF Crash
<1> QED
  BY <1>1, <1>2, ResetTypes DEF Crash, TypeOK, slurmVars, kubeVars

\* Every step of the specification keeps the types.
LEMMA TypeNext == TypeOK /\ [Next]_vars => TypeOK'
<1>1. CASE UNCHANGED vars
  BY <1>1 DEF vars, slurmVars, kubeVars, tickVars, TypeOK
<1> QED
  BY <1>1, TypeBridge, TypeSlurm, TypeKube, TypeCrash DEF Next

\* Type correctness of the bridge, of Slurm and of the cluster.
THEOREM TypeCorrect == Spec => []TypeOK
BY TypeInit, TypeNext, PTL DEF Spec

-----------------------------------------------------------------------------
(* No runaway job.  The release is sent only from the place behind a pin     *)
(* that was acknowledged (PinnedFirst).  Between the two the job cannot be   *)
(* replaced by another submission of its ID, because phase 2 works only on   *)
(* jobs that this tick listed (ListedOnly) and such an ID is not reused.     *)

ListedOnly ==
  /\ pc = "idle" => checking = {} /\ ready = {}
  /\ \A j \in checking \cup ready : Found(byID[j])
  /\ pc \in {"create", "admit"} => \A j \in todo : Found(byID[j])

PinnedFirst ==
  pc = "admit" /\ at = "release" =>
    \A j \in JobIDs : IsNext(j) /\ Alive(job[j]) => job[j].pinned

RunawayInv == TypeOK /\ ListedOnly /\ PinnedFirst /\ NoRunawayJob

\* A step that makes no job alive, unpins none and changes no hold, but where the
\* priority mirror does.
SameHold(r, q) == (q.held = r.held /\ q.mirrored = r.mirrored) \/ q.mirrored

Harmless ==
  \A k \in JobIDs :
    Alive(job'[k]) => /\ Alive(job[k])
                      /\ job[k].pinned => job'[k].pinned
                      /\ job'[k].mapped = job[k].mapped
                      /\ SameHold(job[k], job'[k])

\* Such a step releases nobody.
LEMMA HarmlessStep ==
  ASSUME RunawayInv, Harmless
  PROVE  /\ NoRunawayJob'
         /\ UNCHANGED <<pc, at, todo>> => PinnedFirst'
BY DEF RunawayInv, PinnedFirst, NoRunawayJob, Released, Harmless, SameHold, IsNext, Alive

\* An update of one job that keeps its hold, its pin and its partition, and
\* revives no job, is harmless.
LEMMA HarmlessUpdate ==
  ASSUME TypeOK, NEW j \in JobIDs, NEW r,
         job' = [job EXCEPT ![j] = r],
         Alive(r) => /\ Alive(job[j])
                     /\ job[j].pinned => r.pinned
                     /\ r.mapped = job[j].mapped
                     /\ SameHold(job[j], r)
  PROVE  Harmless
<1> SUFFICES ASSUME NEW k \in JobIDs, Alive(job'[k])
             PROVE  /\ Alive(job[k])
                    /\ job[k].pinned => job'[k].pinned
                    /\ job'[k].mapped = job[k].mapped
                    /\ SameHold(job[k], job'[k])
  BY DEF Harmless
<1>1. CASE k = j
  <2>1. job'[j] = r
    BY DEF TypeOK
  <2> QED
    BY <1>1, <2>1
<1>2. CASE k # j
  <2>1. job'[k] = job[k]
    BY <1>2 DEF TypeOK
  <2> QED
    BY <2>1 DEF SameHold
<1> QED
  BY <1>1, <1>2

\* Writing a comment is harmless.
LEMMA HarmlessComment ==
  ASSUME TypeOK, NEW j, NEW c, job' = [job EXCEPT ![j].comment = c]
  PROVE  Harmless
<1>1. CASE j \in JobIDs
  <2> DEFINE r == [job[j] EXCEPT !.comment = c]
  <2>1. job[j] \in JobRecord
    BY <1>1 DEF TypeOK
  <2>2. /\ r.st = job[j].st /\ r.pinned = job[j].pinned
        /\ r.mapped = job[j].mapped /\ SameHold(job[j], r)
    BY <2>1 DEF JobRecord, SameHold
  <2>3. job' = [job EXCEPT ![j] = r]
    OBVIOUS
  <2> HIDE DEF r
  <2> QED
    BY <1>1, <2>2, <2>3, HarmlessUpdate
<1>2. CASE j \notin JobIDs
  <2>1. \A k \in JobIDs : job'[k] = job[k]
    BY <1>2 DEF TypeOK
  <2> QED
    BY <2>1 DEF Harmless, SameHold
<1> QED
  BY <1>1, <1>2

\* So is a change of state of a job that is alive, and the end of any job.
LEMMA HarmlessState ==
  ASSUME TypeOK, NEW j, NEW s \in {"pending", "running", "terminal"},
         Alive(job[j]) \/ s = "terminal",
         job' = [job EXCEPT ![j].st = s]
  PROVE  Harmless
<1>1. CASE j \in JobIDs
  <2> DEFINE r == [job[j] EXCEPT !.st = s]
  <2>1. job[j] \in JobRecord
    BY <1>1 DEF TypeOK
  <2>2. /\ r.st = s /\ r.pinned = job[j].pinned
        /\ r.mapped = job[j].mapped /\ SameHold(job[j], r)
    BY <2>1 DEF JobRecord, SameHold
  <2>3. job' = [job EXCEPT ![j] = r]
    OBVIOUS
  <2> HIDE DEF r
  <2> QED
    BY <1>1, <2>2, <2>3, HarmlessUpdate
<1>2. CASE j \notin JobIDs
  <2>1. \A k \in JobIDs : job'[k] = job[k]
    BY <1>2 DEF TypeOK
  <2> QED
    BY <2>1 DEF Harmless, SameHold
<1> QED
  BY <1>1, <1>2

\* And leaving the jobs alone.
LEMMA HarmlessNothing == UNCHANGED job => Harmless
BY DEF Harmless, SameHold

\* And whatever the priority mirror does to the hold of a job.
LEMMA HarmlessMirror ==
  ASSUME TypeOK, NEW j, NEW h \in BOOLEAN, Alive(job[j]),
         job' = [job EXCEPT ![j] = Mirrored(job[j], h)]
  PROVE  Harmless
<1>1. CASE j \in JobIDs
  <2>1. job[j] \in JobRecord
    BY <1>1 DEF TypeOK
  <2>2. LET r == Mirrored(job[j], h)
        IN  /\ r.pinned = job[j].pinned /\ r.mapped = job[j].mapped
            /\ SameHold(job[j], r)
    BY <2>1 DEF Mirrored, SameHold, JobRecord
  <2> QED
    BY <1>1, <2>2, HarmlessUpdate
<1>2. CASE j \notin JobIDs
  <2>1. \A k \in JobIDs : job'[k] = job[k]
    BY <1>2 DEF TypeOK
  <2> QED
    BY <2>1 DEF Harmless, SameHold
<1> QED
  BY <1>1, <1>2

\* At the release of a job, and only there, the invariant meets a decision.
LEMMA NotReleasing == ~(pc' = "admit" /\ at' = "release") => PinnedFirst'
BY DEF PinnedFirst

\* The invariant holds initially.
LEMMA RunawayInit == Init => RunawayInv
<1> SUFFICES ASSUME Init PROVE RunawayInv
  OBVIOUS
<1>1. TypeOK
  BY TypeInit
<1> QED
  BY <1>1 DEF Init, RunawayInv, ListedOnly, PinnedFirst, NoRunawayJob, Released, NoJob

\* Every step of a tick preserves it.
LEMMA RunawayBridge == RunawayInv /\ BridgeStep => RunawayInv'
<1> SUFFICES ASSUME RunawayInv, BridgeStep PROVE ListedOnly' /\ PinnedFirst' /\ NoRunawayJob'
  BY TypeBridge DEF RunawayInv
<1> USE DEF RunawayInv, TypeOK
<1>1. CASE ListJobs
  <2>1. ListedOnly'
    BY <1>1 DEF ListJobs, ListedOnly
  <2>2. PinnedFirst'
    BY <1>1, NotReleasing DEF ListJobs
  <2>3. Harmless
    BY <1>1, HarmlessNothing DEF ListJobs, slurmVars
  <2> QED
    BY <2>1, <2>2, <2>3, HarmlessStep
<1>2. CASE ListingFails
  <2>1. ListedOnly'
    BY <1>2, ResetTypes DEF ListingFails, ListedOnly
  <2>2. PinnedFirst'
    BY <1>2, ResetTypes, NotReleasing DEF ListingFails
  <2>3. Harmless
    BY <1>2, HarmlessNothing DEF ListingFails, slurmVars
  <2> QED
    BY <2>1, <2>2, <2>3, HarmlessStep
<1>3. CASE TakeSnapshot
  <2>1. ListedOnly'
    BY <1>3 DEF TakeSnapshot, ListedOnly, InScope
  <2>2. PinnedFirst'
    BY <1>3, NotReleasing DEF TakeSnapshot
  <2>3. Harmless
    BY <1>3, HarmlessNothing DEF TakeSnapshot, slurmVars
  <2> QED
    BY <2>1, <2>2, <2>3, HarmlessStep
<1>4. CASE StartAdmission
  <2>1. ListedOnly'
    BY <1>4 DEF StartAdmission, ListedOnly, ToAdmit
  <2>2. PinnedFirst'
    BY <1>4, NotReleasing DEF StartAdmission
  <2>3. Harmless
    BY <1>4, HarmlessNothing DEF StartAdmission, slurmVars
  <2> QED
    BY <2>1, <2>2, <2>3, HarmlessStep
<1>5. CASE EndAdmission
  <2>1. ListedOnly'
    BY <1>5, ResetTypes DEF EndAdmission, ListedOnly
  <2>2. PinnedFirst'
    BY <1>5, ResetTypes, NotReleasing DEF EndAdmission
  <2>3. Harmless
    BY <1>5, HarmlessNothing DEF EndAdmission, slurmVars
  <2> QED
    BY <2>1, <2>2, <2>3, HarmlessStep
<1>6. CASE StampRetention
  <2>1. ListedOnly'
    BY <1>6 DEF StampRetention, ListedOnly
  <2>2. PinnedFirst'
    BY <1>6, NotReleasing DEF StampRetention
  <2>3. Harmless
    BY <1>6, HarmlessNothing DEF StampRetention, slurmVars
  <2> QED
    BY <2>1, <2>2, <2>3, HarmlessStep
<1>7. CASE ExplainFailure
  <2>1. ListedOnly'
    BY <1>7 DEF ExplainFailure, ListedOnly
  <2>2. PinnedFirst'
    BY <1>7, NotReleasing DEF ExplainFailure
  <2>3. Harmless
    <3>1. UNCHANGED job \/ job' = [job EXCEPT ![cur].comment = "bridge"]
      BY <1>7 DEF ExplainFailure
    <3> QED
      BY <3>1, HarmlessNothing, HarmlessComment
  <2> QED
    BY <2>1, <2>2, <2>3, HarmlessStep
<1>8. CASE FailJob
  <2>1. ListedOnly'
    BY <1>8 DEF FailJob, ListedOnly
  <2>2. PinnedFirst'
    BY <1>8, NotReleasing DEF FailJob
  <2>3. Harmless
    <3>1. UNCHANGED job \/ job' = [job EXCEPT ![cur].st = "terminal"]
      BY <1>8 DEF FailJob
    <3> QED
      BY <3>1, HarmlessNothing, HarmlessState
  <2> QED
    BY <2>1, <2>2, <2>3, HarmlessStep
<1>9. CASE ReleaseNodes
  <2>1. ListedOnly'
    BY <1>9 DEF ReleaseNodes, ListedOnly
  <2>2. PinnedFirst'
    BY <1>9, NotReleasing DEF ReleaseNodes
  <2>3. Harmless
    BY <1>9, HarmlessNothing DEF ReleaseNodes
  <2> QED
    BY <2>1, <2>2, <2>3, HarmlessStep
<1>10. CASE MarkNodesReleased
  <2>1. ListedOnly'
    BY <1>10 DEF MarkNodesReleased, ListedOnly
  <2>2. PinnedFirst'
    BY <1>10, NotReleasing DEF MarkNodesReleased
  <2>3. Harmless
    BY <1>10, HarmlessNothing DEF MarkNodesReleased, slurmVars
  <2> QED
    BY <2>1, <2>2, <2>3, HarmlessStep
<1>11. CASE DeleteJobSet
  <2>1. ListedOnly'
    BY <1>11 DEF DeleteJobSet, ListedOnly
  <2>2. PinnedFirst'
    BY <1>11, NotReleasing DEF DeleteJobSet
  <2>3. Harmless
    BY <1>11, HarmlessNothing DEF DeleteJobSet, slurmVars
  <2> QED
    BY <2>1, <2>2, <2>3, HarmlessStep
<1>12. CASE DrainNodes
  <2>1. ListedOnly'
    BY <1>12 DEF DrainNodes, ListedOnly
  <2>2. PinnedFirst'
    BY <1>12, NotReleasing DEF DrainNodes
  <2>3. Harmless
    <3>1. \/ UNCHANGED job
          \/ job[cur].st = "running" /\ job' = [job EXCEPT ![cur].st = "pending"]
      BY <1>12 DEF DrainNodes, slurmVars
    <3> QED
      BY <3>1, HarmlessNothing, HarmlessState
  <2> QED
    BY <2>1, <2>2, <2>3, HarmlessStep
<1>21. CASE SyncPriority
  <2>1. ListedOnly'
    BY <1>21 DEF SyncPriority, ListedOnly
  <2>2. PinnedFirst'
    BY <1>21, NotReleasing DEF SyncPriority
  <2>3. Harmless
    <3>1. \/ UNCHANGED job
          \/ Alive(job[cur]) /\ \E h \in BOOLEAN : job' = [job EXCEPT ![cur] = Mirrored(job[cur], h)]
      BY <1>21 DEF SyncPriority
    <3> QED
      BY <3>1, HarmlessNothing, HarmlessMirror
  <2> QED
    BY <2>1, <2>2, <2>3, HarmlessStep
<1>13. CASE EndTick
  <2>1. ListedOnly'
    BY <1>13, ResetTypes DEF EndTick, ListedOnly
  <2>2. PinnedFirst'
    BY <1>13, ResetTypes, NotReleasing DEF EndTick
  <2>3. Harmless
    BY <1>13, HarmlessNothing DEF EndTick, slurmVars
  <2> QED
    BY <2>1, <2>2, <2>3, HarmlessStep
<1>14. ASSUME NEW j \in JobIDs, SignalUnmanaged(j)
       PROVE  ListedOnly' /\ PinnedFirst' /\ NoRunawayJob'
  <2>1. ListedOnly'
    BY <1>14 DEF SignalUnmanaged, ListedOnly
  <2>2. PinnedFirst'
    BY <1>14, NotReleasing DEF SignalUnmanaged
  <2>3. Harmless
    <3>1. UNCHANGED job \/ job' = [job EXCEPT ![j].comment = "unmanaged"]
      BY <1>14 DEF SignalUnmanaged
    <3> QED
      BY <3>1, HarmlessNothing, HarmlessComment
  <2> QED
    BY <2>1, <2>2, <2>3, HarmlessStep
<1>15. ASSUME NEW j \in JobIDs, CreateJobSet(j)
       PROVE  ListedOnly' /\ PinnedFirst' /\ NoRunawayJob'
  <2>1. ListedOnly'
    BY <1>15 DEF CreateJobSet, ListedOnly
  <2>2. PinnedFirst'
    BY <1>15, NotReleasing DEF CreateJobSet
  <2>3. Harmless
    BY <1>15, HarmlessNothing DEF CreateJobSet, slurmVars
  <2> QED
    BY <2>1, <2>2, <2>3, HarmlessStep
<1>16. ASSUME NEW j \in JobIDs, GetExisting(j)
       PROVE  ListedOnly' /\ PinnedFirst' /\ NoRunawayJob'
  <2>1. ListedOnly'
    BY <1>16 DEF GetExisting, ListedOnly
  <2>2. PinnedFirst'
    BY <1>16, NotReleasing DEF GetExisting
  <2>3. Harmless
    BY <1>16, HarmlessNothing DEF GetExisting, slurmVars
  <2> QED
    BY <2>1, <2>2, <2>3, HarmlessStep
<1>17. ASSUME NEW j \in JobIDs, PropagateStatus(j)
       PROVE  ListedOnly' /\ PinnedFirst' /\ NoRunawayJob'
  <2>1. ListedOnly'
    BY <1>17 DEF PropagateStatus, ListedOnly, NextJob
  <2>2. PinnedFirst'
    BY <1>17, NotReleasing DEF PropagateStatus, NextJob
  <2>3. Harmless
    <3>1. UNCHANGED job \/ job' = [job EXCEPT ![j].comment = "bridge"]
      BY <1>17 DEF PropagateStatus
    <3> QED
      BY <3>1, HarmlessNothing, HarmlessComment
  <2> QED
    BY <2>1, <2>2, <2>3, HarmlessStep
<1>18. ASSUME NEW j \in JobIDs, InspectJob(j)
       PROVE  ListedOnly' /\ PinnedFirst' /\ NoRunawayJob'
  <2>1. ListedOnly'
    BY <1>18 DEF InspectJob, ListedOnly
  <2>2. PinnedFirst'
    BY <1>18, NotReleasing DEF InspectJob
  <2>3. Harmless
    BY <1>18, HarmlessNothing DEF InspectJob, slurmVars
  <2> QED
    BY <2>1, <2>2, <2>3, HarmlessStep
<1>19. ASSUME NEW j \in JobIDs, Pin(j)
       PROVE  ListedOnly' /\ PinnedFirst' /\ NoRunawayJob'
  <2>1. ListedOnly'
    BY <1>19 DEF Pin, ListedOnly, NextJob
  <2>2. Harmless
    <3>1. UNCHANGED job \/ job' = [job EXCEPT ![j] = Pinned(job[j])]
      BY <1>19 DEF Pin
    <3>2. /\ Pinned(job[j]).st = job[j].st /\ Pinned(job[j]).pinned
          /\ Pinned(job[j]).mapped = job[j].mapped /\ SameHold(job[j], Pinned(job[j]))
      BY DEF Pinned, JobRecord, SameHold
    <3> QED
      BY <3>1, <3>2, HarmlessNothing, HarmlessUpdate
  <2>3. ASSUME at' = "release" PROVE PinnedFirst'
    <3>1. todo' = todo /\ job'[j].pinned
      BY <1>19, <2>3 DEF Pin, NextJob, Pinned, JobRecord
    <3>2. \A k \in JobIDs : IsNext(k)' => k = j
      <4>1. IsNext(j) /\ \A k \in JobIDs : k \in Nat
        BY <1>19, ConstantsOK DEF Pin
      <4> QED
        BY <3>1, <4>1 DEF IsNext
    <3> QED
      BY <3>1, <3>2 DEF PinnedFirst
  <2>4. ASSUME at' # "release" PROVE PinnedFirst'
    BY <2>4, NotReleasing
  <2> QED
    BY <2>1, <2>2, <2>3, <2>4, HarmlessStep
<1>20. ASSUME NEW j \in JobIDs, Release(j)
       PROVE  ListedOnly' /\ PinnedFirst' /\ NoRunawayJob'
  <2>1. ListedOnly'
    BY <1>20 DEF Release, ListedOnly, NextJob
  <2>2. PinnedFirst'
    BY <1>20, NotReleasing DEF Release, NextJob
  <2>3. ASSUME NEW k \in JobIDs, Released(k)' PROVE job'[k].pinned
    <3>1. CASE k = j
      <4>1. Alive(job[j]) /\ job'[j].pinned = job[j].pinned
        BY <1>20, <2>3, <3>1 DEF Release, Released, JobRecord
      <4>2. job[j].pinned
        BY <1>20, <4>1 DEF Release, PinnedFirst
      <4> QED
        BY <3>1, <4>1, <4>2
    <3>2. CASE k # j
      BY <1>20, <2>3, <3>2 DEF Release, Released, NoRunawayJob
    <3> QED
      BY <3>1, <3>2
  <2> QED
    BY <2>1, <2>2, <2>3 DEF NoRunawayJob
<1> QED
  BY <1>1, <1>2, <1>3, <1>4, <1>5, <1>6, <1>7, <1>8, <1>9, <1>10, <1>11,
     <1>12, <1>13, <1>14, <1>15, <1>16, <1>17, <1>18, <1>19, <1>20, <1>21
     DEF BridgeStep

\* Slurm and its users preserve it; the jobs of phase 2 are not resubmitted.
LEMMA RunawaySlurm == RunawayInv /\ (\E j \in JobIDs : SlurmStep(j)) => RunawayInv'
<1> SUFFICES ASSUME RunawayInv, NEW j \in JobIDs, SlurmStep(j)
             PROVE  ListedOnly' /\ PinnedFirst' /\ NoRunawayJob'
  BY TypeSlurm DEF RunawayInv
<1> USE DEF RunawayInv, TypeOK
<1>1. UNCHANGED tickVars
  BY DEF SlurmStep, Submit, StartJob, RequeueJob, FinishJob, UserCancels, Purge
<1>2. ListedOnly'
  BY <1>1 DEF tickVars, ListedOnly
<1>3. CASE Submit(j)
  <2>1. PICK held \in BOOLEAN, mapped \in BOOLEAN :
          /\ (held /\ mapped) \/ ~mapped
          /\ job' = [job EXCEPT ![j] =
                       [inc |-> job[j].inc + 1, st |-> "pending", held |-> held,
                        pinned |-> FALSE, mapped |-> mapped, comment |-> "fresh",
                        mirrored |-> FALSE]]
    BY <1>3 DEF Submit
  <2>2. job'[j].mapped = mapped /\ job'[j].held = held
    BY <2>1
  <2>3. \A k \in JobIDs \ {j} : job'[k] = job[k]
    BY <2>1
  <2>4. NoRunawayJob'
    BY <2>1, <2>2, <2>3 DEF NoRunawayJob, Released
  <2>5. pc = "admit" => j \notin todo
    BY <1>3 DEF Submit, Settled, ListedOnly
  <2>6. PinnedFirst'
    BY <1>1, <2>3, <2>5 DEF tickVars, PinnedFirst, IsNext
  <2> QED
    BY <1>2, <2>4, <2>6
<1>4. CASE ~Submit(j)
  <2>1. ASSUME StartJob(j) PROVE Harmless
    <3>1. Alive(job[j]) /\ job' = [job EXCEPT ![j].st = "running"]
      BY <2>1 DEF StartJob, SetState
    <3> QED
      BY <3>1, HarmlessState
  <2>2. ASSUME RequeueJob(j) PROVE Harmless
    <3>1. Alive(job[j]) /\ job' = [job EXCEPT ![j].st = "pending"]
      BY <2>2 DEF RequeueJob, SetState
    <3> QED
      BY <3>1, HarmlessState
  <2>3. ASSUME FinishJob(j) PROVE Harmless
    <3>1. Alive(job[j]) /\ job' = [job EXCEPT ![j].st = "terminal"]
      BY <2>3 DEF FinishJob, SetState
    <3> QED
      BY <3>1, HarmlessState
  <2>4. ASSUME UserCancels(j) PROVE Harmless
    <3>1. Alive(job[j]) /\ job' = [job EXCEPT ![j].st = "terminal"]
      BY <2>4 DEF UserCancels, SetState
    <3> QED
      BY <3>1, HarmlessState
  <2>5. ASSUME Purge(j) PROVE Harmless
    BY <2>5, HarmlessUpdate DEF Purge, NoJob
  <2>6. Harmless
    BY <1>4, <2>1, <2>2, <2>3, <2>4, <2>5 DEF SlurmStep
  <2> QED
    BY <1>1, <1>2, <2>6, HarmlessStep DEF tickVars
<1> QED
  BY <1>3, <1>4

\* The cluster touches neither jobs nor the tick, except for the snapshot.
LEMMA RunawayKube ==
  RunawayInv /\ (\E j \in JobIDs : KubeProgress(j) \/ KubeDisturbance(j)) => RunawayInv'
<1> SUFFICES ASSUME RunawayInv, NEW j \in JobIDs, KubeProgress(j) \/ KubeDisturbance(j)
             PROVE  ListedOnly' /\ PinnedFirst' /\ NoRunawayJob'
  BY TypeKube DEF RunawayInv
<1>1. UNCHANGED <<job, pc, at, todo, checking, ready, byID>>
  BY DEF KubeProgress, KubeDisturbance, KueueQueues, KueueAdmits, CollectWorkload,
         RegisterNode, ExpireRetention, CacheSync, KueueEvicts, JobSetDies,
         OperatorDeletes, slurmVars, tickVars
<1> QED
  BY <1>1 DEF RunawayInv, ListedOnly, PinnedFirst, NoRunawayJob, Released, IsNext

\* Every step of the specification preserves the invariant.
LEMMA RunawayNext == RunawayInv /\ [Next]_vars => RunawayInv'
<1> SUFFICES ASSUME RunawayInv, [Next]_vars PROVE RunawayInv'
  OBVIOUS
<1>1. CASE UNCHANGED vars
  <2>1. TypeOK'
    BY TypeNext DEF RunawayInv
  <2> QED
    BY <1>1, <2>1 DEF vars, slurmVars, tickVars, RunawayInv, ListedOnly, PinnedFirst,
                      NoRunawayJob, Released, IsNext
<1>2. CASE Crash
  <2>1. TypeOK'
    BY TypeNext DEF RunawayInv
  <2>2. job' = job /\ ResetTick
    BY <1>2 DEF Crash, slurmVars
  <2> QED
    BY <2>1, <2>2, ResetTypes, NotReleasing
       DEF RunawayInv, ListedOnly, NoRunawayJob, Released
<1> QED
  BY <1>1, <1>2, RunawayBridge, RunawaySlurm, RunawayKube DEF Next

\* No runaway job: whatever fails, crashes or is resubmitted, a job of a mapped
\* partition that slurmctld may start is pinned to its own nodes.
THEOREM NoRunaway == Spec => []NoRunawayJob
<1>1. RunawayInv => NoRunawayJob
  BY DEF RunawayInv
<1> QED
  BY <1>1, RunawayInit, RunawayNext, PTL DEF Spec

-----------------------------------------------------------------------------
(* The promise of JobLifecycle, as long as a Workload does not outlive its *)
(* JobSet: a released job was admitted before, and sits on no JobSet of    *)
(* another submission.                                                     *)

\* The disturbance that the theorems leave out.
Collected == ~May("late-collection")

-----------------------------------------------------------------------------
(* The inductive invariant                                                 *)

\* What the tick listed under an ID is the submission that has the ID now.
SameSubmission ==
  \A j \in JobIDs :
    /\ Found(byID[j]) => job[j].inc = byID[j].inc
    /\ Found(job[j]) \/ Found(byID[j]) => job[j].inc # 0
    /\ Alive(job[j]) /\ Found(byID[j]) => job[j].mapped = byID[j].mapped

\* A JobSet of an earlier submission was there when the ID was reused, and in
\* the cache; once it is gone none comes back.
NoOldJobSet ==
  \A j \in JobIDs : js[j].inc \in {0, job[j].inc} \/ Cached(j).inc = js[j].inc

\* The jobs a tick works on have no JobSet of another submission, and those
\* whose Workload it saw admitted were granted capacity for this one.
InHand == todo \cup checking \cup ready

OwnCapacityInHand ==
  /\ pc = "idle" => \A j \in JobIDs : ~Found(byID[j])
  /\ pc = "list" => checking = {}
  /\ pc \in {"create", "admit"} =>
       \A j \in InHand :
         /\ byID[j].mapped
         /\ js[j].inc \in {0, byID[j].inc}
         /\ IsAdmitted(snapWL[j]) => granted[j] = byID[j].inc

\* Only an admitted job gets to the pin and to the release.
GatePassed ==
  pc = "admit" /\ at \in {"pin", "release"} =>
    \A j \in JobIDs : IsNext(j) => IsAdmitted(snapWL[j])

\* A Workload belongs to a JobSet that exists, and Kueue gives that one capacity.
Backed ==
  \A j \in JobIDs :
    /\ wl[j].old = "none"
    /\ ~Exists(js[j]) => wl[j].cur = "none"
    /\ wl[j].cur \in {"admitted", "evicted"} => granted[j] = js[j].inc

LifeInv ==
  /\ RunawayInv /\ SameSubmission /\ NoOldJobSet /\ OwnCapacityInHand /\ GatePassed
  /\ Backed /\ AdmittedBeforeRelease /\ RunsOnOwnCapacity

-----------------------------------------------------------------------------
(* Effects of a step on the jobs and on the JobSets                        *)

\* A step that neither submits nor releases a job.
Tame ==
  /\ Harmless
  /\ \A k \in JobIDs : /\ job'[k].inc = job[k].inc
                       /\ Found(job'[k]) => Found(job[k])

\* A step that makes no JobSet.
NoneMade == \A k \in JobIDs : js'[k].inc \in {0, js[k].inc}

\* A step that leaves the submissions of the JobSets alone.
SameJobSets == \A k \in JobIDs : js'[k].inc = js[k].inc

\* An update of one field keeps the submission.
LEMMA IncKept ==
  ASSUME TypeOK, NEW j,
         \/ job' = job
         \/ job' = [job EXCEPT ![j] = Pinned(job[j])]
         \/ job' = [job EXCEPT ![j].held = FALSE, ![j].mirrored = FALSE]
         \/ \E h \in BOOLEAN : job' = [job EXCEPT ![j] = Mirrored(job[j], h)]
         \/ \E c \in {"bridge", "unmanaged"} : job' = [job EXCEPT ![j].comment = c]
         \/ \E s \in {"pending", "running", "terminal"} : job' = [job EXCEPT ![j].st = s]
  PROVE  \A k \in JobIDs : job'[k].inc = job[k].inc
<1>1. job \in [JobIDs -> JobRecord]
  BY DEF TypeOK
<1>2. CASE job' = [job EXCEPT ![j] = Pinned(job[j])]
  BY <1>1, <1>2 DEF Pinned, JobRecord
<1>3. CASE job' = [job EXCEPT ![j].held = FALSE, ![j].mirrored = FALSE]
  BY <1>1, <1>3, Lifting
<1>4. ASSUME NEW c \in {"bridge", "unmanaged"}, job' = [job EXCEPT ![j].comment = c]
      PROVE  \A k \in JobIDs : job'[k].inc = job[k].inc
  BY <1>1, <1>4 DEF JobRecord
<1>5. ASSUME NEW s \in {"pending", "running", "terminal"}, job' = [job EXCEPT ![j].st = s]
      PROVE  \A k \in JobIDs : job'[k].inc = job[k].inc
  BY <1>1, <1>5 DEF JobRecord
<1>6. ASSUME NEW h \in BOOLEAN, job' = [job EXCEPT ![j] = Mirrored(job[j], h)]
      PROVE  \A k \in JobIDs : job'[k].inc = job[k].inc
  <2>1. j \in JobIDs => Mirrored(job[j], h).inc = job[j].inc
    <3> DEFINE b == job[j].mirrored \/ job[j].held # h
    <3> SUFFICES ASSUME j \in JobIDs
                 PROVE  [job[j] EXCEPT !.held = h, !.mirrored = b].inc = job[j].inc
      BY DEF Mirrored
    <3>1. job[j] \in JobRecord
      BY <1>1
    <3> HIDE DEF b
    <3> QED
      BY <3>1 DEF JobRecord
  <2> QED
    BY <1>1, <1>6, <2>1
<1> QED
  BY <1>2, <1>3, <1>4, <1>5, <1>6

\* Writing a comment is tame, and so is a change of state of a living job.
LEMMA TameComment ==
  ASSUME TypeOK, NEW j, NEW c \in {"bridge", "unmanaged"}, job' = [job EXCEPT ![j].comment = c]
  PROVE  Tame
<1>1. Harmless
  BY HarmlessComment
<1>2. \A k \in JobIDs : job'[k].inc = job[k].inc
  BY IncKept
<1>3. \A k \in JobIDs : job'[k].st = job[k].st
  <2>1. job \in [JobIDs -> JobRecord]
    BY DEF TypeOK
  <2> QED
    BY <2>1 DEF JobRecord
<1> QED
  BY <1>1, <1>2, <1>3 DEF Tame

LEMMA TameState ==
  ASSUME TypeOK, NEW j, NEW s \in {"pending", "running", "terminal"},
         Alive(job[j]), job' = [job EXCEPT ![j].st = s]
  PROVE  Tame
<1>1. Harmless
  BY HarmlessState
<1>2. \A k \in JobIDs : job'[k].inc = job[k].inc
  BY IncKept
<1>3. \A k \in JobIDs : Found(job'[k]) => Found(job[k])
  <2>1. job \in [JobIDs -> JobRecord]
    BY DEF TypeOK
  <2> QED
    BY <2>1 DEF JobRecord
<1> QED
  BY <1>1, <1>2, <1>3 DEF Tame

\* And so is the priority mirror.
LEMMA TameMirror ==
  ASSUME TypeOK, NEW j, NEW h \in BOOLEAN, Alive(job[j]),
         job' = [job EXCEPT ![j] = Mirrored(job[j], h)]
  PROVE  Tame
<1>1. Harmless
  BY HarmlessMirror
<1>2. \A k \in JobIDs : job'[k].inc = job[k].inc
  BY IncKept
<1>3. \A k \in JobIDs : job'[k].st = job[k].st
  <2>1. job \in [JobIDs -> JobRecord]
    BY DEF TypeOK
  <2> QED
    BY <2>1 DEF JobRecord, Mirrored
<1> QED
  BY <1>1, <1>2, <1>3 DEF Tame

LEMMA TameNothing == UNCHANGED job => Tame
BY HarmlessNothing DEF Tame

-----------------------------------------------------------------------------
(* What follows from the effects                                           *)

\* Without a submission or a release, and without new capacity of another
\* submission, the two promises about released jobs stay true.
LEMMA PromisesKept ==
  ASSUME LifeInv, Tame, UNCHANGED granted,
         \A k \in JobIDs : js'[k].inc \in {0, js[k].inc, job[k].inc}
  PROVE  AdmittedBeforeRelease' /\ RunsOnOwnCapacity'
<1> SUFFICES ASSUME NEW k \in JobIDs, Released(k)'
             PROVE  granted'[k] = job'[k].inc /\ (Exists(js'[k]) => js'[k].inc = job'[k].inc)
  BY DEF AdmittedBeforeRelease, RunsOnOwnCapacity
<1>1. Released(k) /\ job'[k].inc = job[k].inc
  BY DEF Tame, Harmless, SameHold, Released
<1>2. granted[k] = job[k].inc /\ (Exists(js[k]) => js[k].inc = job[k].inc)
  BY <1>1 DEF LifeInv, AdmittedBeforeRelease, RunsOnOwnCapacity
<1> QED
  BY <1>1, <1>2

\* A tame step that lists nothing keeps what was listed true.
LEMMA SubmissionsKept ==
  ASSUME LifeInv, Tame, UNCHANGED byID
  PROVE  SameSubmission'
BY DEF LifeInv, SameSubmission, Tame, Harmless

\* No old JobSet comes back.
LEMMA OldKept ==
  ASSUME LifeInv, Tame,
         \A k \in JobIDs : js'[k].inc \in {0, job[k].inc} \/ (js'[k].inc = js[k].inc /\ Cached(k)' = Cached(k))
                           \/ Cached(k)'.inc = js'[k].inc
  PROVE  NoOldJobSet'
<1> SUFFICES ASSUME NEW k \in JobIDs
             PROVE  js'[k].inc \in {0, job'[k].inc} \/ Cached(k)'.inc = js'[k].inc
  BY DEF NoOldJobSet
<1>1. job'[k].inc = job[k].inc
  BY DEF Tame
<1>2. js[k].inc \in {0, job[k].inc} \/ Cached(k).inc = js[k].inc
  BY DEF LifeInv, NoOldJobSet
<1> QED
  BY <1>1, <1>2

\* The jobs in hand stay as they were when no job is added to them.
LEMMA HandKept ==
  ASSUME LifeInv, UNCHANGED <<byID, snapWL, granted>>,
         pc' = "idle" => pc = "idle",
         pc' = "list" => pc = "list" /\ UNCHANGED checking,
         pc' \in {"create", "admit"} => pc \in {"create", "admit"} /\ InHand' \subseteq InHand,
         \A k \in JobIDs : js'[k].inc \in {0, js[k].inc, byID[k].inc}
  PROVE  OwnCapacityInHand'
<1> SUFFICES ASSUME pc' \in {"create", "admit"}, NEW k \in InHand'
             PROVE  /\ byID[k].mapped
                    /\ js'[k].inc \in {0, byID[k].inc}
                    /\ IsAdmitted(snapWL[k]) => granted[k] = byID[k].inc
  BY DEF OwnCapacityInHand, IsAdmitted, LifeInv
<1>1. k \in InHand /\ k \in JobIDs
  BY DEF LifeInv, RunawayInv, TypeOK, InHand
<1>2. /\ byID[k].mapped
      /\ js[k].inc \in {0, byID[k].inc}
      /\ IsAdmitted(snapWL[k]) => granted[k] = byID[k].inc
  BY <1>1 DEF LifeInv, OwnCapacityInHand
<1> QED
  BY <1>1, <1>2

\* Outside the two phases nothing is in hand, and nobody is behind the gate.
LEMMA HandEmpty ==
  /\ pc' = "cleanup" => OwnCapacityInHand'
  /\ ~(pc' = "admit" /\ at' \in {"pin", "release"}) => GatePassed'
BY DEF OwnCapacityInHand, GatePassed

LEMMA GateKept ==
  ASSUME LifeInv, UNCHANGED <<pc, at, todo, snapWL>>
  PROVE  GatePassed'
BY DEF LifeInv, GatePassed, IsNext, IsAdmitted

\* Workloads and JobSets that are left alone stay as they belong together.
LEMMA BackedKept ==
  ASSUME LifeInv, SameJobSets, UNCHANGED <<wl, granted>>
  PROVE  Backed'
BY DEF LifeInv, Backed, SameJobSets

\* What LifeInv adds to RunawayInv.
Promises ==
  /\ SameSubmission /\ NoOldJobSet /\ OwnCapacityInHand /\ GatePassed
  /\ Backed /\ AdmittedBeforeRelease /\ RunsOnOwnCapacity

\* A step that is tame and leaves the cluster and the listing alone can only
\* disturb the jobs in hand and the gate.
LEMMA QuietStep ==
  ASSUME LifeInv, Tame, SameJobSets, UNCHANGED <<wl, granted, cache, byID>>
  PROVE  SameSubmission' /\ NoOldJobSet' /\ Backed' /\ AdmittedBeforeRelease' /\ RunsOnOwnCapacity'
<1>1. \A k \in JobIDs : js'[k].inc = js[k].inc /\ Cached(k)'.inc = Cached(k).inc
  BY DEF SameJobSets, Cached
<1>2. NoOldJobSet'
  BY <1>1 DEF LifeInv, NoOldJobSet, Tame
<1>3. AdmittedBeforeRelease' /\ RunsOnOwnCapacity'
  BY <1>1, PromisesKept
<1> QED
  BY <1>2, <1>3, SubmissionsKept, BackedKept

\* A tick that ends, in whichever way, forgets what it listed.
LEMMA ForgetStep ==
  ASSUME LifeInv, UNCHANGED <<job, js, wl, granted>>, ResetTick,
         UNCHANGED cache \/ cache' = js
  PROVE  Promises'
<1>1. Tame /\ SameJobSets
  BY TameNothing DEF SameJobSets
<1>2. SameSubmission'
  BY DEF LifeInv, SameSubmission, ResetTick, NoJob
<1>3. NoOldJobSet'
  BY DEF LifeInv, NoOldJobSet, Cached
<1>4. OwnCapacityInHand' /\ GatePassed'
  BY HandEmpty DEF ResetTick, OwnCapacityInHand, NoJob
<1>5. AdmittedBeforeRelease' /\ RunsOnOwnCapacity'
  BY <1>1, PromisesKept DEF SameJobSets
<1> QED
  BY <1>1, <1>2, <1>3, <1>4, <1>5, BackedKept DEF Promises

-----------------------------------------------------------------------------
(* Every step keeps the invariant                                          *)

LEMMA LifeInitially == Collected /\ Init => LifeInv
<1> SUFFICES ASSUME Init PROVE LifeInv
  OBVIOUS
<1>1. RunawayInv
  BY RunawayInit
<1>2. \A k \in JobIDs : Cached(k) = NoJobSet /\ js[k] = NoJobSet
  BY DEF Init, Cached
<1> QED
  BY <1>1, <1>2 DEF Init, LifeInv, SameSubmission, NoOldJobSet, OwnCapacityInHand, GatePassed,
     Backed, AdmittedBeforeRelease, RunsOnOwnCapacity, Released, NoJob, NoJobSet, NoWorkload

\* The listing and the snapshot.
LEMMA LifeListing ==
  ASSUME LifeInv, ListJobs \/ ListingFails \/ TakeSnapshot
  PROVE  Promises'
<1> USE DEF slurmVars, kubeVars
<1>1. CASE ListJobs
  <2>1. Tame /\ SameJobSets /\ pc' = "list" /\ byID' = job
        /\ UNCHANGED <<job, js, wl, granted, cache>>
    BY <1>1, TameNothing DEF ListJobs, SameJobSets
  <2>2. SameSubmission'
    BY <2>1 DEF SameSubmission, LifeInv
  <2>3. NoOldJobSet'
    BY <2>1 DEF LifeInv, NoOldJobSet, Cached
  <2>4. AdmittedBeforeRelease' /\ RunsOnOwnCapacity'
    BY <2>1, PromisesKept DEF SameJobSets
  <2>5. OwnCapacityInHand'
    BY <1>1, <2>1 DEF ListJobs, OwnCapacityInHand, LifeInv, RunawayInv, ListedOnly
  <2> QED
    BY <2>1, <2>2, <2>3, <2>4, <2>5, HandEmpty, BackedKept DEF Promises
<1>2. CASE ListingFails
  BY <1>2, ForgetStep DEF ListingFails
<1>3. CASE TakeSnapshot
  <2>1. /\ Tame /\ SameJobSets /\ pc' = "create" /\ UNCHANGED checking
        /\ UNCHANGED <<job, js, wl, granted, cache, byID>>
    BY <1>3, TameNothing DEF TakeSnapshot, SameJobSets
  <2>2. ASSUME NEW k \in JobIDs, InScope(byID[k]), Exists(Cached(k)) => IdentityMatches(Cached(k), byID[k])
        PROVE  /\ js[k].inc \in {0, byID[k].inc}
               /\ IsAdmitted(snapWL'[k]) => granted[k] = byID[k].inc
    <3>1. byID[k].inc = job[k].inc
      BY <2>2 DEF LifeInv, SameSubmission, InScope
    <3>2. js[k].inc \in {0, byID[k].inc}
      BY <2>2, <3>1 DEF LifeInv, NoOldJobSet, IdentityMatches
    <3>3. snapWL'[k] \in Listed(wl[k])
      BY <1>3, <2>2 DEF TakeSnapshot
    <3>4. IsAdmitted(snapWL'[k]) => wl[k].cur = "admitted"
      BY <3>3, <2>2 DEF Listed, IsAdmitted, LifeInv, Backed
    <3> QED
      BY <2>2, <3>2, <3>4 DEF LifeInv, Backed
  <2>3. \A k \in InHand' : /\ k \in JobIDs
                           /\ InScope(byID[k])
                           /\ Exists(Cached(k)) => IdentityMatches(Cached(k), byID[k])
    <3>1. checking = {}
      BY <1>3 DEF TakeSnapshot, LifeInv, OwnCapacityInHand
    <3> QED
      BY <1>3, <2>1, <3>1 DEF TakeSnapshot, InHand
  <2>4. OwnCapacityInHand'
    BY <2>1, <2>2, <2>3 DEF OwnCapacityInHand, IsAdmitted, InScope
  <2> QED
    BY <2>1, <2>4, QuietStep, HandEmpty DEF Promises
<1> QED
  BY <1>1, <1>2, <1>3

\* The comment that a partition is not managed, and the verdict on a JobSet that
\* was there already.
LEMMA LifeVerdicts ==
  ASSUME LifeInv, NEW j \in JobIDs, SignalUnmanaged(j) \/ GetExisting(j)
  PROVE  Promises'
<1> USE DEF slurmVars, kubeVars
<1>0. TypeOK
  BY DEF LifeInv, RunawayInv
<1>1. CASE SignalUnmanaged(j)
  <2>1. Tame
    BY <1>0, <1>1, TameComment, TameNothing DEF SignalUnmanaged
  <2>2. /\ SameJobSets /\ pc' = "list" /\ pc = "list"
        /\ UNCHANGED <<js, wl, granted, cache, byID, checking, snapWL>>
    BY <1>1 DEF SignalUnmanaged, SameJobSets
  <2>3. OwnCapacityInHand'
    BY <2>2, HandKept
  <2> QED
    BY <2>1, <2>2, <2>3, QuietStep, HandEmpty DEF Promises
<1>2. CASE GetExisting(j)
  <2>1. /\ Tame /\ SameJobSets /\ pc' = "create" /\ pc = "create"
        /\ UNCHANGED <<js, wl, granted, cache, byID, snapWL>>
    BY <1>2, TameNothing DEF GetExisting, SameJobSets
  <2>2. InHand' \subseteq InHand
    BY <1>2 DEF GetExisting, InHand
  <2>3. OwnCapacityInHand'
    BY <2>1, <2>2, HandKept
  <2> QED
    BY <2>1, <2>3, QuietStep, HandEmpty DEF Promises
<1> QED
  BY <1>1, <1>2

\* A JobSet is made for the submission the tick listed, which is the current one.
LEMMA LifeCreate ==
  ASSUME LifeInv, NEW j \in JobIDs, CreateJobSet(j)
  PROVE  Promises'
<1> USE DEF slurmVars, kubeVars
<1>0. TypeOK
  BY DEF LifeInv, RunawayInv
<1>1. /\ Tame /\ pc' = "create" /\ pc = "create" /\ j \in todo
      /\ UNCHANGED <<job, wl, granted, cache, byID, snapWL>>
  BY TameNothing DEF CreateJobSet
<1>2. byID[j].inc = job[j].inc /\ job[j].inc # 0
  BY <1>1 DEF LifeInv, RunawayInv, ListedOnly, SameSubmission
<1>3. /\ js' = js \/ (~Exists(js[j]) /\ js' = [js EXCEPT ![j] = [NoJobSet EXCEPT !.inc = byID[j].inc]])
      /\ InHand' \subseteq InHand
  BY <1>1 DEF CreateJobSet, InHand
<1>4. \A k \in JobIDs : js'[k] = js[k] \/ (k = j /\ ~Exists(js[k]) /\ js'[k].inc = job[k].inc)
  BY <1>0, <1>2, <1>3 DEF TypeOK, NoJobSet
<1>5. NoOldJobSet'
  BY <1>1, <1>4 DEF NoOldJobSet, LifeInv, Cached
<1>6. Backed'
  BY <1>1, <1>4 DEF Backed, LifeInv
<1>7. AdmittedBeforeRelease' /\ RunsOnOwnCapacity'
  BY <1>1, <1>4, PromisesKept
<1>8. OwnCapacityInHand'
  BY <1>1, <1>2, <1>3, <1>4, HandKept
<1> QED
  BY <1>1, <1>5, <1>6, <1>7, <1>8, SubmissionsKept, HandEmpty DEF Promises

\* The turn to phase 2, and to cleanup or the end of the tick.
LEMMA LifeTurns ==
  ASSUME LifeInv, StartAdmission \/ EndAdmission
  PROVE  Promises'
<1> USE DEF slurmVars, kubeVars
<1>1. CASE StartAdmission
  <2>1. /\ Tame /\ SameJobSets /\ pc' = "admit" /\ pc = "create" /\ at' = "status"
        /\ UNCHANGED <<js, wl, granted, cache, byID, snapWL>>
    BY <1>1, TameNothing DEF StartAdmission, SameJobSets
  <2>2. InHand' \subseteq InHand
    BY <1>1 DEF StartAdmission, InHand, ToAdmit
  <2>3. OwnCapacityInHand'
    BY <2>1, <2>2, HandKept
  <2> QED
    BY <2>1, <2>3, QuietStep, HandEmpty DEF Promises
<1>2. CASE EndAdmission /\ failed
  BY <1>2, ForgetStep DEF EndAdmission
<1>3. CASE EndAdmission /\ ~failed
  <2>1. /\ Tame /\ SameJobSets /\ pc' = "cleanup"
        /\ UNCHANGED <<wl, granted, cache, byID>>
    BY <1>3, TameNothing DEF EndAdmission, SameJobSets
  <2> QED
    BY <2>1, QuietStep, HandEmpty DEF Promises
<1> QED
  BY <1>1, <1>2, <1>3

\* The comment and the pin; behind the comment is the gate.
LEMMA LifeStatusAndPin ==
  ASSUME LifeInv, NEW j \in JobIDs, PropagateStatus(j) \/ Pin(j)
  PROVE  Promises'
<1> USE DEF slurmVars, kubeVars
<1>0. TypeOK
  BY DEF LifeInv, RunawayInv
<1>1. CASE PropagateStatus(j)
  <2>1. Tame
    BY <1>0, <1>1, TameComment, TameNothing DEF PropagateStatus
  <2>2. /\ SameJobSets /\ pc' = "admit" /\ pc = "admit"
        /\ UNCHANGED <<js, wl, granted, cache, byID, snapWL>>
    BY <1>1 DEF PropagateStatus, SameJobSets
  <2>3. InHand' \subseteq InHand
    BY <1>1 DEF PropagateStatus, NextJob, InHand
  <2>4. OwnCapacityInHand'
    BY <2>2, <2>3, HandKept
  <2>5. GatePassed'
    <3>1. CASE IsAdmitted(snapWL[j])
      <4>1. at' = "pin" /\ todo' = todo
        BY <1>1, <3>1 DEF PropagateStatus
      <4>2. \A k \in JobIDs : IsNext(k) => k = j
        BY <1>0, <1>1, ConstantsOK DEF PropagateStatus, IsNext, ConstantsOK, TypeOK
      <4> QED
        BY <2>2, <3>1, <4>1, <4>2 DEF GatePassed, IsNext, IsAdmitted
    <3>2. CASE ~IsAdmitted(snapWL[j])
      BY <1>1, <3>2, HandEmpty DEF PropagateStatus, NextJob
    <3> QED
      BY <3>1, <3>2
  <2> QED
    BY <2>1, <2>2, <2>4, <2>5, QuietStep DEF Promises
<1>2. CASE Pin(j)
  <2>1. Tame
    <3>1. CASE job' = job
      BY <3>1, TameNothing
    <3>2. CASE job' = [job EXCEPT ![j] = Pinned(job[j])]
      <4>1. job[j] \in JobRecord
        BY <1>0 DEF TypeOK
      <4>2. /\ Pinned(job[j]).st = job[j].st /\ Pinned(job[j]).inc = job[j].inc
            /\ Pinned(job[j]).mapped = job[j].mapped /\ SameHold(job[j], Pinned(job[j]))
            /\ Pinned(job[j]).pinned
        BY <4>1 DEF Pinned, JobRecord, SameHold
      <4>3. Harmless
        BY <1>0, <3>2, <4>2, HarmlessUpdate
      <4>4. \A k \in JobIDs : job'[k].inc = job[k].inc /\ job'[k].st = job[k].st
        BY <1>0, <3>2, <4>2 DEF TypeOK
      <4> QED
        BY <4>3, <4>4 DEF Tame
    <3> QED
      BY <1>2, <3>1, <3>2 DEF Pin
  <2>2. /\ SameJobSets /\ pc' = "admit" /\ pc = "admit" /\ at = "pin"
        /\ UNCHANGED <<js, wl, granted, cache, byID, snapWL>>
    BY <1>2 DEF Pin, SameJobSets
  <2>3. InHand' \subseteq InHand
    BY <1>2 DEF Pin, NextJob, InHand
  <2>4. OwnCapacityInHand'
    BY <2>2, <2>3, HandKept
  <2>5. GatePassed'
    <3>1. CASE todo' = todo
      BY <2>2, <3>1 DEF GatePassed, IsNext, IsAdmitted, LifeInv
    <3>2. CASE at' = "status"
      BY <3>2, HandEmpty
    <3> QED
      BY <1>2, <3>1, <3>2 DEF Pin, NextJob
  <2> QED
    BY <2>1, <2>2, <2>4, <2>5, QuietStep DEF Promises
<1> QED
  BY <1>1, <1>2

\* The release meets the promise: the job in front of it passed the gate.
LEMMA LifeRelease ==
  ASSUME LifeInv, NEW j \in JobIDs, Release(j)
  PROVE  /\ Promises'
         /\ granted[j] = job[j].inc /\ js[j].inc \in {0, job[j].inc}
         /\ Alive(job[j]) => job[j].mapped
<1> USE DEF slurmVars, kubeVars
<1>0. TypeOK
  BY DEF LifeInv, RunawayInv
<1>1. /\ SameJobSets /\ pc' = "admit" /\ pc = "admit" /\ at = "release" /\ at' = "status"
      /\ UNCHANGED <<js, wl, granted, cache, byID, snapWL>>
  BY DEF Release, NextJob, SameJobSets
<1>2. InHand' \subseteq InHand
  BY DEF Release, NextJob, InHand
<1>3. j \in InHand /\ IsAdmitted(snapWL[j]) /\ Found(byID[j])
  BY <1>1 DEF Release, IsNext, InHand, LifeInv, GatePassed, RunawayInv, ListedOnly
<1>4. /\ granted[j] = job[j].inc /\ js[j].inc \in {0, job[j].inc}
      /\ Alive(job[j]) => job[j].mapped
  BY <1>1, <1>3 DEF LifeInv, OwnCapacityInHand, SameSubmission
<1>5. \A k \in JobIDs : job'[k].inc = job[k].inc
  BY <1>0, IncKept DEF Release
<1>6. \A k \in JobIDs : job'[k].st = job[k].st /\ (k # j => job'[k] = job[k])
  <2>1. job \in [JobIDs -> JobRecord]
    BY <1>0 DEF TypeOK
  <2> QED
    BY <2>1 DEF Release, JobRecord
<1>. DEFINE SameMapping(k) == job'[k].mapped = job[k].mapped
<1>10. \A k \in JobIDs : SameMapping(k)
  <2>1. job \in [JobIDs -> JobRecord]
    BY <1>0 DEF TypeOK
  <2> QED
    BY <2>1 DEF Release, JobRecord
<1>7. SameSubmission' /\ NoOldJobSet'
  <2>1. SameSubmission'
    <3> SUFFICES ASSUME NEW k \in JobIDs
                 PROVE  /\ Found(byID[k]) => job'[k].inc = byID[k].inc
                        /\ Found(job'[k]) \/ Found(byID[k]) => job'[k].inc # 0
                        /\ Alive(job'[k]) /\ Found(byID[k]) => job'[k].mapped = byID[k].mapped
      BY <1>1 DEF SameSubmission
    <3>1. SameMapping(k)
      BY <1>10
    <3>2. /\ Found(byID[k]) => job[k].inc = byID[k].inc
          /\ Found(job[k]) \/ Found(byID[k]) => job[k].inc # 0
          /\ Alive(job[k]) /\ Found(byID[k]) => job[k].mapped = byID[k].mapped
      BY DEF LifeInv, SameSubmission
    <3> QED
      BY <1>5, <1>6, <3>1, <3>2
  <2> QED
    BY <1>1, <1>5, <2>1 DEF LifeInv, NoOldJobSet, Cached
<1>8. AdmittedBeforeRelease' /\ RunsOnOwnCapacity'
  <2> SUFFICES ASSUME NEW k \in JobIDs, Released(k)'
               PROVE  granted[k] = job'[k].inc /\ (Exists(js[k]) => js[k].inc = job'[k].inc)
    BY <1>1 DEF AdmittedBeforeRelease, RunsOnOwnCapacity
  <2>1. CASE k = j
    BY <1>4, <1>5, <2>1
  <2>2. CASE k # j
    <3>1. job'[k] = job[k] /\ Released(k)
      BY <1>6, <2>2 DEF Released
    <3> QED
      BY <3>1 DEF LifeInv, AdmittedBeforeRelease, RunsOnOwnCapacity
  <2> QED
    BY <2>1, <2>2
<1>9. OwnCapacityInHand'
  BY <1>1, <1>2, HandKept
<1> QED
  BY <1>1, <1>4, <1>7, <1>8, <1>9, HandEmpty, BackedKept DEF Promises

\* A JobSet that leaves the API server takes its Workload along.
LEMMA GoneStep ==
  ASSUME Collected, LifeInv, NEW j, JobSetGone(j), UNCHANGED <<job, granted, cache, byID>>
  PROVE  /\ SameSubmission' /\ NoOldJobSet' /\ Backed'
         /\ AdmittedBeforeRelease' /\ RunsOnOwnCapacity' /\ NoneMade
<1>0. TypeOK
  BY DEF LifeInv, RunawayInv
<1>1. Tame
  BY TameNothing
<1>2. \A k \in JobIDs : js'[k] = js[k] \/ js'[k] = NoJobSet
  BY <1>0 DEF JobSetGone, TypeOK
<1>3. NoneMade
  BY <1>2 DEF NoneMade, NoJobSet
<1>4. NoOldJobSet'
  <2> SUFFICES ASSUME NEW k \in JobIDs
               PROVE  js'[k].inc \in {0, job[k].inc} \/ Cached(k)'.inc = js'[k].inc
    BY DEF NoOldJobSet
  <2>1. CASE js'[k] = NoJobSet
    BY <2>1 DEF NoJobSet
  <2>2. CASE js'[k] = js[k]
    BY <2>2 DEF LifeInv, NoOldJobSet, Cached
  <2> QED
    BY <1>2, <2>1, <2>2
<1>5. Backed'
  <2> SUFFICES ASSUME NEW k \in JobIDs
               PROVE  /\ wl'[k].old = "none"
                      /\ ~Exists(js'[k]) => wl'[k].cur = "none"
                      /\ wl'[k].cur \in {"admitted", "evicted"} => granted[k] = js'[k].inc
    BY DEF Backed
  <2>1. CASE k # j
    <3>1. js'[k] = js[k] /\ wl'[k] = wl[k]
      BY <1>0, <2>1 DEF JobSetGone, TypeOK
    <3> QED
      BY <3>1 DEF LifeInv, Backed
  <2>2. CASE k = j
    <3>1. wl[j].old = "none"
      BY <2>2 DEF LifeInv, Backed
    <3>2. wl'[j] = [NoWorkload EXCEPT !.old = "none"]
      BY <1>0, <2>2, <3>1 DEF JobSetGone, TypeOK, Collected
    <3> QED
      BY <2>2, <3>2 DEF NoWorkload
  <2> QED
    BY <2>1, <2>2
<1>6. AdmittedBeforeRelease' /\ RunsOnOwnCapacity'
  BY <1>1, <1>3, PromisesKept DEF NoneMade
<1> QED
  BY <1>1, <1>3, <1>4, <1>5, <1>6, SubmissionsKept

\* A Patch keeps the submission of the JobSet.
LEMMA PatchKeeps ==
  ASSUME TypeOK, NEW v, PatchJobSet(v), cur \in JobIDs => v.inc = js[cur].inc
  PROVE  SameJobSets
<1> DEFINE p == Patched(v)
<1>1. js' = [js EXCEPT ![cur] = p] \/ js' = js
  BY Zenon DEF PatchJobSet
<1>2. p.inc = v.inc
  BY DEF Patched
<1> HIDE DEF p
<1> QED
  BY <1>1, <1>2 DEF SameJobSets, TypeOK

\* Cleanup: the JobSets of ended and of failed jobs.
LEMMA LifeCleanup ==
  ASSUME Collected, LifeInv,
         \/ StampRetention \/ ExplainFailure \/ FailJob \/ ReleaseNodes
         \/ MarkNodesReleased \/ DeleteJobSet \/ DrainNodes \/ SyncPriority \/ EndTick
  PROVE  Promises'
<1> USE DEF slurmVars, kubeVars
<1>0. TypeOK
  BY DEF LifeInv, RunawayInv
<1>1. CASE StampRetention
  <2>1. /\ PatchJobSet(Stamped(js[cur])) /\ pc' = "cleanup"
        /\ UNCHANGED <<job, wl, granted, cache, byID>>
    BY <1>1 DEF StampRetention
  <2>2. cur \in JobIDs => Stamped(js[cur]).inc = js[cur].inc
    <3>1. cur \in JobIDs => js[cur] \in JobSetRecord
      BY <1>0 DEF TypeOK
    <3> QED
      BY <3>1 DEF Stamped, JobSetRecord
  <2> QED
    BY <1>0, <2>1, <2>2, PatchKeeps, TameNothing, QuietStep, HandEmpty DEF Promises
<1>2. CASE MarkNodesReleased
  <2>1. /\ PatchJobSet([js[cur] EXCEPT !.rel = TRUE]) /\ pc' = "cleanup"
        /\ UNCHANGED <<job, wl, granted, cache, byID>>
    BY <1>2 DEF MarkNodesReleased
  <2>2. cur \in JobIDs => [js[cur] EXCEPT !.rel = TRUE].inc = js[cur].inc
    <3>1. cur \in JobIDs => js[cur] \in JobSetRecord
      BY <1>0 DEF TypeOK
    <3> QED
      BY <3>1 DEF JobSetRecord
  <2> QED
    BY <1>0, <2>1, <2>2, PatchKeeps, TameNothing, QuietStep, HandEmpty DEF Promises
<1>3. CASE ExplainFailure
  <2>1. Tame
    BY <1>0, <1>3, TameComment, TameNothing DEF ExplainFailure
  <2>2. SameJobSets /\ pc' = "cleanup" /\ UNCHANGED <<wl, granted, cache, byID>>
    BY <1>3 DEF ExplainFailure, SameJobSets
  <2> QED
    BY <2>1, <2>2, QuietStep, HandEmpty DEF Promises
<1>4. CASE FailJob
  <2>1. Tame
    <3>1. job' = job \/ (Alive(job[cur]) /\ job' = [job EXCEPT ![cur].st = "terminal"])
      BY <1>4, Zenon DEF FailJob
    <3> QED
      BY <1>0, <3>1, TameState, TameNothing
  <2>2. SameJobSets /\ pc' = "cleanup" /\ UNCHANGED <<wl, granted, cache, byID>>
    BY <1>4 DEF FailJob, SameJobSets
  <2> QED
    BY <2>1, <2>2, QuietStep, HandEmpty DEF Promises
<1>5. CASE ReleaseNodes
  <2>1. Tame /\ SameJobSets /\ pc' = "cleanup" /\ UNCHANGED <<wl, granted, cache, byID>>
    BY <1>5, TameNothing DEF ReleaseNodes, SameJobSets
  <2> QED
    BY <2>1, QuietStep, HandEmpty DEF Promises
<1>6. CASE DeleteJobSet
  <2>1. /\ pc' = "cleanup" /\ UNCHANGED <<job, granted, cache, byID>>
        /\ JobSetGone(cur) \/ UNCHANGED <<js, wl>>
    BY <1>6 DEF DeleteJobSet
  <2>2. CASE JobSetGone(cur)
    BY <2>1, <2>2, GoneStep, HandEmpty DEF Promises
  <2>3. CASE UNCHANGED <<js, wl>>
    BY <2>1, <2>3, TameNothing, QuietStep, HandEmpty DEF Promises, SameJobSets
  <2> QED
    BY <2>1, <2>2, <2>3
<1>7. CASE DrainNodes
  <2>1. Tame
    <3>1. job' = job \/ (Alive(job[cur]) /\ job' = [job EXCEPT ![cur].st = "pending"])
      BY <1>7 DEF DrainNodes
    <3> QED
      BY <1>0, <3>1, TameState, TameNothing
  <2>2. SameJobSets /\ pc' = "cleanup" /\ UNCHANGED <<wl, granted, cache, byID>>
    BY <1>7 DEF DrainNodes, SameJobSets
  <2> QED
    BY <2>1, <2>2, QuietStep, HandEmpty DEF Promises
<1>9. CASE SyncPriority
  <2>1. Tame
    <3>1. \/ job' = job
          \/ Alive(job[cur]) /\ \E h \in BOOLEAN : job' = [job EXCEPT ![cur] = Mirrored(job[cur], h)]
      BY <1>9 DEF SyncPriority
    <3> QED
      BY <1>0, <3>1, TameMirror, TameNothing
  <2>2. SameJobSets /\ pc' = "cleanup" /\ UNCHANGED <<wl, granted, cache, byID>>
    BY <1>9 DEF SyncPriority, SameJobSets
  <2> QED
    BY <2>1, <2>2, QuietStep, HandEmpty DEF Promises
<1>8. CASE EndTick
  BY <1>8, ForgetStep DEF EndTick
<1> QED
  BY <1>1, <1>2, <1>3, <1>4, <1>5, <1>6, <1>7, <1>8, <1>9

\* GetJob answers with the submission that has the ID now.
LEMMA LifeInspect ==
  ASSUME LifeInv, NEW j \in JobIDs, InspectJob(j)
  PROVE  Promises'
<1> USE DEF slurmVars, kubeVars
<1>0. TypeOK
  BY DEF LifeInv, RunawayInv
<1>1. Tame /\ SameJobSets /\ pc' = "cleanup" /\ UNCHANGED <<job, js, wl, granted, cache>>
  BY TameNothing DEF InspectJob, SameJobSets
<1>2. \A k \in JobIDs : byID'[k] = byID[k] \/ byID'[k] = job[k]
  BY <1>0 DEF InspectJob, TypeOK
<1>3. SameSubmission'
  BY <1>1, <1>2 DEF SameSubmission, LifeInv
<1>4. NoOldJobSet'
  BY <1>1 DEF NoOldJobSet, LifeInv, Cached
<1>5. AdmittedBeforeRelease' /\ RunsOnOwnCapacity'
  BY <1>1, PromisesKept DEF SameJobSets
<1> QED
  BY <1>1, <1>3, <1>4, <1>5, BackedKept, HandEmpty DEF Promises

\* Slurm and its users.  An ID is reused when nothing of the tick depends on it.
LEMMA LifeSubmit ==
  ASSUME LifeInv, NEW j \in JobIDs, Submit(j)
  PROVE  Promises'
<1>0. TypeOK
  BY DEF LifeInv, RunawayInv
<1>1. UNCHANGED <<js, wl, granted, cache, pc, at, todo, checking, ready, byID, snapWL>>
  BY DEF Submit, kubeVars, tickVars
<1>2. PICK held \in BOOLEAN, mapped \in BOOLEAN :
        /\ (held /\ mapped) \/ ~mapped
        /\ job' = [job EXCEPT ![j] =
                     [inc |-> job[j].inc + 1, st |-> "pending", held |-> held,
                      pinned |-> FALSE, mapped |-> mapped, comment |-> "fresh",
                      mirrored |-> FALSE]]
  BY DEF Submit
<1>3. /\ job'[j].inc = job[j].inc + 1 /\ job'[j].held = held /\ job'[j].mapped = mapped
      /\ \A k \in JobIDs \ {j} : job'[k] = job[k]
  BY <1>0, <1>2 DEF TypeOK
<1>4. job[j].inc \in Nat
  BY <1>0 DEF TypeOK, JobRecord
<1>5. ~Found(byID[j])
  BY DEF Submit, Settled, LifeInv, OwnCapacityInHand
<1>6. SameSubmission'
  BY <1>1, <1>3, <1>4, <1>5 DEF SameSubmission, LifeInv
<1>7. NoOldJobSet'
  <2> SUFFICES ASSUME NEW k \in JobIDs
               PROVE  js'[k].inc \in {0, job'[k].inc} \/ Cached(k)'.inc = js'[k].inc
    BY DEF NoOldJobSet
  <2>1. Cached(k)' = Cached(k)
    BY <1>1 DEF Cached
  <2>2. CASE k = j
    BY <1>1, <2>1, <2>2 DEF Submit, Settled
  <2>3. CASE k # j
    BY <1>1, <1>3, <2>1, <2>3 DEF LifeInv, NoOldJobSet
  <2> QED
    BY <2>2, <2>3
<1>8. OwnCapacityInHand' /\ GatePassed'
  BY <1>1 DEF LifeInv, OwnCapacityInHand, GatePassed, InHand, IsNext, IsAdmitted
<1>9. AdmittedBeforeRelease' /\ RunsOnOwnCapacity'
  <2> SUFFICES ASSUME NEW k \in JobIDs, Released(k)'
               PROVE  granted[k] = job'[k].inc /\ (Exists(js[k]) => js[k].inc = job'[k].inc)
    BY <1>1 DEF AdmittedBeforeRelease, RunsOnOwnCapacity
  <2>1. k # j
    BY <1>2, <1>3 DEF Released
  <2> QED
    BY <1>3, <2>1 DEF LifeInv, AdmittedBeforeRelease, RunsOnOwnCapacity, Released
<1> QED
  BY <1>1, <1>6, <1>7, <1>8, <1>9, BackedKept DEF Promises, SameJobSets

\* The other steps of Slurm change the state of a job, or forget it.
LEMMA TameSlurm ==
  ASSUME LifeInv, NEW j \in JobIDs,
         StartJob(j) \/ RequeueJob(j) \/ FinishJob(j) \/ UserCancels(j) \/ Purge(j)
  PROVE  Tame /\ UNCHANGED <<kubeVars, cache, tickVars>>
<1>0. TypeOK
  BY DEF LifeInv, RunawayInv
<1>1. UNCHANGED <<kubeVars, cache, tickVars>>
  BY DEF StartJob, RequeueJob, FinishJob, UserCancels, Purge
<1>2. CASE Purge(j)
  <2>1. Harmless
    BY <1>0, <1>2, HarmlessUpdate DEF Purge, NoJob
  <2>2. \A k \in JobIDs : job'[k] = job[k] \/ (job'[k].inc = job[k].inc /\ ~Found(job'[k]))
    BY <1>0, <1>2 DEF Purge, NoJob, TypeOK
  <2> QED
    BY <1>1, <2>1, <2>2 DEF Tame
<1>3. CASE ~Purge(j)
  <2>1. \E s \in {"pending", "running", "terminal"} :
           Alive(job[j]) /\ job' = [job EXCEPT ![j].st = s]
    BY <1>3 DEF StartJob, RequeueJob, FinishJob, UserCancels, SetState
  <2> QED
    BY <1>0, <1>1, <2>1, TameState
<1> QED
  BY <1>2, <1>3

LEMMA LifeSlurm ==
  ASSUME LifeInv, NEW j \in JobIDs, SlurmStep(j)
  PROVE  Promises'
<1>1. CASE Submit(j)
  BY <1>1, LifeSubmit
<1>2. CASE ~Submit(j)
  <2>1. Tame /\ UNCHANGED <<kubeVars, cache, tickVars>>
    BY <1>2, TameSlurm DEF SlurmStep
  <2>2. /\ SameJobSets
        /\ UNCHANGED <<wl, granted, cache, pc, at, todo, checking, ready, byID, snapWL, js>>
    BY <2>1 DEF kubeVars, tickVars, SameJobSets
  <2>3. OwnCapacityInHand' /\ GatePassed'
    BY <2>2 DEF LifeInv, OwnCapacityInHand, GatePassed, InHand, IsNext, IsAdmitted
  <2> QED
    BY <2>1, <2>2, <2>3, QuietStep DEF Promises
<1> QED
  BY <1>1, <1>2

\* Kubernetes.  Capacity is granted to the JobSet that is there, which is the one
\* of the released job and of the job in hand.
LEMMA LifeAdmits ==
  ASSUME LifeInv, NEW j \in JobIDs, KueueAdmits(j)
  PROVE  /\ Promises'
         /\ Exists(js[j])
<1>0. TypeOK
  BY DEF LifeInv, RunawayInv
<1>1. /\ UNCHANGED <<job, js, cache, pc, at, todo, checking, ready, byID, snapWL>>
      /\ Exists(js[j])
  BY DEF KueueAdmits, slurmVars, tickVars, LifeInv, Backed
<1>2. granted' = [granted EXCEPT ![j] = js[j].inc]
  BY DEF KueueAdmits
<1>3. granted'[j] = js[j].inc /\ \A k \in JobIDs \ {j} : granted'[k] = granted[k]
  BY <1>0, <1>2 DEF TypeOK
<1>4. /\ \A k \in JobIDs \ {j} : wl'[k] = wl[k]
      /\ wl'[j].old = wl[j].old
  BY <1>0 DEF KueueAdmits, TypeOK, WorkloadRecord
<1>5. Backed'
  BY <1>1, <1>3, <1>4 DEF Backed, LifeInv
<1>6. SameSubmission' /\ NoOldJobSet' /\ GatePassed'
  BY <1>1 DEF LifeInv, SameSubmission, NoOldJobSet, Cached, GatePassed, IsNext, IsAdmitted
<1>7. OwnCapacityInHand'
  <2>1. InHand' = InHand /\ InHand \subseteq JobIDs
    BY <1>0, <1>1 DEF InHand, TypeOK
  <2> QED
    BY <1>1, <1>3, <2>1 DEF LifeInv, OwnCapacityInHand, IsAdmitted
<1>8. AdmittedBeforeRelease' /\ RunsOnOwnCapacity'
  <2> SUFFICES ASSUME NEW k \in JobIDs, Released(k)
               PROVE  granted'[k] = job[k].inc /\ (Exists(js[k]) => js[k].inc = job[k].inc)
    BY <1>1 DEF AdmittedBeforeRelease, RunsOnOwnCapacity, Released
  <2> QED
    BY <1>1, <1>3 DEF LifeInv, AdmittedBeforeRelease, RunsOnOwnCapacity
<1> QED
  BY <1>1, <1>5, <1>6, <1>7, <1>8 DEF Promises

LEMMA LifeKube ==
  ASSUME Collected, LifeInv, NEW j \in JobIDs, KubeProgress(j) \/ KubeDisturbance(j)
  PROVE  Promises'
<1>0. TypeOK
  BY DEF LifeInv, RunawayInv
<1>1. UNCHANGED <<job, pc, at, todo, checking, ready, byID, snapWL>>
  BY DEF KubeProgress, KubeDisturbance, KueueQueues, KueueAdmits, CollectWorkload,
         RegisterNode, ExpireRetention, CacheSync, KueueEvicts, JobSetDies,
         OperatorDeletes, slurmVars, tickVars
<1>2. Tame /\ GatePassed'
  BY <1>1, TameNothing, GateKept
<1>3. SameSubmission'
  BY <1>1, <1>2, SubmissionsKept
<1>4. CASE KueueAdmits(j)
  BY <1>4, LifeAdmits
<1>5. CASE OperatorDeletes(j)
  <2>1. JobSetGone(j) /\ UNCHANGED <<granted, cache>>
    BY <1>5 DEF OperatorDeletes
  <2>2. NoneMade /\ NoOldJobSet' /\ Backed' /\ AdmittedBeforeRelease' /\ RunsOnOwnCapacity'
    BY <1>1, <2>1, GoneStep
  <2>3. OwnCapacityInHand'
    BY <1>1, <2>1, <2>2, HandKept DEF NoneMade, InHand
  <2> QED
    BY <1>2, <1>3, <2>2, <2>3 DEF Promises
<1>6. ASSUME KueueQueues(j) \/ CollectWorkload(j) \/ RegisterNode(j) \/ KueueEvicts(j)
             \/ JobSetDies(j) \/ ExpireRetention(j) \/ CacheSync(j)
      PROVE  Promises'
  <2>1. SameJobSets /\ UNCHANGED granted
    <3>1. js \in [JobIDs -> JobSetRecord]
      BY <1>0 DEF TypeOK
    <3>2. js' = js \/ js' = [js EXCEPT ![j].cond = "dead"] \/ js' = [js EXCEPT ![j].ret = "expired"]
      BY <1>6 DEF KueueQueues, CollectWorkload, RegisterNode, KueueEvicts, JobSetDies,
                  ExpireRetention, CacheSync, kubeVars
    <3>3. UNCHANGED granted
      BY <1>6 DEF KueueQueues, CollectWorkload, RegisterNode, KueueEvicts, JobSetDies,
                  ExpireRetention, CacheSync, kubeVars
    <3> QED
      BY <3>1, <3>2, <3>3 DEF SameJobSets, JobSetRecord
  <2>2. NoOldJobSet'
    <3>1. CASE CacheSync(j)
      <4>1. UNCHANGED <<js, job>> /\ LaggingCache /\ cache' = [cache EXCEPT ![j] = js[j]]
        BY <3>1, <1>1 DEF CacheSync, kubeVars
      <4>2. \A k \in JobIDs : Cached(k)' = Cached(k) \/ Cached(k)' = js[k]
        BY <1>0, <4>1 DEF Cached, TypeOK
      <4> QED
        BY <1>2, <4>1, <4>2, OldKept
    <3>2. CASE ExpireRetention(j)
      <4>1. cache' = cache \/ cache' = [cache EXCEPT ![j].ret = "expired"]
        BY <3>2 DEF ExpireRetention
      <4>2. \A k \in JobIDs : cache'[k].inc = cache[k].inc
        BY <1>0, <4>1 DEF TypeOK, JobSetRecord
      <4>3. \A k \in JobIDs : Cached(k)'.inc = Cached(k).inc
        BY <2>1, <4>2 DEF Cached, SameJobSets
      <4> QED
        BY <1>1, <2>1, <4>3 DEF LifeInv, NoOldJobSet, SameJobSets
    <3>3. CASE ~CacheSync(j) /\ ~ExpireRetention(j)
      <4>1. UNCHANGED cache
        BY <1>6, <3>3 DEF KueueQueues, CollectWorkload, RegisterNode, KueueEvicts, JobSetDies
      <4>2. \A k \in JobIDs : Cached(k)'.inc = Cached(k).inc
        BY <2>1, <4>1 DEF Cached, SameJobSets
      <4> QED
        BY <1>1, <2>1, <4>2 DEF LifeInv, NoOldJobSet, SameJobSets
    <3> QED
      BY <3>1, <3>2, <3>3
  <2>3. Backed'
    <3>0. wl \in [JobIDs -> WorkloadRecord]
      BY <1>0 DEF TypeOK
    <3>3. \/ UNCHANGED wl
          \/ Exists(js[j]) /\ wl' = [wl EXCEPT ![j].cur = "queued"]
          \/ wl' = [wl EXCEPT ![j].old = "none"]
          \/ wl' = [wl EXCEPT ![j].boot = FALSE]
          \/ wl[j].cur = "admitted" /\ wl' = [wl EXCEPT ![j].cur = "evicted", ![j].boot = FALSE]
      BY <1>6 DEF KueueQueues, CollectWorkload, RegisterNode, KueueEvicts, JobSetDies,
         ExpireRetention, CacheSync, kubeVars
    <3>4. \A k \in JobIDs : wl[k].old = "none"
      BY DEF LifeInv, Backed
    <3>1. \A k \in JobIDs : wl'[k].old = "none"
      BY <3>0, <3>3, <3>4 DEF WorkloadRecord
    <3>2. \A k \in JobIDs : \/ wl'[k].cur = wl[k].cur
                            \/ Exists(js[k]) /\ wl'[k].cur = "queued"
                            \/ wl[k].cur = "admitted" /\ wl'[k].cur = "evicted"
      BY <3>0, <3>3 DEF WorkloadRecord
    <3> QED
      BY <2>1, <3>1, <3>2 DEF LifeInv, Backed, SameJobSets
  <2>4. AdmittedBeforeRelease' /\ RunsOnOwnCapacity'
    BY <1>2, <2>1, PromisesKept DEF SameJobSets
  <2>5. OwnCapacityInHand'
    BY <1>1, <2>1, HandKept DEF SameJobSets, InHand
  <2> QED
    BY <1>2, <1>3, <2>2, <2>3, <2>4, <2>5 DEF Promises
<1> QED
  BY <1>4, <1>5, <1>6 DEF KubeProgress, KubeDisturbance

LEMMA LifeNextStep == Collected /\ LifeInv /\ [Next]_vars => LifeInv'
<1>1. ASSUME LifeInv, [Next]_vars PROVE RunawayInv'
  BY <1>1, RunawayNext DEF LifeInv
<1> SUFFICES ASSUME Collected, LifeInv, [Next]_vars PROVE Promises'
  BY <1>1 DEF LifeInv, Promises
<1>2. CASE BridgeStep
  BY <1>2, LifeListing, LifeVerdicts, LifeCreate, LifeTurns, LifeStatusAndPin, LifeRelease,
     LifeCleanup, LifeInspect DEF BridgeStep
<1>3. CASE Crash
  <2>1. UNCHANGED <<job, js, wl, granted>> /\ ResetTick /\ (UNCHANGED cache \/ cache' = js)
    BY <1>3 DEF Crash, slurmVars, kubeVars
  <2> QED
    BY <2>1, ForgetStep
<1>4. CASE \E j \in JobIDs : SlurmStep(j) \/ KubeProgress(j) \/ KubeDisturbance(j)
  BY <1>4, LifeSlurm, LifeKube
<1>5. CASE UNCHANGED vars
  BY <1>5 DEF vars, slurmVars, kubeVars, tickVars, LifeInv, Promises, SameSubmission, NoOldJobSet,
     Cached, OwnCapacityInHand, InHand, GatePassed, IsNext, IsAdmitted, Backed,
     AdmittedBeforeRelease, RunsOnOwnCapacity, Released
<1> QED
  BY <1>2, <1>3, <1>4, <1>5 DEF Next

\* The ordering guarantee of admitHeldJobs: whatever fails, crashes, is evicted,
\* deleted or resubmitted, a job that slurmctld may start was granted capacity by
\* Kueue for this very submission of its ID.
THEOREM AdmittedFirst == ASSUME Collected PROVE Spec => []AdmittedBeforeRelease
<1>1. LifeInv => AdmittedBeforeRelease
  BY DEF LifeInv
<1>2. Init => LifeInv
  BY LifeInitially
<1>3. LifeInv /\ [Next]_vars => LifeInv'
  BY LifeNextStep
<1> QED
  BY <1>1, <1>2, <1>3, PTL DEF Spec

\* A3: a released job never sits on a JobSet made for an earlier submission.
THEOREM OnOwnCapacity == ASSUME Collected PROVE Spec => []RunsOnOwnCapacity
<1>1. LifeInv => RunsOnOwnCapacity
  BY DEF LifeInv
<1>2. Init => LifeInv
  BY LifeInitially
<1>3. LifeInv /\ [Next]_vars => LifeInv'
  BY LifeNextStep
<1> QED
  BY <1>1, <1>2, <1>3, PTL DEF Spec

-----------------------------------------------------------------------------
(* The refinement: every step is a step of one job's life, or none         *)

\* Numbers of submissions only grow, and capacity granted to this submission
\* leaves no JobSet of an earlier one; a held job does not run, unless the priority
\* mirror held it while it ran.
Ordered ==
  \A j \in JobIDs :
    /\ js[j].inc <= job[j].inc /\ granted[j] <= job[j].inc
    /\ granted[j] = job[j].inc /\ job[j].inc # 0 => js[j].inc \in {0, job[j].inc}
    /\ job[j].st = "running" => ~job[j].held \/ job[j].mirrored

\* What the life of a job consists of, apart from the capacity.
SameLife(k) ==
  /\ job'[k].inc = job[k].inc /\ job'[k].st = job[k].st
  /\ job'[k].held <=> job[k].held
  /\ job'[k].mapped <=> job[k].mapped
  /\ job'[k].mirrored <=> job[k].mirrored

OnlyJob(j) == \A k \in JobIDs \ {j} : SameLife(k)

(* The ways in which a step can change the life of job j.                  *)
Quiet == (\A k \in JobIDs : SameLife(k)) /\ SameJobSets /\ UNCHANGED granted

MakesJobSet(j) ==
  /\ \A k \in JobIDs : SameLife(k)
  /\ UNCHANGED granted
  /\ js[j].inc = 0 /\ js'[j].inc = job[j].inc /\ job[j].inc # 0
  /\ \A k \in JobIDs \ {j} : js'[k].inc = js[k].inc

DropsJobSet(j) ==
  /\ \A k \in JobIDs : SameLife(k)
  /\ UNCHANGED granted
  /\ js[j].inc # 0 /\ js'[j].inc = 0
  /\ \A k \in JobIDs \ {j} : js'[k].inc = js[k].inc

ChangesState(j, from, to) ==
  /\ OnlyJob(j) /\ SameJobSets /\ UNCHANGED granted
  /\ job[j].st = from /\ job'[j].st = to
  /\ job'[j].inc = job[j].inc
  /\ job'[j].held <=> job[j].held
  /\ job'[j].mapped <=> job[j].mapped
  /\ job'[j].mirrored <=> job[j].mirrored

FreesJob(j) ==
  /\ OnlyJob(j) /\ SameJobSets /\ UNCHANGED granted
  /\ job[j].st = "pending" /\ job'[j].st = "pending"
  /\ job'[j].inc = job[j].inc
  /\ ~job'[j].held /\ ~job'[j].mirrored /\ job[j].mapped /\ job'[j].mapped
  /\ granted[j] = job[j].inc /\ js[j].inc \in {0, job[j].inc}

ForgetsJob(j) ==
  /\ OnlyJob(j) /\ SameJobSets /\ UNCHANGED granted
  /\ job[j].st = "terminal" /\ job'[j].st = "none"
  /\ job'[j].inc = job[j].inc

NewJob(j) ==
  /\ OnlyJob(j) /\ SameJobSets /\ UNCHANGED granted
  /\ job[j].st = "none" /\ job'[j].st = "pending"
  /\ job'[j].inc = job[j].inc + 1
  /\ job'[j].held \/ ~job'[j].mapped
  /\ ~job'[j].mirrored

MirrorsJob(j) ==
  /\ EnablePrioritySync
  /\ OnlyJob(j) /\ SameJobSets /\ UNCHANGED granted
  /\ Alive(job[j]) /\ job'[j].st = job[j].st
  /\ job'[j].inc = job[j].inc
  /\ job'[j].mirrored

GrantsCapacity(j) ==
  /\ \A k \in JobIDs : SameLife(k)
  /\ SameJobSets
  /\ js[j].inc # 0
  /\ granted' = [granted EXCEPT ![j] = js[j].inc]

WorldStep(j) ==
  \/ MakesJobSet(j) \/ DropsJobSet(j) \/ FreesJob(j) \/ ForgetsJob(j) \/ NewJob(j)
  \/ GrantsCapacity(j) \/ MirrorsJob(j)
  \/ ChangesState(j, "pending", "running") /\ ~job[j].held
  \/ ChangesState(j, "running", "pending")
  \/ ChangesState(j, "pending", "terminal") \/ ChangesState(j, "running", "terminal")

\* Stage, case by case.
LEMMA StageCases ==
  ASSUME TypeOK, NEW j \in JobIDs
  PROVE  /\ job[j].st = "none" => Stage(j) = "absent"
         /\ job[j].st = "terminal" => Stage(j) = "ended"
         /\ Alive(job[j]) /\ job[j].mirrored => Stage(j) = "mirrored"
         /\ Alive(job[j]) /\ ~job[j].mirrored /\ ~job[j].mapped
              => Stage(j) = IF job[j].held THEN "refused" ELSE "foreign"
         /\ HeldPending(job[j]) /\ ~job[j].mirrored /\ job[j].mapped
              => Stage(j) = IF granted[j] = job[j].inc THEN "granted" ELSE "waiting"
         /\ Alive(job[j]) /\ ~job[j].mirrored /\ job[j].mapped /\ ~job[j].held
              => Stage(j) = IF job[j].st = "running" THEN "running" ELSE "released"
BY DEF Stage, Released

LEMMA StageCasesNext ==
  ASSUME TypeOK', NEW j \in JobIDs
  PROVE  /\ job'[j].st = "none" => Stage(j)' = "absent"
         /\ job'[j].st = "terminal" => Stage(j)' = "ended"
         /\ Alive(job'[j]) /\ job'[j].mirrored => Stage(j)' = "mirrored"
         /\ Alive(job'[j]) /\ ~job'[j].mirrored /\ ~job'[j].mapped
              => Stage(j)' = IF job'[j].held THEN "refused" ELSE "foreign"
         /\ HeldPending(job'[j]) /\ ~job'[j].mirrored /\ job'[j].mapped
              => Stage(j)' = IF granted'[j] = job'[j].inc THEN "granted" ELSE "waiting"
         /\ Alive(job'[j]) /\ ~job'[j].mirrored /\ job'[j].mapped /\ ~job'[j].held
              => Stage(j)' = IF job'[j].st = "running" THEN "running" ELSE "released"
BY DEF Stage, Released

\* The order is kept by each way of changing the life of a job.
LEMMA OrderKept ==
  ASSUME TypeOK, TypeOK', Ordered, Quiet \/ \E j \in JobIDs : WorldStep(j)
  PROVE  Ordered'
<1> SUFFICES ASSUME NEW k \in JobIDs
             PROVE  /\ js'[k].inc <= job'[k].inc /\ granted'[k] <= job'[k].inc
                    /\ granted'[k] = job'[k].inc /\ job'[k].inc # 0 => js'[k].inc \in {0, job'[k].inc}
                    /\ job'[k].st = "running" => ~job'[k].held \/ job'[k].mirrored
  BY DEF Ordered
<1>1. /\ js[k].inc <= job[k].inc /\ granted[k] <= job[k].inc
      /\ granted[k] = job[k].inc /\ job[k].inc # 0 => js[k].inc \in {0, job[k].inc}
      /\ job[k].st = "running" => ~job[k].held \/ job[k].mirrored
  BY DEF Ordered
<1>2. /\ job[k].inc \in Nat /\ js[k].inc \in Nat /\ granted[k] \in Nat
      /\ job'[k].inc \in Nat /\ js'[k].inc \in Nat /\ granted'[k] \in Nat
  BY DEF TypeOK, JobRecord, JobSetRecord
<1>3. CASE Quiet
  BY <1>1, <1>3 DEF Quiet, SameLife, SameJobSets
<1>4. ASSUME NEW j \in JobIDs, WorldStep(j), k # j
      PROVE  /\ job'[k].inc = job[k].inc /\ js'[k].inc = js[k].inc /\ granted'[k] = granted[k]
             /\ job'[k].st = job[k].st /\ (job'[k].held <=> job[k].held)
             /\ job'[k].mirrored <=> job[k].mirrored
  <2>1. SameLife(k)
    BY <1>4 DEF WorldStep, MakesJobSet, DropsJobSet, FreesJob, ForgetsJob, NewJob,
       GrantsCapacity, MirrorsJob, ChangesState, OnlyJob
  <2>2. js'[k].inc = js[k].inc
    BY <1>4 DEF WorldStep, MakesJobSet, DropsJobSet, FreesJob, ForgetsJob, NewJob,
       GrantsCapacity, MirrorsJob, ChangesState, SameJobSets
  <2>3. granted'[k] = granted[k]
    BY <1>4 DEF WorldStep, MakesJobSet, DropsJobSet, FreesJob, ForgetsJob, NewJob,
       GrantsCapacity, MirrorsJob, ChangesState, TypeOK
  <2> QED
    BY <2>1, <2>2, <2>3 DEF SameLife
<1>5. ASSUME WorldStep(k)
      PROVE  /\ js'[k].inc <= job'[k].inc /\ granted'[k] <= job'[k].inc
             /\ granted'[k] = job'[k].inc /\ job'[k].inc # 0 => js'[k].inc \in {0, job'[k].inc}
             /\ job'[k].st = "running" => ~job'[k].held \/ job'[k].mirrored
  <2>1. CASE MakesJobSet(k)
    BY <1>1, <1>2, <2>1 DEF MakesJobSet, SameLife
  <2>2. CASE DropsJobSet(k)
    BY <1>1, <1>2, <2>2 DEF DropsJobSet, SameLife
  <2>3. CASE FreesJob(k)
    BY <1>1, <1>2, <2>3 DEF FreesJob, SameJobSets
  <2>4. CASE ForgetsJob(k)
    BY <1>1, <1>2, <2>4 DEF ForgetsJob, SameJobSets
  <2>5. CASE NewJob(k)
    BY <1>1, <1>2, <2>5 DEF NewJob, SameJobSets
  <2>6. CASE GrantsCapacity(k)
    <3>1. granted'[k] = js[k].inc
      BY <2>6 DEF GrantsCapacity, TypeOK
    <3> QED
      BY <1>1, <1>2, <2>6, <3>1 DEF GrantsCapacity, SameJobSets, SameLife
  <2>7. CASE ChangesState(k, "pending", "running") /\ ~job[k].held
    BY <1>1, <1>2, <2>7 DEF ChangesState, SameJobSets
  <2>8. CASE ChangesState(k, "running", "pending")
    BY <1>1, <1>2, <2>8 DEF ChangesState, SameJobSets
  <2>9. CASE ChangesState(k, "pending", "terminal") \/ ChangesState(k, "running", "terminal")
    BY <1>1, <1>2, <2>9 DEF ChangesState, SameJobSets
  <2>10. CASE MirrorsJob(k)
    BY <1>1, <1>2, <2>10 DEF MirrorsJob, SameJobSets
  <2> QED
    BY <1>5, <2>1, <2>2, <2>3, <2>4, <2>5, <2>6, <2>7, <2>8, <2>9, <2>10 DEF WorldStep
<1>6. ASSUME NEW j \in JobIDs, WorldStep(j), k # j
      PROVE  /\ js'[k].inc <= job'[k].inc /\ granted'[k] <= job'[k].inc
             /\ granted'[k] = job'[k].inc /\ job'[k].inc # 0 => js'[k].inc \in {0, job'[k].inc}
             /\ job'[k].st = "running" => ~job'[k].held \/ job'[k].mirrored
  BY <1>1, <1>4, <1>6
<1> QED
  BY <1>3, <1>5, <1>6

\* A job whose life and capacity are untouched is where it was.
LEMMA StageKept ==
  ASSUME TypeOK, TypeOK', Ordered, NEW k \in JobIDs, SameLife(k), granted'[k] = granted[k]
  PROVE  Stage(k)' = Stage(k)
<1>1. job[k].st \in {"none", "pending", "running", "terminal"}
  BY DEF TypeOK, JobRecord
<1>2. job[k].st = "running" => ~job[k].held \/ job[k].mirrored
  BY DEF Ordered
<1>3. CASE job[k].st \in {"none", "terminal"}
  BY <1>3 DEF SameLife, Stage
<1>4. CASE job[k].st = "running"
  BY <1>2, <1>4 DEF SameLife, Stage, Released
<1>5. CASE job[k].st = "pending"
  BY <1>5 DEF SameLife, Stage, Released
<1> QED
  BY <1>1, <1>3, <1>4, <1>5

\* When one job goes to a stage and the others stay where they are.
LEMMA Becomes ==
  ASSUME NEW j \in JobIDs, NEW s, Stage(j)' = s, \A k \in JobIDs \ {j} : Stage(k)' = Stage(k)
  PROVE  Stages' = [Stages EXCEPT ![j] = s]
BY DEF Stages

LEMMA SubsKept ==
  ASSUME \A k \in JobIDs : job'[k].inc = job[k].inc
  PROVE  Subs' = Subs
BY DEF Subs

LEMMA ClaimsKept ==
  ASSUME SameJobSets
  PROVE  Claims' = Claims
BY DEF Claims, SameJobSets

LEMMA ClaimBecomes ==
  ASSUME NEW j \in JobIDs, NEW n, js'[j].inc = n,
         \A k \in JobIDs \ {j} : js'[k].inc = js[k].inc
  PROVE  Claims' = [Claims EXCEPT ![j] = n]
BY DEF Claims

LEMMA SubBecomes ==
  ASSUME NEW j \in JobIDs, NEW n, job'[j].inc = n,
         \A k \in JobIDs \ {j} : job'[k].inc = job[k].inc
  PROVE  Subs' = [Subs EXCEPT ![j] = n]
BY DEF Subs

\* A step that neither the life of a job nor its capacity is touched by stutters.
LEMMA QuietStutters ==
  ASSUME TypeOK, TypeOK', Ordered, Quiet
  PROVE  UNCHANGED <<Subs, Stages, Claims>>
<1>1. \A k \in JobIDs : Stage(k)' = Stage(k)
  BY StageKept DEF Quiet
<1>2. Stages' = Stages
  BY <1>1 DEF Stages
<1> QED
  BY <1>2, SubsKept, ClaimsKept DEF Quiet, SameLife

\* The capacity of a job comes and goes.
LEMMA CapacityMaps ==
  ASSUME TypeOK, TypeOK', Ordered, NEW j \in JobIDs, MakesJobSet(j) \/ DropsJobSet(j)
  PROVE  Lifecycle!Claims(j) \/ Lifecycle!GivesUp(j)
<1>1. Stages' = Stages
  <2>1. \A k \in JobIDs : Stage(k)' = Stage(k)
    BY StageKept DEF MakesJobSet, DropsJobSet
  <2> QED
    BY <2>1 DEF Stages
<1>2. Subs' = Subs
  BY SubsKept DEF MakesJobSet, DropsJobSet, SameLife
<1>3. Claims[j] = js[j].inc /\ Subs[j] = job[j].inc
  BY DEF Claims, Subs
<1>4. CASE MakesJobSet(j)
  <2>1. Claims' = [Claims EXCEPT ![j] = Subs[j]]
    BY <1>3, <1>4, ClaimBecomes DEF MakesJobSet
  <2> QED
    BY <1>1, <1>2, <1>3, <1>4, <2>1 DEF MakesJobSet, Lifecycle!Claims
<1>5. CASE DropsJobSet(j)
  <2>1. Claims' = [Claims EXCEPT ![j] = 0]
    BY <1>5, ClaimBecomes DEF DropsJobSet
  <2> QED
    BY <1>1, <1>2, <1>3, <1>5, <2>1 DEF DropsJobSet, Lifecycle!GivesUp
<1> QED
  BY <1>4, <1>5

\* Capacity granted to a waiting job; to any other, or to an earlier submission,
\* it makes no difference.
LEMMA GrantMaps ==
  ASSUME TypeOK, TypeOK', Ordered, NEW j \in JobIDs, GrantsCapacity(j)
  PROVE  Lifecycle!Granted(j) \/ UNCHANGED <<Subs, Stages, Claims>>
<1>1. granted'[j] = js[j].inc /\ \A k \in JobIDs \ {j} : granted'[k] = granted[k]
  BY DEF GrantsCapacity, TypeOK
<1>2. Subs' = Subs /\ Claims' = Claims /\ Claims[j] = js[j].inc /\ Subs[j] = job[j].inc
  BY SubsKept, ClaimsKept DEF GrantsCapacity, SameLife, Subs, Claims
<1>3. \A k \in JobIDs \ {j} : Stage(k)' = Stage(k)
  BY <1>1, StageKept DEF GrantsCapacity
<1>4. CASE HeldPending(job[j]) /\ ~job[j].mirrored /\ job[j].mapped /\ granted[j] # job[j].inc /\ js[j].inc = job[j].inc
  <2>1. HeldPending(job'[j]) /\ ~job'[j].mirrored /\ job'[j].mapped /\ granted'[j] = job'[j].inc
    BY <1>1, <1>4 DEF GrantsCapacity, SameLife
  <2>2. Stage(j) = "waiting" /\ Stage(j)' = "granted"
    BY <1>4, <2>1, StageCases, StageCasesNext
  <2>3. Stages' = [Stages EXCEPT ![j] = "granted"] /\ Stages[j] = "waiting"
    BY <1>3, <2>2, Becomes DEF Stages
  <2> QED
    BY <1>2, <1>4, <2>3 DEF Lifecycle!Granted, Lifecycle!Become
<1>5. CASE ~(HeldPending(job[j]) /\ ~job[j].mirrored /\ job[j].mapped /\ granted[j] # job[j].inc /\ js[j].inc = job[j].inc)
  <2>1. SameLife(j)
    BY DEF GrantsCapacity
  <2>2. Stage(j)' = Stage(j)
    <3>1. CASE HeldPending(job[j]) /\ ~job[j].mirrored /\ job[j].mapped
      <4>1. (granted'[j] = job'[j].inc) <=> (granted[j] = job[j].inc)
        <5>1. js[j].inc \in Nat /\ job[j].inc \in Nat /\ js[j].inc # 0
          BY DEF TypeOK, JobSetRecord, JobRecord, GrantsCapacity
        <5>2. job[j].inc # 0
          BY <5>1 DEF Ordered
        <5>3. granted[j] = job[j].inc => js[j].inc = job[j].inc
          BY <5>1, <5>2 DEF Ordered
        <5>4. job'[j].inc = job[j].inc
          BY <2>1 DEF SameLife
        <5> QED
          BY <1>1, <1>5, <3>1, <5>3, <5>4
      <4>2. HeldPending(job'[j]) /\ ~job'[j].mirrored /\ job'[j].mapped
        BY <2>1, <3>1 DEF SameLife
      <4> QED
        BY <3>1, <4>1, <4>2, StageCases, StageCasesNext
    <3>2. CASE ~(HeldPending(job[j]) /\ ~job[j].mirrored /\ job[j].mapped)
      <4>1. job[j].st \in {"none", "pending", "running", "terminal"}
        BY DEF TypeOK, JobRecord
      <4>2. job[j].st = "running" => ~job[j].held \/ job[j].mirrored
        BY DEF Ordered
      <4> QED
        BY <2>1, <3>2, <4>1, <4>2, StageCases, StageCasesNext DEF SameLife
    <3> QED
      BY <3>1, <3>2
  <2>3. Stages' = Stages
    BY <1>3, <2>2 DEF Stages
  <2> QED
    BY <1>2, <2>3
<1> QED
  BY <1>4, <1>5

\* The stages of the jobs that a step does not touch.
LEMMA OthersStay ==
  ASSUME TypeOK, TypeOK', Ordered, NEW j \in JobIDs, OnlyJob(j), SameJobSets, UNCHANGED granted
  PROVE  (\A k \in JobIDs \ {j} : Stage(k)' = Stage(k)) /\ Claims' = Claims
BY StageKept, ClaimsKept DEF OnlyJob

\* The release.
LEMMA ReleaseMaps ==
  ASSUME TypeOK, TypeOK', Ordered, NEW j \in JobIDs, FreesJob(j)
  PROVE  Lifecycle!IsReleased(j) \/ UNCHANGED <<Subs, Stages, Claims>>
<1>1. (\A k \in JobIDs \ {j} : Stage(k)' = Stage(k)) /\ Claims' = Claims
  BY OthersStay DEF FreesJob
<1>2. Subs' = Subs
  BY SubsKept DEF FreesJob, OnlyJob, SameLife
<1>3. Stage(j)' = "released"
  BY StageCasesNext DEF FreesJob
<1>4. Stages' = [Stages EXCEPT ![j] = "released"] /\ Stages[j] = Stage(j)
  BY <1>1, <1>3, Becomes DEF Stages
<1>5. Claims[j] \in {0, Subs[j]}
  BY DEF FreesJob, Claims, Subs
<1>6. CASE job[j].held \/ job[j].mirrored
  <2>1. Stages[j] \in {"granted", "mirrored"}
    BY <1>4, <1>6, StageCases DEF FreesJob
  <2> QED
    BY <1>1, <1>2, <1>4, <1>5, <2>1 DEF Lifecycle!IsReleased, Lifecycle!Become
<1>7. CASE ~job[j].held /\ ~job[j].mirrored
  <2>1. Stage(j) = "released"
    BY <1>7, StageCases DEF FreesJob
  <2>2. Stages' = Stages
    BY <1>1, <1>3, <2>1 DEF Stages
  <2> QED
    BY <1>1, <1>2, <2>2
<1> QED
  BY <1>6, <1>7

\* A purged job, and a new one.
LEMMA ForgottenMaps ==
  ASSUME TypeOK, TypeOK', Ordered, NEW j \in JobIDs, ForgetsJob(j)
  PROVE  Lifecycle!Forgotten(j)
<1>1. (\A k \in JobIDs \ {j} : Stage(k)' = Stage(k)) /\ Claims' = Claims
  BY OthersStay DEF ForgetsJob
<1>2. Subs' = Subs
  BY SubsKept DEF ForgetsJob, OnlyJob, SameLife
<1>3. Stage(j) = "ended" /\ Stage(j)' = "absent"
  BY StageCases, StageCasesNext DEF ForgetsJob
<1>4. Stages' = [Stages EXCEPT ![j] = "absent"] /\ Stages[j] = "ended"
  BY <1>1, <1>3, Becomes DEF Stages
<1> QED
  BY <1>1, <1>2, <1>4 DEF Lifecycle!Forgotten, Lifecycle!Become

LEMMA NewMaps ==
  ASSUME TypeOK, TypeOK', Ordered, NEW j \in JobIDs, NewJob(j)
  PROVE  Lifecycle!Arrives(j)
<1>1. (\A k \in JobIDs \ {j} : Stage(k)' = Stage(k)) /\ Claims' = Claims
  BY OthersStay DEF NewJob
<1>2. Subs[j] = job[j].inc /\ \A k \in JobIDs \ {j} : job'[k].inc = job[k].inc
  BY DEF NewJob, OnlyJob, SameLife, Subs
<1>3. Subs' = [Subs EXCEPT ![j] = Subs[j] + 1]
  BY <1>2, SubBecomes DEF NewJob
<1>4. Stage(j) = "absent"
  BY StageCases DEF NewJob
<1>5. granted'[j] # job'[j].inc
  <2>1. granted[j] \in Nat /\ job[j].inc \in Nat /\ granted[j] <= job[j].inc
    BY DEF TypeOK, JobRecord, Ordered
  <2>2. granted'[j] = granted[j] /\ job'[j].inc = job[j].inc + 1
    BY DEF NewJob
  <2> QED
    BY <2>1, <2>2
<1>6. PICK s \in {"waiting", "refused", "foreign"} : Stage(j)' = s
  <2>1. CASE job'[j].mapped
    <3>1. HeldPending(job'[j]) /\ ~job'[j].mirrored
      BY <2>1 DEF NewJob
    <3> QED
      BY <1>5, <2>1, <3>1, StageCasesNext
  <2>2. CASE ~job'[j].mapped
    <3>1. Alive(job'[j]) /\ ~job'[j].mirrored
      BY DEF NewJob
    <3> QED
      BY <2>2, <3>1, StageCasesNext
  <2> QED
    BY <2>1, <2>2
<1>7. Stages' = [Stages EXCEPT ![j] = s] /\ Stages[j] = "absent"
  BY <1>1, <1>4, <1>6, Becomes DEF Stages
<1> QED
  BY <1>1, <1>3, <1>6, <1>7 DEF Lifecycle!Arrives, Lifecycle!Become

\* The state of a job that lives; Slurm may start and requeue jobs of other
\* partitions without a trace.
LEMMA StateMaps ==
  ASSUME TypeOK, TypeOK', Ordered, NEW j \in JobIDs,
         \/ ChangesState(j, "pending", "running") /\ ~job[j].held
         \/ ChangesState(j, "running", "pending")
         \/ ChangesState(j, "pending", "terminal") \/ ChangesState(j, "running", "terminal")
  PROVE  Lifecycle!Runs(j) \/ Lifecycle!Ends(j) \/ UNCHANGED <<Subs, Stages, Claims>>
<1>1. (\A k \in JobIDs \ {j} : Stage(k)' = Stage(k)) /\ Claims' = Claims
  BY OthersStay DEF ChangesState
<1>2. Subs' = Subs
  BY SubsKept DEF ChangesState, OnlyJob, SameLife
<1>3. \A s : Stage(j)' = s => Stages' = [Stages EXCEPT ![j] = s]
  BY <1>1, Becomes
<1>4. Stages[j] = Stage(j)
  BY DEF Stages
<1>5. CASE job'[j].st = "terminal"
  <2>1. Stage(j)' = "ended"
    BY <1>5, StageCasesNext
  <2>2. Stage(j) \notin {"absent", "ended"}
    <3>1. job[j].st \in {"pending", "running"}
      BY DEF ChangesState
    <3>2. job[j].st = "running" => ~job[j].held \/ job[j].mirrored
      BY DEF Ordered
    <3> QED
      BY <3>1, <3>2, StageCases
  <2> QED
    BY <1>1, <1>2, <1>3, <1>4, <2>1, <2>2 DEF Lifecycle!Ends, Lifecycle!Become
<1>6. CASE job'[j].st # "terminal"
  <2>1. /\ job[j].mirrored \/ (~job[j].held /\ ~job'[j].held)
        /\ job'[j].mirrored <=> job[j].mirrored
        /\ job'[j].mapped <=> job[j].mapped
        /\ \/ job[j].st = "pending" /\ job'[j].st = "running"
           \/ job[j].st = "running" /\ job'[j].st = "pending"
    BY <1>6 DEF ChangesState, Ordered
  <2>4. CASE job[j].mirrored
    <3>1. Stage(j) = "mirrored" /\ Stage(j)' = "mirrored"
      BY <2>1, <2>4, StageCases, StageCasesNext
    <3>2. Stages' = Stages
      BY <1>1, <3>1 DEF Stages
    <3> QED
      BY <1>1, <1>2, <3>2
  <2>2. CASE ~job[j].mirrored /\ job[j].mapped
    <3>1. \/ Stage(j) = "released" /\ Stage(j)' = "running"
          \/ Stage(j) = "running" /\ Stage(j)' = "released"
      BY <2>1, <2>2, StageCases, StageCasesNext
    <3> QED
      BY <1>1, <1>2, <1>3, <1>4, <3>1 DEF Lifecycle!Runs, Lifecycle!Become
  <2>3. CASE ~job[j].mirrored /\ ~job[j].mapped
    <3>1. Stage(j) = "foreign" /\ Stage(j)' = "foreign"
      BY <2>1, <2>3, StageCases, StageCasesNext
    <3>2. Stages' = Stages
      BY <1>1, <3>1 DEF Stages
    <3> QED
      BY <1>1, <1>2, <3>2
  <2> QED
    BY <2>2, <2>3, <2>4
<1> QED
  BY <1>5, <1>6

\* The priority mirror.
LEMMA MirrorMaps ==
  ASSUME TypeOK, TypeOK', Ordered, NEW j \in JobIDs, MirrorsJob(j)
  PROVE  Lifecycle!Mirrors(j)
<1>1. (\A k \in JobIDs \ {j} : Stage(k)' = Stage(k)) /\ Claims' = Claims
  BY OthersStay DEF MirrorsJob
<1>2. Subs' = Subs
  BY SubsKept DEF MirrorsJob, OnlyJob, SameLife
<1>3. Stage(j)' = "mirrored"
  BY StageCasesNext DEF MirrorsJob
<1>4. Stages' = [Stages EXCEPT ![j] = "mirrored"] /\ Stages[j] = Stage(j)
  BY <1>1, <1>3, Becomes DEF Stages
<1>5. Stage(j) \notin {"absent", "ended"}
  <2>1. job[j].st = "running" => ~job[j].held \/ job[j].mirrored
    BY DEF Ordered
  <2>2. job[j].st \in {"pending", "running"}
    BY DEF MirrorsJob
  <2> QED
    BY <2>1, <2>2, StageCases
<1> QED
  BY <1>1, <1>2, <1>4, <1>5 DEF MirrorsJob, Lifecycle!Mirrors, Lifecycle!Become

\* Together: what can happen to a job is a step of its life, or none.
LEMMA LifeMaps ==
  ASSUME TypeOK, TypeOK', Ordered, Quiet \/ \E j \in JobIDs : WorldStep(j)
  PROVE  [Lifecycle!LifeNext]_<<Subs, Stages, Claims>>
<1>1. CASE Quiet
  BY <1>1, QuietStutters
<1>2. ASSUME NEW j \in JobIDs, WorldStep(j)
      PROVE  [Lifecycle!LifeNext]_<<Subs, Stages, Claims>>
  BY <1>2, CapacityMaps, GrantMaps, ReleaseMaps, ForgottenMaps, NewMaps, StateMaps,
     MirrorMaps DEF WorldStep, Lifecycle!LifeNext
<1> QED
  BY <1>1, <1>2

-----------------------------------------------------------------------------
(* Every step is one of those                                              *)

\* A comment and the pin change nothing of a job's life.
LEMMA LifeUntouched ==
  ASSUME TypeOK, NEW j,
         \/ job' = job
         \/ job' = [job EXCEPT ![j] = Pinned(job[j])]
         \/ \E c \in {"bridge", "unmanaged"} : job' = [job EXCEPT ![j].comment = c]
  PROVE  \A k \in JobIDs : SameLife(k)
<1>1. job \in [JobIDs -> JobRecord]
  BY DEF TypeOK
<1> SUFFICES ASSUME NEW k \in JobIDs PROVE SameLife(k)
  OBVIOUS
<1>2. job[k] \in JobRecord
  BY <1>1
<1>3. CASE job'[k] = job[k]
  BY <1>3 DEF SameLife
<1>4. CASE job'[k] = [job[k] EXCEPT !.pinned = TRUE]
  BY <1>2, <1>4 DEF SameLife, JobRecord
<1>5. ASSUME NEW c \in {"bridge", "unmanaged"}, job'[k] = [job[k] EXCEPT !.comment = c]
      PROVE  SameLife(k)
  BY <1>2, <1>5 DEF SameLife, JobRecord
<1>6. CASE \E c \in {"bridge", "unmanaged"} : job' = [job EXCEPT ![j].comment = c]
  BY <1>1, <1>3, <1>5, <1>6
<1>7. CASE job' = [job EXCEPT ![j] = Pinned(job[j])]
  BY <1>1, <1>3, <1>4, <1>7 DEF Pinned
<1> QED
  BY <1>3, <1>6, <1>7

\* A change of state changes nothing else.
LEMMA StateChanged ==
  ASSUME TypeOK, NEW j \in JobIDs, NEW s, job' = [job EXCEPT ![j].st = s],
         SameJobSets, UNCHANGED granted
  PROVE  ChangesState(j, job[j].st, s)
<1>1. job \in [JobIDs -> JobRecord] /\ job[j] \in JobRecord
  BY DEF TypeOK
<1>2. \A k \in JobIDs \ {j} : job'[k] = job[k]
  BY <1>1
<1>3. OnlyJob(j)
  BY <1>2 DEF OnlyJob, SameLife
<1>4. job'[j] = [job[j] EXCEPT !.st = s]
  BY <1>1
<1>5. job'[j].st = s /\ job'[j].inc = job[j].inc
  BY <1>1, <1>4 DEF JobRecord
<1>6. job'[j].held <=> job[j].held
  BY <1>1, <1>4 DEF JobRecord
<1>7. job'[j].mapped <=> job[j].mapped
  BY <1>1, <1>4 DEF JobRecord
<1>8. job'[j].mirrored <=> job[j].mirrored
  BY <1>1, <1>4 DEF JobRecord
<1> QED
  BY <1>3, <1>5, <1>6, <1>7, <1>8 DEF ChangesState

\* The priority mirror changes the hold of one job and leaves a trace, or nothing.
LEMMA MirrorEffect ==
  ASSUME TypeOK, EnablePrioritySync, SameJobSets, UNCHANGED granted,
         NEW j \in JobIDs, NEW h \in BOOLEAN, Alive(job[j]),
         job' = [job EXCEPT ![j] = Mirrored(job[j], h)]
  PROVE  MirrorsJob(j) \/ \A k \in JobIDs : SameLife(k)
<1>1. job \in [JobIDs -> JobRecord] /\ job[j] \in JobRecord
  BY DEF TypeOK
<1>2. \A k \in JobIDs \ {j} : job'[k] = job[k]
  BY <1>1
<1>3. OnlyJob(j)
  BY <1>2 DEF OnlyJob, SameLife
<1>4. job'[j] = Mirrored(job[j], h)
  BY <1>1
<1>5. /\ job'[j].st = job[j].st /\ job'[j].inc = job[j].inc
      /\ job'[j].mapped <=> job[j].mapped
      /\ job'[j].held <=> h
      /\ job'[j].mirrored <=> (job[j].mirrored \/ job[j].held # h)
  BY <1>1, <1>4 DEF Mirrored, JobRecord
<1>6. CASE job[j].mirrored \/ job[j].held # h
  BY <1>3, <1>5, <1>6 DEF MirrorsJob
<1>7. CASE ~job[j].mirrored /\ job[j].held = h
  <2>1. SameLife(j)
    BY <1>5, <1>7 DEF SameLife
  <2> QED
    BY <1>3, <2>1 DEF OnlyJob
<1> QED
  BY <1>6, <1>7

\* A JobSet that goes leaves the others.
LEMMA GoneDrops ==
  ASSUME TypeOK, NEW j \in JobIDs, Exists(js[j]), JobSetGone(j), UNCHANGED <<job, granted>>
  PROVE  DropsJobSet(j)
<1>1. \A k \in JobIDs : SameLife(k)
  BY LifeUntouched
<1>2. js'[j] = NoJobSet /\ \A k \in JobIDs \ {j} : js'[k] = js[k]
  BY DEF JobSetGone, TypeOK
<1> QED
  BY <1>1, <1>2 DEF DropsJobSet, NoJobSet

\* The listing, the turns and the pin.
LEMMA QuietSteps ==
  ASSUME TypeOK, NEW j \in JobIDs,
         \/ ListJobs \/ ListingFails \/ TakeSnapshot \/ StartAdmission \/ EndAdmission
         \/ ExplainFailure \/ ReleaseNodes \/ EndTick \/ Crash
         \/ SignalUnmanaged(j) \/ GetExisting(j) \/ PropagateStatus(j) \/ Pin(j) \/ InspectJob(j)
  PROVE  Quiet
<1> USE DEF slurmVars, kubeVars
<1>1. UNCHANGED <<js, granted>>
  BY DEF ListJobs, ListingFails, TakeSnapshot, StartAdmission, EndAdmission, ExplainFailure,
     ReleaseNodes, EndTick, Crash, SignalUnmanaged, GetExisting, PropagateStatus, Pin, InspectJob
<1>2. \/ UNCHANGED job
      \/ job' = [job EXCEPT ![j] = Pinned(job[j])]
      \/ \E k \in {j, cur}, c \in {"bridge", "unmanaged"} : job' = [job EXCEPT ![k].comment = c]
  <2>1. CASE Pin(j)
    BY <2>1 DEF Pin
  <2>2. CASE PropagateStatus(j)
    BY <2>2 DEF PropagateStatus
  <2>3. CASE SignalUnmanaged(j)
    BY <2>3 DEF SignalUnmanaged
  <2>4. CASE ExplainFailure
    BY <2>4 DEF ExplainFailure
  <2>5. CASE \/ ListJobs \/ ListingFails \/ TakeSnapshot \/ StartAdmission \/ EndAdmission
             \/ ReleaseNodes \/ EndTick \/ Crash \/ GetExisting(j) \/ InspectJob(j)
    BY <2>5 DEF ListJobs, ListingFails, TakeSnapshot, StartAdmission, EndAdmission, ReleaseNodes,
       EndTick, Crash, GetExisting, InspectJob
  <2> QED
    BY <2>1, <2>2, <2>3, <2>4, <2>5
<1>3. \A k \in JobIDs : SameLife(k)
  BY <1>2, LifeUntouched
<1> QED
  BY <1>1, <1>3 DEF Quiet, SameJobSets

\* Phase 1 makes a JobSet for the submission that has the ID.
LEMMA CreateIsWorld ==
  ASSUME LifeInv, NEW j \in JobIDs, CreateJobSet(j)
  PROVE  Quiet \/ MakesJobSet(j)
<1> USE DEF slurmVars
<1>0. TypeOK
  BY DEF LifeInv, RunawayInv
<1>1. UNCHANGED <<job, granted>> /\ pc = "create" /\ j \in todo
  BY DEF CreateJobSet
<1>2. byID[j].inc = job[j].inc /\ job[j].inc # 0
  BY <1>1 DEF LifeInv, RunawayInv, ListedOnly, SameSubmission
<1>3. \A k \in JobIDs : SameLife(k)
  BY <1>0, <1>1, LifeUntouched
<1>4. CASE js' = js
  BY <1>1, <1>3, <1>4 DEF Quiet, SameJobSets
<1>5. CASE ~Exists(js[j]) /\ js' = [js EXCEPT ![j] = [NoJobSet EXCEPT !.inc = byID[j].inc]]
  <2>1. js'[j].inc = byID[j].inc /\ \A k \in JobIDs \ {j} : js'[k] = js[k]
    BY <1>0, <1>5 DEF TypeOK, NoJobSet
  <2> QED
    BY <1>1, <1>2, <1>3, <1>5, <2>1 DEF MakesJobSet
<1> QED
  BY <1>4, <1>5 DEF CreateJobSet

\* Phase 2 frees a job whose capacity was granted.
LEMMA ReleaseIsWorld ==
  ASSUME LifeInv, NEW j \in JobIDs, Release(j)
  PROVE  Quiet \/ FreesJob(j)
<1> USE DEF slurmVars, kubeVars
<1>0. TypeOK
  BY DEF LifeInv, RunawayInv
<1>1. UNCHANGED <<js, granted>>
  BY DEF Release
<1>2. CASE UNCHANGED job
  BY <1>0, <1>1, <1>2, LifeUntouched DEF Quiet, SameJobSets
<1>3. CASE job[j].st = "pending" /\ job' = [job EXCEPT ![j].held = FALSE, ![j].mirrored = FALSE]
  <2>1. job \in [JobIDs -> JobRecord] /\ job[j] \in JobRecord
    BY <1>0 DEF TypeOK
  <2>2. \A k \in JobIDs \ {j} : job'[k] = job[k]
    BY <1>3, <2>1
  <2>3. OnlyJob(j)
    BY <2>2 DEF OnlyJob, SameLife
  <2>4. job'[j] = [job[j] EXCEPT !.held = FALSE, !.mirrored = FALSE]
    BY <1>3, <2>1
  <2>5. job'[j].st = job[j].st /\ job'[j].inc = job[j].inc /\ ~job'[j].held /\ ~job'[j].mirrored
    BY <2>1, <2>4 DEF JobRecord
  <2>6. job'[j].mapped <=> job[j].mapped
    BY <2>1, <2>4 DEF JobRecord
  <2>7. granted[j] = job[j].inc /\ js[j].inc \in {0, job[j].inc} /\ job[j].mapped
    BY <1>3, LifeRelease
  <2> QED
    BY <1>1, <1>3, <2>3, <2>5, <2>6, <2>7 DEF FreesJob, SameJobSets
<1> QED
  BY <1>2, <1>3 DEF Release

\* Cleanup.
LEMMA CleanupIsWorld ==
  ASSUME Collected, LifeInv, Ordered,
         \/ StampRetention \/ FailJob \/ MarkNodesReleased \/ DeleteJobSet \/ DrainNodes
         \/ SyncPriority /\ EnablePrioritySync
  PROVE  Quiet \/ \E j \in JobIDs : WorldStep(j)
<1> USE DEF slurmVars, kubeVars
<1>0. TypeOK
  BY DEF LifeInv, RunawayInv
<1>1. CASE StampRetention \/ MarkNodesReleased
  <2>1. SameJobSets
    <3>1. \E v : PatchJobSet(v) /\ (cur \in JobIDs => v.inc = js[cur].inc)
      <4>1. cur \in JobIDs => js[cur] \in JobSetRecord
        BY <1>0 DEF TypeOK
      <4>2. cur \in JobIDs => /\ Stamped(js[cur]).inc = js[cur].inc
                              /\ [js[cur] EXCEPT !.rel = TRUE].inc = js[cur].inc
        BY <4>1 DEF Stamped, JobSetRecord
      <4> QED
        BY <1>1, <4>2 DEF StampRetention, MarkNodesReleased
    <3> QED
      BY <1>0, <3>1, PatchKeeps
  <2>2. UNCHANGED <<job, granted>>
    BY <1>1 DEF StampRetention, MarkNodesReleased
  <2> QED
    BY <1>0, <2>1, <2>2, LifeUntouched DEF Quiet
<1>2. CASE FailJob
  <2>1. SameJobSets /\ UNCHANGED granted
    BY <1>2 DEF FailJob, SameJobSets
  <2>2. job' = job \/ (Alive(job[cur]) /\ job' = [job EXCEPT ![cur].st = "terminal"])
    BY <1>2, Zenon DEF FailJob
  <2>3. CASE cur \notin JobIDs \/ job' = job
    <3>1. job' = job
      BY <1>0, <2>2, <2>3 DEF TypeOK
    <3> QED
      BY <1>0, <2>1, <3>1, LifeUntouched DEF Quiet
  <2>4. CASE cur \in JobIDs /\ job' # job
    <3>1. ChangesState(cur, job[cur].st, "terminal")
      BY <1>0, <2>1, <2>2, <2>4, StateChanged
    <3> QED
      BY <2>2, <2>4, <3>1 DEF WorldStep
  <2> QED
    BY <2>3, <2>4
<1>3. CASE DeleteJobSet
  <2>1. /\ UNCHANGED <<job, granted>>
        /\ \/ Exists(js[cur]) /\ JobSetGone(cur)
           \/ UNCHANGED js
    BY <1>3 DEF DeleteJobSet
  <2>2. CASE cur \notin JobIDs \/ UNCHANGED js
    <3>1. js' = js
      BY <1>0, <2>1, <2>2 DEF TypeOK, JobSetGone
    <3> QED
      BY <1>0, <2>1, <3>1, LifeUntouched DEF Quiet, SameJobSets
  <2>3. CASE cur \in JobIDs /\ Exists(js[cur]) /\ JobSetGone(cur)
    <3>1. DropsJobSet(cur)
      BY <1>0, <2>1, <2>3, GoneDrops
    <3> QED
      BY <2>3, <3>1 DEF WorldStep
  <2> QED
    BY <2>1, <2>2, <2>3
<1>4. CASE DrainNodes
  <2>1. SameJobSets /\ UNCHANGED granted
    BY <1>4 DEF DrainNodes, SameJobSets
  <2>2. job' = job \/ (job[cur].st = "running" /\ job' = [job EXCEPT ![cur].st = "pending"])
    BY <1>4 DEF DrainNodes
  <2>3. CASE cur \notin JobIDs \/ job' = job
    <3>1. job' = job
      BY <1>0, <2>2, <2>3 DEF TypeOK
    <3> QED
      BY <1>0, <2>1, <3>1, LifeUntouched DEF Quiet
  <2>4. CASE cur \in JobIDs /\ job' # job
    <3>1. ChangesState(cur, job[cur].st, "pending")
      BY <1>0, <2>1, <2>2, <2>4, StateChanged
    <3> QED
      BY <2>2, <2>4, <3>1 DEF WorldStep
  <2> QED
    BY <2>3, <2>4
<1>5. CASE SyncPriority /\ EnablePrioritySync
  <2>1. SameJobSets /\ UNCHANGED granted
    BY <1>5 DEF SyncPriority, SameJobSets
  <2>2. \/ job' = job
        \/ Alive(job[cur]) /\ \E h \in BOOLEAN : job' = [job EXCEPT ![cur] = Mirrored(job[cur], h)]
    BY <1>5 DEF SyncPriority
  <2>3. CASE cur \notin JobIDs \/ job' = job
    <3>1. job' = job
      BY <1>0, <2>2, <2>3 DEF TypeOK
    <3> QED
      BY <1>0, <2>1, <3>1, LifeUntouched DEF Quiet
  <2>4. CASE cur \in JobIDs /\ job' # job
    <3>1. PICK h \in BOOLEAN : job' = [job EXCEPT ![cur] = Mirrored(job[cur], h)]
      BY <2>2, <2>4
    <3>2. Alive(job[cur])
      BY <2>2, <2>4
    <3>3. MirrorsJob(cur) \/ \A k \in JobIDs : SameLife(k)
      BY <1>0, <1>5, <2>1, <2>4, <3>1, <3>2, MirrorEffect
    <3> QED
      BY <2>1, <2>4, <3>3 DEF Quiet, WorldStep
  <2> QED
    BY <2>3, <2>4
<1> QED
  BY <1>1, <1>2, <1>3, <1>4, <1>5

\* Slurm.
LEMMA SlurmIsWorld ==
  ASSUME LifeInv, NEW j \in JobIDs, SlurmStep(j)
  PROVE  Quiet \/ WorldStep(j)
<1>0. TypeOK /\ job \in [JobIDs -> JobRecord] /\ job[j] \in JobRecord
  BY DEF LifeInv, RunawayInv, TypeOK
<1>1. SameJobSets /\ UNCHANGED granted
  BY DEF SlurmStep, Submit, StartJob, RequeueJob, FinishJob, UserCancels, Purge, kubeVars, SameJobSets
<1>2. CASE Submit(j)
  <2>1. PICK held \in BOOLEAN, mapped \in BOOLEAN :
          /\ held \/ ~mapped
          /\ job' = [job EXCEPT ![j] =
                       [inc |-> job[j].inc + 1, st |-> "pending", held |-> held,
                        pinned |-> FALSE, mapped |-> mapped, comment |-> "fresh",
                        mirrored |-> FALSE]]
    BY <1>2 DEF Submit
  <2>2. /\ job'[j].inc = job[j].inc + 1 /\ job'[j].st = "pending"
        /\ \A k \in JobIDs \ {j} : job'[k] = job[k]
    BY <1>0, <2>1
  <2>3. (job'[j].held \/ ~job'[j].mapped) /\ ~job'[j].mirrored
    BY <1>0, <2>1
  <2>4. job[j].st = "none"
    BY <1>2 DEF Submit
  <2> QED
    BY <1>1, <2>2, <2>3, <2>4 DEF NewJob, WorldStep, OnlyJob, SameLife
<1>3. CASE Purge(j)
  <2>1. /\ job'[j].inc = job[j].inc /\ job'[j].st = "none" /\ job[j].st = "terminal"
        /\ \A k \in JobIDs \ {j} : job'[k] = job[k]
    BY <1>0, <1>3 DEF Purge, NoJob
  <2> QED
    BY <1>1, <2>1 DEF ForgetsJob, WorldStep, OnlyJob, SameLife
<1>4. CASE StartJob(j)
  BY <1>0, <1>1, <1>4, StateChanged DEF StartJob, SetState, WorldStep
<1>5. CASE RequeueJob(j)
  BY <1>0, <1>1, <1>5, StateChanged DEF RequeueJob, SetState, WorldStep
<1>6. CASE FinishJob(j)
  BY <1>0, <1>1, <1>6, StateChanged DEF FinishJob, SetState, WorldStep
<1>7. CASE UserCancels(j)
  BY <1>0, <1>1, <1>7, StateChanged DEF UserCancels, SetState, WorldStep
<1> QED
  BY <1>2, <1>3, <1>4, <1>5, <1>6, <1>7 DEF SlurmStep

\* Kubernetes.
LEMMA KubeIsWorld ==
  ASSUME LifeInv, NEW j \in JobIDs, KubeProgress(j) \/ KubeDisturbance(j)
  PROVE  Quiet \/ WorldStep(j)
<1>0. TypeOK
  BY DEF LifeInv, RunawayInv
<1>1. \A k \in JobIDs : SameLife(k)
  <2>1. UNCHANGED job
    BY DEF KubeProgress, KubeDisturbance, KueueQueues, KueueAdmits, CollectWorkload,
       RegisterNode, ExpireRetention, CacheSync, KueueEvicts, JobSetDies, OperatorDeletes, slurmVars
  <2> QED
    BY <1>0, <2>1, LifeUntouched
<1>2. CASE KueueAdmits(j)
  <2>1. /\ UNCHANGED js /\ granted' = [granted EXCEPT ![j] = js[j].inc]
        /\ Exists(js[j])
    BY <1>2, LifeAdmits DEF KueueAdmits
  <2> QED
    BY <1>1, <2>1 DEF GrantsCapacity, WorldStep, SameJobSets
<1>3. CASE OperatorDeletes(j)
  <2>1. DropsJobSet(j)
    BY <1>0, <1>3, GoneDrops DEF OperatorDeletes, slurmVars
  <2> QED
    BY <2>1 DEF WorldStep
<1>4. ASSUME KueueQueues(j) \/ CollectWorkload(j) \/ RegisterNode(j) \/ KueueEvicts(j)
             \/ JobSetDies(j) \/ ExpireRetention(j) \/ CacheSync(j)
      PROVE  Quiet
  <2>1. js' = js \/ js' = [js EXCEPT ![j].cond = "dead"] \/ js' = [js EXCEPT ![j].ret = "expired"]
    BY <1>4 DEF KueueQueues, CollectWorkload, RegisterNode, KueueEvicts, JobSetDies,
                ExpireRetention, CacheSync, kubeVars
  <2>2. UNCHANGED granted
    BY <1>4 DEF KueueQueues, CollectWorkload, RegisterNode, KueueEvicts, JobSetDies,
                ExpireRetention, CacheSync, kubeVars
  <2>3. SameJobSets
    <3>1. js \in [JobIDs -> JobSetRecord]
      BY <1>0 DEF TypeOK
    <3> QED
      BY <2>1, <3>1 DEF SameJobSets, JobSetRecord
  <2> QED
    BY <1>1, <2>2, <2>3 DEF Quiet
<1> QED
  BY <1>2, <1>3, <1>4 DEF KubeProgress, KubeDisturbance

\* The tick gets to the mirror of priorities only where that is enabled.
SyncEnabled == at = "sync" => EnablePrioritySync

LEMMA SyncKept == SyncEnabled /\ [Next]_vars => SyncEnabled'
<1> SUFFICES ASSUME [Next]_vars, at' = "sync", at # "sync" PROVE EnablePrioritySync
  BY DEF SyncEnabled
<1>1. DrainNodes \/ \E j \in JobIDs : InspectJob(j)
  BY Verdicts DEF Next, BridgeStep, SlurmStep, KubeProgress, KubeDisturbance, vars, tickVars,
     ListJobs, ListingFails, TakeSnapshot, StartAdmission, EndAdmission, StampRetention,
     ExplainFailure, FailJob, AfterFailedCancel, ReleaseNodes, MarkNodesReleased, DeleteJobSet,
     SyncPriority, EndTick, ResetTick, Crash, SignalUnmanaged, CreateJobSet, GetExisting,
     PropagateStatus, Pin, Release, NextJob, Submit, StartJob, RequeueJob, FinishJob,
     UserCancels, Purge, KueueQueues, KueueAdmits, CollectWorkload, RegisterNode,
     ExpireRetention, CacheSync, KueueEvicts, JobSetDies, OperatorDeletes
<1>2. CASE DrainNodes
  BY <1>2 DEF DrainNodes, MirrorStep
<1>3. ASSUME NEW j \in JobIDs, InspectJob(j) PROVE EnablePrioritySync
  BY <1>3 DEF InspectJob, CleanupStep, NodesOrDelete, AfterNodes, MirrorStep
<1> QED
  BY <1>1, <1>2, <1>3

LEMMA NextIsWorld ==
  ASSUME Collected, LifeInv, Ordered, SyncEnabled, [Next]_vars
  PROVE  Quiet \/ \E j \in JobIDs : WorldStep(j)
<1>0. TypeOK
  BY DEF LifeInv, RunawayInv
<1>1. CASE UNCHANGED vars
  <2>1. UNCHANGED <<job, js, granted>>
    BY <1>1 DEF vars, slurmVars, kubeVars
  <2> QED
    BY <1>0, <2>1, LifeUntouched DEF Quiet, SameJobSets
<1>2. ASSUME \/ ListJobs \/ ListingFails \/ TakeSnapshot \/ StartAdmission \/ EndAdmission
             \/ ExplainFailure \/ ReleaseNodes \/ EndTick \/ Crash
      PROVE  Quiet
  <2>1. CASE JobIDs = {}
    BY <1>2, <2>1 DEF Quiet, SameJobSets, ListJobs, ListingFails, TakeSnapshot, StartAdmission,
       EndAdmission, ExplainFailure, ReleaseNodes, EndTick, Crash, kubeVars
  <2>2. CASE JobIDs # {}
    BY <1>0, <1>2, <2>2, QuietSteps
  <2> QED
    BY <2>1, <2>2
<1>3. CASE \/ StampRetention \/ FailJob \/ MarkNodesReleased \/ DeleteJobSet \/ DrainNodes
           \/ SyncPriority
  <2>1. SyncPriority => EnablePrioritySync
    BY DEF SyncPriority, SyncEnabled
  <2> QED
    BY <1>3, <2>1, CleanupIsWorld
<1>4. ASSUME NEW j \in JobIDs,
             \/ SignalUnmanaged(j) \/ CreateJobSet(j) \/ GetExisting(j)
             \/ PropagateStatus(j) \/ Pin(j) \/ Release(j) \/ InspectJob(j)
      PROVE  Quiet \/ \E k \in JobIDs : WorldStep(k)
  BY <1>0, <1>4, QuietSteps, CreateIsWorld, ReleaseIsWorld DEF WorldStep
<1>5. ASSUME NEW j \in JobIDs, SlurmStep(j) \/ KubeProgress(j) \/ KubeDisturbance(j)
      PROVE  Quiet \/ \E k \in JobIDs : WorldStep(k)
  BY <1>5, SlurmIsWorld, KubeIsWorld
<1> QED
  BY <1>1, <1>2, <1>3, <1>4, <1>5 DEF Next, BridgeStep

\* The first state: nothing was submitted.
LEMMA LifeStarts == Init => Lifecycle!LifeInit /\ Ordered /\ SyncEnabled
<1> SUFFICES ASSUME Init PROVE Lifecycle!LifeInit /\ Ordered /\ SyncEnabled
  OBVIOUS
<1>1. \A j \in JobIDs : job[j] = NoJob /\ js[j] = NoJobSet /\ granted[j] = 0
  BY DEF Init
<1>2. \A j \in JobIDs : Stage(j) = "absent"
  <2>1. TypeOK /\ \A j \in JobIDs : job[j].st = "none"
    BY <1>1, RunawayInit DEF RunawayInv, NoJob
  <2> QED
    BY <2>1, StageCases
<1> QED
  BY <1>1, <1>2
     DEF Init, SyncEnabled, Lifecycle!LifeInit, Subs, Stages, Claims, Ordered, NoJob, NoJobSet

\* The bridge keeps the promise of JobLifecycle, as long as no Workload outlives its
\* JobSet (Collected): it releases a job only after capacity claimed for this very
\* submission was granted and beside no capacity of another one, holds no job again,
\* and neither holds nor releases jobs of other partitions, all this but for what the
\* priority mirror does where it is enabled.
THEOREM Implements == ASSUME Collected PROVE Spec => ImplementsLifecycle
<1>1. Init => LifeInv /\ Ordered /\ SyncEnabled /\ Lifecycle!LifeInit
  BY LifeInitially, LifeStarts
<1>2. LifeInv /\ Ordered /\ SyncEnabled /\ [Next]_vars
        => /\ (LifeInv /\ Ordered /\ SyncEnabled)'
           /\ [Lifecycle!LifeNext]_<<Subs, Stages, Claims>>
  <2> SUFFICES ASSUME LifeInv, Ordered, SyncEnabled, [Next]_vars
               PROVE  Ordered' /\ SyncEnabled' /\ [Lifecycle!LifeNext]_<<Subs, Stages, Claims>> /\ LifeInv'
    OBVIOUS
  <2>1. LifeInv'
    BY LifeNextStep
  <2>2. TypeOK /\ TypeOK'
    BY <2>1 DEF LifeInv, RunawayInv
  <2> QED
    BY <2>1, <2>2, NextIsWorld, OrderKept, SyncKept, LifeMaps
<1> QED
  BY <1>1, <1>2, PTL DEF Spec, ImplementsLifecycle, Lifecycle!LifeSpec

-----------------------------------------------------------------------------
(* No capacity of a living job is deleted, however the cache lags.         *)

\* Nothing is listed between ticks, and cleanup's calls belong to cleanup.
TickInv ==
  /\ pc = "idle" => \A j \in JobIDs : ~Found(byID[j])
  /\ at \in {"stamp", "explain", "fail", "nodes", "mark", "delete", "drain", "sync"} =>
       pc = "cleanup" /\ cur \in JobIDs

\* Whatever was seen is of no later submission, and a job that was listed keeps its ID
\* and does not come back to life.
SeenInv ==
  \A j \in JobIDs :
    /\ js[j].inc <= job[j].inc /\ byID[j].inc <= job[j].inc
    /\ Found(byID[j]) => job[j].inc = byID[j].inc /\ (Alive(job[j]) => Alive(byID[j]))

\* The job of JobSet j, of the same submission.
Own(j) == Exists(js[j]) /\ job[j].inc = js[j].inc

\* From the verdict on, the job that cleanup works on has ended.
EndedInv == at \in {"nodes", "mark", "delete"} /\ Own(cur) => ~Alive(job[cur])

EndInv == TypeOK /\ TickInv /\ SeenInv /\ EndedInv

\* No submission, and nobody comes back to life.
Aging ==
  \A k \in JobIDs : /\ job'[k].inc = job[k].inc
                    /\ Alive(job'[k]) => Alive(job[k])
                    /\ Found(job'[k]) => Found(job[k])

LEMMA Ages ==
  ASSUME TypeOK, NEW j,
         \/ job' = job
         \/ job' = [job EXCEPT ![j] = Pinned(job[j])]
         \/ job' = [job EXCEPT ![j].held = FALSE, ![j].mirrored = FALSE]
         \/ \E h \in BOOLEAN : job' = [job EXCEPT ![j] = Mirrored(job[j], h)]
         \/ \E c \in {"bridge", "unmanaged"} : job' = [job EXCEPT ![j].comment = c]
         \/ \E s \in {"pending", "running", "terminal"} :
              Alive(job[j]) /\ job' = [job EXCEPT ![j].st = s]
  PROVE  Aging
<1>1. job \in [JobIDs -> JobRecord]
  BY DEF TypeOK
<1>2. CASE job' = [job EXCEPT ![j] = Pinned(job[j])]
  BY <1>1, <1>2 DEF Pinned, JobRecord, Aging
<1>3. CASE job' = [job EXCEPT ![j].held = FALSE, ![j].mirrored = FALSE]
  BY <1>1, <1>3 DEF JobRecord, Aging
<1>4. ASSUME NEW c \in {"bridge", "unmanaged"}, job' = [job EXCEPT ![j].comment = c]
      PROVE  Aging
  BY <1>1, <1>4 DEF JobRecord, Aging
<1>5. ASSUME NEW s \in {"pending", "running", "terminal"}, Alive(job[j]),
             job' = [job EXCEPT ![j].st = s]
      PROVE  Aging
  BY <1>1, <1>5 DEF JobRecord, Aging
<1>7. ASSUME NEW h \in BOOLEAN, job' = [job EXCEPT ![j] = Mirrored(job[j], h)]
      PROVE  Aging
  BY <1>1, <1>7 DEF JobRecord, Mirrored, Aging
<1>6. CASE job' = job
  BY <1>6 DEF Aging
<1> QED
  BY <1>2, <1>3, <1>4, <1>5, <1>6, <1>7

LEMMA EndInit == Init => EndInv
<1> SUFFICES ASSUME Init PROVE EndInv
  OBVIOUS
<1> QED
  BY TypeInit DEF Init, EndInv, TickInv, SeenInv, EndedInv, NoJob, NoJobSet

\* Steps that list nothing.
LEMMA EndKept ==
  ASSUME EndInv, Aging, UNCHANGED byID, TickInv',
         \A k \in JobIDs : js'[k].inc \in {0, js[k].inc, byID[k].inc},
         at' \in {"nodes", "mark", "delete"} =>
           /\ cur' = cur /\ js'[cur].inc \in {0, js[cur].inc}
           /\ at \in {"nodes", "mark", "delete"} \/ ~Alive(job'[cur])
  PROVE  SeenInv' /\ EndedInv'
<1> USE DEF EndInv
<1>0. \A k \in JobIDs : job[k].inc \in Nat /\ js[k].inc \in Nat /\ byID[k].inc \in Nat
  BY DEF TypeOK, JobRecord, JobSetRecord
<1>1. SeenInv'
  BY <1>0 DEF SeenInv, Aging
<1>2. EndedInv'
  BY DEF EndedInv, Own, Aging, TickInv
<1> QED
  BY <1>1, <1>2

LEMMA EndReset ==
  ASSUME EndInv, ResetTick, UNCHANGED <<job, js>>
  PROVE  TickInv' /\ SeenInv' /\ EndedInv'
<1>0. \A k \in JobIDs : job[k].inc \in Nat
  BY DEF TypeOK, JobRecord, EndInv
<1> QED
  BY <1>0 DEF EndInv, ResetTick, TickInv, SeenInv, EndedInv, NoJob

LEMMA EndBridge ==
  ASSUME EndInv, BridgeStep
  PROVE  TickInv' /\ SeenInv' /\ EndedInv'
<1> USE DEF slurmVars, kubeVars
<1>0. TypeOK /\ TickInv /\ SeenInv /\ EndedInv
  BY DEF EndInv
<1>1. CASE ListJobs
  <2>1. \A k \in JobIDs : job[k].inc \in Nat
    BY <1>0 DEF TypeOK, JobRecord
  <2> QED
    BY <1>0, <1>1, <2>1 DEF ListJobs, TickInv, SeenInv, EndedInv
<1>2. CASE ListingFails \/ EndTick \/ (EndAdmission /\ failed)
  BY <1>2, EndReset DEF ListingFails, EndTick, EndAdmission
<1>3. CASE TakeSnapshot \/ StartAdmission \/ (EndAdmission /\ ~failed)
  <2>1. Aging /\ UNCHANGED <<js, byID>>
    BY <1>0, <1>3, Ages DEF TakeSnapshot, StartAdmission, EndAdmission
  <2>2. TickInv' /\ at' \notin {"nodes", "mark", "delete"}
    BY <1>0, <1>3 DEF TakeSnapshot, StartAdmission, EndAdmission, TickInv
  <2> QED
    BY <2>1, <2>2, EndKept
<1>4. CASE StampRetention
  <2>1. SameJobSets
    <3>1. cur \in JobIDs => Stamped(js[cur]).inc = js[cur].inc
      BY <1>0 DEF TypeOK, JobSetRecord, Stamped
    <3> QED
      BY <1>0, <1>4, <3>1, PatchKeeps DEF StampRetention
  <2>2. Aging /\ UNCHANGED <<byID, pc, cur>> /\ at' = "explain" /\ pc = "cleanup" /\ at = "stamp"
    BY <1>0, <1>4, Ages DEF StampRetention
  <2> QED
    BY <1>0, <2>1, <2>2, EndKept DEF TickInv, SameJobSets
<1>5. CASE MarkNodesReleased
  <2>1. SameJobSets
    <3>1. cur \in JobIDs => [js[cur] EXCEPT !.rel = TRUE].inc = js[cur].inc
      BY <1>0 DEF TypeOK, JobSetRecord
    <3> QED
      BY <1>0, <1>5, <3>1, PatchKeeps DEF MarkNodesReleased
  <2>2. Aging /\ UNCHANGED <<byID, pc, cur>> /\ pc = "cleanup" /\ at = "mark"
    BY <1>0, <1>5, Ages DEF MarkNodesReleased
  <2> QED
    BY <1>0, <2>1, <2>2, EndKept DEF TickInv, SameJobSets
<1>6. CASE ExplainFailure
  <2>1. Aging /\ UNCHANGED <<js, byID, pc, cur>> /\ at' = "fail" /\ pc = "cleanup" /\ at = "explain"
    BY <1>0, <1>6, Ages DEF ExplainFailure
  <2> QED
    BY <1>0, <2>1, EndKept DEF TickInv
<1>7. CASE FailJob
  <2>1. UNCHANGED <<js, byID, pc, cur>> /\ pc = "cleanup" /\ at = "fail" /\ cur \in JobIDs
    BY <1>0, <1>7 DEF FailJob, TickInv
  <2>2. Aging
    <3>1. job' = job \/ (Alive(job[cur]) /\ job' = [job EXCEPT ![cur].st = "terminal"])
      BY <1>7, Zenon DEF FailJob
    <3> QED
      BY <1>0, <3>1, Ages
  <2>3. at' = "inspect" \/ ~Alive(job'[cur])
    <3>1. CASE at' # "inspect"
      <4>1. \/ job' = [job EXCEPT ![cur].st = "terminal"]
            \/ job' = job /\ ~Alive(job[cur])
        BY <1>7, <3>1 DEF FailJob, AfterFailedCancel
      <4> QED
        BY <1>0, <2>1, <4>1 DEF TypeOK, JobRecord
    <3> QED
      BY <3>1
  <2> QED
    BY <1>0, <2>1, <2>2, <2>3, EndKept DEF TickInv
<1>8. CASE ReleaseNodes
  <2>1. Aging /\ UNCHANGED <<js, byID, pc, cur>> /\ pc = "cleanup" /\ at = "nodes"
    BY <1>0, <1>8, Ages DEF ReleaseNodes
  <2> QED
    BY <1>0, <2>1, EndKept DEF TickInv
<1>9. CASE DeleteJobSet
  <2>1. /\ Aging /\ UNCHANGED <<byID, pc, cur>> /\ pc = "cleanup" /\ at' = "inspect"
        /\ at = "delete" /\ (JobSetGone(cur) \/ UNCHANGED js)
    BY <1>0, <1>9, Ages DEF DeleteJobSet
  <2>2. \A k \in JobIDs : js'[k].inc \in {0, js[k].inc}
    BY <1>0, <2>1 DEF JobSetGone, NoJobSet, TypeOK
  <2> QED
    BY <1>0, <2>1, <2>2, EndKept DEF TickInv
<1>10. CASE DrainNodes
  <2>1. /\ UNCHANGED <<js, byID, pc, cur>> /\ pc = "cleanup" /\ at' \in {"inspect", "sync"}
        /\ at = "drain"
    BY <1>10, Verdicts DEF DrainNodes
  <2>2. Aging
    <3>1. job' = job \/ (Alive(job[cur]) /\ job' = [job EXCEPT ![cur].st = "pending"])
      BY <1>10 DEF DrainNodes
    <3> QED
      BY <1>0, <3>1, Ages
  <2> QED
    BY <1>0, <2>1, <2>2, EndKept DEF TickInv
<1>14. CASE SyncPriority
  <2>1. UNCHANGED <<js, byID, pc, cur>> /\ pc = "cleanup" /\ at' = "inspect" /\ at = "sync"
    BY <1>14 DEF SyncPriority
  <2>2. Aging
    <3>1. job' = job \/ \E h \in BOOLEAN : job' = [job EXCEPT ![cur] = Mirrored(job[cur], h)]
      BY <1>14 DEF SyncPriority
    <3> QED
      BY <1>0, <3>1, Ages
  <2> QED
    BY <1>0, <2>1, <2>2, EndKept DEF TickInv
<1>11. ASSUME NEW j \in JobIDs,
              \/ SignalUnmanaged(j) \/ GetExisting(j)
              \/ PropagateStatus(j) \/ Pin(j) \/ Release(j)
       PROVE  TickInv' /\ SeenInv' /\ EndedInv'
  <2>1. Aging
    BY <1>0, <1>11, Ages DEF SignalUnmanaged, GetExisting, PropagateStatus, Pin, Release
  <2>2. UNCHANGED <<js, byID, pc, cur>> /\ pc # "cleanup" /\ pc # "idle"
    BY <1>11 DEF SignalUnmanaged, GetExisting, PropagateStatus, Pin, Release
  <2>3. at' = at \/ at' \in {"status", "pin", "release"}
    BY <1>11 DEF SignalUnmanaged, GetExisting, PropagateStatus, Pin, Release, NextJob
  <2> QED
    BY <1>0, <2>1, <2>2, <2>3, EndKept DEF TickInv
<1>12. ASSUME NEW j \in JobIDs, CreateJobSet(j)
       PROVE  TickInv' /\ SeenInv' /\ EndedInv'
  <2>1. Aging /\ UNCHANGED <<byID, pc, at, cur>> /\ pc = "create"
    BY <1>0, <1>12, Ages DEF CreateJobSet
  <2>2. byID[j].inc \in Nat
    BY <1>0 DEF TypeOK, JobRecord
  <2>3. \A k \in JobIDs : js'[k].inc \in {js[k].inc, byID[k].inc}
    BY <1>0, <1>12, <2>2 DEF CreateJobSet, NoJobSet, TypeOK
  <2> QED
    BY <1>0, <2>1, <2>3, EndKept DEF TickInv
<1>13. ASSUME NEW j \in JobIDs, InspectJob(j)
       PROVE  TickInv' /\ SeenInv' /\ EndedInv'
  <2>1. UNCHANGED <<job, js, pc>> /\ pc = "cleanup"
    BY <1>13 DEF InspectJob
  <2>2. CASE UNCHANGED <<cur, at, byID>>
    BY <1>0, <2>1, <2>2 DEF TickInv, SeenInv, EndedInv, Own
  <2>3. CASE /\ cur' = j
             /\ LET r == IF Found(byID[j]) THEN byID[j] ELSE job[j]
                IN  /\ byID' = [byID EXCEPT ![j] = r]
                    /\ at' = CleanupStep(r, snapJS[j], snapWL[j])
    <3> DEFINE r == IF Found(byID[j]) THEN byID[j] ELSE job[j]
    <3>1. byID' = [byID EXCEPT ![j] = r] /\ at' = CleanupStep(r, snapJS[j], snapWL[j])
      BY <2>3
    <3>2. Found(r) => r.inc = job[j].inc /\ (Alive(job[j]) => Alive(r))
      BY <1>0 DEF SeenInv
    <3>3. Alive(job[j]) => Found(job[j])
      OBVIOUS
    <3>4. at' \in {"nodes", "mark", "delete"} => ~Alive(r)
      BY <3>1 DEF CleanupStep, MirrorStep
    <3>5. Alive(job[j]) => Alive(r)
      BY <3>2, <3>3
    <3>6. r.inc <= job[j].inc
      BY <1>0 DEF SeenInv, TypeOK, JobRecord
    <3> HIDE DEF r
    <3>7. \A k \in JobIDs : byID'[k] = IF k = j THEN r ELSE byID[k]
      BY <1>0, <3>1 DEF TypeOK
    <3>8. SeenInv'
      BY <1>0, <2>1, <3>2, <3>5, <3>6, <3>7 DEF SeenInv
    <3>9. EndedInv'
      BY <2>1, <2>3, <3>4, <3>5 DEF EndedInv
    <3> QED
      BY <1>0, <2>1, <2>3, <3>8, <3>9 DEF TickInv
  <2> QED
    BY <1>13, <2>2, <2>3 DEF InspectJob
<1> QED
  BY <1>1, <1>2, <1>3, <1>4, <1>5, <1>6, <1>7, <1>8, <1>9, <1>10, <1>11, <1>12, <1>13, <1>14
     DEF BridgeStep

\* Of the tick, nothing but the retention of the snapshot's copies changes.
LEMMA EndAround ==
  ASSUME EndInv, NEW j \in JobIDs, SlurmStep(j) \/ KubeProgress(j) \/ KubeDisturbance(j)
  PROVE  TickInv' /\ SeenInv' /\ EndedInv'
<1>0. TypeOK /\ TickInv /\ SeenInv /\ EndedInv
  BY DEF EndInv
<1> USE DEF slurmVars, kubeVars, tickVars
<1>1. CASE Submit(j)
  <2>1. UNCHANGED <<js, byID, pc, at, cur>> /\ ~Found(job[j]) /\ (pc = "idle" \/ ~Found(byID[j]))
    BY <1>1 DEF Submit, Settled
  <2>2. \A k \in JobIDs : /\ job[k].inc \in Nat /\ js[k].inc \in Nat /\ byID[k].inc \in Nat
                          /\ k # j => job'[k] = job[k]
    BY <1>0, <1>1 DEF Submit, TypeOK, JobRecord, JobSetRecord
  <2>3. job'[j].inc = job[j].inc + 1
    BY <1>0, <1>1 DEF Submit, TypeOK
  <2>4. ~Found(byID[j])
    BY <1>0, <2>1 DEF TickInv
  <2>5. SeenInv'
    BY <1>0, <2>1, <2>2, <2>3, <2>4 DEF SeenInv
  <2>6. EndedInv'
    <3>1. js[j].inc # job'[j].inc
      BY <1>0, <2>2, <2>3 DEF SeenInv
    <3> QED
      BY <1>0, <2>1, <2>2, <3>1 DEF EndedInv, Own, TickInv
  <2> QED
    BY <1>0, <2>1, <2>5, <2>6 DEF TickInv
<1>2. CASE ~Submit(j)
  <2>1. UNCHANGED <<byID, pc, at, cur>>
    BY <1>2 DEF SlurmStep, StartJob, RequeueJob, FinishJob, UserCancels, Purge,
            KubeProgress, KueueQueues, KueueAdmits, CollectWorkload, RegisterNode,
            ExpireRetention, CacheSync, KubeDisturbance, KueueEvicts, JobSetDies, OperatorDeletes
  <2>2. Aging
    <3>1. \/ job' = job
          \/ \E s \in {"pending", "running", "terminal"} :
               Alive(job[j]) /\ job' = [job EXCEPT ![j].st = s]
          \/ Purge(j)
      BY <1>2 DEF SlurmStep, StartJob, RequeueJob, FinishJob, UserCancels, SetState,
            KubeProgress, KueueQueues, KueueAdmits, CollectWorkload, RegisterNode,
            ExpireRetention, CacheSync, KubeDisturbance, KueueEvicts, JobSetDies, OperatorDeletes
    <3>2. CASE Purge(j)
      BY <1>0, <3>2 DEF Purge, Aging, NoJob, TypeOK, JobRecord
    <3> QED
      BY <1>0, <3>1, <3>2, Ages
  <2>3. \A k \in JobIDs : js'[k].inc \in {0, js[k].inc}
    <3>1. \/ js' = js \/ JobSetGone(j) \/ js' = [js EXCEPT ![j].cond = "dead"]
          \/ js' = [js EXCEPT ![j].ret = "expired"]
      BY <1>2 DEF SlurmStep, StartJob, RequeueJob, FinishJob, UserCancels, Purge,
            KubeProgress, KueueQueues, KueueAdmits, CollectWorkload, RegisterNode,
            ExpireRetention, CacheSync, KubeDisturbance, KueueEvicts, JobSetDies, OperatorDeletes
    <3>2. js \in [JobIDs -> JobSetRecord]
      BY <1>0 DEF TypeOK
    <3>3. CASE JobSetGone(j)
      BY <3>2, <3>3 DEF JobSetGone, NoJobSet
    <3>4. CASE js' = js
      BY <3>4
    <3>5. CASE js' = [js EXCEPT ![j].cond = "dead"] \/ js' = [js EXCEPT ![j].ret = "expired"]
      BY <3>2, <3>5 DEF JobSetRecord
    <3> QED
      BY <3>1, <3>3, <3>4, <3>5
  <2> QED
    BY <1>0, <2>1, <2>2, <2>3, EndKept DEF TickInv
<1> QED
  BY <1>1, <1>2

LEMMA EndNext == EndInv /\ [Next]_vars => EndInv'
<1> SUFFICES ASSUME EndInv, [Next]_vars PROVE TickInv' /\ SeenInv' /\ EndedInv'
  BY TypeNext DEF EndInv
<1>1. CASE Crash
  BY <1>1, EndReset DEF Crash, slurmVars, kubeVars
<1>2. CASE UNCHANGED vars
  BY <1>2 DEF vars, slurmVars, kubeVars, tickVars, EndInv, TickInv, SeenInv, EndedInv, Own
<1> QED
  BY <1>1, <1>2, EndBridge, EndAround DEF Next

\* Cleanup deletes no JobSet whose job, of the same submission, still lives: not on a
\* listing or a verdict that became old, not after a cancellation that failed, not when
\* the ID is submitted again meanwhile (cleanupFinishedJobs).
THEOREM DeletesNoLiveCapacity == Spec => NeverDeletesLiveCapacity
<1>1. ASSUME EndInv, DeleteJobSet, NEW j \in JobIDs, Exists(js[j]), ~Exists(js'[j])
      PROVE  ~(Alive(job[j]) /\ job[j].inc = js[j].inc)
  <2>1. j = cur
    BY <1>1 DEF DeleteJobSet, JobSetGone, EndInv, TypeOK
  <2> QED
    BY <1>1, <2>1 DEF DeleteJobSet, EndInv, EndedInv, Own
<1>2. EndInv => (DeleteJobSet =>
        \A j \in JobIDs : Exists(js[j]) /\ ~Exists(js'[j])
                           => ~(Alive(job[j]) /\ job[j].inc = js[j].inc))
  BY <1>1
<1> QED
  BY <1>2, EndInit, EndNext, PTL DEF Spec, NeverDeletesLiveCapacity

-----------------------------------------------------------------------------
(* Retention keeps its word, however far the cache lags: a tick knows which   *)
(* JobSet a stamp or a mark goes to, but for those of which its snapshot got  *)
(* an outdated copy (stale), and for what such a tick left behind (blind).    *)

\* A JobSet that is gone leaves nothing behind; pods start only for one that lives; only
\* a dead one is retained or marked.
RecordInv ==
  \A j \in JobIDs :
    /\ ~Exists(js[j]) => js[j] = NoJobSet /\ wl[j].cur = "none"
    /\ wl[j].boot => Exists(js[j]) /\ js[j].cond = "live"
    /\ js[j].ret # "none" \/ js[j].rel => js[j].cond = "dead" \/ js[j].blind

\* This tick stamped j and did not hear so.
Stamping(j) == pc = "cleanup" /\ j \notin todo /\ Unheard(j) /\ (cur = j => at # "stamp")

\* Of a JobSet whose copy was not outdated, a tick knows what it says, but for its death.
SnapInv ==
  \A j \in JobIDs \ stale :
    /\ snapJS[j].ret # "none" => snapJS[j].cond = "dead" \/ snapJS[j].blind
    /\ pc = "create" /\ j \in todo => snapJS[j] = NoJobSet
    /\ pc \in {"create", "admit", "cleanup"} /\ Exists(js[j]) =>
         /\ snapJS[j].cond = "dead" => js[j].cond = "dead"
         /\ snapJS[j].blind => js[j].blind
         /\ js[j].ret = snapJS[j].ret \/ Stamping(j)

\* What is known at each call of cleanup.
CallInv ==
  /\ at = "stamp" => /\ JobSetDead(snapJS[cur]) /\ snapJS[cur].ret = "none"
                     /\ cur \notin todo
  /\ at \in {"stamp", "explain", "fail"} => Alive(byID[cur])
  /\ at = "nodes" /\ ~Found(byID[cur]) => ~(Own(cur) /\ Found(job[cur]))
  /\ at = "mark" => /\ snapJS[cur].ret # "none"
                    /\ cur \notin stale /\ ~js[cur].blind /\ Own(cur) /\ Found(job[cur])
                         => node[cur] # js[cur].inc
  /\ at = "delete" => ~RetentionHolds(snapJS[cur])

KeepInv == EndInv /\ RecordInv /\ SnapInv /\ CallInv /\ MarkedNodesAreGone

\* A window that has passed is not opened again.
NotExtended ==
  \A j \in JobIDs : js[j].ret = "expired" /\ j \notin stale => js'[j].ret # "retained"

Keeps == RecordInv' /\ SnapInv' /\ CallInv' /\ MarkedNodesAreGone' /\ NotExtended

LEMMA KeepInit == Init => KeepInv
<1> SUFFICES ASSUME Init PROVE KeepInv
  OBVIOUS
<1> QED
  BY EndInit DEF Init, KeepInv, RecordInv, SnapInv, CallInv, MarkedNodesAreGone, NoJobSet, NoWorkload

\* What the steps read of the types.
LEMMA KeepTypes ==
  ASSUME TypeOK
  PROVE  /\ js \in [JobIDs -> JobSetRecord] /\ snapJS \in [JobIDs -> JobSetRecord]
         /\ job \in [JobIDs -> JobRecord] /\ wl \in [JobIDs -> WorkloadRecord]
         /\ node \in [JobIDs -> Nat] /\ byID \in [JobIDs -> JobRecord]
         /\ todo \subseteq JobIDs
         /\ \A k \in JobIDs : /\ job[k].inc \in Nat /\ js[k].inc \in Nat /\ node[k] \in Nat
                              /\ byID[k].inc \in Nat
BY DEF TypeOK, JobRecord, JobSetRecord

\* A step that leaves JobSets, Workloads, nodes and the snapshot alone.
LEMMA KeepQuiet ==
  ASSUME KeepInv, Aging, UNCHANGED <<js, wl, snapJS, byID, stale>>,
         \A k \in JobIDs : node'[k] \in {node[k], 0},
         \/ pc' = pc /\ todo' = todo /\ cur' = cur
         \/ pc' = pc /\ pc # "cleanup" /\ todo' \subseteq todo
         \/ pc' = "admit" /\ pc = "create"
         \/ pc' = "cleanup" /\ pc = "admit",
         at' = "stamp" => UNCHANGED <<at, cur, todo>>, CallInv'
  PROVE  Keeps
<1> USE DEF KeepInv
<1>1. RecordInv' /\ NotExtended
  BY DEF RecordInv, NotExtended
<1>2. SnapInv'
  BY DEF SnapInv, Stamping, Unheard
<1>3. MarkedNodesAreGone'
  BY DEF MarkedNodesAreGone, Aging, RecordInv, NoJobSet
<1> QED
  BY <1>1, <1>2, <1>3 DEF Keeps

LEMMA KeepReset ==
  ASSUME KeepInv, ResetTick, UNCHANGED <<js, wl, job, node>>
  PROVE  Keeps
<1> USE DEF KeepInv
<1>1. RecordInv' /\ NotExtended /\ MarkedNodesAreGone'
  BY DEF RecordInv, NotExtended, MarkedNodesAreGone
<1>2. SnapInv' /\ CallInv'
  BY DEF ResetTick, SnapInv, CallInv, NoJobSet
<1> QED
  BY <1>1, <1>2 DEF Keeps

\* A JobSet goes: no matter whose, nobody is misled.
LEMMA KeepGone ==
  ASSUME KeepInv, NEW j \in JobIDs, JobSetGone(j),
         UNCHANGED <<job, node, pc, cur, todo, snapJS, byID, stale>>, at' = at \/ at' = "inspect"
  PROVE  Keeps
<1> USE DEF KeepInv, EndInv
<1>1. js' = [js EXCEPT ![j] = NoJobSet] /\ wl'[j].cur = "none" /\ ~wl'[j].boot
      /\ \A k \in JobIDs : k # j => js'[k] = js[k] /\ wl'[k] = wl[k]
  BY DEF JobSetGone, TypeOK, NoWorkload
<1>2. js'[j] = NoJobSet /\ NoJobSet.inc = 0 /\ NoJobSet.ret = "none" /\ ~NoJobSet.rel
  BY <1>1 DEF TypeOK, NoJobSet
<1>3. RecordInv' /\ NotExtended
  BY <1>1, <1>2 DEF RecordInv, NotExtended
<1>4. SnapInv'
  BY <1>1, <1>2 DEF SnapInv, Stamping, Unheard
<1>5. CallInv' /\ MarkedNodesAreGone'
  BY <1>1, <1>2 DEF CallInv, MarkedNodesAreGone, Own, TickInv
<1> QED
  BY <1>3, <1>4, <1>5 DEF Keeps

\* The two patches of a JobSet that is dead, since the tick saw it dead.
LEMMA KeepPatch ==
  ASSUME KeepInv, StampRetention \/ MarkNodesReleased
  PROVE  Keeps
<1> USE DEF KeepInv, EndInv
<1>0. /\ cur \in JobIDs /\ pc = "cleanup"
      /\ UNCHANGED <<wl, job, node, byID, pc, cur, todo, stale>>
  BY DEF StampRetention, MarkNodesReleased, TickInv, slurmVars
<1>1. js \in [JobIDs -> JobSetRecord] /\ snapJS \in [JobIDs -> JobSetRecord]
  BY KeepTypes
<1>8. cur \notin stale /\ Exists(js[cur]) => js[cur].cond = "dead" \/ js[cur].blind
  BY <1>0 DEF StampRetention, MarkNodesReleased, CallInv, SnapInv, JobSetDead
<1> PICK v : /\ v = Patched(IF at = "stamp" THEN Stamped(js[cur]) ELSE [js[cur] EXCEPT !.rel = TRUE])
             /\ v.inc = js[cur].inc /\ v.cond = js[cur].cond
             /\ v.ret = IF at = "stamp" THEN "retained" ELSE js[cur].ret
             /\ v.rel = IF at = "stamp" THEN js[cur].rel ELSE TRUE
             /\ v.blind <=> js[cur].blind \/ cur \in stale
  <2> DEFINE u == IF at = "stamp" THEN Stamped(js[cur]) ELSE [js[cur] EXCEPT !.rel = TRUE]
  <2>1. js[cur] \in JobSetRecord
    BY <1>0, <1>1
  <2>2. /\ u \in JobSetRecord /\ u.inc = js[cur].inc /\ u.cond = js[cur].cond
        /\ u.ret = IF at = "stamp" THEN "retained" ELSE js[cur].ret
        /\ u.blind <=> js[cur].blind
    BY <2>1 DEF Stamped, JobSetRecord
  <2>3. u.rel = IF at = "stamp" THEN js[cur].rel ELSE TRUE
    <3>1. CASE at = "stamp"
      BY <2>1, <3>1 DEF Stamped, JobSetRecord
    <3>2. CASE at # "stamp"
      BY <2>1, <3>2 DEF JobSetRecord
    <3> QED
      BY <3>1, <3>2
  <2> HIDE DEF u
  <2>4. /\ Patched(u).inc = u.inc /\ Patched(u).cond = u.cond /\ Patched(u).ret = u.ret
        /\ Patched(u).rel = u.rel
    BY <2>2 DEF Patched, JobSetRecord
  <2>5. Patched(u).blind <=> u.blind \/ cur \in stale
    BY <2>2 DEF Patched, JobSetRecord
  <2> QED
    BY <2>2, <2>3, <2>4, <2>5 DEF u
<1>2. \E u : PatchJobSet(u) /\ Patched(u) = v
  BY DEF StampRetention, MarkNodesReleased
<1>3. \/ UNCHANGED <<js, snapJS>>
      \/ /\ Exists(js[cur]) /\ js' = [js EXCEPT ![cur] = v]
         /\ snapJS' = snapJS \/ snapJS' = [snapJS EXCEPT ![cur] = v]
  BY <1>2, Zenon DEF PatchJobSet
<1>4. at' # "stamp"
  BY Verdicts DEF StampRetention, MarkNodesReleased
<1>5. CallInv'
  <2>1. CASE at = "stamp"
    <3>1. at' = "explain" /\ Alive(byID[cur])
      BY <2>1 DEF StampRetention, MarkNodesReleased, CallInv
    <3> QED
      BY <1>0, <3>1 DEF CallInv
  <2>2. CASE at # "stamp"
    <3>1. at' = AfterNodes(snapJS'[cur])
      BY <2>2 DEF StampRetention, MarkNodesReleased
    <3> QED
      BY <1>0, <3>1 DEF CallInv, AfterNodes
  <2> QED
    BY <2>1, <2>2
<1>6. CASE UNCHANGED <<js, snapJS>>
  <2>1. Aging /\ \A k \in JobIDs : node'[k] \in {node[k], 0}
    BY <1>0 DEF Aging
  <2> QED
    BY <1>0, <1>4, <1>5, <1>6, <2>1, KeepQuiet
<1>7. CASE /\ Exists(js[cur]) /\ js' = [js EXCEPT ![cur] = v]
           /\ snapJS' = snapJS \/ snapJS' = [snapJS EXCEPT ![cur] = v]
  <2>1. /\ js'[cur] = v /\ (snapJS' = snapJS \/ snapJS'[cur] = v)
        /\ \A k \in JobIDs : k # cur => js'[k] = js[k] /\ snapJS'[k] = snapJS[k]
    BY <1>0, <1>1, <1>7
  <2>2. RecordInv'
    <3>1. cur \in stale => v.blind
      OBVIOUS
    <3> QED
      BY <1>0, <1>7, <1>8, <2>1, <3>1 DEF RecordInv
  <2>3. at = "stamp" => /\ snapJS[cur].ret = "none" /\ Alive(byID[cur]) /\ cur \notin todo
                        /\ cur \notin stale => js[cur].ret = "none"
    BY <1>0, <1>7 DEF CallInv, SnapInv, Stamping
  <2>4. NotExtended
    BY <1>0, <2>1, <2>3 DEF NotExtended
  <2>5. SnapInv'
    <3>1. ASSUME NEW k \in JobIDs \ stale
          PROVE  /\ snapJS'[k].ret # "none" => snapJS'[k].cond = "dead" \/ snapJS'[k].blind
                 /\ Exists(js'[k]) =>
                      /\ snapJS'[k].cond = "dead" => js'[k].cond = "dead"
                      /\ snapJS'[k].blind => js'[k].blind
                      /\ js'[k].ret = snapJS'[k].ret \/ Stamping(k)'
      <4>1. CASE k # cur
        BY <1>0, <1>4, <2>1, <4>1 DEF SnapInv, Stamping, Unheard
      <4>2. CASE k = cur /\ snapJS'[cur] = v
        BY <1>0, <1>7, <1>8, <2>1, <4>2
      <4>3. CASE k = cur /\ snapJS' = snapJS
        BY <1>0, <1>1, <1>4, <1>7, <2>1, <2>3, <4>3 DEF SnapInv, Stamping, Unheard
      <4> QED
        BY <2>1, <4>1, <4>2, <4>3
    <3> QED
      BY <1>0, <3>1 DEF SnapInv
  <2>6. MarkedNodesAreGone'
    <3>1. ASSUME NEW k \in JobIDs, js'[k].rel, ~js'[k].blind, Found(job[k]),
                 job[k].inc = js'[k].inc
          PROVE  node[k] # js'[k].inc
      <4>1. CASE k # cur \/ at = "stamp"
        BY <1>0, <2>1, <3>1, <4>1 DEF MarkedNodesAreGone
      <4>2. CASE k = cur /\ at # "stamp"
        <5>1. at = "mark"
          BY <4>2 DEF StampRetention, MarkNodesReleased
        <5> QED
          BY <1>7, <2>1, <3>1, <4>2, <5>1 DEF CallInv, Own
      <4> QED
        BY <4>1, <4>2
    <3> QED
      BY <1>0, <3>1 DEF MarkedNodesAreGone
  <2> QED
    BY <1>5, <2>2, <2>4, <2>5, <2>6 DEF Keeps
<1> QED
  BY <1>3, <1>6, <1>7

\* A JobSet is made where the tick saw none.
LEMMA KeepCreate ==
  ASSUME KeepInv, NEW j \in JobIDs, CreateJobSet(j)
  PROVE  Keeps
<1> USE DEF KeepInv, EndInv, slurmVars
<1>0. /\ pc = "create" /\ j \in todo /\ todo' = todo \ {j}
      /\ UNCHANGED <<wl, job, node, byID, snapJS, pc, at, cur, stale>>
      /\ js \in [JobIDs -> JobSetRecord]
  BY DEF CreateJobSet, TypeOK
<1>1. CASE js' = js
  <2>1. Aging /\ \A k \in JobIDs : node'[k] \in {node[k], 0}
    BY <1>0 DEF Aging
  <2>2. CallInv' /\ at' # "stamp"
    BY <1>0 DEF TickInv, CallInv
  <2> QED
    BY <1>0, <1>1, <2>1, <2>2, KeepQuiet
<1>2. CASE ~Exists(js[j]) /\ js' = [js EXCEPT ![j] = [NoJobSet EXCEPT !.inc = byID[j].inc]]
  <2> PICK v : /\ v = [NoJobSet EXCEPT !.inc = byID[j].inc] /\ v.cond = "live"
               /\ v.ret = "none" /\ ~v.rel /\ ~v.blind /\ (v.inc = 0 => v = NoJobSet)
    <3> DEFINE u == [NoJobSet EXCEPT !.inc = byID[j].inc]
    <3>1. [NoJobSet EXCEPT !.inc = 0] = NoJobSet
      BY DEF NoJobSet
    <3>2. u.inc = byID[j].inc /\ u.cond = "live" /\ u.ret = "none" /\ ~u.rel /\ ~u.blind
      BY DEF NoJobSet
    <3>3. u.inc = 0 => u = NoJobSet
      BY <3>1, <3>2
    <3> QED
      BY <3>2, <3>3
  <2>1. js'[j] = v /\ \A k \in JobIDs : k # j => js'[k] = js[k]
    BY <1>0, <1>2
  <2>2. /\ js[j].ret = "none" /\ wl[j].cur = "none" /\ ~wl[j].boot
        /\ j \notin stale => snapJS[j] = NoJobSet
    BY <1>0, <1>2 DEF RecordInv, SnapInv, NoJobSet
  <2>3. RecordInv' /\ NotExtended
    BY <1>0, <2>1, <2>2 DEF RecordInv, NotExtended
  <2>4. SnapInv'
    BY <1>0, <2>1, <2>2 DEF SnapInv, Stamping, NoJobSet
  <2>5. CallInv' /\ MarkedNodesAreGone'
    BY <1>0, <2>1 DEF TickInv, CallInv, MarkedNodesAreGone
  <2> QED
    BY <2>3, <2>4, <2>5 DEF Keeps
<1> QED
  BY <1>1, <1>2 DEF CreateJobSet

\* The verdict on a job is of the moment cleanup turns to it.
LEMMA KeepInspect ==
  ASSUME KeepInv, NEW j \in JobIDs, InspectJob(j)
  PROVE  Keeps
<1> USE DEF KeepInv, EndInv, slurmVars, kubeVars
<1>0. /\ pc = "cleanup" /\ at = "inspect" /\ j \in todo /\ todo' = todo \ {j}
      /\ UNCHANGED <<js, wl, job, node, snapJS, pc, stale>>
  BY DEF InspectJob
<1>1. RecordInv' /\ NotExtended /\ MarkedNodesAreGone'
  BY <1>0 DEF RecordInv, NotExtended, MarkedNodesAreGone
<1>2. CASE UNCHANGED <<cur, at, byID>>
  <2>1. SnapInv' /\ CallInv'
    BY <1>0, <1>2 DEF SnapInv, CallInv, Stamping, Unheard
  <2> QED
    BY <1>1, <2>1 DEF Keeps
<1>3. CASE /\ cur' = j
           /\ LET r == IF Found(byID[j]) THEN byID[j] ELSE job[j]
              IN  /\ byID' = [byID EXCEPT ![j] = r]
                  /\ at' = CleanupStep(r, snapJS[j], snapWL[j])
  <2> DEFINE r == IF Found(byID[j]) THEN byID[j] ELSE job[j]
  <2>1. at' = CleanupStep(r, snapJS[j], snapWL[j]) /\ (~Found(r) => ~Found(job[j]))
    BY <1>3
  <2>2. byID'[j] = r /\ \A k \in JobIDs : k # j => byID'[k] = byID[k]
    BY <1>3 DEF TypeOK
  <2> HIDE DEF r
  <2>3. SnapInv'
    <3>1. js[j].ret = snapJS[j].ret \/ ~Exists(js[j]) \/ j \in stale
      BY <1>0 DEF SnapInv, Stamping
    <3>2. ASSUME NEW k \in JobIDs, k # j, Stamping(k)
          PROVE  Stamping(k)'
      BY <1>0, <1>3, <2>2, <3>2 DEF Stamping, Unheard
    <3>3. \A k \in JobIDs : k # j /\ Stamping(k) => Stamping(k)'
      BY <3>2
    <3> QED
      BY <1>0, <3>1, <3>3 DEF SnapInv
  <2>4. CallInv'
    <3>1. CASE Alive(r)
      <4>1. /\ at' \in {"stamp", "explain", "drain", "inspect", "sync"}
            /\ at' = "stamp" => JobSetDead(snapJS[j]) /\ snapJS[j].ret = "none"
            /\ at' = "explain" => Alive(r)
        BY <2>1, <3>1 DEF CleanupStep, NeedsStamp, MirrorStep
      <4> QED
        BY <1>0, <1>3, <2>2, <3>1, <4>1 DEF CallInv, JobSetDead
    <3>2. CASE ~Alive(r)
      <4>1. /\ at' \in {"nodes", "delete", "inspect"}
            /\ at' = "delete" => ~RetentionHolds(snapJS[j])
        BY <2>1, <3>2 DEF CleanupStep, NodesOrDelete, AfterNodes
      <4> QED
        BY <1>0, <1>3, <2>1, <2>2, <4>1 DEF CallInv, RetentionHolds
    <3> QED
      BY <3>1, <3>2
  <2> QED
    BY <1>1, <2>3, <2>4 DEF Keeps
<1> QED
  BY <1>2, <1>3 DEF InspectJob

LEMMA KeepBridge ==
  ASSUME KeepInv, BridgeStep
  PROVE  Keeps
<1> USE DEF KeepInv, EndInv, slurmVars, kubeVars
<1>0. job \in [JobIDs -> JobRecord] /\ node \in [JobIDs -> Nat]
  BY DEF TypeOK
<1>1. CASE ListJobs
  <2>1. UNCHANGED <<js, wl, job, node, snapJS, at, cur, stale>> /\ pc = "idle" /\ pc' = "list"
    BY <1>1 DEF ListJobs
  <2>2. RecordInv' /\ NotExtended /\ MarkedNodesAreGone'
    BY <2>1 DEF RecordInv, NotExtended, MarkedNodesAreGone
  <2>3. SnapInv' /\ CallInv'
    BY <2>1 DEF SnapInv, CallInv, TickInv
  <2> QED
    BY <2>2, <2>3 DEF Keeps
<1>2. CASE TakeSnapshot
  <2>1. /\ UNCHANGED <<js, wl, job, node, at, cur>> /\ pc = "list" /\ pc' = "create"
        /\ \A k \in JobIDs \ stale' : snapJS'[k] = js[k]
        /\ \A k \in todo' \ stale' : ~Exists(js[k])
    BY <1>2 DEF TakeSnapshot
  <2>2. RecordInv' /\ NotExtended /\ MarkedNodesAreGone'
    BY <2>1 DEF RecordInv, NotExtended, MarkedNodesAreGone
  <2>3. SnapInv' /\ CallInv'
    BY <2>1 DEF SnapInv, CallInv, TickInv, RecordInv
  <2> QED
    BY <2>2, <2>3 DEF Keeps
<1>3. CASE ListingFails \/ EndTick \/ (EndAdmission /\ failed)
  BY <1>3, KeepReset DEF ListingFails, EndTick, EndAdmission
<1>4. CASE StartAdmission \/ (EndAdmission /\ ~failed)
  <2>1. /\ UNCHANGED <<js, wl, job, node, snapJS, byID, cur, stale>> /\ at' \in {"status", "inspect"}
        /\ (pc' = "admit" /\ pc = "create") \/ (pc' = "cleanup" /\ pc = "admit")
    BY <1>4 DEF StartAdmission, EndAdmission
  <2>2. Aging /\ CallInv' /\ \A k \in JobIDs : node'[k] \in {node[k], 0}
    BY <2>1 DEF Aging, CallInv
  <2> QED
    BY <2>1, <2>2, KeepQuiet
<1>5. CASE StampRetention \/ MarkNodesReleased
  BY <1>5, KeepPatch
<1>6. CASE ExplainFailure
  <2>1. Aging
    BY <1>6, Ages DEF ExplainFailure
  <2>2. /\ UNCHANGED <<js, wl, node, snapJS, byID, pc, cur, todo, stale>> /\ at' = "fail"
        /\ at = "explain"
    BY <1>6 DEF ExplainFailure
  <2>3. CallInv' /\ \A k \in JobIDs : node'[k] \in {node[k], 0}
    BY <2>2 DEF CallInv
  <2> QED
    BY <2>1, <2>2, <2>3, KeepQuiet
<1>7. CASE FailJob
  <2>1. /\ UNCHANGED <<js, wl, node, snapJS, byID, pc, cur, todo, stale>> /\ at = "fail"
        /\ at' \in {NodesOrDelete(snapJS[cur]), "inspect"}
    BY <1>7 DEF FailJob, AfterFailedCancel
  <2>2. Aging
    <3>1. job' = job \/ (Alive(job[cur]) /\ job' = [job EXCEPT ![cur].st = "terminal"])
      BY <1>7, Zenon DEF FailJob
    <3> QED
      BY <3>1, Ages
  <2>3. CallInv' /\ \A k \in JobIDs : node'[k] \in {node[k], 0}
    <3>1. at' \in {"nodes", "delete", "inspect"}
          /\ (at' = "delete" => ~RetentionHolds(snapJS[cur]))
      BY <2>1 DEF NodesOrDelete, AfterNodes
    <3>2. Alive(byID[cur])
      BY <2>1 DEF CallInv
    <3> QED
      BY <2>1, <3>1, <3>2 DEF CallInv, RetentionHolds
  <2>4. at' # "stamp"
    BY <2>1, Verdicts
  <2> QED
    BY <2>1, <2>2, <2>3, <2>4, KeepQuiet
<1>8. CASE ReleaseNodes
  <2>1. /\ UNCHANGED <<js, wl, job, snapJS, byID, pc, cur, todo, stale>> /\ at = "nodes"
        /\ cur \in JobIDs
    BY <1>8 DEF ReleaseNodes, TickInv
  <2>2. \/ node[cur] # 0 /\ node' = [node EXCEPT ![cur] = 0]
        \/ UNCHANGED node
    BY <1>8 DEF ReleaseNodes
  <2>3. \A k \in JobIDs : node'[k] \in {node[k], 0}
    BY <1>0, <2>2
  <2>4. \/ /\ at' = "mark" /\ RetentionHolds(snapJS[cur])
           /\ node'[cur] = 0 \/ ~Found(byID[cur])
        \/ at' \in {"inspect", "delete"} /\ (at' = "delete" => ~RetentionHolds(snapJS[cur]))
    BY <1>0, <1>8, <2>1 DEF ReleaseNodes, StopsRetrying, AfterNodes
  <2>5. CallInv'
    BY <2>1, <2>4 DEF CallInv, RetentionHolds, Own
  <2>6. Aging /\ at' # "stamp"
    BY <2>1, <2>4 DEF Aging
  <2> QED
    BY <2>1, <2>3, <2>5, <2>6, KeepQuiet
<1>9. CASE DeleteJobSet
  <2>1. /\ UNCHANGED <<job, node, snapJS, byID, pc, cur, todo, stale>> /\ at = "delete"
        /\ at' = "inspect" /\ cur \in JobIDs
    BY <1>9 DEF DeleteJobSet, TickInv
  <2>2. CASE JobSetGone(cur)
    BY <2>1, <2>2, KeepGone
  <2>3. CASE UNCHANGED <<js, wl>>
    <3>1. Aging /\ CallInv' /\ \A k \in JobIDs : node'[k] \in {node[k], 0}
      BY <2>1 DEF Aging, CallInv
    <3> QED
      BY <2>1, <2>3, <3>1, KeepQuiet
  <2> QED
    BY <1>9, <2>2, <2>3 DEF DeleteJobSet
<1>10. CASE DrainNodes
  <2>1. UNCHANGED <<js, wl, snapJS, byID, pc, cur, todo, stale>> /\ at' \in {"inspect", "sync"}
    BY <1>10, Verdicts DEF DrainNodes
  <2>2. Aging
    <3>1. job' = job \/ (Alive(job[cur]) /\ job' = [job EXCEPT ![cur].st = "pending"])
      BY <1>10 DEF DrainNodes
    <3> QED
      BY <3>1, Ages
  <2>3. CallInv' /\ \A k \in JobIDs : node'[k] \in {node[k], 0}
    BY <1>0, <1>10, <2>1 DEF DrainNodes, CallInv
  <2> QED
    BY <2>1, <2>2, <2>3, KeepQuiet
<1>12. CASE SyncPriority
  <2>1. UNCHANGED <<js, wl, node, snapJS, byID, pc, cur, todo, stale>> /\ at' = "inspect"
    BY <1>12 DEF SyncPriority
  <2>2. Aging
    <3>1. job' = job \/ \E h \in BOOLEAN : job' = [job EXCEPT ![cur] = Mirrored(job[cur], h)]
      BY <1>12 DEF SyncPriority
    <3> QED
      BY <3>1, Ages
  <2>3. CallInv' /\ \A k \in JobIDs : node'[k] \in {node[k], 0}
    BY <2>1 DEF CallInv
  <2> QED
    BY <2>1, <2>2, <2>3, KeepQuiet
<1>11. ASSUME NEW j \in JobIDs,
              \/ SignalUnmanaged(j) \/ GetExisting(j)
              \/ PropagateStatus(j) \/ Pin(j) \/ Release(j)
       PROVE  Keeps
  <2>1. Aging
    BY <1>11, Ages DEF SignalUnmanaged, GetExisting, PropagateStatus, Pin, Release
  <2>2. /\ UNCHANGED <<js, wl, node, snapJS, byID, pc, cur, stale>> /\ pc \in {"list", "create", "admit"}
        /\ todo' \subseteq todo
    BY <1>11 DEF SignalUnmanaged, GetExisting, PropagateStatus, Pin, Release, NextJob
  <2>3. (at' = at \/ at' \in {"status", "pin", "release"})
    BY <1>11 DEF SignalUnmanaged, GetExisting, PropagateStatus, Pin, Release, NextJob
  <2>4. CallInv' /\ at' # "stamp" /\ \A k \in JobIDs : node'[k] \in {node[k], 0}
    BY <2>2, <2>3 DEF CallInv, TickInv
  <2> QED
    BY <2>1, <2>2, <2>4, KeepQuiet
<1> QED
  BY <1>1, <1>2, <1>3, <1>4, <1>5, <1>6, <1>7, <1>8, <1>9, <1>10, <1>11, <1>12,
     KeepCreate, KeepInspect DEF BridgeStep

\* What happens around the tick, but to JobSets: a new submission, a job that moves on, a
\* Workload, a node that registers because its JobSet lives.
LEMMA KeepWorld ==
  ASSUME KeepInv, UNCHANGED <<js, snapJS, byID, pc, at, cur, todo, stale>>,
         \A k \in JobIDs :
           /\ job'[k].inc = js[k].inc /\ Found(job'[k]) => /\ job[k].inc = js[k].inc
                                                           /\ Found(job[k])
           /\ wl'[k].cur = "none" \/ Exists(js[k])
           /\ wl'[k].boot => Exists(js[k]) /\ js[k].cond = "live"
           /\ node'[k] \in {node[k], 0} \/ (Exists(js[k]) /\ js[k].cond = "live")
  PROVE  Keeps
<1> USE DEF KeepInv, EndInv
<1>1. RecordInv' /\ NotExtended
  BY DEF RecordInv, NotExtended
<1>2. SnapInv'
  BY DEF SnapInv, Stamping, Unheard
<1>3. MarkedNodesAreGone'
  BY DEF MarkedNodesAreGone, RecordInv, NoJobSet
<1>4. CallInv'
  <2>1. at = "mark" /\ Exists(js[cur]) /\ cur \notin stale
          => js[cur].cond = "dead" \/ js[cur].blind
    BY DEF TickInv, CallInv, SnapInv
  <2> QED
    BY <2>1 DEF CallInv, TickInv, Own
<1> QED
  BY <1>1, <1>2, <1>3, <1>4 DEF Keeps

\* The death of a JobSet, and the end of its window.
LEMMA KeepFate ==
  ASSUME KeepInv, NEW j \in JobIDs, JobSetDies(j) \/ ExpireRetention(j)
  PROVE  Keeps
<1> USE DEF KeepInv, EndInv, slurmVars, tickVars
<1>0. /\ js \in [JobIDs -> JobSetRecord] /\ snapJS \in [JobIDs -> JobSetRecord]
      /\ wl \in [JobIDs -> WorkloadRecord]
  BY KeepTypes
<1>1. CASE JobSetDies(j)
  <2>1. /\ UNCHANGED <<job, node, byID, snapJS, pc, at, cur, todo, stale>>
        /\ js' = [js EXCEPT ![j].cond = "dead"] /\ wl' = [wl EXCEPT ![j].boot = FALSE]
        /\ js[j].cond = "live" /\ wl[j].cur = "admitted"
    BY <1>1 DEF JobSetDies
  <2> PICK v : v = [js[j] EXCEPT !.cond = "dead"]
    OBVIOUS
  <2>2. /\ v.inc = js[j].inc /\ v.cond = "dead" /\ v.ret = js[j].ret
        /\ v.rel <=> js[j].rel
        /\ v.blind <=> js[j].blind
    BY <1>0 DEF JobSetRecord
  <2>3. js'[j] = v /\ \A k \in JobIDs : k # j => js'[k] = js[k]
    BY <1>0, <2>1
  <2>4. ~wl'[j].boot /\ \A k \in JobIDs : k # j => wl'[k] = wl[k]
    BY <1>0, <2>1 DEF WorkloadRecord
  <2>5. Exists(js[j])
    BY <2>1 DEF RecordInv
  <2>6. RecordInv' /\ NotExtended
    <3>1. Exists(js'[j]) /\ js'[j].cond = "dead" /\ js'[j].ret = js[j].ret
      BY <2>2, <2>3, <2>5
    <3>2. NotExtended
      BY <2>3, <3>1 DEF NotExtended
    <3>3. ASSUME NEW k \in JobIDs, k # j
          PROVE  js'[k] = js[k] /\ wl'[k] = wl[k]
      BY <2>3, <2>4, <3>3
    <3>4. RecordInv'
      BY <2>4, <3>1, <3>3 DEF RecordInv
    <3> QED
      BY <3>2, <3>4
  <2>7. SnapInv'
    BY <2>1, <2>2, <2>3, <2>5 DEF SnapInv, Stamping, Unheard
  <2>8. CallInv' /\ MarkedNodesAreGone'
    BY <2>1, <2>2, <2>3, <2>5 DEF CallInv, MarkedNodesAreGone, Own, TickInv
  <2> QED
    BY <2>6, <2>7, <2>8 DEF Keeps
<1>2. CASE ExpireRetention(j)
  <2>1. /\ UNCHANGED <<job, node, wl, byID, pc, at, cur, todo, stale>>
        /\ js[j].ret = "retained" /\ js' = [js EXCEPT ![j].ret = "expired"]
        /\ snapJS' = IF snapJS[j].ret = "retained"
                     THEN [snapJS EXCEPT ![j].ret = "expired"] ELSE snapJS
    BY <1>2 DEF ExpireRetention
  <2>2. /\ js'[j].inc = js[j].inc /\ js'[j].cond = js[j].cond /\ js'[j].ret = "expired"
        /\ \A k \in JobIDs : k # j => js'[k] = js[k]
    BY <1>0, <2>1 DEF JobSetRecord
  <2>3. (js'[j].rel <=> js[j].rel) /\ (js'[j].blind <=> js[j].blind)
    BY <1>0, <2>1 DEF JobSetRecord
  <2>4. /\ snapJS'[j].cond = snapJS[j].cond
        /\ snapJS'[j].blind <=> snapJS[j].blind
        /\ snapJS'[j].ret = IF snapJS[j].ret = "retained" THEN "expired" ELSE snapJS[j].ret
        /\ \A k \in JobIDs : k # j => snapJS'[k] = snapJS[k]
    <3>1. CASE snapJS[j].ret = "retained"
      BY <1>0, <2>1, <3>1 DEF JobSetRecord
    <3>2. CASE snapJS[j].ret # "retained"
      BY <2>1, <3>2
    <3> QED
      BY <3>1, <3>2
  <2>5. (js[j].cond = "dead" \/ js[j].blind) /\ Exists(js[j])
    BY <2>1 DEF RecordInv, NoJobSet
  <2>6. RecordInv' /\ NotExtended
    BY <2>1, <2>2, <2>3, <2>5 DEF RecordInv, NotExtended
  <2>7. SnapInv'
    <3>1. ASSUME NEW k \in JobIDs
          PROVE  Stamping(k) => Stamping(k)'
      BY <2>1, <2>4 DEF Stamping, Unheard
    <3>2. pc \in {"create", "admit", "cleanup"} /\ j \notin stale =>
            js'[j].ret = snapJS'[j].ret \/ Stamping(j)
      BY <2>1, <2>2, <2>4, <2>5 DEF SnapInv
    <3>3. pc = "create" /\ j \in todo /\ j \notin stale => snapJS'[j] = NoJobSet
      <4>1. CASE snapJS[j].ret = "retained"
        BY <4>1 DEF SnapInv, NoJobSet
      <4>2. CASE snapJS[j].ret # "retained"
        BY <2>1, <4>2 DEF SnapInv
      <4> QED
        BY <4>1, <4>2
    <3> QED
      BY <2>1, <2>2, <2>3, <2>4, <2>5, <3>1, <3>2, <3>3 DEF SnapInv
  <2>8. CallInv'
    BY <2>1, <2>2, <2>3, <2>4 DEF CallInv, Own, TickInv, JobSetDead, RetentionHolds
  <2>9. MarkedNodesAreGone'
    BY <2>1, <2>2, <2>3 DEF MarkedNodesAreGone
  <2> QED
    BY <2>6, <2>7, <2>8, <2>9 DEF Keeps
<1> QED
  BY <1>1, <1>2

LEMMA KeepAround ==
  ASSUME KeepInv, NEW j \in JobIDs, SlurmStep(j) \/ KubeProgress(j) \/ KubeDisturbance(j)
  PROVE  Keeps
<1> USE DEF KeepInv, EndInv, slurmVars, kubeVars, tickVars
<1>0. job \in [JobIDs -> JobRecord] /\ wl \in [JobIDs -> WorkloadRecord]
      /\ node \in [JobIDs -> Nat]
  BY KeepTypes
<1>1. CASE Submit(j)
  <2>1. UNCHANGED <<node, js, wl, snapJS, byID, pc, at, cur, todo, stale>>
    BY <1>1 DEF Submit
  <2>2. job'[j].inc = job[j].inc + 1 /\ \A k \in JobIDs : k # j => job'[k] = job[k]
    BY <1>0, <1>1 DEF Submit
  <2>3. job'[j].inc # js[j].inc
    BY <2>2, KeepTypes DEF SeenInv
  <2>4. \A k \in JobIDs : /\ wl[k].cur = "none" \/ Exists(js[k])
                          /\ wl[k].boot => Exists(js[k]) /\ js[k].cond = "live"
    BY DEF RecordInv
  <2> QED
    BY <2>1, <2>2, <2>3, <2>4, KeepWorld
<1>2. CASE SlurmStep(j) /\ ~Submit(j)
  <2>1. UNCHANGED <<js, wl, snapJS, byID, pc, at, cur, todo, stale>>
    BY <1>2 DEF SlurmStep, StartJob, RequeueJob, FinishJob, UserCancels, Purge
  <2>2. \A k \in JobIDs : node'[k] \in {node[k], 0}
    BY <1>0, <1>2 DEF SlurmStep, StartJob, RequeueJob, FinishJob, UserCancels, Purge
  <2>3. Aging
    <3>1. \/ \E s \in {"pending", "running", "terminal"} :
               Alive(job[j]) /\ job' = [job EXCEPT ![j].st = s]
          \/ Purge(j)
      BY <1>2 DEF SlurmStep, StartJob, RequeueJob, FinishJob, UserCancels, SetState
    <3>2. CASE Purge(j)
      BY <1>0, <3>2 DEF Purge, Aging, NoJob, JobRecord
    <3> QED
      BY <3>1, <3>2, Ages
  <2>4. \A k \in JobIDs : /\ wl[k].cur = "none" \/ Exists(js[k])
                          /\ wl[k].boot => Exists(js[k]) /\ js[k].cond = "live"
    BY DEF RecordInv
  <2> QED
    BY <2>1, <2>2, <2>3, <2>4, KeepWorld DEF Aging
<1>3. CASE \/ KueueQueues(j) \/ KueueAdmits(j) \/ CollectWorkload(j) \/ RegisterNode(j)
           \/ CacheSync(j) \/ KueueEvicts(j)
  <2>1. UNCHANGED <<job, js, snapJS, byID, pc, at, cur, todo, stale>>
    BY <1>3 DEF KueueQueues, KueueAdmits, CollectWorkload, RegisterNode, CacheSync, KueueEvicts
  <2>2. \A k \in JobIDs : /\ wl[k].cur = "none" \/ Exists(js[k])
                          /\ wl[k].boot => Exists(js[k]) /\ js[k].cond = "live"
    BY DEF RecordInv
  <2>3. \A k \in JobIDs : k # j => wl'[k] = wl[k]
    BY <1>0, <1>3 DEF KueueQueues, KueueAdmits, CollectWorkload, RegisterNode, CacheSync, KueueEvicts
  <2>4. /\ wl'[j].cur = "none" \/ Exists(js[j])
        /\ wl'[j].boot => Exists(js[j]) /\ js[j].cond = "live"
    BY <1>0, <1>3, <2>2 DEF KueueQueues, KueueAdmits, CollectWorkload, RegisterNode,
       CacheSync, KueueEvicts, WorkloadRecord
  <2>5. \A k \in JobIDs : node'[k] = node[k] \/ (Exists(js[k]) /\ js[k].cond = "live")
    BY <1>0, <1>3, <2>2 DEF KueueQueues, KueueAdmits, CollectWorkload, RegisterNode,
       CacheSync, KueueEvicts
  <2> QED
    BY <2>1, <2>2, <2>3, <2>4, <2>5, KeepWorld
<1>4. CASE OperatorDeletes(j)
  BY <1>4, KeepGone DEF OperatorDeletes
<1> QED
  BY <1>1, <1>2, <1>3, <1>4, KeepFate DEF KubeProgress, KubeDisturbance

LEMMA KeepNext == KeepInv /\ [Next]_vars => KeepInv' /\ NotExtended
<1> SUFFICES ASSUME KeepInv, [Next]_vars PROVE Keeps
  BY EndNext DEF Keeps, KeepInv
<1>1. CASE Crash
  BY <1>1, KeepReset DEF Crash, slurmVars, kubeVars
<1>2. CASE UNCHANGED vars
  BY <1>2 DEF vars, slurmVars, kubeVars, tickVars, KeepInv, Keeps, RecordInv, SnapInv,
     Stamping, Unheard, CallInv, Own, MarkedNodesAreGone, NotExtended
<1> QED
  BY <1>1, <1>2, KeepBridge, KeepAround DEF Next

\* The retry of a failed DeleteNode stops only when it is needless (nodes-released),
\* but for a JobSet that was patched on an outdated copy.
THEOREM MarkedGone == Spec => []MarkedNodesAreGone
<1>1. Init => KeepInv
  BY KeepInit
<1>2. KeepInv /\ [Next]_vars => KeepInv'
  BY KeepNext
<1>3. KeepInv => MarkedNodesAreGone
  BY DEF KeepInv
<1> QED
  BY <1>1, <1>2, <1>3, PTL DEF Spec

\* Retention keeps its word: within its window cleanup deletes no JobSet whose stamp the
\* tick knows of, and no step opens a window that has passed (stampRetention), but for
\* JobSets of which the tick's snapshot got an outdated copy.
THEOREM KeepsRetention == Spec => RetentionKept
<1>1. Init => KeepInv
  BY KeepInit
<1>2. KeepInv /\ [Next]_vars => KeepInv' /\ NotExtended
  BY KeepNext
<1>3. ASSUME KeepInv, DeleteJobSet, NEW j \in JobIDs, js[j].ret = "retained", ~Unheard(j),
             j \notin stale
      PROVE  Exists(js'[j])
  <2>1. Exists(js[j]) /\ at = "delete" /\ pc = "cleanup" /\ cur \in JobIDs
    BY <1>3 DEF KeepInv, EndInv, RecordInv, NoJobSet, DeleteJobSet, TickInv
  <2>2. j # cur
    BY <1>3, <2>1 DEF KeepInv, CallInv, SnapInv, Stamping, RetentionHolds
  <2>3. js'[j] = js[j]
    BY <1>3, <2>1, <2>2 DEF KeepInv, EndInv, TypeOK, DeleteJobSet, JobSetGone
  <2> QED
    BY <2>1, <2>3
<1>4. KeepInv => (DeleteJobSet =>
        \A j \in JobIDs : js[j].ret = "retained" /\ ~Unheard(j) /\ j \notin stale
                            => Exists(js'[j]))
  BY <1>3
<1> QED
  BY <1>1, <1>2, <1>4, PTL DEF Spec, RetentionKept, RetentionHonoured, RetentionNeverExtended,
     NotExtended

=============================================================================
