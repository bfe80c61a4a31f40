-------------------------------- MODULE JobShape --------------------------------
(***************************************************************************)
(* What the bridge makes of the size of one job (internal/translate and    *)
(* the readers of internal/slurm/client.go): the pods of its JobSet, what  *)
(* each requests from Kueue, what each tells Slurm it has, the deadline of *)
(* the JobSet, and the node records it leaves in Slurm.  slurmrestd fills  *)
(* in node_count with its own estimate where the user asked for no nodes,  *)
(* and the estimate moves between one reading of the job and the next:     *)
(* the JobSet is made from one reading, the records of an orphaned job are *)
(* deleted by another.                                                     *)
(***************************************************************************)
EXTENDS Integers, FiniteSets

CONSTANTS
  MaxTasks,    \* bound: --ntasks, and the nodes
  MaxPerNode,  \* bound: --ntasks-per-node
  MaxGPUs,     \* bound: GPUs of a request
  Limits,      \* the time limits in minutes, 0: none
  MaxDelay,    \* bound: seconds from the start of the pods to the start of the job
  MaxFaults    \* bound: node deletions that fail

ASSUME ShapeConstantsOK ==
  /\ MaxTasks \in Nat \ {0} /\ MaxPerNode \in Nat /\ MaxGPUs \in Nat
  /\ Limits \subseteq Nat /\ MaxDelay \in Nat /\ MaxFaults \in Nat

VARIABLES
  req,        \* what the user asked for; 0: not given
  nodeCount,  \* node_count as slurmrestd reports it
  jobset,     \* the JobSet
  up,         \* ordinals of the pods that run
  records,    \* ordinals of the node records in Slurm
  phase,      \* of the job: none, held, running, ended, settled: and cleaned up after
  late,       \* seconds the job started after the pods
  failed,     \* history: ordinals whose record could not be deleted
  faults

vars == <<req, nodeCount, jobset, up, records, phase, late, failed, faults>>

-----------------------------------------------------------------------------
(* Requests as sbatch lets them through: no more nodes than tasks, and     *)
(* enough nodes for the tasks at that many per node.                       *)

Requests ==
  {r \in [tasks : 0..MaxTasks, perNode : 0..MaxPerNode, nodes : 0..MaxTasks,
          cpus : 0..2, mem : {0, 2}, gpus : 0..MaxGPUs, gpusFor : {"job", "node"}, limit : Limits] :
     /\ r.tasks > 0 => r.nodes <= r.tasks
     /\ r.tasks > 0 /\ r.nodes > 0 /\ r.perNode > 0 => r.tasks <= r.nodes * r.perNode}

CeilDiv(n, d) == (n + d - 1) \div d
AtLeastOne(n) == IF n = 0 THEN 1 ELSE n

\* node_count is the request where there is one, follows from the tasks where
\* --ntasks-per-node is given, and is an estimate, or missing, otherwise.
Reported(r) ==
  CASE r.nodes > 0                 -> {r.nodes}
    [] r.nodes = 0 /\ r.perNode > 0 -> {AtLeastOne(CeilDiv(r.tasks, r.perNode))}
    [] OTHER                       -> 0..AtLeastOne(r.tasks)

\* The nodes and tasks that Slurm will want to place.
WantedNodes(r) == AtLeastOne(r.nodes)
WantedTasks(r) == IF r.tasks > 0 THEN r.tasks ELSE WantedNodes(r) * AtLeastOne(r.perNode)
WantedGPUs(r) ==
  IF r.gpusFor = "job" THEN r.gpus ELSE r.gpus * WantedNodes(r)

-----------------------------------------------------------------------------
(* The readers of a job; n is its node_count.  Wrong... is the same with a *)
(* plausible mistake.                                                      *)

NTasks(r) == AtLeastOne(r.tasks)
CPUs(r)   == AtLeastOne(r.cpus)
MemPerCPUMB(r) == IF r.mem = 0 THEN 1024 ELSE r.mem
TasksPerNodeOrDefault(r) == AtLeastOne(r.perNode)

\* GPUs of the whole job are spread over the nodes, rounded up.
WrongGPUsPerNode(r, n) == IF r.gpusFor = "node" THEN r.gpus ELSE r.gpus \div AtLeastOne(n)
GPUsPerNode(r, n) == IF r.gpusFor = "node" THEN r.gpus ELSE CeilDiv(r.gpus, AtLeastOne(n))

\* Pods, and tasks for each: node_count counts only if --ntasks-per-node or
\* nothing but nodes was asked for.
WrongpodShape(r, n) ==
  IF n > 0 THEN [pods |-> n, tasks |-> TasksPerNodeOrDefault(r)]
  ELSE [pods |-> NTasks(r), tasks |-> 1]
podShape(r, n) ==
  CASE n > 0 /\ r.perNode > 0                 -> [pods |-> n, tasks |-> TasksPerNodeOrDefault(r)]
    [] n > 0 /\ r.perNode = 0 /\ r.tasks = 0  -> [pods |-> n, tasks |-> 1]
    [] OTHER                                  -> [pods |-> NTasks(r), tasks |-> 1]

WrongPodCount(r, n) == 1
PodCount(r, n) == podShape(r, n).pods

\* What each pod tells Slurm about itself.
WrongslurmdConf(r, n) ==
  [cpus |-> CPUs(r) * NTasks(r), mem |-> MemPerCPUMB(r) * CPUs(r) * NTasks(r), gpus |-> GPUsPerNode(r, n)]
slurmdConf(r, n) ==
  LET each == IF n > 0 THEN TasksPerNodeOrDefault(r) ELSE 1
  IN [cpus |-> CPUs(r) * each, mem |-> MemPerCPUMB(r) * CPUs(r) * each, gpus |-> GPUsPerNode(r, n)]

\* activeDeadlineSeconds: the limit and a tenth of it, at least five minutes more.
WrongDeadline(limit) == IF limit = 0 THEN 0 ELSE limit * 60 + limit * 6
Deadline(limit) ==
  IF limit = 0 THEN 0
  ELSE limit * 60 + IF limit * 6 < 300 THEN 300 ELSE limit * 6

\* What each pod requests from Kueue.
podResources(r, n) ==
  LET each == podShape(r, n).tasks
  IN [cpus |-> CPUs(r) * each, mem |-> MemPerCPUMB(r) * CPUs(r) * each, gpus |-> GPUsPerNode(r, n)]

Made(r, n) ==
  [pods     |-> podShape(r, n).pods,
   requests |-> podResources(r, n),
   conf     |-> slurmdConf(r, n),
   deadline |-> Deadline(r.limit)]

Gone == [pods |-> 0]
Exists == jobset # Gone
Ordinals(k) == 0..(k - 1)
NoRequest == [tasks |-> 0]

-----------------------------------------------------------------------------
Init ==
  /\ req = NoRequest /\ nodeCount = 0 /\ jobset = Gone /\ up = {} /\ records = {}
  /\ phase = "none" /\ late = 0 /\ failed = {} /\ faults = 0

\* A job is submitted, held by the plugin.
Submit ==
  /\ phase = "none"
  /\ \E r \in Requests : req' = r /\ \E n \in Reported(r) : nodeCount' = n
  /\ phase' = "held"
  /\ UNCHANGED <<jobset, up, records, late, failed, faults>>

\* Slurm estimates again how many nodes the job will take.
Estimate ==
  /\ phase \in {"held", "running"}
  /\ \E n \in Reported(req) \ {nodeCount} : nodeCount' = n
  /\ UNCHANGED <<req, jobset, up, records, phase, late, failed, faults>>

\* A tick makes the JobSet of the held job (ToJobSet, createJobSetUpTo).
ToJobSet ==
  /\ phase = "held" /\ ~Exists
  /\ jobset' = Made(req, nodeCount)
  /\ UNCHANGED <<req, nodeCount, up, records, phase, late, failed, faults>>

\* A pod starts and its slurmd registers under the pod's hostname.
Register ==
  /\ \E i \in Ordinals(jobset.pods) \ up : up' = up \union {i} /\ records' = records \union {i}
  /\ UNCHANGED <<req, nodeCount, jobset, phase, late, failed, faults>>

\* The released job starts when all its nodes are there.
Start ==
  /\ phase = "held" /\ Exists /\ up = Ordinals(jobset.pods)
  /\ phase' = "running" /\ late' \in {0, MaxDelay}
  /\ UNCHANGED <<req, nodeCount, jobset, up, records, failed, faults>>

\* The job ends by itself, or its user cancels it.
End ==
  /\ phase \in {"held", "running"} /\ phase' = "ended"
  /\ UNCHANGED <<req, nodeCount, jobset, up, records, late, failed, faults>>

\* Somebody deletes the JobSet; its pods go, their records stay.
Lose ==
  /\ Exists /\ jobset' = Gone /\ up' = {}
  /\ UNCHANGED <<req, nodeCount, records, phase, late, failed, faults>>

\* The records of the first k ordinals are deleted, each once, whatever is
\* answered; those in bad stay.
DeletesNodes(k) ==
  \E bad \in SUBSET (records \intersect Ordinals(k)) :
    /\ faults + Cardinality(bad) <= MaxFaults
    /\ faults' = faults + Cardinality(bad)
    /\ records' = (records \ Ordinals(k)) \union bad
    /\ failed' = failed \union bad

\* Cleanup of an ended job reads the pods off the JobSet it deletes.
Cleanup ==
  /\ phase = "ended" /\ Exists
  /\ DeletesNodes(jobset.pods)
  /\ jobset' = Gone /\ up' = {} /\ phase' = "settled"
  /\ UNCHANGED <<req, nodeCount, late>>

\* An orphaned job is cancelled; the pods are counted from the job again.
CancelOrphan ==
  /\ phase = "running" /\ ~Exists
  /\ phase' = "settled"
  /\ DeletesNodes(PodCount(req, nodeCount))
  /\ UNCHANGED <<req, nodeCount, jobset, up, late>>

\* Slurm forgets the job and gives its ID away again; an operator removes the
\* records that were left behind, all of them where the job ended by itself
\* after its JobSet: then nobody else does.
Purge ==
  /\ phase \in {"ended", "settled"} /\ ~Exists
  /\ phase' = "none" /\ req' = NoRequest /\ nodeCount' = 0 /\ records' = {}
  /\ late' = 0 /\ failed' = {}
  /\ UNCHANGED <<jobset, up, faults>>

Next ==
  \/ Submit \/ Estimate \/ ToJobSet \/ Register \/ Start \/ End
  \/ Lose \/ Cleanup \/ CancelOrphan \/ Purge

Spec == Init /\ [][Next]_vars

-----------------------------------------------------------------------------
(* Every variable keeps its type; a JobSet is never made without pods, and *)
(* pods run only for a JobSet that exists (ToJobSet).                      *)
TypeOK ==
  /\ req \in Requests \union {NoRequest}
  /\ nodeCount \in 0..MaxTasks
  /\ jobset = Gone \/ (jobset.pods \in 1..MaxTasks /\ jobset.deadline \in Nat)
  /\ up \subseteq Ordinals(jobset.pods)
  /\ records \subseteq Ordinals(MaxTasks) /\ failed \subseteq Ordinals(MaxTasks)
  /\ phase \in {"none", "held", "running", "ended", "settled"}
  /\ late \in 0..MaxDelay /\ faults \in 0..MaxFaults

(* What a pod requests from Kueue and what its slurmd advertises to Slurm  *)
(* are the same CPUs, memory and GPUs, although two functions compute them *)
(* with conditions of their own (podShape and slurmdConf).                 *)
LockStep == Exists => jobset.conf = jobset.requests

(* The pods together have a slot for each task the job asked for, whatever *)
(* node_count was when they were counted (podShape, CPUs).  It counts slots *)
(* only: how the job wants its tasks spread over nodes is not compared.    *)
RoomForTheTasks == Exists => jobset.pods * (jobset.conf.cpus \div CPUs(req)) >= WantedTasks(req)

(* The pods together have the GPUs the job asked for (GPUsPerNode).        *)
RoomForTheGPUs == Exists => jobset.pods * jobset.conf.gpus >= WantedGPUs(req)

(* A job that starts at most MaxDelay seconds after its pods may use its   *)
(* whole time limit before the deadline of the JobSet ends them (ToJobSet).*)
LimitFitsDeadline ==
  phase = "running" /\ Exists /\ jobset.deadline > 0 =>
    late + req.limit * 60 <= jobset.deadline

(* The JobSet has enough for what the job asked for: slots for its tasks,  *)
(* GPUs and time (ToJobSet).                                               *)
JobSetInv == TypeOK /\ RoomForTheTasks /\ RoomForTheGPUs /\ LimitFitsDeadline

(* Of a job the bridge has cleaned up after only the records stay whose    *)
(* deletion failed: the count made from the job again (PodCount) finds all *)
(* the pods the lost JobSet had, although node_count has moved since.      *)
CleanedJobsLeaveNoRecords == phase = "settled" => records \subseteq failed
================================================================================
