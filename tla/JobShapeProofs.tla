----------------------------- MODULE JobShapeProofs -----------------------------
(***************************************************************************)
(* Proofs about JobShape, for requests of any size, any limits, and any    *)
(* number of estimates and failures.                                       *)
(***************************************************************************)
EXTENDS JobShape, FiniteSetTheorems, TLAPS

\* A JobSet is what some reading of its job made of it; records are of its pods.
ShapeInv ==
  /\ phase # "none" => req \in Requests /\ nodeCount \in Reported(req)
  /\ phase \in {"none", "settled"} => ~Exists
  /\ phase = "none" => records = {}
  /\ Exists => jobset.pods = PodCount(req, nodeCount) /\ jobset.conf = jobset.requests
  /\ phase # "none" => records \subseteq Ordinals(PodCount(req, nodeCount))
  /\ phase = "settled" => records \subseteq failed

-----------------------------------------------------------------------------
(* The shape *)

\* Numbers.
LEMMA RequestTypes ==
  ASSUME NEW r \in Requests
  PROVE  /\ r.tasks \in Nat /\ r.perNode \in Nat /\ r.nodes \in Nat
         /\ r.tasks > 0 => r.nodes <= r.tasks
BY ShapeConstantsOK DEF Requests

\* Where the number of nodes is given, or follows, there is one reading of it.
\* Elsewhere --ntasks-per-node was not asked for, and --nodes neither.
LEMMA Readings ==
  ASSUME NEW r \in Requests, NEW m \in Reported(r), NEW n \in Reported(r)
  PROVE  m = n \/ (r.perNode = 0 /\ (r.tasks > 0 \/ (m \in {0, 1} /\ n \in {0, 1})))
<1>1. CASE r.nodes > 0
  BY <1>1 DEF Reported
<1>2. CASE r.nodes = 0 /\ r.perNode > 0
  BY <1>2 DEF Reported
<1>3. CASE r.nodes = 0 /\ r.perNode = 0
  <2>1. m \in 0..AtLeastOne(r.tasks) /\ n \in 0..AtLeastOne(r.tasks)
    BY <1>3 DEF Reported
  <2>2. r.tasks \in Nat
    BY RequestTypes
  <2> QED
    BY <1>3, <2>1, <2>2 DEF AtLeastOne
<1> QED
  BY <1>1, <1>2, <1>3, RequestTypes

\* The number of pods does not depend on which reading it is counted from.
LEMMA SamePods ==
  ASSUME NEW r \in Requests, NEW m \in Reported(r), NEW n \in Reported(r)
  PROVE  PodCount(r, m) = PodCount(r, n)
<1>1. CASE m = n
  BY <1>1
<1>2. CASE r.perNode = 0 /\ r.tasks > 0
  <2>1. PodCount(r, m) = NTasks(r) /\ PodCount(r, n) = NTasks(r)
    BY <1>2, RequestTypes DEF PodCount, podShape
  <2> QED
    BY <2>1
<1>3. CASE r.perNode = 0 /\ r.tasks = 0 /\ m \in {0, 1} /\ n \in {0, 1}
  <2>1. NTasks(r) = 1
    BY <1>3 DEF NTasks, AtLeastOne
  <2>2. PodCount(r, m) = 1 /\ PodCount(r, n) = 1
    BY <1>3, <2>1 DEF PodCount, podShape
  <2> QED
    BY <2>2
<1> QED
  BY <1>1, <1>2, <1>3, Readings, RequestTypes

\* podShape and slurmdConf give each pod as many tasks.
LEMMA SameTasks ==
  ASSUME NEW r \in Requests, NEW n \in Reported(r)
  PROVE  podShape(r, n).tasks = (IF n > 0 THEN TasksPerNodeOrDefault(r) ELSE 1)
<1>0. r.tasks \in Nat /\ r.perNode \in Nat /\ r.nodes \in Nat
  BY RequestTypes
<1>1. CASE n > 0 /\ r.perNode > 0
  BY <1>1 DEF podShape
<1>2. CASE n > 0 /\ r.perNode = 0
  <2>1. TasksPerNodeOrDefault(r) = 1
    BY <1>2 DEF TasksPerNodeOrDefault, AtLeastOne
  <2>2. podShape(r, n).tasks = 1
    BY <1>0, <1>2 DEF podShape
  <2> QED
    BY <1>2, <2>1, <2>2
<1>3. CASE ~(n > 0)
  BY <1>3 DEF podShape
<1> QED
  BY <1>0, <1>1, <1>2, <1>3

\* What is made is in step and exists.
LEMMA MadeInStep ==
  ASSUME NEW r \in Requests, NEW n \in Reported(r)
  PROVE  /\ Made(r, n).conf = Made(r, n).requests
         /\ Made(r, n).pods = PodCount(r, n)
<1>1. Made(r, n).conf = slurmdConf(r, n) /\ Made(r, n).requests = podResources(r, n)
      /\ Made(r, n).pods = PodCount(r, n)
  BY DEF Made, PodCount
<1>2. slurmdConf(r, n) = podResources(r, n)
  BY SameTasks DEF slurmdConf, podResources
<1> QED
  BY <1>1, <1>2

-----------------------------------------------------------------------------
(* The invariant *)

LEMMA ShapeInit == Init => ShapeInv
BY DEF Init, ShapeInv, Exists

\* The job arrives, and its estimate moves.
LEMMA SlurmReports ==
  ASSUME ShapeInv, Submit \/ Estimate
  PROVE  ShapeInv'
<1>1. CASE Submit
  <2>1. req' \in Requests /\ nodeCount' \in Reported(req') /\ phase' = "held"
        /\ UNCHANGED <<jobset, records, failed>> /\ ~Exists /\ records = {}
    BY <1>1 DEF Submit, ShapeInv
  <2> QED
    BY <2>1 DEF ShapeInv, Exists
<1>2. CASE Estimate
  <2>1. req \in Requests /\ nodeCount \in Reported(req) /\ nodeCount' \in Reported(req)
        /\ UNCHANGED <<req, jobset, records, failed, phase>>
    BY <1>2 DEF Estimate, ShapeInv
  <2>2. PodCount(req, nodeCount') = PodCount(req, nodeCount)
    BY <2>1, SamePods
  <2> QED
    BY <2>1, <2>2 DEF ShapeInv, Exists
<1> QED
  BY <1>1, <1>2

\* The JobSet is made, its pods register, and it may be lost.
LEMMA JobSetLives ==
  ASSUME ShapeInv, ToJobSet \/ Register \/ Lose
  PROVE  ShapeInv'
<1>1. CASE ToJobSet
  <2>1. req \in Requests /\ nodeCount \in Reported(req) /\ phase = "held" /\ jobset' = Made(req, nodeCount)
        /\ UNCHANGED <<req, nodeCount, records, failed, phase>>
    BY <1>1 DEF ToJobSet, ShapeInv
  <2> QED
    BY <2>1, MadeInStep DEF ShapeInv, Exists
<1>2. CASE Register
  <2>1. /\ UNCHANGED <<req, nodeCount, jobset, failed, phase>>
        /\ \E i \in Ordinals(jobset.pods) : records' = records \union {i}
    BY <1>2 DEF Register
  <2>2. Exists
    <3>1. SUFFICES ASSUME jobset = Gone PROVE FALSE
      BY DEF Exists
    <3>2. Ordinals(jobset.pods) = {}
      BY <3>1 DEF Gone, Ordinals
    <3> QED
      BY <2>1, <3>2
  <2> QED
    BY <2>1, <2>2 DEF ShapeInv, Exists
<1>3. CASE Lose
  BY <1>3 DEF Lose, ShapeInv, Exists
<1> QED
  BY <1>1, <1>2, <1>3

\* The job starts, ends, is purged.
LEMMA JobMoves ==
  ASSUME ShapeInv, Start \/ End \/ Purge
  PROVE  ShapeInv'
<1>1. CASE Start
  BY <1>1 DEF Start, ShapeInv, Exists
<1>2. CASE End
  BY <1>2 DEF End, ShapeInv, Exists
<1>3. CASE Purge
  BY <1>3 DEF Purge, ShapeInv, Exists
<1> QED
  BY <1>1, <1>2, <1>3

\* Cleanup counts the pods of the JobSet, the orphan pass counts them anew.
LEMMA RecordsGo ==
  ASSUME ShapeInv, Cleanup \/ CancelOrphan
  PROVE  ShapeInv'
<1>1. /\ DeletesNodes(PodCount(req, nodeCount)) /\ phase' = "settled" /\ phase # "none"
      /\ UNCHANGED <<req, nodeCount>> /\ jobset' = Gone
  BY DEF Cleanup, CancelOrphan, ShapeInv, Exists
<1>2. records \subseteq Ordinals(PodCount(req, nodeCount))
  BY <1>1 DEF ShapeInv
<1>3. PICK bad \in SUBSET (records \intersect Ordinals(PodCount(req, nodeCount))) :
        /\ records' = (records \ Ordinals(PodCount(req, nodeCount))) \union bad
        /\ failed' = failed \union bad
  BY <1>1 DEF DeletesNodes
<1>4. records' \subseteq failed' /\ records' \subseteq Ordinals(PodCount(req, nodeCount))
  BY <1>2, <1>3
<1> QED
  BY <1>1, <1>4 DEF ShapeInv, Exists

LEMMA ShapeStep == ShapeInv /\ [Next]_vars => ShapeInv'
<1> SUFFICES ASSUME ShapeInv, [Next]_vars PROVE ShapeInv'
  OBVIOUS
<1>1. CASE UNCHANGED vars
  BY <1>1 DEF vars, ShapeInv, Exists
<1>2. CASE Next
  BY <1>2, SlurmReports, JobSetLives, JobMoves, RecordsGo DEF Next
<1> QED
  BY <1>1, <1>2

-----------------------------------------------------------------------------
(* Theorems *)

\* What a pod requests from Kueue is what its slurmd advertises, for every shape of a
\* job and whatever node_count said (podShape and slurmdConf).
THEOREM InStep == Spec => []LockStep
<1>1. ShapeInv => LockStep
  BY DEF ShapeInv, LockStep
<1> QED
  BY <1>1, ShapeInit, ShapeStep, PTL DEF Spec

\* The pods counted from a later reading of the job are those its lost JobSet had, so
\* that only records stay whose deletion failed (PodCount, cancelOrphanedJobs).
THEOREM NoGhosts == Spec => []CleanedJobsLeaveNoRecords
<1>1. ShapeInv => CleanedJobsLeaveNoRecords
  BY DEF ShapeInv, CleanedJobsLeaveNoRecords
<1> QED
  BY <1>1, ShapeInit, ShapeStep, PTL DEF Spec

-----------------------------------------------------------------------------
(* What the JobSet holds                                                    *)

LEMMA CeilDivCovers ==
  ASSUME NEW n \in Nat, NEW d \in Nat \ {0}
  PROVE  /\ CeilDiv(n, d) \in Nat /\ d * CeilDiv(n, d) >= n
         /\ n = 0 => CeilDiv(n, d) = 0
         /\ n > 0 => CeilDiv(n, d) > 0 /\ CeilDiv(n, d) <= n
<1> DEFINE m == n + d - 1
           q == m \div d
<1>1. m \in Nat
  OBVIOUS
<1> HIDE DEF m
<1>2. q \in Nat /\ d * q <= m /\ m < d * q + d
  BY <1>1
<1> HIDE DEF q
<1>3. d * q >= n /\ (n = 0 => d * q < d) /\ (n > 0 => d * q >= 1 /\ d * q <= n + d - 1)
  BY <1>2 DEF m
<1>4. n = 0 => q = 0
  BY <1>2, <1>3
<1>5. n > 0 => q > 0 /\ q <= n
  <2> SUFFICES ASSUME n > 0 PROVE q > 0 /\ q <= n
    OBVIOUS
  <2>1. q > 0
    BY <1>2, <1>3
  <2>2. q <= n
    <3> SUFFICES ASSUME q > n PROVE FALSE
      BY <1>2
    <3>1. d * q >= d * (n + 1)
      BY <1>2
    <3>2. d * (n + 1) = d * n + d /\ d * n >= n
      OBVIOUS
    <3> QED
      BY <1>2, <1>3, <3>1, <3>2
  <2> QED
    BY <2>1, <2>2
<1> QED
  BY <1>2, <1>3, <1>4, <1>5 DEF CeilDiv, q, m

\* More of them, more together.
LEMMA Grows ==
  ASSUME NEW a \in Nat, NEW b \in Nat, NEW c \in Nat, a >= b
  PROVE  a * c >= b * c
OBVIOUS

\* The sizes that a reading gives.
LEMMA ReadingTypes ==
  ASSUME NEW r \in Requests, NEW n \in Reported(r)
  PROVE  /\ n \in 0..MaxTasks /\ r.cpus \in 0..2 /\ r.gpus \in Nat /\ r.limit \in Nat
         /\ r.tasks \in 0..MaxTasks /\ r.nodes \in 0..MaxTasks /\ r.perNode \in Nat
         /\ r.tasks > 0 => r.nodes <= r.tasks
         /\ r.tasks > 0 /\ r.nodes > 0 /\ r.perNode > 0 => r.tasks <= r.nodes * r.perNode
         /\ r.nodes > 0 => n = r.nodes
         /\ r.nodes = 0 /\ r.perNode > 0 => n = AtLeastOne(CeilDiv(r.tasks, r.perNode))
         /\ r.nodes = 0 /\ r.perNode = 0 => n <= AtLeastOne(r.tasks)
<1>1. /\ r.cpus \in 0..2 /\ r.gpus \in Nat /\ r.limit \in Nat
      /\ r.tasks \in 0..MaxTasks /\ r.nodes \in 0..MaxTasks /\ r.perNode \in Nat
      /\ r.tasks > 0 => r.nodes <= r.tasks
      /\ r.tasks > 0 /\ r.nodes > 0 /\ r.perNode > 0 => r.tasks <= r.nodes * r.perNode
  <2>1. /\ r \in [tasks : 0..MaxTasks, perNode : 0..MaxPerNode, nodes : 0..MaxTasks, cpus : 0..2,
                  mem : {0, 2}, gpus : 0..MaxGPUs, gpusFor : {"job", "node"}, limit : Limits]
    BY Zenon DEF Requests
  <2>2. r.tasks > 0 => r.nodes <= r.tasks
    BY <2>1 DEF Requests
  <2>4. r.tasks > 0 /\ r.nodes > 0 /\ r.perNode > 0 => r.tasks <= r.nodes * r.perNode
    BY <2>1 DEF Requests
  <2>3. /\ r.cpus \in 0..2 /\ r.gpus \in Nat /\ r.limit \in Nat
        /\ r.tasks \in 0..MaxTasks /\ r.nodes \in 0..MaxTasks /\ r.perNode \in Nat
    <3>1. /\ r.cpus \in 0..2 /\ r.gpus \in 0..MaxGPUs /\ r.limit \in Limits
          /\ r.tasks \in 0..MaxTasks /\ r.nodes \in 0..MaxTasks /\ r.perNode \in 0..MaxPerNode
      BY <2>1
    <3>2. r.limit \in Nat
      BY <3>1, ShapeConstantsOK, Zenon
    <3>3. r.gpus \in Nat /\ r.perNode \in Nat
      BY <3>1, ShapeConstantsOK
    <3> QED
      BY <3>1, <3>2, <3>3
  <2> QED
    BY <2>2, <2>3, <2>4
<1>2. CASE r.nodes > 0
  BY <1>1, <1>2 DEF Reported
<1>3. CASE r.nodes = 0 /\ r.perNode > 0
  <2>1. n = AtLeastOne(CeilDiv(r.tasks, r.perNode))
    BY <1>3 DEF Reported
  <2>2. CeilDiv(r.tasks, r.perNode) \in 0..MaxTasks
    <3>1. r.tasks \in Nat /\ r.perNode \in Nat \ {0}
      BY <1>1, <1>3, ShapeConstantsOK
    <3>2. CeilDiv(r.tasks, r.perNode) \in Nat /\ CeilDiv(r.tasks, r.perNode) <= r.tasks
      BY <3>1, CeilDivCovers
    <3> QED
      BY <1>1, <3>2, ShapeConstantsOK
  <2>3. n \in 0..MaxTasks
    BY <2>1, <2>2, ShapeConstantsOK DEF AtLeastOne
  <2> QED
    BY <1>1, <1>3, <2>1, <2>3
<1>4. CASE r.nodes = 0 /\ r.perNode = 0
  <2>1. n \in 0..AtLeastOne(r.tasks)
    BY <1>4 DEF Reported
  <2>2. AtLeastOne(r.tasks) \in 1..MaxTasks
    BY <1>1, ShapeConstantsOK DEF AtLeastOne
  <2> QED
    BY <1>1, <1>4, <2>1, <2>2, ShapeConstantsOK
<1> QED
  BY <1>1, <1>2, <1>3, <1>4

\* There is a pod for every node that Slurm wants or reports.
LEMMA EnoughPods ==
  ASSUME NEW r \in Requests, NEW n \in Reported(r)
  PROVE  /\ podShape(r, n).pods \in 1..MaxTasks /\ podShape(r, n).tasks \in Nat \ {0}
         /\ podShape(r, n).pods >= AtLeastOne(n) /\ podShape(r, n).pods >= WantedNodes(r)
<1> USE ReadingTypes, ShapeConstantsOK
<1>1. CASE n > 0 /\ r.perNode > 0
  <2>1. podShape(r, n).pods = n /\ podShape(r, n).tasks = r.perNode
    BY <1>1 DEF podShape, TasksPerNodeOrDefault, AtLeastOne
  <2> QED
    BY <1>1, <2>1 DEF WantedNodes, AtLeastOne
<1>2. CASE n > 0 /\ r.perNode = 0 /\ r.tasks = 0
  <2>1. podShape(r, n).pods = n /\ podShape(r, n).tasks = 1
    BY <1>2 DEF podShape
  <2> QED
    BY <1>2, <2>1 DEF WantedNodes, AtLeastOne
<1>3. CASE ~(n > 0) \/ (r.perNode = 0 /\ r.tasks > 0)
  <2>1. podShape(r, n).pods = NTasks(r) /\ podShape(r, n).tasks = 1
    BY <1>3 DEF podShape
  <2>2. NTasks(r) \in 1..MaxTasks /\ NTasks(r) >= r.tasks /\ (r.tasks = 0 => NTasks(r) = 1)
    BY DEF NTasks, AtLeastOne
  <2>3. NTasks(r) >= AtLeastOne(n)
    BY <1>3, <2>2 DEF AtLeastOne
  <2>4. NTasks(r) >= WantedNodes(r)
    BY <1>3, <2>2 DEF AtLeastOne, WantedNodes
  <2> QED
    BY <2>1, <2>2, <2>3, <2>4
<1> QED
  BY <1>1, <1>2, <1>3

\* The pods hold all tasks.
LEMMA EnoughTasks ==
  ASSUME NEW r \in Requests, NEW n \in Reported(r)
  PROVE  podShape(r, n).pods * podShape(r, n).tasks >= WantedTasks(r)
<1> USE ReadingTypes, ShapeConstantsOK
<1>1. CASE n > 0 /\ r.perNode > 0
  <2>1. podShape(r, n).pods = n /\ podShape(r, n).tasks = r.perNode
        /\ AtLeastOne(r.perNode) = r.perNode
    BY <1>1 DEF podShape, TasksPerNodeOrDefault, AtLeastOne
  <2>2. n * r.perNode >= WantedTasks(r)
    <3>1. CASE r.nodes > 0
      BY <1>1, <2>1, <3>1 DEF WantedTasks, WantedNodes, AtLeastOne
    <3>2. CASE r.nodes = 0 /\ r.tasks > 0
      <4>1. n = CeilDiv(r.tasks, r.perNode)
        BY <1>1, <3>2, CeilDivCovers DEF AtLeastOne
      <4>2. r.perNode * n >= r.tasks
        BY <1>1, <4>1, CeilDivCovers
      <4> QED
        BY <3>2, <4>2 DEF WantedTasks
    <3>3. CASE r.nodes = 0 /\ r.tasks = 0
      <4>1. WantedTasks(r) = 1 * r.perNode
        BY <2>1, <3>3 DEF WantedTasks, WantedNodes, AtLeastOne
      <4> QED
        BY <1>1, <4>1, Grows
    <3> QED
      BY <3>1, <3>2, <3>3
  <2> QED
    BY <2>1, <2>2
<1>2. CASE n > 0 /\ r.perNode = 0 /\ r.tasks = 0
  <2>1. podShape(r, n).pods = n /\ podShape(r, n).tasks = 1
    BY <1>2 DEF podShape
  <2> QED
    BY <1>2, <2>1 DEF WantedTasks, WantedNodes, AtLeastOne
<1>3. CASE ~(n > 0) \/ (r.perNode = 0 /\ r.tasks > 0)
  <2>1. podShape(r, n).pods = NTasks(r) /\ podShape(r, n).tasks = 1
    BY <1>3 DEF podShape
  <2>2. r.perNode = 0
    BY <1>3, CeilDivCovers DEF AtLeastOne
  <2> QED
    BY <1>3, <2>1, <2>2 DEF WantedTasks, WantedNodes, NTasks, AtLeastOne
<1> QED
  BY <1>1, <1>2, <1>3

\* What is made of any reading holds the tasks and the GPUs.
LEMMA MadeHolds ==
  ASSUME NEW r \in Requests, NEW n \in Reported(r)
  PROVE  /\ Made(r, n).pods \in 1..MaxTasks /\ Made(r, n).deadline = Deadline(r.limit)
         /\ Made(r, n).pods * (Made(r, n).conf.cpus \div CPUs(r)) >= WantedTasks(r)
         /\ Made(r, n).pods * Made(r, n).conf.gpus >= WantedGPUs(r)
<1> DEFINE pods == podShape(r, n).pods
           each == podShape(r, n).tasks
<1>1. /\ pods \in 1..MaxTasks /\ each \in Nat \ {0}
      /\ pods >= AtLeastOne(n) /\ pods >= WantedNodes(r) /\ pods * each >= WantedTasks(r)
  BY EnoughPods, EnoughTasks
<1>2. /\ Made(r, n).pods = pods /\ Made(r, n).deadline = Deadline(r.limit)
      /\ Made(r, n).conf = podResources(r, n)
  BY MadeInStep DEF Made
<1>3. /\ podResources(r, n).cpus = CPUs(r) * each
      /\ podResources(r, n).gpus = GPUsPerNode(r, n)
  BY DEF podResources
<1> HIDE DEF pods, each
<1>4. Made(r, n).conf.cpus \div CPUs(r) = each
  <2>1. CPUs(r) \in {1, 2}
    BY ReadingTypes DEF CPUs, AtLeastOne
  <2>2. (1 * each) \div 1 = each /\ (2 * each) \div 2 = each
    BY <1>1
  <2> QED
    BY <1>2, <1>3, <2>1, <2>2
<1>5. pods * GPUsPerNode(r, n) >= WantedGPUs(r)
  <2>0. r.gpus \in Nat /\ r.nodes \in Nat /\ n \in Nat /\ pods \in Nat
    BY <1>1, ReadingTypes, ShapeConstantsOK
  <2>1. CASE r.gpusFor = "job"
    <3> DEFINE d == AtLeastOne(n)
               q == CeilDiv(r.gpus, d)
    <3>1. d \in Nat \ {0}
      BY <2>0 DEF AtLeastOne
    <3>2. pods >= d
      BY <1>1
    <3>3. GPUsPerNode(r, n) = q /\ WantedGPUs(r) = r.gpus
      BY <2>1 DEF GPUsPerNode, WantedGPUs
    <3> HIDE DEF d
    <3>4. q \in Nat /\ d * q >= r.gpus
      BY <2>0, <3>1, CeilDivCovers
    <3> HIDE DEF q
    <3>5. pods * q >= d * q
      BY <2>0, <3>1, <3>2, <3>4, Grows
    <3> QED
      BY <2>0, <3>1, <3>3, <3>4, <3>5
  <2>2. CASE r.gpusFor # "job"
    <3>1. r.gpusFor = "node"
      BY <2>2 DEF Requests
    <3>2. GPUsPerNode(r, n) = r.gpus /\ WantedGPUs(r) = r.gpus * WantedNodes(r)
      BY <3>1 DEF GPUsPerNode, WantedGPUs
    <3>3. WantedNodes(r) \in Nat
      BY <2>0 DEF WantedNodes, AtLeastOne
    <3>4. pods * r.gpus >= WantedNodes(r) * r.gpus
      BY <1>1, <2>0, <3>3, Grows
    <3> QED
      BY <2>0, <3>2, <3>3, <3>4
  <2> QED
    BY <2>1, <2>2
<1> QED
  BY <1>1, <1>2, <1>3, <1>4, <1>5

\* The deadline leaves room for the limit and five minutes.
LEMMA DeadlineLeavesRoom ==
  ASSUME NEW limit \in Nat
  PROVE  /\ Deadline(limit) \in Nat
         /\ Deadline(limit) > 0 => limit * 60 + 300 <= Deadline(limit)
BY DEF Deadline

\* The JobSet was made of some reading of the job that is there.
SizeInv ==
  /\ TypeOK
  /\ Exists => phase # "none" /\ \E n \in Reported(req) : jobset = Made(req, n)

LEMMA SizeInit == Init => SizeInv
<1> SUFFICES ASSUME Init PROVE SizeInv
  OBVIOUS
<1> QED
  BY ShapeConstantsOK DEF Init, SizeInv, TypeOK, Exists, Gone, Ordinals

LEMMA DeletesTypes ==
  ASSUME TypeOK, NEW k, DeletesNodes(k)
  PROVE  /\ records' \subseteq Ordinals(MaxTasks) /\ failed' \subseteq Ordinals(MaxTasks)
         /\ faults' \in 0..MaxFaults
<1>1. PICK bad \in SUBSET (records \intersect Ordinals(k)) :
        /\ faults + Cardinality(bad) <= MaxFaults
        /\ faults' = faults + Cardinality(bad)
        /\ records' = (records \ Ordinals(k)) \union bad
        /\ failed' = failed \union bad
  BY DEF DeletesNodes
<1>2. records \subseteq Ordinals(MaxTasks) /\ failed \subseteq Ordinals(MaxTasks)
      /\ faults \in 0..MaxFaults
  BY DEF TypeOK
<1>3. Cardinality(bad) \in Nat
  <2>1. IsFiniteSet(Ordinals(MaxTasks))
    BY FS_Interval, ShapeConstantsOK DEF Ordinals
  <2>2. IsFiniteSet(bad)
    BY <1>2, <2>1, FS_Subset
  <2> QED
    BY <2>2, FS_CardinalityType
<1>4. faults' \in 0..MaxFaults
  BY <1>1, <1>2, <1>3, ShapeConstantsOK
<1> QED
  BY <1>1, <1>2, <1>4

LEMMA SizeStep == ShapeInv /\ SizeInv /\ [Next]_vars => SizeInv'
<1> SUFFICES ASSUME ShapeInv, SizeInv, [Next]_vars PROVE SizeInv'
  OBVIOUS
<1> USE DEF SizeInv
<1>0. /\ req \in Requests \union {NoRequest} /\ nodeCount \in 0..MaxTasks
      /\ up \subseteq Ordinals(jobset.pods) /\ records \subseteq Ordinals(MaxTasks)
  BY DEF TypeOK
<1>1. CASE UNCHANGED vars
  BY <1>1 DEF vars, TypeOK, Exists
<1>2. CASE Submit \/ Estimate
  <2>1. /\ req' \in Requests /\ nodeCount' \in Reported(req') /\ (Exists => req' = req)
        /\ phase' \in {"held", "running"}
        /\ UNCHANGED <<jobset, up, records, late, failed, faults>>
    BY <1>2 DEF Submit, Estimate, ShapeInv
  <2>2. nodeCount' \in 0..MaxTasks
    BY <2>1, ReadingTypes
  <2> QED
    BY <2>1, <2>2 DEF TypeOK, Exists
<1>3. CASE ToJobSet
  <2>1. /\ req \in Requests /\ nodeCount \in Reported(req) /\ jobset' = Made(req, nodeCount)
        /\ phase = "held" /\ jobset = Gone
        /\ UNCHANGED <<req, nodeCount, up, records, phase, late, failed, faults>>
    BY <1>3 DEF ToJobSet, ShapeInv, Exists
  <2>2. req.limit \in Nat
    BY <2>1, ReadingTypes
  <2>3. jobset'.pods \in 1..MaxTasks /\ jobset'.deadline \in Nat
    BY <2>1, <2>2, MadeHolds, DeadlineLeavesRoom
  <2>4. up' = {}
    BY <2>1 DEF TypeOK, Ordinals, Gone
  <2> QED
    BY <2>1, <2>3, <2>4 DEF TypeOK, Exists
<1>4. CASE Register
  <2>1. PICK i \in Ordinals(jobset.pods) \ up :
          up' = up \union {i} /\ records' = records \union {i}
    BY <1>4 DEF Register
  <2>2. UNCHANGED <<req, nodeCount, jobset, phase, late, failed, faults>>
    BY <1>4 DEF Register
  <2>3. i \in Ordinals(MaxTasks)
    BY <2>1, ShapeConstantsOK DEF TypeOK, Ordinals, Gone
  <2> QED
    BY <2>1, <2>2, <2>3 DEF TypeOK, Exists
<1>5. CASE Start \/ End
  BY <1>5, ShapeConstantsOK DEF Start, End, TypeOK, Exists
<1>6. CASE Lose
  <2>1. jobset' = Gone /\ up' = {} /\ UNCHANGED <<req, nodeCount, records, phase, late, failed, faults>>
    BY <1>6 DEF Lose
  <2> QED
    BY <2>1 DEF TypeOK, Exists
<1>7. CASE Cleanup \/ CancelOrphan
  <2>1. /\ jobset' = Gone /\ phase' = "settled" /\ up' \subseteq Ordinals(jobset'.pods)
        /\ UNCHANGED <<req, nodeCount, late>> /\ \E k : DeletesNodes(k)
    BY <1>0, <1>7 DEF Cleanup, CancelOrphan, Exists
  <2>2. /\ records' \subseteq Ordinals(MaxTasks) /\ failed' \subseteq Ordinals(MaxTasks)
        /\ faults' \in 0..MaxFaults
    BY <2>1, DeletesTypes
  <2> QED
    BY <2>1, <2>2 DEF TypeOK, Exists
<1>8. CASE Purge
  BY <1>8, ShapeConstantsOK DEF Purge, TypeOK, Exists
<1> QED
  BY <1>1, <1>2, <1>3, <1>4, <1>5, <1>6, <1>7, <1>8 DEF Next

\* For a request of any size and however node_count moves, the JobSet has room for the
\* tasks and the GPUs the job asked for; and for its time limit, if the job starts within
\* the five minutes that ToJobSet adds (ToJobSet, podShape, GPUsPerNode).
THEOREM JobFits == ASSUME MaxDelay <= 300 PROVE Spec => []JobSetInv
<1>1. ASSUME ShapeInv, SizeInv PROVE JobSetInv
  <2> SUFFICES ASSUME Exists PROVE RoomForTheTasks /\ RoomForTheGPUs /\ LimitFitsDeadline
    BY <1>1 DEF JobSetInv, SizeInv, RoomForTheTasks, RoomForTheGPUs, LimitFitsDeadline
  <2>1. req \in Requests
    BY <1>1 DEF SizeInv, ShapeInv
  <2>2. PICK n \in Reported(req) : jobset = Made(req, n)
    BY <1>1 DEF SizeInv
  <2>3. RoomForTheTasks /\ RoomForTheGPUs
    BY <2>1, <2>2, MadeHolds DEF RoomForTheTasks, RoomForTheGPUs
  <2>4. LimitFitsDeadline
    <3>1. req.limit \in Nat /\ jobset.deadline = Deadline(req.limit)
      BY <2>1, <2>2, MadeHolds, ReadingTypes
    <3>2. late \in 0..MaxDelay
      BY <1>1 DEF SizeInv, TypeOK
    <3> QED
      BY <3>1, <3>2, DeadlineLeavesRoom, ShapeConstantsOK DEF LimitFitsDeadline
  <2> QED
    BY <2>3, <2>4
<1> QED
  BY <1>1, ShapeInit, ShapeStep, SizeInit, SizeStep, PTL DEF Spec

=============================================================================
