# A TLA+ model of k8s-bridge

`k8s-bridge` runs Slurm jobs on Kubernetes capacity that Kueue hands out. A job
is submitted to Slurm held; the bridge creates a JobSet for it; Kueue admits the
JobSet's Workload; the pods start `slurmd` and register dynamic nodes; the bridge
pins the job to those nodes and releases it; when the job has ended the bridge
deletes the node records and the JobSet. A second program, `ray-bridge`, does the
reverse for Ray clusters. This directory holds TLA+ specifications of the parts
whose difficulty lies in the order of steps, the configurations that model-check
them, and proofs checked by TLAPS.

Source paths below are relative to the root of the repository; `reconciler.go`,
`kueue.go`, `crdconfig.go`, `supervisor.go` and `health.go` without a path are in
`internal/bridge/`.

## 1. Inventory

| Component | State it keeps | Operations | Talks to | What is hard |
|---|---|---|---|---|
| **Tick** (`reconciler.go` `tick`, `admitHeldJobs`, `ensureJobSet`, `cleanupFinishedJobs` and their helpers) | per tick: the jobs listed, a snapshot of JobSets and Workloads; across ticks only caches for comments and metrics. Everything else lives in Slurm and Kubernetes | list, signal unmanaged partitions, create or adopt JobSets, write status, pin, release, fail jobs on dead JobSets, stamp and honour retention, delete nodes and JobSets, drain preempted nodes | slurmrestd (one HTTP call each), the API server (writes), the informer cache (reads) | every call may fail, lose its reply or be the last before a crash; jobs, Workloads and JobSets change between the list and the use; job IDs and with them all names are reused |
| **Snapshot, Kueue status** (`kueue.go` `snapshot`, `propagateStatus`, `internal/kueue`) | `commentState` (throttle) | owned JobSets by name, Workloads by owner *name*, the Admitted and Evicted conditions, quota texts | informer cache; slurmrestd for the comment | stale and partial caches; a Workload that outlives its JobSet |
| **Priority** (`kueue.go` `applyPriorityDirective`, `syncPriority`) | the admin comment, an annotation with the last value seen on both sides | directive out of the admin comment; three-way mirror | slurmrestd, Workload, JobSet | read-modify-write of a field the Slurm plugin writes too; clamped values that never converge |
| **Orphan guard** (`reconciler.go` `cancelOrphanedJobs`) | `orphanSeen`, counters across ticks | cancel jobs whose JobSet disappeared, behind four guards | snapshot, `byID` | absence of evidence in a cache is not evidence of absence; "consecutive" ticks when some ticks return early |
| **Run loop** (`reconciler.go` `Run`, `Nudge`, `nextBackoff`, `watch.go`) | a channel of capacity one, the failure count | tick, wait with backoff, wake by watch, damping | watches | lost or coalesced nudges, shifts that overflow |
| **Health** (`health.go`) | time and outcome of the last ticks | liveness and readiness probes | Run loop | a staleness limit shorter than the longest backoff |
| **Hot reload, Ready condition** (`crdconfig.go`) | an atomic configuration pointer, pending reports of the writer | swap configuration, report a tick, report or clear a rejection | WorkloadMixing status | two writers of one condition, conflicts, late reports of an older generation |
| **Supervisor** (`supervisor.go`) | one entry per WorkloadMixing | start, replace and stop one bridge per CR, refuse conflicting partitions | API server, Run loops | a bridge that was forgotten but has not stopped yet |
| **Slurm client** (`internal/slurm`) | connection, token, rate limiter | typed REST calls, streaming decode | slurmrestd | lost replies, burst size, number parsing |
| **Translation** (`internal/translate`) | none | job to JobSet: shape, names, annotations | | rounding and limits of the pod shape |
| **Configuration** (`internal/config`) | none | parse, default, validate | | boundaries of intervals |
| **Ray bridge** (`internal/raybridge`, `raywebhook`, `ray`, `raytranslate`, `rayconfig`) | a retry count in an annotation | pin by webhook, create worker JobSets, retry | API server, Kueue | stale copies that spend the retry budget twice, deletion by name |
| **Metrics, process wiring, API types, charts, experiments, dashboards** | write-only or data | | | nothing a model checker reaches |

What makes them correct:

* *Tick*: a job runs only on nodes made for this very submission and only after
  Kueue admitted them; no capacity of a living job is deleted; a held job whose
  JobSet can be created is released; a job whose capacity died is failed; what an
  ended job leaves behind is deleted, no earlier than a retention window allows.
* *Orphan guard*: no job is cancelled because a cache was blind or partial; a job
  whose JobSet stays away is cancelled in the end.
* *Run loop, health*: no nudge is lost, ticks keep a minimum distance, the wait
  is never negative, a backing-off bridge is not declared dead.
* *Ready condition, supervisor*: a rejected generation is never shown as ready;
  two bridges never manage one partition; a replaced CR ends up managed.
* *Priority*: a directive is applied once and does not erase another writer's text.
* *Ray bridge*: a RayJob waits for workers of its own, those of another are not
  deleted for it, the number of retries is bounded, and abandoned workers go.

* *Slurm client*: no partial list and no answer of somebody else is acted on; a slow
  limiter or a new token delays ticks but does not end them.
* *Translation*: pods, registered nodes and deleted records agree in number and size,
  whatever Slurm's estimate of the nodes says at the moment.

Every component but metrics, API types and the deployment material has a module;
section 8 lists what of a component is left out. The hazards of the code, each at its
line, are in `PROJECT.json`.

## 2. The modules

| # | Module | Contents | Relation to the others |
|---|---|---|---|
| 1 | `SlurmBridge` (`MCSlurmBridge`, `SlurmBridgeProofs`) | the tick call by call, its partners and its failures | |
| 2 | `JobLifecycle` (proved in `SlurmBridgeProofs`) | the life of one job as the bridge promises it | abstract specification of 1, which implements it under a refinement mapping |
| 3 | `OrphanGuard` (`MCOrphanGuard`, `OrphanGuardProofs`) | the orphan pass with its guards, counters and partial caches over many ticks | follows the cleanup phase of 1, whose effect it abstracts to `JobSetGoes` |
| 4 | `RunLoop` (`MCRunLoop`, `RunLoopProofs`) | timer, backoff, jitter, nudges, damping, readiness, in discrete time | says when the tick of 1 happens |
| 5 | `Settings` | configuration: defaults, validation, allowlists, lookups, endpoint identity | extended by 6 |
| 6 | `Fleet` (`MCFleet`, `FleetProofs`) | which bridges run on which configuration: supervisor, hot reload, the writer of the Ready condition | composes 5 with many loops like 4, of whose ticks it keeps begin, end and report |
| 7 | `PrioritySync` (`PrioritySyncProofs`) | directive and mirror of one job's priority, call by call, with second writers | the priority calls of cleanup in 1 |
| 8 | `JobShape` (`JobShapeProofs`) | readers of a job, its translation, node names, deadline, the records left in Slurm | what 1 calls a JobSet and a node record, by number and size |
| 9 | `SlurmCalls` (`SlurmCallsProofs`) | what becomes of one REST call: token, limiter, answer, streamed list | what 1 takes as success, refusal, failure, lost reply |
| 10 | `RayBridge` (`MCRayBridge`, `RayBridgeProofs`) | worker JobSets of RayJobs: identity by UID, bounded retries, stale copies, webhook | a program of its own |

The first nine are one program cut along its seams: each module keeps the control of its part and
of the others only what its own decisions read. What is handed over at a seam is stated
where it is assumed: `SlurmBridge` takes from `SlurmCalls` that a call is done, refused,
without effect or unanswered, from `Settings` that a mapped job translates, and from
`Fleet` that no second bridge works on its partition.

Every safety property that a run finds to hold is also a theorem (section 7). What the
plan leaves for later: a composition of `Fleet` with `OrphanGuard` for partitions that
move between objects (`kueue.go:79-82`, section 4).

## 3. `SlurmBridge`: how it corresponds to the code

One instance of the bridge process works through ticks. A tick is cut into its
remote calls: one call is one action, because anything may happen between two
calls and nothing of interest happens inside one.

| Variables | Stand for |
|---|---|
| `job[j]` | the record slurmctld keeps of job ID `j`: `inc` counts the submissions of the ID and stands for `submit_time`; `held`, `pinned` (constraint `nodes-for-<id>`), `mapped` (its partition has a PartitionMappings entry), `comment`; `mirrored` is history: the priority mirror has changed the hold since the last release |
| `node[j]` | the dynamic node record of the job, with the incarnation whose pods registered it. All records of one job are one record |
| `js[j]` | the JobSet `slurm-job-<j>` on the API server: the submit time it was made for, live or dead (Failed or Completed), the retention stamp, the nodes-released mark; `blind` is history: it was patched on the copy of another state of it |
| `wl[j]` | Kueue's Workload of that JobSet (`cur`), whether its pods are starting (`boot`), and a Workload of an already deleted JobSet (`old`) |
| `granted[j]` | history, read by a property only: the last incarnation that Kueue gave capacity to |
| `cache[j]` | the informer cache's copy of the JobSet |
| `pc`, `at`, `cur`, `todo`, `checking`, `ready`, `failed` | the place in the tick: phase, call, job of cleanup, the jobs still to visit, the jobs between Create and Get, the jobs phase 2 gets, whether the tick will return an error |
| `byID`, `snapJS`, `snapWL` | the tick's locals: jobs as listed, JobSets and Workloads as listed |
| `stale` | history of the tick: JobSets of which its snapshot got an outdated copy |

| Actions | Code |
|---|---|
| `ListJobs`, `SignalUnmanaged`, `ListingFails`, `TakeSnapshot` | `tick` up to the snapshot, `signalUnmanagedPartition`, `snapshot`, and the verdicts of phase 1 that need no call (`jobSetIdentityMatches`, the comment check "TC-D2") |
| `CreateJobSet`, `GetExisting` | the workers of phase 1 and `ensureJobSet`; the pool of workers is any interleaving |
| `StartAdmission`, `PropagateStatus`, `Pin`, `Release`, `EndAdmission` | phase 2 of `admitHeldJobs`, oldest job first, every `continue` in its place; an error of phase 1 ends the tick before cleanup |
| `InspectJob` with `CleanupStep` | the head of the loop in `cleanupFinishedJobs`: `byID` first, else `GetJob`, and which branch is taken |
| `StampRetention`, `ExplainFailure`, `FailJob` | the dead-JobSet branch: `stampRetention`, the comment and the `CancelJob` of `failJobForDeadJobSet` |
| `ReleaseNodes`, `MarkNodesReleased`, `DeleteJobSet` | the shared deletion path with its two retention gates |
| `DrainNodes`, `SyncPriority` | `drainPreemptedNodes`; `syncPriority` where `EnablePrioritySync` is set |
| `EndTick`, `Crash` | the end of a tick and the death of the process inside one; a successor starts from nothing, as the process persists nothing |

The partners are modelled from how the code uses them and are marked external in
`PROJECT.json`: the submission plugin and slurmctld (`Submit`, `StartJob`,
`RequeueJob`, `FinishJob`, `UserCancels`, `Purge`), Kueue and the JobSet controller
(`KueueQueues`, `KueueAdmits`, `KueueEvicts`, `CollectWorkload`, `RegisterNode`,
`JobSetDies`), operators (`OperatorDeletes`), the clock (`ExpireRetention`) and the
informer (`CacheSync`).

How a call ends: it succeeds, the server refuses it, it fails without effect, or
it takes effect and its reply is lost. The last two use up one of `MaxFaults`.
Refusals are free: they are the server's answer to the state it is in. Where the
code does not look at the answer (`ReleaseJob`, `DeleteNode`, the deletion of a
JobSet), a lost reply leads to a state that a success or a refusal leads to as
well and has no action of its own. A patch of a JobSet (`stampRetention`,
`markNodesReleased`) can lose its reply like a creation: the annotation is there, and the
tick goes on as the code does after an error.

What the model takes from comments and partners:

* slurmctld accepts a pin only while a node advertises the feature
  (`reconciler.go:582-588`); it starts a pinned job only when its node is up.
* "a purged job takes its dynamic node records with it" (`reconciler.go:1052-1058`):
  `Purge` clears `node`.
* a new submission of an ID carries the plugin's comment, "wm: held ...", which
  `fresh` stands for; whatever else the bridge writes is `bridge` or `unmanaged`.
* a job ID wraps only after a long time: `Settled` lets an ID be reused when the
  bridge is between two ticks and the cache has caught up. The disturbance
  `mid-tick-reuse` drops the first half for IDs the running tick did not list.

Abstractions, and why they keep what the properties see:

* names are the job ID, submit time is a counter: names are reused, submit times
  are not, which is all the identity check is about;
* the time of retention is one step, `ExpireRetention`, which expires the stamp in
  every copy that carries it, as all of them hold the same deadline;
* Workloads are read as they are on the API server and may lag only within a tick
  and, with `late-collection`, behind the deletion of their JobSet; `cmd/k8s-bridge/main.go:262`
  excludes unstructured objects from the cached client, so the comment at
  `kueue.go:57-61`, that both lists come from the cache, holds for JobSets only.
  The two lists of a snapshot are one step; a JobSet list older than the Workload
  list is what `LaggingCache` allows;
* one node record per job: the loop over `NodeNames` treats all alike, and one
  record that stays is the failure the properties ask about;
* a held job that is mapped translates: `ToJobSet` and the scope check read the same
  configuration snapshot;
* JobSets without a submit-time annotation, from before the check existed, are
  left out;
* the status comment is one of three values: its wording and the throttle on its
  rewriting do not decide anything;
* `syncPriority` writes the Slurm field whose 0 means HOLD. Which number it writes, and
  when, follows from three values that are in `PrioritySync`; here it may hold or free any
  living job it comes to, or leave it, whatever the job's own state: more than it does;
* `applyPriorityDirective` writes the admin comment and the Workload's priority, neither of
  which anything in this module reads; it is in `PrioritySync`. The annotation of the
  mirror is written with an Update that a moved resourceVersion refuses, so it undoes no
  stamp or mark and is left out here;
* the orphan pass is in `OrphanGuard`; it is off by default.

### `JobLifecycle`, which it implements

The abstract module has three variables: `sub[j]`, the submission that has the ID;
`stage[j]`, how far it has come; `claim[j]`, the submission whose JobSet exists. The
mapping at the end of `SlurmBridge` takes `sub` and `claim` from `job[j].inc` and
`js[j].inc`, and `Stage(j)` from the job's record and `granted`; the combinations that
are outside the promise map to a value that is not a stage, so that reaching one breaks
the refinement. `ImplementsLifecycle` says that every step of the bridge and of its
partners is a step of one job's life or a stutter: a job is released after capacity
claimed for this submission was granted, and never beside that of another; after that it
does not wait again; a job of an unmapped partition is neither granted capacity, nor
released, nor held. Two things it does not promise, because the code does otherwise:

* `Ends` lets anybody end any job. The bridge ends a job of an unmapped partition whose ID
  still has a dead JobSet of a predecessor ("Reused ID on dead capacity", section 4).
* `Mirrors`, a step of the life only where `EnablePrioritySync` is set, holds or frees a
  job at any stage. Until its next release by the bridge nothing else is promised about
  when it may start ("Priority mirror", section 4).

## 3a. `OrphanGuard`: how it corresponds to the code

The orphan pass decides over several ticks, so this module keeps many ticks of few
steps each and abstracts from `SlurmBridge` what the pass does not read.

| Variables | Stand for |
|---|---|
| `job[j]` | slurmctld's record: none, held, released or terminal, and the kind of its comment (`mark`): the plugin's "wm: held ...", a status of the bridge, the unmanaged-partition text, or something without the prefix "wm:" |
| `js` | the jobs that have a JobSet on the API server |
| `cfg` | the two fields of the configuration that matter: `on` (CancelOrphanedJobs) and `mapped` (the jobs whose partition has a mapping) |
| `seen` | `orphanSeen`; an absent entry is 0, which the code reads it as |
| `byID`, `owned`, `todo`, `pc` | the tick's locals: listed jobs, JobSets visible in the snapshot, candidates still to visit, place in the tick |
| `small` | history, read by a property only: how many small gaps of the cache hid a JobSet since a pass last saw it |

| Actions | Code |
|---|---|
| `ListJobs`, `Signal`, `Snapshot`, `TickFails` | `tick` up to its early returns; a snapshot shows what exists or, by a fault of the cache, any part of it |
| `Create`, `Propagate`, `Release` | what `admitHeldJobs` does to comments, holds and JobSets, including that a job with a comment other than the plugin's gets no new JobSet |
| `Judge` | pruning, the feature switch, the filters, the reset of visible jobs, guards 2 and 4 |
| `Wait`, `Cancel`, `EndPass` | the loop over candidates (a Go map, hence any order): guard 3, `CancelJob` with its error path and the lost reply |
| `Crash` | the process dies; `orphanSeen` is not persisted |
| `Submit`, `JobEnds`, `JobSetGoes`, `HotReload` | users, slurmctld, operators or cleanup, and a new configuration |

Whether a JobSet goes because cleanup or an operator deleted it makes no difference to
the pass. Node records are left out: the pass deletes those of a job it has cancelled,
once, whatever the answer. A hot reload is a step between ticks, because a tick loads
its configuration once (`reconciler.go:358`). An empty comment has no value of its own: admission and the pass treat a
held job with one as they treat a `fresh` job, and the first status replaces it.
Every job has an ID of its own: reuse of an ID is the subject of `SlurmBridge`.
Guard 2 turns out to be contained in guard 4: when nothing is
visible, all managed jobs are candidates, and guard 4 refuses the pass as well.

## 3b. `RunLoop`: how it corresponds to the code

| Variables | Stand for |
|---|---|
| `pc`, `timer`, `since` | where `Run` is: in a tick, in `OnTick`, in its `select` on timer and nudge, or in the damping wait; the time until that wait ends; the time since the last tick started |
| `poll`, `reloads` | `pollInterval` of the live configuration, and the hot reloads left |
| `failures`, `lastErr`, `age` | `consecutiveFailures`, `lastTickErr` and the age of `lastSuccessAt` |
| `nudge` | the buffered channel of one place |
| `unseen`, `paced` | history, read by properties only: the age of the oldest event that no tick has started after; whether the poll interval is the one of the last success |

| Actions | Code |
|---|---|
| `TickEnds`, `SetTimer` | the end of `tick` with `recordTickOutcome` and the counter; `nextBackoff` of what the configuration says after `OnTick` |
| `Fire`, `Wake`, `DampingOver` | the two arms of the `select` and the damped wait with `nudgeDamping` |
| `Nudge` | `Bridge.Nudge` from `NudgeReconciler` or `NudgeAll`: a send that does not block |
| `HotReload`, `Advance` | `setCfg`; one unit of time, which passes only when no timer is due |

Time units are what an instance makes of them; jitter is any delay within ten per cent.
`Multiple` is `1 << n` at `Width` bits, computed up to `2^8` because the cap is 6. A
reload to a shorter interval leaves a timer that is set, hence `paced`. The end of the
context is in `Fleet`, as `stop`.

## 3c. `Settings` and `Fleet`: how they correspond to the code

`Settings` is `internal/config/config.go`: `ApplyDefaults`, `Validate`, the allowlist
checks on images and paths (`filepath.Clean` on segments), the lookups by partition, and
the fields that `identityFor` compares. Durations are numbers of seconds; switches that
no check reads are left out.

| Variables of `Fleet` | Stand for |
|---|---|
| `mode` | supervisor of many objects, or the single-object mode of `--workloadmixing` |
| `cr`, `cache`, `news`, `queue` | WorkloadMixing objects on the API server (UID, generation, spec, Ready condition), the informer's copies, undelivered events, and the controller's work queue with its delayed requests |
| `rec` | the one reconcile in progress and the object it read (`MaxConcurrentReconciles` is 1) |
| `loop[k]` | `running[k]`: configuration, generation, what its client was built from, and the snapshot of a tick in flight |
| `dying[k]` | a loop that `stop` has cancelled and not yet seen return |
| `writer[k]`, `blocked` | the `ReadyConditionWriter`: rejected, last state written; the objects `/readyz` lists |

| Actions | Code |
|---|---|
| `Deleted`, `RefuseInvalid`, `Unchanged`, `HotReload`, `Restart`, `Arrive` | the branches of `Supervisor.Reconcile`, in its order |
| `Stopped`, `RefuseConflict`, `StartFails`, `Start`, `ReportRejection` | `stop` after the lock, `findConflict`, `start`, `refuse` with the write and its requeue |
| `Reload` | `ConfigReconciler.Reconcile` of the single-object mode |
| `TickBegins`, `TickEnds`, `LoopReturns` | `cfg()` at the start of a tick, `OnTick`, the return of `Run` |
| `SyncCache`, `Create`, `Edit`, `Delete`, `Handover` | the informer, people, the next leader |

Abstractions: a write of the condition is back in the copy before the writer's next one.
A refusal may transiently be stamped with a newer generation than it judged, which the
code allows as well. In single-object mode the code spells the reason of a rejection
`TickFailed`; the model calls it `InvalidSpec`, as the supervisor does. Images and paths
are vetted once at start in that mode. Conditions of other types are not modelled; the
merge patch writes the whole list from the copy it read and can undo theirs.

## 3d. `PrioritySync`: how it corresponds to the code

One job. `admin`, `prio` and `held` are fields of the job in Slurm, `wl` the priority of
its Workload, `synced` the annotation of its JobSet, `snap` the tick's copies, `moved`
whether the JobSet has another resourceVersion than the copy, `pc` the next call;
`applied` and `byKube` are history. `List` and `Snapshot` read in two steps what the
code lists in two calls; `ApplyDirective` and `Acknowledge` are `applyPriorityDirective`;
`Compare`, `Mirror`, `Forward` are `syncPriority`, `Remember` is `rememberSyncedPriority`.
`UserDirects` (the JobSubmit plugin rewrites the request), `UserSets` (where no plugin
does), `KubeSets` and `JobSetMoves` write beside it.

What the code does and the properties therefore do not forbid: a directive written
between `ListJobs` and the acknowledgement is overwritten unread; one whose
acknowledgement failed is applied again, "harmlessly" (`kueue.go:182`), over what an
administrator has set in between; a lost annotation makes the next tick mirror from Kueue
to Slurm, which clamps a negative value; a mirrored 0 holds the job. `Init` has the job
held, as `SlurmBridge` leaves one that waits for Kueue, or released, so that the first
contact is that of either. Every other write of the priority field, the release by the
bridge included, is one of `UserSets`.

## 3e. `JobShape`: how it corresponds to the code

`req` is what the user asked for, `nodeCount` the `node_count` that slurmrestd reports,
which is the request, follows from it, or is an estimate that moves (`Estimate`).
`NTasks` ... `GPUsPerNode` are the readers of `internal/slurm/client.go`, `podShape`,
`slurmdConf`, `podResources` and `Deadline` the functions of `internal/translate`,
`PodCount` what the orphan pass names node records by; `Cleanup` takes the number of pods
from the JobSet it has in hand (`jobSetParallelism`). `ToJobSet` makes the
JobSet, `Register` is a pod that registers its node, `Start` and `End` are the job's,
`Lose` is somebody deleting the JobSet, `Cleanup` and `CancelOrphan` are the two places
that delete node records, each record once and whatever is answered.

Two facts of the code that the properties leave room for: `--nodes=2 --ntasks=4` makes
four pods of one task, as node counts without tasks per node are estimates; and the
deadline is fixed when the JobSet is made and runs from the pods' start, so a limit raised
later is not carried over. The records of a job whose JobSet vanished and that ends by
itself are deleted by nobody; in the model an operator does it before the ID is used again.

## 3f. `SlurmCalls`: how it corresponds to the code

| Variables | Stand for |
|---|---|
| `slurm`, `jobset` | the jobs, those of unmapped partitions among them, and the JobSets of the others, good or dead |
| `key`, `bucket` | the key slurmrestd takes and the one in the token file (0: unreadable); tokens of the rate limiter |
| `pc`, `answer`, `todo`, `cur`, `byID`, `patience` | the call of the tick; the list that arrives and how it ends; what is still to come; the job in hand; what the tick knows; what is left of the list's timeout |
| `fooled` | history: jobs about which a foreign 404 or JSON without an envelope was believed |

`Sends` is `newRequest` and the limiter, `SendFails` an unreadable token file, `Accepted`
the verdict of `doHTTP`, `Gone` that of `GetJob`. `ListJobs`, `Element`, `EndOfList` and
`TimesOut` are `listJobsStreaming` with the callback of `tick`, from inside which `Signal`
writes a comment; `Inspect`, `GetJob`, `CancelJob`, `EndOfCleanup` are cleanup's loop as
far as it acts on answers; `Refill`, `Rotate`, `SyncToken` are time and the Secret.

A wrong answer is one of: lost, a server error, an envelope with errors or, for a write,
warnings, something that is not JSON, JSON without an envelope, and a 404 that is not slurmrestd's.
Instead of the list an envelope of an empty queue may come as well, with or without errors.
`Foreign` holds the two that `GetJob` cannot tell from slurmrestd's own word. Of the time a list may take, the
waits for the limiter count; what was sent arrives. IDs are not reused here.

## 3g. `RayBridge`: how it corresponds to the code

| Variables | Stand for |
|---|---|
| `job[n]`, `uids[n]` | the RayJob of a name: UID, what the scope gates make of it, terminal, pinned by the webhook, whose workers it runs on, the retry annotation; UIDs given out |
| `js[n]`, `cache[n]`, `news` | the worker JobSet of that name with the UID in its label, the informer's copy, undelivered events |
| `queue`, `rec` | the work queue, and the reconcile in progress with the RayJob it read; `fresh` is its resourceVersion |
| `spent[n]` | history: failures, deletions and excuses since the annotation was last taken off |

`Begin` is `Reconcile` up to `IsTerminal`; `Drain` the deletion for a terminal job;
`Check`, `Count`, `Conflict`, `Cull` are `handleFailedWorkerJobSet`, count before deletion;
`Ensure` and `Verify` are `ensureJobSet`; `CallFails` and `Crash` its failures. `Submit`
passes the webhook (`Decide`), which may not answer, as its failurePolicy is Ignore.

Abstractions: the informer's copy jumps to the newest state when it moves; a JobSet that
completes is of no interest to the code; the pin is the job's name, so that workers of a
predecessor can be taken, which `runsOn` shows. The scope gates stand before the terminal
cleanup, so a job edited out of scope keeps its workers, as in the code. The deletion
names no UID; a failed JobSet that lingers in deletion burns retries, as `excused` counts.

## 4. Properties and runs

Each `MC` module names the sets its configurations use. Every run explores all states of
its instance. Deadlock is checked except in `Fleet`, `RayBridge` and `JobShape`: objects
that are settled, a RayJob that has ended and a job that waits for nothing may rest.

| Run | Instance | Checks |
|---|---|---|
| `Reuse` | one job ID submitted twice, two failures, every disturbance but the late collection of Workloads, retention, drain and the priority mirror on, lagging cache | `TypeOK`, `NoRunawayJob`, `AdmittedBeforeRelease`, `RunsOnOwnCapacity`, `MarkedNodesAreGone`, `NeverDeletesLiveCapacity`, `RetentionKept`, `ImplementsLifecycle` |
| `Isolation` | two jobs, the JobSet of the first is refused for ever, two failures, users cancel; fairness | `HeldJobsAreReleased` |
| `StaleCache` | one job, lagging cache, Workloads collected late, JobSets that die, users cancel, the priority mirror on, two failures; fairness | `NeverDeletesLiveCapacity`, `HeldJobsAreReleased`, `DeadCapacityFailsJob`, `FinishedJobsAreCleaned` |
| `Orphans` | three jobs, two of them served from the start, grace period 2, two faults (bad reads, failed calls, lost replies, failed ticks, crashes), one reload between a configuration with the feature on and one with it off and a partition unmapped; fairness | `TypeOK`, `SparesServedJobs`, `OrphansAreCancelled` |
| `CancelsUnserved` | the same without faults | `CancelsOnlyServedJobs`, violated |
| `RunLoop` | poll intervals 10 and 20, floor 10, ticks up to 12, reports up to 5, four failures in a row, one reload | `TimerInv`, `EventsAreSeenSoon`, `ReadyWhileSucceeding`, `TicksAreSpaced` |
| `BackoffVanishes` | one poll interval, 64-bit int, 64 failures in a row | `BackoffHolds`, violated |
| `Fleet` | objects a and b; specs for two partitions, for one of each (one with another rate limit), one that maps a partition twice, one with a path outside the allowlist; both modes; two edits, one fault; fairness | `LoopInv`, `OneManager`, `HealthyIsServed`, `RejectionStands`, `Settles` |
| `RayBridge` | one name used by two RayJobs, one retry, two failures, one fault, one edit; fairness | `BudgetInv`, `CullsOnlyItsOwnFailures`, `WaitingJobsStart`, `AbandonedWorkersGo` |
| `PrioritySync` | a job held or not, priorities up to 3, cap 2, two writes of others, two faults; fairness | `UsersStayBelowCap`, `AckedWasApplied`, `DirectivesAreAnswered`, `MirrorSettles` |
| `JobShape` | every request of up to 3 tasks and nodes, 2 tasks per node, 4 GPUs, limits of none, 1 and 60 minutes, pods up to 300 s early, one failed deletion | `JobSetInv`, `LockStep`, `CleanedJobsLeaveNoRecords` |
| `SlurmCalls` | one served job and two of unmapped partitions, 0.4 requests per second, a timeout of one refill, one wrong answer, two rotations of the key; fairness | `ListsAreWhole`, `JobSetsOutliveTheirJobs`, `DeadJobsAreCancelled`, `TicksComplete` |

Some invariants bundle parts that belong together, each named in its module: `RetentionKept`
= `RetentionHonoured` and `RetentionNeverExtended`; `TimerInv` = `TypeOK`,
`RetriesAreBounded`, `PaceAfterSuccess`; `LoopInv` = `TypeOK`, `RunsSound`,
`ClientIsCurrent`; `BudgetInv` = `TypeOK`, `BoundedRetries`, `BudgetAccounted`;
`JobSetInv` = `TypeOK`, `RoomForTheTasks`, `RoomForTheGPUs`, `LimitFitsDeadline`.

What the properties say, and what would break them:

*Tick*

* `NoRunawayJob`: a job of a mapped partition that the bridge released is pinned. The
  priority mirror frees jobs as well; what it did is no release of the bridge until the
  next one (`mirrored`), in this property and the next two. The release is a second call because slurmrestd may apply half of a merged update
  (`internal/slurm/client.go:764-772`); merged, or sent after a failed pin, it breaks.
* `AdmittedBeforeRelease`: capacity was admitted for this submission, not for an
  earlier one of the same ID. It depends on the Admitted gate, since a leftover node
  record lets the pin through.
* `RunsOnOwnCapacity`: a released job never has a JobSet of another submission. Only
  the submit-time comparison stands between a reused ID and its predecessor's JobSet,
  in the snapshot and, for a JobSet the cache does not show, after AlreadyExists.
* `MarkedNodesAreGone`: the mark that ends the retry of node deletion is written only
  when nothing is left to delete, and no pod registers behind it. Excepted is a mark that
  was patched by name on the outdated copy of another state of the JobSet (`blind`).
* `NeverDeletesLiveCapacity`: cleanup deletes no JobSet whose own job is alive at that
  moment, although the decision rests on a list taken many calls earlier; the case of a
  failed or unanswered cancellation is the delicate one.
* `RetentionKept`: no deletion inside the window; a window that has passed is not opened
  again by the retry of a failed cancellation. A stamp whose reply was lost does not bind
  the tick that sent it (`Unheard`), which goes on "cleaning up immediately instead"; a
  JobSet of which the tick got an outdated copy (`stale`) is excepted from both parts.
* `ImplementsLifecycle`: section 3, with what it does not promise. A job of an unmapped partition that gets into
  admission breaks it.
* `HeldJobsAreReleased`: a held job is released or ends, in spite of failures, restarts
  between any two calls, lost replies of Create, another job's permanent failure, and a
  mirror that holds it again.
* `DeadCapacityFailsJob`: a living job with a dead JobSet comes to an end.
* `FinishedJobsAreCleaned`: the JobSet of an ended job goes, after its window if any.

*Orphan pass*

* `SparesServedJobs`: a job whose JobSet exists is not cancelled, however often the
  cache hides half of the managed jobs or more, and by smaller gaps only if there were
  as many since the last sight of the JobSet as the grace period has ticks. All guards,
  the reset and the order of the pass (it refuses before it counts) are in it.
* `OrphansAreCancelled`: the guards do not refuse a real orphan for ever: while the
  feature is on and orphans are a minority, an orphan does not stay one.

*Run loop*

* `EventsAreSeenSoon`: whenever an event arrives, in a tick, a report, a wait or the
  damping, a tick that sees it starts within the floor or the rest of the tick in
  progress. A buffer that takes events only while the loop waits breaks it.
* `TicksAreSpaced`: no run of events, failures and reloads makes ticks follow each other
  faster than the floor or the shortest poll interval.
* `TimerInv`: backoff, reports and reloads never delay the next attempt beyond the cap,
  and one success ends the backoff.
* `ReadyWhileSucceeding`: readiness does not flap while ticks succeed, if ticks are short
  against the interval. With one failed tick it can: the doubled wait and a slow tick
  exceed three intervals.

*Fleet*

* `OneManager`: no two bridges claim one partition at a time, through starts, stops,
  restarts and moved claims; a bridge that is being stopped claims until its loop has
  returned. `stop` forgets a bridge before that; only that the one reconcile waits for it
  keeps the window shut. It is about claims, on one of which every tick begins. A tick
  that is in flight when a hot reload takes a partition out of its configuration "finishes
  on its old snapshot" (`supervisor.go:310-313`), and another object may take the
  partition over meanwhile: until that tick ends two bridges do work on the partition, as
  no reload waits for a tick.
* `HealthyIsServed`, `RejectionStands`: an object that says its latest generation ticks
  has a bridge that runs that spec, once nobody is about to look at it; a rejection is
  not overwritten by a late report of a tick or of a loop being stopped. Conditions are
  written by name, so `RejectionStands` asks which object a rejection was meant for
  (`of`, a history field): one that lands on a later object of the name, deleted and
  created again unseen, is that object's own only when its reconcile says so again.
* `LoopInv`: what runs passed validation in the sense the other modules rely on, and
  through a client built from its own settings.
* `Settles`: left alone, every object becomes truthful for good.

*Ray bridge*

* `BudgetInv`: through crashes, lost replies and stale copies at most `MaxWorkerRetries`
  JobSets are deleted, and no retry is counted without a failure, a lost reply or a stale
  copy to show for it.
* `CullsOnlyItsOwnFailures`: the retry path deletes JobSets of the RayJob it read only,
  and a healthy one at most where a person removed the failed one in between.
* `WaitingJobsStart`, `AbandonedWorkersGo`: a job that waits for its pin gets workers,
  whatever became of predecessors of its name, until the budget is spent; workers of a
  job that ended or is gone do not stay.

*Priorities*

* `UsersStayBelowCap`: what is above the cap an administrator put there, whichever way
  the user's number took.
* `AckedWasApplied`, `DirectivesAreAnswered`: an acknowledgement names a value that has
  reached the Workload; a readable directive does not stay unanswered.
* `MirrorSettles`: with both sides left alone they agree for good, as far as cap, sign and
  hold let them.

*Shape*

* `LockStep`: what a pod requests from Kueue and what its slurmd advertises is the same,
  although two functions compute it under conditions of their own.
* `JobSetInv`: the pods together have a slot for each task and the GPUs the job asked for,
  whatever the estimate was (it does not compare how tasks are to be spread over nodes,
  and does not forbid too many GPUs), and a job that starts soon after its pods may use its whole time limit.
* `CleanedJobsLeaveNoRecords`: of a cleaned job only records stay whose deletion failed,
  although the count is made again from a node count that has moved.

*Calls*

* `ListsAreWhole`: a tick goes on only with the list slurmrestd gave, though it has acted
  on elements of lists that turn out cut. An envelope of an empty queue passes whoever
  sent it; then cleanup asks about each job (`GetJob`) before it deletes.
* `JobSetsOutliveTheirJobs`: no JobSet of a living job is deleted on a lost, refused,
  ignored or unreadable answer. What `GetJob` or `CancelJob` believes of somebody else, a
  404 or JSON without an envelope, is the exception (`fooled`).
* `DeadJobsAreCancelled`, `TicksComplete`: through rotated keys and a limiter slower than
  the list's timeout, dead jobs are cancelled and ticks come to cleanup again and again.

Each of them is violated when a decision of the code it leans on is replaced by a
plausible mistake: the operators named `Wrong...` beside the decision (and
`TooSuspicious` in `OrphanGuard`); `PROJECT.json` says which breaks which.

### Where code and comments disagree

Two runs check what a comment says and find a behaviour of the code that breaks it.

* `CancelsUnserved` (`CancelsOnlyServedJobs`): a held job of an unmapped partition gets
  the comment "wm: partition not managed by k8s-bridge". When a reload maps the
  partition, the check at `reconciler.go:518` takes the comment for a sign that the job
  has had a JobSet and makes none, and the orphan pass (`:1147`) takes it for an orphan
  and cancels it after the grace period. `:1101` speaks of "a released Slurm job whose
  JobSet has vanished"; nothing here has vanished. Without the orphan feature the job
  stays held for ever.
* `BackoffVanishes` (`BackoffHolds`): `reconciler.go:279-280` says consecutive failures
  back off "to avoid hammering a struggling slurmrestd". `1 << consecutiveFailures`
  (`:270`) is not positive any more from 63 failures on, passes the comparison with the
  cap, and the loop then fails without a pause.

Other differences were met while modelling and have no run of their own. Some are kept
out of an instance or are the exception a property names; each is a state the modules
can reach.

* *Starved cleanup*: `reconciler.go:469-470` says one failed create does "NOT abort the
  other jobs' creates or the rest of the tick". The error is returned by `admitHeldJobs`,
  and `tick` returns it before `cleanupFinishedJobs` (`:410`): one JobSet that can never
  be created stops all cleanup. `Isolation` therefore checks releases only.
* *Reused ID on dead capacity*: the dead-JobSet branch (`:987`) compares no submit time.
  A job of an unmapped partition with a reused ID is cancelled for the JobSet of its
  predecessor, while `:673-676` leaves inferences of this kind to the operator.
* *Vanished JobSet*: after AlreadyExists and NotFound the code relies on the next tick
  (`:700-704`), but phase 2 of this one replaces the plugin's comment, and the next tick
  takes the job for one whose JobSet was deleted on purpose (`:514-521`): it stays held.
* *Late Workloads*: Workloads are found by their owner's name (`kueue.go:109`), so one
  that outlives its JobSet admits the next JobSet of that name. With the disturbance
  `late-collection`, `AdmittedBeforeRelease` fails for a reused ID, which is why `Reuse`
  and the theorems that need `Collected` leave it out.
* *Nodes left behind*: `:1040-1042` keeps retrying a failed node deletion on purpose, but
  without retention the JobSet, the only thing the next tick would find it by, is deleted
  in the same pass (`:1071`). `MarkedNodesAreGone` speaks of the mark only.
* *Lag and retention*: stamp and mark are read from the cache and patched by name, without
  a precondition. A patch decided on an outdated copy can land on the next JobSet of that
  name, and a deletion can hit one whose window the tick has not seen. `RetentionKept`
  excepts JobSets in `stale`, `MarkedNodesAreGone` those that are `blind`; without these
  exceptions both fail under `LaggingCache`.
* *Priority mirror*: that the pin comes first, in a call of its own, so that no job starts
  unpinned (`internal/slurm/client.go:764-772`), and that admission comes before both, holds
  for `ReleaseJob` only. With `EnablePrioritySync`, `syncPriority` writes the same
  field at first contact, also to a job that is held and waits for Kueue: a priority other
  than 0 lifts its hold before it is admitted or pinned. A 0 holds a released or running
  job again, as `docs/adr/0009-priority-mutation-channel.md:14-18` reports and the comment
  at `reconciler.go:1024-1026` repeats. The option is off by default for that reason.
* *Lost stamp*: "stamping JobSet retention failed, cleaning up immediately instead" is also
  the outcome when the stamp was written and only the reply was lost; the JobSet is then
  deleted inside the window it carries. `RetentionHonoured` excepts it as `Unheard`.
* *Pin and release*: the comment at `:589-591` still describes them as one call.
* *"CONSECUTIVE"*: `:123-126` says the orphan counters are reset "the moment its JobSet is
  seen again", but a tick that fails before the pass, or runs with the feature off, sees
  JobSets and resets nothing. `SparesServedJobs` counts gaps since a *pass* saw it.
* *Recreated objects*: an object deleted and created again between two reconciles has
  generation 1 again and counts as a "status-only update or resync"
  (`supervisor.go:306`): the old spec goes on running. `HealthyIsServed` and `Settles`
  except it as `Mistaken`.
* *JSON without an envelope*: `{}` passes `doHTTP` (`internal/slurm/client.go:506-535`),
  although the list rejects it (`:666-669`). `GetJob` takes it for "no such job",
  `CancelJob` for done. A 404 from something between bridge and slurmrestd is "no such
  job" too (`:742-752`). `SlurmCalls` excepts these jobs as `fooled`.
* *GPUs*: `internal/slurm/client.go:270` divides the GPUs of a job by the estimated nodes;
  with an estimate of one node and four one-task pods each pod gets all of them.
  `RoomForTheGPUs` asks for enough, not for no more.
* *Moved partitions*: JobSets are selected by the label of their WorkloadMixing
  (`kueue.go:79-82`), so the bridge that takes over a partition does not see the JobSets
  of its running jobs. With `CancelOrphanedJobs` it may take them for orphans if they are
  a minority. This crosses `Fleet` and `OrphanGuard`, and no property covers it.

## 5. Fairness

Safety holds under `Spec` of each module, liveness is checked under `FairSpec`. `RunLoop`
and `JobShape` state safety only and assume no fairness; time in `RunLoop` cannot pass a
timer that is due.

* `SlurmBridge`: `WF_vars(BridgeStep)`: "the loop itself must never die" (`Run`,
  `reconciler.go:277-349`); every tick is followed by another after a bounded wait (which
  `RunLoop` checks), every call returns because the HTTP client has a timeout, and the
  loops of a tick are finite. Weak fairness of `KueueQueues`, `KueueAdmits`,
  `RegisterNode` per job: the cluster has room and admits a queued Workload in the end;
  without it no bridge can promise a release. Weak fairness of `ExpireRetention` (time
  passes) and of `CacheSync` (an informer delivers in the end).
* `OrphanGuard`: only `WF_vars(TickStep)`, the first of these.
* `Fleet`: weak fairness of a reconcile under way (`Continue`), of the return of a
  cancelled loop, and per object of its ticks and its informer. `Reconcile(k)` is strongly
  fair, since the controller's queue is first in, first out: a request is taken in the end
  although others occupy the one worker again and again.
* `RayBridge`: weak fairness of the controller (`Step`), and per name of the informer, the
  garbage collector, finalizers and workers that join; strong fairness of `Start(n)`, as
  Ray's scheduler starts a driver whose resource comes up time after time.
* `PrioritySync`: `WF_vars(Bridge)`, the next tick.
* `SlurmCalls`: `WF_vars(Bridge)`, and that the limiter refills and a rotated key reaches
  the file (`Refill`, `SyncToken`).

Nothing is assumed of users and operators: jobs may run for ever, be cancelled or stay,
objects may never be edited. Failures are finite in number, so that a call that is tried
again succeeds in the end; what fails for ever is an explicit part of an instance
(`Rejected`).

## 6. Bounds

* `JobIDs`, `MaxSubmits`: jobs meet in two places only, the order of phase 2 and the
  shared error that ends a tick; two jobs show both (`Isolation`). Everything else is
  about one job and its own records. An ID and its reuse suffice, since a third submission
  meets the leftovers of one predecessor, as the second does: a JobSet exists once per name.
* `MaxFaults` (all modules with calls): in `SlurmBridge` 2, a failure or crash of an
  attempt and one of its retry or of the cleanup after it; in `PrioritySync` 2, one
  for each of the two writes of a direction; in `OrphanGuard` see below; elsewhere 1, a
  fault at any one point of any history. Without a bound every promise could be starved.
* `Disturbances` names what the environment may do; each run allows what its question
  needs. Operators who delete JobSets are left out of the liveness runs: a held job
  whose JobSet they delete is not served again, by design of the comment check.
* `OrphanGuard`: with fewer than three `Jobs` guard 4 refuses every pass, since one
  orphan of two is half of them; with three, one orphan is a minority and two are not,
  which is what the guard distinguishes. `Grace = 2` tells the first observation from
  the last. Two faults are as many gaps as the grace period, the least number with which
  the code does cancel a served job, so that the bound in `SparesServedJobs` is met.
  `MaxReloads = 1` in either direction switches the feature off and on and maps a
  partition; `Served` are the jobs that have JobSets at the start.
* `RunLoop`: `Polls = {10, 20}`, `Damp = 10`, `MaxTick = 12`, `MaxReport = 5` put the floor
  below, at and above what is left of a wait, make jitter a whole unit and let a tick
  outlast the shorter interval. `MaxFailures = 4` passes the cap (2, 4, 6, 6); 64 at
  `Width = 64` passes the machine word, with `Damp = 1` and `MaxTick = MaxReport = 0` to
  keep that instance small. `MaxReloads = 1` changes the interval at any moment.
* `Fleet`: two `CRs` are what a conflict needs. `Claims` holds the specs: overlapping,
  disjoint, the same endpoint or not, refused everywhere or by a supervisor only.
  `Initially` fixes the spec objects start with, from which two `MaxEdits` reach a moved
  claim, a deletion with a creation, and a refusal with its repair.
* `RayBridge`: `MaxUid = 2`, a RayJob and its successor of one name (names share nothing);
  `MaxWorkerRetries = 1` and `MaxFailures = 2` exhaust the budget; `MaxEdits = 1` is one
  hand of a person at the annotation, the scope or the JobSet.
* Assumptions on constants are what validation or the readers guarantee: `RunLoop` takes
  the poll intervals to have a largest one and to be no shorter than the damping floor,
  which validation's least interval is; `JobShape` that there is a task (`MaxTasks`).
* `PrioritySync`: `MaxUserPriority = 2` below `Top = 3` gives values under, at and over the
  cap and a negative one; `MaxWrites = 2`, one of each side or two in a row.
* `JobShape`: `MaxTasks = 3`, `MaxPerNode = 2`, `MaxGPUs = 4` have every remainder of the
  divisions; `Limits` are no limit, one below and one above the point (50 minutes) where
  a tenth exceeds five minutes; `MaxDelay = 300` is that buffer itself, its worst case.
* `SlurmCalls`: `RateTenths = 4` makes the burst 1 by its minimum, where a list with two
  comments to write (`Strangers`) outlasts `Patience = 1`; `Served` is one job, as JobSets
  are judged one by one; `MaxKeys = 2` lets a key rotate again before the file has followed.

## 7. Proofs

All theorems hold for every value of the constants that satisfies the named assumption of
their module, hence for any number of jobs, failures, crashes and reloads.

`SlurmBridgeProofs` (from `ConstantsOK`):

* `TypeCorrect`: `Spec => []TypeOK`. The typing of records that steps write
  (`RecordTypes`, `JobTypes`, `JobSetUpdates`, `WorkloadUpdates`, `PatchTypes`) is
  stated once; then one step per action.
* `NoRunaway`: `Spec => []NoRunawayJob`, with the mirror on or off. The property is not inductive, since the state
  before a release must be known to be pinned. `RunawayInv` adds
  * `PinnedFirst`: when phase 2 stands before the release of a job, that job, if alive,
    is pinned, and
  * `ListedOnly`: phases 1 and 2 work on jobs this tick listed. It is needed because a
    new submission starts unpinned: an ID can be reused in the middle of a tick only if
    the tick did not list it, so never between its pin and its release.

  Most steps cannot release anybody: they are `Harmless`, they make no job alive, unpin
  none and change no hold, and `HarmlessStep` covers them together. What is left are
  `Pin`, `Release`, `SyncPriority`, `Submit` and the steps that end a tick.

  The next three need `Collected`, that a Workload does not outlive its JobSet; section 4
  says what happens without it.
* `AdmittedFirst`, `OnOwnCapacity`: `AdmittedBeforeRelease` and `RunsOnOwnCapacity` are
  invariants, for arbitrary lag of the cache. `LifeInv` is `RunawayInv` with
  * `SameSubmission`: what the tick listed under an ID is the submission that has it now,
  * `NoOldJobSet`: a JobSet of an earlier submission is one the cache shows as well, so
    that the comparison in phase 1 sees it,
  * `OwnCapacityInHand`: the jobs a tick works on have no JobSet of another submission,
    and those it saw admitted were granted capacity for this one,
  * `GatePassed`: only such a job gets to the pin and to the release,
  * `Backed`: a Workload belongs to a JobSet that exists.
* `Implements`: `Spec` implements `JobLifecycle` under the mapping of `SlurmBridge`. The
  lemmas named `...IsWorld` sort the actions into the few ways in which a step can change
  the life of a job (`WorldStep`) or leave it alone (`Quiet`); the lemmas named `...Maps`
  find the abstract action for each, by `Ordered`: submissions only grow, and capacity
  granted to this submission leaves no JobSet of an earlier one.
* `DeletesNoLiveCapacity`: `Spec => NeverDeletesLiveCapacity`, for arbitrary lag of the
  cache and late collection. `EndInv` says that whatever was seen is of no later submission
  (`SeenInv`): a job that was listed keeps its ID to the end of the tick and does not come
  back to life, so that from the verdict on the job in hand has ended (`EndedInv`), however
  many calls the deletion is away.
* `MarkedGone`, `KeepsRetention`: `MarkedNodesAreGone` and `RetentionKept`, for arbitrary lag
  of the cache and every disturbance, with the exceptions `blind` and `stale` that the
  properties name. `KeepInv` is `EndInv` with
  * `RecordInv`: only a dead JobSet is retained or marked, and pods start for a living one
    only, so no node registers behind a mark,
  * `SnapInv`: what a tick knows of a JobSet that is not in `stale` is what it says, but for
    its death and for a stamp of this tick whose reply was lost, and
  * `CallInv`: what holds at each call of cleanup about such a JobSet, above all that before
    the mark no node is left and before the deletion no window is open.

`OrphanGuardProofs` (from `OrphanConstantsOK`):

* `OrphanTypeCorrect`: `Spec => []TypeOK`, as above, one step per action.
* `SparesServed`: `Spec => SparesServedJobs`. The inductive invariant `GuardInv` is
  `TypeOK` with
  * `Counted`: the counter of a job with a JobSet never exceeds its number of small gaps,
  * `FreshCounters`: a job that shows no trace of the bridge has no counter, in slurmctld
    and in the listing; a JobSet that is created in the middle of a tick thus starts
    without debts and is not among the candidates, and
  * `CountedNext`: between the snapshot and the pass a hidden job has one gap more than
    it has been counted for, if guard 4 will let the pass go on, and the same holds for
    the candidates the pass still has to visit, which makes room for the next count.

  `GapIsSmall` connects the two views of a gap: the jobs that the read hides are among
  the candidates of the pass, so whenever these are few, so were those.

`RunLoopProofs` (from `RunLoopConstantsOK`): `EventsSeen`, `EventsAreSeenSoon` for every
interval, floor and length of ticks. `LoopEventInv` bounds the clock in each place of the
loop (`ClockInv`) and says where an unseen event is (`EventInv`): in the channel, or just
taken out of it. It needs nothing about the timer of a wait, since a wait with a full
channel ends at once. `TimerBounded` (`TimerInv`) and `ReadyHolds` (`ReadyWhileSucceeding`)
do need it: `WaitInv` bounds a wait together with the time since the last tick, and lets the
age of the last success run along with both (`FreshInv`). It uses `WaitBounds`, what
`nextBackoff` can give for any failure count and any width of an int. `TicksSpaced`
(`TicksAreSpaced`, by `SpacingInv`) assumes `MaxFailures < Width - 1`: beyond that the shift
is no longer positive, which is what `BackoffVanishes` finds.

`FleetProofs` (from `FleetConstantsOK`; any specs, edits, failures, both modes). All four
theorems come from one invariant, `FleetInv`, since the supervisor decides by what it knows:

* `ManagedInv`: the claims of running loops are disjoint, also from that of a loop that is
  still stopping (`ClaimInv`), because the only reconcile there is waits for it (`StopInv`);
  what runs was usable and has a client of its own settings (`SoundInv`). This gives
  `OneManagerHolds` (`OneManager`) and `FleetLoops` (`LoopInv`), with a reading of
  `Validate` in `Settings` that turns the checks into what the other modules rely on.
* `KnownInv`: UIDs are given out once, a copy, a loop and a reconcile know some generation
  of the object, a generation has one spec (`PastInv`), and the informer's copy is the
  object itself where no event is due (`CopyInv`).
* `DoneInv`: where no request is due, the reconcile in progress knows the latest object, or
  the bridge runs its generation, or the condition says that it is rejected. It gives
  `HealthyServed` (`HealthyIsServed`).
* `RefusedInv`: while a condition truthfully says InvalidSpec, the writer of every running
  loop is told so and suppresses its reports. It gives `RejectionsStand`
  (`RejectionStands`). The first form of that property did not ask for whom the rejection
  was meant, and is false: with four edits an object is deleted and created again unseen,
  the rejection of its predecessor lands on it by name, and a later report replaces it.


`PrioritySyncProofs` (from `PriorityConstantsOK`): `PriorityTypeCorrect`; `UsersCapped`,
the cap on both ways; `AcksAreTrue`, by `AckInv`: between the listing of a directive and
its acknowledgement no other acknowledgement can appear, and at the acknowledgement the
value written last is the one it will name.

`JobShapeProofs` (from `ShapeConstantsOK`): `InStep` (`LockStep`) and `NoGhosts`
(`CleanedJobsLeaveNoRecords`). `SamePods` is the heart: all readings of `node_count` that
slurmrestd gives for one request yield the same number of pods, so the JobSet, its
registered nodes and a later count agree (`ShapeInv`). `JobFits` (`JobSetInv`) is about
sizes: a JobSet was made of some reading of its job (`SizeInv`), and each reading yields
enough pods for the tasks (`EnoughTasks`, from `CeilDivCovers` on rounded divisions) and for
the GPUs (`MadeHolds`). It assumes `MaxDelay <= 300`: `Deadline` adds five minutes at least,
and a job that starts later than that after its pods may lose some of its time limit.

`SlurmCallsProofs` (from `CallConstantsOK`): `CallTypeCorrect`; `WholeLists`, by `ListInv`,
which says what `byID` holds at each element of the stream; `OnItsWord`, by `EndInv`: a job
once seen ended does not come back, so what the list says of it stays a reason to delete.

`RayBridgeProofs` (from `RayConstantsOK`): `Budget`, `BudgetInv` with both of its bounds.
`RayInv` adds that UIDs are given out once (`UidInv`), that what a reconcile has read is
true while its resourceVersion is current (`RecInv`), that every deletion was counted
before (`CullInv`), and that every count has its failure or excuse, a failure nobody has
counted yet weighing like a count (`DueInv`). `CullsItsOwn` (`CullsOnlyItsOwnFailures`) adds
`HitInv`: copies and UIDs only get newer, and a reconcile meets no JobSet newer than the
RayJob it read (`CopyOf`); until a person takes a hand, a JobSet whose copy has failed has
itself failed or belongs to a RayJob that is gone (`FateOf`), which is why a deletion by
name, decided from an old copy, hits the one that was counted.

The inductive invariants other than typing were also checked with TLC on the instances of
the runs.

Only model-checked:

* liveness, which needs fairness and `ENABLED` and is out of the prover's reach:
  `HeldJobsAreReleased`, `DeadCapacityFailsJob`, `FinishedJobsAreCleaned`,
  `OrphansAreCancelled`, `Settles`, `WaitingJobsStart`, `AbandonedWorkersGo`,
  `DirectivesAreAnswered`, `MirrorSettles`, `DeadJobsAreCancelled`, `TicksComplete`;
* the two claims that are false, `CancelsOnlyServedJobs` and `BackoffHolds`.

## 8. Not modelled

* Metrics, API types and generated code, charts, manifests, experiments, dashboards and
  scripts: write-only or data.
* Process wiring: flags, construction of managers and clients, leader election but for the
  hand-over in `Fleet`.
* Of the Slurm client: connection pooling, TLS, the decoding of JSON fields.
* Of translation: labels, the pod template, security context, topology annotations. Widths
  of integers do not matter at the sizes validation and sbatch let through.
* Of the status comment: its wording, quota texts and the one-minute throttle. The text of
  the probes and of conditions, events and logs.
* Reading YAML, in both programs; the JSON patch of the Ray webhook and the pod template of
  Ray workers.
* A partition that moves between objects while its jobs run (section 4, last item).

No property of the kinds above is about the first six; the last is left to a composition
of `Fleet` with `OrphanGuard`.
