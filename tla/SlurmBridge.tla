----------------------------- MODULE SlurmBridge -----------------------------
(***************************************************************************)
(* The poll loop of k8s-bridge (internal/bridge/reconciler.go): every tick *)
(* lists the Slurm jobs, takes one snapshot of the JobSets and Workloads   *)
(* it owns, creates the missing JobSets, pins and releases the jobs that   *)
(* Kueue admitted, and cleans up after the jobs that ended.  The tick is   *)
(* broken into its remote calls; Slurm, Kueue, the JobSet controller,      *)
(* users, operators and crashes take steps between any two of them.        *)
(*                                                                         *)
(* Comments of the code that the model relies on are quoted in README.md.  *)
(***************************************************************************)
EXTENDS Naturals

CONSTANTS
  JobIDs,            \* Slurm job IDs; their order is the admission order
  MaxSubmits,        \* bound: how often one job ID is submitted (ID reuse)
  MaxFaults,         \* bound: failed calls and bridge crashes in a behaviour
  Retention,         \* cfg.FailedJobSetRetention > 0
  DrainOnPreemption, \* cfg.DrainOnPreemption
  EnablePrioritySync, \* cfg.EnablePrioritySync
  LaggingCache,      \* TRUE: the informer cache may lag behind the API server
  Rejected,          \* job IDs whose JobSet the API server refuses to create
  Disturbances       \* the optional environment steps that may happen

ASSUME ConstantsOK ==
  /\ JobIDs \subseteq Nat \ {0}
  /\ MaxSubmits \in Nat
  /\ MaxFaults \in Nat
  /\ Retention \in BOOLEAN
  /\ DrainOnPreemption \in BOOLEAN
  /\ EnablePrioritySync \in BOOLEAN
  /\ LaggingCache \in BOOLEAN
  /\ Rejected \subseteq JobIDs
  /\ Disturbances \subseteq
       {"evict", "jobset-dies", "operator-deletes", "user-cancels", "unmanaged",
        "mid-tick-reuse", "late-collection"}

VARIABLES
  (* Slurm (slurmctld), as slurmrestd shows it *)
  job,      \* job[j]: the record of job j
  node,     \* node[j]: incarnation whose pods registered node record j, 0: none
  (* Kubernetes (API server) *)
  js,       \* js[j]: the JobSet slurm-job-<j>
  wl,       \* wl[j]: its Workload, and one of a deleted JobSet not yet collected
  granted,  \* history: last incarnation of j to which Kueue gave capacity
  (* the bridge process *)
  cache,    \* the informer cache's copy of js
  pc,       \* phase of the tick
  at,       \* call within a phase that works on one job at a time
  cur,      \* the job cleanup works on, 0: none
  todo,     \* jobs the phase still has to visit
  checking, \* jobs whose Create answered AlreadyExists
  ready,    \* jobs of phase 2: translated, and their JobSet is there
  failed,   \* the tick will end with an error
  byID,     \* this tick's ListJobs result
  snapJS,   \* this tick's snapshot of owned JobSets
  snapWL,   \* this tick's snapshot of Workloads
  stale,    \* history: JobSets of which that snapshot got an outdated copy
  (* bound *)
  faults    \* failures left

slurmVars == <<job, node>>
kubeVars  == <<js, wl, granted>>
tickVars  == <<pc, at, cur, todo, checking, ready, failed, byID, snapJS, snapWL,
               stale>>
vars      == <<slurmVars, kubeVars, cache, tickVars, faults>>

-----------------------------------------------------------------------------
(* Data *)

JobRecord == [inc     : Nat,       \* which submission of the ID: submit_time
              st      : {"none", "pending", "running", "terminal"},
              held    : BOOLEAN,
              pinned  : BOOLEAN,   \* constraints = nodes-for-<id>
              mapped  : BOOLEAN,   \* partition has a PartitionMappings entry
              comment : {"fresh", "bridge", "unmanaged"},
              mirrored : BOOLEAN]  \* history: held as the priority mirror left it

NoJob == [inc |-> 0, st |-> "none", held |-> FALSE, pinned |-> FALSE,
          mapped |-> FALSE, comment |-> "fresh", mirrored |-> FALSE]

JobSetRecord == [inc  : Nat,       \* slurm-submit-time annotation, 0: no JobSet
                 cond : {"live", "dead"},     \* dead: Failed or Completed
                 ret  : {"none", "retained", "expired"},  \* retain-until
                 rel  : BOOLEAN,              \* nodes-released
                 blind : BOOLEAN]   \* history: patched on an outdated copy

NoJobSet == [inc |-> 0, cond |-> "live", ret |-> "none", rel |-> FALSE, blind |-> FALSE]

WorkloadState  == {"none", "queued", "admitted", "evicted"}
WorkloadRecord == [cur  : WorkloadState,
                   boot : BOOLEAN,     \* its pods start, slurmd not registered
                   old  : WorkloadState]

NoWorkload == [cur |-> "none", boot |-> FALSE, old |-> "none"]

May(d) == d \in Disturbances

Exists(s) == s.inc # 0
Found(r)  == r.st # "none"
Alive(r)  == r.st \in {"pending", "running"}
HeldPending(r) == r.st = "pending" /\ r.held

\* The copy of JobSet j that the manager's cached client returns.
Cached(j) == IF LaggingCache THEN cache[j] ELSE js[j]

\* The Workload states a LIST may file under the name of JobSet j.
Listed(w) == LET found == {w.cur, w.old} \ {"none"}
             IN  IF found = {} THEN {"none"} ELSE found

-----------------------------------------------------------------------------
(* Decisions of the code, as predicates.  A definition whose name begins    *)
(* with Wrong is the same decision with a plausible mistake in it.          *)

\* Only held+pending jobs of mapped partitions are admitted.
WrongInScope(r) == HeldPending(r)
InScope(r) == HeldPending(r) /\ r.mapped

\* jobSetIdentityMatches: same submit time as the job the JobSet was made for.
WrongIdentityMatches(s, r) == Exists(s)
IdentityMatches(s, r) == s.inc = r.inc

\* A comment other than the plugin's says a JobSet was made before (TC-D2).
WrongSkipsRecreation(r) == TRUE
SkipsRecreation(r) == r.comment # "fresh"

WrongIsAdmitted(w) == w # "none"
IsAdmitted(w) == w = "admitted"

\* A released job whose Workload is evicted and not admitted.
NeedsDrain(r, w) == DrainOnPreemption /\ ~r.held /\ w = "evicted"

\* D1: the JobSet reports Failed or Completed.
WrongJobSetDead(s) == FALSE
JobSetDead(s) == s.cond = "dead"

WrongRetentionHolds(s) == FALSE
RetentionHolds(s) == s.ret = "retained"

\* stampRetention is a no-op when disabled or already stamped.
WrongNeedsStamp(s) == Retention
NeedsStamp(s) == Retention /\ s.ret = "none"

WrongStamped(s) == [s EXCEPT !.ret = "unparseable"]
Stamped(s) == [s EXCEPT !.ret = "retained"]

\* What the pin call does to the job; merged with the release into one update,
\* slurmrestd could apply the release alone (SetJobFeatures).
WrongPinned(r) == [r EXCEPT !.held = FALSE]
Pinned(r) == [r EXCEPT !.pinned = TRUE]

\* Where cleanup goes after the node records of a JobSet were dealt with.
WrongAfterNodes(s) == IF RetentionHolds(s) THEN "delete" ELSE "inspect"
AfterNodes(s) == IF RetentionHolds(s) THEN "inspect" ELSE "delete"

WrongNodesOrDelete(s) == IF s.rel THEN "inspect" ELSE "nodes"
NodesOrDelete(s) == IF s.rel THEN AfterNodes(s) ELSE "nodes"

\* When the deletion of node records is not tried again: the job r is purged,
\* or every record went.
WrongStopsRetrying(clean, r) == TRUE
StopsRetrying(clean, r) == clean \/ ~Found(r)

\* The mirror of priorities comes last for a job that lives, and only with a
\* Workload to mirror.
MirrorStep(w) == IF EnablePrioritySync /\ w # "none" THEN "sync" ELSE "inspect"

\* SetJobPriority writes the field that means held when it is 0, as a Workload's
\* priority may be; which numbers meet is in PrioritySync.
Mirrored(r, hold) == [r EXCEPT !.held = hold, !.mirrored = r.mirrored \/ r.held # hold]

\* What cleanup does about a JobSet s whose job is r and Workload w.
WrongCleanupStep(r, s, w) == IF NeedsDrain(r, w) THEN "drain" ELSE NodesOrDelete(s)
CleanupStep(r, s, w) ==
  IF Alive(r)
  THEN IF JobSetDead(s)
       THEN IF NeedsStamp(s) THEN "stamp" ELSE "explain"
       ELSE IF NeedsDrain(r, w) THEN "drain" ELSE MirrorStep(w)
  ELSE NodesOrDelete(s)

-----------------------------------------------------------------------------
(* Outcomes of remote calls *)

Succeeds == UNCHANGED faults

Fails == faults > 0 /\ faults' = faults - 1

\* A call the server answers with an error: it is refused, or it fails.
RefusedOrFails(refused) == (refused /\ Succeeds) \/ Fails

-----------------------------------------------------------------------------
Init ==
  /\ job = [j \in JobIDs |-> NoJob]
  /\ node = [j \in JobIDs |-> 0]
  /\ js = [j \in JobIDs |-> NoJobSet]
  /\ wl = [j \in JobIDs |-> NoWorkload]
  /\ granted = [j \in JobIDs |-> 0]
  /\ cache = [j \in JobIDs |-> NoJobSet]
  /\ pc = "idle" /\ at = "none" /\ cur = 0
  /\ todo = {} /\ checking = {} /\ ready = {} /\ failed = FALSE
  /\ byID = [j \in JobIDs |-> NoJob]
  /\ snapJS = [j \in JobIDs |-> NoJobSet]
  /\ snapWL = [j \in JobIDs |-> "none"]
  /\ stale = {}
  /\ faults = MaxFaults

\* The tick is over, with or without an error; its locals are gone.
ResetTick ==
  /\ pc' = "idle" /\ at' = "none" /\ cur' = 0
  /\ todo' = {} /\ checking' = {} /\ ready' = {} /\ failed' = FALSE
  /\ byID' = [j \in JobIDs |-> NoJob]
  /\ snapJS' = [j \in JobIDs |-> NoJobSet]
  /\ snapWL' = [j \in JobIDs |-> "none"]
  /\ stale' = {}

-----------------------------------------------------------------------------
(* The tick: listing *)

ListJobs ==
  /\ pc = "idle"
  /\ pc' = "list"
  /\ byID' = job
  /\ todo' = {j \in JobIDs : /\ HeldPending(job[j])
                             /\ ~job[j].mapped
                             /\ job[j].comment # "unmanaged"}
  /\ UNCHANGED <<slurmVars, kubeVars, cache, at, cur, checking, ready, failed,
                 snapJS, snapWL, stale, faults>>

\* signalUnmanagedPartition; an error is logged and forgotten.
SignalUnmanaged(j) ==
  /\ pc = "list" /\ j \in todo
  /\ todo' = todo \ {j}
  /\ \/ /\ Alive(job[j]) /\ Succeeds
        /\ job' = [job EXCEPT ![j].comment = "unmanaged"]
     \/ /\ RefusedOrFails(~Alive(job[j]))
        /\ UNCHANGED job
  /\ UNCHANGED <<node, kubeVars, cache, pc, at, cur, checking, ready, failed,
                 byID, snapJS, snapWL, stale>>

\* ListJobs or one of the snapshot's LISTs fails: the tick ends.
ListingFails ==
  /\ pc = "list" /\ Fails
  /\ ResetTick
  /\ UNCHANGED <<slurmVars, kubeVars, cache>>

\* The snapshot, and the verdicts of phase 1 that need no call.
TakeSnapshot ==
  /\ pc = "list" /\ todo = {}
  /\ pc' = "create"
  /\ snapJS' = [j \in JobIDs |-> Cached(j)]
  /\ stale' = {j \in JobIDs : Cached(j) # js[j]}
  /\ snapWL' \in {v \in [JobIDs -> WorkloadState] :
                    \A j \in JobIDs : v[j] \in Listed(wl[j])}
  /\ LET scope == {j \in JobIDs : InScope(byID[j])}
         there == {j \in scope : Exists(Cached(j))}
         mine  == {j \in there : IdentityMatches(Cached(j), byID[j])}
     IN  /\ todo' = {j \in scope \ there : ~SkipsRecreation(byID[j])}
         /\ ready' = mine
         /\ failed' = (there # mine)
  /\ UNCHANGED <<slurmVars, kubeVars, cache, at, cur, checking, byID, faults>>

-----------------------------------------------------------------------------
(* The tick: phase 1 of admitHeldJobs.  The workers of the pool interleave. *)

CreateJobSet(j) ==
  /\ pc = "create" /\ j \in todo
  /\ todo' = todo \ {j}
  /\ \/ /\ j \notin Rejected /\ ~Exists(js[j])
        /\ js' = [js EXCEPT ![j] = [NoJobSet EXCEPT !.inc = byID[j].inc]]
        /\ \/ Succeeds /\ ready' = ready \cup {j} /\ UNCHANGED failed
           \/ Fails /\ failed' = TRUE /\ UNCHANGED ready     \* reply lost
        /\ UNCHANGED checking
     \/ /\ j \notin Rejected /\ Exists(js[j]) /\ Succeeds
        /\ checking' = checking \cup {j}                     \* AlreadyExists
        /\ UNCHANGED <<js, ready, failed>>
     \/ /\ RefusedOrFails(j \in Rejected)
        /\ failed' = TRUE
        /\ UNCHANGED <<js, checking, ready>>
  /\ UNCHANGED <<slurmVars, wl, granted, cache, pc, at, cur, byID, snapJS, snapWL, stale>>

\* The Get after AlreadyExists reads the cache; NotFound counts as success.
GetExisting(j) ==
  /\ pc = "create" /\ j \in checking
  /\ checking' = checking \ {j}
  /\ LET mine == ~Exists(Cached(j)) \/ IdentityMatches(Cached(j), byID[j])
     IN  \/ /\ mine /\ Succeeds
            /\ ready' = ready \cup {j}
            /\ UNCHANGED failed
         \/ /\ RefusedOrFails(~mine)
            /\ failed' = TRUE
            /\ UNCHANGED ready
  /\ UNCHANGED <<slurmVars, kubeVars, cache, pc, at, cur, todo, byID, snapJS, snapWL, stale>>

-----------------------------------------------------------------------------
(* The tick: phase 2 of admitHeldJobs, one job after the other, oldest first *)

\* Per-job isolation: a failed creation does not abort the other jobs.
WrongToAdmit == IF failed THEN {} ELSE ready
ToAdmit == ready

StartAdmission ==
  /\ pc = "create" /\ todo = {} /\ checking = {}
  /\ pc' = "admit" /\ at' = "status"
  /\ todo' = ToAdmit /\ ready' = {}
  /\ UNCHANGED <<slurmVars, kubeVars, cache, cur, checking, failed, byID,
                 snapJS, snapWL, stale, faults>>

IsNext(j) == j \in todo /\ \A k \in todo : j <= k

\* The continue of the loop over the jobs.
NextJob(j) == at' = "status" /\ todo' = todo \ {j}

\* propagateStatus, and the gate behind it.
PropagateStatus(j) ==
  /\ pc = "admit" /\ at = "status" /\ IsNext(j)
  /\ \/ /\ Alive(job[j]) /\ Succeeds
        /\ job' = [job EXCEPT ![j].comment = "bridge"]
     \/ /\ RefusedOrFails(~Alive(job[j]))
        /\ UNCHANGED job
  /\ IF IsAdmitted(snapWL[j]) THEN at' = "pin" /\ UNCHANGED todo ELSE NextJob(j)
  /\ UNCHANGED <<node, kubeVars, cache, pc, cur, checking, ready, failed, byID,
                 snapJS, snapWL, stale>>

\* SetJobFeatures: slurmctld refuses a feature that no node advertises.
Pin(j) ==
  /\ pc = "admit" /\ at = "pin" /\ IsNext(j)
  /\ LET accepted == job[j].st = "pending" /\ node[j] # 0
     IN  \/ /\ accepted
            /\ job' = [job EXCEPT ![j] = Pinned(job[j])]
            /\ \/ Succeeds /\ at' = "release" /\ UNCHANGED todo
               \/ Fails /\ NextJob(j)                        \* reply lost
         \/ /\ RefusedOrFails(~accepted)
            /\ NextJob(j)
            /\ UNCHANGED job
  /\ UNCHANGED <<node, kubeVars, cache, pc, cur, checking, ready, failed, byID,
                 snapJS, snapWL, stale>>

\* ReleaseJob.  Nothing depends on its answer, so a lost reply is a success.
Release(j) ==
  /\ pc = "admit" /\ at = "release" /\ IsNext(j)
  /\ NextJob(j)
  /\ \/ /\ job[j].st = "pending" /\ Succeeds
        /\ job' = [job EXCEPT ![j].held = FALSE, ![j].mirrored = FALSE]
     \/ /\ RefusedOrFails(job[j].st # "pending")
        /\ UNCHANGED job
  /\ UNCHANGED <<node, kubeVars, cache, pc, cur, checking, ready, failed, byID,
                 snapJS, snapWL, stale>>

\* An error of phase 1 is returned here, and the tick skips cleanup.
EndAdmission ==
  /\ pc = "admit" /\ todo = {}
  /\ IF failed
     THEN ResetTick
     ELSE /\ pc' = "cleanup" /\ at' = "inspect"
          /\ todo' = {j \in JobIDs : Exists(snapJS[j])}
          /\ UNCHANGED <<cur, checking, ready, failed, byID, snapJS, snapWL, stale>>
  /\ UNCHANGED <<slurmVars, kubeVars, cache, faults>>

-----------------------------------------------------------------------------
(* The tick: cleanupFinishedJobs, in the order of a Go map *)

\* GetJob runs only for a job the list did not show; its answer is kept in byID.
InspectJob(j) ==
  /\ pc = "cleanup" /\ at = "inspect" /\ j \in todo
  /\ todo' = todo \ {j}
  /\ \/ /\ Succeeds
        /\ cur' = j
        /\ LET r == IF Found(byID[j]) THEN byID[j] ELSE job[j]
           IN  /\ byID' = [byID EXCEPT ![j] = r]
               /\ at' = CleanupStep(r, snapJS[j], snapWL[j])
        /\ UNCHANGED failed
     \/ /\ ~Found(byID[j]) /\ Fails
        /\ failed' = TRUE
        /\ UNCHANGED <<cur, at, byID>>
  /\ UNCHANGED <<slurmVars, kubeVars, cache, pc, checking, ready, snapJS, snapWL, stale>>

\* What a Patch makes of JobSet cur: history keeps that it went by an outdated copy.
Patched(s) == [s EXCEPT !.blind = s.blind \/ cur \in stale]

\* A Patch of JobSet cur; the response replaces the snapshot's copy.
PatchJobSet(patched) ==
  \/ /\ Exists(js[cur])
     /\ js' = [js EXCEPT ![cur] = Patched(patched)]
     /\ \/ Succeeds /\ snapJS' = [snapJS EXCEPT ![cur] = Patched(patched)]
        \/ Fails /\ UNCHANGED snapJS                        \* reply lost
  \/ /\ RefusedOrFails(~Exists(js[cur]))
     /\ UNCHANGED <<js, snapJS>>

StampRetention ==
  /\ pc = "cleanup" /\ at = "stamp"
  /\ PatchJobSet(Stamped(js[cur]))
  /\ at' = "explain"
  /\ UNCHANGED <<slurmVars, wl, granted, cache, pc, cur, todo, checking, ready,
                 failed, byID, snapWL, stale>>

\* failJobForDeadJobSet: the comment, best effort ...
ExplainFailure ==
  /\ pc = "cleanup" /\ at = "explain"
  /\ \/ /\ Alive(job[cur]) /\ Succeeds
        /\ job' = [job EXCEPT ![cur].comment = "bridge"]
     \/ /\ RefusedOrFails(~Alive(job[cur]))
        /\ UNCHANGED job
  /\ at' = "fail"
  /\ UNCHANGED <<node, kubeVars, cache, pc, cur, todo, checking, ready, failed,
                 byID, snapJS, snapWL, stale>>

\* ... and CancelJob.  Unless it succeeds the JobSet is kept for a retry.
WrongAfterFailedCancel == "nodes"
AfterFailedCancel == "inspect"

FailJob ==
  /\ pc = "cleanup" /\ at = "fail"
  /\ \/ /\ Alive(job[cur])
        /\ job' = [job EXCEPT ![cur].st = "terminal"]
        /\ \/ Succeeds /\ at' = NodesOrDelete(snapJS[cur])
           \/ Fails /\ at' = AfterFailedCancel               \* reply lost
     \/ /\ ~Alive(job[cur]) /\ Succeeds      \* cancelling an ended job: either
        /\ at' \in {NodesOrDelete(snapJS[cur]), AfterFailedCancel}
        /\ UNCHANGED job
     \/ /\ Fails
        /\ at' = AfterFailedCancel
        /\ UNCHANGED job
  /\ UNCHANGED <<node, kubeVars, cache, pc, cur, todo, checking, ready, failed,
                 byID, snapJS, snapWL, stale>>

\* DeleteNode; a record that is not there is an error too (422).
ReleaseNodes ==
  /\ pc = "cleanup" /\ at = "nodes"
  /\ LET done(clean) ==
           at' = IF StopsRetrying(clean, byID[cur]) /\ RetentionHolds(snapJS[cur])
                 THEN "mark"
                 ELSE AfterNodes(snapJS[cur])
     IN  \/ /\ node[cur] # 0 /\ Succeeds /\ done(TRUE)
            /\ node' = [node EXCEPT ![cur] = 0]
         \/ /\ RefusedOrFails(node[cur] = 0) /\ done(FALSE)
            /\ UNCHANGED node
  /\ UNCHANGED <<job, kubeVars, cache, pc, cur, todo, checking, ready, failed,
                 byID, snapJS, snapWL, stale>>

MarkNodesReleased ==
  /\ pc = "cleanup" /\ at = "mark"
  /\ PatchJobSet([js[cur] EXCEPT !.rel = TRUE])
  /\ at' = AfterNodes(snapJS'[cur])
  /\ UNCHANGED <<slurmVars, wl, granted, cache, pc, cur, todo, checking, ready,
                 failed, byID, snapWL, stale>>

\* A JobSet leaves the API server; its Workload may linger until it is collected.
JobSetGone(j) ==
  /\ js' = [js EXCEPT ![j] = NoJobSet]
  /\ wl' = [wl EXCEPT ![j] =
              IF May("late-collection") /\ wl[j].cur # "none"
              THEN [NoWorkload EXCEPT !.old = wl[j].cur]
              ELSE [NoWorkload EXCEPT !.old = wl[j].old]]

\* Delete by name; NotFound is a success, an error is retried next tick.
DeleteJobSet ==
  /\ pc = "cleanup" /\ at = "delete"
  /\ at' = "inspect"
  /\ \/ Exists(js[cur]) /\ Succeeds /\ JobSetGone(cur)
     \/ RefusedOrFails(~Exists(js[cur])) /\ UNCHANGED <<js, wl>>
  /\ UNCHANGED <<slurmVars, granted, cache, pc, cur, todo, checking, ready,
                 failed, byID, snapJS, snapWL, stale>>

\* drainPreemptedNodes: slurmctld requeues a job that ran on the node, as a job
\* that is not pinned to it may have.
DrainNodes ==
  /\ pc = "cleanup" /\ at = "drain"
  /\ at' = MirrorStep(snapWL[cur])
  /\ \/ /\ node[cur] # 0 /\ Succeeds
        /\ node' = [node EXCEPT ![cur] = 0]
        /\ \/ /\ job[cur].st = "running"
              /\ job' = [job EXCEPT ![cur].st = "pending"]
           \/ /\ job[cur].st # "running" \/ ~job[cur].pinned
              /\ UNCHANGED job
     \/ /\ RefusedOrFails(node[cur] = 0)
        /\ UNCHANGED slurmVars
  /\ UNCHANGED <<kubeVars, cache, pc, cur, todo, checking, ready, failed, byID,
                 snapJS, snapWL, stale>>

\* syncPriority.  It may find nothing to write, forward to Kueue instead, be
\* refused or fail; nothing else depends on it.
SyncPriority ==
  /\ pc = "cleanup" /\ at = "sync"
  /\ at' = "inspect"
  /\ \/ /\ Alive(job[cur])
        /\ \E hold \in BOOLEAN : job' = [job EXCEPT ![cur] = Mirrored(job[cur], hold)]
     \/ UNCHANGED job
  /\ UNCHANGED <<node, kubeVars, cache, pc, cur, todo, checking, ready, failed,
                 byID, snapJS, snapWL, stale, faults>>

EndTick ==
  /\ pc = "cleanup" /\ at = "inspect" /\ todo = {}
  /\ ResetTick
  /\ UNCHANGED <<slurmVars, kubeVars, cache, faults>>

\* The bridge dies inside a tick; its successor lists everything anew.
Crash ==
  /\ pc # "idle" /\ Fails
  /\ ResetTick
  /\ cache' = IF LaggingCache THEN js ELSE cache
  /\ UNCHANGED <<slurmVars, kubeVars>>

-----------------------------------------------------------------------------
(* Slurm: users, the JobSubmit plugin and slurmctld *)

\* An ID is reused long after the bridge settled whatever it was doing with it.
Settled(j) ==
  /\ pc = "idle" \/ (May("mid-tick-reuse") /\ ~Found(byID[j]))
  /\ Cached(j) = js[j]
  /\ wl[j].old = "none"

Submit(j) ==
  /\ ~Found(job[j]) /\ job[j].inc < MaxSubmits /\ Settled(j)
  /\ \E held, mapped \in BOOLEAN :
       /\ (held /\ mapped) \/ (~mapped /\ May("unmanaged"))
       /\ job' = [job EXCEPT ![j] =
                    [inc |-> job[j].inc + 1, st |-> "pending", held |-> held,
                     pinned |-> FALSE, mapped |-> mapped, comment |-> "fresh",
                     mirrored |-> FALSE]]
  /\ UNCHANGED <<node, kubeVars, cache, tickVars, faults>>

\* The pods of JobSet j run slurmd and registered the nodes it is pinned to.
NodeUp(j) ==
  /\ node[j] # 0 /\ node[j] = js[j].inc
  /\ js[j].cond = "live" /\ wl[j].cur = "admitted"

SetState(j, st) == job' = [job EXCEPT ![j].st = st]

StartJob(j) ==
  /\ job[j].st = "pending" /\ ~job[j].held
  /\ job[j].pinned => NodeUp(j)
  /\ SetState(j, "running")
  /\ UNCHANGED <<node, kubeVars, cache, tickVars, faults>>

\* The nodes of a running job went down.
RequeueJob(j) ==
  /\ job[j].st = "running" /\ job[j].pinned /\ ~NodeUp(j)
  /\ SetState(j, "pending")
  /\ UNCHANGED <<node, kubeVars, cache, tickVars, faults>>

FinishJob(j) ==
  /\ job[j].st = "running"
  /\ SetState(j, "terminal")
  /\ UNCHANGED <<node, kubeVars, cache, tickVars, faults>>

UserCancels(j) ==
  /\ May("user-cancels") /\ Alive(job[j])
  /\ SetState(j, "terminal")
  /\ UNCHANGED <<node, kubeVars, cache, tickVars, faults>>

\* As cleanup assumes, a purged job takes its dynamic node records with it.
Purge(j) ==
  /\ job[j].st = "terminal"
  /\ job' = [job EXCEPT ![j] = [NoJob EXCEPT !.inc = job[j].inc]]
  /\ node' = [node EXCEPT ![j] = 0]
  /\ UNCHANGED <<kubeVars, cache, tickVars, faults>>

-----------------------------------------------------------------------------
(* Kubernetes: Kueue, the JobSet controller, operators, the informer, time *)

KueueQueues(j) ==
  /\ Exists(js[j]) /\ wl[j].cur = "none"
  /\ wl' = [wl EXCEPT ![j].cur = "queued"]
  /\ UNCHANGED <<slurmVars, js, granted, cache, tickVars, faults>>

KueueAdmits(j) ==
  /\ js[j].cond = "live" /\ wl[j].cur \in {"queued", "evicted"}
  /\ wl' = [wl EXCEPT ![j].cur = "admitted", ![j].boot = TRUE]
  /\ granted' = [granted EXCEPT ![j] = js[j].inc]
  /\ UNCHANGED <<slurmVars, js, cache, tickVars, faults>>

KueueEvicts(j) ==
  /\ May("evict") /\ js[j].cond = "live" /\ wl[j].cur = "admitted"
  /\ wl' = [wl EXCEPT ![j].cur = "evicted", ![j].boot = FALSE]
  /\ UNCHANGED <<slurmVars, js, granted, cache, tickVars, faults>>

CollectWorkload(j) ==
  /\ wl[j].old # "none"
  /\ wl' = [wl EXCEPT ![j].old = "none"]
  /\ UNCHANGED <<slurmVars, js, granted, cache, tickVars, faults>>

\* slurmd registers its node record when its pod starts.
RegisterNode(j) ==
  /\ wl[j].boot
  /\ wl' = [wl EXCEPT ![j].boot = FALSE]
  /\ node' = [node EXCEPT ![j] = js[j].inc]
  /\ UNCHANGED <<job, js, granted, cache, tickVars, faults>>

JobSetDies(j) ==
  /\ May("jobset-dies") /\ js[j].cond = "live" /\ wl[j].cur = "admitted"
  /\ js' = [js EXCEPT ![j].cond = "dead"]
  /\ wl' = [wl EXCEPT ![j].boot = FALSE]
  /\ UNCHANGED <<slurmVars, granted, cache, tickVars, faults>>

OperatorDeletes(j) ==
  /\ May("operator-deletes") /\ Exists(js[j])
  /\ JobSetGone(j)
  /\ UNCHANGED <<slurmVars, granted, cache, tickVars, faults>>

\* retain-until passes, in every copy of the JobSet that carries the stamp.
ExpireRetention(j) ==
  LET expire(f) == IF f[j].ret = "retained" THEN [f EXCEPT ![j].ret = "expired"] ELSE f
  IN  /\ js[j].ret = "retained"
      /\ js' = expire(js) /\ cache' = expire(cache) /\ snapJS' = expire(snapJS)
      /\ UNCHANGED <<slurmVars, wl, granted, pc, at, cur, todo, checking, ready,
                     failed, byID, snapWL, stale, faults>>

CacheSync(j) ==
  /\ LaggingCache /\ cache[j] # js[j]
  /\ cache' = [cache EXCEPT ![j] = js[j]]
  /\ UNCHANGED <<slurmVars, kubeVars, tickVars, faults>>

-----------------------------------------------------------------------------
(* The specification *)

BridgeStep ==
  \/ ListJobs \/ ListingFails \/ TakeSnapshot
  \/ StartAdmission \/ EndAdmission
  \/ StampRetention \/ ExplainFailure \/ FailJob
  \/ ReleaseNodes \/ MarkNodesReleased \/ DeleteJobSet \/ DrainNodes \/ SyncPriority
  \/ EndTick
  \/ \E j \in JobIDs :
       \/ SignalUnmanaged(j) \/ CreateJobSet(j) \/ GetExisting(j)
       \/ PropagateStatus(j) \/ Pin(j) \/ Release(j) \/ InspectJob(j)

SlurmStep(j) ==
  \/ Submit(j) \/ StartJob(j) \/ RequeueJob(j) \/ FinishJob(j)
  \/ UserCancels(j) \/ Purge(j)

\* What the cluster does by itself sooner or later.
KubeProgress(j) ==
  \/ KueueQueues(j) \/ KueueAdmits(j) \/ CollectWorkload(j) \/ RegisterNode(j)
  \/ ExpireRetention(j) \/ CacheSync(j)

KubeDisturbance(j) == KueueEvicts(j) \/ JobSetDies(j) \/ OperatorDeletes(j)

Next ==
  \/ BridgeStep \/ Crash
  \/ \E j \in JobIDs : SlurmStep(j) \/ KubeProgress(j) \/ KubeDisturbance(j)

Spec == Init /\ [][Next]_vars

\* The bridge keeps polling, and the cluster keeps serving each job.
Fairness ==
  /\ WF_vars(BridgeStep)
  /\ \A j \in JobIDs : /\ WF_vars(KueueQueues(j))
                       /\ WF_vars(KueueAdmits(j))
                       /\ WF_vars(RegisterNode(j))
                       /\ WF_vars(ExpireRetention(j))
                       /\ WF_vars(CacheSync(j))

FairSpec == Spec /\ Fairness

-----------------------------------------------------------------------------
(* Properties *)

\* The type invariant of the bridge, of Slurm and of the cluster.
TypeOK ==
  /\ job \in [JobIDs -> JobRecord]
  /\ node \in [JobIDs -> Nat]
  /\ js \in [JobIDs -> JobSetRecord]
  /\ wl \in [JobIDs -> WorkloadRecord]
  /\ granted \in [JobIDs -> Nat]
  /\ cache \in [JobIDs -> JobSetRecord]
  /\ pc \in {"idle", "list", "create", "admit", "cleanup"}
  /\ at \in {"none", "status", "pin", "release", "inspect", "stamp", "explain",
             "fail", "nodes", "mark", "delete", "drain", "sync"}
  /\ cur \in JobIDs \cup {0}
  /\ todo \subseteq JobIDs
  /\ checking \subseteq JobIDs
  /\ ready \subseteq JobIDs
  /\ failed \in BOOLEAN
  /\ byID \in [JobIDs -> JobRecord]
  /\ snapJS \in [JobIDs -> JobSetRecord]
  /\ snapWL \in [JobIDs -> WorkloadState]
  /\ stale \subseteq JobIDs
  /\ faults \in Nat

\* A job of a mapped partition that slurmctld may start because the bridge
\* released it.  The opt-in priority mirror releases and holds jobs past all
\* gates, from its write to the next release of the bridge ("it re-held a running
\* job live", cleanupFinishedJobs); those are not the bridge's releases.
Released(j) ==
  job[j].mapped /\ Alive(job[j]) /\ ~job[j].held /\ ~job[j].mirrored

\* No runaway job: what the bridge released is pinned to its own nodes, whatever
\* calls failed or lost their reply (SetJobFeatures, ReleaseJob).
NoRunawayJob == \A j \in JobIDs : Released(j) => job[j].pinned

\* The ordering guarantee of admitHeldJobs: a job is released only when Kueue
\* admitted a JobSet made for this very submission of its ID.
AdmittedBeforeRelease == \A j \in JobIDs : Released(j) => granted[j] = job[j].inc

\* A3: a released job never sits on a JobSet made for an earlier submission.
RunsOnOwnCapacity ==
  \A j \in JobIDs : Released(j) /\ Exists(js[j]) => js[j].inc = job[j].inc

\* Cleanup deletes no JobSet whose job, of the same submission, still lives
\* (the continue after a failed CancelJob; the GetJob before a deletion).
NeverDeletesLiveCapacity ==
  [][DeleteJobSet =>
       \A j \in JobIDs :
          Exists(js[j]) /\ ~Exists(js'[j])
            => ~(Alive(job[j]) /\ job[j].inc = js[j].inc)]_vars

\* The tick that set the deadline of j did not hear so: "stamping JobSet retention
\* failed, cleaning up immediately instead".
Unheard(j) == Alive(byID[j]) /\ snapJS[j].ret = "none"

\* The deadline before which cleanup must not delete a JobSet (stampRetention).  A
\* tick whose snapshot took an outdated copy of the JobSet from the informer cache
\* deletes by name what it has not seen.
RetentionHonoured ==
  [][DeleteJobSet =>
       \A j \in JobIDs : js[j].ret = "retained" /\ ~Unheard(j) /\ j \notin stale
                          => Exists(js'[j])]_vars

\* "The window is never extended" (stampRetention), unless by a tick with an
\* outdated copy.
RetentionNeverExtended ==
  [][\A j \in JobIDs : js[j].ret = "expired" /\ j \notin stale
                          => js'[j].ret # "retained"]_vars

\* Retention keeps its word to both sides: what must stay and what may go.
RetentionKept == RetentionHonoured /\ RetentionNeverExtended

\* The retry of a failed DeleteNode stops only when it is needless: while Slurm
\* knows the job of a JobSet marked nodes-released, its node record is gone.  A mark
\* or stamp patched by name on an outdated copy can land on another JobSet.
MarkedNodesAreGone ==
  \A j \in JobIDs :
    js[j].rel /\ ~js[j].blind /\ Found(job[j]) /\ job[j].inc = js[j].inc
      => node[j] # js[j].inc

\* What admitHeldJobs is for: a held job whose JobSet can be created is released,
\* unless it ends, also while the creation of another job's JobSet fails for good.
HeldJobsAreReleased ==
  \A j \in JobIDs \ Rejected :
    (HeldPending(job[j]) /\ job[j].mapped) ~> ~HeldPending(job[j])

\* D1: a job whose JobSet died does not stay alive for ever: the JobSet is kept
\* until the cancellation succeeded.
DeadCapacityFailsJob ==
  \A j \in JobIDs :
    (Exists(js[j]) /\ js[j].cond = "dead" /\ Alive(job[j])) ~> ~Alive(job[j])

\* The JobSet of a job that ended is deleted, a retained one after its window.
FinishedJobsAreCleaned ==
  \A j \in JobIDs :
    (Exists(js[j]) /\ ~Alive(job[j])) ~> (~Exists(js[j]) \/ Alive(job[j]))

-----------------------------------------------------------------------------
(* The promise the bridge implements *)

\* How far job j has come, and for which submission its JobSet was made.
Stage(j) ==
  CASE ~Found(job[j])                              -> "absent"
    [] job[j].st = "terminal"                      -> "ended"
    [] Alive(job[j]) /\ job[j].mirrored            -> "mirrored"
    [] Alive(job[j]) /\ ~job[j].mirrored /\ ~job[j].mapped
                                                   -> IF job[j].held THEN "refused" ELSE "foreign"
    [] HeldPending(job[j]) /\ ~job[j].mirrored /\ job[j].mapped
                                                   -> IF granted[j] = job[j].inc THEN "granted" ELSE "waiting"
    [] Released(j)                                 -> IF job[j].st = "running" THEN "running" ELSE "released"
    [] OTHER                                       -> "impossible"

Subs   == [j \in JobIDs |-> job[j].inc]
Stages == [j \in JobIDs |-> Stage(j)]
Claims == [j \in JobIDs |-> js[j].inc]

Lifecycle == INSTANCE JobLifecycle
               WITH sub <- Subs, stage <- Stages, claim <- Claims, Mirror <- EnablePrioritySync

\* Every step of the bridge and of what surrounds it is a step of the life of one
\* job, or none: the bridge releases a job of a mapped partition only after capacity
\* claimed for this very submission was granted, it holds no job again, and it
\* neither releases nor holds jobs of other partitions, but for the priority mirror
\* where that is enabled.
ImplementsLifecycle == Lifecycle!LifeSpec

=============================================================================
