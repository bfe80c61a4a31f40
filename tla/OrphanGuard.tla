------------------------------ MODULE OrphanGuard ------------------------------
(***************************************************************************)
(* Orphan cancellation (internal/bridge/reconciler.go, cancelOrphanedJobs):*)
(* over several ticks, jobs whose JobSet is not visible are counted and in *)
(* the end cancelled, behind guards against reads that show too little.    *)
(* Admission and cleanup are the subject of SlurmBridge; here they are the *)
(* steps that make and remove JobSets, any of which may also not happen.   *)
(* Node records are left out: the pass deletes only those of a job it has  *)
(* just cancelled, once, and reads neither them nor the answer.            *)
(***************************************************************************)
EXTENDS Naturals, FiniteSets

CONSTANTS
  Jobs,        \* Slurm jobs, each with an ID of its own
  Grace,       \* cfg.OrphanGraceTicks
  Served,      \* jobs that are released with their JobSet when the bridge starts
  Configs,     \* the configurations a hot reload chooses from
  MaxFaults,   \* bound: bad reads, failed calls, failed ticks and crashes
  MaxReloads   \* bound: hot reloads of the configuration

ASSUME OrphanConstantsOK ==
  /\ IsFiniteSet(Jobs)
  /\ Served \subseteq Jobs
  /\ Grace \in Nat \ {0}
  /\ Configs \subseteq [on : BOOLEAN,           \* cfg.CancelOrphanedJobs
                     mapped : SUBSET Jobs]   \* jobs of mapped partitions
  /\ MaxFaults \in Nat
  /\ MaxReloads \in Nat

VARIABLES
  job,      \* slurmctld's record of each job
  js,       \* jobs with a JobSet
  cfg,      \* the configuration
  seen,     \* orphanSeen, the memory across ticks (0: no entry)
  pc,       \* place in the tick
  byID,     \* the tick's ListJobs result
  owned,    \* the tick's snapshot of JobSets
  todo,     \* orphan candidates the pass still has to visit
  faults,   \* faults left
  reloads,  \* reloads left
  small     \* history: small gaps of the cache since the pass last saw the JobSet

tickVars == <<pc, byID, owned, todo>>
vars     == <<job, js, cfg, seen, tickVars, faults, reloads, small>>

JobRecord == [st   : {"none", "held", "released", "terminal"},
              mark : {"fresh",      \* the plugin's comment, "wm: held ..."
                      "bridge",     \* a status of the bridge, "wm: ..."
                      "unmanaged",  \* "wm: partition not managed by k8s-bridge"
                      "user"}]      \* any other comment

NoJob    == [st |-> "none", mark |-> "fresh"]
Unlisted == [j \in Jobs |-> NoJob]

Alive(r) == r.st \in {"held", "released"}

-----------------------------------------------------------------------------
(* Decisions of the pass.  Wrong... is the same with a plausible mistake.   *)

\* The jobs the bridge has taken: of a mapped partition, with its comment, and
\* not waiting for their first JobSet.
Managed(listed, mapped) ==
  {j \in mapped : /\ Alive(listed[j])
                  /\ listed[j].mark # "user"
                  /\ ~(listed[j].st = "held" /\ listed[j].mark = "fresh")}

\* Guard 2 and guard 4: nothing is visible, or too many look orphaned at once.
WrongSuspicious(visible, candidates, managed) == visible = {}
TooSuspicious(visible, candidates, managed) ==
  4 * Cardinality(candidates) >= Cardinality(managed)
Suspicious(visible, candidates, managed) ==
  \/ visible = {}
  \/ 2 * Cardinality(candidates) >= Cardinality(managed)

\* Guard 3.
GraceOver(n) == n >= Grace

\* What is left of a deleted entry of orphanSeen.
WrongForgotten == 0 - 1
Forgotten == 0

\* The jobs whose JobSet a read hides, when they are too few for guard 4.
SmallGap(visible) ==
  LET managed == Managed(byID, cfg.mapped)
      hidden  == (js \ visible) \cap managed
  IN  IF 2 * Cardinality(hidden) < Cardinality(managed) THEN hidden ELSE {}

Fails == faults > 0 /\ faults' = faults - 1

-----------------------------------------------------------------------------
Init ==
  /\ job = [j \in Jobs |-> IF j \in Served
                          THEN [st |-> "released", mark |-> "bridge"]
                          ELSE NoJob]
  /\ js = Served
  /\ cfg \in Configs
  /\ seen = [j \in Jobs |-> 0]
  /\ pc = "idle" /\ byID = Unlisted /\ owned = {} /\ todo = {}
  /\ faults = MaxFaults /\ reloads = MaxReloads /\ small = [j \in Jobs |-> 0]

\* The tick's locals are gone.
EndOfTick == pc' = "idle" /\ byID' = Unlisted /\ owned' = {} /\ todo' = {}

-----------------------------------------------------------------------------
(* The tick before the pass *)

ListJobs ==
  /\ pc = "idle"
  /\ pc' = "listed" /\ byID' = job
  /\ UNCHANGED <<job, js, cfg, seen, owned, todo, faults, reloads, small>>

\* signalUnmanagedPartition; this comment, too, has the bridge's prefix.
Signal(j) ==
  /\ pc = "listed" /\ byID[j].st = "held" /\ j \notin cfg.mapped
  /\ job[j].st = "held" /\ job[j].mark # "unmanaged"
  /\ job' = [job EXCEPT ![j].mark = "unmanaged"]
  /\ UNCHANGED <<js, cfg, seen, tickVars, faults, reloads, small>>

\* The snapshot: what exists, or by a fault of the cache less.
Snapshot ==
  /\ pc = "listed" /\ pc' = "admit"
  /\ \/ owned' = js /\ UNCHANGED <<faults, small>>
     \/ /\ Fails
        /\ owned' \in SUBSET js \ {js}
        /\ small' = [j \in Jobs |->
                       IF j \in SmallGap(owned') THEN small[j] + 1 ELSE small[j]]
  /\ UNCHANGED <<job, js, cfg, seen, byID, todo, reloads>>

\* admitHeldJobs creates a JobSet for a job that shows no sign of having had one.
Create(j) ==
  /\ pc = "admit" /\ byID[j].st = "held" /\ j \in cfg.mapped \ owned
  /\ byID[j].mark = "fresh"
  /\ j \notin js
  /\ js' = js \cup {j}
  /\ UNCHANGED <<job, cfg, seen, tickVars, faults, reloads, small>>

\* propagateStatus replaces the comment of a held job that has a JobSet.
Propagate(j) ==
  /\ pc = "admit" /\ byID[j].st = "held" /\ j \in cfg.mapped
  /\ j \in owned \/ (j \in js /\ byID[j].mark = "fresh")
  /\ job[j].st = "held" /\ job[j].mark # "bridge"
  /\ job' = [job EXCEPT ![j].mark = "bridge"]
  /\ UNCHANGED <<js, cfg, seen, tickVars, faults, reloads, small>>

\* And releases it once Kueue admitted the JobSet and its node registered.
Release(j) ==
  /\ pc = "admit" /\ byID[j].st = "held" /\ j \in cfg.mapped \cap owned
  /\ job[j].st = "held" /\ j \in js
  /\ job' = [job EXCEPT ![j].st = "released"]
  /\ UNCHANGED <<js, cfg, seen, tickVars, faults, reloads, small>>

\* A tick that ends with an error before the pass leaves the counters alone.
TickFails ==
  /\ pc \in {"listed", "admit"} /\ Fails
  /\ EndOfTick
  /\ UNCHANGED <<job, js, cfg, seen, reloads, small>>

-----------------------------------------------------------------------------
(* The pass *)

\* Prune, filter, reset and judge.
Judge ==
  /\ pc = "admit"
  /\ LET managed    == Managed(byID, cfg.mapped)
         candidates == managed \ owned
         cleared    == IF cfg.on THEN managed \cap owned ELSE {}
         act        == /\ cfg.on /\ candidates # {}
                       /\ ~Suspicious(owned, candidates, managed)
     IN  /\ seen' = [j \in Jobs |->
                       IF byID[j].st = "none" \/ j \in cleared
                       THEN Forgotten ELSE seen[j]]
         /\ small' = [j \in Jobs |-> IF j \in cleared THEN 0 ELSE small[j]]
         /\ IF act
            THEN /\ pc' = "cancel" /\ todo' = candidates
                 /\ UNCHANGED <<byID, owned>>
            ELSE EndOfTick
  /\ UNCHANGED <<job, js, cfg, faults, reloads>>

\* One more tick without a JobSet, within the grace period.
Wait(j) ==
  /\ pc = "cancel" /\ j \in todo
  /\ ~GraceOver(seen[j] + 1)
  /\ seen' = [seen EXCEPT ![j] = @ + 1]
  /\ todo' = todo \ {j}
  /\ UNCHANGED <<job, js, cfg, pc, byID, owned, faults, reloads, small>>

\* The grace period is over: CancelJob; the counter stays unless it succeeds.
Cancel(j) ==
  /\ pc = "cancel" /\ j \in todo
  /\ GraceOver(seen[j] + 1)
  /\ todo' = todo \ {j}
  /\ \/ /\ Alive(job[j])
        /\ job' = [job EXCEPT ![j].st = "terminal"]
        /\ \/ seen' = [seen EXCEPT ![j] = Forgotten] /\ UNCHANGED faults
           \/ seen' = [seen EXCEPT ![j] = @ + 1] /\ Fails     \* reply lost
     \/ /\ ~Alive(job[j])                \* an ended job: either answer
        /\ \E n \in {Forgotten, seen[j] + 1} : seen' = [seen EXCEPT ![j] = n]
        /\ UNCHANGED <<job, faults>>
     \/ /\ seen' = [seen EXCEPT ![j] = @ + 1] /\ Fails
        /\ UNCHANGED job
  /\ UNCHANGED <<js, cfg, pc, byID, owned, reloads, small>>

EndPass ==
  /\ pc = "cancel" /\ todo = {}
  /\ EndOfTick
  /\ UNCHANGED <<job, js, cfg, seen, faults, reloads, small>>

\* A restart loses the counters.
Crash ==
  /\ Fails
  /\ EndOfTick
  /\ seen' = [j \in Jobs |-> 0]
  /\ UNCHANGED <<job, js, cfg, reloads, small>>

-----------------------------------------------------------------------------
(* Users, operators, the cleanup of SlurmBridge and hot reloads *)

\* A user may have put a comment of their own on the job.
Submit(j) ==
  /\ job[j].st = "none" /\ pc = "idle"
  /\ \E m \in {"fresh", "user"} :
       job' = [job EXCEPT ![j] = [st |-> "held", mark |-> m]]
  /\ UNCHANGED <<js, cfg, seen, tickVars, faults, reloads, small>>

JobEnds(j) ==
  /\ Alive(job[j])
  /\ job' = [job EXCEPT ![j].st = "terminal"]
  /\ UNCHANGED <<js, cfg, seen, tickVars, faults, reloads, small>>

\* An operator deletes a JobSet, or cleanup that of an ended job.
JobSetGoes(j) ==
  /\ j \in js
  /\ js' = js \ {j}
  /\ UNCHANGED <<job, cfg, seen, tickVars, faults, reloads, small>>

\* A tick loads the configuration once, so a reload inside it counts from the next.
HotReload ==
  /\ pc = "idle" /\ reloads > 0 /\ reloads' = reloads - 1
  /\ cfg' \in Configs \ {cfg}
  /\ UNCHANGED <<job, js, seen, tickVars, faults, small>>

-----------------------------------------------------------------------------
(* The specification *)

TickStep ==
  \/ ListJobs \/ Snapshot \/ TickFails \/ Judge \/ EndPass
  \/ \E j \in Jobs : Signal(j) \/ Create(j) \/ Propagate(j) \/ Release(j)
                     \/ Wait(j) \/ Cancel(j)

Environment ==
  \/ HotReload
  \/ \E j \in Jobs : Submit(j) \/ JobEnds(j) \/ JobSetGoes(j)

Next == TickStep \/ Crash \/ Environment

Spec == Init /\ [][Next]_vars

\* Ticks follow each other for ever.
FairSpec == Spec /\ WF_vars(TickStep)

-----------------------------------------------------------------------------
(* Properties *)

\* The type invariant of the pass and of what it works on.
TypeOK ==
  /\ job \in [Jobs -> JobRecord]
  /\ js \subseteq Jobs
  /\ cfg \in Configs
  /\ seen \in [Jobs -> Nat]
  /\ pc \in {"idle", "listed", "admit", "cancel"}
  /\ byID \in [Jobs -> JobRecord]
  /\ owned \subseteq Jobs /\ todo \subseteq Jobs
  /\ faults \in Nat /\ reloads \in Nat /\ small \in [Jobs -> Nat]

\* The guards together: a job whose JobSet is there is not cancelled, however long
\* the cache hides half of the managed jobs or more, and by smaller gaps only when
\* there were as many as the grace period has ticks since a pass last saw the JobSet.
SparesServedJobs ==
  [][\A j \in js : Cancel(j) /\ Alive(job[j]) /\ ~Alive(job'[j]) => small[j] >= Grace]_vars

Orphan(j) == j \in Managed(job, cfg.mapped) \ js

\* Few enough to be told from a bad read.
Minority ==
  LET managed == Managed(job, cfg.mapped)
  IN  js # {} /\ 2 * Cardinality(managed \ js) < Cardinality(managed)

\* What the feature is for: while it is on, a job that stays without its JobSet is
\* cancelled, unless the orphans are too many at once.
OrphansAreCancelled ==
  \A j \in Jobs : (cfg.on /\ Minority /\ Orphan(j)) ~> ~(cfg.on /\ Minority /\ Orphan(j))

-----------------------------------------------------------------------------
(* A claim of the comments that the code does not keep (README.md) *)

\* "cancels a released Slurm job whose JobSet has vanished": no job is cancelled
\* that the bridge only told that its partition is not managed.
CancelsOnlyServedJobs ==
  [][\A j \in Jobs :
        Cancel(j) /\ Alive(job[j]) /\ ~Alive(job'[j]) => job[j].mark # "unmanaged"]_vars

=============================================================================
