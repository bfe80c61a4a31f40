------------------------------ MODULE PrioritySync ------------------------------
(***************************************************************************)
(* How the priority of one job travels between Slurm and Kueue             *)
(* (internal/bridge/kueue.go): the directive that the JobSubmit plugin     *)
(* leaves in the admin comment, and the mirror of both priority fields     *)
(* with an annotation of the JobSet as its memory.  Cleanup runs both for  *)
(* every living job, on what the tick listed at its start, while users,    *)
(* the plugin and administrators write the same fields.                    *)
(***************************************************************************)
EXTENDS Integers

CONSTANTS
  MaxUserPriority,  \* cfg.MaxUserPriority, 0: no cap
  Top,              \* bound: the highest priority anybody asks for
  MaxWrites,        \* bound: directives and writes of users and administrators
  MaxFaults         \* bound: failed calls, lost replies, conflicts, crashes

ASSUME PriorityConstantsOK ==
  MaxUserPriority \in Nat /\ Top \in Nat /\ MaxWrites \in Nat /\ MaxFaults \in Nat

VARIABLES
  sync,      \* cfg.EnablePrioritySync
  admin,     \* the job's admin comment
  prio,      \* the job's priority field
  held,      \* IsHeld
  wl,        \* Workload.spec.priority
  synced,    \* the JobSet's synced-priority annotation
  pc,        \* the call the tick is about to make
  snap,      \* the tick's copies of all these
  moved,     \* the JobSet's resourceVersion is no longer the one in the copy
  applied,   \* history: the last directive that reached the Workload
  byKube,    \* history: what an administrator last gave the Workload
  writes, faults

vars == <<sync, admin, prio, held, wl, synced, pc, snap, moved, applied, byKube, writes, faults>>

Priorities == -1..Top

\* An admin comment: the plugin's wm:prio=, the bridge's wm:prio-applied=, another.
Directive(v) == [kind |-> "directive", v |-> v]
Garbled      == [kind |-> "garbled", v |-> 0]
Ack(v)       == [kind |-> "ack", v |-> v]
Silence      == [kind |-> "none", v |-> 0]
Comment      == {Silence, Garbled} \union {Directive(v) : v \in Priorities}
                \union {Ack(v) : v \in Priorities}

Unknown == [known |-> FALSE, v |-> 0]    \* no annotation yet
Known(v) == [known |-> TRUE, v |-> v]
Memory  == {Unknown} \union {Known(v) : v \in Priorities}

Copies == [admin : Comment, prio : 0..Top, held : BOOLEAN, wl : Priorities, synced : Memory]
NoCopies == [admin |-> Silence, prio |-> 0, held |-> FALSE, wl |-> 0, synced |-> Unknown]

-----------------------------------------------------------------------------
(* Decisions.  Wrong... is the same with a plausible mistake. *)

\* Floor at zero, cap at MaxUserPriority if there is one.
WrongcapUserPriority(v) == IF v < 0 THEN 0 ELSE v
capUserPriority(v) ==
  CASE v < 0 -> 0
    [] MaxUserPriority > 0 /\ v > MaxUserPriority -> MaxUserPriority
    [] OTHER -> v

\* The priority field of Slurm is unsigned.
safeUint32(v) == IF v < 0 THEN 0 ELSE v

\* The directive is applied, and acknowledged, also when the Workload has its value.
WrongIsDirective(s) == s.admin.kind = "directive" /\ capUserPriority(s.admin.v) # s.wl
IsDirective(s) == s.admin.kind = "directive"

\* Only a directive that reached the Workload is acknowledged.
WrongAfterFailedPatch == "ack"
AfterFailedPatch == "sync"

\* Which way the mirror goes: the Slurm side is the user's unless the job is held.
WrongDirection(s) == IF s.synced.known THEN "none" ELSE "mirror"
Direction(s) ==
  CASE ~s.synced.known -> "mirror"
    [] s.synced.known /\ s.prio # s.synced.v /\ ~s.held -> "forward"
    [] s.synced.known /\ (s.prio = s.synced.v \/ s.held) /\ s.wl # s.synced.v -> "mirror"
    [] OTHER -> "none"

-----------------------------------------------------------------------------
Init ==
  /\ sync \in BOOLEAN
  /\ admin = Silence /\ synced = Unknown
  /\ prio \in 0..Top /\ held = (prio = 0) /\ wl \in 0..Top   \* waiting for Kueue, or released
  /\ pc = "idle" /\ snap = NoCopies /\ moved = FALSE
  /\ applied = -2 /\ byKube = wl
  /\ writes = MaxWrites /\ faults = MaxFaults

Succeeds == UNCHANGED faults
Fails    == faults > 0 /\ faults' = faults - 1

Done == pc' = "idle" /\ snap' = NoCopies

\* ListJobs ...
List ==
  /\ pc = "idle" /\ pc' = "snapshot"
  /\ snap' = [NoCopies EXCEPT !.admin = admin, !.prio = prio, !.held = held]
  /\ UNCHANGED <<sync, admin, prio, held, wl, synced, moved, applied, byKube, writes, faults>>

\* ... and, after other calls, the JobSets and Workloads.
Snapshot ==
  /\ pc = "snapshot" /\ pc' = "directive"
  /\ snap' = [snap EXCEPT !.wl = wl, !.synced = synced] /\ moved' = FALSE
  /\ UNCHANGED <<sync, admin, prio, held, wl, synced, applied, byKube, writes, faults>>

\* applyPriorityDirective: the Patch, whose response replaces the copy.
ApplyDirective ==
  /\ pc = "directive" /\ IsDirective(snap)
  /\ LET v == capUserPriority(snap.admin.v)
     IN  \/ /\ wl' = v /\ applied' = v
            /\ \/ Succeeds /\ pc' = "ack" /\ snap' = [snap EXCEPT !.wl = v]
               \/ Fails /\ pc' = AfterFailedPatch /\ UNCHANGED snap    \* reply lost
         \/ Fails /\ pc' = AfterFailedPatch /\ UNCHANGED <<wl, applied, snap>>
  /\ UNCHANGED <<sync, admin, prio, held, synced, moved, byKube, writes>>

NoDirective ==
  /\ pc = "directive" /\ ~IsDirective(snap) /\ pc' = "sync"
  /\ UNCHANGED <<sync, admin, prio, held, wl, synced, snap, moved, applied, byKube, writes, faults>>

\* SetJobAdminComment; whatever it returns, the mirror is next.
Acknowledge ==
  /\ pc = "ack" /\ pc' = "sync"
  /\ \/ admin' = Ack(capUserPriority(snap.admin.v)) /\ Succeeds
     \/ Fails /\ UNCHANGED admin
  /\ UNCHANGED <<sync, prio, held, wl, synced, snap, moved, applied, byKube, writes>>

\* syncPriority: which of its cases, if it is enabled.
Compare ==
  /\ pc = "sync"
  /\ IF sync /\ Direction(snap) # "none" THEN pc' = Direction(snap) /\ UNCHANGED snap ELSE Done
  /\ UNCHANGED <<sync, admin, prio, held, wl, synced, moved, applied, byKube, writes, faults>>

\* SetJobPriority: Kueue to Slurm; zero holds the job.
Mirror ==
  /\ pc = "mirror"
  /\ \/ /\ prio' = safeUint32(snap.wl) /\ held' = (prio' = 0)
        /\ \/ Succeeds /\ pc' = "remember" /\ UNCHANGED snap
           \/ Fails /\ Done                                            \* reply lost
     \/ Fails /\ Done /\ UNCHANGED <<prio, held>>
  /\ UNCHANGED <<sync, admin, wl, synced, moved, applied, byKube, writes>>

\* Slurm to Kueue, capped.
Forward ==
  /\ pc = "forward"
  /\ LET v == capUserPriority(snap.prio)
     IN  \/ /\ wl' = v
            /\ \/ Succeeds /\ pc' = "remember" /\ snap' = [snap EXCEPT !.wl = v]
               \/ Fails /\ Done                                        \* reply lost
         \/ Fails /\ Done /\ UNCHANGED wl
  /\ UNCHANGED <<sync, admin, prio, held, synced, moved, applied, byKube, writes>>

\* rememberSyncedPriority: an Update, refused when the JobSet has moved on.
Remember ==
  /\ pc = "remember" /\ Done
  /\ \/ ~moved /\ synced' = Known(snap.wl) /\ Succeeds
     \/ moved /\ Succeeds /\ UNCHANGED synced
     \/ Fails /\ UNCHANGED synced
  /\ UNCHANGED <<sync, admin, prio, held, wl, moved, applied, byKube, writes>>

Crash ==
  /\ pc # "idle" /\ Fails /\ Done
  /\ UNCHANGED <<sync, admin, prio, held, wl, synced, moved, applied, byKube, writes>>

-----------------------------------------------------------------------------
(* Everybody else *)

Spend == writes > 0 /\ writes' = writes - 1

\* scontrol update priority=N, as the plugin rewrites it.
UserDirects ==
  /\ Spend
  /\ admin' \in {Garbled} \union {Directive(v) : v \in Priorities}
  /\ UNCHANGED <<sync, prio, held, wl, synced, pc, snap, moved, applied, byKube, faults>>

\* The same where no plugin intercepts it; zero is a hold.
UserSets ==
  /\ Spend
  /\ prio' \in (0..Top) \ {prio} /\ held' = (prio' = 0)
  /\ UNCHANGED <<sync, admin, wl, synced, pc, snap, moved, applied, byKube, faults>>

\* kubectl patch workload.
KubeSets ==
  /\ Spend
  /\ wl' \in Priorities \ {wl} /\ byKube' = wl'
  /\ UNCHANGED <<sync, admin, prio, held, synced, pc, snap, moved, applied, faults>>

\* The JobSet controller writes the JobSet's status.
JobSetMoves ==
  /\ pc # "idle" /\ ~moved /\ Spend /\ moved' = TRUE
  /\ UNCHANGED <<sync, admin, prio, held, wl, synced, pc, snap, applied, byKube, faults>>

Bridge ==
  \/ List \/ Snapshot \/ ApplyDirective \/ NoDirective \/ Acknowledge
  \/ Compare \/ Mirror \/ Forward \/ Remember

Next == Bridge \/ Crash \/ UserDirects \/ UserSets \/ KubeSets \/ JobSetMoves

Spec == Init /\ [][Next]_vars

\* The bridge keeps ticking.
FairSpec == Spec /\ WF_vars(Bridge)

-----------------------------------------------------------------------------
(* Properties *)

\* The type invariant of the priorities.
TypeOK ==
  /\ sync \in BOOLEAN /\ held \in BOOLEAN /\ moved \in BOOLEAN
  /\ admin \in Comment /\ prio \in 0..Top /\ wl \in Priorities /\ synced \in Memory
  /\ pc \in {"idle", "snapshot", "directive", "ack", "sync", "mirror", "forward", "remember"}
  /\ snap \in Copies
  /\ applied \in Priorities \union {-2} /\ byKube \in Priorities
  /\ writes \in 0..MaxWrites /\ faults \in 0..MaxFaults

\* H1, along every path: nothing a user asks for puts a job ahead of the cap; what is
\* above it an administrator put there.
UsersStayBelowCap == MaxUserPriority = 0 \/ wl <= MaxUserPriority \/ wl = byKube

\* An acknowledgement is no lie: the value it names has reached the Workload, and no
\* later directive has.
AckedWasApplied == admin.kind = "ack" => admin.v = applied

\* A directive that can be read is answered, unless the user writes another.
DirectivesAreAnswered ==
  \A v \in Priorities : admin = Directive(v) ~> admin # Directive(v)

\* With both sides left alone the mirror comes to rest with them in agreement: as far
\* as the cap, the sign and a hold let them, through lost calls and annotations.
Agreed ==
  /\ synced.known
  /\ held \/ wl = capUserPriority(prio) \/ prio = safeUint32(wl)

MirrorSettles == sync ~> []Agreed

=============================================================================
