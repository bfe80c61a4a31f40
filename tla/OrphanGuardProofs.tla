--------------------------- MODULE OrphanGuardProofs ---------------------------
(***************************************************************************)
(* Safety of OrphanGuard for every finite set of jobs, every grace period, *)
(* every set of configurations and every number of faults and reloads.     *)
(***************************************************************************)
EXTENDS OrphanGuard, FiniteSetTheorems, TLAPS

\* A job that no step of the bridge has marked or released.
Untouched(r) == r.st \in {"none", "held"} /\ r.mark = "fresh"

\* Among the managed jobs of this tick, those without a visible JobSet are few.
Few == LET managed == Managed(byID, cfg.mapped)
       IN  2 * Cardinality(managed \ owned) < Cardinality(managed)

Counted == \A j \in js : seen[j] <= small[j]

FreshCounters ==
  /\ \A j \in Jobs : Untouched(job[j]) => seen[j] = 0 /\ Untouched(byID[j])
  /\ \A j \in Jobs : job[j].st = "none" => Untouched(job[j])
  /\ pc # "idle" => \A j \in Jobs : Untouched(byID[j]) => seen[j] = 0

CountedNext ==
  /\ pc = "admit" /\ Few =>
       \A j \in (js \cap Managed(byID, cfg.mapped)) \ owned : seen[j] < small[j]
  /\ pc = "cancel" =>
       \A j \in todo : ~Untouched(byID[j]) /\ (j \in js => seen[j] < small[j])

GuardInv == TypeOK /\ Counted /\ FreshCounters /\ CountedNext

USE DEF Alive

-----------------------------------------------------------------------------
(* Types *)

\* The tick's locals are well typed after its end.
LEMMA EndTypes ==
  EndOfTick => /\ pc' = "idle" /\ byID' \in [Jobs -> JobRecord]
               /\ owned' = {} /\ todo' = {}
BY DEF EndOfTick, Unlisted, NoJob, JobRecord

\* The updates of a job's record keep its type.
LEMMA JobTypes ==
  ASSUME job \in [Jobs -> JobRecord], NEW j \in Jobs,
         NEW s \in {"none", "held", "released", "terminal"},
         NEW m \in {"fresh", "bridge", "unmanaged", "user"}
  PROVE  /\ [job EXCEPT ![j].st = s] \in [Jobs -> JobRecord]
         /\ [job EXCEPT ![j].mark = m] \in [Jobs -> JobRecord]
         /\ [job EXCEPT ![j] = [st |-> s, mark |-> m]] \in [Jobs -> JobRecord]
<1>1. job[j] \in JobRecord
  OBVIOUS
<1>2. /\ [job[j] EXCEPT !.st = s] \in JobRecord
      /\ [job[j] EXCEPT !.mark = m] \in JobRecord
      /\ [st |-> s, mark |-> m] \in JobRecord
  BY <1>1 DEF JobRecord
<1> QED
  BY <1>2

\* The counters stay numbers.
LEMMA SeenTypes ==
  ASSUME seen \in [Jobs -> Nat], NEW j \in Jobs
  PROVE  /\ [seen EXCEPT ![j] = @ + 1] \in [Jobs -> Nat]
         /\ [seen EXCEPT ![j] = seen[j] + 1] \in [Jobs -> Nat]
         /\ [seen EXCEPT ![j] = 0] \in [Jobs -> Nat]
OBVIOUS

\* The initial state is well typed.
LEMMA TypeInit == Init => TypeOK
BY OrphanConstantsOK DEF Init, TypeOK, Unlisted, NoJob, JobRecord

\* Every step keeps the types.
LEMMA TypeNext == TypeOK /\ [Next]_vars => TypeOK'
<1> SUFFICES ASSUME TypeOK, [Next]_vars PROVE TypeOK'
  OBVIOUS
<1> USE DEF TypeOK, tickVars, Fails
<1>1. CASE ListJobs
  BY <1>1 DEF ListJobs
<1>2. CASE Snapshot
  BY <1>2 DEF Snapshot
<1>3. CASE TickFails
  BY <1>3, EndTypes DEF TickFails
<1>4. CASE Judge
  <2>1. seen' \in [Jobs -> Nat]
    BY <1>4 DEF Judge, Forgotten
  <2>2. Managed(byID, cfg.mapped) \subseteq Jobs
    BY OrphanConstantsOK DEF Managed
  <2>3. /\ pc' \in {"idle", "cancel"} /\ byID' \in [Jobs -> JobRecord]
        /\ owned' \subseteq Jobs /\ todo' \subseteq Jobs
    BY <1>4, <2>2, EndTypes DEF Judge
  <2> QED
    BY <1>4, <2>1, <2>3 DEF Judge
<1>5. CASE EndPass
  BY <1>5, EndTypes DEF EndPass
<1>6. CASE Crash
  BY <1>6, EndTypes DEF Crash
<1>7. CASE HotReload
  BY <1>7 DEF HotReload
<1>8. ASSUME NEW j \in Jobs, Signal(j) PROVE TypeOK'
  BY <1>8, JobTypes DEF Signal
<1>9. ASSUME NEW j \in Jobs, Create(j) \/ Propagate(j) PROVE TypeOK'
  <2>1. [job EXCEPT ![j].mark = "bridge"] \in [Jobs -> JobRecord]
    BY JobTypes
  <2>2. CASE Create(j)
    BY <2>2 DEF Create
  <2>3. CASE Propagate(j)
    BY <2>3, <2>1 DEF Propagate
  <2> QED
    BY <1>9, <2>2, <2>3
<1>10. ASSUME NEW j \in Jobs, Release(j) PROVE TypeOK'
  BY <1>10, JobTypes DEF Release
<1>11. ASSUME NEW j \in Jobs, Wait(j) PROVE TypeOK'
  BY <1>11, SeenTypes DEF Wait
<1>12. ASSUME NEW j \in Jobs, Cancel(j) PROVE TypeOK'
  <2>0. [job EXCEPT ![j].st = "terminal"] \in [Jobs -> JobRecord]
    BY JobTypes
  <2>1. job' \in [Jobs -> JobRecord]
    BY <1>12, <2>0 DEF Cancel
  <2>2. seen' \in [Jobs -> Nat]
    BY <1>12, SeenTypes DEF Cancel, Forgotten
  <2>3. faults' \in Nat /\ todo' \subseteq Jobs
    BY <1>12 DEF Cancel
  <2> QED
    BY <1>12, <2>1, <2>2, <2>3 DEF Cancel
<1>13. ASSUME NEW j \in Jobs, Submit(j) PROVE TypeOK'
  <2>1. /\ [job EXCEPT ![j] = [st |-> "held", mark |-> "fresh"]] \in [Jobs -> JobRecord]
        /\ [job EXCEPT ![j] = [st |-> "held", mark |-> "user"]] \in [Jobs -> JobRecord]
    BY JobTypes
  <2> QED
    BY <1>13, <2>1 DEF Submit
<1>14. ASSUME NEW j \in Jobs, JobEnds(j) PROVE TypeOK'
  <2>1. [job EXCEPT ![j].st = "terminal"] \in [Jobs -> JobRecord]
    BY JobTypes
  <2> QED
    BY <1>14, <2>1 DEF JobEnds
<1>15. ASSUME NEW j \in Jobs, JobSetGoes(j) PROVE TypeOK'
  BY <1>15 DEF JobSetGoes
<1>16. CASE UNCHANGED vars
  BY <1>16 DEF vars
<1> QED
  BY <1>1, <1>2, <1>3, <1>4, <1>5, <1>6, <1>7, <1>8, <1>9, <1>10, <1>11, <1>12,
     <1>13, <1>14, <1>15, <1>16 DEF Next, TickStep, Environment

\* Type correctness of the pass.
THEOREM OrphanTypeCorrect == Spec => []TypeOK
BY TypeInit, TypeNext, PTL DEF Spec

-----------------------------------------------------------------------------
(* Served jobs are spared *)

\* A managed job bears a mark of the bridge or has been released.
LEMMA ManagedTouched ==
  ASSUME NEW f, NEW m, NEW j \in Managed(f, m)
  PROVE  j \in m /\ ~Untouched(f[j])
BY DEF Managed, Untouched

\* A read that leaves few jobs without a JobSet and hides one counts as a small gap.
LEMMA GapIsSmall ==
  ASSUME NEW visible \in SUBSET Jobs, TypeOK,
         2 * Cardinality(Managed(byID, cfg.mapped) \ visible)
           < Cardinality(Managed(byID, cfg.mapped)),
         NEW j \in (js \cap Managed(byID, cfg.mapped)) \ visible
  PROVE  j \in SmallGap(visible)
<1> DEFINE managed == Managed(byID, cfg.mapped)
           hidden  == (js \ visible) \cap managed
<1>1. IsFiniteSet(managed)
  <2>1. managed \subseteq Jobs
    BY OrphanConstantsOK DEF Managed, TypeOK
  <2> QED
    BY <2>1, OrphanConstantsOK, FS_Subset
<1>2. IsFiniteSet(managed \ visible)
  BY <1>1, FS_Subset
<1>3. hidden \subseteq managed \ visible
  OBVIOUS
<1>4. Cardinality(hidden) <= Cardinality(managed \ visible)
  BY <1>2, <1>3, FS_Subset
<1>5. IsFiniteSet(hidden)
  BY <1>2, <1>3, FS_Subset
<1>6. /\ Cardinality(hidden) \in Nat /\ Cardinality(managed \ visible) \in Nat
      /\ Cardinality(managed) \in Nat
  BY <1>1, <1>2, <1>5, FS_CardinalityType
<1>7. j \in hidden
  OBVIOUS
<1>8. 2 * Cardinality(hidden) < Cardinality(managed)
  BY <1>4, <1>6
<1> QED
  BY <1>7, <1>8 DEF SmallGap

\* The invariant holds in the initial states.
LEMMA GuardInit == Init => GuardInv
<1> SUFFICES ASSUME Init PROVE GuardInv
  OBVIOUS
<1>1. Counted /\ FreshCounters /\ CountedNext
  BY OrphanConstantsOK
  DEF Init, Counted, FreshCounters, CountedNext, Untouched, Unlisted, NoJob
<1> QED
  BY <1>1, TypeInit DEF GuardInv

\* Every step keeps the invariant.
LEMMA GuardNext == GuardInv /\ [Next]_vars => GuardInv'
<1> SUFFICES ASSUME GuardInv, [Next]_vars PROVE GuardInv'
  OBVIOUS
<1>0. TypeOK /\ TypeOK' /\ Counted /\ FreshCounters /\ CountedNext
  BY TypeNext DEF GuardInv
<1> SUFFICES Counted' /\ FreshCounters' /\ CountedNext'
  BY <1>0 DEF GuardInv
<1> USE <1>0 DEF TypeOK, tickVars, Fails
<1>1. CASE ListJobs
  <2>1. Counted'
    BY <1>1 DEF ListJobs, Counted
  <2>2. FreshCounters' /\ CountedNext'
    BY <1>1 DEF ListJobs, FreshCounters, CountedNext, Few
  <2> QED
    BY <2>1, <2>2
<1>2. CASE Snapshot
  <2>1. \A j \in Jobs : small[j] <= small'[j]
    BY <1>2 DEF Snapshot
  <2>2. Counted'
    BY <1>2, <2>1 DEF Snapshot, Counted
  <2>3. FreshCounters'
    BY <1>2 DEF Snapshot, FreshCounters
  <2>4. ASSUME Few', NEW j \in (js \cap Managed(byID, cfg.mapped)) \ owned'
        PROVE  seen[j] < small'[j]
    <3>1. owned' # js
      OBVIOUS
    <3>2. owned' \in SUBSET Jobs /\ byID' = byID /\ cfg' = cfg
      BY <1>2 DEF Snapshot
    <3>3. j \in SmallGap(owned')
      BY <2>4, <3>2, GapIsSmall DEF Few
    <3>4. small'[j] = small[j] + 1
      BY <1>2, <3>1, <3>3 DEF Snapshot
    <3> QED
      BY <3>4 DEF Counted
  <2>5. CountedNext'
    BY <1>2, <2>4 DEF Snapshot, CountedNext
  <2> QED
    BY <2>2, <2>3, <2>5
<1>3. CASE TickFails
  BY <1>3 DEF TickFails, EndOfTick, Counted, FreshCounters, CountedNext,
              Untouched, Unlisted, NoJob
<1>4. CASE Judge
  <2>1. \A j \in Jobs : seen'[j] <= seen[j]
    BY <1>4 DEF Judge, Forgotten
  <2>2. /\ byID' = byID \/ byID' = Unlisted
        /\ pc' # "idle" => byID' = byID
    BY <1>4 DEF Judge, EndOfTick
  <2>3. Counted'
    <3>1. ASSUME NEW j \in js' PROVE seen'[j] <= small'[j]
      <4>1. js' = js /\ seen[j] <= small[j] /\ seen'[j] <= seen[j]
        BY <1>4, <2>1, <3>1 DEF Judge, Counted
      <4>2. small'[j] = small[j] \/ seen'[j] = 0
        BY <1>4, <4>1, <3>1 DEF Judge, Forgotten
      <4> QED
        BY <4>1, <4>2
    <3> QED
      BY <3>1 DEF Counted
  <2>4. FreshCounters'
    BY <1>4, <2>1, <2>2
    DEF Judge, FreshCounters, Untouched, Unlisted, NoJob
  <2>5. ASSUME pc' = "cancel", NEW j \in todo'
        PROVE  ~Untouched(byID'[j]) /\ (j \in js => seen'[j] < small'[j])
    <3>1. /\ todo' = Managed(byID, cfg.mapped) \ owned /\ byID' = byID
          /\ ~Suspicious(owned, Managed(byID, cfg.mapped) \ owned,
                         Managed(byID, cfg.mapped))
      BY <1>4, <2>5 DEF Judge, EndOfTick
    <3>2. Managed(byID, cfg.mapped) \subseteq Jobs
      BY OrphanConstantsOK DEF Managed
    <3>3. Few
      <4>1. IsFiniteSet(Managed(byID, cfg.mapped))
        BY <3>2, OrphanConstantsOK, FS_Subset
      <4>2. IsFiniteSet(Managed(byID, cfg.mapped) \ owned)
        BY <4>1, FS_Subset
      <4>3. /\ Cardinality(Managed(byID, cfg.mapped)) \in Nat
            /\ Cardinality(Managed(byID, cfg.mapped) \ owned) \in Nat
        BY <4>1, <4>2, FS_CardinalityType
      <4> QED
        BY <3>1, <4>3 DEF Suspicious, Few
    <3>4. pc = "admit"
      BY <1>4 DEF Judge
    <3>5. j \in js => seen[j] < small[j]
      BY <2>5, <3>1, <3>3, <3>4 DEF CountedNext
    <3>6. ~Untouched(byID[j])
      BY <2>5, <3>1, ManagedTouched
    <3>7. small'[j] = small[j]
      BY <1>4, <2>5, <3>1, <3>2 DEF Judge
    <3> QED
      BY <2>1, <2>5, <3>1, <3>2, <3>5, <3>6, <3>7
  <2>6. pc' # "admit" /\ js' = js
    BY <1>4 DEF Judge, EndOfTick
  <2>7. CountedNext'
    BY <2>5, <2>6 DEF CountedNext
  <2> QED
    BY <2>3, <2>4, <2>7
<1>5. CASE EndPass
  BY <1>5 DEF EndPass, EndOfTick, Counted, FreshCounters, CountedNext,
              Untouched, Unlisted, NoJob
<1>6. CASE Crash
  BY <1>6 DEF Crash, EndOfTick, Counted, FreshCounters, CountedNext,
              Untouched, Unlisted, NoJob
<1>7. CASE HotReload
  BY <1>7 DEF HotReload, Counted, FreshCounters, CountedNext
<1>8. ASSUME NEW j \in Jobs, Signal(j)
      PROVE  Counted' /\ FreshCounters' /\ CountedNext'
  BY <1>8 DEF Signal, Counted, FreshCounters, CountedNext, Few, Untouched
<1>9. ASSUME NEW j \in Jobs, Create(j) \/ Propagate(j)
      PROVE  Counted' /\ FreshCounters' /\ CountedNext'
  <2>1. CASE Create(j)
    <3>1. Untouched(byID[j]) /\ seen[j] = 0
      BY <2>1 DEF Create, Untouched, FreshCounters
    <3>2. j \notin Managed(byID, cfg.mapped)
      BY <3>1, ManagedTouched
    <3>3. Counted' /\ CountedNext'
      BY <2>1, <3>1, <3>2 DEF Create, Counted, CountedNext, Few
    <3>4. FreshCounters'
      BY <2>1 DEF Create, FreshCounters
    <3> QED
      BY <3>3, <3>4
  <2>2. CASE Propagate(j)
    BY <2>2 DEF Propagate, Counted, FreshCounters, CountedNext, Few, Untouched
  <2> QED
    BY <1>9, <2>1, <2>2
<1>10. ASSUME NEW j \in Jobs, Release(j)
       PROVE  Counted' /\ FreshCounters' /\ CountedNext'
  BY <1>10 DEF Release, Counted, FreshCounters, CountedNext, Few, Untouched
<1>11. ASSUME NEW j \in Jobs, Wait(j)
       PROVE  Counted' /\ FreshCounters' /\ CountedNext'
  <2>1. ~Untouched(byID[j]) /\ (j \in js => seen[j] < small[j])
    BY <1>11 DEF Wait, CountedNext
  <2>2. /\ \A k \in Jobs : seen'[k] = IF k = j THEN seen[j] + 1 ELSE seen[k]
        /\ todo' = todo \ {j} /\ pc = "cancel"
        /\ UNCHANGED <<job, js, cfg, pc, byID, owned, small>>
    BY <1>11 DEF Wait
  <2>3. Counted' /\ CountedNext'
    BY <2>1, <2>2 DEF Counted, CountedNext
  <2>4. FreshCounters'
    BY <2>1, <2>2 DEF FreshCounters
  <2> QED
    BY <2>3, <2>4
<1>12. ASSUME NEW j \in Jobs, Cancel(j)
       PROVE  Counted' /\ FreshCounters' /\ CountedNext'
  <2>1. ~Untouched(byID[j]) /\ (j \in js => seen[j] < small[j])
    BY <1>12 DEF Cancel, CountedNext
  <2>2. /\ \A k \in Jobs : k # j => seen'[k] = seen[k]
        /\ seen'[j] \in {0, seen[j] + 1}
        /\ todo' = todo \ {j} /\ pc = "cancel"
        /\ UNCHANGED <<js, cfg, pc, byID, owned, small>>
    BY <1>12 DEF Cancel, Forgotten
  <2>3. \A k \in Jobs : Untouched(job'[k]) \/ job'[k].st = "none" => job'[k] = job[k]
    <3>1. job' = job \/ job' = [job EXCEPT ![j].st = "terminal"]
      BY <1>12 DEF Cancel
    <3>2. ASSUME job' = [job EXCEPT ![j].st = "terminal"], NEW k \in Jobs
          PROVE  job'[k].st \in {"none", "held"} => job'[k] = job[k]
      BY <3>2
    <3> QED
      BY <3>1, <3>2 DEF Untouched
  <2>4. Counted' /\ CountedNext'
    BY <2>1, <2>2 DEF Counted, CountedNext
  <2>5. FreshCounters'
    BY <2>1, <2>2, <2>3 DEF FreshCounters
  <2> QED
    BY <2>4, <2>5
<1>13. ASSUME NEW j \in Jobs, Submit(j)
       PROVE  Counted' /\ FreshCounters' /\ CountedNext'
  BY <1>13 DEF Submit, Counted, FreshCounters, CountedNext, Untouched
<1>14. ASSUME NEW j \in Jobs, JobEnds(j)
       PROVE  Counted' /\ FreshCounters' /\ CountedNext'
  BY <1>14 DEF JobEnds, Counted, FreshCounters, CountedNext, Few, Untouched
<1>15. ASSUME NEW j \in Jobs, JobSetGoes(j)
       PROVE  Counted' /\ FreshCounters' /\ CountedNext'
  BY <1>15 DEF JobSetGoes, Counted, FreshCounters, CountedNext, Few
<1>16. CASE UNCHANGED vars
  BY <1>16 DEF vars, Counted, FreshCounters, CountedNext, Few
<1> QED
  BY <1>1, <1>2, <1>3, <1>4, <1>5, <1>6, <1>7, <1>8, <1>9, <1>10, <1>11, <1>12,
     <1>13, <1>14, <1>15, <1>16 DEF Next, TickStep, Environment

\* A job whose JobSet exists is cancelled only after as many small gaps as the
\* grace period has ticks.
THEOREM SparesServed == Spec => SparesServedJobs
<1>1. ASSUME GuardInv, NEW j \in js, Cancel(j), Alive(job[j]), ~Alive(job'[j])
      PROVE  small[j] >= Grace
  <2>1. seen[j] < small[j] /\ seen[j] + 1 >= Grace
    BY <1>1 DEF GuardInv, CountedNext, Cancel, GraceOver
  <2> QED
    BY <1>1, <2>1, OrphanConstantsOK DEF GuardInv, TypeOK
<1>2. GuardInv /\ [Next]_vars
      => [\A j \in js : Cancel(j) /\ Alive(job[j]) /\ ~Alive(job'[j])
                          => small[j] >= Grace]_vars
  BY <1>1
<1> QED
  BY GuardInit, GuardNext, <1>2, PTL DEF Spec, SparesServedJobs

=============================================================================
