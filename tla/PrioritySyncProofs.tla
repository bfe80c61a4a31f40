--------------------------- MODULE PrioritySyncProofs ---------------------------
(***************************************************************************)
(* Proofs about PrioritySync, for every cap, every range of priorities and *)
(* any number of writes and failures.                                      *)
(***************************************************************************)
EXTENDS PrioritySync, TLAPS

\* An acknowledgement under way names what was applied, and no older one is there to
\* be turned into a lie: the plugin's directive has replaced it.
AckInv ==
  /\ pc \in {"snapshot", "directive", "ack"} /\ snap.admin.kind = "directive" => admin.kind # "ack"
  /\ pc = "ack" => snap.admin.kind = "directive" /\ applied = capUserPriority(snap.admin.v)

PriorityInv == TypeOK /\ UsersStayBelowCap /\ AckedWasApplied /\ AckInv

-----------------------------------------------------------------------------
(* The decisions *)

\* What the cap makes of a priority is one, and not above the cap.
LEMMA CapTypes ==
  ASSUME NEW v \in Priorities
  PROVE  /\ capUserPriority(v) \in Priorities
         /\ MaxUserPriority = 0 \/ capUserPriority(v) <= MaxUserPriority
<1>1. Top \in Nat /\ MaxUserPriority \in Nat /\ v \in Int /\ -1 <= v /\ v <= Top
  BY PriorityConstantsOK DEF Priorities
<1>2. (Top \in Nat /\ v >= 0) \/ v = -1
  BY <1>1
<1>3. CASE v < 0
  BY <1>1, <1>3 DEF capUserPriority, Priorities
<1>4. CASE v >= 0 /\ MaxUserPriority > 0 /\ v > MaxUserPriority
  BY <1>1, <1>4 DEF capUserPriority, Priorities
<1>5. CASE v >= 0 /\ ~(MaxUserPriority > 0 /\ v > MaxUserPriority)
  BY <1>1, <1>5 DEF capUserPriority, Priorities
<1> QED
  BY <1>1, <1>3, <1>4, <1>5

\* What the unsigned field of Slurm holds.
LEMMA FieldTypes ==
  ASSUME NEW v \in Priorities
  PROVE  safeUint32(v) \in 0..Top
BY PriorityConstantsOK DEF Priorities, safeUint32

\* What is written in an admin comment.
LEMMA CommentTypes ==
  /\ Silence \in Comment /\ Silence.kind = "none" /\ Garbled \in Comment /\ Garbled.kind = "garbled"
  /\ \A v \in Priorities : /\ Directive(v) \in Comment /\ Directive(v).kind = "directive"
                           /\ Ack(v) \in Comment /\ Ack(v).kind = "ack" /\ Ack(v).v = v
  /\ \A c \in Comment : c.kind = "directive" => c.v \in Priorities
  /\ Unknown \in Memory /\ \A v \in Priorities : Known(v) \in Memory
<1>1. Silence \in Comment /\ Silence.kind = "none" /\ Garbled \in Comment /\ Garbled.kind = "garbled"
  BY DEF Comment, Silence, Garbled
<1>2. \A v \in Priorities : Directive(v) \in Comment /\ Ack(v) \in Comment
  BY Zenon DEF Comment
<1>3. \A v : Directive(v).kind = "directive" /\ Directive(v).v = v
             /\ Ack(v).kind = "ack" /\ Ack(v).v = v
  BY DEF Directive, Ack
<1>4. ASSUME NEW c \in Comment, c.kind = "directive" PROVE c.v \in Priorities
  <2>1. c = Silence \/ c = Garbled \/ (\E v \in Priorities : c = Directive(v))
        \/ \E v \in Priorities : c = Ack(v)
    BY Zenon DEF Comment
  <2> QED
    BY <1>1, <1>3, <1>4, <2>1
<1>5. Unknown \in Memory /\ \A v \in Priorities : Known(v) \in Memory
  BY Zenon DEF Memory
<1> QED
  BY <1>1, <1>2, <1>3, <1>4, <1>5

\* A tick that ends drops its copies.
LEMMA CopiesTypes ==
  ASSUME PriorityConstantsOK
  PROVE  /\ NoCopies \in Copies /\ NoCopies.admin.kind # "directive"
         /\ \A s \in Copies, v \in Priorities : [s EXCEPT !.wl = v] \in Copies
<1>1. 0 \in Priorities /\ 0 \in 0..Top
  BY PriorityConstantsOK DEF Priorities
<1> QED
  BY <1>1, CommentTypes DEF NoCopies, Copies

-----------------------------------------------------------------------------
(* The invariant *)

LEMMA PriorityInit == Init => PriorityInv
<1> SUFFICES ASSUME Init PROVE PriorityInv
  OBVIOUS
<1>1. Top \in Nat /\ MaxWrites \in Nat /\ MaxFaults \in Nat
  BY PriorityConstantsOK
<1>2. prio \in 0..Top /\ wl \in Priorities /\ byKube \in Priorities /\ byKube = wl
  BY <1>1 DEF Init, Priorities
<1>3. TypeOK
  <2>1. admin \in Comment /\ synced \in Memory
    BY CommentTypes DEF Init
  <2>2. snap \in Copies
    BY CopiesTypes, PriorityConstantsOK DEF Init
  <2>3. writes \in 0..MaxWrites /\ faults \in 0..MaxFaults
    BY <1>1 DEF Init
  <2> QED
    BY <1>2, <2>1, <2>2, <2>3 DEF Init, TypeOK
<1>4. UsersStayBelowCap /\ AckedWasApplied /\ AckInv
  BY <1>2, CommentTypes DEF Init, UsersStayBelowCap, AckedWasApplied, AckInv
<1> QED
  BY <1>3, <1>4 DEF PriorityInv

\* The bounded counters.
LEMMA Counters ==
  ASSUME TypeOK
  PROVE  /\ Succeeds \/ Fails => faults' \in 0..MaxFaults
         /\ Spend => writes' \in 0..MaxWrites
BY PriorityConstantsOK DEF TypeOK, Succeeds, Fails, Spend

\* The tick takes its copies.
LEMMA ReadSteps ==
  ASSUME PriorityInv, List \/ Snapshot
  PROVE  PriorityInv'
<1>0. TypeOK /\ 0 \in Priorities
  BY PriorityConstantsOK DEF PriorityInv, Priorities
<1>1. CASE List
  <2>1. snap' \in Copies /\ snap'.admin = admin
    BY <1>0, <1>1, CopiesTypes, PriorityConstantsOK DEF List, TypeOK, NoCopies, Copies
  <2> QED
    BY <1>0, <1>1, <2>1 DEF List, PriorityInv, TypeOK, UsersStayBelowCap, AckedWasApplied, AckInv
<1>2. CASE Snapshot
  <2>1. snap' \in Copies /\ snap'.admin = snap.admin
    BY <1>0, <1>2 DEF Snapshot, TypeOK, Copies
  <2> QED
    BY <1>0, <1>2, <2>1 DEF Snapshot, PriorityInv, TypeOK, UsersStayBelowCap, AckedWasApplied, AckInv
<1> QED
  BY <1>1, <1>2

\* The directive: the value that reaches the Workload is capped, and it is the one
\* that will be acknowledged.
LEMMA DirectiveSteps ==
  ASSUME PriorityInv, ApplyDirective \/ NoDirective
  PROVE  PriorityInv'
<1>0. TypeOK
  BY DEF PriorityInv
<1>1. CASE ApplyDirective
  <2> DEFINE v == capUserPriority(snap.admin.v)
  <2>1. snap \in Copies /\ snap.admin \in Comment /\ snap.admin.kind = "directive"
        /\ admin.kind # "ack"
    BY <1>0, <1>1 DEF ApplyDirective, IsDirective, TypeOK, Copies, PriorityInv, AckInv
  <2>2. v \in Priorities /\ (MaxUserPriority = 0 \/ v <= MaxUserPriority)
    BY <2>1, CommentTypes, CapTypes
  <2>3. /\ \/ wl' = v /\ applied' = v /\ snap' \in Copies /\ snap'.admin = snap.admin
           \/ UNCHANGED <<wl, applied, snap>> /\ pc' = "sync"
        /\ pc' \in {"ack", "sync"} /\ UNCHANGED <<sync, admin, prio, held, synced, moved, byKube, writes>>
        /\ faults' \in 0..MaxFaults
    <3>1. [snap EXCEPT !.wl = v] \in Copies /\ [snap EXCEPT !.wl = v].admin = snap.admin
      BY <2>1, <2>2 DEF Copies
    <3>2. (Succeeds \/ Fails) => faults' \in 0..MaxFaults
      BY <1>0, Counters
    <3> QED
      BY <1>1, <2>1, <3>1, <3>2 DEF ApplyDirective, AfterFailedPatch
  <2>4. TypeOK'
    BY <1>0, <2>2, <2>3 DEF TypeOK
  <2>5. UsersStayBelowCap'
    BY <2>2, <2>3 DEF PriorityInv, UsersStayBelowCap
  <2>6. AckedWasApplied' /\ AckInv'
    BY <2>1, <2>3 DEF AckedWasApplied, AckInv
  <2> QED
    BY <2>4, <2>5, <2>6 DEF PriorityInv
<1>2. CASE NoDirective
  BY <1>0, <1>2 DEF NoDirective, PriorityInv, TypeOK, UsersStayBelowCap, AckedWasApplied, AckInv
<1> QED
  BY <1>1, <1>2

\* The acknowledgement.
LEMMA AcknowledgeStep ==
  ASSUME PriorityInv, Acknowledge
  PROVE  PriorityInv'
<1> DEFINE v == capUserPriority(snap.admin.v)
<1>0. TypeOK
  BY DEF PriorityInv
<1>1. snap.admin \in Comment /\ snap.admin.kind = "directive" /\ applied = v
  BY <1>0 DEF Acknowledge, TypeOK, Copies, PriorityInv, AckInv
<1>2. v \in Priorities
  BY <1>1, CommentTypes, CapTypes
<1>3. /\ admin' = Ack(v) \/ admin' = admin
      /\ pc' = "sync" /\ faults' \in 0..MaxFaults
      /\ UNCHANGED <<sync, prio, held, wl, synced, snap, moved, applied, byKube, writes>>
  BY <1>0, Counters DEF Acknowledge
<1>4. TypeOK'
  BY <1>0, <1>2, <1>3, CommentTypes DEF TypeOK
<1>5. AckedWasApplied'
  BY <1>1, <1>2, <1>3, CommentTypes DEF AckedWasApplied, PriorityInv
<1> QED
  BY <1>3, <1>4, <1>5 DEF PriorityInv, UsersStayBelowCap, AckInv

\* The mirror, which never writes an admin comment.
LEMMA MirrorSteps ==
  ASSUME PriorityInv, Compare \/ Mirror \/ Forward \/ Remember \/ Crash
  PROVE  PriorityInv'
<1>0. TypeOK /\ snap \in Copies /\ snap.wl \in Priorities /\ snap.prio \in Priorities
      /\ NoCopies \in Copies
  BY CopiesTypes, PriorityConstantsOK DEF PriorityInv, TypeOK, Copies, Priorities
<1>1. Succeeds \/ Fails => faults' \in 0..MaxFaults
  BY <1>0, Counters
<1>2. CASE Compare
  BY <1>0, <1>2 DEF Compare, Done, Direction, PriorityInv, TypeOK, UsersStayBelowCap, AckedWasApplied, AckInv
<1>3. CASE Mirror
  <2>1. safeUint32(snap.wl) \in 0..Top
    BY <1>0, FieldTypes
  <2>2. prio' \in 0..Top /\ held' \in BOOLEAN
    BY <1>0, <1>3, <2>1 DEF Mirror, TypeOK
  <2>3. snap' \in Copies /\ pc' \in {"remember", "idle"} /\ faults' \in 0..MaxFaults
        /\ UNCHANGED <<sync, admin, wl, synced, moved, applied, byKube, writes>>
    BY <1>0, <1>1, <1>3 DEF Mirror, Done
  <2> QED
    BY <1>0, <2>2, <2>3 DEF PriorityInv, TypeOK, UsersStayBelowCap, AckedWasApplied, AckInv
<1>4. CASE Forward
  <2> DEFINE v == capUserPriority(snap.prio)
  <2>1. v \in Priorities /\ (MaxUserPriority = 0 \/ v <= MaxUserPriority)
    BY <1>0, CapTypes
  <2>2. [snap EXCEPT !.wl = v] \in Copies
    BY <1>0, <2>1 DEF Copies
  <2>3. /\ wl' = v \/ wl' = wl
        /\ snap' \in Copies /\ pc' \in {"remember", "idle"} /\ faults' \in 0..MaxFaults
        /\ UNCHANGED <<sync, admin, prio, held, synced, moved, applied, byKube, writes>>
    BY <1>0, <1>1, <1>4, <2>2 DEF Forward, Done
  <2> QED
    BY <1>0, <2>1, <2>3 DEF PriorityInv, TypeOK, UsersStayBelowCap, AckedWasApplied, AckInv
<1>5. CASE Remember
  <2>1. synced' \in Memory
    BY <1>0, <1>5, CommentTypes DEF Remember, TypeOK
  <2> QED
    BY <1>0, <1>1, <1>5, <2>1 DEF Remember, Done, PriorityInv, TypeOK, UsersStayBelowCap, AckedWasApplied, AckInv
<1>6. CASE Crash
  BY <1>0, <1>1, <1>6 DEF Crash, Done, PriorityInv, TypeOK, UsersStayBelowCap, AckedWasApplied, AckInv
<1> QED
  BY <1>2, <1>3, <1>4, <1>5, <1>6

\* Users, administrators and the JobSet controller.
LEMMA OtherSteps ==
  ASSUME PriorityInv, UserDirects \/ UserSets \/ KubeSets \/ JobSetMoves
  PROVE  PriorityInv'
<1>0. TypeOK
  BY DEF PriorityInv
<1>1. Spend => writes' \in 0..MaxWrites
  BY <1>0, Counters
<1>2. CASE UserDirects
  <2>1. admin' \in Comment /\ admin'.kind # "ack"
    BY <1>2, CommentTypes DEF UserDirects
  <2> QED
    BY <1>0, <1>1, <1>2, <2>1 DEF UserDirects, PriorityInv, TypeOK, UsersStayBelowCap, AckedWasApplied, AckInv
<1>3. CASE UserSets
  BY <1>0, <1>1, <1>3 DEF UserSets, PriorityInv, TypeOK, UsersStayBelowCap, AckedWasApplied, AckInv
<1>4. CASE KubeSets
  BY <1>0, <1>1, <1>4 DEF KubeSets, PriorityInv, TypeOK, UsersStayBelowCap, AckedWasApplied, AckInv
<1>5. CASE JobSetMoves
  BY <1>0, <1>1, <1>5 DEF JobSetMoves, PriorityInv, TypeOK, UsersStayBelowCap, AckedWasApplied, AckInv
<1> QED
  BY <1>2, <1>3, <1>4, <1>5

LEMMA PriorityStep == PriorityInv /\ [Next]_vars => PriorityInv'
<1> SUFFICES ASSUME PriorityInv, [Next]_vars PROVE PriorityInv'
  OBVIOUS
<1>1. CASE UNCHANGED vars
  BY <1>1 DEF vars, PriorityInv, TypeOK, UsersStayBelowCap, AckedWasApplied, AckInv
<1>2. CASE Bridge
  BY <1>2, ReadSteps, DirectiveSteps, AcknowledgeStep, MirrorSteps DEF Bridge
<1>3. CASE Crash \/ UserDirects \/ UserSets \/ KubeSets \/ JobSetMoves
  BY <1>3, MirrorSteps, OtherSteps
<1> QED
  BY <1>1, <1>2, <1>3 DEF Next

-----------------------------------------------------------------------------
(* Theorems *)

\* Everything keeps its type (kueue.go: directive, mirror and memory).
THEOREM PriorityTypeCorrect == Spec => []TypeOK
<1>1. PriorityInv => TypeOK
  BY DEF PriorityInv
<1> QED
  BY <1>1, PriorityInit, PriorityStep, PTL DEF Spec

\* Along both ways, directive and mirror, nothing a user asks for puts a job ahead of
\* MaxUserPriority (capUserPriority).
THEOREM UsersCapped == Spec => []UsersStayBelowCap
<1>1. PriorityInv => UsersStayBelowCap
  BY DEF PriorityInv
<1> QED
  BY <1>1, PriorityInit, PriorityStep, PTL DEF Spec

\* What wm:prio-applied= names has reached the Workload, through lost replies, crashes
\* and directives written meanwhile (applyPriorityDirective).
THEOREM AcksAreTrue == Spec => []AckedWasApplied
<1>1. PriorityInv => AckedWasApplied
  BY DEF PriorityInv
<1> QED
  BY <1>1, PriorityInit, PriorityStep, PTL DEF Spec

=============================================================================
