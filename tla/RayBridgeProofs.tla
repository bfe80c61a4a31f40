----------------------------- MODULE RayBridgeProofs -----------------------------
(***************************************************************************)
(* Proofs about RayBridge: the retry budget and what the retry path        *)
(* deletes, for all sets of names, all budgets and any number of failures, *)
(* faults, edits and RayJobs.                                              *)
(***************************************************************************)
EXTENDS RayBridge, TLAPS

One(b) == IF b THEN 1 ELSE 0

\* A retry is about to be counted: the RayJob is still the one that was read.
Counting(n) == rec.pc = "count" /\ rec.n = n /\ rec.fresh

\* A JobSet of n is about to be deleted.
Culling(n) == rec.pc = "cull" /\ rec.n = n

\* A failed JobSet that nobody has counted yet, or that a count did not get rid of.
Due(n) ==
  /\ js[n].uid # 0 /\ js[n].uid = job[n].uid /\ js[n].st = "failed" /\ ~js[n].dying
  /\ job[n].retries <= MaxWorkerRetries
  /\ ~Counting(n) /\ ~Culling(n)

\* UIDs are given out once; no RayJob, no count.
UidInv ==
  \A n \in Names :
    /\ job[n].uid <= uids[n] /\ js[n].uid <= uids[n]
    /\ job[n].uid = 0 => job[n].retries = 0

\* What a reconcile has read is true while it counts as fresh.
RecInv ==
  /\ rec.pc # "idle" =>
       /\ rec.uid <= uids[rec.n]
       /\ rec.fresh /\ rec.pc # "cull" => job[rec.n].uid = rec.uid /\ job[rec.n].retries = rec.retries
  /\ rec.pc = "count" => rec.retries <= MaxWorkerRetries

\* Every deletion has been counted before.
CullInv ==
  \A n \in Names :
    LET culled == spent[n].culled + One(Culling(n))
    IN  culled <= MaxWorkerRetries /\ (job[n].uid # 0 => culled <= job[n].retries)

\* Every count has its failure or its excuse, and so has the next.
DueInv ==
  \A n \in Names :
    job[n].retries + One(Counting(n)) + One(Due(n)) <= spent[n].failed + spent[n].excused

RayInv == TypeOK /\ UidInv /\ RecInv /\ CullInv /\ DueInv

-----------------------------------------------------------------------------
(* The pieces of a step *)

RecType == [pc : {"drain", "check", "count", "cull", "ensure", "verify"}, n : Names,
            uid : 1..MaxUid, fresh : BOOLEAN, retries : 0..(MaxWorkerRetries + 1)]

LEMMA RecOK ==
  ASSUME TypeOK
  PROVE  /\ rec = Idle \/ rec \in RecType
         /\ rec.pc = "idle" <=> rec = Idle
         /\ rec.pc # "idle" => rec \in RecType
BY DEF TypeOK, RecType, Idle

LEMMA SpendOK ==
  ASSUME TypeOK, NEW what \in {"failures", "faults", "edits"}, Spend(what)
  PROVE  budget' \in [{"failures", "faults", "edits"} -> Nat]
BY DEF TypeOK, Spend

LEMMA RecordsOK ==
  /\ NoJobSet \in JobSetRecord /\ NoRayJob \in RayJobRecord /\ Unspent \in SpentRecord
  /\ NoJobSet.uid = 0 /\ NoJobSet.st = "new" /\ NoRayJob.uid = 0 /\ NoRayJob.retries = 0
BY RayConstantsOK DEF NoJobSet, JobSetRecord, NoRayJob, RayJobRecord, Kinds, Unspent, SpentRecord

LEMMA GotoOK ==
  ASSUME TypeOK, rec.pc # "idle", NEW pc, Goto(pc),
         pc \in {"idle", "drain", "check", "count", "cull", "ensure", "verify"}
  PROVE  /\ rec' = Idle \/ rec' \in RecType
         /\ rec'.pc = pc
         /\ pc # "idle" => /\ rec'.n = rec.n /\ rec'.uid = rec.uid
                          /\ rec'.fresh = rec.fresh /\ rec'.retries = rec.retries
<1>1. rec \in RecType
  BY RecOK
<1>2. CASE pc = "idle"
  BY <1>2 DEF Goto, Idle
<1>3. CASE pc # "idle"
  BY <1>1, <1>3 DEF Goto, RecType
<1> QED
  BY <1>2, <1>3

LEMMA ReturnOK ==
  ASSUME TypeOK, rec.pc # "idle", Return
  PROVE  /\ rec' = Idle /\ rec'.pc = "idle" /\ queue' \subseteq Names
         /\ budget' \in [{"failures", "faults", "edits"} -> Nat]
BY RecOK, SpendOK DEF Return, Goto, Idle, Requeued, TypeOK, RecType

\* What becomes of a JobSet that is removed: nothing is due for it any more.
LEMMA RemoveOK ==
  ASSUME TypeOK, UidInv, NEW n \in Names, Remove(n) \/ DeleteByName(n)
  PROVE  /\ js' \in [Names -> JobSetRecord] /\ news' \subseteq Names
         /\ js'[n].uid = 0 \/ js'[n].dying
         /\ js'[n].uid <= uids[n]
         /\ \A m \in Names \ {n} : js'[m] = js[m]
<1>1. CASE UNCHANGED <<js, news>> /\ js[n].uid = 0
  BY <1>1 DEF TypeOK, UidInv
<1>2. CASE Put(n, NoJobSet)
  BY <1>2, RecordsOK DEF TypeOK, UidInv, Put
<1>3. CASE Put(n, [js[n] EXCEPT !.dying = TRUE])
  <2> DEFINE r == [js[n] EXCEPT !.dying = TRUE]
  <2>1. r \in JobSetRecord /\ r.dying = TRUE /\ r.uid = js[n].uid
    <3>1. js[n] \in JobSetRecord
      BY DEF TypeOK
    <3> QED
      BY <3>1 DEF JobSetRecord
  <2> HIDE DEF r
  <2>2. js' = [js EXCEPT ![n] = r] /\ news' = news \union {n}
    BY <1>3 DEF Put, r
  <2> QED
    BY <2>1, <2>2 DEF TypeOK, UidInv
<1> QED
  BY <1>1, <1>2, <1>3 DEF Remove, DeleteByName

\* What a write of RayJob n leaves alone, and that a reconcile of n is stale after it.
LEMMA WriteOK ==
  ASSUME TypeOK, UidInv, RecInv, NEW n \in Names, NEW r \in RayJobRecord, Write(n, r),
         UNCHANGED js, \A m \in Names : uids[m] <= uids'[m], uids' \in [Names -> 0..MaxUid]
  PROVE  /\ job' \in [Names -> RayJobRecord] /\ queue' \subseteq Names
         /\ rec' = Idle \/ rec' \in RecType
         /\ job'[n] = r /\ \A m \in Names \ {n} : job'[m] = job[m]
         /\ RecInv'
         /\ \A m \in Names : Culling(m)' <=> Culling(m)
         /\ ~Counting(n)'
         /\ \A m \in Names \ {n} : (Counting(m)' <=> Counting(m)) /\ (Due(m)' <=> Due(m))
<1>1. /\ job' \in [Names -> RayJobRecord] /\ queue' \subseteq Names
      /\ job'[n] = r /\ \A m \in Names \ {n} : job'[m] = job[m]
  BY DEF Write, TypeOK
<1>2. CASE rec.pc = "idle"
  <2>1. rec' = Idle /\ rec = Idle /\ rec'.pc = "idle"
    BY <1>2, RecOK DEF Write, Idle
  <2> QED
    BY <1>1, <2>1 DEF RecInv, Culling, Counting, Due, Idle
<1>3. CASE rec.pc # "idle" /\ rec.n = n
  <2>1. rec \in RecType /\ rec' = [rec EXCEPT !.fresh = FALSE]
    BY <1>3, RecOK DEF Write
  <2>2. /\ rec' \in RecType /\ rec'.fresh = FALSE /\ rec'.pc = rec.pc /\ rec'.n = rec.n
        /\ rec'.uid = rec.uid /\ rec'.retries = rec.retries
    BY <2>1 DEF RecType
  <2>3. RecInv'
    BY <1>3, <2>1, <2>2 DEF RecInv, TypeOK, RecType
  <2> QED
    BY <1>1, <1>3, <2>2, <2>3 DEF Culling, Counting, Due
<1>4. CASE rec.pc # "idle" /\ rec.n # n
  <2>1. rec \in RecType /\ rec' = rec
    BY <1>4, RecOK DEF Write
  <2>2. rec.n \in Names /\ rec.uid \in Nat
    BY <2>1 DEF RecType
  <2>3. RecInv'
    BY <1>1, <1>4, <2>1, <2>2 DEF RecInv, TypeOK
  <2> QED
    BY <1>1, <1>4, <2>1, <2>3 DEF Culling, Counting, Due
<1> QED
  BY <1>2, <1>3, <1>4

LEMMA RayInit == Init => RayInv
<1> SUFFICES ASSUME Init PROVE RayInv
  OBVIOUS
<1>1. TypeOK
  BY RecordsOK, RayConstantsOK DEF Init, TypeOK
<1>2. rec.pc = "idle" /\ \A n \in Names : ~Counting(n) /\ ~Culling(n) /\ ~Due(n)
  BY RecordsOK DEF Init, Idle, Counting, Culling, Due
<1>3. UidInv /\ RecInv
  BY <1>2, RecordsOK DEF Init, UidInv, RecInv
<1>4. \A n \in Names : spent[n].culled = 0 /\ spent[n].failed = 0 /\ spent[n].excused = 0
                      /\ job[n].uid = 0 /\ job[n].retries = 0
  BY RecordsOK DEF Init, Unspent
<1>5. CullInv /\ DueInv
  BY <1>2, <1>4, RayConstantsOK DEF CullInv, DueInv, One
<1> QED
  BY <1>1, <1>3, <1>5 DEF RayInv

-----------------------------------------------------------------------------
(* The reconcile *)

\* A step that neither counts nor culls, of a reconcile or around one, and with which
\* nothing falls due.
LEMMA Harmless ==
  ASSUME RayInv, TypeOK', UidInv', RecInv', UNCHANGED <<job, spent>>,
         \A n \in Names : /\ Counting(n)' => Counting(n)
                          /\ Culling(n)' => Culling(n)
                          /\ Due(n)' => Due(n) \/ (Counting(n) /\ ~Counting(n)')
  PROVE  RayInv'
<1>1. \A n \in Names : job[n].retries \in Nat /\ spent[n].culled \in Int
                      /\ spent[n].failed \in Nat /\ spent[n].excused \in Nat
  BY RayConstantsOK DEF RayInv, TypeOK, RayJobRecord, SpentRecord
<1>2. \A n \in Names : Due(n) => ~Counting(n)
  BY DEF Due
<1>3. \A n \in Names : Due(n)' => ~Counting(n)'
  BY DEF Due
<1>4. CullInv'
  BY <1>1, RayConstantsOK DEF RayInv, CullInv, One
<1>5. DueInv'
  BY <1>1, <1>2, <1>3 DEF RayInv, DueInv, One
<1> QED
  BY <1>4, <1>5 DEF RayInv

LEMMA BeginStep ==
  ASSUME RayInv, NEW n \in Names, Begin(n)
  PROVE  RayInv'
<1>1. /\ rec.pc = "idle" /\ queue' = queue \ {n}
      /\ UNCHANGED <<job, uids, js, news, cache, budget, spent>>
  BY DEF Begin, At
<1>2. \/ rec' = Idle
      \/ /\ job[n].uid # 0
         /\ rec' = [pc |-> IF job[n].term THEN "drain" ELSE "check", n |-> n,
                    uid |-> job[n].uid, retries |-> job[n].retries, fresh |-> TRUE]
  BY DEF Begin
<1>3. /\ rec' = Idle \/ rec' \in RecType
      /\ rec'.pc \in {"idle", "drain", "check"}
      /\ rec'.pc # "idle" => rec'.n = n /\ rec'.uid = job[n].uid /\ rec'.retries = job[n].retries
  <2>1. CASE rec' = Idle
    BY <2>1 DEF Idle
  <2>2. CASE rec' # Idle
    <3>1. job[n] \in RayJobRecord
      BY DEF RayInv, TypeOK
    <3>2. job[n].uid \in 1..MaxUid /\ job[n].retries \in 0..(MaxWorkerRetries + 1)
      BY <1>2, <2>2, <3>1, RayConstantsOK DEF RayJobRecord
    <3>3. PICK p \in {"drain", "check"} :
            rec' = [pc |-> p, n |-> n, uid |-> job[n].uid, retries |-> job[n].retries,
                    fresh |-> TRUE]
      BY <1>2, <2>2
    <3> QED
      BY <3>2, <3>3 DEF RecType
  <2> QED
    BY <2>1, <2>2
<1>4. TypeOK'
  BY <1>1, <1>3 DEF RayInv, TypeOK, RecType
<1>5. UidInv' /\ RecInv'
  BY <1>1, <1>3 DEF RayInv, UidInv, RecInv
<1>6. \A m \in Names : ~Counting(m)' /\ ~Culling(m)' /\ ~Counting(m) /\ ~Culling(m)
  BY <1>1, <1>3 DEF Counting, Culling
<1> QED
  BY <1>1, <1>4, <1>5, <1>6, Harmless DEF Due

\* Deletions and creations of JobSets, and reads, of a reconcile that does not cull.
LEMMA CallSteps ==
  ASSUME RayInv, Drain \/ Conflict \/ Ensure \/ Verify
  PROVE  RayInv'
<1> USE DEF RayInv
<1>1. /\ rec.pc \in {"drain", "count", "ensure", "verify"} /\ ~(rec.pc = "count" /\ rec.fresh)
      /\ UNCHANGED <<job, uids, cache, spent>>
  BY DEF Drain, Conflict, Ensure, Verify, At, Unchanged
<1>2. rec \in RecType /\ rec.n \in Names /\ rec.uid \in 1..MaxUid
  BY <1>1, RecOK DEF RecType
<1>3. /\ rec' = Idle \/ rec' \in RecType
      /\ rec'.pc \in {"idle", "verify"}
      /\ rec'.pc # "idle" => /\ rec'.n = rec.n /\ rec'.uid = rec.uid
                            /\ rec'.fresh = rec.fresh /\ rec'.retries = rec.retries
      /\ queue' \subseteq Names /\ budget' \in [{"failures", "faults", "edits"} -> Nat]
  <2>1. CASE Drain
    BY <1>1, <2>1, ReturnOK DEF Drain
  <2>2. CASE Conflict
    BY <1>1, <1>2, <2>2, GotoOK DEF Conflict, Fail, Requeued, TypeOK
  <2>3. CASE Ensure
    BY <1>1, <2>3, ReturnOK, GotoOK DEF Ensure, TypeOK
  <2>4. CASE Verify
    BY <1>1, <1>2, <2>4, GotoOK DEF Verify, Fail, Requeued, TypeOK
  <2> QED
    BY <2>1, <2>2, <2>3, <2>4
<1>4. /\ js' \in [Names -> JobSetRecord] /\ news' \subseteq Names
      /\ \A m \in Names : js'[m].uid <= uids[m]
      /\ \A m \in Names : js'[m] = js[m] \/ js'[m].uid = 0 \/ js'[m].dying \/ js'[m].st = "new"
  <2>1. CASE Drain
    BY <1>2, <2>1, RemoveOK DEF Drain, UidInv
  <2>2. CASE UNCHANGED <<js, news>>
    BY <2>2 DEF TypeOK, UidInv
  <2>3. CASE Put(rec.n, [NoJobSet EXCEPT !.uid = rec.uid])
    <3> DEFINE r == [NoJobSet EXCEPT !.uid = rec.uid]
    <3>1. r \in JobSetRecord /\ r.uid = rec.uid /\ r.st = "new"
      <4>1. rec.uid \in 0..MaxUid
        BY <1>2, RayConstantsOK
      <4> QED
        BY <4>1, RecordsOK DEF JobSetRecord
    <3> HIDE DEF r
    <3>2. js' = [js EXCEPT ![rec.n] = r] /\ news' = news \union {rec.n}
      BY <2>3 DEF Put, r
    <3>3. rec.uid <= uids[rec.n]
      BY <1>1 DEF RecInv
    <3> QED
      BY <1>2, <3>1, <3>2, <3>3 DEF TypeOK, UidInv
  <2> QED
    BY <2>1, <2>2, <2>3 DEF Conflict, Ensure, Verify
<1>5. TypeOK'
  BY <1>1, <1>3, <1>4 DEF TypeOK, RecType
<1>6. UidInv' /\ RecInv'
  BY <1>1, <1>3, <1>4 DEF UidInv, RecInv
<1>7. \A m \in Names : ~Counting(m)' /\ ~Culling(m)' /\ ~Counting(m) /\ ~Culling(m)
  BY <1>1, <1>3 DEF Counting, Culling
<1>8. \A m \in Names : Due(m)' => Due(m)
  BY <1>1, <1>4, <1>7 DEF Due
<1> QED
  BY <1>1, <1>5, <1>6, <1>7, <1>8, Harmless

\* What becomes of spent when one of its counts changes.
LEMMA SpentOK ==
  ASSUME TypeOK, NEW n \in Names, NEW k \in Nat,
         spent' = [spent EXCEPT ![n].excused = @ + k]
  PROVE  /\ spent' \in [Names -> SpentRecord]
         /\ spent'[n].excused = spent[n].excused + k
         /\ spent'[n].failed = spent[n].failed /\ spent'[n].culled = spent[n].culled
         /\ \A m \in Names \ {n} : spent'[m] = spent[m]
BY DEF TypeOK, SpentRecord

LEMMA Numbers ==
  ASSUME TypeOK
  PROVE  \A n \in Names :
           /\ job[n].retries \in Nat /\ job[n].uid \in Nat /\ js[n].uid \in Nat
           /\ spent[n].culled \in Int /\ spent[n].failed \in Nat /\ spent[n].excused \in Nat
BY RayConstantsOK DEF TypeOK, RayJobRecord, JobSetRecord, SpentRecord

\* A failed JobSet is counted only if it is due, or the copy is out of date.
LEMMA CheckStep ==
  ASSUME RayInv, Check
  PROVE  RayInv'
<1> USE DEF RayInv
<1>0. PICK n \in Names : n = rec.n
  BY RecOK DEF Check, At, RecType
<1>1. rec.pc = "check" /\ rec \in RecType /\ n = rec.n
      /\ UNCHANGED <<job, uids, js, news, cache, queue, budget>>
  BY <1>0, RecOK DEF Check, At, RecType
<1>2. CASE UNCHANGED spent /\ (Goto("ensure") \/ Goto("idle"))
  <2>1. /\ rec' = Idle \/ rec' \in RecType
        /\ rec'.pc \in {"idle", "ensure"}
        /\ rec'.pc # "idle" => /\ rec'.n = rec.n /\ rec'.uid = rec.uid
                              /\ rec'.fresh = rec.fresh /\ rec'.retries = rec.retries
    BY <1>1, <1>2, GotoOK
  <2>2. TypeOK' /\ UidInv' /\ RecInv'
    BY <1>1, <1>2, <2>1 DEF TypeOK, UidInv, RecInv, RecType
  <2>3. \A m \in Names : ~Counting(m)' /\ ~Culling(m)' /\ ~Counting(m) /\ ~Culling(m)
    BY <1>1, <2>1 DEF Counting, Culling
  <2> QED
    BY <1>1, <1>2, <2>2, <2>3, Harmless DEF Due
<1>3. ASSUME NEW k \in Nat, Goto("count"), rec.retries <= MaxWorkerRetries,
             spent' = [spent EXCEPT ![n].excused = @ + k],
             k >= 1 \/ (js[n].uid = rec.uid /\ js[n].st = "failed" /\ ~js[n].dying)
      PROVE  RayInv'
  <2>1. /\ rec' = Idle \/ rec' \in RecType
        /\ rec'.pc = "count" /\ rec'.n = n /\ rec'.uid = rec.uid
        /\ rec'.fresh = rec.fresh /\ rec'.retries = rec.retries
    BY <1>1, <1>3, GotoOK
  <2>2. TypeOK'
    BY <1>1, <1>3, <2>1, SpentOK DEF TypeOK, RecType
  <2>3. UidInv' /\ RecInv'
    BY <1>1, <1>3, <2>1 DEF UidInv, RecInv
  <2>4. \A m \in Names : ~Counting(m) /\ ~Culling(m) /\ ~Culling(m)'
    BY <1>1, <2>1 DEF Counting, Culling
  <2>5. \A m \in Names \ {n} : ~Counting(m)' /\ (Due(m)' => Due(m))
    BY <1>1, <2>1, <2>4 DEF Counting, Due
  <2>6. Due(n)' => Due(n) /\ ~Counting(n)'
    BY <1>1, <2>4 DEF Due
  <2>7. Counting(n)' => Due(n) \/ k >= 1
    <3>1. rec.fresh => job[n].uid = rec.uid /\ job[n].retries = rec.retries
      BY <1>1 DEF RecInv
    <3>2. rec.uid # 0
      BY <1>1 DEF RecType
    <3> QED
      BY <1>3, <2>1, <2>4, <3>1, <3>2 DEF Counting, Due
  <2>8. CullInv'
    BY <1>1, <1>3, <2>4, SpentOK, Numbers DEF CullInv, One
  <2>9. DueInv'
    <3>1. job[n].retries + One(Counting(n)') + One(Due(n)') <= spent'[n].failed + spent'[n].excused
      <4>1. spent'[n].failed = spent[n].failed /\ spent'[n].excused = spent[n].excused + k
        BY <1>3, SpentOK
      <4>2. job[n].retries + One(Due(n)) <= spent[n].failed + spent[n].excused
        BY <2>4, Numbers DEF DueInv, One
      <4> QED
        BY <2>6, <2>7, <4>1, <4>2, Numbers DEF One
    <3>2. \A m \in Names \ {n} :
            job[m].retries + One(Counting(m)') + One(Due(m)') <= spent'[m].failed + spent'[m].excused
      BY <1>3, <2>4, <2>5, SpentOK, Numbers DEF DueInv, One
    <3> QED
      BY <1>1, <3>1, <3>2 DEF DueInv, One
  <2> QED
    BY <2>2, <2>3, <2>8, <2>9
<1> DEFINE c == cache[n]
           k == IF rec.retries <= MaxWorkerRetries /\ (c # js[n] \/ c.dying) THEN 1 ELSE 0
<1>4. CASE OwnAndFailed(c, rec.uid)
  <2>1. spent' = [spent EXCEPT ![n].excused = @ + k]
    BY <1>1, <1>4 DEF Check
  <2>2. CASE rec.retries <= MaxWorkerRetries
    <3>1. Goto("count")
      <4>1. rec.retries \in Int /\ MaxWorkerRetries \in Int
        BY <1>1, RayConstantsOK DEF RecType
      <4> QED
        BY <1>1, <1>4, <2>2, <4>1 DEF Check, AfterFailure
    <3>2. k \in Nat /\ (k >= 1 \/ (js[n].uid = rec.uid /\ js[n].st = "failed" /\ ~js[n].dying))
      BY <1>4, <2>2 DEF OwnAndFailed
    <3> HIDE DEF k
    <3> QED
      BY <1>3, <2>1, <2>2, <3>1, <3>2
  <2>3. CASE ~(rec.retries <= MaxWorkerRetries)
    <3>1. Goto("idle")
      <4>1. rec.retries > MaxWorkerRetries
        BY <1>1, <2>3, RayConstantsOK DEF RecType
      <4> QED
        BY <1>1, <1>4, <4>1 DEF Check, AfterFailure
    <3>2. UNCHANGED spent
      BY <1>1, <2>1, <2>3 DEF TypeOK, SpentRecord
    <3> QED
      BY <1>2, <3>1, <3>2
  <2> QED
    BY <2>2, <2>3
<1>5. CASE ~OwnAndFailed(c, rec.uid)
  BY <1>1, <1>2, <1>5 DEF Check
<1> QED
  BY <1>4, <1>5

\* A step is checked at the one name it changes.
LEMMA OnlyAt ==
  ASSUME RayInv, TypeOK', NEW n \in Names,
         \A m \in Names \ {n} :
           /\ job'[m] = job[m] /\ spent'[m] = spent[m]
           /\ Counting(m)' => Counting(m)
           /\ Culling(m)' => Culling(m)
           /\ Due(m)' => Due(m),
         spent'[n].culled + One(Culling(n)') <= MaxWorkerRetries,
         job'[n].uid # 0 => spent'[n].culled + One(Culling(n)') <= job'[n].retries,
         job'[n].retries + One(Counting(n)') + One(Due(n)') <= spent'[n].failed + spent'[n].excused
  PROVE  CullInv' /\ DueInv'
<1> USE DEF RayInv
<1>1. CullInv'
  <2>1. \A m \in Names \ {n} :
          LET culled == spent'[m].culled + One(Culling(m)')
          IN  culled <= MaxWorkerRetries /\ (job'[m].uid # 0 => culled <= job'[m].retries)
    BY Numbers, RayConstantsOK DEF CullInv, One
  <2> QED
    BY <2>1 DEF CullInv, One
<1>2. DueInv'
  <2>1. \A m \in Names \ {n} :
          job'[m].retries + One(Counting(m)') + One(Due(m)') <= spent'[m].failed + spent'[m].excused
    BY Numbers DEF DueInv, One
  <2> QED
    BY <2>1 DEF DueInv, One
<1> QED
  BY <1>1, <1>2

\* Counted, whether or not the answer arrives.
LEMMA CountStep ==
  ASSUME RayInv, Count
  PROVE  RayInv'
<1> USE DEF RayInv
<1>0. PICK n \in Names : n = rec.n
  BY RecOK DEF Count, At, RecType
<1>1. /\ rec.pc = "count" /\ rec.fresh /\ rec \in RecType /\ n = rec.n
      /\ job' = [job EXCEPT ![n].retries = rec.retries + 1]
      /\ queue' = queue \union {n}
      /\ UNCHANGED <<uids, js, news, cache>>
  BY <1>0, RecOK DEF Count, At, Unchanged
<1>2. /\ rec.retries \in 0..MaxWorkerRetries /\ job[n].retries = rec.retries
      /\ job[n].uid = rec.uid /\ job[n].uid # 0
  BY <1>1, RayConstantsOK DEF RecInv, RecType
<1>3. PICK k \in {0, 1} :
        /\ spent' = [spent EXCEPT ![n].excused = @ + k]
        /\ budget' \in [{"failures", "faults", "edits"} -> Nat]
        /\ \/ k = 0 /\ Goto(AfterCount(rec.retries))
           \/ k = 1 /\ Goto("idle")
  <2>1. CASE Goto(AfterCount(rec.retries)) /\ UNCHANGED <<budget, spent>>
    <3>1. spent' = [spent EXCEPT ![n].excused = @ + 0]
      BY <2>1 DEF TypeOK, SpentRecord
    <3> QED
      BY <2>1, <3>1 DEF TypeOK
  <2>2. CASE /\ Goto("idle") /\ Spend("faults")
             /\ spent' = [spent EXCEPT ![n].excused = @ + 1]
    BY <2>2, SpendOK
  <2> QED
    BY <1>1, <2>1, <2>2 DEF Count
<1>k. k \in Nat
  BY <1>3
<1>4. PICK pc \in {"idle", "cull"} :
        /\ Goto(pc)
        /\ pc = "cull" => rec.retries < MaxWorkerRetries
        /\ pc = "idle" => k = 1 \/ rec.retries = MaxWorkerRetries
  BY <1>2, <1>3, RayConstantsOK DEF AfterCount
<1>5. /\ rec' = Idle \/ rec' \in RecType
      /\ rec'.pc = pc
      /\ pc = "cull" => /\ rec'.n = n /\ rec'.uid = rec.uid
                       /\ rec'.fresh = rec.fresh /\ rec'.retries = rec.retries
  BY <1>1, <1>4, GotoOK
<1>6. /\ job' \in [Names -> RayJobRecord]
      /\ job'[n].retries = rec.retries + 1 /\ job'[n].uid = job[n].uid
      /\ \A m \in Names \ {n} : job'[m] = job[m]
  BY <1>1, <1>2, RayConstantsOK DEF TypeOK, RayJobRecord
<1>7. TypeOK'
  BY <1>1, <1>3, <1>5, <1>6, <1>k, SpentOK DEF TypeOK, RecType
<1>8. UidInv'
  BY <1>1, <1>2, <1>6 DEF UidInv
<1>9. RecInv'
  BY <1>1, <1>4, <1>5 DEF RecInv
<1>10. /\ Counting(n) /\ ~Counting(n)' /\ ~Culling(n) /\ ~Due(n)
       /\ Culling(n)' <=> pc = "cull"
       /\ \A m \in Names \ {n} : ~Counting(m)' /\ ~Counting(m) /\ ~Culling(m)' /\ ~Culling(m)
  BY <1>1, <1>4, <1>5 DEF Counting, Culling, Due
<1>11. \A m \in Names \ {n} : Due(m)' => Due(m)
  BY <1>1, <1>6, <1>10 DEF Due
<1>12. Due(n)' => k = 1
  BY <1>2, <1>4, <1>6, <1>10, RayConstantsOK DEF Due
<1>13. job'[n].retries + One(Counting(n)') + One(Due(n)') <= spent'[n].failed + spent'[n].excused
  <2>1. rec.retries + 1 <= spent[n].failed + spent[n].excused
    BY <1>2, <1>10, Numbers DEF DueInv, One
  <2>2. spent'[n].failed = spent[n].failed /\ spent'[n].excused = spent[n].excused + k
    BY <1>3, <1>k, SpentOK
  <2> QED
    BY <1>2, <1>3, <1>6, <1>10, <1>12, <2>1, <2>2, Numbers DEF One
<1>14. /\ spent'[n].culled + One(Culling(n)') <= MaxWorkerRetries
       /\ spent'[n].culled + One(Culling(n)') <= job'[n].retries
  <2>1. spent[n].culled <= rec.retries
    BY <1>2, <1>10, Numbers DEF CullInv, One
  <2>2. spent'[n].culled = spent[n].culled
    BY <1>3, <1>k, SpentOK
  <2> QED
    BY <1>2, <1>4, <1>6, <1>10, <2>1, <2>2, Numbers, RayConstantsOK DEF One
<1>15. \A m \in Names \ {n} : spent'[m] = spent[m]
  BY <1>3, <1>k, SpentOK
<1>16. CullInv' /\ DueInv'
  BY <1>6, <1>7, <1>10, <1>11, <1>13, <1>14, <1>15, OnlyAt
<1> QED
  BY <1>7, <1>8, <1>9, <1>16

\* The deletion that was counted.
LEMMA CullStep ==
  ASSUME RayInv, Cull
  PROVE  RayInv'
<1> USE DEF RayInv
<1>0. PICK n \in Names : n = rec.n
  BY RecOK DEF Cull, At, RecType
<1>1. /\ rec.pc = "cull" /\ n = rec.n /\ DeleteByName(n) /\ Return
      /\ UNCHANGED <<job, uids, cache>>
  BY <1>0 DEF Cull, At
<1>2. PICK k \in {0, 1} : spent' = [spent EXCEPT ![n].culled = @ + k]
  BY <1>1 DEF Cull
<1>3. Culling(n) /\ ~Counting(n)
      /\ \A m \in Names \ {n} : ~Culling(m) /\ ~Counting(m)
  BY <1>1 DEF Culling, Counting
<1>4. /\ spent[n].culled + 1 <= MaxWorkerRetries
      /\ job[n].uid # 0 => spent[n].culled + 1 <= job[n].retries
  BY <1>3 DEF CullInv, One
<1>5. /\ spent'[n].culled = spent[n].culled + k
      /\ spent'[n].failed = spent[n].failed /\ spent'[n].excused = spent[n].excused
      /\ \A m \in Names \ {n} : spent'[m] = spent[m]
  BY <1>2 DEF TypeOK, SpentRecord
<1>6. spent' \in [Names -> SpentRecord]
  <2>1. spent[n].culled + k \in -1..MaxWorkerRetries + 1
    BY <1>4, RayConstantsOK DEF TypeOK, SpentRecord
  <2> QED
    BY <1>2, <2>1 DEF TypeOK, SpentRecord
<1>7. /\ rec' = Idle /\ rec'.pc = "idle" /\ queue' \subseteq Names
      /\ budget' \in [{"failures", "faults", "edits"} -> Nat]
  BY <1>1, ReturnOK
<1>8. /\ js' \in [Names -> JobSetRecord] /\ news' \subseteq Names
      /\ js'[n].uid = 0 \/ js'[n].dying
      /\ js'[n].uid <= uids[n]
      /\ \A m \in Names \ {n} : js'[m] = js[m]
  BY <1>1, RemoveOK
<1>9. TypeOK'
  BY <1>1, <1>6, <1>7, <1>8 DEF TypeOK
<1>10. UidInv' /\ RecInv'
  BY <1>1, <1>7, <1>8 DEF UidInv, RecInv
<1>11. /\ \A m \in Names : ~Counting(m)' /\ ~Culling(m)'
       /\ ~Due(n)' /\ \A m \in Names \ {n} : Due(m)' => Due(m)
  BY <1>1, <1>3, <1>7, <1>8 DEF Counting, Culling, Due
<1>12. job[n].retries <= spent[n].failed + spent[n].excused
  BY Numbers DEF DueInv, One
<1>13. CullInv' /\ DueInv'
  <2>1. job'[n].retries + One(Counting(n)') + One(Due(n)') <= spent'[n].failed + spent'[n].excused
    BY <1>1, <1>5, <1>11, <1>12, Numbers DEF One
  <2>2. /\ spent'[n].culled + One(Culling(n)') <= MaxWorkerRetries
        /\ job'[n].uid # 0 => spent'[n].culled + One(Culling(n)') <= job'[n].retries
    BY <1>1, <1>4, <1>5, <1>11, Numbers, RayConstantsOK DEF One
  <2> QED
    BY <1>1, <1>5, <1>9, <1>11, <2>1, <2>2, OnlyAt
<1> QED
  BY <1>9, <1>10, <1>13

\* The reconcile of n is given up: what was counted and not culled is excused.
LEMMA GivenUp ==
  ASSUME RayInv, TypeOK', UNCHANGED <<job, js>>, rec'.pc = "idle",
         NEW n \in Names, rec.pc # "idle" => rec.n = n,
         spent' = [spent EXCEPT ![n].excused = @ + IF rec.pc = "cull" THEN 1 ELSE 0]
  PROVE  CullInv' /\ DueInv'
<1> USE DEF RayInv
<1>1. PICK k \in Nat : /\ spent' = [spent EXCEPT ![n].excused = @ + k]
                       /\ rec.pc = "cull" => k = 1
  OBVIOUS
<1>2. /\ spent'[n].culled = spent[n].culled
      /\ spent'[n].failed = spent[n].failed /\ spent'[n].excused = spent[n].excused + k
      /\ \A m \in Names \ {n} : spent'[m] = spent[m]
  BY <1>1, SpentOK
<1>3. \A m \in Names : ~Counting(m)' /\ ~Culling(m)'
  BY DEF Counting, Culling
<1>4. \A m \in Names \ {n} : ~Counting(m) /\ ~Culling(m) /\ (Due(m)' => Due(m))
  BY DEF Counting, Culling, Due
<1>5. Due(n)' => Due(n) \/ Counting(n) \/ k = 1
  BY <1>1 DEF Due, Culling
<1>6. /\ spent[n].culled <= MaxWorkerRetries
      /\ job[n].uid # 0 => spent[n].culled <= job[n].retries
  BY Numbers, RayConstantsOK DEF CullInv, One
<1>7. job[n].retries + One(Counting(n)) + One(Due(n)) <= spent[n].failed + spent[n].excused
  BY DEF DueInv
<1>8. job'[n].retries + One(Counting(n)') + One(Due(n)') <= spent'[n].failed + spent'[n].excused
  BY <1>2, <1>3, <1>5, <1>7, Numbers DEF One
<1>9. /\ spent'[n].culled + One(Culling(n)') <= MaxWorkerRetries
      /\ job'[n].uid # 0 => spent'[n].culled + One(Culling(n)') <= job'[n].retries
  BY <1>2, <1>3, <1>6, Numbers, RayConstantsOK DEF One
<1> QED
  BY <1>2, <1>3, <1>4, <1>8, <1>9, OnlyAt

LEMMA GiveUpSteps ==
  ASSUME RayInv, CallFails \/ Crash
  PROVE  RayInv'
<1> USE DEF RayInv
<1>1. ASSUME CallFails PROVE RayInv'
  <2>0. PICK n \in Names : n = rec.n
    BY <1>1, RecOK DEF CallFails, At, RecType
  <2>1. /\ rec.pc # "idle" /\ Goto("idle") /\ queue' = queue \union {n}
        /\ Spend("faults") /\ UNCHANGED <<job, uids, js, news, cache>>
        /\ spent' = [spent EXCEPT ![n].excused = @ + IF rec.pc = "cull" THEN 1 ELSE 0]
    BY <1>1, <2>0 DEF CallFails, At, Fail, Requeued
  <2>2. rec' = Idle /\ rec'.pc = "idle"
    BY <2>1 DEF Goto, Idle
  <2>3. spent' \in [Names -> SpentRecord]
    <3>1. PICK k \in Nat : spent' = [spent EXCEPT ![n].excused = @ + k]
      BY <2>1
    <3> QED
      BY <3>1, SpentOK
  <2>4. TypeOK'
    BY <2>1, <2>2, <2>3, SpendOK DEF TypeOK
  <2>5. UidInv' /\ RecInv'
    BY <2>1, <2>2 DEF UidInv, RecInv
  <2> QED
    BY <2>0, <2>1, <2>2, <2>4, <2>5, GivenUp
<1>2. ASSUME Crash PROVE RayInv'
  <2>1. /\ Spend("faults") /\ rec' = Idle /\ rec'.pc = "idle" /\ cache' = js /\ news' = {}
        /\ queue' \subseteq Names
        /\ spent' = [m \in Names |-> IF rec.pc = "cull" /\ rec.n = m
                                     THEN [spent[m] EXCEPT !.excused = @ + 1] ELSE spent[m]]
        /\ UNCHANGED <<job, uids, js>>
    BY <1>2 DEF Crash, At, Idle
  <2>2. CASE rec.pc = "idle"
    <3>1. UNCHANGED spent
      BY <2>1, <2>2 DEF TypeOK
    <3>2. TypeOK'
      BY <2>1, <3>1, SpendOK DEF TypeOK
    <3>3. UidInv' /\ RecInv'
      BY <2>1 DEF UidInv, RecInv
    <3>4. \A m \in Names : ~Counting(m)' /\ ~Culling(m)' /\ ~Counting(m) /\ ~Culling(m)
      BY <2>1, <2>2 DEF Counting, Culling
    <3> QED
      BY <2>1, <3>1, <3>2, <3>3, <3>4, Harmless DEF Due
  <2>3. CASE rec.pc # "idle"
    <3>0. PICK n \in Names : n = rec.n
      BY <2>3, RecOK DEF RecType
    <3>1. spent' = [spent EXCEPT ![n].excused = @ + IF rec.pc = "cull" THEN 1 ELSE 0]
      <4>1. CASE rec.pc = "cull"
        BY <2>1, <3>0, <4>1 DEF TypeOK
      <4>2. CASE rec.pc # "cull"
        <5>1. spent' = spent
          BY <2>1, <4>2 DEF TypeOK
        <5>2. spent = [spent EXCEPT ![n].excused = @ + 0]
          BY DEF TypeOK, SpentRecord
        <5> QED
          BY <4>2, <5>1, <5>2
      <4> QED
        BY <4>1, <4>2
    <3>2. spent' \in [Names -> SpentRecord]
      <4>1. PICK k \in Nat : spent' = [spent EXCEPT ![n].excused = @ + k]
        BY <3>1
      <4> QED
        BY <4>1, SpentOK
    <3>3. TypeOK'
      BY <2>1, <3>2, SpendOK DEF TypeOK
    <3>4. UidInv' /\ RecInv'
      BY <2>1 DEF UidInv, RecInv
    <3> QED
      BY <2>1, <3>0, <3>1, <3>3, <3>4, GivenUp
  <2> QED
    BY <2>2, <2>3
<1> QED
  BY <1>1, <1>2

-----------------------------------------------------------------------------
(* The API server and people *)

\* JobSets go, and workers join; the informer catches up.
LEMMA JobSetSteps ==
  ASSUME RayInv, NEW n \in Names,
         SyncCache(n) \/ Collect(n) \/ Finalize(n) \/ WorkersJoin(n) \/ OperatorDeletes(n)
  PROVE  RayInv'
<1> USE DEF RayInv
<1>1. UNCHANGED <<job, uids, rec, spent>>
  BY DEF SyncCache, Collect, Finalize, WorkersJoin, OperatorDeletes
<1>2. /\ js' \in [Names -> JobSetRecord] /\ news' \subseteq Names
      /\ \A m \in Names \ {n} : js'[m] = js[m]
      /\ js'[n].uid <= uids[n]
      /\ js'[n] = js[n] \/ js'[n].uid = 0 \/ js'[n].dying \/ js'[n].st # "failed"
  <2>1. CASE SyncCache(n)
    BY <2>1 DEF SyncCache, TypeOK, UidInv
  <2>2. CASE Collect(n) \/ OperatorDeletes(n)
    BY <2>2, RemoveOK DEF Collect, OperatorDeletes
  <2>3. CASE Finalize(n)
    BY <2>3, RecordsOK DEF Finalize, Put, TypeOK, UidInv
  <2>4. CASE WorkersJoin(n)
    <3> DEFINE r == [js[n] EXCEPT !.st = "up"]
    <3>1. r \in JobSetRecord /\ r.uid = js[n].uid /\ r.st = "up"
      <4>1. js[n] \in JobSetRecord
        BY DEF TypeOK
      <4> QED
        BY <4>1 DEF JobSetRecord
    <3> HIDE DEF r
    <3>2. js' = [js EXCEPT ![n] = r] /\ news' = news \union {n}
      BY <2>4 DEF WorkersJoin, Put, r
    <3> QED
      BY <3>1, <3>2 DEF TypeOK, UidInv
  <2> QED
    BY <2>1, <2>2, <2>3, <2>4
<1>3. /\ cache' \in [Names -> JobSetRecord] /\ queue' \subseteq Names
      /\ budget' \in [{"failures", "faults", "edits"} -> Nat]
  BY SpendOK DEF SyncCache, Mapped, Collect, Finalize, WorkersJoin, OperatorDeletes, TypeOK
<1>4. TypeOK'
  BY <1>1, <1>2, <1>3 DEF TypeOK
<1>5. UidInv' /\ RecInv'
  BY <1>1, <1>2 DEF UidInv, RecInv
<1>6. \A m \in Names : (Counting(m)' <=> Counting(m)) /\ (Culling(m)' <=> Culling(m))
  BY <1>1 DEF Counting, Culling
<1>7. \A m \in Names : Due(m)' => Due(m)
  BY <1>1, <1>2, <1>6 DEF Due
<1> QED
  BY <1>1, <1>4, <1>5, <1>6, <1>7, Harmless

\* A failure falls due, and is counted where it does.
LEMMA FailureStep ==
  ASSUME RayInv, NEW n \in Names, WorkersFail(n)
  PROVE  RayInv'
<1> USE DEF RayInv
<1> DEFINE r == [js[n] EXCEPT !.st = "failed"]
<1>1. r \in JobSetRecord /\ r.uid = js[n].uid
  <2>1. js[n] \in JobSetRecord
    BY DEF TypeOK
  <2> QED
    BY <2>1 DEF JobSetRecord
<1>2. /\ js' = [js EXCEPT ![n] = r] /\ news' = news \union {n} /\ Spend("failures")
      /\ js[n].st # "failed"
      /\ UNCHANGED <<job, uids, cache, queue, rec>>
  BY DEF WorkersFail, Put
<1> HIDE DEF r
<1>3. PICK k \in {0, 1} : /\ spent' = [spent EXCEPT ![n].failed = @ + k]
                          /\ js[n].uid = job[n].uid => k = 1
  BY DEF WorkersFail
<1>4. /\ spent' \in [Names -> SpentRecord]
      /\ spent'[n].failed = spent[n].failed + k
      /\ spent'[n].excused = spent[n].excused /\ spent'[n].culled = spent[n].culled
      /\ \A m \in Names \ {n} : spent'[m] = spent[m]
  BY <1>3 DEF TypeOK, SpentRecord
<1>5. /\ js' \in [Names -> JobSetRecord] /\ js'[n].uid = js[n].uid
      /\ \A m \in Names \ {n} : js'[m] = js[m]
  BY <1>1, <1>2 DEF TypeOK
<1>6. TypeOK'
  BY <1>2, <1>4, <1>5, SpendOK DEF TypeOK
<1>7. UidInv' /\ RecInv'
  BY <1>2, <1>5 DEF UidInv, RecInv
<1>8. \A m \in Names : (Counting(m)' <=> Counting(m)) /\ (Culling(m)' <=> Culling(m))
  BY <1>2 DEF Counting, Culling
<1>9. \A m \in Names \ {n} : Due(m)' => Due(m)
  BY <1>2, <1>5, <1>8 DEF Due
<1>10. Due(n)' => k = 1
  BY <1>2, <1>3, <1>5 DEF Due
<1>11. job'[n].retries + One(Counting(n)') + One(Due(n)') <= spent'[n].failed + spent'[n].excused
  <2>1. job[n].retries + One(Counting(n)) <= spent[n].failed + spent[n].excused
    BY Numbers DEF DueInv, One
  <2> QED
    BY <1>2, <1>3, <1>4, <1>8, <1>10, <2>1, Numbers DEF One
<1>12. /\ spent'[n].culled + One(Culling(n)') <= MaxWorkerRetries
       /\ job'[n].uid # 0 => spent'[n].culled + One(Culling(n)') <= job'[n].retries
  BY <1>2, <1>4, <1>8 DEF CullInv, One
<1>13. CullInv' /\ DueInv'
  BY <1>2, <1>4, <1>6, <1>8, <1>9, <1>11, <1>12, OnlyAt
<1> QED
  BY <1>6, <1>7, <1>13

\* A write that leaves the UID and the annotation as they are, or takes the RayJob away.
LEMMA PlainWrite ==
  ASSUME RayInv, NEW n \in Names, NEW r \in RayJobRecord, Write(n, r),
         (r.uid = job[n].uid /\ r.retries = job[n].retries) \/ r = NoRayJob,
         UNCHANGED <<uids, js, news, cache, spent>>,
         budget' \in [{"failures", "faults", "edits"} -> Nat]
  PROVE  RayInv'
<1> USE DEF RayInv
<1>1. \A m \in Names : uids[m] <= uids'[m] /\ uids' \in [Names -> 0..MaxUid]
  BY RayConstantsOK DEF TypeOK
<1>2. /\ job' \in [Names -> RayJobRecord] /\ queue' \subseteq Names
      /\ rec' = Idle \/ rec' \in RecType
      /\ job'[n] = r /\ \A m \in Names \ {n} : job'[m] = job[m]
      /\ RecInv'
      /\ \A m \in Names : Culling(m)' <=> Culling(m)
      /\ ~Counting(n)'
      /\ \A m \in Names \ {n} : (Counting(m)' <=> Counting(m)) /\ (Due(m)' <=> Due(m))
  BY <1>1, WriteOK DEF TypeOK
<1>3. TypeOK'
  BY <1>2 DEF TypeOK, RecType
<1>4. UidInv'
  BY <1>2, RecordsOK, RayConstantsOK DEF UidInv, TypeOK
<1>5. Due(n)' => Due(n) \/ Counting(n)
  BY <1>2, RecordsOK DEF Due
<1>6. /\ spent[n].culled + One(Culling(n)) <= MaxWorkerRetries
      /\ job[n].uid # 0 => spent[n].culled + One(Culling(n)) <= job[n].retries
      /\ job[n].retries + One(Counting(n)) + One(Due(n)) <= spent[n].failed + spent[n].excused
  BY DEF CullInv, DueInv
<1>7. /\ spent'[n].culled + One(Culling(n)') <= MaxWorkerRetries
      /\ job'[n].uid # 0 => spent'[n].culled + One(Culling(n)') <= job'[n].retries
  BY <1>2, <1>6, RecordsOK DEF One
<1>8. job'[n].retries + One(Counting(n)') + One(Due(n)') <= spent'[n].failed + spent'[n].excused
  <2>1. Due(n)' => job'[n].retries = job[n].retries
    BY <1>2, RecordsOK DEF Due
  <2>2. job'[n].retries <= job[n].retries
    BY <1>2, RecordsOK, Numbers
  <2>3. One(Counting(n)') = 0
    BY <1>2 DEF One
  <2>4. CASE Due(n)'
    <3>1. job[n].retries + 1 <= spent[n].failed + spent[n].excused
      <4>1. CASE Counting(n)
        BY <1>6, <4>1, Numbers DEF One
      <4>2. CASE Due(n)
        BY <1>6, <4>2, Numbers DEF One
      <4> QED
        BY <1>5, <2>4, <4>1, <4>2
    <3>2. One(Due(n)') = 1
      BY <2>4 DEF One
    <3>3. job'[n].retries = job[n].retries /\ spent' = spent
      BY <2>1, <2>4
    <3> DEFINE lhs == job'[n].retries + One(Counting(n)') + One(Due(n)')
    <3>4. lhs = job[n].retries + 0 + 1
      BY <2>3, <3>2, <3>3
    <3> HIDE DEF lhs
    <3>5. lhs <= spent'[n].failed + spent'[n].excused
      BY <3>1, <3>3, <3>4, Numbers
    <3> QED
      BY <3>5 DEF lhs
  <2>5. CASE ~Due(n)'
    <3>1. One(Due(n)') = 0 /\ One(Counting(n)) \in Nat /\ One(Due(n)) \in Nat
      BY <2>5 DEF One
    <3>2. job'[n].retries \in Nat
      BY <1>2, RecordsOK, Numbers
    <3> QED
      BY <1>6, <2>2, <2>3, <3>1, <3>2, Numbers
  <2> QED
    BY <2>4, <2>5
<1> QED
  BY <1>2, <1>3, <1>4, <1>7, <1>8, OnlyAt

\* A count that starts over.
LEMMA FreshStart ==
  ASSUME RayInv, NEW n \in Names, NEW r \in RayJobRecord, Write(n, r), r.retries = 0,
         uids' \in [Names -> 0..MaxUid], \A m \in Names : uids[m] <= uids'[m],
         r.uid <= uids'[n], js[n].uid # 0 /\ js[n].uid = r.uid => r.uid = job[n].uid,
         spent' = [spent EXCEPT ![n] = Afresh(n)],
         UNCHANGED <<js, news, cache>>,
         budget' \in [{"failures", "faults", "edits"} -> Nat]
  PROVE  RayInv'
<1> USE DEF RayInv
<1>2. /\ job' \in [Names -> RayJobRecord] /\ queue' \subseteq Names
      /\ rec' = Idle \/ rec' \in RecType
      /\ job'[n] = r /\ \A m \in Names \ {n} : job'[m] = job[m]
      /\ RecInv'
      /\ \A m \in Names : Culling(m)' <=> Culling(m)
      /\ ~Counting(n)'
      /\ \A m \in Names \ {n} : (Counting(m)' <=> Counting(m)) /\ (Due(m)' <=> Due(m))
  BY WriteOK
<1> DEFINE f == IF js[n].st = "failed" /\ js[n].uid = job[n].uid THEN 1 ELSE 0
           u == IF rec.pc = "cull" /\ rec.n = n THEN -1 ELSE 0
<1>3. Afresh(n) = [failed |-> f, culled |-> u, excused |-> 0]
  BY DEF Afresh
<1>4. /\ f \in {0, 1} /\ (js[n].st = "failed" /\ js[n].uid = job[n].uid => f = 1)
      /\ u \in {-1, 0} /\ u + One(Culling(n)) = 0
  BY DEF One, Culling
<1> HIDE DEF f, u
<1>5. Afresh(n) \in SpentRecord
  BY <1>3, <1>4, RayConstantsOK DEF SpentRecord
<1>6. /\ spent' \in [Names -> SpentRecord] /\ spent'[n] = Afresh(n)
      /\ \A m \in Names \ {n} : spent'[m] = spent[m]
  BY <1>5 DEF TypeOK
<1>7. spent'[n].failed = f /\ spent'[n].culled = u /\ spent'[n].excused = 0
  BY <1>3, <1>6
<1>8. TypeOK'
  BY <1>2, <1>6 DEF TypeOK, RecType
<1>9. UidInv'
  <2>1. \A m \in Names : uids[m] \in Nat /\ uids'[m] \in Nat
    BY RayConstantsOK DEF TypeOK
  <2>2. \A m \in Names : js[m].uid <= uids'[m]
    BY <2>1, Numbers DEF UidInv
  <2>3. \A m \in Names \ {n} : job[m].uid <= uids'[m]
    BY <2>1, Numbers DEF UidInv
  <2> QED
    BY <1>2, <2>2, <2>3 DEF UidInv
<1>10. Due(n)' => f = 1
  BY <1>2, <1>4 DEF Due
<1>11. /\ spent'[n].culled + One(Culling(n)') <= MaxWorkerRetries
       /\ job'[n].uid # 0 => spent'[n].culled + One(Culling(n)') <= job'[n].retries
  BY <1>2, <1>4, <1>7, RayConstantsOK DEF One
<1>12. job'[n].retries + One(Counting(n)') + One(Due(n)') <= spent'[n].failed + spent'[n].excused
  BY <1>2, <1>4, <1>7, <1>10 DEF One
<1> QED
  BY <1>2, <1>6, <1>8, <1>9, <1>11, <1>12, OnlyAt

\* RayJobs come, go and change.
LEMMA RayJobSteps ==
  ASSUME RayInv, NEW n \in Names,
         \/ Submit(n) \/ Start(n) \/ End(n) \/ Delete(n) \/ Touch(n) \/ Rearm(n) \/ Edit(n)
  PROVE  RayInv'
<1> USE DEF RayInv
<1>1. job[n] \in RayJobRecord /\ js[n] \in JobSetRecord /\ uids[n] \in 0..MaxUid
      /\ budget \in [{"failures", "faults", "edits"} -> Nat]
      /\ \A m \in Names : uids[m] \in Nat
  BY RayConstantsOK DEF TypeOK
<1>2. ASSUME NEW r, Write(n, r), UNCHANGED <<uids, js, news, cache, spent>>,
             budget' \in [{"failures", "faults", "edits"} -> Nat],
             r = [job[n] EXCEPT !.runsOn = js[n].uid] \/ r = [job[n] EXCEPT !.term = TRUE]
             \/ r = job[n] \/ (\E kind \in Kinds : r = [job[n] EXCEPT !.kind = kind])
             \/ r = NoRayJob
      PROVE  RayInv'
  <2>1. r \in RayJobRecord /\ ((r.uid = job[n].uid /\ r.retries = job[n].retries) \/ r = NoRayJob)
    <3>1. CASE r = [job[n] EXCEPT !.runsOn = js[n].uid]
      BY <1>1, <3>1 DEF RayJobRecord, JobSetRecord
    <3>2. CASE r = [job[n] EXCEPT !.term = TRUE]
      BY <1>1, <3>2 DEF RayJobRecord
    <3>3. CASE r = job[n] \/ r = NoRayJob
      BY <1>1, <3>3, RecordsOK
    <3>4. ASSUME NEW kind \in Kinds, r = [job[n] EXCEPT !.kind = kind]
          PROVE  r \in RayJobRecord /\ r.uid = job[n].uid /\ r.retries = job[n].retries
      BY <1>1, <3>4 DEF RayJobRecord
    <3> QED
      BY <1>2, <3>1, <3>2, <3>3, <3>4
  <2> QED
    BY <1>2, <2>1, PlainWrite
<1>3. CASE Start(n) \/ End(n) \/ Delete(n)
  BY <1>1, <1>2, <1>3 DEF Start, End, Delete
<1>4. CASE Touch(n) \/ Edit(n)
  BY <1>2, <1>4, SpendOK DEF Touch, Edit
<1>5. CASE Rearm(n)
  <2> DEFINE r == [job[n] EXCEPT !.retries = 0]
  <2>1. r \in RayJobRecord /\ r.retries = 0 /\ r.uid = job[n].uid
    BY <1>1, RayConstantsOK DEF RayJobRecord
  <2>2. /\ Write(n, r) /\ Spend("edits") /\ spent' = [spent EXCEPT ![n] = Afresh(n)]
        /\ UNCHANGED <<uids, js, news, cache>>
    BY <1>5 DEF Rearm
  <2> HIDE DEF r
  <2>3. r.uid <= uids'[n] /\ uids' = uids
    BY <2>1, <2>2 DEF UidInv
  <2>4. \A m \in Names : uids[m] <= uids'[m]
    BY <1>1, <2>3
  <2>5. uids' \in [Names -> 0..MaxUid] /\ budget' \in [{"failures", "faults", "edits"} -> Nat]
    BY <2>2, <2>3, SpendOK DEF TypeOK
  <2> QED
    BY <2>1, <2>2, <2>3, <2>4, <2>5, FreshStart
<1>6. CASE Submit(n)
  <2>1. PICK kind \in Kinds, d \in {"pin", "skip"} :
          Write(n, [NoRayJob EXCEPT !.uid = uids[n] + 1, !.kind = kind, !.pinned = d = "pin"])
    BY <1>6 DEF Submit
  <2> DEFINE r == [NoRayJob EXCEPT !.uid = uids[n] + 1, !.kind = kind, !.pinned = d = "pin"]
  <2>2. /\ uids' = [uids EXCEPT ![n] = @ + 1] /\ uids[n] < MaxUid
        /\ spent' = [spent EXCEPT ![n] = Afresh(n)]
        /\ UNCHANGED <<js, news, cache, budget>>
    BY <1>6 DEF Submit
  <2>3. r \in RayJobRecord /\ r.retries = 0 /\ r.uid = uids[n] + 1
    <3> DEFINE u == uids[n] + 1
               p == d = "pin"
    <3>1. u \in 0..MaxUid /\ p \in BOOLEAN
      BY <1>1, <2>2, RayConstantsOK
    <3> HIDE DEF u, p
    <3>2. [NoRayJob EXCEPT !.uid = u, !.kind = kind, !.pinned = p] \in RayJobRecord
      BY <3>1, RecordsOK DEF RayJobRecord
    <3>3. /\ [NoRayJob EXCEPT !.uid = u, !.kind = kind, !.pinned = p].uid = u
          /\ [NoRayJob EXCEPT !.uid = u, !.kind = kind, !.pinned = p].retries = 0
      BY RecordsOK DEF RayJobRecord
    <3> QED
      BY <3>2, <3>3 DEF u, p
  <2> HIDE DEF r
  <2>4. Write(n, r)
    BY <2>1 DEF r
  <2>5. /\ uids' \in [Names -> 0..MaxUid] /\ uids'[n] = uids[n] + 1
        /\ \A m \in Names : uids[m] <= uids'[m]
    BY <1>1, <2>2, RayConstantsOK DEF TypeOK
  <2>6. js[n].uid # r.uid
    BY <1>1, <2>3, Numbers DEF UidInv
  <2>7. r.uid <= uids'[n] /\ budget' \in [{"failures", "faults", "edits"} -> Nat]
    BY <1>1, <2>2, <2>3, <2>5
  <2> QED
    BY <2>2, <2>3, <2>4, <2>5, <2>6, <2>7, FreshStart
<1> QED
  BY <1>3, <1>4, <1>5, <1>6

LEMMA RayStep == RayInv /\ [Next]_vars => RayInv'
<1> SUFFICES ASSUME RayInv, [Next]_vars PROVE RayInv'
  OBVIOUS
<1>1. CASE UNCHANGED vars
  <2>1. TypeOK' /\ UidInv' /\ RecInv'
    BY <1>1 DEF vars, RayInv, TypeOK, UidInv, RecInv
  <2>2. \A m \in Names : (Counting(m)' <=> Counting(m)) /\ (Culling(m)' <=> Culling(m))
    BY <1>1 DEF vars, Counting, Culling
  <2>3. \A m \in Names : Due(m)' => Due(m)
    BY <1>1, <2>2 DEF vars, Due
  <2> QED
    BY <1>1, <2>1, <2>2, <2>3, Harmless DEF vars
<1>2. CASE Step
  BY <1>2, BeginStep, CallSteps, CheckStep, CountStep, CullStep, GiveUpSteps DEF Step
<1>3. CASE Crash
  BY <1>3, GiveUpSteps
<1>4. ASSUME NEW n \in Names, Server(n) \/ People(n) PROVE RayInv'
  BY <1>4, JobSetSteps, FailureStep, RayJobSteps DEF Server, People
<1> QED
  BY <1>1, <1>2, <1>3, <1>4 DEF Next

-----------------------------------------------------------------------------
(* Theorem *)

\* Through crashes, lost replies, conflicts and stale copies the retry loop of a RayJob
\* is bounded by MaxWorkerRetries, and its annotation counts no more than what failed,
\* was lost or was out of date (handleFailedWorkerJobSet, setWorkerRetries).
THEOREM Budget == Spec => []BudgetInv
<1>1. RayInv => BudgetInv
  <2> SUFFICES ASSUME RayInv, NEW n \in Names
               PROVE  /\ TypeOK /\ spent[n].culled <= MaxWorkerRetries
                      /\ job[n].retries <= spent[n].failed + spent[n].excused
    BY DEF BudgetInv, BoundedRetries, BudgetAccounted, RayInv
  <2>1. spent[n].culled <= MaxWorkerRetries
    BY Numbers, RayConstantsOK DEF RayInv, CullInv, One
  <2>2. job[n].retries <= spent[n].failed + spent[n].excused
    BY Numbers DEF RayInv, DueInv, One
  <2> QED
    BY <2>1, <2>2 DEF RayInv
<1> QED
  BY <1>1, RayInit, RayStep, PTL DEF Spec

-----------------------------------------------------------------------------
(* A deletion hits what was counted.  Kube.Delete names no UID and the copy   *)
(* that showed the failure may be old: that the JobSet there now is the one   *)
(* that failed follows from who makes JobSets, and from when copies are read. *)

\* A reconcile of n stands at one of the calls pcs.
Doing(n, pcs) == rec.pc \in pcs /\ rec.n = n

\* UIDs and copies only get newer, and a reconcile meets no JobSet newer than its RayJob.
CopyOf(n) ==
  /\ job[n].uid \in {0, uids[n]} /\ cache[n].uid <= uids[n]
  /\ js[n].uid # 0 => cache[n].uid <= js[n].uid
  /\ rec.pc # "idle" /\ rec.n = n => js[n].uid <= rec.uid /\ cache[n].uid <= rec.uid
  /\ Doing(n, {"count", "cull"}) => js[n].uid \in {0, rec.uid}
  /\ Doing(n, {"cull"}) /\ job[n].uid = rec.uid => job[n].retries <= MaxWorkerRetries
  /\ Doing(n, {"drain"}) /\ job[n].uid = rec.uid => job[n].term

\* The informer's copy is of the JobSet that is there, and shows it failed.
Seen(n) == cache[n].st = "failed" /\ cache[n].uid = js[n].uid

\* The JobSet is not, or no longer, of the RayJob that is there.
Lost(n) == job[n].uid # js[n].uid

\* A JobSet under a copy that failed has failed too, but for one whose RayJob is gone;
\* one that is going had been seen to fail, or is unwanted.
FateOf(n) ==
  /\ js[n].uid # 0 /\ Seen(n) =>
       js[n].st = "failed" \/ (Lost(n) /\ ~(Doing(n, {"check"}) /\ rec.uid = js[n].uid))
  /\ js[n].uid # 0 /\ js[n].dying =>
       Lost(n) \/ job[n].term \/ (Seen(n) /\ js[n].st = "failed")
  /\ Doing(n, {"check"}) /\ js[n].dying /\ js[n].uid = rec.uid =>
       Lost(n) \/ (Seen(n) /\ js[n].st = "failed")
  /\ Doing(n, {"ensure"}) /\ js[n].dying /\ js[n].uid = rec.uid => Lost(n)
  /\ Doing(n, {"ensure"}) /\ js[n].uid = 0 /\ cache[n].st = "failed" /\ cache[n].uid = rec.uid =>
       job[n].uid # rec.uid
  /\ Doing(n, {"count", "cull"}) /\ js[n].uid # 0 => Seen(n) /\ js[n].st = "failed"

\* The fate of JobSets is in the bridge's hands until a person deletes or edits.
HitInv ==
  /\ budget.edits <= MaxEdits
  /\ \A n \in Names : CopyOf(n) /\ (budget.edits = MaxEdits => FateOf(n))

LEMMA HitInit == Init => HitInv
<1> SUFFICES ASSUME Init PROVE HitInv
  OBVIOUS
<1>1. rec.pc = "idle" /\ \A n \in Names : ~(js[n].uid # 0) /\ job[n].uid = 0 /\ uids[n] = 0
                                         /\ cache[n].uid = 0
  BY RecordsOK DEF Init, Idle
<1>2. \A n \in Names : CopyOf(n) /\ FateOf(n)
  BY <1>1 DEF CopyOf, FateOf, Doing
<1> QED
  BY <1>2, RayConstantsOK DEF HitInv, Init

\* A reconcile that is where it was, of the RayJob it had read.
SameRec ==
  rec'.pc = rec.pc /\ (rec.pc # "idle" => rec'.n = rec.n /\ rec'.uid = rec.uid)

\* A name the step does not touch.
LEMMA HitElsewhere ==
  ASSUME HitInv, NEW n \in Names,
         UNCHANGED <<job[n], uids[n], js[n], cache[n]>>,
         rec'.pc # "idle" /\ rec'.n = n => SameRec,
         budget'.edits = MaxEdits => budget.edits = MaxEdits
  PROVE  CopyOf(n)' /\ (budget'.edits = MaxEdits => FateOf(n)')
<1>1. CopyOf(n) /\ (budget'.edits = MaxEdits => FateOf(n))
  BY DEF HitInv
<1>2. CopyOf(n)'
  BY <1>1 DEF CopyOf, Doing, SameRec
<1>3. FateOf(n) => FateOf(n)'
  BY DEF FateOf, Doing, SameRec, Seen, Lost
<1> QED
  BY <1>1, <1>2, <1>3

\* The numbers and records that the steps compare.
LEMMA HitTypes ==
  ASSUME RayInv
  PROVE  /\ \A n \in Names : /\ job[n].uid \in Nat /\ job[n].retries \in Nat /\ uids[n] \in Nat
                             /\ js[n].uid \in Nat /\ cache[n].uid \in Nat
                             /\ js[n] \in JobSetRecord /\ cache[n] \in JobSetRecord
         /\ rec.pc # "idle" => /\ rec.n \in Names /\ rec.uid \in Nat \ {0} /\ rec.retries \in Nat
                               /\ rec.uid <= uids[rec.n]
         /\ budget.edits \in Nat
         /\ \A n \in Names : js[n].uid <= uids[n]
<1>1. rec.pc # "idle" => rec \in RecType
  BY RecOK DEF RayInv
<1> QED
  BY <1>1, RayConstantsOK DEF RayInv, TypeOK, RecType, RayJobRecord, JobSetRecord, RecInv, UidInv

LEMMA WriteKeeps ==
  ASSUME RayInv, NEW n \in Names, NEW r, Write(n, r)
  PROVE  /\ SameRec /\ job'[n] = r
         /\ \A m \in Names \ {n} : job'[m] = job[m]
<1>1. rec.pc # "idle" => rec \in RecType
  BY RecOK DEF RayInv
<1> QED
  BY <1>1 DEF RayInv, TypeOK, Write, RecType, SameRec

\* A RayJob comes, goes, or goes on.
LEMMA HitJob ==
  ASSUME RayInv, HitInv, NEW n \in Names, NEW r, Write(n, r), UNCHANGED <<js, cache>>,
         budget'.edits = MaxEdits => budget.edits = MaxEdits,
         \/ /\ r.uid = job[n].uid /\ (job[n].term => r.term) /\ UNCHANGED uids
            /\ r.retries = job[n].retries \/ r.retries = 0
         \/ r.uid = 0 /\ UNCHANGED uids
         \/ r.uid = uids'[n] /\ uids'[n] = uids[n] + 1
  PROVE  CopyOf(n)' /\ (budget'.edits = MaxEdits => FateOf(n)')
<1>1. CopyOf(n) /\ (budget'.edits = MaxEdits => FateOf(n))
  BY DEF HitInv
<1>2. SameRec /\ job'[n] = r
  BY WriteKeeps
<1>3. uids'[n] \in Nat /\ uids'[n] >= uids[n]
  BY HitTypes
<1>4. CopyOf(n)'
  <2>1. rec.pc # "idle" /\ rec.n = n => rec.uid <= uids[n]
    BY HitTypes
  <2> QED
    BY <1>1, <1>2, <1>3, <2>1, HitTypes, RayConstantsOK DEF CopyOf, Doing, SameRec
<1>5. /\ js[n].uid # 0 /\ Lost(n) => Lost(n)'
      /\ js[n].uid # 0 /\ job[n].term => Lost(n)' \/ job'[n].term
      /\ rec.pc # "idle" /\ rec.n = n /\ job[n].uid # rec.uid => job'[n].uid # rec.uid
  BY <1>1, <1>2, <1>3, HitTypes DEF Lost, CopyOf
<1>6. FateOf(n) => FateOf(n)'
  BY <1>2, <1>5, HitTypes DEF FateOf, Doing, SameRec, Seen
<1> QED
  BY <1>1, <1>4, <1>6

\* A JobSet goes, joins or fails without the bridge; the informer follows.
LEMMA HitJobSet ==
  ASSUME RayInv, HitInv, NEW n \in Names, NEW s, js'[n] = s, UNCHANGED <<job, uids, cache, rec>>,
         budget'.edits = MaxEdits => budget.edits = MaxEdits,
         \/ s.uid = 0 /\ (js[n].dying \/ Lost(n))
         \/ /\ s.uid = js[n].uid
            /\ s.st = js[n].st \/ (s.st = "up" /\ js[n].st # "failed") \/ s.st = "failed"
            /\ s.dying => js[n].dying \/ Lost(n)
         \/ s.uid \in {0, js[n].uid} /\ budget'.edits # MaxEdits
  PROVE  CopyOf(n)' /\ (budget'.edits = MaxEdits => FateOf(n)')
<1>1. CopyOf(n) /\ (budget'.edits = MaxEdits => FateOf(n))
  BY DEF HitInv
<1>2. CopyOf(n)'
  BY <1>1, HitTypes DEF CopyOf, Doing
<1>3. ASSUME budget'.edits = MaxEdits PROVE FateOf(n)'
  <2>1. FateOf(n)
    BY <1>1, <1>3
  <2>2. CASE s.uid = 0
    <3>1. js[n].uid = 0 \/ js[n].dying \/ Lost(n)
      BY <1>3, <2>2
    <3>2. Doing(n, {"ensure"}) /\ cache[n].st = "failed" /\ cache[n].uid = rec.uid =>
            job[n].uid # rec.uid
      BY <1>1, <2>1, <3>1, HitTypes DEF FateOf, CopyOf, Doing, Lost
    <3> QED
      BY <2>2, <3>2, HitTypes DEF FateOf, Doing
  <2>3. CASE s.uid # 0
    BY <1>3, <2>1, <2>3 DEF FateOf, Doing, Seen, Lost
  <2> QED
    BY <2>2, <2>3
<1> QED
  BY <1>2, <1>3

LEMMA HitSync ==
  ASSUME RayInv, HitInv, NEW n \in Names, cache'[n] = js[n], UNCHANGED <<job, uids, js>>,
         UNCHANGED rec \/ rec'.pc = "idle", budget'.edits = MaxEdits => budget.edits = MaxEdits
  PROVE  CopyOf(n)' /\ (budget'.edits = MaxEdits => FateOf(n)')
<1>1. CopyOf(n) /\ (budget'.edits = MaxEdits => FateOf(n))
  BY DEF HitInv
<1>2. CopyOf(n)'
  BY <1>1, HitTypes DEF CopyOf, Doing
<1>3. FateOf(n) => FateOf(n)'
  BY HitTypes DEF FateOf, Doing, Seen, Lost
<1> QED
  BY <1>1, <1>2, <1>3

\* A reconcile gives up, is done, or has nothing left but to look.
LEMMA HitRest ==
  ASSUME HitInv, NEW n \in Names, UNCHANGED <<job[n].uid, job[n].term, uids, js, cache>>,
         rec'.pc = "idle" \/ (rec'.pc = "verify" /\ rec.pc # "idle"
                              /\ rec'.n = rec.n /\ rec'.uid = rec.uid),
         budget'.edits = MaxEdits => budget.edits = MaxEdits
  PROVE  CopyOf(n)' /\ (budget'.edits = MaxEdits => FateOf(n)')
<1>1. CopyOf(n) /\ (budget'.edits = MaxEdits => FateOf(n))
  BY DEF HitInv
<1>2. CopyOf(n)'
  BY <1>1 DEF CopyOf, Doing
<1>3. FateOf(n) => FateOf(n)'
  BY DEF FateOf, Doing, Seen, Lost
<1> QED
  BY <1>1, <1>2, <1>3

LEMMA HitBegin ==
  ASSUME RayInv, HitInv, NEW n \in Names, Begin(n)
  PROVE  CopyOf(n)' /\ (budget'.edits = MaxEdits => FateOf(n)')
<1>1. CopyOf(n) /\ (budget'.edits = MaxEdits => FateOf(n))
  BY DEF HitInv, Begin
<1>2. UNCHANGED <<job, uids, js, cache, budget>> /\ rec.pc = "idle"
  BY DEF Begin, At
<1>3. CASE rec'.pc = "idle"
  BY <1>2, <1>3, HitRest
<1>4. CASE rec'.pc # "idle"
  <2>1. /\ rec'.n = n /\ rec'.uid = job[n].uid /\ job[n].uid # 0
        /\ rec'.pc = IF job[n].term THEN "drain" ELSE "check"
    BY <1>4 DEF Begin, Idle
  <2>2. CopyOf(n)'
    BY <1>1, <1>2, <2>1, HitTypes DEF CopyOf, Doing
  <2>3. FateOf(n) => FateOf(n)'
    BY <1>1, <1>2, <2>1, HitTypes DEF FateOf, Doing, Seen, Lost, CopyOf
  <2> QED
    BY <1>1, <1>2, <2>2, <2>3
<1> QED
  BY <1>3, <1>4

LEMMA HitCheck ==
  ASSUME RayInv, HitInv, NEW n \in Names, Check
  PROVE  CopyOf(n)' /\ (budget'.edits = MaxEdits => FateOf(n)')
<1>1. CopyOf(n) /\ (budget'.edits = MaxEdits => FateOf(n))
  BY DEF HitInv, Check
<1>2. UNCHANGED <<job, uids, js, cache, budget>> /\ rec.pc = "check" /\ rec.n \in Names
  BY HitTypes DEF Check, At
<1>3. CASE rec'.pc = "idle"
  BY <1>2, <1>3, HitRest
<1>4. CASE rec'.pc # "idle"
  <2>1. /\ rec'.n = rec.n /\ rec'.uid = rec.uid
        /\ \/ rec'.pc = "count" /\ OwnAndFailed(cache[rec.n], rec.uid)
           \/ rec'.pc = "ensure" /\ ~OwnAndFailed(cache[rec.n], rec.uid)
    <3>1. \/ Goto("count") /\ OwnAndFailed(cache[rec.n], rec.uid)
          \/ Goto("ensure") /\ ~OwnAndFailed(cache[rec.n], rec.uid)
      BY <1>4 DEF Check, AfterFailure, Goto, Idle
    <3> QED
      BY <1>2, <3>1, GotoOK DEF RayInv
  <2>2. CASE rec.n # n
    BY <1>2, <2>1, <2>2, HitElsewhere
  <2>3. CASE rec.n = n
    <3>1. CopyOf(n)'
      BY <1>1, <1>2, <2>1, <2>3, HitTypes DEF CopyOf, Doing, OwnAndFailed
    <3>2. FateOf(n) => FateOf(n)'
      BY <1>1, <1>2, <2>1, <2>3, HitTypes DEF FateOf, CopyOf, Doing, Seen, Lost, OwnAndFailed
    <3> QED
      BY <1>1, <1>2, <3>1, <3>2
  <2> QED
    BY <2>2, <2>3
<1> QED
  BY <1>3, <1>4

\* The annotation that is about to let a JobSet go is below the limit.
LEMMA HitCount ==
  ASSUME RayInv, HitInv, NEW n \in Names, Count
  PROVE  CopyOf(n)' /\ (budget'.edits = MaxEdits => FateOf(n)')
<1>1. CopyOf(n) /\ (budget'.edits = MaxEdits => FateOf(n))
  <2>1. budget'.edits = budget.edits
    BY DEF Count, Spend, RayInv, TypeOK
  <2> QED
    BY <2>1 DEF HitInv
<1>2. /\ UNCHANGED <<uids, js, cache>> /\ rec.pc = "count" /\ rec.n \in Names
      /\ rec.retries <= MaxWorkerRetries /\ rec.retries \in Nat
      /\ job' = [job EXCEPT ![rec.n].retries = rec.retries + 1]
  BY HitTypes DEF Count, At, RayInv, RecInv
<1>3. \A m \in Names : /\ job'[m].uid = job[m].uid /\ job'[m].term = job[m].term
                      /\ job'[m].retries = IF m = rec.n THEN rec.retries + 1 ELSE job[m].retries
  BY <1>2 DEF RayInv, TypeOK, RayJobRecord
<1>4. CASE rec'.pc = "idle"
  <2>1. budget'.edits = MaxEdits => budget.edits = MaxEdits
    BY DEF Count, Spend, RayInv, TypeOK
  <2> QED
    BY <1>2, <1>3, <1>4, <2>1, HitRest
<1>5. CASE rec'.pc # "idle"
  <2>1. /\ rec'.pc = "cull" /\ rec'.n = rec.n /\ rec'.uid = rec.uid
        /\ rec.retries # MaxWorkerRetries
    <3>1. Goto("cull") /\ rec.retries # MaxWorkerRetries
      BY <1>5 DEF Count, AfterCount, Goto, Idle
    <3> QED
      BY <1>2, <3>1, GotoOK DEF RayInv
  <2>2. CopyOf(n)'
    BY <1>1, <1>2, <1>3, <2>1, RayConstantsOK DEF CopyOf, Doing
  <2>3. FateOf(n) => FateOf(n)'
    BY <1>2, <1>3, <2>1 DEF FateOf, Doing, Seen, Lost
  <2> QED
    BY <1>1, <2>2, <2>3
<1> QED
  BY <1>4, <1>5

\* What a deletion leaves.
LEMMA Removed ==
  ASSUME RayInv, NEW n \in Names, DeleteByName(n) \/ Remove(n)
  PROVE  /\ js'[n].uid = 0 \/ (/\ js'[n].uid = js[n].uid /\ js'[n].st = js[n].st
                               /\ js[n].uid # 0)
         /\ \A m \in Names \ {n} : js'[m] = js[m]
<1>1. js \in [Names -> JobSetRecord] /\ js[n] \in JobSetRecord
  BY DEF RayInv, TypeOK
<1>2. \/ UNCHANGED js /\ js[n].uid = 0
      \/ js' = [js EXCEPT ![n] = NoJobSet]
      \/ js' = [js EXCEPT ![n] = [js[n] EXCEPT !.dying = TRUE]] /\ js[n].uid # 0
  BY DEF DeleteByName, Remove, Put
<1> DEFINE d == [js[n] EXCEPT !.dying = TRUE]
<1>3. d.uid = js[n].uid /\ d.st = js[n].st
  BY <1>1 DEF JobSetRecord
<1> HIDE DEF d
<1>4. js' = [js EXCEPT ![n] = d] =>
        js'[n].uid = js[n].uid /\ js'[n].st = js[n].st /\ \A m \in Names \ {n} : js'[m] = js[m]
  BY <1>1, <1>3
<1>5. js' = [js EXCEPT ![n] = NoJobSet] =>
        js'[n].uid = 0 /\ \A m \in Names \ {n} : js'[m] = js[m]
  BY <1>1, RecordsOK
<1> QED
  BY <1>2, <1>4, <1>5 DEF d

LEMMA HitDeletions ==
  ASSUME RayInv, HitInv, NEW n \in Names, Drain \/ Cull
  PROVE  CopyOf(n)' /\ (budget'.edits = MaxEdits => FateOf(n)')
<1>1. CopyOf(n) /\ (budget'.edits = MaxEdits => FateOf(n))
      /\ (budget'.edits = MaxEdits => budget.edits = MaxEdits)
  <2>1. budget'.edits = budget.edits
    BY DEF Drain, Cull, Return, Spend, RayInv, TypeOK
  <2> QED
    BY <2>1 DEF HitInv
<1>2. /\ UNCHANGED <<job, uids, cache>> /\ rec.pc \in {"drain", "cull"} /\ rec.n \in Names
      /\ DeleteByName(rec.n) /\ rec'.pc = "idle"
  BY HitTypes, ReturnOK DEF Drain, Cull, At, RayInv
<1>3. CASE rec.n # n
  BY <1>1, <1>2, <1>3, Removed, HitElsewhere
<1>4. CASE rec.n = n
  <2>1. js'[n].uid = 0 \/ (js'[n].uid = js[n].uid /\ js'[n].st = js[n].st /\ js[n].uid # 0)
    BY <1>2, <1>4, Removed
  <2>2. CopyOf(n)'
    BY <1>1, <1>2, <1>4, <2>1, HitTypes DEF CopyOf, Doing
  <2>3. rec.pc = "drain" /\ js[n].uid # 0 => Lost(n) \/ job[n].term
    BY <1>1, <1>4, HitTypes DEF CopyOf, Doing, Lost
  <2>4. FateOf(n) => FateOf(n)'
    BY <1>2, <1>4, <2>1, <2>3, HitTypes DEF FateOf, Doing, Seen, Lost
  <2> QED
    BY <1>1, <2>2, <2>4
<1> QED
  BY <1>3, <1>4

LEMMA HitEnsure ==
  ASSUME RayInv, HitInv, NEW n \in Names, Ensure
  PROVE  CopyOf(n)' /\ (budget'.edits = MaxEdits => FateOf(n)')
<1>1. CopyOf(n) /\ (budget'.edits = MaxEdits => FateOf(n))
      /\ (budget'.edits = MaxEdits => budget.edits = MaxEdits)
  <2>1. budget'.edits = budget.edits
    BY DEF Ensure, Return, Spend, RayInv, TypeOK
  <2> QED
    BY <2>1 DEF HitInv
<1>2. UNCHANGED <<job, uids, cache>> /\ rec.pc = "ensure" /\ rec.n \in Names
  BY HitTypes DEF Ensure, At
<1>3. CASE Goto("verify") /\ UNCHANGED js
  BY <1>1, <1>2, <1>3, GotoOK, HitRest DEF RayInv
<1>4. CASE /\ js[rec.n].uid = 0 /\ Return
           /\ Put(rec.n, [NoJobSet EXCEPT !.uid = rec.uid])
  <2>1. /\ js'[rec.n].uid = rec.uid /\ js'[rec.n].st = "new" /\ ~js'[rec.n].dying
        /\ \A m \in Names \ {rec.n} : js'[m] = js[m]
        /\ rec'.pc = "idle"
    <3> DEFINE u == [NoJobSet EXCEPT !.uid = rec.uid]
    <3>1. u.uid = rec.uid /\ u.st = "new" /\ ~u.dying
      BY DEF NoJobSet
    <3>2. js' = [js EXCEPT ![rec.n] = u]
      BY <1>4 DEF Put
    <3> HIDE DEF u
    <3>3. js \in [Names -> JobSetRecord]
      BY DEF RayInv, TypeOK
    <3>4. rec'.pc = "idle"
      BY <1>2, <1>4, ReturnOK DEF RayInv
    <3> QED
      BY <1>2, <3>1, <3>2, <3>3, <3>4
  <2>2. CASE rec.n # n
    BY <1>1, <1>2, <2>1, <2>2, HitElsewhere
  <2>3. CASE rec.n = n
    <3>1. CopyOf(n)'
      BY <1>1, <1>2, <2>1, <2>3, HitTypes DEF CopyOf, Doing
    <3>2. FateOf(n) => FateOf(n)'
      BY <1>2, <1>4, <2>1, <2>3, HitTypes DEF FateOf, Doing, Seen, Lost
    <3> QED
      BY <1>1, <3>1, <3>2
  <2> QED
    BY <2>2, <2>3
<1> QED
  BY <1>3, <1>4 DEF Ensure

LEMMA HitStep == RayInv /\ HitInv /\ [Next]_vars => HitInv'
<1> SUFFICES ASSUME RayInv, HitInv, [Next]_vars PROVE HitInv'
  OBVIOUS
<1>0. budget'.edits <= budget.edits /\ budget.edits \in Nat /\ budget'.edits <= MaxEdits
      /\ (budget'.edits = MaxEdits => budget.edits = MaxEdits)
  <2>1. budget' = budget \/ \E what \in {"failures", "faults", "edits"} : Spend(what)
    BY DEF Next, Step, Server, People, vars, Begin, Drain, Return, Check, Count, Conflict, Cull,
       Ensure, Verify, CallFails, Crash, SyncCache, Submit, Start, End, Delete, Touch, Rearm, Edit,
       OperatorDeletes, Collect, Finalize, WorkersJoin, WorkersFail
  <2>2. budget'.edits <= budget.edits /\ budget.edits \in Nat
    BY <2>1, HitTypes DEF Spend, RayInv, TypeOK
  <2>3. budget'.edits \in Nat
    BY <2>1, HitTypes DEF Spend, RayInv, TypeOK
  <2> QED
    BY <2>2, <2>3, RayConstantsOK DEF HitInv
<1> SUFFICES ASSUME NEW n \in Names
             PROVE  CopyOf(n)' /\ (budget'.edits = MaxEdits => FateOf(n)')
  BY <1>0 DEF HitInv
<1>1. CASE UNCHANGED vars
  BY <1>1, HitElsewhere DEF vars, SameRec
<1>2. CASE Step
  <2>1. ASSUME NEW m \in Names, Begin(m), m # n
        PROVE  CopyOf(n)' /\ (budget'.edits = MaxEdits => FateOf(n)')
    BY <2>1, HitElsewhere DEF Begin, Idle
  <2>2. CASE Conflict \/ Verify \/ CallFails
    <3>1. UNCHANGED <<job, uids, js, cache>> /\ rec'.pc = "idle"
      BY <2>2 DEF Conflict, Verify, CallFails, Fail, Goto, Idle
    <3> QED
      BY <1>0, <3>1, HitRest
  <2> QED
    BY <1>2, <2>1, <2>2, HitBegin, HitCheck, HitCount, HitDeletions, HitEnsure DEF Step
<1>3. CASE Crash
  <2>1. UNCHANGED <<job, uids, js>> /\ cache' = js /\ rec'.pc = "idle"
    BY <1>3 DEF Crash, Idle
  <2> QED
    BY <1>0, <2>1, HitSync
<1>4. ASSUME NEW m \in Names, Server(m) \/ People(m)
      PROVE  CopyOf(n)' /\ (budget'.edits = MaxEdits => FateOf(n)')
  <2>1. CASE Submit(m) \/ Start(m) \/ End(m) \/ Delete(m) \/ Touch(m) \/ Rearm(m) \/ Edit(m)
    <3>0. job[m] \in RayJobRecord /\ uids \in [Names -> 0..MaxUid]
      BY DEF RayInv, TypeOK
    <3>1. PICK r : /\ Write(m, r) /\ UNCHANGED <<js, cache>>
                   /\ \A k \in Names \ {m} : uids'[k] = uids[k]
                   /\ \/ /\ r.uid = job[m].uid /\ (job[m].term => r.term) /\ UNCHANGED uids
                         /\ r.retries = job[m].retries \/ r.retries = 0
                      \/ r.uid = 0 /\ UNCHANGED uids
                      \/ r.uid = uids'[m] /\ uids'[m] = uids[m] + 1
      <4>1. CASE Start(m)
        BY <3>0, <4>1 DEF Start, RayJobRecord
      <4>2. CASE End(m)
        BY <3>0, <4>2 DEF End, RayJobRecord
      <4>3. CASE Delete(m)
        BY <4>3, RecordsOK DEF Delete
      <4>4. CASE Touch(m)
        BY <4>4 DEF Touch
      <4>5. CASE Rearm(m)
        BY <3>0, <4>5 DEF Rearm, RayJobRecord
      <4>6. CASE Edit(m)
        BY <3>0, <4>6 DEF Edit, RayJobRecord
      <4>7. CASE Submit(m)
        <5>1. PICK kind \in Kinds, d \in {"pin", "skip"} :
                Write(m, [NoRayJob EXCEPT !.uid = uids[m] + 1, !.kind = kind, !.pinned = d = "pin"])
          BY <4>7 DEF Submit
        <5>2. uids' = [uids EXCEPT ![m] = @ + 1] /\ UNCHANGED <<js, cache>>
          BY <4>7 DEF Submit
        <5>3. [NoRayJob EXCEPT !.uid = uids[m] + 1, !.kind = kind, !.pinned = d = "pin"].uid
                = uids[m] + 1
          BY DEF NoRayJob
        <5> QED
          BY <3>0, <5>1, <5>2, <5>3
      <4> QED
        BY <2>1, <4>1, <4>2, <4>3, <4>4, <4>5, <4>6, <4>7
    <3>2. CASE m = n
      BY <1>0, <3>1, <3>2, HitJob
    <3>3. CASE m # n
      BY <1>0, <3>1, <3>3, WriteKeeps, HitElsewhere
    <3> QED
      BY <3>2, <3>3
  <2>2. CASE SyncCache(m)
    <3>1. UNCHANGED <<job, uids, js, rec>> /\ cache' = [cache EXCEPT ![m] = js[m]]
          /\ cache \in [Names -> JobSetRecord]
      BY <2>2 DEF SyncCache, RayInv, TypeOK
    <3>2. CASE m = n
      BY <1>0, <3>1, <3>2, HitSync
    <3>3. CASE m # n
      BY <1>0, <3>1, <3>3, HitElsewhere DEF SameRec
    <3> QED
      BY <3>2, <3>3
  <2>3. CASE Collect(m) \/ Finalize(m) \/ WorkersJoin(m) \/ OperatorDeletes(m) \/ WorkersFail(m)
    <3>0. js \in [Names -> JobSetRecord] /\ js[m] \in JobSetRecord
      BY DEF RayInv, TypeOK
    <3>1. UNCHANGED <<job, uids, cache, rec>>
      BY <2>3 DEF Collect, Finalize, WorkersJoin, OperatorDeletes, WorkersFail
    <3>2. PICK s : /\ js' = [js EXCEPT ![m] = s]
                   /\ \/ s.uid = 0 /\ (js[m].dying \/ Lost(m))
                      \/ /\ s.uid = js[m].uid
                         /\ \/ s.st = js[m].st \/ s.st = "failed"
                            \/ s.st = "up" /\ js[m].st # "failed"
                         /\ s.dying => js[m].dying \/ Lost(m)
                      \/ s.uid \in {0, js[m].uid} /\ budget'.edits # MaxEdits
      <4> DEFINE d == [js[m] EXCEPT !.dying = TRUE]
                 up == [js[m] EXCEPT !.st = "up"]
                 down == [js[m] EXCEPT !.st = "failed"]
      <4>1. /\ d.uid = js[m].uid /\ d.st = js[m].st
            /\ up.uid = js[m].uid /\ up.st = "up" /\ (up.dying => js[m].dying)
            /\ down.uid = js[m].uid /\ down.st = "failed" /\ (down.dying => js[m].dying)
        BY <3>0 DEF JobSetRecord
      <4>2. CASE Collect(m)
        <5>1. Lost(m) /\ (js' = [js EXCEPT ![m] = NoJobSet] \/ js' = [js EXCEPT ![m] = d])
          BY <4>2 DEF Collect, Remove, Put, Lost
        <5> HIDE DEF d
        <5> QED
          BY <4>1, <5>1, RecordsOK
      <4>3. CASE OperatorDeletes(m)
        <5>1. js' = [js EXCEPT ![m] = NoJobSet] \/ js' = [js EXCEPT ![m] = d]
          BY <4>3 DEF OperatorDeletes, Remove, Put
        <5>2. budget'.edits # MaxEdits
          <6>1. budget'.edits = budget.edits - 1
            BY <4>3 DEF OperatorDeletes, Spend, RayInv, TypeOK
          <6> QED
            BY <1>0, <6>1, RayConstantsOK DEF HitInv
        <5> HIDE DEF d
        <5> QED
          BY <4>1, <5>1, <5>2, RecordsOK
      <4>4. CASE Finalize(m)
        BY <4>4, RecordsOK DEF Finalize, Put
      <4>5. CASE WorkersJoin(m)
        <5>1. js[m].st = "new" /\ js' = [js EXCEPT ![m] = up]
          BY <4>5 DEF WorkersJoin, Put
        <5> HIDE DEF up
        <5> QED
          BY <4>1, <5>1
      <4>6. CASE WorkersFail(m)
        <5>1. js' = [js EXCEPT ![m] = down]
          BY <4>6 DEF WorkersFail, Put
        <5> HIDE DEF down
        <5> QED
          BY <4>1, <5>1
      <4> QED
        BY <2>3, <4>2, <4>3, <4>4, <4>5, <4>6
    <3>3. js'[m] = s /\ \A k \in Names \ {m} : js'[k] = js[k]
      BY <3>0, <3>2
    <3>4. CASE m = n
      BY <1>0, <3>1, <3>2, <3>3, <3>4, HitJobSet
    <3>5. CASE m # n
      BY <1>0, <3>1, <3>3, <3>5, HitElsewhere DEF SameRec
    <3> QED
      BY <3>4, <3>5
  <2> QED
    BY <1>4, <2>1, <2>2, <2>3 DEF Server, People
<1> QED
  BY <1>1, <1>2, <1>3, <1>4 DEF Next

\* The retry path deletes only JobSets of the RayJob it read, spares the one of a RayJob
\* whose budget is spent, and hits a healthy one at most where a person removed the failed
\* one, although the copy it judged by may be old and the delete names no UID
\* (handleFailedWorkerJobSet).
THEOREM CullsItsOwn == Spec => CullsOnlyItsOwnFailures
<1>1. ASSUME RayInv, HitInv, NEW n \in Names, Cull, rec.n = n, js'[n] # js[n]
      PROVE  /\ js[n].uid = rec.uid
             /\ js[n].st = "failed" \/ budget.edits < MaxEdits
             /\ job[n].uid = rec.uid => job[n].retries <= MaxWorkerRetries
  <2>1. Doing(n, {"cull"}) /\ Doing(n, {"count", "cull"}) /\ js[n].uid # 0
    BY <1>1 DEF Cull, At, Doing, DeleteByName
  <2>2. budget.edits = MaxEdits => js[n].st = "failed"
    BY <1>1, <2>1 DEF HitInv, FateOf
  <2>3. budget.edits \in Nat /\ budget.edits <= MaxEdits
    BY <1>1, HitTypes DEF HitInv
  <2> QED
    BY <1>1, <2>1, <2>2, <2>3, RayConstantsOK DEF HitInv, CopyOf
<1>2. RayInv /\ HitInv =>
        \A n \in Names : Cull /\ rec.n = n /\ js'[n] # js[n] =>
           /\ js[n].uid = rec.uid
           /\ js[n].st = "failed" \/ budget.edits < MaxEdits
           /\ job[n].uid = rec.uid => job[n].retries <= MaxWorkerRetries
  BY <1>1
<1> QED
  BY <1>2, RayInit, HitInit, RayStep, HitStep, PTL DEF Spec, CullsOnlyItsOwnFailures

=============================================================================
