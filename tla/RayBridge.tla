------------------------------- MODULE RayBridge -------------------------------
(***************************************************************************)
(* The Ray bridge (internal/raybridge/reconciler.go, internal/raywebhook,  *)
(* internal/raytranslate): for every inner RayJob of a managed cluster one *)
(* JobSet of dedicated workers, found again by its name and told from that *)
(* of an earlier RayJob of the same name by the UID in its label.          *)
(* RayJobs are read live, JobSets through an informer that may lag.        *)
(* Nothing of the bridge survives a crash but the retry annotation.        *)
(***************************************************************************)
EXTENDS Integers, FiniteSets

CONSTANTS
  Names,             \* RayJob names; the worker JobSet's name is made from it
  MaxWorkerRetries,  \* MaxWorkerRetries
  MaxUid,            \* bound: RayJobs created under one name
  MaxFailures,       \* bound: worker JobSets that fail
  MaxFaults,         \* bound: failed calls, lost replies, conflicts, crashes
  MaxEdits           \* bound: edits of annotations and deletions by people

ASSUME RayConstantsOK ==
  /\ IsFiniteSet(Names)
  /\ MaxWorkerRetries \in Nat /\ MaxUid \in Nat \ {0}
  /\ MaxFailures \in Nat /\ MaxFaults \in Nat /\ MaxEdits \in Nat

VARIABLES
  job,     \* the RayJob of each name, as the API server has it
  uids,    \* UIDs given out for each name
  js,      \* the worker JobSet of each name, as the API server has it
  cache,   \* the informer's copy of it
  news,    \* names with JobSet events the informer has not seen
  queue,   \* the controller's work queue
  rec,     \* the one reconcile in progress
  budget,  \* failures, faults and edits left
  spent    \* history: what became of the retries of the RayJob of each name

vars == <<job, uids, js, cache, news, queue, rec, budget, spent>>

\* What the scope gates make of a RayJob: of a managed cluster and a mapped pool;
\* of another cluster, or with one of its own; of an unmapped pool or unreadable.
Kinds == {"inner", "foreign", "unserved"}

RayJobRecord == [uid : 0..MaxUid, kind : Kinds, term : BOOLEAN, pinned : BOOLEAN,
                 runsOn : 0..MaxUid,   \* whose workers its driver runs on
                 retries : 0..(MaxWorkerRetries + 1)]
JobSetRecord == [uid : 0..MaxUid, st : {"new", "up", "failed"}, dying : BOOLEAN]
SpentRecord  == [failed : Nat, culled : -1..MaxWorkerRetries + 1, excused : Nat]

NoRayJob == [uid |-> 0, kind |-> "foreign", term |-> FALSE, pinned |-> FALSE,
             runsOn |-> 0, retries |-> 0]
NoJobSet == [uid |-> 0, st |-> "new", dying |-> FALSE]
Idle     == [pc |-> "idle"]
Unspent  == [failed |-> 0, culled |-> 0, excused |-> 0]

\* A count that starts over: the JobSet that is down now is its first, and a
\* deletion under way belongs to the count before.
Afresh(n) ==
  [failed  |-> IF js[n].st = "failed" /\ js[n].uid = job[n].uid THEN 1 ELSE 0,
   culled  |-> IF rec.pc = "cull" /\ rec.n = n THEN -1 ELSE 0,
   excused |-> 0]

-----------------------------------------------------------------------------
(* Decisions.  Wrong... is the same with a plausible mistake. *)

\* The webhook, when it answers: deny what cannot be served, pin what can.
Decide(kind) ==
  CASE kind = "inner"    -> "pin"
    [] kind = "unserved" -> "deny"
    [] kind = "foreign"  -> "skip"

\* The cached JobSet is of the RayJob in hand and has failed.
WrongOwnAndFailed(c, uid) == c.st = "failed"
OwnAndFailed(c, uid) == c.uid = uid /\ c.st = "failed"

\* Count first, delete second: a crash between them must not lose the count.
WrongAfterFailure(retries) == "count"
AfterFailure(retries) == IF retries > MaxWorkerRetries THEN "idle" ELSE "count"

WrongAfterCount(retries) == "cull"
AfterCount(retries) == IF retries = MaxWorkerRetries THEN "idle" ELSE "cull"

\* Kube.Update carries the resourceVersion that was read.
WrongUnchanged(r) == TRUE
Unchanged(r) == r.fresh

\* A JobSet event enqueues the RayJob its name stands for.
WrongMapped(n) == {}
Mapped(n) == {n}

\* An error of the API server puts the request back.
WrongRequeued(n) == {}
Requeued(n) == {n}

-----------------------------------------------------------------------------
Init ==
  /\ job = [n \in Names |-> NoRayJob]
  /\ uids = [n \in Names |-> 0]
  /\ js = [n \in Names |-> NoJobSet]
  /\ cache = js
  /\ news = {}
  /\ queue = {}
  /\ rec = Idle
  /\ budget = [failures |-> MaxFailures, faults |-> MaxFaults, edits |-> MaxEdits]
  /\ spent = [n \in Names |-> Unspent]

Spend(what) == budget[what] > 0 /\ budget' = [budget EXCEPT ![what] = @ - 1]

\* Every write of a RayJob moves its resourceVersion and makes an event.
Write(n, r) ==
  /\ job' = [job EXCEPT ![n] = r]
  /\ queue' = queue \union {n}
  /\ rec' = IF rec.pc # "idle" /\ rec.n = n THEN [rec EXCEPT !.fresh = FALSE] ELSE rec

Put(n, r) == js' = [js EXCEPT ![n] = r] /\ news' = news \union {n}

\* Foreground deletion or a finalizer keeps the JobSet for a while.
Remove(n) ==
  /\ js[n].uid # 0
  /\ Put(n, NoJobSet) \/ Put(n, [js[n] EXCEPT !.dying = TRUE])

DeleteByName(n) == IF js[n].uid = 0 THEN UNCHANGED <<js, news>> ELSE Remove(n)

-----------------------------------------------------------------------------
(* One reconcile, call by call *)

At(pc) == rec.pc = pc
Goto(pc) == IF pc = "idle" THEN rec' = Idle ELSE rec' = [rec EXCEPT !.pc = pc]

\* The call returned, or its reply was lost and the error requeues the request.
Return ==
  \/ Goto("idle") /\ UNCHANGED <<queue, budget>>
  \/ Goto("idle") /\ Spend("faults") /\ queue' = queue \union Requeued(rec.n)

Fail == Goto("idle") /\ queue' = queue \union Requeued(rec.n)

\* ray.Get, the shape, the scope gates, and the fork at IsTerminal.
Begin(n) ==
  /\ At("idle") /\ n \in queue
  /\ queue' = queue \ {n}
  /\ rec' = IF job[n].uid = 0 \/ job[n].kind # "inner" THEN Idle
            ELSE [pc |-> IF job[n].term THEN "drain" ELSE "check", n |-> n,
                  uid |-> job[n].uid, retries |-> job[n].retries, fresh |-> TRUE]
  /\ UNCHANGED <<job, uids, js, news, cache, budget, spent>>

Drain ==
  /\ At("drain") /\ DeleteByName(rec.n) /\ Return
  /\ UNCHANGED <<job, uids, cache, spent>>

\* handleFailedWorkerJobSet reads the informer's copy.
Check ==
  /\ At("check")
  /\ LET c == cache[rec.n]
     IN  IF OwnAndFailed(c, rec.uid)
         THEN /\ Goto(AfterFailure(rec.retries))
              /\ spent' = [spent EXCEPT ![rec.n].excused = @ +
                    IF rec.retries <= MaxWorkerRetries /\ (c # js[rec.n] \/ c.dying)
                    THEN 1 ELSE 0]
         ELSE Goto("ensure") /\ UNCHANGED spent
  /\ UNCHANGED <<job, uids, js, news, cache, queue, budget>>

\* setWorkerRetries; the reply may be lost, and then the JobSet is not deleted.
Count ==
  /\ At("count") /\ Unchanged(rec)
  /\ job' = [job EXCEPT ![rec.n].retries = rec.retries + 1]
  /\ queue' = queue \union {rec.n}
  /\ \/ Goto(AfterCount(rec.retries)) /\ UNCHANGED <<budget, spent>>
     \/ /\ Goto("idle") /\ Spend("faults")
        /\ spent' = [spent EXCEPT ![rec.n].excused = @ + 1]
  /\ UNCHANGED <<uids, js, news, cache>>

Conflict ==
  /\ At("count") /\ ~Unchanged(rec) /\ Fail
  /\ UNCHANGED <<job, uids, js, news, cache, budget, spent>>

Cull ==
  /\ At("cull") /\ DeleteByName(rec.n) /\ Return
  /\ spent' = [spent EXCEPT ![rec.n].culled =
                  @ + IF js[rec.n].uid # 0 /\ ~js[rec.n].dying THEN 1 ELSE 0]
  /\ UNCHANGED <<job, uids, cache>>

\* ensureJobSet: Create, and after AlreadyExists a Get from the informer.
Ensure ==
  /\ At("ensure")
  /\ \/ /\ js[rec.n].uid = 0
        /\ Put(rec.n, [NoJobSet EXCEPT !.uid = rec.uid])
        /\ Return
     \/ /\ js[rec.n].uid # 0 /\ Goto("verify") /\ UNCHANGED <<js, news, queue, budget>>
  /\ UNCHANGED <<job, uids, cache, spent>>

Verify ==
  /\ At("verify")
  /\ IF cache[rec.n].uid = rec.uid THEN Goto("idle") /\ UNCHANGED queue ELSE Fail
  /\ UNCHANGED <<job, uids, js, news, cache, budget, spent>>

CallFails ==
  /\ ~At("idle") /\ ~At("verify") /\ Spend("faults") /\ Fail
  \* A retry that was counted and whose delete never happened.
  /\ spent' = [spent EXCEPT ![rec.n].excused = @ + IF At("cull") THEN 1 ELSE 0]
  /\ UNCHANGED <<job, uids, js, news, cache>>

\* A new process lists everything.
Crash ==
  /\ Spend("faults")
  /\ spent' = [n \in Names |-> IF At("cull") /\ rec.n = n
                               THEN [spent[n] EXCEPT !.excused = @ + 1] ELSE spent[n]]
  /\ rec' = Idle /\ cache' = js /\ news' = {}
  /\ queue' = {n \in Names : job[n].uid # 0 \/ js[n].uid # 0}
  /\ UNCHANGED <<job, uids, js>>

-----------------------------------------------------------------------------
(* The API server, KubeRay, Kueue and people *)

SyncCache(n) ==
  /\ n \in news /\ news' = news \ {n}
  /\ cache' = [cache EXCEPT ![n] = js[n]]
  /\ queue' = queue \union Mapped(n)
  /\ UNCHANGED <<job, uids, js, rec, budget, spent>>

\* failurePolicy Ignore: a webhook that does not answer is passed over.
Submit(n) ==
  /\ job[n].uid = 0 /\ uids[n] < MaxUid
  /\ uids' = [uids EXCEPT ![n] = @ + 1]
  /\ \E kind \in Kinds, d \in {"pin", "skip"} :
       /\ d = "pin" => Decide(kind) = "pin"
       /\ Write(n, [NoRayJob EXCEPT !.uid = uids[n] + 1, !.kind = kind, !.pinned = d = "pin"])
  /\ spent' = [spent EXCEPT ![n] = Afresh(n)]
  /\ UNCHANGED <<js, news, cache, budget>>

\* Ray's scheduler looks for the pin, wm-job-<name>, not for a UID.
Start(n) ==
  /\ job[n].uid # 0 /\ ~job[n].term /\ job[n].runsOn = 0 /\ job[n].pinned
  /\ js[n].st = "up"
  /\ Write(n, [job[n] EXCEPT !.runsOn = js[n].uid])
  /\ UNCHANGED <<uids, js, news, cache, budget, spent>>

End(n) ==
  /\ job[n].uid # 0 /\ ~job[n].term
  /\ Write(n, [job[n] EXCEPT !.term = TRUE])
  /\ UNCHANGED <<uids, js, news, cache, budget, spent>>

Delete(n) ==
  /\ job[n].uid # 0
  /\ Write(n, NoRayJob)
  /\ UNCHANGED <<uids, js, news, cache, budget, spent>>

\* KubeRay writes a status the bridge does not read.
Touch(n) ==
  /\ ~At("idle") /\ rec.n = n /\ rec.fresh /\ Spend("faults")
  /\ Write(n, job[n])
  /\ UNCHANGED <<uids, js, news, cache, spent>>

\* An operator takes the annotation off, a user edits the others.
Rearm(n) ==
  /\ job[n].retries > 0 /\ Spend("edits")
  /\ Write(n, [job[n] EXCEPT !.retries = 0])
  /\ spent' = [spent EXCEPT ![n] = Afresh(n)]
  /\ UNCHANGED <<uids, js, news, cache>>

Edit(n) ==
  /\ job[n].uid # 0 /\ Spend("edits")
  /\ \E kind \in Kinds \ {job[n].kind} : Write(n, [job[n] EXCEPT !.kind = kind])
  /\ UNCHANGED <<uids, js, news, cache, spent>>

OperatorDeletes(n) ==
  /\ Spend("edits") /\ Remove(n) /\ UNCHANGED <<job, uids, cache, queue, rec, spent>>

\* The owner is gone.
Collect(n) ==
  /\ js[n].uid # job[n].uid /\ ~js[n].dying /\ Remove(n)
  /\ UNCHANGED <<job, uids, cache, queue, rec, budget, spent>>

Finalize(n) ==
  /\ js[n].dying
  /\ Put(n, NoJobSet)
  /\ UNCHANGED <<job, uids, cache, queue, rec, budget, spent>>

WorkersJoin(n) ==
  /\ js[n].uid # 0 /\ js[n].st = "new" /\ ~js[n].dying
  /\ Put(n, [js[n] EXCEPT !.st = "up"])
  /\ UNCHANGED <<job, uids, cache, queue, rec, budget, spent>>

WorkersFail(n) ==
  /\ js[n].uid # 0 /\ js[n].st # "failed" /\ Spend("failures")
  /\ Put(n, [js[n] EXCEPT !.st = "failed"])
  /\ spent' = [spent EXCEPT ![n].failed = @ + IF js[n].uid = job[n].uid THEN 1 ELSE 0]
  /\ UNCHANGED <<job, uids, cache, queue, rec>>

-----------------------------------------------------------------------------
Step == (\E n \in Names : Begin(n)) \/ Drain \/ Check \/ Count \/ Conflict \/ Cull
        \/ Ensure \/ Verify \/ CallFails

Server(n) == SyncCache(n) \/ Collect(n) \/ Finalize(n) \/ WorkersJoin(n) \/ Start(n)

People(n) == Submit(n) \/ End(n) \/ Delete(n) \/ Touch(n) \/ Rearm(n) \/ Edit(n)
             \/ OperatorDeletes(n) \/ WorkersFail(n)

Next == Step \/ Crash \/ \E n \in Names : Server(n) \/ People(n)

Spec == Init /\ [][Next]_vars

\* The controller works its queue off; watches, the garbage collector, Kueue and
\* KubeRay's scheduler do their part.  Nobody has to submit, end or delete.
Fairness ==
  /\ WF_vars(Step)
  /\ \A n \in Names : WF_vars(SyncCache(n)) /\ WF_vars(Collect(n)) /\ WF_vars(Finalize(n))
                      /\ WF_vars(WorkersJoin(n)) /\ SF_vars(Start(n))

FairSpec == Spec /\ Fairness

-----------------------------------------------------------------------------
(* Properties *)

\* The type invariant of the Ray bridge.
TypeOK ==
  /\ job \in [Names -> RayJobRecord]
  /\ uids \in [Names -> 0..MaxUid]
  /\ js \in [Names -> JobSetRecord] /\ cache \in [Names -> JobSetRecord]
  /\ queue \subseteq Names /\ news \subseteq Names
  /\ rec = Idle \/ rec \in [pc : {"drain", "check", "count", "cull", "ensure", "verify"},
                            n : Names, uid : 1..MaxUid, fresh : BOOLEAN,
                            retries : 0..(MaxWorkerRetries + 1)]
  /\ budget \in [{"failures", "faults", "edits"} -> Nat]
  /\ spent \in [Names -> SpentRecord]

\* The retry loop is bounded through crashes, lost replies and stale copies: since
\* the annotation was last taken off, at most MaxWorkerRetries JobSets were deleted.
BoundedRetries == \A n \in Names : spent[n].culled <= MaxWorkerRetries

\* The budget is not spent on nothing: every unit the annotation counts is a JobSet
\* that failed, a reply or delete that was lost, or a copy that was out of date.
BudgetAccounted ==
  \A n \in Names : job[n].retries <= spent[n].failed + spent[n].excused

\* The annotation and what it stands for go together, from either side.
BudgetInv == TypeOK /\ BoundedRetries /\ BudgetAccounted

\* The retry path deletes only JobSets of the RayJob it read, spares an exhausted
\* one's for inspection, and takes a healthy one for a failed one at most where a
\* person removed the failed one: Kube.Delete names no UID.
CullsOnlyItsOwnFailures ==
  [][\A n \in Names :
       Cull /\ rec.n = n /\ js'[n] # js[n] =>
         /\ js[n].uid = rec.uid
         /\ js[n].st = "failed" \/ budget.edits < MaxEdits
         /\ job[n].uid = rec.uid => job[n].retries <= MaxWorkerRetries]_vars

\* A RayJob in scope that waits for its pin gets workers that join, whatever became
\* of earlier JobSets and of earlier RayJobs of its name, until the budget is spent.
Waiting(n) ==
  /\ job[n].uid # 0 /\ ~job[n].term /\ job[n].kind = "inner" /\ job[n].pinned
  /\ job[n].runsOn = 0
  /\ ~(js[n].st = "failed" /\ job[n].retries > MaxWorkerRetries)

WaitingJobsStart == \A n \in Names : Waiting(n) ~> ~Waiting(n)

\* The workers of a RayJob that ended or was deleted do not stay.
Abandoned(n) ==
  /\ js[n].uid # 0
  /\ job[n].uid # js[n].uid \/ (job[n].term /\ job[n].kind = "inner")

AbandonedWorkersGo == \A n \in Names : Abandoned(n) ~> ~Abandoned(n)

=============================================================================
