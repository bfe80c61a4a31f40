--------------------------------- MODULE Fleet ---------------------------------
(***************************************************************************)
(* Which bridges run, on which configuration, and what their WorkloadMixing*)
(* objects say about it: the supervisor of many objects                    *)
(* (internal/bridge/supervisor.go), the hot reload of the one that         *)
(* --workloadmixing names and the writer of the Ready condition            *)
(* (crdconfig.go).  Objects are read through an informer that may lag.     *)
(* A tick is the stretch between its configuration snapshot and its report.*)
(***************************************************************************)
EXTENDS Settings, FiniteSets

CONSTANTS
  CRs,              \* names of WorkloadMixing objects
  Specs,            \* names of what a spec can say
  Says,             \* the configuration each of them is copied to
  NoSpec,           \* not one of them
  AllowedImages,    \* --allowed-slurmd-images
  AllowedPaths,     \* --allowed-token-paths
  InsecureTLS,      \* --allow-insecure-tls
  Initially,        \* bound: what objects say when the process starts
  MaxEdits,         \* bound: creations, edits and deletions
  MaxFaults         \* bound: failed writes, clients that do not start, crashes

ASSUME FleetConstantsOK ==
  /\ IsFiniteSet(CRs) /\ CRs # {}
  /\ Says \in [Specs -> Written] /\ InsecureTLS \in BOOLEAN
  /\ NoSpec \notin Specs /\ Initially \subseteq Specs \union {NoSpec}
  /\ MaxEdits \in Nat /\ MaxFaults \in Nat

VARIABLES
  mode,     \* "supervisor", or "single": one object, one loop, never restarted
  cr,       \* the objects, as the API server has them
  cache,    \* the informer's copies
  news,     \* objects with events the informer has not seen
  queue,    \* the controller's work queue, requests due later included
  rec,      \* the one reconcile in progress
  loop,     \* running[k]: the bridge, its identity and generation, its tick
  dying,    \* the loop that stop has cancelled, with the writer it reports to
  writer,   \* the ReadyConditionWriter of each object
  blocked,  \* objects refused and not running
  budget    \* edits and faults left

vars == <<mode, cr, cache, news, queue, rec, loop, dying, writer, blocked, budget>>

Reasons == {"none", "ok", "fail", "InvalidSpec", "ConflictingSpec", "StartFailed"}

\* FromCR: a field copy, then the defaults and the checks every source shares.
Loaded == [s \in Specs |-> ApplyDefaults(Says[s])]
Valid  == {s \in Specs : Validate(Loaded[s])}

\* buildConfig: a supervisor vets what it loads; a single bridge was vetted at its start.
Vetted == {s \in Valid : Vets(Loaded[s], AllowedImages, AllowedPaths, InsecureTLS)}
Usable(s) == s \in (IF mode = "supervisor" THEN Vetted ELSE Valid)

\* A client is known by one of the specs that make it.
Endpoint == [s \in Specs |-> CHOOSE t \in Specs :
                              EndpointIdentity(Loaded[t]) = EndpointIdentity(Loaded[s])]
Url      == [s \in Specs |-> URL(Loaded[s])]
Parts    == [s \in Specs |-> Partitions(Loaded[s])]

Condition == [reason : Reasons, obs : Nat,
              of : Nat]                         \* history: the object it was written for
Object    == [uid : Nat, gen : Nat, spec : Specs \union {NoSpec}, ready : Condition]
Loop      == [on : BOOLEAN, spec : Specs \union {NoSpec}, gen : Nat,
              client : Specs \union {NoSpec},   \* what it was built from
              uid : Nat,                        \* history: the object it was last told of
              tick : Specs \union {NoSpec}]
Writer    == [rejected : BOOLEAN, last : {"", "ok", "fail"}]

Unset    == [reason |-> "none", obs |-> 0, of |-> 0]
Absent   == [uid |-> 0, gen |-> 0, spec |-> NoSpec, ready |-> Unset]
Retired   == [on : BOOLEAN, spec : Specs \union {NoSpec}, tick : Specs \union {NoSpec}, w : Writer]

NoLoop   == [on |-> FALSE, spec |-> NoSpec, gen |-> 0, client |-> NoSpec, uid |-> 0, tick |-> NoSpec]
NoWriter == [rejected |-> FALSE, last |-> ""]
Gone     == [on |-> FALSE, spec |-> NoSpec, tick |-> NoSpec, w |-> NoWriter]
Idle     == [pc |-> "idle"]

-----------------------------------------------------------------------------
(* Decisions.  Wrong... is the same with a plausible mistake. *)

\* The client of a running bridge serves spec s as well.
WrongSameEndpoint(l, s) == Url[l.spec] = Url[s]
SameEndpoint(l, s) == Endpoint[l.spec] = Endpoint[s]

\* bridgeIdentity.conflictsWith.
Conflicts(a, b) == Url[a] = Url[b] /\ Parts[a] \intersect Parts[b] # {}

\* findConflict among the running bridges, the candidate's own excluded.
FindConflict(s, self) == {k \in CRs \ {self} : loop[k].on /\ Conflicts(s, loop[k].spec)}

\* stop waits until Run has returned.
WrongReturned(k) == TRUE
Returned(k) == ~dying[k].on

\* ReportTick writes transitions, and nothing while the latest spec is rejected.
WrongSilent(w, state) == state = w.last
Silent(w, state) == w.rejected \/ state = w.last

\* ClearRejection makes the next report write again.
WrongCleared(w) == [w EXCEPT !.rejected = FALSE]
Cleared(w) == NoWriter

\* ReportRejection: whether or not it can be written.
Rejected(w) == [w EXCEPT !.rejected = TRUE]

\* A rejection that could not be written is an error of the reconcile.
WrongRetried(k) == {}
Retried(k) == {k}

-----------------------------------------------------------------------------
(* The supervisor starts with what is there; in single-CR mode main has loaded  *)
(* the object, found it good and started the loop.                              *)

Existing(s) == [uid |-> 1, gen |-> 1, spec |-> s, ready |-> Unset]

Launched(c) ==
  [NoLoop EXCEPT !.on = TRUE, !.spec = c.spec, !.gen = c.gen, !.client = Endpoint[c.spec],
                 !.uid = c.uid]

\* setCfg, and what the supervisor remembers with it.
Reloaded(l, c) == [l EXCEPT !.spec = c.spec, !.gen = c.gen, !.uid = c.uid]

Init ==
  /\ \/ /\ mode = "supervisor"
        /\ cr \in [CRs -> {IF s = NoSpec THEN Absent ELSE Existing(s) : s \in Initially}]
        /\ loop = [k \in CRs |-> NoLoop]
     \/ /\ mode = "single"
        /\ \E k \in CRs, s \in Initially \intersect Vetted :
             /\ cr = [o \in CRs |-> IF o = k THEN Existing(s) ELSE Absent]
             /\ loop = [o \in CRs |-> IF o = k THEN Launched(Existing(s)) ELSE NoLoop]
  /\ queue = {k \in CRs : cr[k].uid # 0}
  /\ cache = cr /\ news = {} /\ rec = Idle
  /\ dying = [k \in CRs |-> Gone]
  /\ writer = [k \in CRs |-> NoWriter]
  /\ blocked = {}
  /\ budget = [edits |-> MaxEdits, faults |-> MaxFaults]

Spend(what) == budget[what] > 0 /\ budget' = [budget EXCEPT ![what] = @ - 1]

-----------------------------------------------------------------------------
(* UpdateReadyConditionReason: a merge patch against the informer's copy, by    *)
(* name, stamped with the generation of that copy; empty when the copy says it. *)
(* The bridge's own write is back in the copy before its next: a watch is       *)
(* quicker than two ticks.                                                       *)

Reads(c, reason, gen) == c.reason = reason /\ c.obs = gen

Writes(k, reason) ==
  LET c == [reason |-> reason, obs |-> cache[k].gen, of |-> cache[k].uid]
  IN  /\ cache[k].uid # 0 /\ cr[k].uid # 0
      /\ UNCHANGED budget
      /\ IF Reads(cache[k].ready, reason, cache[k].gen) THEN UNCHANGED <<cr, cache, news>>
         ELSE /\ cr' = [cr EXCEPT ![k].ready = c]
              /\ news' = news \union {k}
              /\ cache' = IF cache[k].uid = cr[k].uid THEN [cache EXCEPT ![k].ready = c]
                          ELSE cache

FailsToWrite(k) ==
  /\ \/ (cache[k].uid = 0 \/ cr[k].uid = 0) /\ UNCHANGED budget
     \/ Spend("faults")
  /\ UNCHANGED <<cr, cache, news>>

\* ReportTick: what becomes of writer w when a tick ended in state.
ReportsTick(k, w, state, after) ==
  \/ Silent(w, state) /\ after = w /\ UNCHANGED <<cr, cache, news, budget>>
  \/ ~Silent(w, state) /\ Writes(k, state) /\ after = [w EXCEPT !.last = state]
  \/ ~Silent(w, state) /\ FailsToWrite(k) /\ after = w

-----------------------------------------------------------------------------
(* Supervisor.Reconcile *)

At(pc) == rec.pc = pc

\* What stop does under the lock, and then, if a loop was running, waits for.
Forget(k) ==
  /\ loop' = [loop EXCEPT ![k] = NoLoop]
  /\ writer' = [writer EXCEPT ![k] = NoWriter]
  /\ blocked' = blocked \ {k}
  /\ dying' = IF loop[k].on
              THEN [dying EXCEPT ![k] = [on |-> TRUE, spec |-> loop[k].spec,
                                         tick |-> loop[k].tick, w |-> writer[k]]]
              ELSE dying

\* The reconcile goes on with the object c it read.
Goto(pc, k, c) == rec' = [pc |-> pc, k |-> k, c |-> c, reason |-> "none"]

Report(k, reason) == rec' = [pc |-> "report", k |-> k, c |-> Absent, reason |-> reason]

Refuse(k, reason) ==
  /\ Report(k, reason)
  /\ blocked' = IF loop[k].on THEN blocked ELSE blocked \union {k}

Take(k) == mode = "supervisor" /\ At("idle") /\ k \in queue /\ queue' = queue \ {k}

\* The object is gone: stop.  Also for an object that had no loop.
Deleted(k) ==
  /\ Take(k) /\ cache[k].uid = 0
  /\ Forget(k)
  /\ IF loop[k].on THEN Goto("stop", k, Absent) ELSE rec' = Idle
  /\ UNCHANGED <<mode, cr, cache, news, budget>>

\* refuseInvalid: a loop that runs keeps its last good configuration.
RefuseInvalid(k) ==
  /\ Take(k) /\ cache[k].uid # 0 /\ ~Usable(cache[k].spec)
  /\ Refuse(k, "InvalidSpec")
  /\ UNCHANGED <<mode, cr, cache, news, loop, dying, writer, budget>>

Good(k) == cache[k].uid # 0 /\ Usable(cache[k].spec)

\* "status-only update or resync".
Unchanged(k) ==
  /\ Take(k) /\ Good(k) /\ loop[k].on /\ loop[k].gen = cache[k].gen
  /\ UNCHANGED <<mode, cr, cache, news, rec, loop, dying, writer, blocked, budget>>

HotReload(k) ==
  /\ Take(k) /\ Good(k) /\ loop[k].on /\ loop[k].gen # cache[k].gen
  /\ SameEndpoint(loop[k], cache[k].spec) /\ FindConflict(cache[k].spec, k) = {}
  /\ loop' = [loop EXCEPT ![k] = Reloaded(@, cache[k])]
  /\ blocked' = blocked \ {k}
  /\ writer' = [writer EXCEPT ![k] = Cleared(@)]
  /\ UNCHANGED <<mode, cr, cache, news, rec, dying, budget>>

\* The new spec conflicts, or its endpoint is another: stop and place it anew.
Restart(k) ==
  /\ Take(k) /\ Good(k) /\ loop[k].on /\ loop[k].gen # cache[k].gen
  /\ ~SameEndpoint(loop[k], cache[k].spec) \/ FindConflict(cache[k].spec, k) # {}
  /\ Forget(k) /\ Goto("stop", k, cache[k])
  /\ UNCHANGED <<mode, cr, cache, news, budget>>

Stopped ==
  /\ At("stop") /\ Returned(rec.k)
  /\ IF rec.c = Absent THEN rec' = Idle ELSE Goto("place", rec.k, rec.c)
  /\ UNCHANGED <<mode, cr, cache, news, queue, loop, dying, writer, blocked, budget>>

Arrive(k) ==
  /\ Take(k) /\ Good(k) /\ ~loop[k].on
  /\ Goto("place", k, cache[k])
  /\ UNCHANGED <<mode, cr, cache, news, loop, dying, writer, blocked, budget>>

RefuseConflict ==
  /\ At("place") /\ FindConflict(rec.c.spec, rec.k) # {}
  /\ Refuse(rec.k, "ConflictingSpec")
  /\ UNCHANGED <<mode, cr, cache, news, queue, loop, dying, writer, budget>>

StartFails ==
  /\ At("place") /\ FindConflict(rec.c.spec, rec.k) = {} /\ Spend("faults")
  /\ Refuse(rec.k, "StartFailed")
  /\ UNCHANGED <<mode, cr, cache, news, queue, loop, dying, writer>>

Start ==
  /\ At("place") /\ FindConflict(rec.c.spec, rec.k) = {}
  /\ loop' = [loop EXCEPT ![rec.k] = Launched(rec.c)]
  /\ writer' = [writer EXCEPT ![rec.k] = Cleared(@)]
  /\ blocked' = blocked \ {rec.k} /\ rec' = Idle
  /\ UNCHANGED <<mode, cr, cache, news, queue, dying, budget>>

\* ReportRejection; what was refused for want of a claim or a client is tried again.
ReportRejection ==
  /\ At("report") /\ rec' = Idle
  /\ writer' = [writer EXCEPT ![rec.k] = Rejected(@)]
  /\ \/ /\ Writes(rec.k, rec.reason)
        /\ queue' = IF rec.reason = "InvalidSpec" THEN queue ELSE queue \union {rec.k}
     \/ FailsToWrite(rec.k) /\ queue' = queue \union Retried(rec.k)
  /\ UNCHANGED <<mode, loop, dying, blocked>>

\* ConfigReconciler.Reconcile, whose loop has no other to conflict with.
Reload(k) ==
  /\ mode = "single" /\ At("idle") /\ k \in queue /\ loop[k].on
  /\ queue' = queue \ {k}
  /\ IF Good(k)
     THEN /\ loop' = [loop EXCEPT ![k] = Reloaded(@, cache[k])]
          /\ writer' = [writer EXCEPT ![k] = Cleared(@)] /\ UNCHANGED rec
     ELSE Report(k, "InvalidSpec") /\ UNCHANGED <<loop, writer>>
  /\ UNCHANGED <<mode, cr, cache, news, dying, blocked, budget>>

-----------------------------------------------------------------------------
(* The loops: tick reads the configuration once and reports through OnTick *)

TickBegins(k) ==
  /\ loop[k].on /\ loop[k].tick = NoSpec
  /\ loop' = [loop EXCEPT ![k].tick = loop[k].spec]
  /\ UNCHANGED <<mode, cr, cache, news, queue, rec, dying, writer, blocked, budget>>

TickEnds(k, state) ==
  /\ loop[k].on /\ loop[k].tick # NoSpec
  /\ loop' = [loop EXCEPT ![k].tick = NoSpec]
  /\ \E after \in Writer :
       ReportsTick(k, writer[k], state, after) /\ writer' = [writer EXCEPT ![k] = after]
  /\ UNCHANGED <<mode, queue, rec, dying, blocked>>

\* A cancelled loop returns at once, or after the tick in flight and its report.
LoopReturns(k, state) ==
  /\ dying[k].on
  /\ dying' = [dying EXCEPT ![k] = Gone]
  /\ IF dying[k].tick = NoSpec THEN UNCHANGED <<cr, cache, news, budget>>
     ELSE \E after \in Writer : ReportsTick(k, dying[k].w, state, after)
  /\ UNCHANGED <<mode, queue, rec, loop, writer, blocked>>

-----------------------------------------------------------------------------
(* Around them: the informer, people, and the next leader *)

SyncCache(k) ==
  /\ k \in news /\ news' = news \ {k}
  /\ cache' = [cache EXCEPT ![k] = cr[k]]
  /\ queue' = queue \union {k}
  /\ UNCHANGED <<mode, cr, rec, loop, dying, writer, blocked, budget>>

Change(k, o) ==
  /\ Spend("edits")
  /\ cr' = [cr EXCEPT ![k] = o] /\ news' = news \union {k}
  /\ UNCHANGED <<mode, cache, queue, rec, loop, dying, writer, blocked>>

\* The objects that the predicates of the watch let through.
Watched == IF mode = "single" THEN {k \in CRs : loop[k].on} ELSE CRs

Create(k, s) ==
  /\ k \in Watched /\ cr[k].uid = 0
  /\ Change(k, [Existing(s) EXCEPT !.uid = 2 + MaxEdits - budget.edits])

Edit(k, s) ==
  /\ cr[k].uid # 0 /\ cr[k].spec # s
  /\ Change(k, [cr[k] EXCEPT !.spec = s, !.gen = @ + 1])

Delete(k) == cr[k].uid # 0 /\ Change(k, Absent)

\* The process dies; its successor lists and starts what it finds.
Handover ==
  /\ mode = "supervisor" /\ Spend("faults")
  /\ cache' = cr /\ news' = {} /\ queue' = {k \in CRs : cr[k].uid # 0}
  /\ rec' = Idle /\ blocked' = {}
  /\ loop' = [k \in CRs |-> NoLoop] /\ dying' = [k \in CRs |-> Gone]
  /\ writer' = [k \in CRs |-> NoWriter]
  /\ UNCHANGED <<mode, cr>>

Continue == Stopped \/ RefuseConflict \/ StartFails \/ Start \/ ReportRejection

Reconcile(k) ==
  \/ Deleted(k) \/ RefuseInvalid(k) \/ Unchanged(k) \/ HotReload(k) \/ Restart(k)
  \/ Arrive(k) \/ Reload(k)

Ticks(k) == TickBegins(k) \/ \E state \in {"ok", "fail"} : TickEnds(k, state)

Returns(k) == \E state \in {"ok", "fail"} : LoopReturns(k, state)

Edits(k) == Delete(k) \/ \E s \in Specs : Create(k, s) \/ Edit(k, s)

Next ==
  \/ Continue \/ Handover
  \/ \E k \in CRs : Reconcile(k) \/ Ticks(k) \/ Returns(k) \/ SyncCache(k) \/ Edits(k)

Spec == Init /\ [][Next]_vars

\* The work queue is first in, first out; loops tick and, cancelled, return.
Fairness ==
  /\ WF_vars(Continue) /\ WF_vars(\E k \in CRs : Returns(k))
  /\ \A k \in CRs : SF_vars(Reconcile(k)) /\ WF_vars(SyncCache(k)) /\ WF_vars(Ticks(k))

FairSpec == Spec /\ Fairness

-----------------------------------------------------------------------------
(* Properties *)

\* The type invariant of the fleet.
TypeOK ==
  /\ mode \in {"supervisor", "single"}
  /\ cr \in [CRs -> Object] /\ cache \in [CRs -> Object]
  /\ news \subseteq CRs /\ queue \subseteq CRs /\ blocked \subseteq CRs
  /\ rec = Idle \/ rec \in [pc : {"stop", "place", "report"}, k : CRs, c : Object,
                            reason : Reasons]
  /\ loop \in [CRs -> Loop] /\ dying \in [CRs -> Retired]
  /\ writer \in [CRs -> Writer]
  /\ budget \in [{"edits", "faults"} -> Nat]

\* The specs whose partitions k claims: that of its loop, and that of a loop of its which
\* has been cancelled and has not returned.
ClaimsOf(k) ==
  {t \in Specs : (loop[k].on /\ t = loop[k].spec) \/ (dying[k].on /\ t = dying[k].spec)}

\* No two bridges claim the jobs of one partition at one time, through starts, reloads,
\* moved claims and stops: stop returns only when the loop has.  Every tick begins on such a
\* claim.  It does not always end on one: a hot reload gives a partition up while "the
\* in-flight tick finishes on its old snapshot", and until then the tick of a bridge that
\* has taken the partition over may work on it too.
OneManager ==
  \A j, k \in CRs : j # k =>
    \A s \in ClaimsOf(j), t \in ClaimsOf(k) : ~Conflicts(s, t)

\* What a bridge runs on is what the other modules assume: ticks are paced, the orphan
\* grace spans a tick, and every mapping says what its jobs get, none shadowed by another.
RunsSound ==
  \A k \in CRs : loop[k].on =>
    LET c == Loaded[loop[k].spec] IN
      /\ c.poll >= 1 /\ c.grace >= 1 /\ c.workers >= 1 /\ c.maxPriority >= 0
      /\ \A i \in DOMAIN c.mappings :
           LET m == c.mappings[i] IN
             /\ PriorityClassFor(c, m.partition) = m.class
             /\ LocalQueueFor(c, m.partition) = (IF m.queue = "" THEN c.queue ELSE m.queue)

\* Under the supervisor a running bridge talks to Slurm through a client built from the
\* settings it runs on, whichever reloads, restarts and moved claims came before: each
\* setting that is read only when the client is built makes the supervisor build another.
ClientIsCurrent ==
  \A k \in CRs : mode = "supervisor" /\ loop[k].on =>
    LET built == Loaded[loop[k].client]
        c     == Loaded[loop[k].spec]
    IN  /\ URL(built) = URL(c) /\ built.user = c.user /\ built.tokenFile = c.tokenFile
        /\ built.caFile = c.caFile /\ built.skipVerify = c.skipVerify
        /\ built.timeout = c.timeout /\ built.rate = c.rate

\* What runs passed validation, and through a client of its own settings (buildConfig,
\* Reconcile).
LoopInv == TypeOK /\ RunsSound /\ ClientIsCurrent

\* A rejection of the latest spec stands until the spec changes: no report of a tick
\* begun before or after, and none of a loop being stopped, overwrites it.  Writes go by
\* name: one that was meant for an earlier object of that name is no rejection of this one.
RejectionStands ==
  [][\A k \in CRs :
       cr[k].uid # 0 /\ ~Usable(cr[k].spec)
         /\ cr[k].ready = [reason |-> "InvalidSpec", obs |-> cr[k].gen, of |-> cr[k].uid]
         /\ cr'[k].gen = cr[k].gen /\ cr'[k].uid = cr[k].uid
       => cr'[k].ready = cr[k].ready]_vars

\* Nobody is about to look at k again.
Quiet(k) == k \notin news \union queue /\ (~At("idle") => rec.k # k)

\* An object deleted and created again counts its generations anew, and where nobody saw
\* it gone the supervisor takes it for the object it knows: a "status-only update".
Mistaken(k) ==
  /\ mode = "supervisor" /\ loop[k].on
  /\ loop[k].gen = cr[k].gen /\ loop[k].uid # cr[k].uid

\* An object that is left saying its latest spec ticks has a bridge that runs it, if it
\* was not recreated unseen.
HealthyIsServed ==
  \A k \in CRs :
    /\ cr[k].uid # 0 /\ ~Mistaken(k) /\ Quiet(k)
    /\ cr[k].ready.reason \in {"ok", "fail"} /\ cr[k].ready.obs = cr[k].gen
    => loop[k].on /\ loop[k].spec = cr[k].spec

\* "Exactly one running Bridge, or a truthful Ready=False explaining why not": a
\* conflict names a claim that is held, and /readyz lists exactly what is refused.
Truthful(k) ==
  LET says(reason) == Reads(cr[k].ready, reason, cr[k].gen)
  IN  CASE cr[k].uid = 0 -> mode = "supervisor" => ~loop[k].on /\ k \notin blocked
        [] cr[k].uid # 0 /\ ~Usable(cr[k].spec) -> says("InvalidSpec") /\ (loop[k].on \/ k \in blocked \/ mode = "single")
        [] cr[k].uid # 0 /\ Usable(cr[k].spec) ->
             \/ /\ loop[k].on /\ loop[k].spec = cr[k].spec /\ k \notin blocked
                /\ says("ok") \/ says("fail")
             \/ /\ ~loop[k].on /\ says("ConflictingSpec") /\ k \in blocked
                /\ FindConflict(cr[k].spec, k) # {}

\* When people leave the objects alone and calls succeed, each becomes truthful for good,
\* but for one recreated unseen.
Settles == <>[](\A k \in Watched : Truthful(k) \/ Mistaken(k))

=============================================================================
