------------------------------ MODULE FleetProofs -------------------------------
(***************************************************************************)
(* Proofs about Fleet, for any objects, whatever their specs say, and any  *)
(* number of edits, failures, crashes and hand-overs.                      *)
(***************************************************************************)
EXTENDS Fleet, TLAPS

-----------------------------------------------------------------------------
(* The inductive invariant *)

\* A loop that does not run leaves nothing behind.
OffInv ==
  \A k \in CRs : (~loop[k].on => loop[k] = NoLoop) /\ (~dying[k].on => dying[k] = Gone)

\* The reconcile that stopped a loop waits for it, and no other runs meanwhile.
StopInv ==
  /\ \A k \in CRs : dying[k].on => At("stop") /\ rec.k = k
  /\ At("stop") \/ At("place") => ~loop[rec.k].on
  /\ At("stop") => rec.c = Absent \/ (rec.c.uid # 0 /\ Usable(rec.c.spec))
  /\ At("place") => rec.c.uid # 0 /\ Usable(rec.c.spec)

\* A single bridge has its object to itself, for good.
SingleInv ==
  mode = "single" =>
    /\ ~At("stop") /\ ~At("place")
    /\ \A j, k \in CRs : loop[j].on /\ loop[k].on => j = k
    /\ \A k \in CRs : cr[k].uid # 0 => loop[k].on

\* Loops run on what was found good and, under the supervisor, on a client of theirs.
SoundInv ==
  \A k \in CRs : loop[k].on =>
    /\ Usable(loop[k].spec) /\ loop[k].client \in Specs
    /\ mode = "supervisor" =>
         EndpointIdentity(Loaded[loop[k].client]) = EndpointIdentity(Loaded[loop[k].spec])

\* Claims are disjoint, those of a loop that is still stopping included.
ClaimInv ==
  \A j, k \in CRs : j # k /\ loop[j].on =>
    /\ loop[k].on => ~Conflicts(loop[j].spec, loop[k].spec)
    /\ dying[k].on => ~Conflicts(loop[j].spec, dying[k].spec)

ManagedInv == OffInv /\ StopInv /\ SingleInv /\ SoundInv /\ ClaimInv

\* UIDs are given out once.
NewestUid == 1 + MaxEdits - budget.edits

UidInv ==
  /\ budget.edits <= MaxEdits
  /\ \A k \in CRs : cr[k].uid <= NewestUid /\ cache[k].uid <= NewestUid /\ loop[k].uid <= NewestUid
  /\ rec # Idle => rec.c.uid <= NewestUid

\* What is known of an object is one of its generations, and a generation has one spec.
Past(x, k) ==
  x.uid = cr[k].uid /\ x.uid # 0 =>
    x.gen <= cr[k].gen /\ (x.gen = cr[k].gen => x.spec = cr[k].spec)

PastInv ==
  /\ \A k \in CRs : Past(cache[k], k) /\ Past(loop[k], k)
  /\ rec # Idle => Past(rec.c, rec.k)

\* The informer's copy has what no event is due for, and what a condition was written for.
CopyInv ==
  \A k \in CRs :
    /\ k \notin news => cache[k] = cr[k]
    /\ cr[k].uid # 0 /\ cr[k].ready.of = cr[k].uid =>
         cache[k].uid = cr[k].uid /\ cr[k].ready.obs <= cache[k].gen

KnownInv == UidInv /\ PastInv /\ CopyInv

\* No request for k is due: the reconcile in progress, if it is about k, knows the
\* latest, and otherwise the bridge of k does.
Due(k) == k \in news \union queue

DoneAt(k) ==
  ~Due(k) /\ cr[k].uid # 0 =>
    IF rec # Idle /\ rec.k = k
    THEN /\ ~At("report") => rec.c = cr[k]
         /\ At("report") /\ rec.reason = "InvalidSpec" => ~Usable(cr[k].spec)
    ELSE /\ ~Usable(cr[k].spec) => cr[k].ready.reason = "InvalidSpec"
         /\ Usable(cr[k].spec) =>
              /\ loop[k].on /\ loop[k].gen = cr[k].gen
              /\ mode = "single" => loop[k].spec = cr[k].spec

DoneInv == \A k \in CRs : DoneAt(k)

\* The latest spec of k was rejected, and its condition says so.
Refused(k) ==
  /\ cr[k].uid # 0 /\ ~Usable(cr[k].spec)
  /\ cr[k].ready = [reason |-> "InvalidSpec", obs |-> cr[k].gen, of |-> cr[k].uid]

\* Then nothing that runs will say otherwise.
RefusedAt(k) ==
  Refused(k) =>
    /\ loop[k].on => writer[k].rejected
    /\ rec # Idle /\ rec.k = k => At("report") /\ rec.reason = "InvalidSpec"

RefusedInv == \A k \in CRs : RefusedAt(k)

FleetInv ==
  /\ TypeOK /\ ManagedInv /\ KnownInv /\ DoneInv /\ RefusedInv

-----------------------------------------------------------------------------
(* Types *)

\* The records the code writes are of the declared types.
LEMMA Records ==
  /\ Unset \in Condition /\ Absent \in Object /\ Absent.uid = 0
  /\ NoLoop \in Loop /\ ~NoLoop.on /\ NoLoop.uid = 0 /\ NoLoop.tick = NoSpec
  /\ NoWriter \in Writer /\ Gone \in Retired /\ ~Gone.on
  /\ \A s \in Specs : Existing(s) \in Object
BY DEF Unset, Condition, Reasons, Absent, Object, NoLoop, Loop, NoWriter, Writer, Gone,
       Retired, Existing

LEMMA Constants ==
  /\ MaxEdits \in Nat /\ MaxFaults \in Nat /\ NoSpec \notin Specs
  /\ Vetted \subseteq Valid /\ Valid \subseteq Specs /\ \A s : Usable(s) => s \in Specs
  /\ Initially \subseteq Specs \union {NoSpec}
BY FleetConstantsOK DEF Vetted, Valid, Usable

LEMMA Budget ==
  ASSUME TypeOK
  PROVE  /\ budget.edits \in Nat /\ budget.faults \in Nat
         /\ Spend("edits") => /\ budget' \in [{"edits", "faults"} -> Nat]
                              /\ budget.edits > 0 /\ budget'.edits = budget.edits - 1
         /\ Spend("faults") => /\ budget' \in [{"edits", "faults"} -> Nat]
                               /\ budget'.edits = budget.edits
BY DEF TypeOK, Spend

\* The client of a spec is known by a spec with the same endpoint.
LEMMA Clients ==
  ASSUME NEW s \in Specs
  PROVE  /\ Endpoint[s] \in Specs
         /\ EndpointIdentity(Loaded[Endpoint[s]]) = EndpointIdentity(Loaded[s])
<1> DEFINE Same(t) == EndpointIdentity(Loaded[t]) = EndpointIdentity(Loaded[s])
<1>1. \E t \in Specs : Same(t)
  OBVIOUS
<1>2. Endpoint[s] = CHOOSE t \in Specs : Same(t)
  BY DEF Endpoint
<1> QED
  BY <1>1, <1>2

\* What a report may do to the objects: nothing, or write the condition.
Mark(k, reason) == [reason |-> reason, obs |-> cache[k].gen, of |-> cache[k].uid]

Marks(k, reason) ==
  \/ UNCHANGED <<cr, cache, news>>
  \/ /\ cr[k].uid # 0 /\ cache[k].uid # 0 /\ news' = news \union {k}
     /\ cr' = [cr EXCEPT ![k].ready = Mark(k, reason)]
     /\ cache' = IF cache[k].uid = cr[k].uid
                 THEN [cache EXCEPT ![k].ready = Mark(k, reason)] ELSE cache

LEMMA Marking ==
  ASSUME TypeOK, NEW k \in CRs, NEW reason
  PROVE  /\ Writes(k, reason) => Marks(k, reason) /\ UNCHANGED budget
         /\ FailsToWrite(k) => /\ UNCHANGED <<cr, cache, news>>
                               /\ budget' \in [{"edits", "faults"} -> Nat]
                               /\ budget'.edits = budget.edits
<1>1. Writes(k, reason) => Marks(k, reason) /\ UNCHANGED budget
  BY DEF Writes, Marks, Mark
<1>2. FailsToWrite(k) => /\ UNCHANGED <<cr, cache, news>>
                         /\ budget' \in [{"edits", "faults"} -> Nat]
                         /\ budget'.edits = budget.edits
  BY Budget DEF FailsToWrite, TypeOK
<1> QED
  BY <1>1, <1>2

LEMMA Reporting ==
  ASSUME TypeOK, NEW k \in CRs, NEW w \in Writer, NEW state, NEW after,
         ReportsTick(k, w, state, after)
  PROVE  /\ Marks(k, state)
         /\ budget' \in [{"edits", "faults"} -> Nat] /\ budget'.edits = budget.edits
         /\ w.rejected => after = w /\ UNCHANGED <<cr, cache, news>>
         /\ after.rejected = w.rejected
<1>1. CASE Silent(w, state) /\ after = w /\ UNCHANGED <<cr, cache, news, budget>>
  BY <1>1 DEF Marks, TypeOK
<1>2. CASE ~Silent(w, state) /\ Writes(k, state) /\ after = [w EXCEPT !.last = state]
  BY <1>2, Marking DEF Silent, TypeOK, Writer
<1>3. CASE ~Silent(w, state) /\ FailsToWrite(k) /\ after = w
  BY <1>3, Marking DEF Silent, Marks
<1> QED
  BY <1>1, <1>2, <1>3 DEF ReportsTick

LEMMA Marked ==
  ASSUME TypeOK, NEW k \in CRs, NEW reason \in Reasons, Marks(k, reason)
  PROVE  /\ cr' \in [CRs -> Object] /\ cache' \in [CRs -> Object] /\ news' \subseteq CRs
         /\ \A j \in CRs :
              /\ cr'[j].uid = cr[j].uid /\ cr'[j].gen = cr[j].gen /\ cr'[j].spec = cr[j].spec
              /\ cache'[j].uid = cache[j].uid /\ cache'[j].gen = cache[j].gen
              /\ cache'[j].spec = cache[j].spec
              /\ j # k => cr'[j] = cr[j] /\ cache'[j] = cache[j] /\ (j \in news' <=> j \in news)
         /\ \/ UNCHANGED <<cr, cache, news>>
            \/ /\ k \in news' /\ cr'[k].ready = Mark(k, reason)
               /\ cr[k].uid # 0 /\ cache[k].uid # 0
<1> DEFINE c == Mark(k, reason)
<1>0. cr \in [CRs -> Object] /\ cache \in [CRs -> Object] /\ news \subseteq CRs
  BY DEF TypeOK
<1>1. c \in Condition
  BY <1>0 DEF Mark, Condition, Object
<1>2. \A o \in Object : /\ [o EXCEPT !.ready = c] \in Object
                        /\ [o EXCEPT !.ready = c].uid = o.uid
                        /\ [o EXCEPT !.ready = c].gen = o.gen
                        /\ [o EXCEPT !.ready = c].spec = o.spec
                        /\ [o EXCEPT !.ready = c].ready = c
  BY <1>1 DEF Object
<1> HIDE DEF c
<1>3. CASE UNCHANGED <<cr, cache, news>>
  BY <1>0, <1>3
<1>4. CASE /\ cr[k].uid # 0 /\ cache[k].uid # 0 /\ news' = news \union {k}
           /\ cr' = [cr EXCEPT ![k].ready = c]
           /\ cache' = IF cache[k].uid = cr[k].uid THEN [cache EXCEPT ![k].ready = c] ELSE cache
  <2>1. /\ cr' = [cr EXCEPT ![k] = [cr[k] EXCEPT !.ready = c]]
        /\ cache' = IF cache[k].uid = cr[k].uid
                    THEN [cache EXCEPT ![k] = [cache[k] EXCEPT !.ready = c]] ELSE cache
    BY <1>4
  <2>2. /\ cr' \in [CRs -> Object] /\ cr'[k].ready = c
        /\ \A j \in CRs : /\ cr'[j].uid = cr[j].uid /\ cr'[j].gen = cr[j].gen
                          /\ cr'[j].spec = cr[j].spec /\ (j # k => cr'[j] = cr[j])
    BY <1>0, <1>2, <2>1
  <2>3. /\ cache' \in [CRs -> Object]
        /\ \A j \in CRs : /\ cache'[j].uid = cache[j].uid /\ cache'[j].gen = cache[j].gen
                          /\ cache'[j].spec = cache[j].spec /\ (j # k => cache'[j] = cache[j])
    <3>1. CASE cache[k].uid = cr[k].uid
      BY <1>0, <1>2, <2>1, <3>1
    <3>2. CASE cache[k].uid # cr[k].uid
      BY <1>0, <2>1, <3>2
    <3> QED
      BY <3>1, <3>2
  <2> QED
    BY <1>0, <1>4, <2>2, <2>3 DEF c
<1> QED
  BY <1>3, <1>4 DEF Marks, c

\* A reconcile under way has an object.
Requests == [pc : {"stop", "place", "report"}, k : CRs, c : Object, reason : Reasons]

LEMMA UnderWay ==
  ASSUME TypeOK
  PROVE  /\ rec = Idle \/ rec \in Requests
         /\ At("idle") <=> rec = Idle
         /\ rec # Idle => rec \in Requests /\ rec.k \in CRs /\ rec.c \in Object
                          /\ rec.reason \in Reasons
         /\ At("stop") \/ At("place") \/ At("report") => rec # Idle
BY DEF TypeOK, Requests, Idle, At

LEMMA Going ==
  ASSUME NEW k \in CRs, NEW c \in Object, NEW pc \in {"stop", "place"}, Goto(pc, k, c)
  PROVE  /\ rec' \in Requests /\ rec'.pc = pc /\ rec'.k = k /\ rec'.c = c /\ rec' # Idle
BY DEF Goto, Requests, Reasons, Idle

LEMMA Refusing ==
  ASSUME NEW k \in CRs, NEW reason \in Reasons, Report(k, reason)
  PROVE  /\ rec' \in Requests /\ rec'.pc = "report" /\ rec'.k = k /\ rec'.c = Absent
         /\ rec'.reason = reason /\ rec' # Idle
BY Records DEF Report, Requests, Idle

\* What becomes of a loop is a loop.
LEMMA Loops ==
  /\ \A c \in Object : Usable(c.spec) =>
       /\ Launched(c) \in Loop
       /\ Launched(c).on /\ Launched(c).spec = c.spec /\ Launched(c).gen = c.gen
       /\ Launched(c).uid = c.uid /\ Launched(c).client = Endpoint[c.spec]
       /\ Launched(c).tick = NoSpec
  /\ \A l \in Loop, c \in Object :
       /\ Reloaded(l, c) \in Loop
       /\ Reloaded(l, c).on = l.on /\ Reloaded(l, c).spec = c.spec /\ Reloaded(l, c).gen = c.gen
       /\ Reloaded(l, c).uid = c.uid /\ Reloaded(l, c).client = l.client
       /\ Reloaded(l, c).tick = l.tick
  /\ \A l \in Loop, t \in Specs \union {NoSpec} :
       /\ [l EXCEPT !.tick = t] \in Loop
       /\ [l EXCEPT !.tick = t].on = l.on /\ [l EXCEPT !.tick = t].spec = l.spec
       /\ [l EXCEPT !.tick = t].gen = l.gen /\ [l EXCEPT !.tick = t].uid = l.uid
       /\ [l EXCEPT !.tick = t].client = l.client
<1>1. \A c \in Object : Usable(c.spec) => Endpoint[c.spec] \in Specs
  BY Clients, Constants
<1> QED
  BY <1>1, Records DEF Launched, Reloaded, NoLoop, Loop, Object

LEMMA Writers ==
  ASSUME NEW w \in Writer
  PROVE  /\ Cleared(w) \in Writer /\ Rejected(w) \in Writer /\ Rejected(w).rejected
BY Records DEF Cleared, Rejected, Writer

LEMMA Forgetting ==
  ASSUME TypeOK, NEW k \in CRs, Forget(k)
  PROVE  /\ loop' \in [CRs -> Loop] /\ writer' \in [CRs -> Writer] /\ dying' \in [CRs -> Retired]
         /\ blocked' \subseteq CRs /\ loop'[k] = NoLoop
         /\ \A j \in CRs : j # k => /\ loop'[j] = loop[j] /\ dying'[j] = dying[j]
                                    /\ writer'[j] = writer[j]
         /\ dying'[k].on => (dying'[k] = dying[k] /\ ~loop[k].on)
                            \/ (loop[k].on /\ dying'[k].spec = loop[k].spec)
         /\ ~loop[k].on => dying' = dying
         /\ loop[k].on => dying'[k].on
<1>0. /\ loop \in [CRs -> Loop] /\ writer \in [CRs -> Writer] /\ dying \in [CRs -> Retired]
      /\ blocked \subseteq CRs
  BY DEF TypeOK
<1>1. /\ loop' \in [CRs -> Loop] /\ writer' \in [CRs -> Writer] /\ loop'[k] = NoLoop
      /\ blocked' \subseteq CRs
      /\ \A j \in CRs : j # k => loop'[j] = loop[j] /\ writer'[j] = writer[j]
  BY <1>0, Records DEF Forget
<1>2. CASE loop[k].on
  <2> DEFINE g == [on |-> TRUE, spec |-> loop[k].spec, tick |-> loop[k].tick, w |-> writer[k]]
  <2>1. g \in Retired /\ g.on /\ g.spec = loop[k].spec
    BY <1>0 DEF Retired, Loop
  <2>2. dying' = [dying EXCEPT ![k] = g]
    BY <1>2 DEF Forget
  <2> HIDE DEF g
  <2> QED
    BY <1>0, <1>1, <1>2, <2>1, <2>2
<1>3. CASE ~loop[k].on
  BY <1>0, <1>1, <1>3 DEF Forget
<1> QED
  BY <1>2, <1>3

LEMMA TypeInit == Init => TypeOK
<1> SUFFICES ASSUME Init PROVE TypeOK
  OBVIOUS
<1>1. /\ mode \in {"supervisor", "single"} /\ cr \in [CRs -> Object] /\ loop \in [CRs -> Loop]
  <2>1. CASE /\ mode = "supervisor"
             /\ cr \in [CRs -> {IF s = NoSpec THEN Absent ELSE Existing(s) : s \in Initially}]
             /\ loop = [k \in CRs |-> NoLoop]
    <3>1. \A s \in Initially : (IF s = NoSpec THEN Absent ELSE Existing(s)) \in Object
      BY Records, Constants
    <3>2. {IF s = NoSpec THEN Absent ELSE Existing(s) : s \in Initially} \subseteq Object
      BY <3>1
    <3> QED
      BY <2>1, <3>2, Records
  <2>2. ASSUME NEW k \in CRs, NEW s \in Initially \intersect Vetted, mode = "single",
               cr = [o \in CRs |-> IF o = k THEN Existing(s) ELSE Absent],
               loop = [o \in CRs |-> IF o = k THEN Launched(Existing(s)) ELSE NoLoop]
        PROVE  mode \in {"single"} /\ cr \in [CRs -> Object] /\ loop \in [CRs -> Loop]
    <3>1. Existing(s) \in Object /\ Usable(Existing(s).spec)
      BY <2>2, Constants, Records DEF Existing, Usable
    <3> QED
      BY <2>2, <3>1, Records, Loops
  <2> QED
    BY <2>1, <2>2 DEF Init
<1>2. budget \in [{"edits", "faults"} -> Nat]
  BY Constants DEF Init
<1> QED
  BY <1>1, <1>2, Records DEF Init, TypeOK

LEMMA TypeReconcile ==
  ASSUME TypeOK, NEW k \in CRs, Reconcile(k)
  PROVE  TypeOK'
<1>0. /\ loop \in [CRs -> Loop] /\ cache \in [CRs -> Object] /\ writer \in [CRs -> Writer]
      /\ cache[k] \in Object /\ loop[k] \in Loop /\ writer[k] \in Writer
  BY DEF TypeOK
<1>1. CASE Deleted(k)
  <2>1. rec' = Idle \/ rec' \in Requests
    BY <1>1, Going, Records DEF Deleted
  <2> QED
    BY <1>1, <2>1, Forgetting DEF Deleted, TypeOK, Requests, Take
<1>2. CASE RefuseInvalid(k)
  <2>1. rec' \in Requests /\ blocked' \subseteq CRs
    BY <1>2, Refusing DEF RefuseInvalid, Refuse, Reasons, TypeOK
  <2> QED
    BY <1>2, <2>1 DEF RefuseInvalid, TypeOK, Requests, Take
<1>3. CASE Unchanged(k)
  BY <1>3 DEF Unchanged, TypeOK, Take
<1>4. CASE HotReload(k)
  <2>1. loop' \in [CRs -> Loop] /\ writer' \in [CRs -> Writer]
    BY <1>0, <1>4, Loops, Writers DEF HotReload
  <2> QED
    BY <1>4, <2>1 DEF HotReload, TypeOK, Take
<1>5. CASE Restart(k)
  <2>1. rec' \in Requests
    BY <1>0, <1>5, Going DEF Restart
  <2> QED
    BY <1>5, <2>1, Forgetting DEF Restart, TypeOK, Requests, Take
<1>6. CASE Arrive(k)
  <2>1. rec' \in Requests
    BY <1>0, <1>6, Going DEF Arrive
  <2> QED
    BY <1>6, <2>1 DEF Arrive, TypeOK, Requests, Take
<1>7. CASE Reload(k)
  <2>1. CASE Good(k)
    <3>0. /\ loop' = [loop EXCEPT ![k] = Reloaded(loop[k], cache[k])]
          /\ writer' = [writer EXCEPT ![k] = Cleared(writer[k])]
      BY <1>7, <2>1 DEF Reload
    <3>1. loop' \in [CRs -> Loop] /\ writer' \in [CRs -> Writer]
      BY <1>0, <3>0, Loops, Writers
    <3> QED
      BY <1>7, <2>1, <3>1 DEF Reload, TypeOK
  <2>2. CASE ~Good(k)
    <3>1. rec' \in Requests
      BY <1>7, <2>2, Refusing DEF Reload, Reasons
    <3> QED
      BY <1>7, <2>2, <3>1 DEF Reload, TypeOK, Requests
  <2> QED
    BY <2>1, <2>2
<1> QED
  BY <1>1, <1>2, <1>3, <1>4, <1>5, <1>6, <1>7 DEF Reconcile

LEMMA TypeContinue ==
  ASSUME TypeOK, StopInv, Continue
  PROVE  TypeOK'
<1>0. rec # Idle /\ rec \in Requests /\ rec.k \in CRs /\ rec.c \in Object /\ rec.reason \in Reasons
  BY UnderWay DEF Continue, Stopped, RefuseConflict, StartFails, Start, ReportRejection
<1>1. CASE Stopped
  <2>1. rec' = Idle \/ rec' \in Requests
    BY <1>0, <1>1, Going DEF Stopped
  <2> QED
    BY <1>1, <2>1 DEF Stopped, TypeOK, Requests
<1>2. CASE RefuseConflict
  <2>1. rec' \in Requests /\ blocked' \subseteq CRs
    BY <1>0, <1>2, Refusing DEF RefuseConflict, Refuse, Reasons, TypeOK
  <2> QED
    BY <1>2, <2>1 DEF RefuseConflict, TypeOK, Requests
<1>3. CASE StartFails
  <2>1. rec' \in Requests /\ blocked' \subseteq CRs
    BY <1>0, <1>3, Refusing DEF StartFails, Refuse, Reasons, TypeOK
  <2> QED
    BY <1>3, <2>1, Budget DEF StartFails, TypeOK, Requests
<1>4. CASE Start
  <2>1. Launched(rec.c) \in Loop
    BY <1>0, <1>4, Loops DEF Start, StopInv
  <2>2. loop' \in [CRs -> Loop] /\ writer' \in [CRs -> Writer]
    BY <1>0, <1>4, <2>1, Writers DEF Start, TypeOK
  <2> QED
    BY <1>4, <2>2 DEF Start, TypeOK
<1>5. CASE ReportRejection
  <2>1. writer' \in [CRs -> Writer] /\ queue' \subseteq CRs
    BY <1>0, <1>5, Writers DEF ReportRejection, TypeOK, Retried
  <2>2. Marks(rec.k, rec.reason) /\ budget' \in [{"edits", "faults"} -> Nat]
    BY <1>0, <1>5, Marking DEF ReportRejection, Marks, TypeOK
  <2>3. cr' \in [CRs -> Object] /\ cache' \in [CRs -> Object] /\ news' \subseteq CRs
    BY <1>0, <2>2, Marked
  <2> QED
    BY <1>5, <2>1, <2>2, <2>3 DEF ReportRejection, TypeOK
<1> QED
  BY <1>1, <1>2, <1>3, <1>4, <1>5 DEF Continue

LEMMA TypeTicks ==
  ASSUME TypeOK, NEW k \in CRs, Ticks(k) \/ Returns(k)
  PROVE  TypeOK'
<1>0. loop \in [CRs -> Loop] /\ loop[k] \in Loop /\ writer \in [CRs -> Writer]
      /\ writer[k] \in Writer /\ dying \in [CRs -> Retired] /\ dying[k].w \in Writer
  BY DEF TypeOK, Retired
<1>1. CASE TickBegins(k)
  <2>1. loop[k].spec \in Specs \union {NoSpec}
    BY <1>0 DEF Loop
  <2>2. loop' \in [CRs -> Loop]
    BY <1>0, <1>1, <2>1, Loops DEF TickBegins
  <2> QED
    BY <1>1, <2>2 DEF TickBegins, TypeOK
<1>2. ASSUME NEW state \in {"ok", "fail"}, TickEnds(k, state)
      PROVE  TypeOK'
  <2>1. PICK after \in Writer : ReportsTick(k, writer[k], state, after)
                                /\ writer' = [writer EXCEPT ![k] = after]
    BY <1>2 DEF TickEnds
  <2>2. Marks(k, state) /\ budget' \in [{"edits", "faults"} -> Nat]
    BY <1>0, <2>1, Reporting
  <2>3. cr' \in [CRs -> Object] /\ cache' \in [CRs -> Object] /\ news' \subseteq CRs
    BY <2>2, Marked DEF Reasons
  <2>4. loop' \in [CRs -> Loop] /\ writer' \in [CRs -> Writer]
    BY <1>0, <1>2, <2>1, Loops DEF TickEnds
  <2> QED
    BY <1>2, <2>2, <2>3, <2>4 DEF TickEnds, TypeOK
<1>3. ASSUME NEW state \in {"ok", "fail"}, LoopReturns(k, state)
      PROVE  TypeOK'
  <2>1. dying' \in [CRs -> Retired]
    BY <1>0, <1>3, Records DEF LoopReturns
  <2>2. Marks(k, state) /\ budget' \in [{"edits", "faults"} -> Nat]
    BY <1>0, <1>3, Reporting DEF LoopReturns, Marks, TypeOK
  <2>3. cr' \in [CRs -> Object] /\ cache' \in [CRs -> Object] /\ news' \subseteq CRs
    BY <2>2, Marked DEF Reasons
  <2> QED
    BY <1>3, <2>1, <2>2, <2>3 DEF LoopReturns, TypeOK
<1> QED
  BY <1>1, <1>2, <1>3 DEF Ticks, Returns

\* An object that is created has a UID of its own.
LEMMA Creating ==
  ASSUME TypeOK, UidInv, NEW k \in CRs, NEW s \in Specs, Create(k, s)
  PROVE  /\ cr' \in [CRs -> Object] /\ cr'[k].uid = NewestUid + 1 /\ NewestUid \in Nat
         /\ cr'[k].ready = Unset /\ \A j \in CRs : j # k => cr'[j] = cr[j]
<1>1. NewestUid \in Nat
  BY Budget, Constants DEF UidInv, NewestUid
<1>2. 2 + MaxEdits - budget.edits = NewestUid + 1
  BY Budget, Constants DEF NewestUid
<1> DEFINE o == [Existing(s) EXCEPT !.uid = NewestUid + 1]
<1>3. o \in Object /\ o.uid = NewestUid + 1 /\ o.ready = Unset
  BY <1>1, Records DEF Existing, Object
<1>4. cr' = [cr EXCEPT ![k] = o]
  BY <1>2 DEF Create, Change
<1> HIDE DEF o
<1> QED
  BY <1>1, <1>3, <1>4 DEF TypeOK

LEMMA Editing ==
  ASSUME TypeOK, NEW k \in CRs, NEW s \in Specs, Edit(k, s)
  PROVE  /\ cr' \in [CRs -> Object] /\ cr'[k].uid = cr[k].uid /\ cr'[k].gen = cr[k].gen + 1
         /\ cr'[k].ready = cr[k].ready /\ \A j \in CRs : j # k => cr'[j] = cr[j]
<1>0. cr[k] \in Object
  BY DEF TypeOK
<1> PICK gen \in Nat : gen = cr[k].gen + 1
  BY <1>0 DEF Object
<1> DEFINE o == [cr[k] EXCEPT !.spec = s, !.gen = gen]
<1>1. o \in Object /\ o.uid = cr[k].uid /\ o.gen = cr[k].gen + 1 /\ o.ready = cr[k].ready
  BY <1>0 DEF Object
<1>2. cr' = [cr EXCEPT ![k] = o]
  BY DEF Edit, Change
<1> HIDE DEF o
<1> QED
  BY <1>1, <1>2 DEF TypeOK

LEMMA TypeAround ==
  ASSUME TypeOK, UidInv, NEW k \in CRs, SyncCache(k) \/ Edits(k)
  PROVE  TypeOK'
<1>1. CASE SyncCache(k)
  BY <1>1 DEF SyncCache, TypeOK
<1>2. CASE Edits(k)
  <2>1. cr' \in [CRs -> Object]
    BY <1>2, Creating, Editing, Records DEF Edits, Delete, Change, TypeOK
  <2>2. Spend("edits") /\ news' = news \union {k}
        /\ UNCHANGED <<mode, cache, queue, rec, loop, dying, writer, blocked>>
    BY <1>2 DEF Edits, Delete, Create, Edit, Change
  <2> QED
    BY <2>1, <2>2, Budget DEF TypeOK
<1> QED
  BY <1>1, <1>2

LEMMA TypeStep ==
  ASSUME TypeOK, StopInv, UidInv, [Next]_vars
  PROVE  TypeOK'
<1>1. CASE Handover
  BY <1>1, Budget, Records DEF Handover, TypeOK
<1>2. CASE UNCHANGED vars
  BY <1>2 DEF vars, TypeOK
<1> QED
  BY <1>1, <1>2, TypeReconcile, TypeContinue, TypeTicks, TypeAround DEF Next

-----------------------------------------------------------------------------
(* Loops and claims *)

LEMMA Symmetric ==
  ASSUME NEW s, NEW t, Conflicts(s, t)
  PROVE  Conflicts(t, s)
BY DEF Conflicts

\* Only a reconcile that stops a loop sees one that is stopping.
LEMMA NoneDying ==
  ASSUME TypeOK, StopInv, ~At("stop") \/ (rec.k \in CRs /\ ~dying[rec.k].on)
  PROVE  \A k \in CRs : ~dying[k].on
BY DEF StopInv

LEMMA ManagedInit == Init => ManagedInv
<1> SUFFICES ASSUME Init PROVE ManagedInv
  OBVIOUS
<1>1. /\ \A k \in CRs : dying[k] = Gone /\ ~dying[k].on
      /\ rec = Idle /\ ~At("stop") /\ ~At("place")
  BY Records DEF Init, At, Idle
<1>2. CASE mode = "supervisor" /\ loop = [k \in CRs |-> NoLoop]
  <2>1. \A k \in CRs : loop[k] = NoLoop /\ ~loop[k].on
    BY <1>2, Records
  <2> QED
    BY <1>1, <1>2, <2>1 DEF ManagedInv, OffInv, StopInv, SingleInv, SoundInv, ClaimInv
<1>3. ASSUME NEW k \in CRs, NEW s \in Initially \intersect Vetted, mode = "single",
             cr = [o \in CRs |-> IF o = k THEN Existing(s) ELSE Absent],
             loop = [o \in CRs |-> IF o = k THEN Launched(Existing(s)) ELSE NoLoop]
      PROVE  ManagedInv
  <2>1. Existing(s) \in Object /\ Usable(s) /\ Existing(s).spec = s /\ s \in Specs
    BY <1>3, Constants, Records DEF Existing, Usable
  <2>2. /\ loop[k].on /\ loop[k].spec = s /\ loop[k].client \in Specs
        /\ \A j \in CRs : j # k => /\ loop[j] = NoLoop /\ ~loop[j].on /\ cr[j].uid = 0
    BY <1>3, <2>1, Loops, Clients, Records
  <2> QED
    BY <1>1, <1>3, <2>1, <2>2 DEF ManagedInv, OffInv, StopInv, SingleInv, SoundInv, ClaimInv
<1> QED
  BY <1>2, <1>3 DEF Init

\* The step starts, stops and reloads nothing.
SameLoops ==
  \A j \in CRs :
    /\ loop'[j].on = loop[j].on /\ loop'[j].spec = loop[j].spec
    /\ loop'[j].client = loop[j].client
    /\ ~loop[j].on => loop'[j] = loop[j]
    /\ dying'[j] = dying[j] \/ dying'[j] = Gone
    /\ cr'[j].uid # 0 => cr[j].uid # 0 \/ mode # "single" \/ loop[j].on

LEMMA ManagedKept ==
  ASSUME TypeOK, ManagedInv, SameLoops, mode' = mode,
         rec' = rec \/ (rec'.pc \in {"idle", "report"} /\ ~At("stop"))
  PROVE  ManagedInv'
<1> USE DEF ManagedInv
<1>1. OffInv'
  BY DEF OffInv, SameLoops
<1>2. StopInv'
  BY Records, UnderWay DEF StopInv, SameLoops, Usable, At
<1>3. SingleInv'
  BY DEF SingleInv, SameLoops, At
<1>4. SoundInv'
  BY DEF SoundInv, SameLoops, Usable
<1>5. ClaimInv'
  BY Records DEF ClaimInv, SameLoops
<1> QED
  BY <1>1, <1>2, <1>3, <1>4, <1>5

\* stop: the claims of the loop stay until it has returned.
LEMMA ManagedForget ==
  ASSUME TypeOK, ManagedInv, NEW k \in CRs, NEW c \in Object, ~At("stop"), mode = "supervisor",
         Forget(k), loop[k].on, Goto("stop", k, c), UNCHANGED <<mode, cr>>,
         c = Absent \/ (c.uid # 0 /\ Usable(c.spec))
  PROVE  ManagedInv'
<1> USE DEF ManagedInv
<1>1. \A j \in CRs : ~dying[j].on
  BY NoneDying
<1>2. /\ loop'[k] = NoLoop /\ ~loop'[k].on /\ dying'[k].on /\ dying'[k].spec = loop[k].spec
      /\ \A j \in CRs : j # k => loop'[j] = loop[j] /\ dying'[j] = dying[j]
  BY <1>1, Forgetting, Records
<1>3. rec' # Idle /\ rec'.pc = "stop" /\ rec'.k = k /\ rec'.c = c
  BY Going
<1>4. OffInv'
  BY <1>2 DEF OffInv
<1>5. StopInv'
  BY <1>1, <1>2, <1>3 DEF StopInv, Usable, At
<1>6. SingleInv' /\ SoundInv'
  BY <1>2 DEF SingleInv, SoundInv, Usable
<1>7. ClaimInv'
  BY <1>1, <1>2 DEF ClaimInv
<1> QED
  BY <1>4, <1>5, <1>6, <1>7

\* A loop that starts or reloads has no conflict with another.
LEMMA ManagedLaunch ==
  ASSUME TypeOK, ManagedInv, NEW k \in CRs, NEW s, ~At("stop"), UNCHANGED <<mode, cr, dying>>,
         rec' = Idle, loop'[k].on, loop'[k].spec = s, Usable(s), loop'[k].client \in Specs,
         mode = "supervisor" =>
           EndpointIdentity(Loaded[loop'[k].client]) = EndpointIdentity(Loaded[s]),
         mode = "single" => loop[k].on,
         \A j \in CRs : j # k => loop'[j] = loop[j] /\ (loop[j].on => ~Conflicts(s, loop[j].spec))
  PROVE  ManagedInv'
<1> USE DEF ManagedInv
<1>1. \A j \in CRs : ~dying[j].on /\ ~dying'[j].on
  BY NoneDying
<1>2. OffInv'
  BY <1>1 DEF OffInv
<1>3. StopInv' /\ SingleInv'
  BY <1>1 DEF StopInv, SingleInv, At, Idle
<1>4. SoundInv'
  BY DEF SoundInv, Usable
<1>5. ClaimInv'
  BY <1>1, Symmetric DEF ClaimInv
<1> QED
  BY <1>2, <1>3, <1>4, <1>5

LEMMA ManagedReconcile ==
  ASSUME TypeOK, ManagedInv, NEW k \in CRs, Reconcile(k)
  PROVE  ManagedInv'
<1>0. /\ loop \in [CRs -> Loop] /\ cache \in [CRs -> Object] /\ loop[k] \in Loop
      /\ cache[k] \in Object /\ At("idle") /\ ~At("stop") /\ rec = Idle
  BY UnderWay DEF TypeOK, Reconcile, Deleted, RefuseInvalid, Unchanged, HotReload, Restart,
                  Arrive, Reload, Take, At
<1>1. CASE Deleted(k)
  <2>1. CASE loop[k].on
    BY <1>0, <1>1, <2>1, ManagedForget, Records DEF Deleted, Take
  <2>2. CASE ~loop[k].on
    <3>1. SameLoops /\ rec' = Idle
      BY <1>1, <2>2, Forgetting DEF Deleted, SameLoops, ManagedInv, OffInv
    <3> QED
      BY <1>0, <1>1, <3>1, ManagedKept DEF Deleted, Idle
  <2> QED
    BY <2>1, <2>2
<1>2. CASE RefuseInvalid(k)
  BY <1>0, <1>2, ManagedKept DEF RefuseInvalid, Refuse, Report, SameLoops
<1>3. CASE Unchanged(k)
  BY <1>0, <1>3, ManagedKept DEF Unchanged, SameLoops
<1>4. CASE HotReload(k)
  <2>1. Usable(cache[k].spec) /\ cache[k].spec \in Specs
    BY <1>4, Constants DEF HotReload, Good
  <2>2. loop' = [loop EXCEPT ![k] = Reloaded(loop[k], cache[k])]
    BY <1>4 DEF HotReload
  <2>3. /\ loop'[k].on /\ loop'[k].spec = cache[k].spec /\ loop'[k].client = loop[k].client
        /\ \A j \in CRs : j # k => loop'[j] = loop[j]
    BY <1>0, <1>4, <2>2, Loops DEF HotReload
  <2>4. /\ loop[k].client \in Specs /\ loop[k].spec \in Specs
        /\ mode = "supervisor" =>
             EndpointIdentity(Loaded[loop[k].client]) = EndpointIdentity(Loaded[loop[k].spec])
    BY <1>4, Constants DEF HotReload, ManagedInv, SoundInv
  <2>5. EndpointIdentity(Loaded[loop[k].spec]) = EndpointIdentity(Loaded[cache[k].spec])
    BY <1>4, <2>1, <2>4, Clients DEF HotReload, SameEndpoint
  <2>6. \A j \in CRs : j # k /\ loop[j].on => ~Conflicts(cache[k].spec, loop[j].spec)
    BY <1>4 DEF HotReload, FindConflict
  <2> QED
    BY <1>0, <1>4, <2>1, <2>3, <2>4, <2>5, <2>6, ManagedLaunch DEF HotReload
<1>5. CASE Restart(k)
  BY <1>0, <1>5, ManagedForget DEF Restart, Take, Good
<1>6. CASE Arrive(k)
  <2>1. rec' # Idle /\ rec'.pc = "place" /\ rec'.k = k /\ rec'.c = cache[k]
    BY <1>0, <1>6, Going DEF Arrive
  <2>2. \A j \in CRs : ~dying[j].on
    BY <1>0, NoneDying DEF ManagedInv
  <2>3. StopInv'
    BY <1>6, <2>1, <2>2 DEF Arrive, Good, StopInv, Usable, At
  <2> QED
    BY <1>6, <2>3 DEF Arrive, Take, ManagedInv, OffInv, SingleInv, SoundInv, ClaimInv, Usable
<1>7. CASE Reload(k)
  <2>1. CASE Good(k)
    <3>1. Usable(cache[k].spec) /\ cache[k].spec \in Specs
      BY <2>1, Constants DEF Good
    <3>2. loop' = [loop EXCEPT ![k] = Reloaded(loop[k], cache[k])] /\ rec' = rec
          /\ UNCHANGED <<mode, cr, dying>> /\ mode = "single" /\ loop[k].on
      BY <1>7, <2>1 DEF Reload
    <3>3. /\ loop'[k].on /\ loop'[k].spec = cache[k].spec /\ loop'[k].client = loop[k].client
          /\ \A j \in CRs : j # k => loop'[j] = loop[j] /\ ~loop[j].on
      BY <1>0, <3>2, Loops DEF ManagedInv, SingleInv
    <3>4. loop[k].client \in Specs
      BY <3>2 DEF ManagedInv, SoundInv
    <3> QED
      BY <1>0, <3>1, <3>2, <3>3, <3>4, ManagedLaunch
  <2>2. CASE ~Good(k)
    BY <1>0, <1>7, <2>2, ManagedKept DEF Reload, Report, SameLoops
  <2> QED
    BY <2>1, <2>2
<1> QED
  BY <1>1, <1>2, <1>3, <1>4, <1>5, <1>6, <1>7 DEF Reconcile

LEMMA ManagedContinue ==
  ASSUME TypeOK, ManagedInv, Continue
  PROVE  ManagedInv'
<1>0. rec # Idle /\ rec \in Requests /\ rec.k \in CRs /\ rec.c \in Object /\ rec.reason \in Reasons
  BY UnderWay DEF Continue, Stopped, RefuseConflict, StartFails, Start, ReportRejection
<1>1. CASE Stopped
  <2>1. \A j \in CRs : ~dying[j].on
    BY <1>0, <1>1, NoneDying DEF Stopped, Returned, ManagedInv
  <2>2. At("stop") /\ ~loop[rec.k].on /\ mode # "single" /\ UNCHANGED <<mode, cr, loop, dying>>
    BY <1>1 DEF Stopped, ManagedInv, StopInv, SingleInv
  <2>3. \/ rec' = Idle
        \/ /\ rec'.pc = "place" /\ rec'.k = rec.k /\ rec'.c = rec.c
           /\ rec.c.uid # 0 /\ Usable(rec.c.spec)
    BY <1>0, <1>1, Going DEF Stopped, ManagedInv, StopInv
  <2>4. StopInv'
    BY <2>1, <2>2, <2>3 DEF StopInv, Usable, At, Idle
  <2> QED
    BY <2>2, <2>4 DEF ManagedInv, OffInv, SingleInv, SoundInv, ClaimInv, Usable
<1>2. CASE RefuseConflict
  BY <1>2, ManagedKept DEF RefuseConflict, Refuse, Report, SameLoops, At
<1>3. CASE StartFails
  BY <1>3, ManagedKept DEF StartFails, Refuse, Report, SameLoops, At
<1>4. CASE Start
  <2>1. rec.c.uid # 0 /\ Usable(rec.c.spec) /\ rec.c.spec \in Specs /\ mode # "single"
    BY <1>4, Constants DEF Start, ManagedInv, StopInv, SingleInv
  <2>2. loop' = [loop EXCEPT ![rec.k] = Launched(rec.c)]
    BY <1>4 DEF Start
  <2>3. /\ loop'[rec.k].on /\ loop'[rec.k].spec = rec.c.spec
        /\ loop'[rec.k].client = Endpoint[rec.c.spec]
        /\ \A j \in CRs : j # rec.k => loop'[j] = loop[j]
    BY <1>0, <2>1, <2>2, Loops DEF TypeOK
  <2>4. \A j \in CRs : j # rec.k /\ loop[j].on => ~Conflicts(rec.c.spec, loop[j].spec)
    BY <1>4 DEF Start, FindConflict
  <2>5. ~At("stop")
    BY <1>4 DEF Start, At
  <2> QED
    BY <1>0, <1>4, <2>1, <2>3, <2>4, <2>5, ManagedLaunch, Clients DEF Start
<1>5. CASE ReportRejection
  <2>1. Marks(rec.k, rec.reason)
    BY <1>0, <1>5, Marking DEF ReportRejection, Marks
  <2>2. SameLoops
    BY <1>0, <1>5, <2>1, Marked DEF ReportRejection, SameLoops
  <2> QED
    BY <1>5, <2>2, ManagedKept DEF ReportRejection, At, Idle
<1> QED
  BY <1>1, <1>2, <1>3, <1>4, <1>5 DEF Continue

LEMMA ManagedTicks ==
  ASSUME TypeOK, ManagedInv, NEW k \in CRs, Ticks(k) \/ Returns(k)
  PROVE  ManagedInv'
<1>0. /\ loop \in [CRs -> Loop] /\ loop[k] \in Loop /\ writer[k] \in Writer
      /\ dying \in [CRs -> Retired] /\ dying[k].w \in Writer
  BY DEF TypeOK, Retired
<1>1. CASE TickBegins(k)
  <2>1. loop[k].spec \in Specs \union {NoSpec}
    BY <1>0 DEF Loop
  <2>2. SameLoops
    BY <1>0, <1>1, <2>1, Loops DEF TickBegins, SameLoops
  <2> QED
    BY <1>1, <2>2, ManagedKept DEF TickBegins
<1>2. ASSUME NEW state \in {"ok", "fail"}, TickEnds(k, state)
      PROVE  ManagedInv'
  <2>1. Marks(k, state)
    BY <1>0, <1>2, Reporting DEF TickEnds
  <2>2. \A j \in CRs : cr'[j].uid = cr[j].uid
    BY <2>1, Marked DEF Reasons
  <2>3. SameLoops
    BY <1>0, <1>2, <2>2, Loops DEF TickEnds, SameLoops
  <2> QED
    BY <1>2, <2>3, ManagedKept DEF TickEnds
<1>3. ASSUME NEW state \in {"ok", "fail"}, LoopReturns(k, state)
      PROVE  ManagedInv'
  <2>1. Marks(k, state)
    BY <1>0, <1>3, Reporting DEF LoopReturns, Marks
  <2>2. SameLoops
    BY <1>0, <1>3, <2>1, Marked DEF LoopReturns, SameLoops, Reasons
  <2> QED
    BY <1>3, <2>2, ManagedKept DEF LoopReturns
<1> QED
  BY <1>1, <1>2, <1>3 DEF Ticks, Returns

LEMMA ManagedAround ==
  ASSUME TypeOK, ManagedInv, NEW k \in CRs, SyncCache(k) \/ Edits(k)
  PROVE  ManagedInv'
<1>1. CASE SyncCache(k)
  BY <1>1, ManagedKept DEF SyncCache, SameLoops
<1>2. CASE Edits(k)
  <2>1. UNCHANGED <<mode, rec, loop, dying>>
    BY <1>2 DEF Edits, Delete, Create, Edit, Change
  <2>2. \A j \in CRs : cr'[j].uid # 0 => cr[j].uid # 0 \/ mode # "single" \/ loop[j].on
    <3>1. CASE Delete(k)
      BY <3>1, Records DEF Delete, Change, TypeOK
    <3>2. ASSUME NEW s \in Specs, Create(k, s)
          PROVE  \A j \in CRs : cr'[j].uid # 0 => cr[j].uid # 0 \/ mode # "single" \/ loop[j].on
      BY <3>2 DEF Create, Change, Watched, TypeOK
    <3>3. ASSUME NEW s \in Specs, Edit(k, s)
          PROVE  \A j \in CRs : cr'[j].uid # 0 => cr[j].uid # 0 \/ mode # "single" \/ loop[j].on
      BY <3>3, Editing DEF Edit
    <3> QED
      BY <1>2, <3>1, <3>2, <3>3 DEF Edits
  <2> QED
    BY <2>1, <2>2, ManagedKept DEF SameLoops
<1> QED
  BY <1>1, <1>2

LEMMA ManagedStep ==
  ASSUME TypeOK, ManagedInv, [Next]_vars
  PROVE  ManagedInv'
<1>1. CASE Handover
  <2>1. /\ \A k \in CRs : loop'[k] = NoLoop /\ dying'[k] = Gone /\ ~loop'[k].on /\ ~dying'[k].on
        /\ rec' = Idle /\ mode' # "single"
    BY <1>1, Records DEF Handover
  <2> QED
    BY <2>1 DEF ManagedInv, OffInv, StopInv, SingleInv, SoundInv, ClaimInv, At, Idle
<1>2. CASE UNCHANGED vars
  BY <1>2, ManagedKept DEF vars, SameLoops
<1> QED
  BY <1>1, <1>2, ManagedReconcile, ManagedContinue, ManagedTicks, ManagedAround DEF Next

-----------------------------------------------------------------------------
(* What is known of objects *)

LEMMA KnownInit == Init => KnownInv
<1> SUFFICES ASSUME Init PROVE KnownInv
  OBVIOUS
<1>1. TypeOK /\ rec = Idle /\ cache = cr /\ budget.edits = MaxEdits
  BY TypeInit DEF Init
<1>2. \A k \in CRs : /\ cr[k].uid \in {0, 1} /\ cr[k].ready = Unset
                     /\ loop[k].uid = 0 \/ /\ loop[k].uid = cr[k].uid /\ loop[k].gen = cr[k].gen
                                           /\ loop[k].spec = cr[k].spec
  <2>1. CASE /\ cr \in [CRs -> {IF s = NoSpec THEN Absent ELSE Existing(s) : s \in Initially}]
             /\ loop = [k \in CRs |-> NoLoop]
    BY <2>1, Records DEF Absent, Existing
  <2>2. ASSUME NEW k \in CRs, NEW s \in Initially \intersect Vetted, mode = "single",
               cr = [o \in CRs |-> IF o = k THEN Existing(s) ELSE Absent],
               loop = [o \in CRs |-> IF o = k THEN Launched(Existing(s)) ELSE NoLoop]
        PROVE  \A j \in CRs : /\ cr[j].uid \in {0, 1} /\ cr[j].ready = Unset
                              /\ loop[j].uid = 0 \/ /\ loop[j].uid = cr[j].uid
                                                    /\ loop[j].gen = cr[j].gen
                                                    /\ loop[j].spec = cr[j].spec
    <3>1. Existing(s) \in Object /\ Usable(Existing(s).spec)
      BY <2>2, Constants, Records DEF Existing, Usable
    <3> QED
      BY <2>2, <3>1, Loops, Records DEF Absent, Existing
  <2> QED
    BY <2>1, <2>2 DEF Init
<1>3. NewestUid = 1
  BY <1>1, Constants DEF NewestUid
<1>4. UidInv
  BY <1>1, <1>2, <1>3, Constants DEF UidInv
<1>5. PastInv
  BY <1>1, <1>2 DEF PastInv, Past, TypeOK, Object
<1>6. CopyInv
  BY <1>1, <1>2 DEF CopyInv, Unset
<1> QED
  BY <1>4, <1>5, <1>6 DEF KnownInv

\* The same generation of the same object.
Like(x, y) == x.uid = y.uid /\ x.gen = y.gen /\ x.spec = y.spec

\* What a step leaves known is what was known before it.
Learns ==
  /\ \A j \in CRs :
       /\ Like(cr'[j], cr[j]) /\ Like(cache'[j], cache[j])
       /\ \/ loop'[j].uid = 0 \/ Like(loop'[j], loop[j]) \/ Like(loop'[j], cache[j])
          \/ rec # Idle /\ rec.k = j /\ Like(loop'[j], rec.c)
  /\ \/ rec' = Idle
     \/ /\ rec' # Idle /\ rec'.k \in CRs
        /\ \/ rec'.c.uid = 0 \/ Like(rec'.c, cache[rec'.k])
           \/ rec # Idle /\ rec'.k = rec.k /\ Like(rec'.c, rec.c)
  /\ budget'.edits = budget.edits

LEMMA Learning ==
  ASSUME TypeOK, UidInv, PastInv, Learns
  PROVE  UidInv' /\ PastInv'
<1>1. NewestUid \in Nat /\ NewestUid' = NewestUid
  BY Budget, Constants DEF UidInv, NewestUid, Learns
<1>2. UidInv'
  BY <1>1 DEF UidInv, Learns, Like
<1>3. PastInv'
  <2>1. \A j \in CRs : Past(cache[j], j) /\ Past(loop[j], j)
    BY DEF PastInv
  <2>2. ASSUME NEW j \in CRs
        PROVE  (Past(cache[j], j))' /\ (Past(loop[j], j))'
    <3>1. Like(cache'[j], cache[j])
      BY DEF Learns
    <3>2. \/ loop'[j].uid = 0 \/ Like(loop'[j], loop[j]) \/ Like(loop'[j], cache[j])
          \/ rec # Idle /\ rec.k = j /\ Like(loop'[j], rec.c)
      BY DEF Learns
    <3> QED
      BY <2>1, <3>1, <3>2 DEF Past, Learns, Like, PastInv
  <2>3. rec' # Idle => (Past(rec.c, rec.k))'
    BY <2>1 DEF Past, Learns, Like, PastInv
  <2> QED
    BY <2>2, <2>3 DEF PastInv
<1> QED
  BY <1>2, <1>3

\* The informer's copies after a report, or after none.
LEMMA CopiesMarked ==
  ASSUME TypeOK, CopyInv, NEW k \in CRs, NEW reason \in Reasons, Marks(k, reason)
  PROVE  CopyInv'
<1>1. SUFFICES ASSUME NEW j \in CRs
               PROVE  /\ j \notin news' => cache'[j] = cr'[j]
                      /\ cr'[j].uid # 0 /\ cr'[j].ready.of = cr'[j].uid =>
                           cache'[j].uid = cr'[j].uid /\ cr'[j].ready.obs <= cache'[j].gen
  BY DEF CopyInv
<1>2. cache[k].gen \in Nat
  BY DEF TypeOK, Object
<1>3. CASE UNCHANGED <<cr, cache, news>>
  BY <1>3 DEF CopyInv
<1>4. CASE /\ k \in news' /\ cr'[k].ready = Mark(k, reason)
           /\ cr[k].uid # 0 /\ cache[k].uid # 0
  <2>1. CASE j = k
    BY <1>2, <1>4, <2>1, Marked DEF Mark
  <2>2. CASE j # k
    BY <2>2, Marked DEF CopyInv
  <2> QED
    BY <2>1, <2>2
<1> QED
  BY <1>3, <1>4, Marked

LEMMA KnownReconcile ==
  ASSUME TypeOK, ManagedInv, KnownInv, NEW k \in CRs, Reconcile(k)
  PROVE  KnownInv'
<1>0. /\ loop \in [CRs -> Loop] /\ cache \in [CRs -> Object] /\ loop[k] \in Loop
      /\ cache[k] \in Object /\ rec = Idle
      /\ UNCHANGED <<cr, cache, news, budget>>
  BY UnderWay DEF TypeOK, Reconcile, Deleted, RefuseInvalid, Unchanged, HotReload, Restart,
                  Arrive, Reload, Take
<1>1. \/ rec' = Idle
      \/ rec' # Idle /\ rec'.k \in CRs /\ (rec'.c.uid = 0 \/ Like(rec'.c, cache[rec'.k]))
  <2>1. \/ UNCHANGED rec \/ rec' = Idle
        \/ \E c \in {Absent, cache[k]}, pc \in {"stop", "place"} : Goto(pc, k, c)
        \/ Report(k, "InvalidSpec")
    BY DEF Reconcile, Deleted, RefuseInvalid, Unchanged, HotReload, Restart, Arrive, Reload,
           Refuse
  <2> QED
    BY <1>0, <2>1, Going, Refusing, Records DEF Like, Reasons
<1>2. \A j \in CRs : loop'[j].uid = 0 \/ Like(loop'[j], loop[j]) \/ Like(loop'[j], cache[j])
  <2>1. \/ UNCHANGED loop \/ Forget(k)
        \/ loop' = [loop EXCEPT ![k] = Reloaded(loop[k], cache[k])]
    BY DEF Reconcile, Deleted, RefuseInvalid, Unchanged, HotReload, Restart, Arrive, Reload
  <2>2. CASE Forget(k)
    BY <1>0, <2>2, Forgetting, Records DEF Like
  <2>3. CASE loop' = [loop EXCEPT ![k] = Reloaded(loop[k], cache[k])]
    <3>1. Like(loop'[k], cache[k])
      BY <1>0, <2>3, Loops DEF Like
    <3>2. \A j \in CRs : j # k => loop'[j] = loop[j]
      BY <1>0, <2>3
    <3> QED
      BY <3>1, <3>2 DEF Like
  <2> QED
    BY <2>1, <2>2, <2>3 DEF Like
<1>3. Learns
  BY <1>0, <1>1, <1>2 DEF Learns, Like
<1>4. CopyInv'
  BY <1>0 DEF KnownInv, CopyInv
<1> QED
  BY <1>3, <1>4, Learning DEF KnownInv

LEMMA KnownContinue ==
  ASSUME TypeOK, ManagedInv, KnownInv, Continue
  PROVE  KnownInv'
<1>0. /\ rec # Idle /\ rec \in Requests /\ rec.k \in CRs /\ rec.c \in Object
      /\ rec.reason \in Reasons /\ loop \in [CRs -> Loop]
  BY UnderWay DEF Continue, Stopped, RefuseConflict, StartFails, Start, ReportRejection, TypeOK
<1>1. \/ rec' = Idle
      \/ rec' # Idle /\ rec'.k \in CRs
         /\ (rec'.c.uid = 0 \/ (rec'.k = rec.k /\ Like(rec'.c, rec.c)))
  <2>1. \/ rec' = Idle
        \/ Goto("place", rec.k, rec.c)
        \/ Report(rec.k, "ConflictingSpec") \/ Report(rec.k, "StartFailed")
    BY DEF Continue, Stopped, RefuseConflict, StartFails, Start, ReportRejection, Refuse
  <2> QED
    BY <1>0, <2>1, Going, Refusing, Records DEF Like, Reasons
<1>2. \A j \in CRs : Like(loop'[j], loop[j]) \/ (rec.k = j /\ Like(loop'[j], rec.c))
  <2>1. \/ UNCHANGED loop
        \/ At("place") /\ loop' = [loop EXCEPT ![rec.k] = Launched(rec.c)]
    BY DEF Continue, Stopped, RefuseConflict, StartFails, Start, ReportRejection
  <2> QED
    BY <1>0, <2>1, Loops DEF Like, ManagedInv, StopInv
<1>3. Marks(rec.k, rec.reason) /\ budget'.edits = budget.edits
  BY <1>0, Marking, Budget DEF Continue, Stopped, RefuseConflict, StartFails, Start,
                               ReportRejection, Marks
<1>4. Learns
  BY <1>0, <1>1, <1>2, <1>3, Marked DEF Learns, Like
<1>5. CopyInv'
  BY <1>0, <1>3, CopiesMarked DEF KnownInv
<1> QED
  BY <1>4, <1>5, Learning DEF KnownInv

LEMMA KnownTicks ==
  ASSUME TypeOK, KnownInv, NEW k \in CRs, Ticks(k) \/ Returns(k)
  PROVE  KnownInv'
<1>0. /\ loop \in [CRs -> Loop] /\ loop[k] \in Loop /\ writer[k] \in Writer
      /\ dying[k].w \in Writer /\ loop[k].spec \in Specs \union {NoSpec}
  BY DEF TypeOK, Retired, Loop
<1>1. \A j \in CRs : Like(loop'[j], loop[j])
  <2>1. \/ UNCHANGED loop
        \/ \E t \in Specs \union {NoSpec} : loop' = [loop EXCEPT ![k] = [loop[k] EXCEPT !.tick = t]]
    BY <1>0 DEF Ticks, Returns, TickBegins, TickEnds, LoopReturns
  <2>2. ASSUME NEW t \in Specs \union {NoSpec},
               loop' = [loop EXCEPT ![k] = [loop[k] EXCEPT !.tick = t]]
        PROVE  \A j \in CRs : Like(loop'[j], loop[j])
    <3>1. Like(loop'[k], loop[k])
      BY <1>0, <2>2, Loops DEF Like
    <3>2. \A j \in CRs : j # k => loop'[j] = loop[j]
      BY <1>0, <2>2
    <3> QED
      BY <3>1, <3>2 DEF Like
  <2> QED
    BY <2>1, <2>2 DEF Like
<1>2. PICK reason \in Reasons : Marks(k, reason)
  <2>1. "ok" \in Reasons /\ "fail" \in Reasons
    BY DEF Reasons
  <2>2. CASE TickBegins(k)
    BY <2>1, <2>2 DEF TickBegins, Marks
  <2>3. ASSUME NEW state \in {"ok", "fail"}, TickEnds(k, state)
        PROVE  Marks(k, state)
    BY <1>0, <2>3, Reporting DEF TickEnds
  <2>4. ASSUME NEW state \in {"ok", "fail"}, LoopReturns(k, state)
        PROVE  Marks(k, state)
    BY <1>0, <2>4, Reporting DEF LoopReturns, Marks
  <2> QED
    BY <2>1, <2>2, <2>3, <2>4 DEF Ticks, Returns
<1>3. rec' = rec /\ budget'.edits = budget.edits
  BY <1>0, Reporting DEF Ticks, Returns, TickBegins, TickEnds, LoopReturns
<1>4. Learns
  BY <1>1, <1>2, <1>3, Marked, UnderWay DEF Learns, Like
<1>5. CopyInv'
  BY <1>2, CopiesMarked DEF KnownInv
<1> QED
  BY <1>4, <1>5, Learning DEF KnownInv

LEMMA KnownSync ==
  ASSUME TypeOK, KnownInv, NEW k \in CRs, news' = news \ {k},
         cache' \in [CRs -> Object], \A j \in CRs : cache'[j] = IF j = k THEN cr[j] ELSE cache[j],
         UNCHANGED <<cr, rec, loop, budget>>
  PROVE  KnownInv'
<1>1. UidInv'
  BY Budget, Constants DEF KnownInv, UidInv, NewestUid
<1>2. PastInv'
  BY DEF KnownInv, PastInv, Past, TypeOK, Object
<1>3. ASSUME NEW j \in CRs
      PROVE  /\ j \notin news' => cache'[j] = cr'[j]
             /\ cr'[j].uid # 0 /\ cr'[j].ready.of = cr'[j].uid =>
                  cache'[j].uid = cr'[j].uid /\ cr'[j].ready.obs <= cache'[j].gen
  <2>1. CASE j = k
    <3>1. /\ cr[j].uid # 0 /\ cr[j].ready.of = cr[j].uid =>
               cache[j].uid = cr[j].uid /\ cr[j].ready.obs <= cache[j].gen
          /\ cache[j].uid = cr[j].uid /\ cache[j].uid # 0 => cache[j].gen <= cr[j].gen
      BY DEF KnownInv, CopyInv, PastInv, Past
    <3>2. cr[j].ready.obs \in Nat /\ cr[j].gen \in Nat /\ cache[j].gen \in Nat
      BY DEF TypeOK, Object, Condition
    <3> QED
      BY <2>1, <3>1, <3>2
  <2>2. CASE j # k
    BY <2>2 DEF KnownInv, CopyInv
  <2> QED
    BY <2>1, <2>2
<1>4. CopyInv'
  BY <1>3 DEF CopyInv
<1> QED
  BY <1>1, <1>2, <1>4 DEF KnownInv

LEMMA KnownEdits ==
  ASSUME TypeOK, KnownInv, NEW k \in CRs, Edits(k)
  PROVE  KnownInv'
<1>0. /\ UNCHANGED <<cache, rec, loop>> /\ news' = news \union {k} /\ Spend("edits")
      /\ cr[k] \in Object /\ cache[k] \in Object /\ loop[k] \in Loop
      /\ rec # Idle => rec.c \in Object
  BY UnderWay DEF Edits, Delete, Create, Edit, Change, TypeOK
<1>1. NewestUid \in Nat /\ NewestUid' = NewestUid + 1 /\ budget'.edits <= MaxEdits
  BY <1>0, Budget, Constants DEF KnownInv, UidInv, NewestUid
<1>2. \/ cr'[k].uid = 0
      \/ cr'[k].uid = NewestUid + 1 /\ cr'[k].ready = Unset
      \/ cr'[k].uid = cr[k].uid /\ cr'[k].gen = cr[k].gen + 1 /\ cr'[k].ready = cr[k].ready
  BY Creating, Editing, Records DEF Edits, Delete, Change, TypeOK, KnownInv
<1>3. \A j \in CRs : j # k => cr'[j] = cr[j]
  BY Creating, Editing DEF Edits, Delete, Change, TypeOK, KnownInv
<1>4. cr' \in [CRs -> Object]
  BY TypeAround DEF KnownInv, TypeOK
<1>5. UidInv'
  <2>1. \A j \in CRs : cr[j].uid \in Nat /\ cache[j].uid \in Nat /\ loop[j].uid \in Nat
    BY DEF TypeOK, Object, Loop
  <2>2. rec # Idle => rec.c.uid \in Nat
    BY <1>0 DEF Object
  <2>3. \A j \in CRs : cr'[j].uid <= NewestUid + 1
    BY <1>1, <1>2, <1>3, <2>1 DEF KnownInv, UidInv
  <2>4. \A j \in CRs : cache[j].uid <= NewestUid + 1 /\ loop[j].uid <= NewestUid + 1
    BY <1>1, <2>1 DEF KnownInv, UidInv
  <2>5. rec # Idle => rec.c.uid <= NewestUid + 1
    BY <1>1, <2>2 DEF KnownInv, UidInv
  <2> QED
    BY <1>0, <1>1, <2>3, <2>4, <2>5 DEF UidInv
<1>6. PastInv'
  <2>1. ASSUME NEW x, x.uid \in Nat, x.gen \in Nat, x.uid <= NewestUid, Past(x, k)
        PROVE  x.uid = cr'[k].uid /\ x.uid # 0 =>
                 x.gen <= cr'[k].gen /\ (x.gen = cr'[k].gen => x.spec = cr'[k].spec)
    <3>1. CASE cr'[k].uid = 0
      BY <3>1
    <3>2. CASE cr'[k].uid = NewestUid + 1
      BY <1>1, <2>1, <3>2
    <3>3. CASE cr'[k].uid = cr[k].uid /\ cr'[k].gen = cr[k].gen + 1
      <4>1. cr[k].gen \in Nat
        BY <1>0 DEF Object
      <4> QED
        BY <2>1, <3>3, <4>1 DEF Past
    <3> QED
      BY <1>2, <3>1, <3>2, <3>3
  <2>2. /\ cache[k].uid \in Nat /\ cache[k].gen \in Nat /\ cache[k].uid <= NewestUid
        /\ loop[k].uid \in Nat /\ loop[k].gen \in Nat /\ loop[k].uid <= NewestUid
        /\ Past(cache[k], k) /\ Past(loop[k], k)
    BY <1>0 DEF Object, Loop, KnownInv, UidInv, PastInv
  <2>3. rec # Idle => /\ rec.c.uid \in Nat /\ rec.c.gen \in Nat /\ rec.c.uid <= NewestUid
                      /\ Past(rec.c, rec.k)
    BY <1>0 DEF Object, KnownInv, UidInv, PastInv
  <2>4. \A j \in CRs : (Past(cache[j], j))' /\ (Past(loop[j], j))'
    <3>1. ASSUME NEW j \in CRs, j # k PROVE (Past(cache[j], j))' /\ (Past(loop[j], j))'
      BY <1>0, <1>3, <3>1 DEF Past, KnownInv, PastInv
    <3>2. (Past(cache[k], k))' /\ (Past(loop[k], k))'
      BY <1>0, <2>1, <2>2 DEF Past
    <3> QED
      BY <3>1, <3>2
  <2>5. rec' # Idle => (Past(rec.c, rec.k))'
    <3>1. CASE rec # Idle /\ rec.k = k
      BY <1>0, <2>1, <2>3, <3>1 DEF Past
    <3>2. CASE rec # Idle /\ rec.k # k
      BY <1>0, <1>3, <2>3, <3>2, UnderWay DEF Past
    <3> QED
      BY <1>0, <3>1, <3>2
  <2> QED
    BY <2>4, <2>5 DEF PastInv
<1>7. CopyInv'
  <2>1. ASSUME NEW j \in CRs
        PROVE  /\ j \notin news' => cache'[j] = cr'[j]
               /\ cr'[j].uid # 0 /\ cr'[j].ready.of = cr'[j].uid =>
                    cache'[j].uid = cr'[j].uid /\ cr'[j].ready.obs <= cache'[j].gen
    <3>1. CASE j # k
      BY <1>0, <1>3, <3>1 DEF KnownInv, CopyInv
    <3>2. CASE j = k
      BY <1>0, <1>1, <1>2, <3>2 DEF KnownInv, CopyInv, Unset
    <3> QED
      BY <3>1, <3>2
  <2> QED
    BY <2>1 DEF CopyInv
<1> QED
  BY <1>5, <1>6, <1>7 DEF KnownInv

LEMMA KnownStep ==
  ASSUME TypeOK, ManagedInv, KnownInv, [Next]_vars
  PROVE  KnownInv'
<1>1. CASE Handover
  <2>1. /\ news' = news \ CRs /\ cache' = cr /\ cr \in [CRs -> Object] /\ UNCHANGED cr
        /\ rec' = Idle /\ \A j \in CRs : loop'[j].uid = 0
    BY <1>1, Records DEF Handover, TypeOK
  <2>2. budget'.edits = budget.edits
    BY <1>1, Budget DEF Handover
  <2>3. UidInv'
    BY <2>1, <2>2, Budget, Constants DEF KnownInv, UidInv, NewestUid
  <2>4. PastInv'
    BY <2>1 DEF PastInv, Past, Object
  <2>5. ASSUME NEW j \in CRs, cr[j].uid # 0, cr[j].ready.of = cr[j].uid
        PROVE  cr[j].ready.obs <= cr[j].gen
    <3>1. cache[j].uid = cr[j].uid /\ cr[j].ready.obs <= cache[j].gen /\ cache[j].gen <= cr[j].gen
      BY <2>5 DEF KnownInv, CopyInv, PastInv, Past
    <3>2. cr[j].ready.obs \in Nat /\ cr[j].gen \in Nat /\ cache[j].gen \in Nat
      BY DEF TypeOK, Object, Condition
    <3> QED
      BY <3>1, <3>2
  <2>6. CopyInv'
    BY <2>1, <2>5 DEF CopyInv
  <2> QED
    BY <2>3, <2>4, <2>6 DEF KnownInv
<1>2. CASE UNCHANGED vars
  BY <1>2 DEF vars, KnownInv, UidInv, NewestUid, PastInv, Past, CopyInv
<1>3. ASSUME NEW k \in CRs, SyncCache(k)
      PROVE  KnownInv'
  <2>1. news' = news \ {k} /\ cache' = [cache EXCEPT ![k] = cr[k]]
        /\ UNCHANGED <<cr, rec, loop, budget>>
    BY <1>3 DEF SyncCache
  <2>2. cache' \in [CRs -> Object] /\ \A j \in CRs : cache'[j] = IF j = k THEN cr[j] ELSE cache[j]
    BY <2>1 DEF TypeOK
  <2> QED
    BY <2>1, <2>2, KnownSync
<1> QED
  BY <1>1, <1>2, <1>3, KnownReconcile, KnownContinue, KnownTicks, KnownEdits DEF Next

-----------------------------------------------------------------------------
(* What has been done about an object *)

\* The step does not touch k, its loop or the reconcile about it.
KeptAt(k) ==
  /\ mode' = mode /\ cr'[k] = cr[k] /\ (Due(k) => Due(k)')
  /\ loop'[k].on = loop[k].on /\ loop'[k].gen = loop[k].gen /\ loop'[k].spec = loop[k].spec
  /\ writer'[k].rejected = writer[k].rejected
  /\ \/ rec' = rec
     \/ ~(rec # Idle /\ rec.k = k) /\ ~(rec' # Idle /\ rec'.k = k)

LEMMA Kept ==
  ASSUME NEW k \in CRs, KeptAt(k)
  PROVE  (DoneAt(k) => DoneAt(k)') /\ (RefusedAt(k) => RefusedAt(k)')
<1>1. DoneAt(k) => DoneAt(k)'
  BY DEF KeptAt, DoneAt, Due, Usable, At
<1>2. RefusedAt(k) => RefusedAt(k)'
  BY DEF KeptAt, RefusedAt, Refused, Usable, At
<1> QED
  BY <1>1, <1>2

LEMMA DoneInit == Init => DoneInv /\ RefusedInv
<1> SUFFICES ASSUME Init PROVE DoneInv /\ RefusedInv
  OBVIOUS
<1>1. \A k \in CRs : cr[k].ready = Unset
  <2>1. CASE cr \in [CRs -> {IF s = NoSpec THEN Absent ELSE Existing(s) : s \in Initially}]
    BY <2>1 DEF Absent, Existing
  <2>2. ASSUME NEW k \in CRs, NEW s,
               cr = [o \in CRs |-> IF o = k THEN Existing(s) ELSE Absent]
        PROVE  \A j \in CRs : cr[j].ready = Unset
    BY <2>2 DEF Absent, Existing
  <2> QED
    BY <2>1, <2>2 DEF Init
<1>2. DoneInv
  BY DEF Init, DoneInv, DoneAt, Due
<1>3. RefusedInv
  BY <1>1 DEF RefusedInv, RefusedAt, Refused, Unset
<1> QED
  BY <1>2, <1>3

\* The informer knows the generation that is said to be rejected.
LEMMA RefusedCopy ==
  ASSUME TypeOK, KnownInv, NEW k \in CRs, Refused(k)
  PROVE  /\ cache[k].uid = cr[k].uid /\ cache[k].gen = cr[k].gen /\ cache[k].spec = cr[k].spec
         /\ cache[k].uid # 0 /\ ~Good(k)
<1>1. /\ cache[k].uid = cr[k].uid /\ cr[k].uid # 0 /\ cr[k].gen <= cache[k].gen
      /\ cache[k].gen <= cr[k].gen
      /\ cache[k].gen = cr[k].gen => cache[k].spec = cr[k].spec
  BY DEF Refused, KnownInv, CopyInv, PastInv, Past
<1>2. cache[k].gen \in Nat /\ cr[k].gen \in Nat
  BY DEF TypeOK, Object
<1> QED
  BY <1>1, <1>2 DEF Refused, Good

LEMMA DoneReconcile ==
  ASSUME TypeOK, ManagedInv, KnownInv, DoneInv, RefusedInv, NEW k \in CRs, Reconcile(k)
  PROVE  DoneInv' /\ RefusedInv'
<1>0. /\ loop \in [CRs -> Loop] /\ writer \in [CRs -> Writer] /\ cache[k] \in Object
      /\ cr[k] \in Object /\ loop[k] \in Loop
      /\ rec = Idle /\ UNCHANGED <<mode, cr, cache, news>>
      /\ queue' = queue \ {k}
  BY UnderWay DEF TypeOK, Reconcile, Deleted, RefuseInvalid, Unchanged, HotReload, Restart,
                  Arrive, Reload, Take
<1>1. k \notin news => cache[k] = cr[k]
  BY DEF KnownInv, CopyInv
<1>2. DoneAt(k)' /\ RefusedAt(k)'
  <2> USE DEF DoneAt, RefusedAt, Due
  <2> Refused(k)' <=> Refused(k)
    BY <1>0 DEF Refused, Usable
  <2>0. RefusedAt(k) /\ (Refused(k) => cache[k].uid # 0 /\ ~Good(k))
    BY RefusedCopy DEF RefusedInv
  <2>1. CASE Deleted(k)
    <3>1. loop'[k] = NoLoop /\ ~loop'[k].on
      BY <2>1, Forgetting, Records DEF Deleted
    <3>2. cr[k].uid # 0 => k \in news'
      BY <1>0, <1>1, <2>1 DEF Deleted
    <3>3. ~Refused(k)
      BY <2>0, <2>1 DEF Deleted
    <3> QED
      BY <1>0, <3>1, <3>2, <3>3
  <2>2. CASE RefuseInvalid(k)
    <3>1. /\ rec' # Idle /\ rec'.k = k /\ rec'.pc = "report" /\ rec'.reason = "InvalidSpec"
          /\ UNCHANGED <<loop, writer>>
      BY <2>2, Refusing DEF RefuseInvalid, Refuse, Reasons
    <3>2. ~Usable(cache[k].spec)
      BY <2>2 DEF RefuseInvalid
    <3> QED
      BY <1>0, <1>1, <2>0, <3>1, <3>2 DEF At, Usable
  <2>3. CASE Unchanged(k)
    BY <1>0, <1>1, <2>0, <2>3 DEF Unchanged, Take, Good, Usable
  <2>4. CASE HotReload(k)
    <3>1. loop' = [loop EXCEPT ![k] = Reloaded(loop[k], cache[k])]
      BY <2>4 DEF HotReload
    <3>2. loop'[k].on /\ loop'[k].gen = cache[k].gen /\ rec' = Idle /\ Good(k) /\ mode # "single"
      BY <1>0, <2>4, <3>1, Loops DEF HotReload, Take
    <3> QED
      BY <1>0, <1>1, <2>0, <3>2 DEF Good, Usable
  <2>5. CASE Restart(k) \/ Arrive(k)
    <3>1. Good(k) /\ rec' # Idle /\ rec'.c = cache[k] /\ rec'.k = k /\ rec'.pc # "report"
      BY <1>0, <2>5, Going DEF Restart, Arrive
    <3> QED
      BY <1>0, <1>1, <2>0, <3>1 DEF At
  <2>6. CASE Reload(k) /\ Good(k)
    <3>1. loop' = [loop EXCEPT ![k] = Reloaded(loop[k], cache[k])]
      BY <2>6 DEF Reload
    <3>2. /\ loop'[k].on /\ loop'[k].gen = cache[k].gen /\ loop'[k].spec = cache[k].spec
          /\ rec' = Idle
      BY <1>0, <2>6, <3>1, Loops DEF Reload
    <3> QED
      BY <1>0, <1>1, <2>0, <2>6, <3>2 DEF Good, Usable
  <2>7. CASE Reload(k) /\ ~Good(k)
    <3>1. /\ rec' # Idle /\ rec'.k = k /\ rec'.pc = "report" /\ rec'.reason = "InvalidSpec"
          /\ UNCHANGED <<loop, writer>>
      BY <2>7, Refusing DEF Reload, Reasons
    <3> QED
      BY <1>0, <1>1, <2>0, <2>7, <3>1 DEF At, Usable, Good
  <2> QED
    BY <2>1, <2>2, <2>3, <2>4, <2>5, <2>6, <2>7 DEF Reconcile
<1>3. ASSUME NEW j \in CRs, j # k
      PROVE  KeptAt(j)
  <2>1. \/ rec' = rec \/ rec' = Idle
        \/ \E c \in {Absent, cache[k]}, pc \in {"stop", "place"} : Goto(pc, k, c)
        \/ Report(k, "InvalidSpec")
    BY DEF Reconcile, Deleted, RefuseInvalid, Unchanged, HotReload, Restart, Arrive, Reload,
           Refuse
  <2>2. rec' = rec \/ rec' = Idle \/ rec'.k = k
    BY <1>0, <2>1, Going, Refusing, Records DEF Reasons
  <2>3. \/ UNCHANGED <<loop, writer>> \/ Forget(k)
        \/ /\ loop' = [loop EXCEPT ![k] = Reloaded(loop[k], cache[k])]
           /\ writer' = [writer EXCEPT ![k] = Cleared(writer[k])]
    BY DEF Reconcile, Deleted, RefuseInvalid, Unchanged, HotReload, Restart, Arrive, Reload
  <2>4. loop'[j] = loop[j] /\ writer'[j] = writer[j]
    BY <1>0, <1>3, <2>3, Forgetting
  <2> QED
    BY <1>0, <1>3, <2>2, <2>4 DEF KeptAt, Due
<1> QED
  BY <1>2, <1>3, Kept DEF DoneInv, RefusedInv

LEMMA DoneContinue ==
  ASSUME TypeOK, ManagedInv, KnownInv, DoneInv, RefusedInv, Continue
  PROVE  DoneInv' /\ RefusedInv'
<1>0. /\ rec # Idle /\ rec \in Requests /\ rec.k \in CRs /\ rec.c \in Object
      /\ rec.reason \in Reasons /\ loop \in [CRs -> Loop] /\ writer \in [CRs -> Writer]
  BY UnderWay DEF Continue, Stopped, RefuseConflict, StartFails, Start, ReportRejection, TypeOK
<1> PICK k \in CRs : k = rec.k
  BY <1>0
<1>1. DoneAt(k)' /\ RefusedAt(k)'
  <2> USE DEF Due
  <2>0. DoneAt(k) /\ RefusedAt(k)
    BY <1>0 DEF DoneInv, RefusedInv
  <2>1. CASE Stopped
    <3>1. ~Refused(k) /\ UNCHANGED <<mode, cr, news, queue, loop, writer>>
      BY <1>0, <2>0, <2>1 DEF RefusedAt, Stopped, At
    <3>2. \/ rec' = Idle /\ rec.c = Absent
          \/ rec' # Idle /\ rec'.k = k /\ rec'.c = rec.c /\ rec'.pc = "place"
      BY <1>0, <2>1, Going DEF Stopped
    <3> QED
      BY <1>0, <2>0, <2>1, <3>1, <3>2, Records
         DEF DoneAt, RefusedAt, Refused, Usable, Stopped, At
  <2>2. CASE RefuseConflict \/ StartFails
    <3>1. ~Refused(k) /\ UNCHANGED <<mode, cr, news, queue, loop, writer>>
      BY <1>0, <2>0, <2>2 DEF RefusedAt, RefuseConflict, StartFails, At
    <3>2. rec' # Idle /\ rec'.k = k /\ rec'.pc = "report" /\ rec'.reason # "InvalidSpec"
      BY <1>0, <2>2, Refusing DEF RefuseConflict, StartFails, Refuse, Reasons
    <3> QED
      BY <3>1, <3>2 DEF DoneAt, RefusedAt, Refused, Usable, At
  <2>3. CASE Start
    <3>1. ~Refused(k) /\ UNCHANGED <<mode, cr, news, queue>> /\ rec' = Idle
      BY <1>0, <2>0, <2>3 DEF RefusedAt, Start, At
    <3>2. Usable(rec.c.spec) /\ mode # "single"
      BY <2>3 DEF Start, ManagedInv, StopInv, SingleInv
    <3>3. loop' = [loop EXCEPT ![k] = Launched(rec.c)]
      BY <2>3 DEF Start
    <3>4. loop'[k].on /\ loop'[k].gen = rec.c.gen
      BY <1>0, <3>2, <3>3, Loops
    <3>5. k \notin news \union queue /\ cr[k].uid # 0 => rec.c = cr[k]
      BY <1>0, <2>0, <2>3 DEF DoneAt, Start, At
    <3> QED
      BY <3>1, <3>2, <3>4, <3>5 DEF DoneAt, RefusedAt, Refused, Usable
  <2>4. CASE ReportRejection
    <3>1. writer'[k].rejected /\ rec' = Idle /\ UNCHANGED <<mode, loop>>
      BY <1>0, <2>4, Writers DEF ReportRejection
    <3>2. RefusedAt(k)'
      BY <3>1 DEF RefusedAt
    <3>3. CASE k \in news' \union queue'
      BY <3>2, <3>3 DEF DoneAt
    <3>4. CASE k \notin news' \union queue'
      <4>1. /\ Writes(k, rec.reason) /\ rec.reason = "InvalidSpec"
            /\ UNCHANGED <<cr, cache, news, queue>> /\ cache[k].ready.reason = "InvalidSpec"
        BY <1>0, <2>4, <3>4 DEF ReportRejection, Writes, Reads, Retried
      <4>2. cache[k] = cr[k]
        BY <1>0, <3>4, <4>1 DEF KnownInv, CopyInv
      <4>3. cr[k].uid # 0 => ~Usable(cr[k].spec)
        BY <1>0, <2>0, <2>4, <3>4, <4>1 DEF DoneAt, ReportRejection, At
      <4> QED
        BY <3>1, <3>2, <4>1, <4>2, <4>3, <3>4 DEF DoneAt, Usable
    <3> QED
      BY <3>2, <3>3, <3>4
  <2> QED
    BY <2>1, <2>2, <2>3, <2>4 DEF Continue
<1>2. ASSUME NEW j \in CRs, j # k
      PROVE  KeptAt(j)
  <2>1. \/ rec' = Idle \/ Goto("place", k, rec.c)
        \/ Report(k, "ConflictingSpec") \/ Report(k, "StartFailed")
    BY DEF Continue, Stopped, RefuseConflict, StartFails, Start, ReportRejection, Refuse
  <2>2. rec' = Idle \/ rec'.k = k
    BY <1>0, <2>1, Going, Refusing DEF Reasons
  <2>3. loop'[j] = loop[j] /\ writer'[j] = writer[j]
    BY <1>0, <1>2 DEF Continue, Stopped, RefuseConflict, StartFails, Start, ReportRejection
  <2>4. Marks(k, rec.reason)
    BY <1>0, Marking DEF Continue, Stopped, RefuseConflict, StartFails, Start,
                         ReportRejection, Marks
  <2>5. cr'[j] = cr[j] /\ (j \in news' <=> j \in news)
    BY <1>0, <1>2, <2>4, Marked
  <2>6. mode' = mode /\ (j \in queue => j \in queue')
    BY DEF Continue, Stopped, RefuseConflict, StartFails, Start, ReportRejection
  <2> QED
    BY <1>0, <1>2, <2>2, <2>3, <2>5, <2>6 DEF KeptAt, Due
<1> QED
  BY <1>1, <1>2, Kept DEF DoneInv, RefusedInv

\* A report that writes has the informer come back to the object; and nothing that could
\* write reports on an object that stands refused.
LEMMA DoneReport ==
  ASSUME TypeOK, DoneInv, RefusedInv, NEW k \in CRs, NEW state \in {"ok", "fail"},
         NEW w \in Writer, NEW after \in Writer, ReportsTick(k, w, state, after),
         Refused(k) => w.rejected,
         UNCHANGED <<mode, queue, rec>>,
         \A j \in CRs : /\ loop'[j].on = loop[j].on /\ loop'[j].gen = loop[j].gen
                        /\ loop'[j].spec = loop[j].spec
                        /\ writer'[j].rejected = writer[j].rejected
  PROVE  DoneInv' /\ RefusedInv' /\ (Refused(k) => cr' = cr)
<1>1. Marks(k, state) /\ (w.rejected => UNCHANGED <<cr, cache, news>>)
  BY Reporting
<1>2. state \in Reasons
  BY DEF Reasons
<1>3. CASE UNCHANGED <<cr, cache, news>>
  <2>1. \A j \in CRs : KeptAt(j)
    BY <1>3 DEF KeptAt, Due
  <2> QED
    BY <1>3, <2>1, Kept DEF DoneInv, RefusedInv
<1>4. CASE ~w.rejected /\ k \in news' /\ cr'[k].ready = Mark(k, state)
  <2>1. \A j \in CRs : j # k => KeptAt(j)
    BY <1>1, <1>2, Marked DEF KeptAt, Due
  <2>2. DoneAt(k)'
    BY <1>4 DEF DoneAt, Due
  <2>3. RefusedAt(k)'
    BY <1>4 DEF RefusedAt, Refused, Mark
  <2> QED
    BY <1>4, <2>1, <2>2, <2>3, Kept DEF DoneInv, RefusedInv
<1> QED
  BY <1>1, <1>2, <1>3, <1>4, Marked

LEMMA DoneTicks ==
  ASSUME TypeOK, ManagedInv, DoneInv, RefusedInv, NEW k \in CRs, Ticks(k) \/ Returns(k)
  PROVE  DoneInv' /\ RefusedInv' /\ (Refused(k) => cr' = cr)
<1>0. /\ loop \in [CRs -> Loop] /\ loop[k] \in Loop /\ writer \in [CRs -> Writer]
      /\ writer[k] \in Writer /\ dying[k].w \in Writer /\ loop[k].spec \in Specs \union {NoSpec}
  BY DEF TypeOK, Retired, Loop
<1>1. CASE TickBegins(k)
  <2>1. \A j \in CRs : KeptAt(j)
    BY <1>0, <1>1, Loops DEF TickBegins, KeptAt, Due
  <2> QED
    BY <1>1, <2>1, Kept DEF TickBegins, DoneInv, RefusedInv
<1>2. ASSUME NEW state \in {"ok", "fail"}, TickEnds(k, state)
      PROVE  DoneInv' /\ RefusedInv' /\ (Refused(k) => cr' = cr)
  <2>1. PICK after \in Writer : ReportsTick(k, writer[k], state, after)
                                /\ writer' = [writer EXCEPT ![k] = after]
    BY <1>2 DEF TickEnds
  <2>2. \A j \in CRs : writer'[j].rejected = writer[j].rejected
    BY <1>0, <2>1, Reporting
  <2>3. \A j \in CRs : /\ loop'[j].on = loop[j].on /\ loop'[j].gen = loop[j].gen
                       /\ loop'[j].spec = loop[j].spec
    BY <1>0, <1>2, Loops DEF TickEnds
  <2>4. Refused(k) => writer[k].rejected
    BY <1>2 DEF TickEnds, RefusedInv, RefusedAt
  <2>5. UNCHANGED <<mode, queue, rec>>
    BY <1>2 DEF TickEnds
  <2> QED
    BY <1>0, <2>1, <2>2, <2>3, <2>4, <2>5, DoneReport
<1>3. ASSUME NEW state \in {"ok", "fail"}, LoopReturns(k, state)
      PROVE  DoneInv' /\ RefusedInv' /\ (Refused(k) => cr' = cr)
  <2>1. ~Refused(k)
    BY <1>3, UnderWay DEF LoopReturns, ManagedInv, StopInv, RefusedInv, RefusedAt, At
  <2>2. UNCHANGED <<mode, queue, rec, loop, writer>>
    BY <1>3 DEF LoopReturns
  <2>3. CASE UNCHANGED <<cr, cache, news>>
    <3>1. \A j \in CRs : KeptAt(j)
      BY <2>2, <2>3 DEF KeptAt, Due
    <3> QED
      BY <2>3, <3>1, Kept DEF DoneInv, RefusedInv
  <2>4. ASSUME NEW after \in Writer, ReportsTick(k, dying[k].w, state, after)
        PROVE  DoneInv' /\ RefusedInv' /\ (Refused(k) => cr' = cr)
    BY <1>0, <2>1, <2>2, <2>4, DoneReport
  <2> QED
    BY <1>3, <2>3, <2>4 DEF LoopReturns
<1> QED
  BY <1>1, <1>2, <1>3 DEF Ticks, Returns

LEMMA DoneAround ==
  ASSUME TypeOK, KnownInv, DoneInv, RefusedInv, NEW k \in CRs, SyncCache(k) \/ Edits(k)
  PROVE  DoneInv' /\ RefusedInv'
<1>1. CASE SyncCache(k)
  <2>1. \A j \in CRs : KeptAt(j)
    BY <1>1 DEF SyncCache, KeptAt, Due
  <2> QED
    BY <2>1, Kept DEF DoneInv, RefusedInv
<1>2. CASE Edits(k)
  <2>0. /\ UNCHANGED <<mode, cache, queue, rec, loop, dying, writer>> /\ news' = news \union {k}
        /\ cr[k] \in Object /\ cache[k] \in Object /\ cr[k].ready \in Condition
    BY <1>2 DEF Edits, Delete, Create, Edit, Change, TypeOK, Object
  <2>1. \A j \in CRs : j # k => cr'[j] = cr[j]
    BY <1>2, Creating, Editing DEF Edits, Delete, Change, TypeOK, KnownInv
  <2>2. \A j \in CRs : j # k => KeptAt(j)
    BY <2>0, <2>1 DEF KeptAt, Due
  <2>3. DoneAt(k)'
    BY <2>0 DEF DoneAt, Due
  <2>4. \/ cr'[k].uid = 0
        \/ cr'[k].ready = Unset
        \/ cr'[k].uid = cr[k].uid /\ cr'[k].gen = cr[k].gen + 1 /\ cr'[k].ready = cr[k].ready
    BY <1>2, Creating, Editing, Records DEF Edits, Delete, Change, TypeOK, KnownInv
  <2>5. cr[k].gen \in Nat /\ cache[k].gen \in Nat /\ cr[k].ready.obs \in Nat
    BY <2>0 DEF Object, Condition
  <2>6. cr[k].uid # 0 /\ cr[k].ready.of = cr[k].uid => cr[k].ready.obs <= cr[k].gen
    <3>1. cr[k].uid # 0 /\ cr[k].ready.of = cr[k].uid =>
            cr[k].ready.obs <= cache[k].gen /\ cache[k].gen <= cr[k].gen
      BY DEF KnownInv, CopyInv, PastInv, Past
    <3> QED
      BY <2>5, <3>1
  <2>7. ~Refused(k)'
    BY <2>4, <2>5, <2>6 DEF Refused, Unset
  <2> QED
    BY <2>2, <2>3, <2>7, Kept DEF DoneInv, RefusedInv, RefusedAt
<1> QED
  BY <1>1, <1>2

LEMMA FleetStep ==
  ASSUME FleetInv, [Next]_vars
  PROVE  FleetInv'
<1> USE DEF FleetInv
<1>1. TypeOK' /\ ManagedInv' /\ KnownInv'
  BY TypeStep, ManagedStep, KnownStep DEF ManagedInv, KnownInv
<1>2. DoneInv' /\ RefusedInv'
  <2>1. CASE Handover
    <3>1. \A k \in CRs : ~loop'[k].on
      BY <2>1, Records DEF Handover
    <3> QED
      BY <2>1, <3>1 DEF Handover, DoneInv, DoneAt, Due, RefusedInv, RefusedAt
  <2>2. CASE UNCHANGED vars
    <3>1. \A k \in CRs : KeptAt(k)
      BY <2>2 DEF vars, KeptAt, Due
    <3> QED
      BY <3>1, Kept DEF DoneInv, RefusedInv
  <2> QED
    BY <2>1, <2>2, DoneReconcile, DoneContinue, DoneTicks, DoneAround DEF Next
<1> QED
  BY <1>1, <1>2

LEMMA FleetHolds == Spec => []FleetInv
<1>1. Init => FleetInv
  BY TypeInit, ManagedInit, KnownInit, DoneInit DEF FleetInv
<1> QED
  BY <1>1, FleetStep, PTL DEF Spec

-----------------------------------------------------------------------------
(* Theorems *)

\* The only match is the first.
LEMMA OnlyMatch ==
  ASSUME NEW i \in Int
  PROVE  First({i}) = i
BY DEF First

\* What validation lets through says for itself what each of its mappings gives.
LEMMA ValidIsSound ==
  ASSUME NEW s \in Valid
  PROVE  LET c == Loaded[s] IN
           /\ c.poll >= 1 /\ c.grace >= 1 /\ c.workers >= 1 /\ c.maxPriority >= 0
           /\ \A i \in DOMAIN c.mappings :
                LET m == c.mappings[i] IN
                  /\ PriorityClassFor(c, m.partition) = m.class
                  /\ LocalQueueFor(c, m.partition) = (IF m.queue = "" THEN c.queue ELSE m.queue)
<1> DEFINE w == Says[s]
           c == Loaded[s]
<1>0. s \in Specs /\ w \in Written /\ c = ApplyDefaults(w) /\ Validate(c)
  BY FleetConstantsOK DEF Valid, Loaded
<1> HIDE DEF c, w
<1>1. /\ w.workers \in Int /\ w.grace \in Int
      /\ c.workers = IfUnset(w.workers, 8) /\ c.grace = IfUnset(w.grace, 3)
      /\ c.mappings = w.mappings
  <2>1. c = [w EXCEPT !.poll = IfUnset(@, 10), !.workers = IfUnset(@, 8),
                      !.grace = IfUnset(@, 3), !.timeout = IfUnset(@, 30)]
    BY <1>0 DEF ApplyDefaults
  <2> QED
    BY <1>0, <2>1 DEF Written
<1>2. c.poll >= 1 /\ c.maxPriority >= 0 /\ c.workers >= 0 /\ c.grace >= 0 /\ Unshadowed(c.mappings)
  BY <1>0 DEF Validate
<1>3. c.workers >= 1 /\ c.grace >= 1
  BY <1>1, <1>2 DEF IfUnset
<1>4. c.mappings \in Seq([partition : STRING, class : STRING, queue : STRING])
  BY <1>0, <1>1 DEF Written
<1>5. ASSUME NEW i \in DOMAIN c.mappings
      PROVE  LET m == c.mappings[i] IN
               /\ PriorityClassFor(c, m.partition) = m.class
               /\ LocalQueueFor(c, m.partition) = (IF m.queue = "" THEN c.queue ELSE m.queue)
  <2> DEFINE m == c.mappings[i]
  <2>1. i \in Int
    BY <1>4
  <2>2. Matching(c, m.partition) = {i}
    BY <1>2 DEF Matching, Unshadowed
  <2>3. First(Matching(c, m.partition)) = i
    BY <2>1, <2>2, OnlyMatch
  <2>4. {j \in Matching(c, m.partition) : c.mappings[j].queue # ""}
          = IF m.queue = "" THEN {} ELSE {i}
    BY <2>2
  <2>5. LocalQueueFor(c, m.partition) = (IF m.queue = "" THEN c.queue ELSE m.queue)
    <3>1. CASE m.queue = ""
      BY <2>4, <3>1 DEF LocalQueueFor
    <3>2. CASE m.queue # ""
      BY <2>1, <2>4, <3>2, OnlyMatch DEF LocalQueueFor
    <3> QED
      BY <3>1, <3>2
  <2> QED
    BY <2>3, <2>5 DEF PriorityClassFor
<1> QED
  BY <1>2, <1>3, <1>5 DEF c

\* Every bridge that runs runs on what passed validation, whichever way its configuration
\* came to it, and under the supervisor through a client built from the settings it runs on
\* (Supervisor.Reconcile, bridgeIdentity.sameEndpoint, Config.Validate).
THEOREM FleetLoops == Spec => []LoopInv
<1>1. FleetInv => RunsSound
  <2> SUFFICES ASSUME FleetInv, NEW k \in CRs, loop[k].on
               PROVE  LET c == Loaded[loop[k].spec] IN
                        /\ c.poll >= 1 /\ c.grace >= 1 /\ c.workers >= 1 /\ c.maxPriority >= 0
                        /\ \A i \in DOMAIN c.mappings :
                             LET m == c.mappings[i] IN
                               /\ PriorityClassFor(c, m.partition) = m.class
                               /\ LocalQueueFor(c, m.partition)
                                    = (IF m.queue = "" THEN c.queue ELSE m.queue)
    BY DEF RunsSound
  <2>1. loop[k].spec \in Valid
    BY Constants DEF FleetInv, ManagedInv, SoundInv, Usable
  <2> QED
    BY <2>1, ValidIsSound
<1>2. FleetInv => ClientIsCurrent
  BY DEF FleetInv, ManagedInv, SoundInv, ClientIsCurrent, EndpointIdentity
<1> QED
  BY <1>1, <1>2, FleetHolds, PTL DEF FleetInv, LoopInv

\* At no time do two bridges claim one partition of one Slurm, through reloads, restarts,
\* moved claims and hand-overs, and a bridge that is being stopped keeps its claim until its
\* last tick has ended (findConflict, stop).  Of a tick that a hot reload overtakes this says
\* nothing.
THEOREM OneManagerHolds == Spec => []OneManager
<1>1. FleetInv => OneManager
  <2> SUFFICES ASSUME FleetInv, NEW j \in CRs, NEW k \in CRs, j # k,
                      NEW s \in ClaimsOf(j), NEW t \in ClaimsOf(k), Conflicts(s, t)
               PROVE  FALSE
    BY DEF OneManager
  <2> USE DEF FleetInv, ManagedInv
  <2>1. \A o \in CRs : \A x \in ClaimsOf(o) :
          \/ loop[o].on /\ x = loop[o].spec
          \/ dying[o].on /\ x = dying[o].spec
    BY DEF ClaimsOf
  <2>2. ~(dying[j].on /\ dying[k].on)
    BY DEF StopInv
  <2> QED
    BY <2>1, <2>2, Symmetric DEF ClaimInv
<1> QED
  BY <1>1, FleetHolds, PTL

\* An object that is left alone and says its latest spec ticks has a bridge that runs that
\* spec: no lost event, failed write or refusal leaves it behind (Reconcile, ReportRejection).
THEOREM HealthyServed == Spec => []HealthyIsServed
<1>1. FleetInv => HealthyIsServed
  <2> SUFFICES ASSUME FleetInv, NEW k \in CRs, cr[k].uid # 0, ~Mistaken(k), Quiet(k),
                      cr[k].ready.reason \in {"ok", "fail"}
               PROVE  loop[k].on /\ loop[k].spec = cr[k].spec
    BY DEF HealthyIsServed
  <2>1. ~Due(k) /\ ~(rec # Idle /\ rec.k = k) /\ DoneAt(k) /\ Past(loop[k], k)
    BY UnderWay DEF FleetInv, Quiet, Due, DoneInv, KnownInv, PastInv
  <2>2. /\ loop[k].on /\ loop[k].gen = cr[k].gen
        /\ mode = "single" => loop[k].spec = cr[k].spec
    BY <2>1 DEF DoneAt
  <2>3. mode = "supervisor" => loop[k].uid = cr[k].uid
    BY <2>2 DEF Mistaken
  <2>4. mode \in {"supervisor", "single"}
    BY DEF FleetInv, TypeOK
  <2> QED
    BY <2>1, <2>2, <2>3, <2>4 DEF Past
<1> QED
  BY <1>1, FleetHolds, PTL

\* The step leaves the condition of a rejected k alone.
Stands(k) ==
  Refused(k) /\ cr'[k].gen = cr[k].gen /\ cr'[k].uid = cr[k].uid => cr'[k].ready = cr[k].ready

LEMMA Standing ==
  ASSUME FleetInv, [Next]_vars, NEW k \in CRs
  PROVE  Stands(k)
<1> USE DEF FleetInv, Stands
<1>0. Refused(k) => cr[k].ready.reason = "InvalidSpec" /\ cr[k].ready.obs = cr[k].gen
                    /\ cr[k].ready.of = cr[k].uid
  BY DEF Refused
<1>1. CASE Continue
  <2>0. rec # Idle /\ rec.k \in CRs /\ rec.reason \in Reasons
    BY <1>1, UnderWay DEF Continue, Stopped, RefuseConflict, StartFails, Start, ReportRejection
  <2>1. Marks(rec.k, rec.reason) /\ (cr' = cr \/ At("report"))
    BY <1>1, <2>0, Marking DEF Continue, Stopped, RefuseConflict, StartFails, Start,
                               ReportRejection, Marks
  <2>2. CASE rec.k # k
    BY <2>0, <2>1, <2>2, Marked
  <2>3. CASE rec.k = k /\ Refused(k)
    <3>1. rec.reason = "InvalidSpec" /\ cache[k].uid = cr[k].uid /\ cache[k].gen = cr[k].gen
      BY <2>0, <2>3, RefusedCopy DEF RefusedInv, RefusedAt
    <3>2. Mark(k, rec.reason) = cr[k].ready
      BY <2>3, <3>1 DEF Mark, Refused
    <3> QED
      BY <2>0, <2>1, <2>3, <3>2, Marked
  <2> QED
    BY <2>2, <2>3
<1>2. ASSUME NEW j \in CRs, Ticks(j) \/ Returns(j)
      PROVE  Stands(k)
  <2>1. CASE j = k
    BY <1>2, <2>1, DoneTicks
  <2>2. CASE j # k
    <3>1. \/ TickBegins(j)
          \/ \E state \in {"ok", "fail"} : TickEnds(j, state) \/ LoopReturns(j, state)
      BY <1>2 DEF Ticks, Returns
    <3>2. writer[j] \in Writer /\ dying[j].w \in Writer
      BY DEF TypeOK, Retired
    <3>3. cr' = cr \/ \E state \in {"ok", "fail"} : Marks(j, state)
      BY <3>1, <3>2, Reporting DEF TickBegins, TickEnds, LoopReturns
    <3> QED
      BY <2>2, <3>3, Marked DEF Reasons
  <2> QED
    BY <2>1, <2>2
<1>3. ASSUME NEW j \in CRs, Edits(j)
      PROVE  Stands(k)
  <2>1. CASE j # k
    BY <1>3, <2>1, Creating, Editing DEF Edits, Delete, Change, TypeOK, KnownInv
  <2>2. CASE Delete(k)
    BY <2>2, Records DEF Delete, Change, TypeOK, Refused
  <2>3. ASSUME NEW s \in Specs, Create(k, s)
        PROVE  Stands(k)
    BY <2>3 DEF Create, Refused
  <2>4. ASSUME NEW s \in Specs, Edit(k, s)
        PROVE  Stands(k)
    BY <2>4, Editing
  <2> QED
    BY <1>3, <2>1, <2>2, <2>3, <2>4 DEF Edits
<1>4. CASE UNCHANGED cr
  BY <1>4
<1>5. ASSUME NEW j \in CRs, Reconcile(j) \/ SyncCache(j)
      PROVE  UNCHANGED cr
  BY <1>5 DEF Reconcile, Deleted, RefuseInvalid, Unchanged, HotReload, Restart, Arrive, Reload,
              SyncCache
<1>6. Handover \/ UNCHANGED vars => UNCHANGED cr
  BY DEF Handover, vars
<1> QED
  BY <1>1, <1>2, <1>3, <1>4, <1>5, <1>6 DEF Next

\* A rejected spec stays rejected in the eyes of whoever reads the object: the report of no
\* tick and of no loop on its way out overwrites it (ReportTick, ReportRejection).
THEOREM RejectionsStand == Spec => RejectionStands
<1>1. FleetInv /\ [Next]_vars =>
        [\A k \in CRs :
           cr[k].uid # 0 /\ ~Usable(cr[k].spec)
             /\ cr[k].ready = [reason |-> "InvalidSpec", obs |-> cr[k].gen, of |-> cr[k].uid]
             /\ cr'[k].gen = cr[k].gen /\ cr'[k].uid = cr[k].uid
           => cr'[k].ready = cr[k].ready]_vars
  BY Standing DEF Stands, Refused
<1> QED
  BY <1>1, FleetHolds, PTL DEF Spec, RejectionStands

=============================================================================
