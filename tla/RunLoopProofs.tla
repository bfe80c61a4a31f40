----------------------------- MODULE RunLoopProofs ------------------------------
(***************************************************************************)
(* Proofs about RunLoop, for all poll intervals, damping floors, lengths   *)
(* of ticks and word sizes, and any number of failures and reloads.        *)
(***************************************************************************)
EXTENDS RunLoop, TLAPS

\* Where time stands.  Nothing is said of the timer of a wait: an event does not
\* depend on it.
ClockInv ==
  /\ pc \in {"tick", "report", "wait", "damp"} /\ since \in Nat
  /\ pc = "tick" => since <= MaxTick
  /\ pc = "report" => timer \in Nat /\ since + timer <= MaxTick + MaxReport
  /\ pc = "damp" => timer \in Nat /\ since + timer <= Damp

\* An event that no tick has started after is in the channel, or has been taken out
\* of it for the tick that is about to start.  It is not older than the last tick,
\* and while the loop waits it does not grow older.
EventInv ==
  /\ unseen \in Nat \union {None} /\ nudge \in BOOLEAN
  /\ unseen # None /\ pc # "damp" => nudge
  /\ unseen <= since
  /\ pc = "wait" => unseen <= MaxTick + MaxReport

LoopEventInv == ClockInv /\ EventInv

-----------------------------------------------------------------------------
LEMMA Bounds ==
  /\ Damp \in Nat /\ MaxTick \in Nat /\ MaxReport \in Nat
  /\ MaxFailures \in Nat /\ MaxReloads \in Nat
  /\ None = -1 /\ None \notin Nat
BY RunLoopConstantsOK DEF None

LEMMA EventInit == Init => LoopEventInv
<1> SUFFICES ASSUME Init PROVE LoopEventInv
  OBVIOUS
<1>1. pc = "tick" /\ since = 0 /\ unseen = None
  BY DEF Init
<1>2. nudge \in BOOLEAN
  BY DEF Init
<1>3. ClockInv
  BY <1>1, Bounds DEF ClockInv
<1>4. unseen = -1 /\ unseen <= since
  BY <1>1, Bounds
<1>5. EventInv
  BY <1>1, <1>2, <1>4 DEF EventInv
<1> QED
  BY <1>3, <1>5 DEF LoopEventInv

\* A tick that starts has seen everything.
LEMMA Starting ==
  ASSUME LoopEventInv, StartTick, nudge' \in BOOLEAN
  PROVE  LoopEventInv'
BY Bounds DEF StartTick, LoopEventInv, ClockInv, EventInv

\* The loop.
LEMMA LoopSteps ==
  ASSUME LoopEventInv, Loop
  PROVE  LoopEventInv'
<1>1. ASSUME NEW ok \in BOOLEAN, TickEnds(ok)
      PROVE  LoopEventInv'
  BY <1>1, Bounds DEF TickEnds, LoopEventInv, ClockInv, EventInv
<1>2. CASE SetTimer
  <2>1. pc = "report" /\ pc' = "wait" /\ UNCHANGED <<nudge, since, unseen>>
    BY <1>2 DEF SetTimer
  <2>2. unseen <= MaxTick + MaxReport
    BY <2>1, Bounds DEF LoopEventInv, ClockInv, EventInv
  <2> QED
    BY <2>1, <2>2, Bounds DEF LoopEventInv, ClockInv, EventInv
<1>3. CASE Fire \/ DampingOver
  BY <1>3, Starting DEF Fire, DampingOver, LoopEventInv, EventInv
<1>4. CASE Wake
  <2>1. nudge' = FALSE /\ pc = "wait"
    BY <1>4 DEF Wake
  <2>2. CASE StartTick
    BY <2>1, <2>2, Starting
  <2>3. CASE nudgeDamping(Damp, since) > 0 /\ pc' = "damp" /\ timer' = nudgeDamping(Damp, since)
             /\ UNCHANGED <<since, unseen>>
    <3>1. since \in Nat /\ nudgeDamping(Damp, since) = Damp - since
      BY <2>3, Bounds DEF nudgeDamping, Greatest, LoopEventInv, ClockInv
    <3>2. timer' \in Nat /\ since' + timer' <= Damp
      BY <2>3, <3>1, Bounds
    <3> QED
      BY <2>1, <2>3, <3>2, Bounds DEF LoopEventInv, ClockInv, EventInv
  <2> QED
    BY <1>4, <2>2, <2>3 DEF Wake
<1> QED
  BY <1>1, <1>2, <1>3, <1>4 DEF Loop

\* Time passes only where the loop has nothing to do: not past the end of a wait, and
\* not while an event is in the channel of a loop that waits.
LEMMA TimePasses ==
  ASSUME LoopEventInv, Advance
  PROVE  LoopEventInv'
<1>1. /\ pc' = pc /\ since' = since + 1 /\ since \in Nat /\ nudge' = nudge
      /\ unseen' = IF unseen = None THEN None ELSE unseen + 1
  BY DEF Advance, LoopEventInv, ClockInv
<1>2. CASE pc = "tick"
  BY <1>1, <1>2, Bounds DEF Advance, Urgent, LoopEventInv, ClockInv, EventInv
<1>3. CASE pc \in {"report", "damp"}
  BY <1>1, <1>3, Bounds DEF Advance, Urgent, LoopEventInv, ClockInv, EventInv
<1>4. CASE pc = "wait"
  <2>1. unseen = None /\ unseen' = None
    BY <1>1, <1>4 DEF Advance, Urgent, LoopEventInv, EventInv
  <2> QED
    BY <1>1, <1>4, <2>1, Bounds DEF LoopEventInv, ClockInv, EventInv
<1> QED
  BY <1>2, <1>3, <1>4 DEF LoopEventInv, ClockInv

LEMMA EventStep == LoopEventInv /\ [Next]_vars => LoopEventInv'
<1> SUFFICES ASSUME LoopEventInv, [Next]_vars PROVE LoopEventInv'
  OBVIOUS
<1>1. CASE UNCHANGED vars
  BY <1>1 DEF vars, LoopEventInv, ClockInv, EventInv
<1>2. CASE Nudge
  BY <1>2, Bounds DEF Nudge, Buffered, LoopEventInv, ClockInv, EventInv
<1>3. CASE HotReload
  BY <1>3 DEF HotReload, LoopEventInv, ClockInv, EventInv
<1> QED
  BY <1>1, <1>2, <1>3, LoopSteps, TimePasses DEF Next

-----------------------------------------------------------------------------
(* Theorem *)

\* No nudge is lost: a tick that sees it starts within the damping floor or the rest
\* of the tick in progress, whatever the backoff is (Run, Nudge, nudgeDamping).
THEOREM EventsSeen == Spec => []EventsAreSeenSoon
<1>1. LoopEventInv => EventsAreSeenSoon
  <2> SUFFICES ASSUME LoopEventInv PROVE unseen <= Greatest(Damp, MaxTick + MaxReport)
    BY DEF EventsAreSeenSoon
  <2>1. unseen <= Damp \/ unseen <= MaxTick + MaxReport
    BY Bounds DEF LoopEventInv, ClockInv, EventInv
  <2> QED
    BY <2>1, Bounds DEF Greatest, LoopEventInv, EventInv
<1> QED
  BY <1>1, EventInit, EventStep, PTL DEF Spec

-----------------------------------------------------------------------------
(* How long a wait is *)

\* Ten per cent of a duration.
LEMMA Tenth ==
  ASSUME NEW d \in Nat
  PROVE  d \div 10 \in Nat /\ d \div 10 <= d
OBVIOUS

LEMMA Longest ==
  /\ LongestPoll \in Polls /\ LongestPoll \in Nat
  /\ \A p \in Polls : p \in Nat /\ p > 0 /\ p <= LongestPoll /\ Damp <= p
<1>1. \E p \in Polls : \A q \in Polls : q <= p
  BY RunLoopConstantsOK
<1>2. LongestPoll \in Polls /\ \A q \in Polls : q <= LongestPoll
  BY <1>1 DEF LongestPoll
<1> QED
  BY <1>2, RunLoopConstantsOK

\* The backoff doubles twice and stops at the cap, until the shift leaves the word.
LEMMA Multiples ==
  ASSUME NEW n \in Nat, n > 0
  PROVE  /\ Multiple(n) \in {0, 2, 4, 6}
         /\ n < Width - 1 => Multiple(n) \in {2, 4, 6}
<1>1. Width \in Nat
  BY RunLoopConstantsOK
<1>2. CASE n >= Width - 1
  BY <1>1, <1>2 DEF Multiple
<1>3. CASE n < Width - 1 /\ n >= 8
  <2>1. Least(n, 8) = 8 /\ 2 ^ 8 = 256
    BY <1>3 DEF Least
  <2>2. Multiple(n) = 6
    BY <1>1, <1>3, <2>1 DEF Multiple, Least, maxBackoffMultiple
  <2> QED
    BY <2>2
<1>4. CASE n < Width - 1 /\ n < 8
  <2>1. Least(n, 8) = n
    BY <1>4 DEF Least
  <2>2. /\ 2 ^ 1 = 2 /\ 2 ^ 2 = 4 /\ 2 ^ 3 = 8 /\ 2 ^ 4 = 16
        /\ 2 ^ 5 = 32 /\ 2 ^ 6 = 64 /\ 2 ^ 7 = 128
    OBVIOUS
  <2>3. n \in {1, 2, 3, 4, 5, 6, 7}
    BY <1>4
  <2>4. Multiple(n) = Least(2 ^ n, 6)
    BY <1>1, <1>4, <2>1 DEF Multiple, maxBackoffMultiple
  <2>5. 2 ^ n \in {2, 4, 8, 16, 32, 64, 128}
    <3>1. CASE n = 1
      BY <2>2, <3>1
    <3>2. CASE n = 2
      BY <2>2, <3>2
    <3>3. CASE n = 3
      BY <2>2, <3>3
    <3>4. CASE n = 4
      BY <2>2, <3>4
    <3>5. CASE n = 5
      BY <2>2, <3>5
    <3>6. CASE n = 6
      BY <2>2, <3>6
    <3>7. CASE n = 7
      BY <2>2, <3>7
    <3> QED
      BY <2>3, <3>1, <3>2, <3>3, <3>4, <3>5, <3>6, <3>7
  <2>6. PICK v \in {2, 4, 8, 16, 32, 64, 128} : v = 2 ^ n
    BY <2>5
  <2>7. Multiple(n) = Least(v, 6)
    BY <2>4, <2>6
  <2> QED
    BY <2>7 DEF Least
<1> QED
  BY <1>1, <1>2, <1>3, <1>4

\* Jitter is at most ten per cent either way.
LEMMA JitterBounds ==
  ASSUME NEW d \in Nat, NEW t \in Jittered(d)
  PROVE  t \in Nat /\ t >= d - d \div 10 /\ t <= d + d \div 10
BY Tenth DEF Jittered

LongestWait == 6 * LongestPoll + (6 * LongestPoll) \div 10

LEMMA LongestWaitOK == LongestWait \in Nat /\ LongestGap = MaxTick + MaxReport + LongestWait
BY Longest, Bounds DEF LongestWait, LongestGap, maxBackoffMultiple

LEMMA LateGap ==
  ASSUME NEW s \in Nat, NEW t \in Nat, s <= MaxTick + MaxReport, t <= LongestWait
  PROVE  s + t <= LongestGap
BY LongestWaitOK, Bounds

LEMMA WaitBounds ==
  ASSUME NEW base \in Polls, NEW n \in Nat, NEW t \in nextBackoff(base, n)
  PROVE  /\ t \in Nat /\ t <= LongestWait
         /\ n = 0 => t <= base + base \div 10
         /\ n < Width - 1 => t >= base - base \div 10
<1>1. base \in Nat /\ base <= LongestPoll /\ LongestPoll \in Nat
  BY Longest
<1>2. CASE n = 0
  <2>1. t \in Jittered(base)
    BY <1>2 DEF nextBackoff
  <2>2. t \in Nat /\ t >= base - base \div 10 /\ t <= base + base \div 10
    BY <1>1, <2>1, JitterBounds
  <2>3. base + base \div 10 <= LongestWait
    BY <1>1 DEF LongestWait
  <2> QED
    BY <1>1, <1>2, <2>2, <2>3, LongestWaitOK, Tenth
<1>3. CASE n > 0
  <2>1. t \in Jittered(base * Multiple(n))
    BY <1>3 DEF nextBackoff
  <2>2. ASSUME NEW m \in {0, 2, 4, 6}, m = Multiple(n)
        PROVE  /\ t \in Nat /\ t <= LongestWait
               /\ m # 0 => t >= base - base \div 10
    <3>1. base * m \in Nat /\ base * m <= 6 * LongestPoll /\ (m # 0 => base * m >= 2 * base)
      BY <1>1, <2>2
    <3>2. PICK d \in Nat : d = base * m
      BY <3>1
    <3>3. t \in Nat /\ t >= d - d \div 10 /\ t <= d + d \div 10
      BY <2>1, <2>2, <3>2, JitterBounds
    <3>4. d <= 6 * LongestPoll /\ (m # 0 => d >= 2 * base)
      BY <3>1, <3>2
    <3>5. d + d \div 10 <= LongestWait
      BY <1>1, <3>4 DEF LongestWait
    <3>6. m # 0 => d - d \div 10 >= base - base \div 10
      BY <1>1, <3>4
    <3> QED
      BY <1>1, <3>3, <3>5, <3>6, LongestWaitOK, Tenth
  <2> QED
    BY <1>3, <2>2, Multiples
<1> QED
  BY <1>2, <1>3

-----------------------------------------------------------------------------
(* The timer *)

\* The last outcome decides what a wait may take, in all and since the last tick.
TimerWaits ==
  /\ pc = "wait" => since + timer <= LongestGap
  /\ ~lastErr => failures = 0

\* The age of the last success, whatever it is, runs along with the clock.
FreshInv ==
  ~lastErr /\ age # None =>
    /\ pc # "tick" => age <= since
    /\ pc = "report" => age + timer <= MaxReport
    /\ pc = "wait" /\ paced => age + timer <= MaxReport + poll + poll \div 10
    /\ pc = "tick" /\ paced => age <= since + MaxReport + poll + poll \div 10

WaitInv == TypeOK /\ ClockInv /\ TimerWaits /\ PaceAfterSuccess /\ FreshInv

USE DEF None

LEMMA WaitInit == Init => WaitInv
<1> SUFFICES ASSUME Init PROVE WaitInv
  OBVIOUS
<1>1. TypeOK
  <2>1. failures \in 0..MaxFailures /\ reloads \in 0..MaxReloads
    BY Bounds DEF Init
  <2>2. nudge \in BOOLEAN /\ lastErr \in BOOLEAN /\ paced \in BOOLEAN
    BY Zenon DEF Init
  <2> QED
    BY <2>1, <2>2 DEF Init, TypeOK
<1>2. ClockInv /\ TimerWaits /\ PaceAfterSuccess /\ FreshInv
  BY Bounds DEF Init, ClockInv, TimerWaits, PaceAfterSuccess, FreshInv
<1> QED
  BY <1>1, <1>2 DEF WaitInv

\* A tick that starts follows the last success by no more than its wait allowed.
LEMMA WaitStarting ==
  ASSUME WaitInv, StartTick, nudge' \in BOOLEAN,
         UNCHANGED <<poll, failures, lastErr, age, reloads, paced>>,
         ~lastErr /\ age # None /\ paced => age <= MaxReport + poll + poll \div 10
  PROVE  WaitInv'
<1>1. TypeOK'
  BY DEF WaitInv, TypeOK, StartTick
<1>2. ClockInv'
  BY Bounds DEF StartTick, ClockInv
<1>3. TimerWaits' /\ PaceAfterSuccess'
  BY DEF StartTick, WaitInv, TimerWaits, PaceAfterSuccess
<1>4. poll \in Nat
  BY Longest DEF WaitInv, TypeOK
<1>5. FreshInv'
  BY <1>4, Bounds, Tenth DEF StartTick, FreshInv, WaitInv, TypeOK
<1> QED
  BY <1>1, <1>2, <1>3, <1>5 DEF WaitInv

LEMMA WaitLoopSteps ==
  ASSUME WaitInv, Loop
  PROVE  WaitInv'
<1>0. poll \in Polls /\ poll \in Nat /\ poll \div 10 \in Nat /\ Damp <= poll /\ since \in Nat
      /\ timer \in Nat /\ failures \in Nat
  BY Longest, Tenth, RunLoopConstantsOK DEF WaitInv, TypeOK
<1>1. ASSUME NEW ok \in BOOLEAN, TickEnds(ok)
      PROVE  WaitInv'
  <2>1. /\ pc = "tick" /\ pc' = "report" /\ timer' = MaxReport
        /\ UNCHANGED <<poll, nudge, since, reloads, unseen>>
    BY <1>1 DEF TickEnds
  <2>2. CASE ok = TRUE
    <3>1. failures' = 0 /\ lastErr' = FALSE /\ age' = 0 /\ paced' = TRUE
      BY <1>1, <2>2 DEF TickEnds, FailuresAfter
    <3>2. TypeOK'
      <4>1. failures' \in 0..MaxFailures /\ timer' \in Nat
        BY <2>1, <3>1, Bounds
      <4> QED
        BY <2>1, <3>1, <4>1 DEF WaitInv, TypeOK
    <3>3. ClockInv' /\ FreshInv'
      BY <1>0, <2>1, <3>1, Bounds DEF WaitInv, ClockInv, FreshInv
    <3>4. TimerWaits' /\ PaceAfterSuccess'
      BY <2>1, <3>1 DEF TimerWaits, PaceAfterSuccess
    <3> QED
      BY <3>2, <3>3, <3>4 DEF WaitInv
  <2>3. CASE ok = FALSE
    <3>1. failures' = failures + 1 /\ failures < MaxFailures /\ lastErr' = TRUE
          /\ age' = age /\ paced' = paced
      BY <1>1, <2>3 DEF TickEnds, FailuresAfter, WaitInv, TypeOK
    <3>2. TypeOK'
      BY <1>0, <2>1, <3>1, Bounds, RunLoopConstantsOK DEF WaitInv, TypeOK
    <3>3. ClockInv' /\ FreshInv'
      BY <1>0, <2>1, <3>1, Bounds DEF WaitInv, ClockInv, FreshInv
    <3>4. TimerWaits' /\ PaceAfterSuccess'
      BY <2>1, <3>1 DEF TimerWaits, PaceAfterSuccess
    <3> QED
      BY <3>2, <3>3, <3>4 DEF WaitInv
  <2> QED
    BY <2>2, <2>3
<1>2. CASE SetTimer
  <2>1. /\ pc = "report" /\ pc' = "wait" /\ timer' \in nextBackoff(poll, failures)
        /\ UNCHANGED <<poll, failures, nudge, since, lastErr, age, reloads, unseen, paced>>
    BY <1>2 DEF SetTimer
  <2>2. /\ timer' \in Nat /\ timer' <= LongestWait
        /\ failures = 0 => timer' <= poll + poll \div 10
    BY <1>0, <2>1, WaitBounds
  <2>3. since <= MaxTick + MaxReport /\ MaxTick + MaxReport \in Nat
    BY <1>0, <2>1, Bounds DEF WaitInv, ClockInv
  <2>4. TypeOK'
    BY <2>1, <2>2 DEF WaitInv, TypeOK
  <2>5. ClockInv'
    BY <2>1 DEF WaitInv, ClockInv
  <2>6. TimerWaits'
    <3>1. ~lastErr => failures = 0
      BY DEF WaitInv, TimerWaits
    <3>2. since' + timer' <= LongestGap
      BY <1>0, <2>1, <2>2, <2>3, LateGap
    <3> QED
      BY <2>1, <3>1, <3>2 DEF TimerWaits
  <2> PICK wait \in Nat : wait = poll + poll \div 10
    BY <1>0
  <2> PICK late \in Nat : late = MaxTick + MaxReport
    BY <2>3
  <2>7. PaceAfterSuccess'
    <3>1. ~lastErr => timer' <= wait
      BY <2>2 DEF WaitInv, TimerWaits
    <3>2. ~lastErr => since + timer' <= late + wait
      BY <1>0, <2>2, <2>3, <3>1
    <3>3. late + wait = MaxTick + MaxReport + poll + poll \div 10
      BY <1>0, Bounds
    <3> QED
      BY <2>1, <3>2, <3>3 DEF PaceAfterSuccess
  <2>8. FreshInv'
    <3>1. SUFFICES ASSUME ~lastErr, age # None
                   PROVE  age <= since /\ age + timer' <= MaxReport + poll + poll \div 10
      BY <2>1 DEF FreshInv
    <3>2. timer' <= wait /\ timer' \in Nat
      BY <2>2, <3>1 DEF WaitInv, TimerWaits
    <3>3. age \in Nat /\ age <= since /\ age + timer <= MaxReport
      BY <2>1, <3>1 DEF WaitInv, TypeOK, FreshInv
    <3>4. age <= MaxReport
      BY <1>0, <3>3, Bounds
    <3>5. age + timer' <= MaxReport + wait
      BY <3>2, <3>3, <3>4, Bounds
    <3>6. MaxReport + wait = MaxReport + poll + poll \div 10
      BY <1>0, Bounds
    <3> QED
      BY <3>3, <3>5, <3>6
  <2> QED
    BY <2>4, <2>5, <2>6, <2>7, <2>8 DEF WaitInv
<1>3. CASE Fire
  BY <1>0, <1>3, Bounds, WaitStarting DEF Fire, WaitInv, TypeOK, FreshInv
<1>4. CASE Wake
  <2>1. /\ pc = "wait" /\ nudge' \in BOOLEAN
        /\ UNCHANGED <<poll, failures, lastErr, age, reloads, paced>>
    BY <1>4 DEF Wake
  <2>2. CASE StartTick
    <3>1. ~lastErr /\ age # None /\ paced => age <= MaxReport + poll + poll \div 10
      BY <1>0, <2>1, Bounds DEF WaitInv, TypeOK, FreshInv
    <3> QED
      BY <2>1, <2>2, <3>1, WaitStarting
  <2>3. CASE /\ nudgeDamping(Damp, since) > 0 /\ pc' = "damp" /\ UNCHANGED <<since, unseen>>
             /\ timer' = nudgeDamping(Damp, since)
    <3>1. nudgeDamping(Damp, since) = Damp - since
      BY <1>0, <2>3, Bounds DEF nudgeDamping, Greatest
    <3>2. timer' \in Nat /\ since' + timer' <= Damp
      BY <1>0, <2>3, <3>1, Bounds
    <3>3. TypeOK'
      BY <2>1, <2>3, <3>2 DEF WaitInv, TypeOK
    <3>4. ClockInv'
      BY <1>0, <2>3, <3>2 DEF ClockInv
    <3>5. TimerWaits' /\ PaceAfterSuccess' /\ FreshInv'
      BY <2>1, <2>3 DEF WaitInv, TimerWaits, PaceAfterSuccess, FreshInv
    <3> QED
      BY <3>3, <3>4, <3>5 DEF WaitInv
  <2> QED
    BY <1>4, <2>2, <2>3 DEF Wake
<1>5. CASE DampingOver
  <2>1. ~lastErr /\ age # None /\ paced => age <= MaxReport + poll + poll \div 10
    BY <1>0, <1>5, Bounds DEF DampingOver, WaitInv, TypeOK, ClockInv, FreshInv
  <2> QED
    BY <1>5, <2>1, WaitStarting DEF DampingOver, WaitInv, TypeOK
<1> QED
  BY <1>1, <1>2, <1>3, <1>4, <1>5 DEF Loop

LEMMA WaitTimePasses ==
  ASSUME WaitInv, Advance
  PROVE  WaitInv'
<1>0. poll \in Nat /\ poll \div 10 \in Nat /\ since \in Nat /\ timer \in Nat
  BY Longest, Tenth DEF WaitInv, TypeOK
<1>1. /\ UNCHANGED <<pc, poll, failures, lastErr, paced, nudge, reloads>>
      /\ since' = since + 1
      /\ age' = (IF age = None THEN None ELSE Least(age + 1, StaleAge))
      /\ unseen' = (IF unseen = None THEN None ELSE unseen + 1)
      /\ timer' = (IF pc = "tick" THEN timer ELSE timer - 1)
      /\ pc # "tick" => timer > 0
      /\ pc = "tick" => since < MaxTick
  BY <1>0, Bounds DEF Advance, Urgent, WaitInv, TypeOK
<1>2. timer' \in Nat /\ (pc # "tick" => since' + timer' = since + timer)
  BY <1>0, <1>1
<1>3. /\ age' \in Nat \union {None}
      /\ age # None => age' # None /\ age' <= age + 1
      /\ age' # None => age # None
  BY <1>1, Longest DEF Least, StaleAge, staleSuccessMultiple, WaitInv, TypeOK
<1>4. TypeOK'
  BY <1>0, <1>1, <1>2, <1>3 DEF WaitInv, TypeOK
<1>5. ClockInv'
  BY <1>0, <1>1, <1>2, Bounds DEF WaitInv, ClockInv
<1>6. TimerWaits' /\ PaceAfterSuccess'
  BY <1>1, <1>2 DEF WaitInv, TimerWaits, PaceAfterSuccess
<1>7. FreshInv'
  <2>1. CASE pc = "tick"
    BY <1>0, <1>1, <1>3, <2>1, Bounds DEF WaitInv, TypeOK, FreshInv
  <2>2. CASE pc # "tick"
    BY <1>0, <1>1, <1>3, <2>2, Bounds DEF WaitInv, TypeOK, FreshInv
  <2> QED
    BY <2>1, <2>2
<1> QED
  BY <1>4, <1>5, <1>6, <1>7 DEF WaitInv

LEMMA WaitStep == WaitInv /\ [Next]_vars => WaitInv'
<1> SUFFICES ASSUME WaitInv, [Next]_vars PROVE WaitInv'
  OBVIOUS
<1> USE DEF WaitInv, TypeOK, ClockInv, TimerWaits, PaceAfterSuccess, FreshInv
<1>1. CASE UNCHANGED vars
  BY <1>1 DEF vars
<1>2. CASE Nudge
  BY <1>2 DEF Nudge, Buffered
<1>3. CASE HotReload
  <2>1. reloads' \in 0..MaxReloads
    BY <1>3, RunLoopConstantsOK DEF HotReload
  <2> QED
    BY <1>3, <2>1 DEF HotReload
<1> QED
  BY <1>1, <1>2, <1>3, WaitLoopSteps, WaitTimePasses DEF Next

LEMMA WaitHolds == Spec => []WaitInv
BY WaitInit, WaitStep, PTL DEF Spec

-----------------------------------------------------------------------------
(* The space between ticks *)

\* The timer that is set ends a wait of a poll interval at least, jitter apart, and a
\* damped one at the floor: if no run of failures shifts the multiple out of the word.
SpacingInv ==
  /\ TypeOK
  /\ pc = "wait" => \E p \in Polls : since + timer >= p - p \div 10
  /\ pc = "damp" => since + timer >= Damp

LEMMA StillAbove ==
  ASSUME NEW s \in Nat, NEW t \in Nat, NEW d \in Int, t >= d
  PROVE  s + t >= d
OBVIOUS

LEMMA SpacingStep ==
  ASSUME MaxFailures < Width - 1, WaitInv, TypeOK', SpacingInv, [Next]_vars
  PROVE  SpacingInv'
<1>0. since \in Nat /\ timer \in Nat /\ failures \in Nat /\ failures < Width - 1 /\ poll \in Polls
  BY Bounds, RunLoopConstantsOK DEF SpacingInv, TypeOK
<1>1. CASE pc' = "wait" /\ pc # "wait"
  <2>1. SetTimer
    BY <1>1 DEF Next, Loop, TickEnds, SetTimer, Fire, Wake, DampingOver, StartTick, Nudge,
                HotReload, Advance, vars
  <2>2. since' = since /\ timer' \in nextBackoff(poll, failures)
    BY <2>1 DEF SetTimer
  <2>3. timer' \in Nat /\ timer' >= poll - poll \div 10
    BY <1>0, <2>2, WaitBounds
  <2>4. since' + timer' >= poll - poll \div 10
    <3>1. PICK d \in Int : d = poll - poll \div 10
      BY <1>0, Longest, Tenth
    <3>2. d \in Int /\ timer' \in Nat /\ timer' >= d /\ since' \in Nat
      BY <1>0, <2>2, <2>3, <3>1
    <3>3. since' + timer' >= d
      BY <3>2, StillAbove
    <3> QED
      BY <3>1, <3>3
  <2> QED
    BY <1>0, <1>1, <2>4 DEF SpacingInv
<1>2. CASE pc' = "wait" /\ pc = "wait"
  <2>1. since' + timer' = since + timer
    BY <1>0, <1>2 DEF Next, Loop, TickEnds, SetTimer, Fire, Wake, DampingOver, StartTick,
                      Nudge, HotReload, Advance, vars
  <2> QED
    BY <1>2, <2>1 DEF SpacingInv
<1>3. CASE pc' = "damp" /\ pc # "damp"
  <2>1. Wake /\ timer' = nudgeDamping(Damp, since) /\ since' = since
    BY <1>3 DEF Next, Loop, TickEnds, SetTimer, Fire, Wake, DampingOver, StartTick, Nudge,
                HotReload, Advance, vars
  <2> QED
    BY <1>0, <1>3, <2>1, Bounds DEF SpacingInv, nudgeDamping, Greatest
<1>4. CASE pc' = "damp" /\ pc = "damp"
  <2>1. since' + timer' = since + timer
    BY <1>0, <1>4 DEF Next, Loop, TickEnds, SetTimer, Fire, Wake, DampingOver, StartTick,
                      Nudge, HotReload, Advance, vars
  <2> QED
    BY <1>4, <2>1 DEF SpacingInv
<1> QED
  BY <1>1, <1>2, <1>3, <1>4 DEF SpacingInv

-----------------------------------------------------------------------------
(* Theorems *)

\* slurmrestd is left alone for a while: ticks start the damping floor apart, or a poll
\* interval less its jitter, through any run of events and reloads and of failures that
\* leaves the multiple in the word (Run, nudgeDamping, jitteredInterval).
THEOREM TicksSpaced ==
  ASSUME MaxFailures < Width - 1
  PROVE  Spec => TicksAreSpaced
<1> DEFINE Spaced == StartTick /\ pc # "tick" =>
                       since >= Damp \/ \E p \in Polls : since >= p - p \div 10
<1>1. Init => SpacingInv
  BY WaitInit DEF Init, WaitInv, SpacingInv
<1>2. WaitInv /\ WaitInv' /\ SpacingInv /\ [Next]_vars => SpacingInv'
  BY SpacingStep DEF WaitInv
<1>3. WaitInv /\ SpacingInv /\ [Next]_vars => [Spaced]_vars
  <2> SUFFICES ASSUME WaitInv, SpacingInv, [Next]_vars, StartTick, pc # "tick"
               PROVE  since >= Damp \/ \E p \in Polls : since >= p - p \div 10
    OBVIOUS
  <2>0. since \in Nat /\ timer \in Nat
    BY DEF SpacingInv, TypeOK
  <2>1. Fire \/ Wake \/ DampingOver
    BY DEF Next, Loop, TickEnds, SetTimer, StartTick, Nudge, HotReload, Advance, vars
  <2>2. CASE Fire
    BY <2>0, <2>2 DEF Fire, SpacingInv
  <2>3. CASE Wake
    <3>1. ~(nudgeDamping(Damp, since) > 0)
      BY <2>3 DEF Wake, StartTick
    <3> QED
      BY <2>0, <3>1, Bounds DEF nudgeDamping, Greatest
  <2>4. CASE DampingOver
    BY <2>0, <2>4, Bounds DEF DampingOver, SpacingInv
  <2> QED
    BY <2>1, <2>2, <2>3, <2>4
<1>4. Spec => [][Spaced]_vars
  BY <1>1, <1>2, <1>3, WaitHolds, PTL DEF Spec
<1> QED
  BY <1>4 DEF TicksAreSpaced

\* The loop never waits too long, nor too long for the outcome of its last tick: backoff,
\* reports and reloads keep to the cap, and one success ends the backoff (nextBackoff).
THEOREM TimerBounded == Spec => []TimerInv
<1>1. WaitInv => TimerInv
  <2> SUFFICES ASSUME WaitInv PROVE RetriesAreBounded
    BY DEF TimerInv, WaitInv
  <2> QED
    BY Bounds, Longest, LongestWaitOK, Tenth
       DEF RetriesAreBounded, WaitInv, TypeOK, ClockInv, TimerWaits, LongestWait
<1> QED
  BY <1>1, WaitHolds, PTL

\* Readiness does not flap while ticks succeed, if they are short against the interval
\* and no reload has changed it (Ready, staleSuccessMultiple).
THEOREM ReadyHolds == Spec => []ReadyWhileSucceeding
<1>1. WaitInv => ReadyWhileSucceeding
  <2> SUFFICES ASSUME WaitInv, ~lastErr, age # None, paced,
                      10 * (MaxTick + MaxReport) <= 19 * poll
               PROVE  age <= 3 * poll
    BY DEF ReadyWhileSucceeding, Ready, staleSuccessMultiple
  <2>1. poll \in Nat /\ poll \div 10 \in Nat /\ 10 * (poll \div 10) <= poll /\ Damp <= poll
    BY Longest, Tenth DEF WaitInv, TypeOK
  <2>2. since \in Nat /\ timer \in Nat /\ age \in Nat
    BY DEF WaitInv, TypeOK
  <2>3. CASE pc = "tick"
    BY <2>1, <2>2, <2>3, Bounds DEF WaitInv, ClockInv, FreshInv
  <2>4. CASE pc = "report"
    BY <2>1, <2>2, <2>4, Bounds DEF WaitInv, ClockInv, FreshInv
  <2>5. CASE pc = "wait"
    BY <2>1, <2>2, <2>5, Bounds DEF WaitInv, FreshInv
  <2>6. CASE pc = "damp"
    BY <2>1, <2>2, <2>6, Bounds DEF WaitInv, ClockInv, FreshInv
  <2> QED
    BY <2>3, <2>4, <2>5, <2>6 DEF WaitInv, ClockInv
<1> QED
  BY <1>1, WaitHolds, PTL

=============================================================================
