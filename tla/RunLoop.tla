-------------------------------- MODULE RunLoop --------------------------------
(***************************************************************************)
(* When a bridge ticks (internal/bridge/reconciler.go, Run and Nudge;      *)
(* watch.go; health.go): the poll timer with its backoff and jitter, watch *)
(* events that cut the wait short behind a damping floor, and what the     *)
(* probes make of the outcomes.  What a tick does is SlurmBridge's subject.*)
(* Time is discrete.  The loop's own steps take none; a tick, the report   *)
(* of its outcome and the waits do, each up to its bound.                  *)
(***************************************************************************)
EXTENDS Integers

CONSTANTS
  Polls,        \* the values a configuration gives pollInterval
  Damp,         \* nudgeMinInterval
  MaxTick,      \* assumption: the longest tick
  MaxReport,    \* readyPatchTimeout, the longest OnTick
  Width,        \* bits of an int
  MaxFailures,  \* bound: consecutive failed ticks
  MaxReloads    \* bound: hot reloads

\* Validation refuses an interval below a second, which is the damping floor.
ASSUME RunLoopConstantsOK ==
  /\ Polls \subseteq Nat \ {0} /\ \E p \in Polls : \A q \in Polls : q <= p
  /\ Damp \in Nat \ {0} /\ (\A p \in Polls : Damp <= p) /\ MaxTick \in Nat /\ MaxReport \in Nat
  /\ Width \in Nat \ {0, 1, 2, 3}
  /\ MaxFailures \in Nat /\ MaxReloads \in Nat

VARIABLES
  pc,        \* "tick", "report", "wait" on timer and nudge, or "damp"
  poll,      \* the live configuration's pollInterval
  failures,  \* consecutiveFailures
  nudge,     \* an event sits in the buffered channel
  timer,     \* time until the timer that is set fires
  since,     \* time since the tick in progress, or the last one, started
  lastErr,   \* the last tick failed: lastTickErr
  age,       \* time since lastSuccessAt, up to StaleAge
  reloads,   \* hot reloads left
  unseen,    \* history: age of the oldest event that no tick has started after
  paced      \* history: pollInterval has been the same since the last success

vars == <<pc, poll, failures, nudge, timer, since, lastErr, age, reloads, unseen, paced>>

maxBackoffMultiple   == 6
staleSuccessMultiple == 3

None  == -1       \* no event, or no success yet
Least(a, b)    == IF a < b THEN a ELSE b
Greatest(a, b) == IF a < b THEN b ELSE a
LongestPoll == CHOOSE p \in Polls : \A q \in Polls : q <= p
StaleAge    == staleSuccessMultiple * LongestPoll + 1

-----------------------------------------------------------------------------
(* Decisions.  Wrong... is the same with a plausible mistake. *)

\* 1 << n for an int.  From the sign bit on nothing positive is left, which is not
\* above the cap, and the product with the interval is no wait at all.
WrongMultiple(n) == IF n >= Width - 1 THEN 0 ELSE 2 ^ Least(n, 8)
Multiple(n) ==
  IF n >= Width - 1 THEN 0 ELSE Least(2 ^ Least(n, 8), maxBackoffMultiple)

\* jitteredInterval: ten per cent either way, in whole units.
Jittered(d) == (d - d \div 10)..(d + d \div 10)

nextBackoff(base, n) == IF n <= 0 THEN Jittered(base) ELSE Jittered(base * Multiple(n))

WrongnudgeDamping(minInterval, sinceLastTick) == Greatest(sinceLastTick - minInterval, 0)
nudgeDamping(minInterval, sinceLastTick) == Greatest(minInterval - sinceLastTick, 0)

\* The channel has a place for one event.
WrongBuffered(full) == full \/ pc = "wait"
Buffered(full) == TRUE

WrongFailuresAfter(ok) == IF ok THEN failures - 1 ELSE failures + 1
FailuresAfter(ok) == IF ok THEN 0 ELSE failures + 1

WrongReady == age # None /\ age <= poll
Ready == age # None /\ age <= staleSuccessMultiple * poll

-----------------------------------------------------------------------------
Init ==
  /\ pc = "tick" /\ poll \in Polls /\ failures = 0 /\ nudge = FALSE
  /\ timer = 0 /\ since = 0 /\ lastErr = FALSE /\ age = None
  /\ reloads = MaxReloads /\ unseen = None /\ paced = TRUE

StartTick == pc' = "tick" /\ since' = 0 /\ timer' = 0 /\ unseen' = None

\* recordTickOutcome and the counter.
TickEnds(ok) ==
  /\ pc = "tick"
  /\ ~ok => failures < MaxFailures
  /\ failures' = FailuresAfter(ok)
  /\ lastErr' = ~ok /\ age' = IF ok THEN 0 ELSE age
  /\ paced' = (ok \/ paced)
  /\ pc' = "report" /\ timer' = MaxReport
  /\ UNCHANGED <<poll, nudge, since, reloads, unseen>>

\* OnTick has returned; the timer is set for what the configuration says now.
SetTimer ==
  /\ pc = "report"
  /\ pc' = "wait" /\ timer' \in nextBackoff(poll, failures)
  /\ UNCHANGED <<poll, failures, nudge, since, lastErr, age, reloads, unseen, paced>>

Fire ==
  /\ pc = "wait" /\ timer = 0 /\ StartTick
  /\ UNCHANGED <<poll, failures, nudge, lastErr, age, reloads, paced>>

Wake ==
  /\ pc = "wait" /\ nudge /\ nudge' = FALSE
  /\ LET delay == nudgeDamping(Damp, since)
     IN  IF delay > 0 THEN pc' = "damp" /\ timer' = delay /\ UNCHANGED <<since, unseen>>
         ELSE StartTick
  /\ UNCHANGED <<poll, failures, lastErr, age, reloads, paced>>

DampingOver ==
  /\ pc = "damp" /\ timer = 0 /\ StartTick
  /\ UNCHANGED <<poll, failures, nudge, lastErr, age, reloads, paced>>

-----------------------------------------------------------------------------
(* Around the loop *)

\* A JobSet or Workload event: Bridge.Nudge, by way of NudgeReconciler or NudgeAll.
Nudge ==
  /\ nudge' = Buffered(nudge)
  /\ unseen' = IF unseen = None THEN 0 ELSE unseen
  /\ UNCHANGED <<pc, poll, failures, timer, since, lastErr, age, reloads, paced>>

\* setCfg changes no timer that is set.
HotReload ==
  /\ reloads > 0 /\ reloads' = reloads - 1
  /\ poll' \in Polls \ {poll} /\ paced' = FALSE
  /\ UNCHANGED <<pc, failures, nudge, timer, since, lastErr, age, unseen>>

\* The loop takes its own steps at once.
Urgent ==
  \/ pc = "wait" /\ (timer = 0 \/ nudge)
  \/ pc \in {"damp", "report"} /\ timer = 0
  \/ pc = "tick" /\ since >= MaxTick

Advance ==
  /\ ~Urgent
  /\ timer' = IF pc = "tick" THEN timer ELSE timer - 1
  /\ since' = since + 1
  /\ age' = IF age = None THEN None ELSE Least(age + 1, StaleAge)
  /\ unseen' = IF unseen = None THEN None ELSE unseen + 1
  /\ UNCHANGED <<pc, poll, failures, nudge, lastErr, reloads, paced>>

Loop == (\E ok \in BOOLEAN : TickEnds(ok)) \/ SetTimer \/ Fire \/ Wake \/ DampingOver

Next == Loop \/ Nudge \/ HotReload \/ Advance

Spec == Init /\ [][Next]_vars

-----------------------------------------------------------------------------
(* Properties *)

\* The type invariant of the loop.
TypeOK ==
  /\ pc \in {"tick", "report", "wait", "damp"}
  /\ poll \in Polls /\ failures \in 0..MaxFailures
  /\ nudge \in BOOLEAN /\ lastErr \in BOOLEAN /\ paced \in BOOLEAN
  /\ timer \in Nat /\ since \in Nat /\ reloads \in 0..MaxReloads
  /\ age \in Nat \union {None} /\ unseen \in Nat \union {None}

\* No event is lost, whenever it arrives: a tick that sees it starts within the
\* damping floor or the rest of the tick in progress, whichever is longer.
EventsAreSeenSoon == unseen <= Greatest(Damp, MaxTick + MaxReport)

\* slurmrestd is left alone for a while: ticks start the damping floor apart, or the
\* shortest poll interval where that is less, through any run of events, failures
\* and reloads.
TicksAreSpaced ==
  [][StartTick /\ pc # "tick" =>
       since >= Damp \/ \E p \in Polls : since >= p - p \div 10]_vars

\* And not for too long: backoff, reports and reloads together never delay the next
\* attempt beyond the cap.
LongestGap ==
  LET d == maxBackoffMultiple * LongestPoll IN MaxTick + MaxReport + d + d \div 10

RetriesAreBounded == since <= LongestGap

\* One success ends the backoff.
PaceAfterSuccess ==
  pc = "wait" /\ ~lastErr /\ paced =>
    since + timer <= MaxTick + MaxReport + poll + poll \div 10

\* The loop never waits too long, nor too long for the outcome of its last tick
\* (Run, nextBackoff).
TimerInv == TypeOK /\ RetriesAreBounded /\ PaceAfterSuccess

\* A bridge whose last tick succeeded is ready, between ticks and in them, as long as
\* ticks are short against the poll interval and no reload has changed it.
ReadyWhileSucceeding ==
  ~lastErr /\ age # None /\ paced /\ 10 * (MaxTick + MaxReport) <= 19 * poll => Ready

-----------------------------------------------------------------------------
(* A claim of the comments that the code does not keep (README.md) *)

\* "Consecutive failures back off exponentially (capped) to avoid hammering a
\* struggling slurmrestd": after a failed tick the timer is never set for less than
\* the poll interval, jitter apart.
BackoffHolds ==
  [][SetTimer /\ failures > 0 => timer' >= poll - poll \div 10]_vars

=============================================================================
