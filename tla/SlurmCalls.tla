------------------------------- MODULE SlurmCalls -------------------------------
(***************************************************************************)
(* What a tick may conclude from what slurmrestd answers                   *)
(* (internal/slurm/client.go): the token read anew for every request, the  *)
(* rate limiter, the decision on an answer, the job list decoded while it  *)
(* arrives, with requests of its own made in between, and cleanup, which   *)
(* takes a job for gone or cancelled at the client's word                  *)
(* (cleanupFinishedJobs of internal/bridge/reconciler.go).  Between the    *)
(* client and slurmrestd something may answer in its place.  IDs are not   *)
(* reused here and the cache does not lag: that is SlurmBridge's subject.  *)
(***************************************************************************)
EXTENDS Integers, FiniteSets

CONSTANTS
  Served,      \* jobs of mapped partitions: they have JobSets
  Strangers,   \* held jobs of partitions that are not mapped
  RateTenths,  \* ten times slurmRequestsPerSecond, not 0
  Patience,    \* slurmRequestTimeout, in refills of the limiter
  MaxFaults,   \* bound: answers that are wrong, lost or somebody else's
  MaxKeys      \* bound: rotations of the key

ASSUME CallConstantsOK ==
  /\ IsFiniteSet(Served) /\ IsFiniteSet(Strangers) /\ Served \intersect Strangers = {}
  /\ RateTenths \in Nat \ {0} /\ Patience \in Nat \ {0} /\ MaxFaults \in Nat /\ MaxKeys \in Nat

VARIABLES
  slurm,    \* the jobs
  jobset,   \* their JobSets
  key,      \* the key slurmrestd takes, and the one in the token file; 0: unreadable
  bucket,   \* requests the limiter lets pass at once
  pc,       \* idle, list, stream, signal, inspect, get, cancel
  answer,   \* what the list holds: the jobs, and how it ends
  todo,     \* elements to come, then JobSets to inspect
  cur,      \* the job in hand
  byID,     \* the jobs the tick knows: "none" where it does not
  patience, \* left for the list
  fooled,   \* history: jobs about which an answer that is not slurmrestd's was believed
  faults

vars == <<slurm, jobset, key, bucket, pc, answer, todo, cur, byID, patience, fooled, faults>>

Jobs   == Served \union Strangers
States == {"none", "alive", "told", "ended", "purged"}   \* told: by a comment
Known  == {"alive", "told", "ended"}
Nobody == [j \in Jobs |-> "none"]

-----------------------------------------------------------------------------
(* Answers.  json: an envelope, JSON without one, or something else.  Wrong... is *)
(* the same with a plausible mistake.                                             *)

Envelope == [code |-> 200, json |-> "envelope", errors |-> FALSE, warnings |-> FALSE, job |-> "none"]
Bare     == [Envelope EXCEPT !.json = "bare"]
NotJSON  == [Envelope EXCEPT !.json = "other"]
Code(n)  == [Envelope EXCEPT !.code = n]
Lost     == Code(0)
NotFound == Code(404)

\* doHTTP: what counts as done.  Warnings say that a request was ignored; reads
\* may warn of an empty queue.
Accepted(a, reads) ==
  a.code = 200 /\ a.json # "other" /\ ~a.errors /\ (a.warnings => reads)

\* GetJob: found = FALSE.
WrongGone(a) == a.code # 200 \/ a.job = "none"
Gone(a) == a.code = 404 \/ (Accepted(a, TRUE) /\ a.job = "none")

\* listJobsStreaming, when the object is closed.  Warnings without jobs are an empty
\* queue ("Zero jobs to dump").
WrongWhole(end) == end \in {"whole", "empty", "bare"}
Whole(end) == end \in {"whole", "empty"}

\* burstFor: twice the rate, rounded down, and at least one.
Burst == LET b == (2 * RateTenths) \div 10 IN IF b < 1 THEN 1 ELSE b

\* Every request waits for the limiter.
Passes(b) == b > 0

\* newRequest reads the token file for each request.
WrongToken == 1
Token == key.file

\* The comment is not written again.
WrongUntold(j) == j \in Strangers /\ answer.jobs[j] \in {"alive", "told"}
Untold(j) == j \in Strangers /\ answer.jobs[j] = "alive"

-----------------------------------------------------------------------------
Init ==
  /\ slurm = Nobody /\ jobset = [j \in Served |-> "none"]
  /\ key = [slurm |-> 1, file |-> 1] /\ bucket = Burst
  /\ pc = "idle" /\ answer = [jobs |-> Nobody, end |-> "whole"]
  /\ todo = {} /\ cur = {} /\ byID = Nobody /\ patience = 0
  /\ fooled = {} /\ faults = MaxFaults

Spend == faults > 0 /\ faults' = faults - 1

EndOfTick ==
  /\ pc' = "idle" /\ todo' = {} /\ cur' = {} /\ byID' = Nobody /\ patience' = 0
  /\ answer' = [jobs |-> Nobody, end |-> "whole"]

\* A request leaves the process: the limiter lets it pass, the token can be read.
Sends == Passes(bucket) /\ bucket' = bucket - 1 /\ Token # 0

\* Or does not: the limiter cannot let anything pass, or the token cannot be read.
SendFails ==
  \/ Burst = 0 /\ UNCHANGED bucket
  \/ Passes(bucket) /\ bucket' = bucket - 1 /\ Token = 0

Authorised == Token = key.slurm

\* What may come instead of the answer, as an error of slurmrestd or from something
\* that answers in its place.
Misanswers ==
  {Lost, Code(500), NotFound, NotJSON, Bare, [Envelope EXCEPT !.errors = TRUE]}

\* Those of them that the client takes for slurmrestd's word.
Foreign == {NotFound, Bare}

\* A request whose effect, if it is carried out, is Effect.
Mutates(Effect, NoEffect, a) ==
  \/ Authorised /\ a = Envelope /\ Effect /\ UNCHANGED faults
  \/ ~Authorised /\ a = Code(401) /\ NoEffect /\ UNCHANGED faults
  \/ Authorised /\ a \in Misanswers \ {Bare} /\ Effect /\ Spend
  \/ a \in Misanswers \union {[Envelope EXCEPT !.warnings = TRUE]} /\ NoEffect /\ Spend

-----------------------------------------------------------------------------
(* The list *)

Tick ==
  /\ pc = "idle" /\ pc' = "list"
  /\ UNCHANGED <<slurm, jobset, key, bucket, answer, todo, cur, byID, patience, fooled, faults>>

\* The header and the beginning of the body have arrived.
Opens(end, part) ==
  /\ pc' = "stream" /\ patience' = Patience
  /\ answer' = [jobs |-> slurm, end |-> end] /\ todo' = part
  /\ UNCHANGED <<cur, byID>>

ListJobs ==
  /\ pc = "list" /\ Sends
  /\ LET all == {j \in Jobs : slurm[j] \in Known}
     IN  \/ Authorised /\ Opens("whole", all) /\ UNCHANGED faults
         \/ /\ Authorised /\ Spend
            /\ \E part \in SUBSET all : Opens("cut", part) \/ Opens("errors", part)
         \/ \E end \in {"bare", "empty", "errors"} : Spend /\ Opens(end, {})
         \/ Spend /\ EndOfTick
         \/ ~Authorised /\ EndOfTick /\ UNCHANGED faults
  /\ UNCHANGED <<slurm, jobset, key, fooled>>

\* The callback of tick: a job of an unmapped partition is told so before the next
\* element is read.
Element ==
  /\ pc = "stream"
  /\ \E j \in todo :
       /\ todo' = todo \ {j}
       /\ byID' = [byID EXCEPT ![j] = answer.jobs[j]]
       /\ IF Untold(j) THEN pc' = "signal" /\ cur' = {j} ELSE UNCHANGED <<pc, cur>>
  /\ UNCHANGED <<slurm, jobset, key, bucket, answer, patience, fooled, faults>>

\* SetJobComment; that it failed is logged.
Signal ==
  /\ pc = "signal" /\ pc' = "stream" /\ cur' = {}
  /\ \/ SendFails /\ UNCHANGED <<slurm, faults>>
     \/ /\ Sends
        /\ \E a \in {Envelope, Code(401), [Envelope EXCEPT !.warnings = TRUE]} \union Misanswers :
             Mutates(slurm' = [j \in Jobs |-> IF j \in cur /\ slurm[j] = "alive"
                                              THEN "told" ELSE slurm[j]],
                     UNCHANGED slurm, a)
  /\ UNCHANGED <<jobset, key, answer, todo, byID, patience, fooled>>

\* The request's timeout covers its body.
TimesOut ==
  /\ pc = "stream" /\ patience = 0 /\ EndOfTick
  /\ UNCHANGED <<slurm, jobset, key, bucket, fooled, faults>>

EndOfList ==
  /\ pc = "stream" /\ todo = {}
  /\ IF Whole(answer.end)
     THEN /\ pc' = "inspect" /\ todo' = {j \in Served : jobset[j] # "none"} /\ patience' = 0
          /\ UNCHANGED <<cur, byID, answer>>
     ELSE EndOfTick
  /\ UNCHANGED <<slurm, jobset, key, bucket, fooled, faults>>

-----------------------------------------------------------------------------
(* Cleanup *)

Skip == pc' = "inspect" /\ cur' = {} /\ UNCHANGED jobset

Deletes(j) == pc' = "inspect" /\ cur' = {} /\ jobset' = [jobset EXCEPT ![j] = "none"]

\* What becomes of the JobSet of a job in this state.
Judges(j, state) ==
  \/ state = "alive" /\ jobset[j] = "good" /\ Skip
  \/ state = "alive" /\ jobset[j] = "dead" /\ pc' = "cancel" /\ cur' = {j} /\ UNCHANGED jobset
  \/ state # "alive" /\ Deletes(j)

Inspect ==
  /\ pc = "inspect"
  /\ \E j \in todo :
       /\ todo' = todo \ {j}
       /\ IF byID[j] = "none" THEN pc' = "get" /\ cur' = {j} /\ UNCHANGED jobset
          ELSE Judges(j, byID[j])
  /\ UNCHANGED <<slurm, key, bucket, answer, byID, patience, fooled, faults>>

\* slurmrestd does not know a job: 404, or an envelope without jobs.
Answers(j) ==
  IF slurm[j] \in Known
  THEN {[Envelope EXCEPT !.job = slurm[j], !.warnings = w] : w \in BOOLEAN}
  ELSE {NotFound, Envelope}

GetJob ==
  /\ pc = "get"
  /\ \E j \in cur :
       \/ SendFails /\ Skip /\ UNCHANGED <<fooled, faults>>
       \/ /\ Sends
          /\ \E a \in Answers(j) \union {Code(401)} \union Misanswers :
               /\ \/ a \in Answers(j) /\ Authorised /\ UNCHANGED <<fooled, faults>>
                  \/ a = Code(401) /\ ~Authorised /\ UNCHANGED <<fooled, faults>>
                  \/ /\ a \in Misanswers /\ Spend
                     /\ fooled' = IF a \in Foreign THEN fooled \union {j} ELSE fooled
               /\ CASE Gone(a)                            -> Deletes(j)
                    [] ~Gone(a) /\ Accepted(a, TRUE)      -> Judges(j, a.job)
                    [] OTHER                              -> Skip
  /\ UNCHANGED <<slurm, key, answer, todo, byID, patience>>

\* The JobSet is the only record of the job: it goes when the job has been cancelled.
CancelJob ==
  /\ pc = "cancel"
  /\ \E j \in cur :
       \/ SendFails /\ Skip /\ UNCHANGED <<slurm, fooled, faults>>
       \/ /\ Sends
          /\ \E a \in {Envelope, Code(401), [Envelope EXCEPT !.warnings = TRUE]} \union Misanswers :
               /\ Mutates(slurm' = [slurm EXCEPT ![j] = IF @ = "alive" THEN "ended" ELSE @],
                          UNCHANGED slurm, a)
               /\ IF Accepted(a, FALSE) THEN Deletes(j) ELSE Skip
               /\ fooled' = IF a = Bare THEN fooled \union {j} ELSE fooled
  /\ UNCHANGED <<key, answer, todo, byID, patience>>

EndOfCleanup ==
  /\ pc = "inspect" /\ todo = {} /\ EndOfTick
  /\ UNCHANGED <<slurm, jobset, key, bucket, fooled, faults>>

\* newRequest fails before the list.
NoList ==
  /\ pc = "list" /\ SendFails /\ EndOfTick
  /\ UNCHANGED <<slurm, jobset, key, fooled, faults>>

-----------------------------------------------------------------------------
(* Time, jobs and keys *)

\* The time in which the limiter earns one request.  Of the time a list may take only
\* the waits for the limiter count: what has been sent arrives.
Refill ==
  /\ bucket < Burst /\ bucket' = bucket + 1
  /\ patience' = IF pc = "signal" /\ bucket = 0 /\ patience > 0 THEN patience - 1 ELSE patience
  /\ UNCHANGED <<slurm, jobset, key, pc, answer, todo, cur, byID, fooled, faults>>

Moves(j, from, to) ==
  /\ slurm[j] \in from /\ slurm' = [slurm EXCEPT ![j] = to]
  /\ UNCHANGED <<key, bucket, pc, answer, todo, cur, byID, patience, fooled, faults>>

\* A job is submitted; the JobSet of a served one is made in an earlier tick.
Submit(j) ==
  /\ Moves(j, {"none"}, "alive")
  /\ jobset' = [k \in Served |-> IF k = j THEN "good" ELSE jobset[k]]

Ends(j)   == Moves(j, {"alive", "told"}, "ended") /\ UNCHANGED jobset
Purge(j)  == Moves(j, {"ended"}, "purged") /\ UNCHANGED jobset

JobSetDies(j) ==
  /\ j \in Served /\ jobset[j] = "good" /\ jobset' = [jobset EXCEPT ![j] = "dead"]
  /\ UNCHANGED <<slurm, key, bucket, pc, answer, todo, cur, byID, patience, fooled, faults>>

\* slurmrestd takes another key; the token file follows, and may be missing meanwhile.
Rotate ==
  /\ key.slurm < MaxKeys
  /\ \E file \in {0, key.file} : key' = [slurm |-> key.slurm + 1, file |-> file]
  /\ UNCHANGED <<slurm, jobset, bucket, pc, answer, todo, cur, byID, patience, fooled, faults>>

SyncToken ==
  /\ key.file # key.slurm /\ key' = [key EXCEPT !.file = key.slurm]
  /\ UNCHANGED <<slurm, jobset, bucket, pc, answer, todo, cur, byID, patience, fooled, faults>>

Bridge ==
  \/ Tick \/ ListJobs \/ NoList \/ Element \/ Signal \/ TimesOut \/ EndOfList
  \/ Inspect \/ GetJob \/ CancelJob \/ EndOfCleanup

Next ==
  \/ Bridge \/ Refill \/ Rotate \/ SyncToken
  \/ \E j \in Jobs : Submit(j) \/ Ends(j) \/ Purge(j) \/ JobSetDies(j)

Spec == Init /\ [][Next]_vars

\* The bridge keeps ticking, time passes, the Secret reaches the file.
FairSpec == Spec /\ WF_vars(Bridge) /\ WF_vars(Refill) /\ WF_vars(SyncToken)

-----------------------------------------------------------------------------
(* Properties *)

\* The type invariant of the calls.
TypeOK ==
  /\ slurm \in [Jobs -> States] /\ byID \in [Jobs -> States]
  /\ jobset \in [Served -> {"none", "good", "dead"}]
  /\ key \in [slurm : 1..(1 + MaxKeys), file : 0..(1 + MaxKeys)] /\ bucket \in 0..Burst
  /\ pc \in {"idle", "list", "stream", "signal", "inspect", "get", "cancel"}
  /\ answer \in [jobs : [Jobs -> States], end : {"whole", "cut", "errors", "bare", "empty"}]
  /\ todo \subseteq Jobs /\ cur \subseteq Jobs /\ Cardinality(cur) <= 1
  /\ patience \in 0..Patience /\ fooled \subseteq Jobs /\ faults \in 0..MaxFaults

\* Neither a good JobSet of a living job nor a dead one, "the only record carrying this
\* job's ID", is deleted on a lost, refused, ignored or unreadable answer.  The
\* exceptions are two answers that need not be slurmrestd's and are believed: a 404 to
\* GetJob, and JSON without an envelope, which doHTTP lets pass.
JobSetsOutliveTheirJobs ==
  [][\A j \in Served :
       jobset[j] # "none" /\ jobset'[j] = "none" => slurm'[j] # "alive" \/ j \in fooled']_vars

\* A list that the tick goes on with is the list slurmrestd gave: no part of it, and
\* nothing that somebody else said in its place but an empty queue.
ListsAreWhole ==
  pc \in {"inspect", "get", "cancel"} /\ answer.end # "empty" =>
    \A j \in Jobs : byID[j] = (IF answer.jobs[j] \in Known THEN answer.jobs[j] ELSE "none")

\* A job on a dead JobSet is cancelled in the end, through rotated keys and a limiter
\* slower than one request per tick.
DeadJobsAreCancelled ==
  \A j \in Served :
    jobset[j] = "dead" /\ slurm[j] = "alive" ~> slurm[j] # "alive" \/ j \in fooled

\* However many jobs have to be told in the middle of the list, and however slow the
\* limiter lets that be, ticks come to their cleanup again and again.
TicksComplete == []<>(pc = "inspect")

=============================================================================
