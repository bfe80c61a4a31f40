---------------------------- MODULE SlurmCallsProofs ----------------------------
(***************************************************************************)
(* Proofs about SlurmCalls, for all sets of jobs, all rates and time       *)
(* limits, any number of wrong answers and any number of rotated keys.     *)
(***************************************************************************)
EXTENDS SlurmCalls, FiniteSetTheorems, TLAPS

\* The tick knows what the list has given so far, and nothing before there is a list.
ListInv ==
  /\ pc \in {"idle", "list"} => byID = Nobody
  /\ pc \in {"stream", "signal"} => \A j \in todo : answer.jobs[j] \in Known
  /\ pc \in {"stream", "signal"} /\ answer.end = "whole" =>
       \A j \in Jobs :
         byID[j] = (IF answer.jobs[j] \in Known /\ j \notin todo THEN answer.jobs[j] ELSE "none")
  /\ \A j \in Jobs : byID[j] # "none" => byID[j] = answer.jobs[j] /\ byID[j] \in Known
  /\ ListsAreWhole

\* A job that was once seen to have ended does not come back, and a job of a mapped
\* partition is never told that its partition is unknown.
EndInv ==
  /\ pc = "signal" => cur \subseteq Strangers
  /\ pc \in {"get", "cancel"} => cur \subseteq Served
  /\ pc \in {"inspect", "get", "cancel"} => todo \subseteq Served
  /\ \A j \in Served :
       /\ slurm[j] # "told" /\ answer.jobs[j] # "told"
       /\ answer.jobs[j] = "ended" => slurm[j] \in {"ended", "purged"}

CallInv == TypeOK /\ ListInv /\ EndInv

-----------------------------------------------------------------------------
(* The pieces of a call *)

LEMMA BurstOK == Burst \in Nat /\ Burst >= 1
<1>1. RateTenths \in Nat
  BY CallConstantsOK
<1>2. (2 * RateTenths) \div 10 \in Int
  BY <1>1
<1> QED
  BY <1>2 DEF Burst

LEMMA NobodyOK == Nobody \in [Jobs -> States] /\ \A j \in Jobs : Nobody[j] = "none"
BY DEF Nobody, States

LEMMA NoJob == {} \subseteq Jobs /\ Cardinality({}) <= 1
BY FS_EmptySet

LEMMA OneJob ==
  ASSUME NEW j \in Jobs
  PROVE  {j} \subseteq Jobs /\ Cardinality({j}) <= 1
<1>1. Cardinality({j}) = 1
  BY FS_Singleton
<1> QED
  BY <1>1

\* The limiter's account stays one.
LEMMA Account ==
  ASSUME bucket \in 0..Burst, Sends \/ SendFails
  PROVE  bucket' \in 0..Burst
BY BurstOK DEF Sends, SendFails, Passes

LEMMA FaultsOK ==
  ASSUME faults \in 0..MaxFaults, Spend \/ UNCHANGED faults
  PROVE  faults' \in 0..MaxFaults
BY CallConstantsOK DEF Spend

\* What counts as done and is not slurmrestd's envelope is JSON without one.
LEMMA OnlyBare ==
  ASSUME NEW a, Accepted(a, FALSE),
         a = Code(401) \/ a \in Misanswers \/ a = [Envelope EXCEPT !.warnings = TRUE]
  PROVE  a = Bare
<1> DEFINE bad  == [Envelope EXCEPT !.errors = TRUE]
           warn == [Envelope EXCEPT !.warnings = TRUE]
<1>1. a \in {Lost, Code(500), NotFound, NotJSON, Bare, bad} \/ a = Code(401) \/ a = warn
  BY DEF Misanswers
<1>2. a.code = 200 /\ a.json # "other" /\ ~a.errors /\ ~a.warnings
  BY DEF Accepted
<1>3. Lost.code = 0 /\ Code(500).code = 500 /\ NotFound.code = 404 /\ Code(401).code = 401
  BY DEF Code, Envelope, Lost, NotFound
<1>4. NotJSON.json = "other" /\ bad.errors = TRUE /\ warn.warnings = TRUE
  BY DEF NotJSON, Envelope
<1> HIDE DEF bad, warn
<1>5. a # Lost /\ a # Code(500) /\ a # NotFound /\ a # Code(401)
  BY <1>2, <1>3
<1>6. a # NotJSON /\ a # bad /\ a # warn
  BY <1>2, <1>4
<1> QED
  BY <1>1, <1>5, <1>6

\* The end of a tick, however it comes about.
LEMMA Ending ==
  ASSUME CallInv, EndOfTick, UNCHANGED <<slurm, jobset, key, fooled>>,
         bucket' \in 0..Burst, Spend \/ UNCHANGED faults
  PROVE  CallInv'
<1> USE DEF CallInv
<1>1. TypeOK'
  BY FaultsOK, NobodyOK, NoJob, CallConstantsOK DEF TypeOK, EndOfTick
<1>2. ListInv'
  BY NobodyOK DEF ListInv, ListsAreWhole, EndOfTick
<1>3. EndInv'
  BY NobodyOK DEF EndInv, EndOfTick, Jobs
<1> QED
  BY <1>1, <1>2, <1>3

LEMMA CallInit == Init => CallInv
<1> SUFFICES ASSUME Init PROVE CallInv
  OBVIOUS
<1>1. TypeOK
  BY NobodyOK, NoJob, BurstOK, CallConstantsOK DEF Init, TypeOK
<1>2. ListInv
  BY NobodyOK DEF Init, ListInv, ListsAreWhole
<1>3. EndInv
  BY NobodyOK DEF Init, EndInv, Jobs
<1> QED
  BY <1>1, <1>2, <1>3 DEF CallInv

-----------------------------------------------------------------------------
(* The list *)

\* The header of a list: what it holds is what slurmrestd has.
LEMMA Opening ==
  ASSUME CallInv, pc = "list", NEW end \in {"whole", "cut", "errors", "bare", "empty"},
         NEW part \in SUBSET {j \in Jobs : slurm[j] \in Known},
         end = "whole" => part = {j \in Jobs : slurm[j] \in Known},
         Opens(end, part), UNCHANGED <<slurm, jobset, key, fooled>>,
         bucket' \in 0..Burst, Spend \/ UNCHANGED faults
  PROVE  CallInv'
<1> USE DEF CallInv, Opens
<1>1. TypeOK'
  BY FaultsOK, CallConstantsOK DEF TypeOK
<1>2. byID' = Nobody /\ pc' = "stream" /\ todo' = part
      /\ answer'.jobs = slurm /\ answer'.end = end
  BY DEF ListInv
<1>3. end = "whole" => \A j \in Jobs : slurm[j] \in Known => j \in part
  OBVIOUS
<1>4. ListInv'
  BY <1>2, <1>3, NobodyOK DEF ListInv, ListsAreWhole
<1>5. EndInv'
  BY <1>2 DEF EndInv
<1> QED
  BY <1>1, <1>4, <1>5

LEMMA ListStep ==
  ASSUME CallInv, ListJobs
  PROVE  CallInv'
<1>1. /\ pc = "list" /\ bucket' \in 0..Burst /\ UNCHANGED <<slurm, jobset, key, fooled>>
  BY Account DEF ListJobs, CallInv, TypeOK
<1> DEFINE all == {j \in Jobs : slurm[j] \in Known}
<1>2. CASE Opens("whole", all) /\ UNCHANGED faults
  BY <1>1, <1>2, Opening
<1>3. ASSUME Spend, NEW part \in SUBSET all, Opens("cut", part) \/ Opens("errors", part)
      PROVE  CallInv'
  BY <1>1, <1>3, Opening
<1>4. ASSUME NEW end \in {"bare", "empty", "errors"}, Spend, Opens(end, {}) PROVE CallInv'
  BY <1>1, <1>4, Opening
<1>5. CASE EndOfTick /\ (Spend \/ UNCHANGED faults)
  BY <1>1, <1>5, Ending
<1> QED
  BY <1>2, <1>3, <1>4, <1>5 DEF ListJobs

LEMMA StreamSteps ==
  ASSUME CallInv, Element \/ Signal \/ EndOfList
  PROVE  CallInv'
<1> USE DEF CallInv
<1>1. ASSUME Element PROVE CallInv'
  <2>1. PICK j \in todo :
          /\ todo' = todo \ {j} /\ byID' = [byID EXCEPT ![j] = answer.jobs[j]]
          /\ IF Untold(j) THEN pc' = "signal" /\ cur' = {j} ELSE UNCHANGED <<pc, cur>>
    BY <1>1 DEF Element
  <2>2. pc = "stream"
        /\ UNCHANGED <<slurm, jobset, key, bucket, answer, patience, fooled, faults>>
    BY <1>1 DEF Element
  <2>3. j \in Jobs
    BY DEF TypeOK
  <2>4. TypeOK'
    BY <2>1, <2>2, <2>3, OneJob DEF TypeOK
  <2>5. ListInv'
    BY <2>1, <2>2, <2>3 DEF TypeOK, ListInv, ListsAreWhole, States, Known
  <2>6. EndInv'
    BY <2>1, <2>2 DEF EndInv, Untold
  <2> QED
    BY <2>4, <2>5, <2>6
<1>2. ASSUME Signal PROVE CallInv'
  <2> DEFINE told == [j \in Jobs |-> IF j \in cur /\ slurm[j] = "alive" THEN "told" ELSE slurm[j]]
  <2>1. pc = "signal" /\ pc' = "stream" /\ cur' = {}
        /\ UNCHANGED <<jobset, key, answer, todo, byID, patience, fooled>>
    BY <1>2 DEF Signal
  <2>2. bucket' \in 0..Burst
    BY <1>2, Account DEF Signal, TypeOK
  <2>3. (slurm' = told \/ slurm' = slurm) /\ (Spend \/ UNCHANGED faults)
    <3>1. ASSUME NEW a, Mutates(slurm' = told, UNCHANGED slurm, a)
          PROVE  (slurm' = told \/ slurm' = slurm) /\ (Spend \/ UNCHANGED faults)
      BY <3>1 DEF Mutates
    <3> QED
      BY <1>2, <3>1 DEF Signal
  <2>4. TypeOK'
    BY <2>1, <2>2, <2>3, FaultsOK, NoJob DEF TypeOK, States
  <2>5. ListInv'
    BY <2>1 DEF ListInv, ListsAreWhole
  <2>6. \A j \in Served : slurm'[j] = slurm[j]
    BY <2>1, <2>3, CallConstantsOK DEF EndInv, Jobs
  <2>7. EndInv'
    BY <2>1, <2>6 DEF EndInv
  <2> QED
    BY <2>4, <2>5, <2>7
<1>3. ASSUME EndOfList PROVE CallInv'
  <2>1. pc = "stream" /\ todo = {} /\ UNCHANGED <<slurm, jobset, key, bucket, fooled, faults>>
    BY <1>3 DEF EndOfList
  <2>2. CASE ~Whole(answer.end)
    BY <1>3, <2>1, <2>2, Ending DEF EndOfList, TypeOK
  <2>3. CASE Whole(answer.end)
    <3>1. /\ pc' = "inspect" /\ todo' = {j \in Served : jobset[j] # "none"} /\ patience' = 0
          /\ UNCHANGED <<cur, byID, answer>>
      BY <1>3, <2>3 DEF EndOfList
    <3>2. TypeOK'
      BY <2>1, <3>1, CallConstantsOK DEF TypeOK, Jobs
    <3>3. ListInv'
      BY <2>1, <2>3, <3>1 DEF ListInv, ListsAreWhole, Whole
    <3>4. EndInv'
      BY <2>1, <3>1 DEF EndInv
    <3> QED
      BY <3>2, <3>3, <3>4
  <2> QED
    BY <2>2, <2>3
<1> QED
  BY <1>1, <1>2, <1>3

-----------------------------------------------------------------------------
(* Cleanup *)

\* Whose JobSet may go: not that of a living job, unless an answer about it was believed
\* that is not slurmrestd's.
Outlives ==
  \A j \in Served :
    jobset[j] # "none" /\ jobset'[j] = "none" => slurm'[j] # "alive" \/ j \in fooled'

LEMMA Judged ==
  ASSUME TypeOK, NEW j \in Served, NEW state, Judges(j, state) \/ Skip \/ Deletes(j)
  PROVE  /\ pc' \in {"inspect", "cancel"} /\ cur' \in {{}, {j}}
         /\ jobset' \in [Served -> {"none", "good", "dead"}]
         /\ \A k \in Served : jobset'[k] # jobset[k] => k = j
         /\ Skip \/ Judges(j, "alive") => jobset' = jobset
BY DEF Judges, Skip, Deletes, TypeOK

\* What every step of cleanup keeps.
LEMMA Cleaned ==
  ASSUME CallInv, pc \in {"inspect", "get", "cancel"}, pc' \in {"inspect", "get", "cancel"},
         todo' \subseteq todo, NEW j \in Served, cur' \in {{}, {j}},
         jobset' \in [Served -> {"none", "good", "dead"}],
         \/ slurm' = slurm
         \/ slurm' = [slurm EXCEPT ![j] = IF @ = "alive" THEN "ended" ELSE @],
         fooled' \subseteq Jobs, bucket' \in 0..Burst, Spend \/ UNCHANGED faults,
         UNCHANGED <<key, answer, byID, patience>>
  PROVE  CallInv'
<1> USE DEF CallInv
<1>1. j \in Jobs
  BY DEF Jobs
<1>2. slurm' \in [Jobs -> States]
  BY <1>1 DEF TypeOK, States
<1>3. TypeOK'
  BY <1>1, <1>2, FaultsOK, NoJob, OneJob DEF TypeOK
<1>4. ListInv'
  BY DEF ListInv, ListsAreWhole
<1>5. \A k \in Served : /\ slurm'[k] # "told"
                        /\ slurm[k] \in {"ended", "purged"} => slurm'[k] = slurm[k]
  BY <1>1 DEF EndInv, TypeOK, Jobs
<1>6. EndInv'
  BY <1>5 DEF EndInv
<1> QED
  BY <1>3, <1>4, <1>6

LEMMA InspectStep ==
  ASSUME CallInv, Inspect
  PROVE  CallInv' /\ Outlives
<1>1. PICK j \in todo :
        /\ todo' = todo \ {j}
        /\ IF byID[j] = "none" THEN pc' = "get" /\ cur' = {j} /\ UNCHANGED jobset
           ELSE Judges(j, byID[j])
  BY DEF Inspect
<1>2. pc = "inspect"
      /\ UNCHANGED <<slurm, key, bucket, answer, byID, patience, fooled, faults>>
  BY DEF Inspect
<1>3. j \in Served /\ TypeOK
  BY <1>2 DEF CallInv, EndInv
<1>4. /\ pc' \in {"inspect", "get", "cancel"} /\ cur' \in {{}, {j}}
      /\ jobset' \in [Served -> {"none", "good", "dead"}]
      /\ \A k \in Served : jobset'[k] # jobset[k] => k = j /\ byID[j] # "none" /\ byID[j] # "alive"
  <2>1. CASE byID[j] = "none"
    BY <1>1, <1>3, <2>1 DEF TypeOK
  <2>2. CASE byID[j] # "none"
    BY <1>1, <1>3, <2>2, Judged
  <2> QED
    BY <2>1, <2>2
<1>5. CallInv'
  BY <1>1, <1>2, <1>3, <1>4, Cleaned DEF TypeOK
<1>6. byID[j] \notin {"none", "alive"} => slurm[j] # "alive"
  <2>1. byID[j] # "none" => byID[j] = answer.jobs[j] /\ byID[j] \in Known
    BY <1>3 DEF CallInv, ListInv, Jobs
  <2> QED
    BY <1>3, <2>1 DEF CallInv, EndInv, Known
<1> QED
  BY <1>2, <1>4, <1>5, <1>6 DEF Outlives

\* That a job is gone or has ended is slurmrestd's word, a foreign 404 or JSON without an
\* envelope.
LEMMA GetStep ==
  ASSUME CallInv, GetJob
  PROVE  CallInv' /\ Outlives
<1>1. pc = "get" /\ UNCHANGED <<slurm, key, answer, todo, byID, patience>>
  BY DEF GetJob
<1>2. PICK j \in cur :
        \/ SendFails /\ Skip /\ UNCHANGED <<fooled, faults>>
        \/ /\ Sends
           /\ \E a \in Answers(j) \union {Code(401)} \union Misanswers :
               /\ \/ a \in Answers(j) /\ Authorised /\ UNCHANGED <<fooled, faults>>
                  \/ a = Code(401) /\ ~Authorised /\ UNCHANGED <<fooled, faults>>
                  \/ /\ a \in Misanswers /\ Spend
                     /\ fooled' = IF a \in Foreign THEN fooled \union {j} ELSE fooled
               /\ CASE Gone(a)                            -> Deletes(j)
                    [] ~Gone(a) /\ Accepted(a, TRUE)      -> Judges(j, a.job)
                    [] OTHER                              -> Skip
  BY DEF GetJob
<1>3. j \in Served /\ j \in Jobs /\ TypeOK
  BY <1>1 DEF CallInv, EndInv, Jobs
<1>4. bucket' \in 0..Burst
  BY <1>2, <1>3, Account DEF TypeOK
<1>5. CASE SendFails /\ Skip /\ UNCHANGED <<fooled, faults>>
  BY <1>1, <1>3, <1>4, <1>5, Cleaned DEF Skip, TypeOK, Outlives
<1>6. ASSUME NEW a,
             \/ a \in Answers(j) /\ Authorised /\ UNCHANGED <<fooled, faults>>
             \/ a = Code(401) /\ ~Authorised /\ UNCHANGED <<fooled, faults>>
             \/ /\ a \in Misanswers /\ Spend
                /\ fooled' = IF a \in Foreign THEN fooled \union {j} ELSE fooled,
             CASE Gone(a)                            -> Deletes(j)
               [] ~Gone(a) /\ Accepted(a, TRUE)      -> Judges(j, a.job)
               [] OTHER                              -> Skip
      PROVE  CallInv' /\ Outlives
  <2>1. (Spend \/ UNCHANGED faults) /\ fooled' \subseteq Jobs
    BY <1>3, <1>6 DEF TypeOK
  <2>2. (Gone(a) /\ Deletes(j)) \/ (Accepted(a, TRUE) /\ Judges(j, a.job)) \/ Skip
    BY <1>6
  <2>3. CallInv'
    BY <1>1, <1>3, <1>4, <1>6, <2>1, <2>2, Judged, Cleaned DEF TypeOK
  <2>4. \A k \in Served : jobset'[k] # jobset[k] => k = j
    BY <1>3, <2>2, Judged
  <2>5. CASE a \in Answers(j) /\ slurm[j] \in Known
    <3>1. ~Gone(a) /\ a.job = slurm[j]
      <4>1. PICK w \in BOOLEAN : a = [Envelope EXCEPT !.job = slurm[j], !.warnings = w]
        BY <2>5 DEF Answers
      <4>2. a.code = 200 /\ a.job = slurm[j]
        BY <4>1 DEF Envelope
      <4>3. a.code # 404 /\ a.job # "none"
        BY <2>5, <4>2 DEF Known
      <4> QED
        BY <4>2, <4>3 DEF Gone
    <3>2. slurm[j] = "alive" => jobset' = jobset
      BY <1>3, <2>2, <3>1, Judged
    <3> QED
      BY <1>1, <2>3, <2>4, <3>2 DEF Outlives
  <2>6. CASE slurm[j] \notin Known
    BY <1>1, <2>3, <2>4, <2>6 DEF Outlives, Known
  <2>7. CASE a \in Misanswers /\ a \in Foreign /\ fooled' = fooled \union {j}
    BY <2>3, <2>4, <2>7 DEF Outlives
  <2>8. CASE a \in ({Code(401)} \union Misanswers) \ Foreign
    <3>1. ~Gone(a) /\ ~Accepted(a, TRUE)
      BY <2>8 DEF Misanswers, Foreign, Gone, Accepted, Lost, NotFound, Code, NotJSON, Bare, Envelope
    <3>2. jobset' = jobset
      BY <1>3, <2>2, <3>1, Judged
    <3> QED
      BY <2>3, <3>2 DEF Outlives
  <2>9. Code(401) \notin Foreign
    BY DEF Foreign, NotFound, Bare, Code, Envelope
  <2> QED
    BY <1>6, <2>5, <2>6, <2>7, <2>8, <2>9
<1> QED
  BY <1>2, <1>5, <1>6

\* That a job was cancelled is slurmrestd's word as well.
LEMMA CancelStep ==
  ASSUME CallInv, CancelJob
  PROVE  CallInv' /\ Outlives
<1>1. pc = "cancel" /\ UNCHANGED <<key, answer, todo, byID, patience>>
  BY DEF CancelJob
<1>2. PICK j \in cur :
        \/ SendFails /\ Skip /\ UNCHANGED <<slurm, fooled, faults>>
        \/ /\ Sends
           /\ \E a \in {Envelope, Code(401), [Envelope EXCEPT !.warnings = TRUE]} \union Misanswers :
               /\ Mutates(slurm' = [slurm EXCEPT ![j] = IF @ = "alive" THEN "ended" ELSE @],
                          UNCHANGED slurm, a)
               /\ IF Accepted(a, FALSE) THEN Deletes(j) ELSE Skip
               /\ fooled' = IF a = Bare THEN fooled \union {j} ELSE fooled
  BY DEF CancelJob
<1>3. j \in Served /\ j \in Jobs /\ TypeOK
  BY <1>1 DEF CallInv, EndInv, Jobs
<1>4. bucket' \in 0..Burst
  BY <1>2, <1>3, Account DEF TypeOK
<1>5. CASE SendFails /\ Skip /\ UNCHANGED <<slurm, fooled, faults>>
  BY <1>1, <1>3, <1>4, <1>5, Cleaned DEF Skip, TypeOK, Outlives
<1>6. ASSUME NEW a,
             Mutates(slurm' = [slurm EXCEPT ![j] = IF @ = "alive" THEN "ended" ELSE @],
                     UNCHANGED slurm, a),
             IF Accepted(a, FALSE) THEN Deletes(j) ELSE Skip,
             fooled' = IF a = Bare THEN fooled \union {j} ELSE fooled
      PROVE  CallInv' /\ Outlives
  <2> DEFINE E == slurm' = [slurm EXCEPT ![j] = IF @ = "alive" THEN "ended" ELSE @]
             N == UNCHANGED slurm
  <2>1. /\ E \/ N
        /\ Spend \/ UNCHANGED faults
        /\ Accepted(a, FALSE) => E \/ a = Bare
    <3>1. Mutates(E, N, a)
      BY <1>6
    <3>2. Accepted(a, FALSE) =>
            \/ a = Bare
            \/ ~(a = Code(401) \/ a \in Misanswers \/ a = [Envelope EXCEPT !.warnings = TRUE])
      BY OnlyBare
    <3> HIDE DEF E, N
    <3>3. /\ E \/ N
          /\ Spend \/ UNCHANGED faults
          /\ E \/ a = Code(401) \/ a \in Misanswers \/ a = [Envelope EXCEPT !.warnings = TRUE]
      BY <3>1 DEF Mutates
    <3> QED
      BY <3>2, <3>3
  <2>2. CallInv'
    BY <1>1, <1>3, <1>4, <1>6, <2>1, Judged, Cleaned DEF TypeOK
  <2>3. \A k \in Served : jobset'[k] # jobset[k] => k = j
    BY <1>3, <1>6, Judged
  <2>4. CASE Accepted(a, FALSE) /\ a # Bare
    <3>1. slurm'[j] # "alive"
      BY <1>3, <2>1, <2>4 DEF TypeOK
    <3> QED
      BY <2>2, <2>3, <3>1 DEF Outlives
  <2>5. CASE a = Bare
    BY <1>6, <2>2, <2>3, <2>5 DEF Outlives
  <2>6. CASE ~Accepted(a, FALSE)
    BY <1>6, <2>2, <2>6 DEF Skip, Outlives
  <2> QED
    BY <2>4, <2>5, <2>6
<1> QED
  BY <1>2, <1>5, <1>6

-----------------------------------------------------------------------------
(* The world *)

LEMMA WorldSteps ==
  ASSUME CallInv,
         \/ Refill \/ Rotate \/ SyncToken
         \/ \E j \in Jobs : Submit(j) \/ Ends(j) \/ Purge(j) \/ JobSetDies(j)
  PROVE  CallInv' /\ Outlives
<1> USE DEF CallInv
<1>1. CASE Refill
  <2>1. TypeOK'
    BY <1>1, BurstOK, CallConstantsOK DEF Refill, TypeOK
  <2> QED
    BY <1>1, <2>1 DEF Refill, ListInv, ListsAreWhole, EndInv, Outlives
<1>2. CASE Rotate \/ SyncToken
  <2>1. TypeOK'
    BY <1>2, CallConstantsOK DEF Rotate, SyncToken, TypeOK
  <2> QED
    BY <1>2, <2>1 DEF Rotate, SyncToken, ListInv, ListsAreWhole, EndInv, Outlives
<1>3. ASSUME NEW j \in Jobs, Submit(j) \/ Ends(j) \/ Purge(j) PROVE CallInv' /\ Outlives
  <2>1. /\ UNCHANGED <<key, bucket, pc, answer, todo, cur, byID, patience, fooled, faults>>
        /\ jobset' \in [Served -> {"none", "good", "dead"}]
        /\ \A k \in Served : jobset[k] # "none" => jobset'[k] # "none"
    BY <1>3 DEF Submit, Ends, Purge, Moves, TypeOK
  <2>2. /\ slurm' \in [Jobs -> States]
        /\ \A k \in Served : /\ slurm'[k] # "told"
                             /\ slurm[k] \in {"ended", "purged"} => slurm'[k] \in {"ended", "purged"}
    BY <1>3 DEF Submit, Ends, Purge, Moves, TypeOK, EndInv, States, Jobs
  <2> QED
    BY <2>1, <2>2 DEF TypeOK, ListInv, ListsAreWhole, EndInv, Outlives
<1>4. ASSUME NEW j \in Jobs, JobSetDies(j) PROVE CallInv' /\ Outlives
  <2>1. TypeOK'
    BY <1>4 DEF JobSetDies, TypeOK
  <2> QED
    BY <1>4, <2>1 DEF JobSetDies, TypeOK, ListInv, ListsAreWhole, EndInv, Outlives
<1> QED
  BY <1>1, <1>2, <1>3, <1>4

\* No step before cleanup touches a JobSet.
LEMMA CallStep == CallInv /\ [Next]_vars => CallInv' /\ Outlives
<1> SUFFICES ASSUME CallInv, [Next]_vars PROVE CallInv' /\ Outlives
  OBVIOUS
<1>1. CASE UNCHANGED vars
  BY <1>1 DEF vars, CallInv, TypeOK, ListInv, ListsAreWhole, EndInv, Outlives
<1>2. CASE Tick
  BY <1>2 DEF Tick, CallInv, TypeOK, ListInv, ListsAreWhole, EndInv, Outlives
<1>3. CASE ListJobs
  BY <1>3, ListStep DEF ListJobs, Outlives
<1>4. CASE Element \/ Signal \/ EndOfList
  BY <1>4, StreamSteps DEF Element, Signal, EndOfList, Outlives
<1>5. CASE NoList
  BY <1>5, Account, Ending DEF NoList, CallInv, TypeOK, Outlives
<1>6. CASE TimesOut \/ EndOfCleanup
  BY <1>6, Ending DEF TimesOut, EndOfCleanup, CallInv, TypeOK, Outlives
<1> QED
  BY <1>1, <1>2, <1>3, <1>4, <1>5, <1>6, InspectStep, GetStep, CancelStep, WorldSteps
     DEF Next, Bridge

-----------------------------------------------------------------------------
(* Theorems *)

\* Everything keeps its type (client.go; cleanupFinishedJobs).
THEOREM CallTypeCorrect == Spec => []TypeOK
<1>1. CallInv => TypeOK
  BY DEF CallInv
<1> QED
  BY <1>1, CallInit, CallStep, PTL DEF Spec

\* A tick goes on with the whole list or with none, whatever comes in its place or is
\* cut off (listJobsStreaming).
THEOREM WholeLists == Spec => []ListsAreWhole
<1>1. CallInv => ListsAreWhole
  BY DEF CallInv, ListInv
<1> QED
  BY <1>1, CallInit, CallStep, PTL DEF Spec

\* Cleanup deletes the JobSet of a living job only on an answer that need not be
\* slurmrestd's and is believed: a 404 to GetJob, or JSON without an envelope (GetJob,
\* CancelJob and doHTTP).
THEOREM OnItsWord == Spec => JobSetsOutliveTheirJobs
<1>1. CallInv /\ [Next]_vars
      => [\A j \in Served :
            jobset[j] # "none" /\ jobset'[j] = "none" => slurm'[j] # "alive" \/ j \in fooled']_vars
  BY CallStep DEF Outlives
<1> QED
  BY <1>1, CallInit, CallStep, PTL DEF Spec, JobSetsOutliveTheirJobs

=============================================================================
