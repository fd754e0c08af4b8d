------------------------- MODULE EncodeWorkerProofs -------------------------
(***************************************************************************)
(* Theorems of EncodeWorker, for any processes, movies, uploads, claims    *)
(* and scenarios.                                                          *)
(***************************************************************************)
EXTENDS EncodeWorker, EncodeQueueProofs, WellFoundedInduction

\* A task that works on a job has its claim, and one past the claim is in some
\* catch block's reach; what a reaper has listed was issued.
Fit ==
  {l \in Local :
     /\ l.at \notin {"idle", "poll", "reap"} => l.claim \in ClaimIds /\ Issued(l.claim)
     /\ l.at \notin {"idle", "poll", "claimed"} => l.mode # "none"
     /\ \A m \in l.todo : Issued(m)}

StoreTypeOK ==
  /\ variant \in [Movies -> [status : {"PROCESSING", "READY", "FAILED", "DELETED"}, s3Key : Keys]]
  /\ tmp \subseteq Keys /\ prod \subseteq Keys
  /\ erasing \subseteq {"tmp", "prod"} \X Keys

BoundsTypeOK ==
  scenario \in Scenario /\ \A what \in Bounds : scenario.left[what] <= scenario.bounds[what]

Phases == {"up", "settle", "drain", "abort", "leaving"}

\* The queue and the buckets, then the tasks and the rest.
Shared == QueueInv /\ StoreTypeOK
WorkerInv == Shared /\ task \in [Tasks -> Fit] /\ handler \in [Processes -> Phases] /\ BoundsTypeOK

-----------------------------------------------------------------------------
\* A claim, once issued, keeps its text.
ClaimsKept == \A m \in ClaimIds : Issued(m) => claims'[m] = claims[m]

\* A step of the queue alone.
LEMMA QueueMoves ==
  ASSUME Shared, [QueueNext]_queueVars, UNCHANGED store
  PROVE  Shared' /\ ClaimsKept
<1>1. QueueInv'
  BY NextInv DEF Shared
<1>2. StoreTypeOK'
  BY DEF Shared, StoreTypeOK, store
<1>3. ClaimsKept
  <2>1. CASE UNCHANGED claims
    BY <2>1 DEF ClaimsKept
  <2>2. ASSUME NEW m \in ClaimIds, ClaimNextEncodeJob(m) PROVE ClaimsKept
    BY <2>2 DEF ClaimsKept, ClaimNextEncodeJob, Shared, QueueInv, QueueTypeOK
  <2>3. CASE UNCHANGED queueVars
    BY <2>1, <2>3 DEF queueVars, redis
  <2>4. ASSUME NEW j \in Jobs, AddEncodeJob(j) PROVE ClaimsKept
    BY <2>1, <2>4 DEF AddEncodeJob
  <2>5. ASSUME NEW m \in ClaimIds, OwnerCall(m) \/ ExpireProcessingJob(m) \/ LeaseRunsOut(m) PROVE ClaimsKept
    BY <2>1, <2>5 DEF OwnerCall, AddJobToRetryQueue, DeferJobForInfrastructure, CommitProcessingJob,
       FinishProcessingJob, ReleaseProcessingJob, RefreshProcessingJob, RequeueProcessingJob,
       ExpireProcessingJob, LeaseRunsOut
  <2>6. ASSUME NEW ready \in SUBSET retry, ProcessRetryQueue(ready) PROVE ClaimsKept
    BY <2>1, <2>6 DEF ProcessRetryQueue
  <2>7. ASSUME NEW k \in Movies \X Keys, CompletionExpires(k) PROVE ClaimsKept
    BY <2>1, <2>7 DEF CompletionExpires
  <2>8. QED
    BY <2>2, <2>3, <2>4, <2>5, <2>6, <2>7 DEF QueueNext
<1>4. QED
  BY <1>1, <1>2, <1>3 DEF Shared

\* The progress keys and the dead letters are nobody's place of a job.
LEMMA RecordMoves ==
  ASSUME Shared, UNCHANGED store,
         \/ \E v \in Movies, s \in Status : SetEncodeProgress(v, s)
         \/ \E v \in Movies : ProgressExpires(v)
         \/ \E j \in Jobs : AddJobToDeadLetterQueue(j)
  PROVE  Shared' /\ ClaimsKept
<1>1. UNCHANGED <<main, retry, claims, lease, completion, history>>
  BY DEF SetEncodeProgress, ProgressExpires, AddJobToDeadLetterQueue
<1>2. progress' \in [Movies -> Status \cup {"none"}] /\ dead' \subseteq Jobs
  BY DEF SetEncodeProgress, ProgressExpires, AddJobToDeadLetterQueue, Shared, QueueInv, QueueTypeOK
<1>3. QueueTypeOK'
  BY <1>1, <1>2 DEF Shared, QueueInv, QueueTypeOK, history
<1>4. QueueInv'
  BY <1>1, <1>3, NoMove DEF Shared, history
<1>5. QED
  BY <1>1, <1>4 DEF Shared, StoreTypeOK, store, ClaimsKept

\* A step that leaves the queue alone.
LEMMA StoreMoves ==
  ASSUME Shared, UNCHANGED queueVars, StoreTypeOK'
  PROVE  Shared' /\ ClaimsKept
<1>1. QueueInv'
  BY NextInv DEF Shared
<1>2. QED
  BY <1>1 DEF Shared, ClaimsKept, queueVars, redis

LEMMA NothingMoves ==
  ASSUME Shared, Nothing
  PROVE  Shared' /\ ClaimsKept
  BY QueueMoves DEF Nothing

LEMMA Refit ==
  ASSUME ClaimsKept
  PROVE  Fit \subseteq Fit'
<1>1. SUFFICES ASSUME NEW l \in Fit PROVE l \in Fit'
  OBVIOUS
<1>2. \A m \in ClaimIds : Issued(m) => Issued(m)'
  BY DEF ClaimsKept, Issued
<1>3. l \in Local /\ l.todo \subseteq ClaimIds
  BY DEF Fit, Local
<1>4. QED
  BY <1>2, <1>3 DEF Fit

LEMMA BoundsStep ==
  ASSUME BoundsTypeOK, UNCHANGED scenario \/ \E what \in Bounds : Spend(what)
  PROVE  BoundsTypeOK'
<1>1. CASE UNCHANGED scenario
  BY <1>1 DEF BoundsTypeOK
<1>2. ASSUME NEW what \in Bounds, Spend(what) PROVE BoundsTypeOK'
  <2>1. /\ scenario \in Scenario
        /\ scenario.left \in [Bounds -> Nat] /\ scenario.bounds \in [Bounds -> Nat]
    BY DEF BoundsTypeOK, Scenario
  <2>2. scenario' = [scenario EXCEPT !.left = [scenario.left EXCEPT ![what] = @ - 1]]
    BY <1>2 DEF Spend
  <2>3. [scenario.left EXCEPT ![what] = @ - 1] \in [Bounds -> Nat]
    BY <1>2, <2>1 DEF Spend
  <2>4. scenario' \in Scenario
    BY <2>1, <2>2, <2>3 DEF Scenario
  <2>5. \A w \in Bounds : scenario'.left[w] <= scenario'.bounds[w]
    BY <1>2, <2>1, <2>2 DEF BoundsTypeOK, Spend, Scenario
  <2>6. QED
    BY <2>4, <2>5 DEF BoundsTypeOK
<1>3. QED
  BY <1>1, <1>2

\* A step of one task.
LEMMA TaskStep ==
  ASSUME WorkerInv, Shared', ClaimsKept, NEW t \in Tasks, \E l \in Fit' : Put(t, l),
         UNCHANGED handler, UNCHANGED scenario \/ \E what \in Bounds : Spend(what)
  PROVE  WorkerInv'
<1>1. PICK l \in Fit' : task' = [task EXCEPT ![t] = l]
  BY DEF Put
<1>2. task \in [Tasks -> Fit']
  BY Refit DEF WorkerInv
<1>3. task' \in [Tasks -> Fit']
  BY <1>1, <1>2
<1>4. BoundsTypeOK'
  BY BoundsStep DEF WorkerInv
<1>5. QED
  BY <1>3, <1>4 DEF WorkerInv

-----------------------------------------------------------------------------
\* Where control goes from a job, it finds its claim there.
LEMMA Goes ==
  ASSUME WorkerInv, NEW t \in Tasks, task[t].at \notin {"idle", "poll", "reap"}
  PROVE  /\ task[t] \in Fit /\ task[t].claim \in ClaimIds /\ Issued(task[t].claim)
         /\ Job(t) \in Jobs /\ Job(t).movieId \in Movies /\ Job(t).s3Key \in Keys
         /\ \A label \in Labels, mode \in Modes \ {"none"} : GoIn(t, label, mode) \in Fit
         /\ \A result \in Results : task[t].mode # "none" => Return(t, result) \in Fit
         /\ \A label \in Labels : task[t].mode # "none" => Go(t, label) \in Fit
         /\ \A l \in Fit : [l EXCEPT !.committed = TRUE] \in Fit /\ [l EXCEPT !.relinquished = TRUE] \in Fit
<1>1. task[t] \in Fit
  BY DEF WorkerInv
<1>2. task[t] \in Local /\ task[t].claim \in ClaimIds /\ Issued(task[t].claim)
      /\ \A m \in task[t].todo : Issued(m)
  BY <1>1 DEF Fit
<1>3. Job(t) \in Jobs
  BY <1>2 DEF Job, JobOf, Issued, WorkerInv, Shared, QueueInv, QueueTypeOK, Entry
<1>4. Job(t).movieId \in Movies /\ Job(t).s3Key \in Keys
  BY <1>3, JobsAssumption
<1>5. ASSUME NEW label \in Labels, NEW mode \in Modes \ {"none"}
      PROVE  GoIn(t, label, mode) \in Fit
  BY <1>2, <1>5 DEF GoIn, Fit, Local
<1>6. ASSUME NEW result \in Results, task[t].mode # "none"
      PROVE  Return(t, result) \in Fit
  BY <1>2, <1>6 DEF Return, Fit, Local, Labels
<1>7. ASSUME NEW label \in Labels, task[t].mode # "none"
      PROVE  Go(t, label) \in Fit
  BY <1>2, <1>7 DEF Go, Fit, Local
<1>8. ASSUME NEW l \in Fit
      PROVE  [l EXCEPT !.committed = TRUE] \in Fit /\ [l EXCEPT !.relinquished = TRUE] \in Fit
  BY <1>8 DEF Fit, Local
<1>9. QED
  BY <1>1, <1>2, <1>3, <1>4, <1>5, <1>6, <1>7, <1>8

\* So do the catch blocks.
LEMMA Catches ==
  ASSUME WorkerInv, NEW t \in Tasks, task[t].at \notin {"idle", "poll", "claimed", "reap"}
  PROVE  /\ task[t].mode # "none"
         /\ NextClaim(t) \in Fit
         /\ \A mode \in Modes \ {"none"}, b \in BOOLEAN :
              RetryOrDeadLetter(t, mode, b) \in Fit /\ HandBack(t, mode) \in Fit
         /\ \A kind : Caught(t, kind) \in Fit
         /\ Thrown(t) \subseteq Fit
         /\ Errors(t) \subseteq Fit
<1>1. /\ task[t] \in Fit /\ task[t].mode # "none"
      /\ \A label \in Labels, mode \in Modes \ {"none"} : GoIn(t, label, mode) \in Fit
      /\ \A result \in Results : Return(t, result) \in Fit
      /\ \A label \in Labels : Go(t, label) \in Fit
      /\ \A l \in Fit : [l EXCEPT !.relinquished = TRUE] \in Fit
  BY Goes DEF Fit, WorkerInv
<1>2. NextClaim(t) \in Fit
  <2>1. task[t] \in Local /\ \A m \in task[t].todo : Issued(m)
    BY <1>1 DEF Fit
  <2>2. NextClaim(t) \in Local
    BY <2>1 DEF NextClaim, Local, Labels
  <2>3. NextClaim(t).at = "reap" /\ NextClaim(t).mode = task[t].mode /\ NextClaim(t).todo = task[t].todo
    BY <2>1 DEF NextClaim, Local
  <2>4. QED
    BY <1>1, <2>1, <2>2, <2>3 DEF Fit
<1>3. ASSUME NEW mode \in Modes \ {"none"}, NEW b
      PROVE  RetryOrDeadLetter(t, mode, b) \in Fit /\ HandBack(t, mode) \in Fit
  BY <1>1, <1>3 DEF RetryOrDeadLetter, HandBack, Labels
<1>4. ASSUME NEW kind PROVE Caught(t, kind) \in Fit
  <2>1. task[t].relinquished \in BOOLEAN /\ task[t].committed \in BOOLEAN
    BY <1>1 DEF Fit, Local
  <2>2. "last" \in Modes \ {"none"} /\ "catch" \in Modes \ {"none"} /\ "again" \in Modes \ {"none"}
        /\ {"succeed", "defer"} \subseteq Labels /\ "relinquished" \in Results
    BY DEF Modes, Labels, Results
  <2>3. QED
    BY <1>1, <1>3, <2>1, <2>2 DEF Caught
<1>5. Thrown(t) \subseteq Fit
  BY <1>4 DEF Thrown
<1>6. Errors(t) \subseteq Fit
  <2>1. task[t].mode \in Modes \ {"none"}
    BY <1>1 DEF Fit, Local
  <2>2. {"body", "loop", "last"} \subseteq Modes \ {"none"} /\ {"dead", "recommit"} \subseteq Labels /\ "error" \in Results
    BY DEF Modes, Labels, Results
  <2>3. QED
    BY <1>1, <1>2, <1>5, <2>1, <2>2 DEF Errors, Modes
<1>7. QED
  BY <1>1, <1>2, <1>3, <1>4, <1>5, <1>6

-----------------------------------------------------------------------------
\* The forms most steps have: no call, a read, a report of the progress, a
\* script with a claim, a write to the rows or the buckets.
LEMMA QuietStep ==
  ASSUME WorkerInv, NEW t \in Tasks, NEW l \in Fit, Put(t, l),
         UNCHANGED <<queueVars, handler, store, scenario>>
  PROVE  WorkerInv'
<1>1. Shared' /\ ClaimsKept
  BY NothingMoves DEF Nothing, WorkerInv
<1>2. QED
  BY <1>1, Refit, TaskStep

LEMMA ReadStep ==
  ASSUME WorkerInv, NEW t \in Tasks, NEW next \in Fit, NEW errs \in SUBSET Fit, Read(t, next, errs)
  PROVE  WorkerInv'
<1>1. Shared' /\ ClaimsKept
  BY NothingMoves DEF Read, Call, WorkerInv
<1>2. \E l \in Fit' : Put(t, l)
  BY <1>1, Refit DEF Read, Call
<1>3. UNCHANGED handler /\ (UNCHANGED scenario \/ \E what \in Bounds : Spend(what))
  BY DEF Read, Call, Bounds
<1>4. QED
  BY <1>1, <1>2, <1>3, TaskStep

LEMMA ReportStep ==
  ASSUME WorkerInv, NEW t \in Tasks, task[t].at \notin {"idle", "poll", "reap"},
         NEW next \in Fit, NEW errs \in SUBSET Fit, NEW status \in Status,
         Report(t, status, next, errs)
  PROVE  WorkerInv'
<1>1. Nothing \/ (UNCHANGED store /\ \E v \in Movies, s \in Status : SetEncodeProgress(v, s))
  BY Goes DEF Report, Call, Redis
<1>2. Shared' /\ ClaimsKept
  BY <1>1, NothingMoves, RecordMoves DEF WorkerInv
<1>3. \E l \in Fit' : Put(t, l)
  BY <1>2, Refit DEF Report, Call
<1>4. UNCHANGED handler /\ (UNCHANGED scenario \/ \E what \in Bounds : Spend(what))
  BY DEF Report, Call, Bounds
<1>5. QED
  BY <1>2, <1>3, <1>4, TaskStep

LEMMA ScriptStep ==
  ASSUME WorkerInv, NEW t \in Tasks, NEW ls \in SUBSET Fit, \E l \in ls : Put(t, l),
         UNCHANGED handler, UNCHANGED scenario \/ \E what \in Bounds : Spend(what),
         NEW m \in ClaimIds, UNCHANGED store,
         OwnerCall(m) \/ ExpireProcessingJob(m) \/ UNCHANGED queueVars
  PROVE  WorkerInv'
<1>1. [QueueNext]_queueVars
  BY DEF QueueNext
<1>2. Shared' /\ ClaimsKept
  BY <1>1, QueueMoves DEF WorkerInv
<1>3. QED
  BY <1>2, Refit, TaskStep

LEMMA StoreStep ==
  ASSUME WorkerInv, NEW t \in Tasks, NEW ls \in SUBSET Fit, \E l \in ls : Put(t, l),
         UNCHANGED handler, UNCHANGED scenario \/ \E what \in Bounds : Spend(what),
         UNCHANGED queueVars, StoreTypeOK'
  PROVE  WorkerInv'
<1>1. Shared' /\ ClaimsKept
  BY StoreMoves DEF WorkerInv
<1>2. QED
  BY <1>1, Refit, TaskStep

\* What a callback and the writes to the buckets leave in them.
LEMMA CallbackTyped ==
  ASSUME StoreTypeOK, NEW j \in Jobs, NEW status \in {"READY", "FAILED"}, Callback(j, status)
  PROVE  StoreTypeOK' /\ UNCHANGED queueVars
  BY DEF StoreTypeOK, Callback

LEMMA DiscardTyped ==
  ASSUME StoreTypeOK, NEW j \in Jobs, Discard(j)
  PROVE  StoreTypeOK' /\ UNCHANGED queueVars
  BY DEF StoreTypeOK, Discard

LEMMA RestingFits == Resting \in Fit
<1>1. Resting \in Local
  BY WorkerAssumption DEF Resting, Local, Labels, Modes, Results
<1>2. Resting.at = "idle" /\ Resting.todo = {}
  BY DEF Resting
<1>3. QED
  BY <1>1, <1>2 DEF Fit

LEMMA ClaimedFits ==
  ASSUME NEW m \in ClaimIds, Issued(m)'
  PROVE  [Resting EXCEPT !.at = "claimed", !.claim = m] \in Fit'
<1> DEFINE l == [Resting EXCEPT !.at = "claimed", !.claim = m]
<1>1. Resting \in Local /\ "claimed" \in Labels
  BY WorkerAssumption DEF Resting, Local, Labels, Modes, Results
<1>2. l \in Local
  BY <1>1 DEF Local
<1>3. l.at = "claimed" /\ l.claim = m /\ l.todo = {}
  BY DEF Resting
<1>4. ASSUME NEW k \in Local, k.at = "claimed", k.claim = m, k.todo = {}
      PROVE  k \in Fit'
  BY <1>4 DEF Fit
<1>5. QED
  BY <1>2, <1>3, <1>4

LEMMA ClaimStepInv ==
  ASSUME WorkerInv, NEW p \in Processes, Claim(p)
  PROVE  WorkerInv'
<1>1. Loop(p) \in Tasks
  BY DEF Tasks
<1>2. PICK m \in ClaimIds :
        Call(Loop(p), Redis(ClaimNextEncodeJob(m)), Nothing,
             IF Head(main).job \in Malformed THEN Resting
             ELSE [Resting EXCEPT !.at = "claimed", !.claim = m], {Resting})
  BY DEF Claim
<1>3. (ClaimNextEncodeJob(m) /\ UNCHANGED store) \/ Nothing
  BY <1>2 DEF Call, Redis
<1>4. [QueueNext]_queueVars /\ UNCHANGED store
  BY <1>3 DEF Nothing, QueueNext
<1>5. Shared' /\ ClaimsKept
  BY <1>4, QueueMoves DEF WorkerInv
<1>6. Resting \in Fit'
  BY <1>5, Refit, RestingFits
<1>7. \E l \in Fit' : Put(Loop(p), l)
  <2>1. CASE /\ Redis(ClaimNextEncodeJob(m))
             /\ Put(Loop(p), IF Head(main).job \in Malformed THEN Resting
                             ELSE [Resting EXCEPT !.at = "claimed", !.claim = m])
    <3>1. CASE Head(main).job \in Malformed
      BY <1>6, <2>1, <3>1
    <3>2. CASE Head(main).job \notin Malformed
      <4>1. main # <<>> /\ claims' = [claims EXCEPT ![m] = Head(main)] /\ main \in Seq(Entry)
            /\ claims \in [ClaimIds -> Entry \cup {NoEntry}]
        BY <2>1, <3>2 DEF Redis, ClaimNextEncodeJob, WorkerInv, Shared, QueueInv, QueueTypeOK
      <4>2. Issued(m)'
        BY <4>1, EntryIsSome DEF Issued
      <4>3. [Resting EXCEPT !.at = "claimed", !.claim = m] \in Fit'
        BY <4>2, ClaimedFits
      <4>4. QED
        BY <2>1, <3>2, <4>3
    <3>3. QED
      BY <3>1, <3>2
  <2>2. CASE Put(Loop(p), Resting)
    BY <1>6, <2>2
  <2>3. QED
    BY <1>2, <2>1, <2>2 DEF Call
<1>8. UNCHANGED handler /\ (UNCHANGED scenario \/ \E what \in Bounds : Spend(what))
  BY <1>2 DEF Call, Bounds
<1>9. QED
  BY <1>1, <1>5, <1>7, <1>8, TaskStep

\* The poll loop up to the try block of processJob.
LEMMA PollInv ==
  ASSUME WorkerInv, NEW p \in Processes,
         BeginPoll(p) \/ FindNothing(p) \/ CheckCompletion(p) \/ Begin(p)
  PROVE  WorkerInv'
<1> DEFINE t == Loop(p)
<1>1. t \in Tasks /\ task[t] \in Fit
  BY DEF Tasks, WorkerInv
<1>2. CASE BeginPoll(p)
  <2>1. Go(t, "poll") \in Fit
    BY <1>1, <1>2 DEF Go, BeginPoll, At, Fit, Local, Labels
  <2>2. QED
    BY <1>1, <1>2, <2>1, QuietStep DEF BeginPoll
<1>3. CASE FindNothing(p)
  BY <1>1, <1>3, QuietStep, RestingFits DEF FindNothing
<1>4. CASE CheckCompletion(p)
  <2>1. GoIn(t, "begin", "last") \in Fit /\ [GoIn(t, "succeed", "prior") EXCEPT !.committed = TRUE] \in Fit
    BY <1>1, <1>4, Goes DEF CheckCompletion, At, Labels, Modes
  <2>2. QED
    BY <1>1, <1>4, <2>1, ReadStep DEF CheckCompletion
<1>5. CASE Begin(p)
  <2>1. At(t, "begin")
    BY <1>5 DEF Begin
  <2>2. /\ Return(t, "relinquished") \in Fit /\ GoIn(t, "inspect", "body") \in Fit
        /\ Errors(t) \in SUBSET Fit
    BY <1>1, <2>1, Goes, Catches DEF At, Labels, Modes, Results
  <2>3. CASE task[t].relinquished
    BY <1>1, <1>5, <2>2, <2>3, QuietStep DEF Begin
  <2>4. CASE ~task[t].relinquished
    <3>1. Report(t, "processing", GoIn(t, "inspect", "body"), Errors(t))
      BY <1>5, <2>4 DEF Begin
    <3>2. QED
      BY <1>1, <2>1, <2>2, <3>1, ReportStep DEF At, Status
  <2>5. QED
    BY <2>3, <2>4
<1>6. QED
  BY <1>2, <1>3, <1>4, <1>5

\* The body of processJob up to the upload.
LEMMA BodyInv ==
  ASSUME WorkerInv, NEW p \in Processes,
         Inspect(p) \/ StartStage(p) \/ Download(p) \/ Encode(p) \/ Upload(p)
  PROVE  WorkerInv'
<1> DEFINE t == Loop(p)
<1>1. t \in Tasks /\ task[t] \in Fit
  BY DEF Tasks, WorkerInv
<1>2. task[t].at \in {"inspect", "toDownload", "toEncode", "toUpload", "toDelete", "download", "encode", "upload"}
  BY DEF Inspect, StartStage, Download, Encode, Upload, At
<1>3. /\ Job(t) \in Jobs /\ Job(t).s3Key \in Keys
      /\ \A label \in Labels, mode \in Modes \ {"none"} : GoIn(t, label, mode) \in Fit
      /\ \A label \in Labels : Go(t, label) \in Fit
      /\ \A result \in Results : Return(t, result) \in Fit
      /\ \A mode \in Modes \ {"none"}, b \in BOOLEAN :
           RetryOrDeadLetter(t, mode, b) \in Fit /\ HandBack(t, mode) \in Fit
      /\ \A kind : Caught(t, kind) \in Fit
      /\ Thrown(t) \in SUBSET Fit
  BY <1>1, <1>2, Goes, Catches
<1>4. CASE Inspect(p)
  <2>1. PICK l \in Fit : Read(t, l, Thrown(t))
    <3>1. CASE Job(t).s3Key \in tmp
      BY <1>3, <1>4, <3>1 DEF Inspect, Labels, Modes
    <3>2. CASE Job(t).s3Key \notin tmp
      BY <1>3, <1>4, <3>2 DEF Inspect
    <3>3. QED
      BY <3>1, <3>2
  <2>2. QED
    BY <1>1, <1>3, <2>1, ReadStep
<1>5. CASE StartStage(p)
  <2>1. PICK label \in Labels : Report(t, "processing", Go(t, label), Thrown(t))
    BY <1>2, <1>5 DEF StartStage, Labels
  <2>2. QED
    BY <1>1, <1>2, <1>3, <2>1, ReportStep DEF Status
<1>6. CASE Download(p)
  <2>1. PICK l \in Fit : Read(t, l, Thrown(t))
    BY <1>3, <1>6 DEF Download, Labels
  <2>2. QED
    BY <1>1, <1>3, <2>1, ReadStep
<1>7. CASE Encode(p)
  <2>1. PICK l \in Fit : Put(t, l) /\ UNCHANGED <<queueVars, handler, store, scenario>>
    <3>1. \A kind \in scenario.misfortunes : kind \in {"transient", "permanent", "nospace"}
      BY DEF WorkerInv, BoundsTypeOK, Scenario
    <3>2. {"dead", "defer", "toUpload"} \subseteq Labels /\ {"body", "encode"} \subseteq Modes \ {"none"}
          /\ "relinquished" \in Results
      BY DEF Labels, Modes, Results
    <3>3. RetryOrDeadLetter(t, "encode", TRUE) \in Fit /\ GoIn(t, "dead", "body") \in Fit
          /\ GoIn(t, "defer", "body") \in Fit /\ Return(t, "relinquished") \in Fit
          /\ Go(t, "toUpload") \in Fit /\ HandBack(t, "body") \in Fit
      BY <1>3, <3>2
    <3>4. CASE task[t].relinquished
      BY <1>7, <3>3, <3>4 DEF Encode
    <3>5. CASE ~task[t].relinquished
      <4>1. PICK l \in {Go(t, "toUpload"), RetryOrDeadLetter(t, "encode", TRUE), GoIn(t, "dead", "body"),
                        GoIn(t, "defer", "body"), HandBack(t, "body")} : Put(t, l)
        <5> DEFINE failure == [transient |-> RetryOrDeadLetter(t, "encode", TRUE),
                               permanent |-> GoIn(t, "dead", "body"),
                               nospace   |-> GoIn(t, "defer", "body")]
        <5>1. failure["transient"] = RetryOrDeadLetter(t, "encode", TRUE)
              /\ failure["permanent"] = GoIn(t, "dead", "body") /\ failure["nospace"] = GoIn(t, "defer", "body")
          OBVIOUS
        <5>2. PICK l \in {Go(t, "toUpload")} \cup {failure[kind] : kind \in scenario.misfortunes}
                         \cup {HandBack(t, "body")} : Put(t, l)
          BY <1>7, <3>5, Zenon DEF Encode
        <5> HIDE DEF failure
        <5>3. QED
          BY <3>1, <5>1, <5>2
      <4>2. QED
        BY <1>7, <3>3, <4>1 DEF Encode
    <3>6. QED
      BY <3>4, <3>5
  <2>2. QED
    BY <1>1, <2>1, QuietStep
<1>8. CASE Upload(p)
  <2>1. \E l \in Fit : Put(t, l)
    BY <1>3, <1>8 DEF Upload, Call, Labels
  <2>2. UNCHANGED <<queueVars, handler>> /\ (UNCHANGED scenario \/ \E what \in Bounds : Spend(what))
    BY <1>8 DEF Upload, Call, Bounds, Nothing
  <2>3. StoreTypeOK'
    <3>1. UNCHANGED <<variant, tmp, erasing>> /\ prod' \subseteq prod \cup {Job(t).s3Key}
      BY <1>8 DEF Upload, Call, Nothing, store
    <3>2. QED
      BY <1>3, <3>1 DEF StoreTypeOK, WorkerInv, Shared
  <2>4. QED
    BY <1>1, <2>1, <2>2, <2>3, StoreStep
<1>9. QED
  BY <1>4, <1>5, <1>6, <1>7, <1>8

\* From the commit of a job to the end of its source.
LEMMA CommitInv ==
  ASSUME WorkerInv, NEW p \in Processes,
         Commit(p) \/ Reconcile(p) \/ DeleteSource(p) \/ Recommit(p)
  PROVE  WorkerInv'
<1> DEFINE t == Loop(p)
           m == task[t].claim
<1>1. t \in Tasks /\ task[t] \in Fit
  BY DEF Tasks, WorkerInv
<1>2. task[t].at \in {"commit", "reconcile", "delete", "recommit"}
  BY DEF Commit, Reconcile, DeleteSource, Recommit, At
<1>3. /\ Job(t) \in Jobs /\ m \in ClaimIds
      /\ \A label \in Labels, mode \in Modes \ {"none"} : GoIn(t, label, mode) \in Fit
      /\ \A label \in Labels : Go(t, label) \in Fit
      /\ \A result \in Results : Return(t, result) \in Fit
      /\ \A l \in Fit : [l EXCEPT !.committed = TRUE] \in Fit /\ [l EXCEPT !.relinquished = TRUE] \in Fit
      /\ \A kind : Caught(t, kind) \in Fit
      /\ Thrown(t) \in SUBSET Fit
  BY <1>1, <1>2, Goes, Catches
<1>4. ASSUME NEW ls \in SUBSET Fit, NEW next \in ls,
             Call(t, IfHeld(m, CommitProcessingJob(m)), Nothing, next, ls)
      PROVE  WorkerInv'
  <2>1. \E l \in ls : Put(t, l)
    BY <1>4 DEF Call
  <2>2. UNCHANGED store /\ (OwnerCall(m) \/ UNCHANGED queueVars)
    BY <1>4 DEF Call, IfHeld, Redis, Nothing, OwnerCall
  <2>3. UNCHANGED handler /\ (UNCHANGED scenario \/ \E what \in Bounds : Spend(what))
    BY <1>4 DEF Call, Bounds
  <2>4. QED
    BY <1>1, <1>3, <2>1, <2>2, <2>3, ScriptStep
<1>5. CASE Commit(p)
  <2> DEFINE again == IF task[t].tries + 1 < CommitAttempts
                      THEN [task[t] EXCEPT !.tries = @ + 1] ELSE Go(t, "reconcile")
             next == IF Present(m) THEN [Go(t, "toDelete") EXCEPT !.committed = TRUE] ELSE again
  <2>1. again \in Fit
    <3>1. task[t].tries \in Nat /\ CommitAttempts \in Nat
      BY <1>1, WorkerAssumption DEF Fit, Local
    <3>2. CASE task[t].tries + 1 < CommitAttempts
      <4>1. task[t].tries + 1 \in 0..(CommitAttempts - 1)
        BY <3>1, <3>2
      <4>2. [task[t] EXCEPT !.tries = @ + 1] \in Fit
        BY <1>1, <4>1 DEF Fit, Local
      <4>3. QED
        BY <3>2, <4>2
    <3>3. CASE ~(task[t].tries + 1 < CommitAttempts)
      BY <1>3, <3>3 DEF Labels
    <3>4. QED
      BY <3>2, <3>3
  <2>2. next \in Fit
    BY <1>3, <2>1 DEF Labels
  <2>3. Call(t, IfHeld(m, CommitProcessingJob(m)), Nothing, next, {again})
    BY <1>5 DEF Commit
  <2> HIDE DEF again, next
  <2>4. Call(t, IfHeld(m, CommitProcessingJob(m)), Nothing, next, {next, again})
    BY <2>3 DEF Call
  <2>5. QED
    BY <1>4, <2>1, <2>2, <2>4
<1>6. CASE Reconcile(p)
  <2>1. [Go(t, "toDelete") EXCEPT !.committed = TRUE] \in Fit
        /\ [Return(t, "relinquished") EXCEPT !.relinquished = TRUE] \in Fit
    BY <1>3 DEF Labels, Results
  <2>2. PICK next \in Fit, errs \in SUBSET Fit : Read(t, next, errs)
    BY <1>6, <2>1 DEF Reconcile
  <2>3. QED
    BY <1>1, <2>2, ReadStep
<1>7. CASE DeleteSource(p)
  <2>1. \E l \in Fit : Put(t, l)
    <3>1. GoIn(t, "succeed", "main") \in Fit /\ Return(t, "relinquished") \in Fit
      BY <1>3 DEF Labels, Modes, Results
    <3>2. QED
      BY <1>3, <1>7, <3>1 DEF DeleteSource, Call
  <2>2. UNCHANGED <<queueVars, handler>> /\ (UNCHANGED scenario \/ \E what \in Bounds : Spend(what))
    BY <1>7 DEF DeleteSource, Call, Bounds, Nothing
  <2>3. StoreTypeOK'
    <3>1. UNCHANGED <<variant, prod, erasing>> /\ tmp' \subseteq tmp
      BY <1>7 DEF DeleteSource, Call, Nothing, store
    <3>2. QED
      BY <3>1 DEF StoreTypeOK, WorkerInv, Shared
  <2>4. QED
    BY <1>1, <2>1, <2>2, <2>3, StoreStep
<1>8. CASE Recommit(p)
  <2>1. Call(t, IfHeld(m, CommitProcessingJob(m)), Nothing, Return(t, "error"), {Return(t, "error")})
    BY <1>8 DEF Recommit
  <2>2. Return(t, "error") \in Fit
    BY <1>3 DEF Results
  <2>3. QED
    BY <1>4, <2>1, <2>2
<1>9. QED
  BY <1>5, <1>6, <1>7, <1>8

\* From a retry, a deferral or a hand-back to the end of the job.
LEMMA SettleInv ==
  ASSUME WorkerInv, NEW p \in Processes,
         \/ Postpone(p) \/ ReportPostponed(p) \/ GiveBack(p) \/ ReportHandedBack(p) \/ Resolve(p)
  PROVE  WorkerInv'
<1> DEFINE t == Loop(p)
           m == task[t].claim
<1>1. t \in Tasks /\ task[t] \in Fit
  BY DEF Tasks, WorkerInv
<1>2. task[t].at \in {"retry", "defer", "postponed", "handBack", "handedBack", "resolve"}
  BY DEF Postpone, ReportPostponed, GiveBack, ReportHandedBack, Resolve, At
<1>3. /\ m \in ClaimIds
      /\ \A label \in Labels : Go(t, label) \in Fit
      /\ \A result \in Results : Return(t, result) \in Fit
      /\ Errors(t) \in SUBSET Fit
  BY <1>1, <1>2, Goes, Catches
<1>4. CASE Postpone(p)
  <2>1. CASE Present(m)
    <3>1. \E l \in {Go(t, "postponed")} \cup Errors(t) : Put(t, l)
      BY <1>4, <2>1 DEF Postpone, Call
    <3>2. UNCHANGED store /\ (OwnerCall(m) \/ UNCHANGED queueVars)
      BY <1>4, <2>1 DEF Postpone, Call, Redis, Nothing, OwnerCall
    <3>3. UNCHANGED handler /\ (UNCHANGED scenario \/ \E what \in Bounds : Spend(what))
      BY <1>4, <2>1 DEF Postpone, Call, Bounds
    <3>4. {Go(t, "postponed")} \cup Errors(t) \in SUBSET Fit
      BY <1>3 DEF Labels
    <3>5. QED
      BY <1>1, <1>3, <3>1, <3>2, <3>3, <3>4, ScriptStep
  <2>2. CASE ~Present(m)
    <3>1. PICK l \in Fit : Read(t, l, {l})
      BY <1>3, <1>4, <2>2 DEF Postpone
    <3>2. QED
      BY <1>1, <3>1, ReadStep
  <2>3. QED
    BY <2>1, <2>2
<1>5. CASE ReportPostponed(p)
  <2>1. Report(t, "retrying", Return(t, "retrying"), Errors(t)) /\ Return(t, "retrying") \in Fit
    BY <1>3, <1>5 DEF ReportPostponed, Results
  <2>2. QED
    BY <1>1, <1>2, <1>3, <2>1, ReportStep DEF Status
<1>6. CASE GiveBack(p)
  <2>1. \E l \in {Go(t, "handedBack"), Return(t, "relinquished")} \cup Errors(t) : Put(t, l)
    BY <1>6 DEF GiveBack, Call, Read
  <2>2. UNCHANGED store /\ (OwnerCall(m) \/ UNCHANGED queueVars)
    BY <1>6 DEF GiveBack, Call, Read, Redis, Nothing, OwnerCall
  <2>3. UNCHANGED handler /\ (UNCHANGED scenario \/ \E what \in Bounds : Spend(what))
    BY <1>6 DEF GiveBack, Call, Read, Bounds
  <2>4. {Go(t, "handedBack"), Return(t, "relinquished")} \cup Errors(t) \in SUBSET Fit
    BY <1>3 DEF Labels, Results
  <2>5. QED
    BY <1>1, <1>3, <2>1, <2>2, <2>3, <2>4, ScriptStep
<1>7. CASE ReportHandedBack(p)
  <2>1. Report(t, "queued", Return(t, "relinquished"), {Return(t, "relinquished")})
        /\ Return(t, "relinquished") \in Fit
    BY <1>3, <1>7 DEF ReportHandedBack, Results
  <2>2. QED
    BY <1>1, <1>2, <2>1, ReportStep DEF Status
<1>8. CASE Resolve(p)
  <2>1. \E l \in {Resting} : Put(t, l)
    BY <1>8 DEF Resolve, Call
  <2>2. UNCHANGED store /\ (OwnerCall(m) \/ UNCHANGED queueVars)
    BY <1>8 DEF Resolve, Call, Redis, Nothing, OwnerCall
  <2>3. UNCHANGED handler /\ (UNCHANGED scenario \/ \E what \in Bounds : Spend(what))
    BY <1>8 DEF Resolve, Call, Bounds
  <2>4. QED
    BY <1>1, <1>3, <2>1, <2>2, <2>3, RestingFits, ScriptStep
<1>9. QED
  BY <1>4, <1>5, <1>6, <1>7, <1>8

\* How a job ends: the success and the failure of a loop's job or of a reaper's.
LEMMA FinalInv ==
  ASSUME WorkerInv, NEW t \in Tasks, FinalStep(t)
  PROVE  WorkerInv'
<1> DEFINE m == task[t].claim
<1>1. task[t] \in Fit /\ StoreTypeOK
  BY DEF WorkerInv, Shared
<1>2. task[t].at \in TerminalWrites \cup {"finish"}
  BY DEF FinalStep, Succeed, SucceedCallback, DiscardOutput, DropRejected, DeadLetter, ReportFailure,
     FailCallback, FinishFinalized, At, TerminalWrites
<1>3. task[t].at \notin {"idle", "poll", "claimed", "reap"}
  BY <1>2 DEF TerminalWrites
<1>4. /\ m \in ClaimIds /\ Job(t) \in Jobs
      /\ \A label \in Labels : Go(t, label) \in Fit
      /\ \A result \in Results : Return(t, result) \in Fit /\ Finalized(t, result) \in Fit
      /\ Errors(t) \in SUBSET Fit
      /\ NextClaim(t) \in Fit
  BY <1>3, Goes, Catches DEF Finalized, Labels
<1>5. {"succeedCallback", "discard", "unwanted", "failProgress", "failCallback"} \subseteq Labels
      /\ {"completed", "failed", "error"} \subseteq Results /\ {"completed", "failed"} \subseteq Status
  BY DEF Labels, Results, Status
<1>6. CASE Succeed(t) \/ ReportFailure(t)
  <2>1. \/ Report(t, "completed", Go(t, "succeedCallback"), Errors(t))
        \/ Report(t, "failed", Go(t, "failCallback"), Errors(t))
    BY <1>6 DEF Succeed, ReportFailure
  <2>2. QED
    BY <1>3, <1>4, <1>5, <2>1, ReportStep
<1>7. CASE SucceedCallback(t)
  <2>1. CASE Read(t, Go(t, "unwanted"), Errors(t))
    BY <1>4, <1>5, <2>1, ReadStep
  <2>2. CASE Call(t, Callback(Job(t), "READY"), Nothing,
                  IF variant[Job(t).movieId].status = "DELETED" THEN Go(t, "discard")
                  ELSE Finalized(t, "completed"), Errors(t))
    <3>1. \E l \in {Go(t, "discard"), Finalized(t, "completed")} \cup Errors(t) : Put(t, l)
      BY <2>2 DEF Call
    <3>2. {Go(t, "discard"), Finalized(t, "completed")} \cup Errors(t) \in SUBSET Fit
      BY <1>4, <1>5
    <3>3. UNCHANGED handler /\ (UNCHANGED scenario \/ \E what \in Bounds : Spend(what))
      BY <2>2 DEF Call, Bounds
    <3>4. Callback(Job(t), "READY") \/ Nothing
      BY <2>2 DEF Call
    <3>5. StoreTypeOK' /\ UNCHANGED queueVars
      BY <1>1, <1>4, <3>4, CallbackTyped DEF Nothing, store, StoreTypeOK
    <3>6. QED
      BY <3>1, <3>2, <3>3, <3>5, StoreStep
  <2>3. QED
    BY <1>7, <2>1, <2>2 DEF SucceedCallback
<1>8. CASE DiscardOutput(t) \/ DropRejected(t)
  <2>1. \E l \in {Finalized(t, "completed"), Go(t, "failProgress")} \cup Errors(t) : Put(t, l)
    BY <1>8 DEF DiscardOutput, DropRejected, Call
  <2>2. {Finalized(t, "completed"), Go(t, "failProgress")} \cup Errors(t) \in SUBSET Fit
    BY <1>4, <1>5
  <2>3. UNCHANGED handler /\ (UNCHANGED scenario \/ \E what \in Bounds : Spend(what))
    BY <1>8 DEF DiscardOutput, DropRejected, Call, Bounds
  <2>4. Discard(Job(t)) \/ Nothing
    BY <1>8 DEF DiscardOutput, DropRejected, Call
  <2>5. StoreTypeOK' /\ UNCHANGED queueVars
    BY <1>1, <1>4, <2>4, DiscardTyped DEF Nothing, store, StoreTypeOK
  <2>6. QED
    BY <2>1, <2>2, <2>3, <2>5, StoreStep
<1>9. CASE DeadLetter(t)
  <2>1. Nothing \/ (UNCHANGED store /\ \E j \in Jobs : AddJobToDeadLetterQueue(j))
    BY <1>4, <1>9 DEF DeadLetter, Call, Redis
  <2>2. Shared' /\ ClaimsKept
    BY <2>1, NothingMoves, RecordMoves DEF WorkerInv
  <2>3. \E l \in Fit' : Put(t, l)
    BY <1>4, <1>5, <1>9, <2>2, Refit DEF DeadLetter, Call
  <2>4. UNCHANGED handler /\ (UNCHANGED scenario \/ \E what \in Bounds : Spend(what))
    BY <1>9 DEF DeadLetter, Call, Bounds
  <2>5. QED
    BY <2>2, <2>3, <2>4, TaskStep
<1>10. CASE FailCallback(t)
  <2>1. \E l \in {Finalized(t, "failed"), Return(t, "error"), Return(t, "failed")} \cup Errors(t) : Put(t, l)
    <3>1. task[t].mode \in Modes
      BY <1>1 DEF Fit, Local
    <3>2. QED
      BY <1>10, <3>1 DEF FailCallback, Call, Modes
  <2>2. {Finalized(t, "failed"), Return(t, "error"), Return(t, "failed")} \cup Errors(t) \in SUBSET Fit
    BY <1>4, <1>5
  <2>3. UNCHANGED handler /\ (UNCHANGED scenario \/ \E what \in Bounds : Spend(what))
    BY <1>10 DEF FailCallback, Call, Bounds
  <2>4. Callback(Job(t), "FAILED") \/ Nothing
    BY <1>10 DEF FailCallback, Call
  <2>5. StoreTypeOK' /\ UNCHANGED queueVars
    BY <1>1, <1>4, <2>4, CallbackTyped DEF Nothing, store, StoreTypeOK
  <2>6. QED
    BY <2>1, <2>2, <2>3, <2>5, StoreStep
<1>11. CASE FinishFinalized(t)
  <2>1. \E l \in {NextClaim(t), Return(t, "completed")} \cup Errors(t) : Put(t, l)
    BY <1>11 DEF FinishFinalized, Call
  <2>2. UNCHANGED store /\ (OwnerCall(m) \/ UNCHANGED queueVars)
    BY <1>11 DEF FinishFinalized, Call, Redis, Nothing, OwnerCall
  <2>3. UNCHANGED handler /\ (UNCHANGED scenario \/ \E what \in Bounds : Spend(what))
    BY <1>11 DEF FinishFinalized, Call, Bounds
  <2>4. {NextClaim(t), Return(t, "completed")} \cup Errors(t) \in SUBSET Fit
    BY <1>4, <1>5
  <2>5. QED
    BY <1>4, <2>1, <2>2, <2>3, <2>4, ScriptStep
<1>12. QED
  BY <1>6, <1>7, <1>8, <1>9, <1>10, <1>11 DEF FinalStep

\* The reaper's walk through the claims it listed.
LEMMA ReaperInv ==
  ASSUME WorkerInv, NEW p \in Reapers, ReaperStep(p)
  PROVE  WorkerInv'
<1> DEFINE t == Reaper(p)
           m == task[t].claim
<1>1. t \in Tasks /\ task[t] \in Fit
  BY DEF Tasks, WorkerInv
<1>2. CASE ReapStart(p)
  <2>1. PICK l : Put(t, l) /\ l = [Resting EXCEPT !.at = "reap", !.mode = "reap",
                                      !.todo = {k \in ClaimIds : lease[k] = "stale"}]
                 /\ UNCHANGED <<queueVars, handler, store, scenario>>
    BY <1>2 DEF ReapStart
  <2>2. \A k \in ClaimIds : lease[k] = "stale" => Issued(k)
    BY DEF WorkerInv, Shared, QueueInv, Known, Present
  <2>3. l \in Local
    <3>1. Resting \in Local /\ "reap" \in Labels /\ "reap" \in Modes
      BY RestingFits DEF Fit, Labels, Modes
    <3>2. QED
      BY <2>1, <3>1 DEF Local
  <2>4. l.at = "reap" /\ l.mode = "reap" /\ l.todo = {k \in ClaimIds : lease[k] = "stale"}
    BY <2>1 DEF Resting
  <2>5. l \in Fit
    BY <2>2, <2>3, <2>4 DEF Fit
  <2>6. QED
    BY <1>1, <2>1, <2>5, QuietStep
<1>3. CASE Reap(p)
  <2>1. CASE task[t].todo = {}
    BY <1>1, <1>3, <2>1, QuietStep, RestingFits DEF Reap
  <2>2. CASE task[t].todo # {}
    <3>1. PICK k \in task[t].todo, next \in {"succeed", "guess"} :
            Read(t, [[task[t] EXCEPT !.claim = k, !.todo = @ \ {k}] EXCEPT !.at = next],
                 {[[task[t] EXCEPT !.claim = k, !.todo = @ \ {k}] EXCEPT !.at = "guess"]})
      BY <1>3, <2>2 DEF Reap
    <3>2. At(t, "reap")
      BY <1>3 DEF Reap
    <3>3. ASSUME NEW label \in {"succeed", "guess"}
          PROVE  [[task[t] EXCEPT !.claim = k, !.todo = @ \ {k}] EXCEPT !.at = label] \in Fit
      BY <1>1, <3>2 DEF At, Fit, Local, Labels
    <3>4. PICK l \in Fit, errs \in SUBSET Fit : Read(t, l, errs)
      BY <3>1, <3>3
    <3>5. QED
      BY <1>1, <3>4, ReadStep
  <2>3. QED
    BY <2>1, <2>2
<1>4. ASSUME task[t].at \in {"guess", "release", "requeue"}
      PROVE  /\ m \in ClaimIds
             /\ \A label \in Labels : Go(t, label) \in Fit
             /\ NextClaim(t) \in Fit
  BY <1>1, <1>4, Goes, Catches
<1>5. CASE Guess(p)
  <2>1. Go(t, "release") \in Fit /\ Go(t, "succeed") \in Fit /\ Go(t, "requeue") \in Fit
    BY <1>4, <1>5 DEF Guess, At, Labels
  <2>2. PICK next \in Fit, errs \in SUBSET Fit : Read(t, next, errs)
    BY <1>5, <2>1 DEF Guess
  <2>3. QED
    BY <1>1, <2>2, ReadStep
<1>6. CASE ReleaseFailed(p) \/ RequeueStale(p)
  <2>1. m \in ClaimIds /\ {NextClaim(t)} \in SUBSET Fit
    BY <1>4, <1>6 DEF ReleaseFailed, RequeueStale, At
  <2>2. \E l \in {NextClaim(t)} : Put(t, l)
    BY <1>6 DEF ReleaseFailed, RequeueStale, Call, Read
  <2>3. UNCHANGED store /\ (OwnerCall(m) \/ UNCHANGED queueVars)
    BY <1>6 DEF ReleaseFailed, RequeueStale, Call, Read, Redis, Nothing, OwnerCall
  <2>4. UNCHANGED handler /\ (UNCHANGED scenario \/ \E what \in Bounds : Spend(what))
    BY <1>6 DEF ReleaseFailed, RequeueStale, Call, Read, Bounds
  <2>5. QED
    BY <1>1, <2>1, <2>2, <2>3, <2>4, ScriptStep
<1>7. QED
  BY <1>2, <1>3, <1>5, <1>6 DEF ReaperStep

\* A step that moves no task but may move the rest.
LEMMA OutsideStep ==
  ASSUME WorkerInv, Shared', ClaimsKept, task' \in [Tasks -> Fit'],
         handler' \in [Processes -> Phases],
         UNCHANGED scenario \/ \E what \in Bounds : Spend(what)
  PROVE  WorkerInv'
  BY BoundsStep DEF WorkerInv

\* The heartbeat, the signals and the end of a process.
LEMMA ProcessInv ==
  ASSUME WorkerInv, NEW p \in Processes,
         EncodeProgress(p) \/ Heartbeat(p) \/ Sigterm(p) \/ HandlerStep(p) \/ Crash(p)
  PROVE  WorkerInv'
<1> DEFINE t == Loop(p)
           m == task[t].claim
<1>1. t \in Tasks /\ task[t] \in Fit /\ task \in [Tasks -> Fit] /\ handler \in [Processes -> Phases]
      /\ m \in ClaimIds \cup {None}
  BY DEF Tasks, WorkerInv, Fit, Local
<1>2. [task[t] EXCEPT !.relinquished = TRUE] \in Fit
  BY <1>1 DEF Fit, Local
<1>3. CASE EncodeProgress(p)
  <2>1. Job(t).movieId \in Movies
    BY <1>1, <1>3, Goes DEF EncodeProgress, At
  <2>2. Shared' /\ ClaimsKept
    BY <1>3, <2>1, RecordMoves DEF EncodeProgress, Redis, WorkerInv, Status
  <2>3. QED
    BY <1>1, <1>3, <2>2, Refit, OutsideStep DEF EncodeProgress
<1>4. CASE Heartbeat(p)
  <2>1. m \in ClaimIds
    BY <1>1, <1>4 DEF Heartbeat, Beating
  <2>2. UNCHANGED store /\ [QueueNext]_queueVars
    BY <1>4, <2>1 DEF Heartbeat, Redis, Nothing, QueueNext, OwnerCall
  <2>3. Shared' /\ ClaimsKept
    BY <2>2, QueueMoves DEF WorkerInv
  <2>4. UNCHANGED task \/ Put(t, [task[t] EXCEPT !.relinquished = TRUE])
    BY <1>4 DEF Heartbeat
  <2>5. task' \in [Tasks -> Fit']
    BY <1>1, <1>2, <2>3, <2>4, Refit DEF Put
  <2>6. QED
    BY <1>1, <1>4, <2>3, <2>5, OutsideStep DEF Heartbeat
<1>5. CASE Sigterm(p) \/ DrainEnds(p) \/ Settled(p)
  <2>1. UNCHANGED <<queueVars, task, store>>
    BY <1>5 DEF Sigterm, DrainEnds, Settled
  <2>2. Shared' /\ ClaimsKept
    BY <2>1, NothingMoves DEF Nothing, WorkerInv
  <2>3. handler' \in [Processes -> Phases]
    BY <1>1, <1>5 DEF Sigterm, DrainEnds, Settled, Phases
  <2>4. UNCHANGED scenario \/ \E what \in Bounds : Spend(what)
    BY <1>5 DEF Sigterm, DrainEnds, Settled, Bounds
  <2>5. task' \in [Tasks -> Fit']
    BY <1>1, <2>1, <2>2, Refit
  <2>6. QED
    BY <2>2, <2>3, <2>4, <2>5, OutsideStep
<1>6. CASE HandOff(p)
  <2>1. m \in ClaimIds
    BY <1>1, <1>6 DEF HandOff
  <2>2. UNCHANGED store /\ [QueueNext]_queueVars
    BY <1>6, <2>1 DEF HandOff, Redis, Nothing, QueueNext, OwnerCall
  <2>3. Shared' /\ ClaimsKept
    BY <2>2, QueueMoves DEF WorkerInv
  <2>4. task' \in [Tasks -> Fit']
    BY <1>1, <1>2, <1>6, <2>3, Refit DEF HandOff, Put
  <2>5. handler' \in [Processes -> Phases] /\ (UNCHANGED scenario \/ \E what \in Bounds : Spend(what))
    BY <1>1, <1>6 DEF HandOff, Phases, Bounds
  <2>6. QED
    BY <2>3, <2>4, <2>5, OutsideStep
<1>7. CASE Exit(p) \/ Crash(p)
  <2>1. Replaced(p) /\ (UNCHANGED scenario \/ \E what \in Bounds : Spend(what))
    BY <1>7 DEF Exit, Crash, Bounds
  <2>2. Shared' /\ ClaimsKept
    BY <2>1, NothingMoves DEF Replaced, WorkerInv
  <2>3. task' \in [Tasks -> Fit']
    BY <1>1, <2>1, <2>2, Refit, RestingFits DEF Replaced
  <2>4. handler' \in [Processes -> Phases]
    BY <1>1, <2>1 DEF Replaced, Phases
  <2>5. QED
    BY <2>1, <2>2, <2>3, <2>4, OutsideStep
<1>8. QED
  BY <1>3, <1>4, <1>5, <1>6, <1>7 DEF HandlerStep

\* The leases, the timers, the deletion of a movie.
LEMMA OutsideInv ==
  ASSUME WorkerInv,
         \/ \E m \in ClaimIds : LeaseEnds(m) \/ Stall(m)
         \/ \E ready \in SUBSET retry : RetriesComeDue(ready)
         \/ \E v \in Movies : ProgressTtl(v) \/ DeleteMovie(v)
         \/ \E object \in erasing : Erase(object)
  PROVE  WorkerInv'
<1>1. UNCHANGED <<task, handler>> /\ (UNCHANGED scenario \/ \E what \in Bounds : Spend(what))
  BY DEF LeaseEnds, Stall, RetriesComeDue, ProgressTtl, DeleteMovie, Erase, Bounds
<1>2. Shared /\ StoreTypeOK
  BY DEF WorkerInv, Shared
<1>3. Shared' /\ ClaimsKept
  <2>1. ASSUME NEW m \in ClaimIds, LeaseEnds(m) \/ Stall(m) PROVE Shared' /\ ClaimsKept
    BY <1>2, <2>1, QueueMoves DEF LeaseEnds, Stall, Redis, QueueNext
  <2>2. ASSUME NEW ready \in SUBSET retry, RetriesComeDue(ready) PROVE Shared' /\ ClaimsKept
    BY <1>2, <2>2, QueueMoves DEF RetriesComeDue, Redis, QueueNext
  <2>3. ASSUME NEW v \in Movies, ProgressTtl(v) PROVE Shared' /\ ClaimsKept
    BY <1>2, <2>3, RecordMoves DEF ProgressTtl, Redis
  <2>4. ASSUME NEW v \in Movies, DeleteMovie(v) PROVE Shared' /\ ClaimsKept
    <3>1. StoreTypeOK'
      BY <1>2, <2>4 DEF DeleteMovie, StoreTypeOK
    <3>2. QED
      BY <1>2, <2>4, <3>1, StoreMoves DEF DeleteMovie
  <2>5. ASSUME NEW object \in erasing, Erase(object) PROVE Shared' /\ ClaimsKept
    <3>1. StoreTypeOK'
      BY <1>2, <2>5 DEF Erase, StoreTypeOK
    <3>2. QED
      BY <1>2, <2>5, <3>1, StoreMoves DEF Erase
  <2>6. QED
    BY <2>1, <2>2, <2>3, <2>4, <2>5
<1>4. task' \in [Tasks -> Fit']
  BY <1>1, <1>3, Refit DEF WorkerInv
<1>5. QED
  BY <1>1, <1>3, <1>4, OutsideStep DEF WorkerInv

-----------------------------------------------------------------------------
\* The lowest and the highest of a set of numbers.
LEMMA Lowest ==
  ASSUME NEW T \in SUBSET Nat, T # {}
  PROVE  \E x \in T : \A y \in T : x <= y
<1> DEFINE R == {pair \in Nat \X Nat : pair[1] < pair[2]}
<1>1. IsWellFoundedOn(R, Nat)
  BY NatLessThanWellFounded DEF OpToRel
<1>2. \A a, b \in Nat : a < b => <<a, b>> \in R
  OBVIOUS
<1> HIDE DEF R
<1>3. PICK x \in T : \A y \in T : ~(<<y, x>> \in R)
  BY <1>1, WFMin
<1>4. ASSUME NEW y \in T PROVE x <= y
  <2>1. x \in Nat /\ y \in Nat
    OBVIOUS
  <2>2. ~(y < x)
    BY <1>2, <1>3, <2>1, Zenon
  <2>3. QED
    BY <2>1, <2>2
<1>5. QED
  BY <1>4

LEMMA Highest ==
  ASSUME NEW n \in Nat, NEW T \in SUBSET (1..n), T # {}
  PROVE  \E x \in T : \A y \in T : y <= x
<1>1. {n - x : x \in T} \in SUBSET Nat /\ {n - x : x \in T} # {}
  <2>1. \A x \in T : n - x \in Nat
    OBVIOUS
  <2>2. QED
    BY <2>1
<1>2. PICK d \in {n - x : x \in T} : \A e \in {n - x : x \in T} : d <= e
  BY <1>1, Lowest
<1>3. PICK x \in T : d = n - x
  BY <1>2
<1>4. \A y \in T : n - x <= n - y
  BY <1>2, <1>3
<1>5. QED
  BY <1>4

\* The key a movie's variant starts with is that of a queued job of the movie.
LEMMA NewestKeyFound ==
  ASSUME NEW s \in Scenarios, NEW v \in Movies
  PROVE  \E i \in DOMAIN s.backlog : s.backlog[i].movieId = v /\ s.backlog[i].s3Key = NewestKey(s.backlog, v)
<1> DEFINE mine == {i \in DOMAIN s.backlog : s.backlog[i].movieId = v}
<1>1. s.backlog \in Seq(Jobs)
  BY WorkerAssumption DEF Scenario
<1>2. DOMAIN s.backlog = 1..Len(s.backlog) /\ Len(s.backlog) \in Nat
  BY <1>1, LenProperties
<1>3. mine # {}
  BY WorkerAssumption
<1>4. \E i \in mine : \A k \in mine : k <= i
  BY <1>2, <1>3, Highest
<1>5. (CHOOSE i \in mine : \A k \in mine : k <= i) \in mine
  BY <1>4
<1>6. QED
  BY <1>5 DEF NewestKey

LEMMA WorkerInitInv == WorkerInit => WorkerInv
<1> SUFFICES ASSUME WorkerInit PROVE WorkerInv
  OBVIOUS
<1> DEFINE log == scenario.backlog
<1>1. scenario \in Scenarios /\ scenario \in Scenario /\ log \in Seq(Jobs)
      /\ DOMAIN log = 1..Len(log) /\ Len(log) \in Nat /\ \A i \in DOMAIN log : log[i] \in Jobs
  <2>1. scenario \in Scenario
    BY WorkerAssumption DEF WorkerInit
  <2>2. log \in Seq(Jobs)
    BY <2>1 DEF Scenario
  <2>3. QED
    BY <2>1, <2>2, LenProperties, ElementOfSeq DEF WorkerInit
<1>2. QueueInv
  <2>1. main \in Seq(Entry) /\ DOMAIN main = DOMAIN log
        /\ \A i \in DOMAIN main : main[i].job = log[i] /\ main[i].retryCount = 0
    <3>1. main = [i \in 1..Len(log) |-> [job |-> log[i], retryCount |-> 0]]
      BY <1>1 DEF WorkerInit
    <3>2. \A i \in 1..Len(log) : [job |-> log[i], retryCount |-> 0] \in Entry
      BY <1>1, MaxRetryAssumption DEF Entry
    <3>3. QED
      BY <1>1, <3>1, <3>2
  <2>2. QueueTypeOK
    BY <1>1, <2>1, MaxRetryAssumption DEF WorkerInit, QueueTypeOK, Status
  <2>3. Known
    BY <1>1, <2>1, FS_EmptySet DEF WorkerInit, Known, Present, Issued
  <2>4. OnePlace
    <3>1. \A i, k \in DOMAIN log : log[i] = log[k] => i = k
      BY <1>1, WorkerAssumption
    <3>2. QED
      BY <1>1, <2>1, <3>1 DEF WorkerInit, OnePlace, AtMostOnce, Exclusive, Queued, Waiting, Held, HeldBy, Present
  <2>5. NothingLost
    BY <1>1, <2>1 DEF WorkerInit, NothingLost, Queued
  <2>6. BudgetExact
    BY <1>1, <2>1 DEF WorkerInit, BudgetExact, HeldBy, Present
  <2>7. QED
    BY <2>2, <2>3, <2>4, <2>5, <2>6 DEF QueueInv
<1>3. StoreTypeOK
  <2>1. \A v \in Movies : NewestKey(log, v) \in Keys
    BY <1>1, NewestKeyFound, JobsAssumption
  <2>2. variant \in [Movies -> [status : {"PROCESSING", "READY", "FAILED", "DELETED"}, s3Key : Keys]]
    BY <2>1 DEF WorkerInit
  <2>3. \A j \in sent : j.s3Key \in Keys
    BY <1>1, JobsAssumption DEF WorkerInit
  <2>4. QED
    BY <2>2, <2>3 DEF WorkerInit, StoreTypeOK
<1>4. task \in [Tasks -> Fit] /\ handler \in [Processes -> Phases]
  BY RestingFits DEF WorkerInit, Phases
<1>5. BoundsTypeOK
  <2>1. scenario.left = scenario.bounds /\ scenario.bounds \in [Bounds -> Nat]
    BY <1>1, WorkerAssumption DEF Scenario
  <2>2. QED
    BY <1>1, <2>1 DEF BoundsTypeOK
<1>6. QED
  BY <1>2, <1>3, <1>4, <1>5 DEF WorkerInv, Shared

LEMMA WorkerNextInv == WorkerInv /\ [WorkerNext]_workerVars => WorkerInv'
<1> SUFFICES ASSUME WorkerInv, [WorkerNext]_workerVars PROVE WorkerInv'
  OBVIOUS
<1>1. ASSUME NEW p \in Processes, LoopStep(p) PROVE WorkerInv'
  BY <1>1, ClaimStepInv, PollInv, BodyInv, CommitInv, SettleInv DEF LoopStep
<1>2. CASE UNCHANGED workerVars
  <2>1. Shared' /\ ClaimsKept
    BY <1>2, NothingMoves DEF workerVars, Nothing, WorkerInv
  <2>2. task' \in [Tasks -> Fit']
    BY <1>2, <2>1, Refit DEF workerVars, WorkerInv
  <2>3. QED
    BY <1>2, <2>1, <2>2, OutsideStep DEF workerVars, WorkerInv
<1>3. QED
  BY <1>1, <1>2, ProcessInv, ReaperInv, FinalInv, OutsideInv DEF WorkerNext

-----------------------------------------------------------------------------
LEMMA WorkerInvariance == WorkerSpec => []WorkerInv
  BY WorkerInitInv, WorkerNextInv, PTL DEF WorkerSpec

\* Every field of a worker's bookkeeping, of the rows and of the buckets keeps
\* its type, and the queue's keys do under the calls the workers make.
THEOREM WorkerTypeCorrect == WorkerSpec => []WorkerTypeOK
<1>1. WorkerInv => WorkerTypeOK
  <2> SUFFICES ASSUME WorkerInv PROVE WorkerTypeOK
    OBVIOUS
  <2>1. task \in [Tasks -> Local]
    BY DEF WorkerInv, Fit
  <2>2. QED
    BY <2>1 DEF WorkerInv, Shared, QueueInv, StoreTypeOK, BoundsTypeOK, Phases, WorkerTypeOK
<1>2. QED
  BY WorkerInvariance, <1>1, PTL

\* What the queue promises its clients holds with the workers, the reapers and
\* the shutdown handlers for clients: a job is in one place, none is lost, and
\* none gains or loses a retry.
THEOREM WorkersKeepQueue == WorkerSpec => [](OnePlace /\ NothingLost /\ BudgetExact)
<1>1. WorkerInv => OnePlace /\ NothingLost /\ BudgetExact
  BY DEF WorkerInv, Shared, QueueInv
<1>2. QED
  BY WorkerInvariance, <1>1, PTL

-----------------------------------------------------------------------------
(***************************************************************************)
(* The files.  With one upload for a movie, and a backend that takes the   *)
(* callbacks, what a worker knows of its job is true of the movie: the     *)
(* keys are the same.                                                      *)
(***************************************************************************)
UploadedOnce ==
  /\ ~scenario.mayReject
  /\ \A i, k \in DOMAIN scenario.backlog :
       scenario.backlog[i].movieId = scenario.backlog[k].movieId
       <=> scenario.backlog[i].s3Key = scenario.backlog[k].s3Key

\* A movie's output is in the production bucket, unless the movie is gone.
Delivered(v) == variant[v].s3Key \in prod \/ variant[v].status = "DELETED"
\* A record says that a movie's source is not needed again, until it is settled.
Recorded(v) == <<v, variant[v].s3Key>> \in completion \/ variant[v].status # "PROCESSING"

\* What the buckets, the rows and the queue's records have to do with each other.
FilesAgree ==
  /\ \A v, w \in Movies : variant[v].s3Key = variant[w].s3Key => v = w
  /\ \A j \in sent : variant[j.movieId].s3Key = j.s3Key
  /\ \A v \in Movies : <<v, variant[v].s3Key>> \in completion => Delivered(v)
  /\ \A v \in Movies : progress[v] = "completed" => Delivered(v)
  /\ \A o \in erasing : \E v \in Movies : variant[v].status = "DELETED" /\ o[2] = variant[v].s3Key
  /\ ReadyHasOutput
  /\ SourceKept

\* What a task knows of its movie v from where it stands.
Knows(l, v) ==
  /\ l.at \in {"toDelete", "delete", "recommit"} \/ l.mode = "again" => l.committed
  /\ l.committed => Delivered(v) /\ Recorded(v)
  /\ l.at \in {"commit", "reconcile", "succeed", "succeedCallback"} => Delivered(v)
  /\ l.at = "discard" => variant[v].status = "DELETED"
  /\ l.at # "unwanted"
  /\ l.at = "finish" \/ l.result \in {"completed", "failed"} => variant[v].status # "PROCESSING"

\* A task between two jobs remembers nothing of the last; a reaper commits nothing.
Placed(l) ==
  /\ l.at \in {"idle", "poll", "claimed"} => l.mode = "none" /\ ~l.committed /\ l.result = "error"
  /\ l.at \in {"reap", "guess", "release", "requeue"} => l.mode = "reap"
  /\ l.mode = "reap" =>
       /\ l.at \in {"reap", "guess", "release", "requeue", "finish"} \cup TerminalWrites
       /\ ~l.committed /\ l.result = "error"

Aware ==
  {l \in Fit : Placed(l) /\ (l.at \notin {"idle", "poll", "reap"} => Knows(l, JobOf(l.claim).movieId))}

FilesInv == UploadedOnce => FilesAgree /\ task \in [Tasks -> Aware]

-----------------------------------------------------------------------------
Informed == WorkerInv /\ UploadedOnce /\ FilesAgree /\ task \in [Tasks -> Aware]

\* What a task knows stays true.
FactsKept ==
  \A v \in Movies : /\ Delivered(v) => Delivered(v)'
                    /\ Recorded(v) => Recorded(v)'
                    /\ variant[v].status = "DELETED" => variant'[v].status = "DELETED"
                    /\ variant[v].status # "PROCESSING" => variant'[v].status # "PROCESSING"

LEMMA IssuedJob ==
  ASSUME WorkerInv, NEW m \in ClaimIds, Issued(m)
  PROVE  /\ JobOf(m) \in Jobs /\ JobOf(m) \in sent
         /\ JobOf(m).movieId \in Movies /\ JobOf(m).s3Key \in Keys
<1>1. JobOf(m) \in Jobs /\ JobOf(m) \in sent
  BY DEF JobOf, Issued, WorkerInv, Shared, QueueInv, QueueTypeOK, Known, Entry
<1>2. QED
  BY <1>1, JobsAssumption

LEMMA StillAware ==
  ASSUME WorkerInv, ClaimsKept, FactsKept
  PROVE  Aware \subseteq Aware'
<1>1. SUFFICES ASSUME NEW l \in Aware PROVE l \in Aware'
  OBVIOUS
<1>2. l \in Fit /\ l \in Fit' /\ Placed(l) /\ Placed(l)'
  BY Refit DEF Aware, Placed
<1>3. CASE l.at \in {"idle", "poll", "reap"}
  BY <1>2, <1>3 DEF Aware
<1>4. CASE l.at \notin {"idle", "poll", "reap"}
  <2>1. l.claim \in ClaimIds /\ Issued(l.claim) /\ Knows(l, JobOf(l.claim).movieId)
    BY <1>1, <1>4 DEF Aware, Fit
  <2>2. JobOf(l.claim)' = JobOf(l.claim)
    BY <2>1 DEF ClaimsKept, JobOf
  <2>3. PICK v \in Movies : v = JobOf(l.claim).movieId
    BY <2>1, IssuedJob
  <2>4. Knows(l, v)'
    BY <2>1, <2>3 DEF Knows, FactsKept
  <2>5. Knows(l, JobOf(l.claim).movieId)'
    BY <2>2, <2>3, <2>4
  <2>6. QED
    BY <1>2, <2>5 DEF Aware
<1>5. QED
  BY <1>3, <1>4

\* The records of the queue move, the files do not.
LEMMA RecordsAgree ==
  ASSUME FilesAgree, UNCHANGED <<store, sent>>,
         \A v \in Movies : progress'[v] = "completed" => progress[v] = "completed" \/ Delivered(v),
         \A v \in Movies : <<v, variant[v].s3Key>> \in completion'
                           => <<v, variant[v].s3Key>> \in completion \/ Delivered(v),
         \A v \in Movies : <<v, variant[v].s3Key>> \in completion
                           => <<v, variant[v].s3Key>> \in completion' \/ variant[v].status # "PROCESSING"
  PROVE  FilesAgree' /\ FactsKept
<1>1. \A v \in Movies : Delivered(v)' <=> Delivered(v)
  BY DEF Delivered, store
<1>2. FilesAgree'
  BY <1>1 DEF FilesAgree, store, ReadyHasOutput, SourceKept
<1>3. FactsKept
  BY <1>1 DEF FactsKept, Recorded, store
<1>4. QED
  BY <1>2, <1>3

\* The files move, the records of the queue do not.
LEMMA StoreAgrees ==
  ASSUME FilesAgree, UNCHANGED <<sent, progress, completion>>,
         \A v \in Movies :
           /\ variant'[v].s3Key = variant[v].s3Key
           /\ Delivered(v) => Delivered(v)'
           /\ variant[v].status = "DELETED" => variant'[v].status = "DELETED"
           /\ variant[v].status # "PROCESSING" => variant'[v].status # "PROCESSING"
           /\ variant'[v].status = "READY" => Delivered(v)'
           /\ variant'[v].status = "PROCESSING" /\ variant[v].s3Key \in tmp => variant[v].s3Key \in tmp' \/ Recorded(v),
         \A o \in erasing' : \E v \in Movies : variant'[v].status = "DELETED" /\ o[2] = variant[v].s3Key,
         \A j \in sent : j.movieId \in Movies
  PROVE  FilesAgree' /\ FactsKept
<1>1. FactsKept
  BY DEF FactsKept, Recorded
<1>2. /\ \A v, w \in Movies : variant'[v].s3Key = variant'[w].s3Key => v = w
      /\ \A j \in sent' : variant'[j.movieId].s3Key = j.s3Key
      /\ \A v \in Movies : <<v, variant'[v].s3Key>> \in completion' => Delivered(v)'
      /\ \A v \in Movies : progress'[v] = "completed" => Delivered(v)'
      /\ \A o \in erasing' : \E v \in Movies : variant'[v].status = "DELETED" /\ o[2] = variant'[v].s3Key
  BY DEF FilesAgree
<1>3. ReadyHasOutput'
  BY DEF ReadyHasOutput, Delivered
<1>4. SourceKept'
  BY DEF FilesAgree, SourceKept, Recorded
<1>5. QED
  BY <1>1, <1>2, <1>3, <1>4 DEF FilesAgree

\* A step of one task.
LEMMA InformedStep ==
  ASSUME Informed, WorkerInv', ClaimsKept, FilesAgree', FactsKept,
         NEW t \in Tasks, \E l \in Aware' : Put(t, l),
         UNCHANGED scenario \/ \E what \in Bounds : Spend(what)
  PROVE  Informed'
<1>1. UploadedOnce'
  <2>1. UNCHANGED <<scenario.mayReject, scenario.backlog>>
    BY DEF Spend, Informed, WorkerInv, BoundsTypeOK, Scenario
  <2>2. QED
    BY <2>1 DEF Informed, UploadedOnce
<1>2. task \in [Tasks -> Aware']
  BY StillAware DEF Informed
<1>3. task' \in [Tasks -> Aware']
  BY <1>2 DEF Put
<1>4. QED
  BY <1>1, <1>3 DEF Informed

-----------------------------------------------------------------------------
\* The labels at which a task need not know anything of its movie.
Plain == {"begin", "inspect", "toDownload", "download", "toEncode", "encode", "toUpload", "upload",
          "dead", "failProgress", "failCallback", "retry", "defer", "postponed", "handBack",
          "handedBack", "resolve"}

\* A task that moves to such a label, or returns without a verdict, knows what it knew.
LEMMA PlainGoes ==
  ASSUME Informed, NEW t \in Tasks, task[t].at \notin {"idle", "poll", "reap"}
  PROVE  /\ task[t] \in Aware /\ Placed(task[t]) /\ Knows(task[t], Job(t).movieId)
         /\ \A label \in Plain, mode \in Modes \ {"none", "reap", "again"} : GoIn(t, label, mode) \in Aware
         /\ \A label \in Plain : task[t].mode \notin {"none", "reap"} => Go(t, label) \in Aware
         /\ \A label \in {"dead", "failProgress", "failCallback"} :
              task[t].mode # "none" => Go(t, label) \in Aware
         /\ \A result \in Results \ {"completed", "failed"} :
              task[t].mode \notin {"none", "reap"} => Return(t, result) \in Aware
         /\ \A l \in Aware : [l EXCEPT !.relinquished = TRUE] \in Aware
<1>1. task[t] \in Aware /\ Placed(task[t]) /\ Knows(task[t], Job(t).movieId)
      /\ task[t] \in Local /\ WorkerInv
  BY DEF Informed, Aware, Fit, Job
<1>2. Plain \subseteq Labels /\ {"dead", "failProgress", "failCallback"} \subseteq Plain
  BY DEF Plain, Labels
<1>3. ASSUME NEW label \in Plain, NEW mode \in Modes \ {"none", "reap", "again"}
      PROVE  GoIn(t, label, mode) \in Aware
  <2> DEFINE l == GoIn(t, label, mode)
  <2>1. l \in Fit
    BY <1>1, <1>2, Goes
  <2>2. l.at = label /\ l.mode = mode /\ l.claim = task[t].claim /\ l.committed = task[t].committed
        /\ l.result = task[t].result
    BY <1>1 DEF GoIn, Local
  <2> HIDE DEF l
  <2>3. Placed(l)
    BY <2>2 DEF Placed, Plain
  <2>4. Knows(l, Job(t).movieId)
    BY <1>1, <2>2 DEF Knows, Plain
  <2>5. l \in Aware
    BY <2>1, <2>2, <2>3, <2>4 DEF Aware, Job
  <2>6. QED
    BY <2>5 DEF l
<1>4. ASSUME NEW label \in Plain, task[t].mode # "none",
             task[t].mode # "reap" \/ label \in {"dead", "failProgress", "failCallback"}
      PROVE  Go(t, label) \in Aware
  <2> DEFINE l == Go(t, label)
  <2>1. l \in Fit
    BY <1>1, <1>2, <1>4, Goes
  <2>2. l.at = label /\ l.mode = task[t].mode /\ l.claim = task[t].claim /\ l.committed = task[t].committed
        /\ l.result = task[t].result
    BY <1>1 DEF Go, Local
  <2> HIDE DEF l
  <2>3. Placed(l)
    BY <1>1, <1>4, <2>2 DEF Placed, Plain, TerminalWrites
  <2>4. Knows(l, Job(t).movieId)
    BY <1>1, <2>2 DEF Knows, Plain
  <2>5. l \in Aware
    BY <2>1, <2>2, <2>3, <2>4 DEF Aware, Job
  <2>6. QED
    BY <2>5 DEF l
<1>5. ASSUME NEW result \in Results \ {"completed", "failed"}, task[t].mode \notin {"none", "reap"}
      PROVE  Return(t, result) \in Aware
  <2> DEFINE l == Return(t, result)
  <2>1. l \in Fit
    BY <1>1, <1>5, Goes
  <2>2. l.at = "resolve" /\ l.mode = task[t].mode /\ l.claim = task[t].claim /\ l.committed = task[t].committed
        /\ l.result = result
    BY <1>1 DEF Return, Local
  <2> HIDE DEF l
  <2>3. Placed(l)
    BY <1>5, <2>2 DEF Placed
  <2>4. Knows(l, Job(t).movieId)
    BY <1>1, <2>2 DEF Knows
  <2>5. l \in Aware
    BY <2>1, <2>2, <2>3, <2>4 DEF Aware, Job
  <2>6. QED
    BY <2>5 DEF l
<1>6. ASSUME NEW l \in Aware PROVE [l EXCEPT !.relinquished = TRUE] \in Aware
  <2> DEFINE k == [l EXCEPT !.relinquished = TRUE]
  <2>1. l \in Fit /\ l \in Local
    BY <1>6 DEF Aware, Fit
  <2>2. k \in Fit /\ k.at = l.at /\ k.mode = l.mode /\ k.claim = l.claim /\ k.committed = l.committed
        /\ k.result = l.result
    BY <2>1 DEF Fit, Local
  <2> HIDE DEF k
  <2>3. k \in Aware
    BY <1>6, <2>2 DEF Aware, Placed, Knows
  <2>4. QED
    BY <2>3 DEF k
<1>7. QED
  BY <1>1, <1>2, <1>3, <1>4, <1>5, <1>6

\* So does a task in a catch block.
LEMMA PlainCatches ==
  ASSUME Informed, NEW t \in Tasks, task[t].at \notin {"idle", "poll", "claimed", "reap"}
  PROVE  /\ task[t].mode = "reap" => NextClaim(t) \in Aware
         /\ \A mode \in Modes \ {"none", "reap", "again"}, b \in BOOLEAN :
              RetryOrDeadLetter(t, mode, b) \in Aware /\ HandBack(t, mode) \in Aware
         /\ \A kind : task[t].mode # "reap" => Caught(t, kind) \in Aware
         /\ task[t].mode # "reap" => Thrown(t) \subseteq Aware
         /\ Errors(t) \subseteq Aware
<1>1. /\ task[t].mode \in Modes \ {"none"} /\ WorkerInv /\ task[t] \in Local
      /\ task[t].relinquished \in BOOLEAN /\ task[t].committed \in BOOLEAN
  BY Catches DEF Informed, WorkerInv, Fit, Local
<1>2. /\ Placed(task[t]) /\ Knows(task[t], Job(t).movieId)
      /\ \A label \in Plain, mode \in Modes \ {"none", "reap", "again"} : GoIn(t, label, mode) \in Aware
      /\ \A result \in Results \ {"completed", "failed"} : task[t].mode # "reap" => Return(t, result) \in Aware
      /\ \A l \in Aware : [l EXCEPT !.relinquished = TRUE] \in Aware
  BY <1>1, PlainGoes
<1>3. {"dead", "retry", "defer", "handBack"} \subseteq Plain
      /\ {"last", "catch", "loop", "body"} \subseteq Modes \ {"none", "reap", "again"}
      /\ {"relinquished", "error"} \subseteq Results \ {"completed", "failed"}
  BY DEF Plain, Modes, Results
<1>4. ASSUME task[t].mode = "reap" PROVE NextClaim(t) \in Aware
  <2>1. NextClaim(t) \in Fit
    BY <1>1, Catches
  <2>2. NextClaim(t).at = "reap" /\ NextClaim(t).mode = task[t].mode
        /\ NextClaim(t).committed = task[t].committed /\ NextClaim(t).result = task[t].result
    BY <1>1 DEF NextClaim, Local
  <2>3. QED
    BY <1>2, <1>4, <2>1, <2>2 DEF Aware, Placed
<1>5. ASSUME NEW mode \in Modes \ {"none", "reap", "again"}, NEW b
      PROVE  RetryOrDeadLetter(t, mode, b) \in Aware /\ HandBack(t, mode) \in Aware
  BY <1>2, <1>3, <1>5 DEF RetryOrDeadLetter, HandBack
<1>6. ASSUME task[t].committed PROVE GoIn(t, "succeed", "again") \in Aware
  <2> DEFINE l == GoIn(t, "succeed", "again")
  <2>1. l \in Fit
    BY <1>1, Goes DEF Labels, Modes
  <2>2. l.at = "succeed" /\ l.mode = "again" /\ l.claim = task[t].claim /\ l.committed = task[t].committed
        /\ l.result = task[t].result
    BY <1>1 DEF GoIn, Local
  <2> HIDE DEF l
  <2>3. Placed(l) /\ Knows(l, Job(t).movieId)
    BY <1>2, <1>6, <2>2 DEF Placed, Knows
  <2>4. l \in Aware
    BY <2>1, <2>2, <2>3 DEF Aware, Job
  <2>5. QED
    BY <2>4 DEF l
<1>7. ASSUME NEW kind, task[t].mode # "reap" PROVE Caught(t, kind) \in Aware
  BY <1>1, <1>2, <1>3, <1>5, <1>6, <1>7 DEF Caught
<1>8. task[t].mode # "reap" => Thrown(t) \subseteq Aware
  BY <1>7 DEF Thrown
<1>9. ASSUME task[t].mode = "again" PROVE Go(t, "recommit") \in Aware
  <2> DEFINE l == Go(t, "recommit")
  <2>1. l \in Fit
    BY <1>1, Goes DEF Labels
  <2>2. l.at = "recommit" /\ l.mode = "again" /\ l.claim = task[t].claim /\ l.committed = task[t].committed
        /\ l.result = task[t].result
    BY <1>1, <1>9 DEF Go, Local
  <2> HIDE DEF l
  <2>3. Placed(l) /\ Knows(l, Job(t).movieId)
    BY <1>2, <1>9, <2>2 DEF Placed, Knows
  <2>4. l \in Aware
    BY <2>1, <2>2, <2>3 DEF Aware, Job
  <2>5. QED
    BY <2>4 DEF l
<1>10. Errors(t) \subseteq Aware
  BY <1>1, <1>2, <1>3, <1>4, <1>8, <1>9 DEF Errors, Modes
<1>11. QED
  BY <1>4, <1>5, <1>7, <1>8, <1>10

\* A task that moves on with its job and knows what its new place asks for.
LEMMA AwareNext ==
  ASSUME WorkerInv, ClaimsKept, NEW t \in Tasks, task[t].at \notin {"idle", "poll", "reap"},
         NEW l \in Fit, l.claim = task[t].claim, Placed(l), NEW v \in Movies, v = Job(t).movieId,
         Knows(l, v)'
  PROVE  l \in Aware'
<1>1. l.claim \in ClaimIds /\ Issued(l.claim) /\ JobOf(l.claim).movieId = v
  BY Goes DEF Job
<1>2. (JobOf(l.claim).movieId)' = v
  BY <1>1 DEF JobOf, ClaimsKept
<1>3. l \in Fit' /\ Placed(l)'
  BY Refit DEF Placed
<1>4. Knows(l, JobOf(l.claim).movieId)'
  BY <1>2
<1>5. QED
  BY <1>3, <1>4 DEF Aware

LEMMA QueueAware ==
  ASSUME Informed, WorkerInv', NEW t \in Tasks, NEW ls \in SUBSET Aware, \E l \in ls : Put(t, l),
         UNCHANGED scenario \/ \E what \in Bounds : Spend(what),
         [QueueNext]_queueVars, UNCHANGED <<store, sent, completion, progress>>
  PROVE  Informed'
<1>1. ClaimsKept
  BY QueueMoves DEF Informed, WorkerInv
<1>2. FilesAgree' /\ FactsKept
  BY RecordsAgree DEF Informed
<1>3. QED
  BY <1>1, <1>2, StillAware, InformedStep DEF Informed

LEMMA QuietAware ==
  ASSUME Informed, WorkerInv', NEW t \in Tasks, NEW l \in Aware, Put(t, l),
         UNCHANGED <<queueVars, handler, store, scenario>>
  PROVE  Informed'
<1>1. {l} \in SUBSET Aware /\ \E k \in {l} : Put(t, k)
  OBVIOUS
<1>2. UNCHANGED <<sent, completion, progress>>
  BY DEF queueVars, redis, history
<1>3. QED
  BY <1>1, <1>2, QueueAware

LEMMA ReadAware ==
  ASSUME Informed, WorkerInv', NEW t \in Tasks, NEW next \in Aware, NEW errs \in SUBSET Aware,
         Read(t, next, errs)
  PROVE  Informed'
<1>1. \E l \in {next} \cup errs : Put(t, l)
  BY DEF Read, Call
<1>2. UNCHANGED scenario \/ \E what \in Bounds : Spend(what)
  BY DEF Read, Call, Bounds
<1>3. UNCHANGED queueVars /\ UNCHANGED store
  BY DEF Read, Call, Nothing
<1>4. UNCHANGED <<sent, completion, progress>>
  BY <1>3 DEF queueVars, redis, history
<1>5. {next} \cup errs \in SUBSET Aware
  OBVIOUS
<1>6. QED
  BY <1>1, <1>2, <1>3, <1>4, <1>5, QueueAware

\* "completed" is published only by a task that knows the output is there.
LEMMA ReportAware ==
  ASSUME Informed, WorkerInv', NEW t \in Tasks, task[t].at \notin {"idle", "poll", "reap"},
         NEW next \in Aware, NEW errs \in SUBSET Aware, NEW status \in Status,
         status = "completed" => Delivered(Job(t).movieId),
         Report(t, status, next, errs)
  PROVE  Informed'
<1>1. Job(t).movieId \in Movies
  BY Goes DEF Informed
<1>2. CASE Nothing
  <2>1. Read(t, next, errs)
    BY <1>2 DEF Report, Call, Read
  <2>2. QED
    BY <2>1, ReadAware
<1>3. CASE UNCHANGED store /\ SetEncodeProgress(Job(t).movieId, status)
  <2>1. ClaimsKept
    BY <1>1, <1>3, RecordMoves DEF Informed, WorkerInv
  <2>2. /\ UNCHANGED <<store, sent, completion>>
        /\ \A v \in Movies : progress'[v] = "completed" => progress[v] = "completed" \/ Delivered(v)
    BY <1>3 DEF SetEncodeProgress, history, Informed, WorkerInv, Shared, QueueInv, QueueTypeOK
  <2>3. FilesAgree' /\ FactsKept
    BY <2>2, RecordsAgree DEF Informed
  <2>4. \E l \in Aware' : Put(t, l)
    BY <2>1, <2>3, StillAware DEF Report, Call, Informed
  <2>5. UNCHANGED scenario \/ \E what \in Bounds : Spend(what)
    BY DEF Report, Call, Bounds
  <2>6. QED
    BY <2>1, <2>3, <2>4, <2>5, InformedStep
<1>4. QED
  BY <1>2, <1>3 DEF Report, Call, Redis

LEMMA RestingAware == Resting \in Aware
  BY RestingFits DEF Resting, Aware, Placed

\* The poll loop up to the try block of processJob: a completion record found
\* there says the output is there.
LEMMA PollKnows ==
  ASSUME Informed, WorkerInv', NEW p \in Processes,
         BeginPoll(p) \/ Claim(p) \/ FindNothing(p) \/ CheckCompletion(p) \/ Begin(p)
  PROVE  Informed'
<1> DEFINE t == Loop(p)
<1>1. t \in Tasks /\ task[t] \in Aware /\ task[t] \in Fit /\ task[t] \in Local /\ WorkerInv /\ FilesAgree
  BY DEF Tasks, Informed, Aware, Fit
<1>2. CASE BeginPoll(p)
  <2>1. Go(t, "poll") \in Fit
    BY <1>1, <1>2 DEF Go, BeginPoll, At, Fit, Local, Labels
  <2>2. Go(t, "poll") \in Aware
    BY <1>1, <1>2, <2>1 DEF Go, BeginPoll, At, Aware, Placed, Local
  <2>3. QED
    BY <1>1, <1>2, <2>2, QuietAware DEF BeginPoll
<1>3. CASE FindNothing(p)
  BY <1>1, <1>3, QuietAware, RestingAware DEF FindNothing
<1>4. CASE Claim(p)
  <2>1. PICK m \in ClaimIds :
          Call(t, Redis(ClaimNextEncodeJob(m)), Nothing,
               IF Head(main).job \in Malformed THEN Resting
               ELSE [Resting EXCEPT !.at = "claimed", !.claim = m], {Resting})
    BY <1>4 DEF Claim
  <2>2. (ClaimNextEncodeJob(m) /\ UNCHANGED store) \/ Nothing
    BY <2>1 DEF Call, Redis
  <2>3. [QueueNext]_queueVars /\ UNCHANGED <<store, sent, completion, progress>>
    BY <2>2 DEF Nothing, QueueNext, ClaimNextEncodeJob, queueVars, redis, history
  <2>4. ClaimsKept
    BY <1>1, <2>3, QueueMoves DEF WorkerInv
  <2>5. FilesAgree' /\ FactsKept
    BY <1>1, <2>3, RecordsAgree
  <2>6. PICK l : Put(t, l) /\ (l = Resting \/ l = [Resting EXCEPT !.at = "claimed", !.claim = m])
    BY <2>1 DEF Call
  <2>7. l \in Fit'
    <3>1. task'[t] = l
      BY <1>1, <2>6 DEF Put, WorkerInv
    <3>2. QED
      BY <1>1, <3>1 DEF WorkerInv
  <2>8. ~l.committed /\ l.mode = "none" /\ l.result = "error" /\ l.at \in {"idle", "claimed"}
    <3>1. CASE l = Resting
      BY <3>1 DEF Resting
    <3>2. CASE l = [Resting EXCEPT !.at = "claimed", !.claim = m]
      BY <3>2 DEF Resting
    <3>3. QED
      BY <2>6, <3>1, <3>2
  <2>9. l \in Aware'
    BY <2>7, <2>8 DEF Aware, Knows, Placed
  <2>10. UNCHANGED scenario \/ \E what \in Bounds : Spend(what)
    BY <2>1 DEF Call, Bounds
  <2>11. QED
    BY <1>1, <2>4, <2>5, <2>6, <2>9, <2>10, InformedStep
<1>5. CASE CheckCompletion(p)
  <2> DEFINE start == GoIn(t, "begin", "last")
             prior == [GoIn(t, "succeed", "prior") EXCEPT !.committed = TRUE]
  <2>1. At(t, "claimed")
    BY <1>5 DEF CheckCompletion
  <2>2. start \in Aware
    BY <1>1, <2>1, PlainGoes DEF At, Plain, Modes
  <2>3. ASSUME CompletionKey(Job(t)) \in completion PROVE prior \in Aware
    <3> DEFINE v == Job(t).movieId
    <3>1. Job(t) \in sent /\ v \in Movies
      BY <1>1, <2>1, Goes, IssuedJob DEF At, Job
    <3>2. Delivered(v) /\ Recorded(v)
      BY <1>1, <2>3, <3>1 DEF FilesAgree, CompletionKey, Recorded
    <3>3. prior \in Fit
      BY <1>1, <2>1, Goes DEF At, Labels, Modes
    <3>4. prior.at = "succeed" /\ prior.mode = "prior" /\ prior.claim = task[t].claim /\ prior.result = "error"
      <4>1. Placed(task[t])
        BY <1>1 DEF Aware
      <4>2. task[t].result = "error"
        BY <2>1, <4>1 DEF Placed, At
      <4>3. QED
        BY <1>1, <4>2 DEF GoIn, Local
    <3> HIDE DEF prior
    <3>5. QED
      BY <3>2, <3>3, <3>4 DEF Aware, Placed, Knows, Job
  <2>4. PICK next \in Aware : Read(t, next, {start})
    BY <1>5, <2>2, <2>3 DEF CheckCompletion
  <2>5. QED
    BY <1>1, <2>2, <2>4, ReadAware
<1>6. CASE Begin(p)
  <2>1. At(t, "begin")
    BY <1>6 DEF Begin
  <2>2. task[t].mode \notin {"none", "reap"}
    BY <1>1, <2>1 DEF At, Aware, Fit, Placed, TerminalWrites
  <2>3. /\ Return(t, "relinquished") \in Aware /\ GoIn(t, "inspect", "body") \in Aware
        /\ Errors(t) \in SUBSET Aware
    BY <1>1, <2>1, <2>2, PlainGoes, PlainCatches DEF At, Plain, Modes, Results
  <2>4. CASE task[t].relinquished
    BY <1>1, <1>6, <2>3, <2>4, QuietAware DEF Begin
  <2>5. CASE ~task[t].relinquished
    <3>1. Report(t, "processing", GoIn(t, "inspect", "body"), Errors(t))
      BY <1>6, <2>5 DEF Begin
    <3>2. QED
      BY <1>1, <2>1, <2>3, <3>1, ReportAware DEF At, Status
  <2>6. QED
    BY <2>4, <2>5
<1>7. QED
  BY <1>2, <1>3, <1>4, <1>5, <1>6

\* The body of processJob: past the upload the output is there.
LEMMA BodyKnows ==
  ASSUME Informed, WorkerInv', NEW p \in Processes,
         Inspect(p) \/ StartStage(p) \/ Download(p) \/ Encode(p) \/ Upload(p)
  PROVE  Informed'
<1> DEFINE t == Loop(p)
<1>1. t \in Tasks /\ task[t] \in Aware /\ task[t] \in Fit /\ task[t] \in Local /\ WorkerInv /\ FilesAgree
  BY DEF Tasks, Informed, Aware, Fit
<1>2. task[t].at \in {"inspect", "toDownload", "toEncode", "toUpload", "toDelete", "download", "encode", "upload"}
  BY DEF Inspect, StartStage, Download, Encode, Upload, At
<1>3. task[t].mode \notin {"none", "reap"} /\ Placed(task[t]) /\ Knows(task[t], Job(t).movieId)
  BY <1>1, <1>2 DEF Aware, Fit, Placed, TerminalWrites, Job
<1>4. /\ Job(t) \in Jobs /\ Job(t) \in sent /\ Job(t).movieId \in Movies
      /\ \A label \in Plain, mode \in Modes \ {"none", "reap", "again"} : GoIn(t, label, mode) \in Aware
      /\ \A label \in Plain : Go(t, label) \in Aware
      /\ \A result \in Results \ {"completed", "failed"} : Return(t, result) \in Aware
      /\ \A mode \in Modes \ {"none", "reap", "again"}, b \in BOOLEAN :
           RetryOrDeadLetter(t, mode, b) \in Aware /\ HandBack(t, mode) \in Aware
      /\ \A kind : Caught(t, kind) \in Aware
      /\ Thrown(t) \in SUBSET Aware
  BY <1>1, <1>2, <1>3, Goes, IssuedJob, PlainGoes, PlainCatches DEF Job
<1>5. {"dead", "defer", "toDownload", "toEncode", "toUpload", "download", "encode", "upload"} \subseteq Plain
      /\ {"body", "encode"} \subseteq Modes \ {"none", "reap", "again"}
      /\ "relinquished" \in Results \ {"completed", "failed"}
  BY DEF Plain, Modes, Results
<1>6. CASE Inspect(p)
  <2>1. PICK l \in Aware : Read(t, l, Thrown(t))
    <3>1. CASE Job(t).s3Key \in tmp
      BY <1>4, <1>5, <1>6, <3>1 DEF Inspect
    <3>2. CASE Job(t).s3Key \notin tmp
      BY <1>4, <1>6, <3>2 DEF Inspect
    <3>3. QED
      BY <3>1, <3>2
  <2>2. QED
    BY <1>1, <1>4, <2>1, ReadAware
<1>7. CASE StartStage(p)
  <2>1. Go(t, "delete") \in Aware \/ ~At(t, "toDelete")
    <3>1. SUFFICES ASSUME At(t, "toDelete") PROVE Go(t, "delete") \in Aware
      OBVIOUS
    <3> DEFINE l == Go(t, "delete")
    <3>2. l \in Fit
      BY <1>1, <1>2, <1>3, Goes DEF Labels
    <3>3. l.at = "delete" /\ l.mode = task[t].mode /\ l.claim = task[t].claim
          /\ l.committed = task[t].committed /\ l.result = task[t].result
      BY <1>1 DEF Go, Local
    <3> HIDE DEF l
    <3>4. Placed(l) /\ Knows(l, Job(t).movieId)
      BY <1>3, <3>1, <3>3 DEF Placed, Knows, At
    <3>5. l \in Aware
      BY <3>2, <3>3, <3>4 DEF Aware, Job
    <3>6. QED
      BY <3>5 DEF l
  <2>2. PICK l \in Aware : Report(t, "processing", l, Thrown(t))
    BY <1>2, <1>4, <1>5, <1>7, <2>1 DEF StartStage, At
  <2>3. QED
    BY <1>1, <1>2, <1>4, <2>2, ReportAware DEF Status
<1>8. CASE Download(p)
  <2>1. PICK l \in Aware : Read(t, l, Thrown(t))
    BY <1>4, <1>5, <1>8 DEF Download
  <2>2. QED
    BY <1>1, <1>4, <2>1, ReadAware
<1>9. CASE Encode(p)
  <2>1. PICK l \in Aware : Put(t, l) /\ UNCHANGED <<queueVars, handler, store, scenario>>
    <3>1. \A kind \in scenario.misfortunes : kind \in {"transient", "permanent", "nospace"}
      BY <1>1 DEF WorkerInv, BoundsTypeOK, Scenario
    <3>2. RetryOrDeadLetter(t, "encode", TRUE) \in Aware /\ GoIn(t, "dead", "body") \in Aware
          /\ GoIn(t, "defer", "body") \in Aware /\ Return(t, "relinquished") \in Aware
          /\ Go(t, "toUpload") \in Aware /\ HandBack(t, "body") \in Aware
      BY <1>4, <1>5
    <3>3. CASE task[t].relinquished
      BY <1>9, <3>2, <3>3 DEF Encode
    <3>4. CASE ~task[t].relinquished
      <4> DEFINE failure == [transient |-> RetryOrDeadLetter(t, "encode", TRUE),
                             permanent |-> GoIn(t, "dead", "body"),
                             nospace   |-> GoIn(t, "defer", "body")]
      <4>1. failure["transient"] = RetryOrDeadLetter(t, "encode", TRUE)
            /\ failure["permanent"] = GoIn(t, "dead", "body") /\ failure["nospace"] = GoIn(t, "defer", "body")
        OBVIOUS
      <4>2. PICK l \in {Go(t, "toUpload")} \cup {failure[kind] : kind \in scenario.misfortunes}
                       \cup {HandBack(t, "body")} : Put(t, l)
        BY <1>9, <3>4, Zenon DEF Encode
      <4> HIDE DEF failure
      <4>3. l \in Aware
        BY <3>1, <3>2, <4>1, <4>2
      <4>4. QED
        BY <1>9, <4>2, <4>3 DEF Encode
    <3>5. QED
      BY <3>3, <3>4
  <2>2. QED
    BY <1>1, <2>1, QuietAware
<1>10. CASE Upload(p)
  <2> DEFINE v == Job(t).movieId
             done == Go(t, "commit")
  <2>1. UNCHANGED <<queueVars, variant, tmp, erasing>> /\ prod' \in {prod, prod \cup {Job(t).s3Key}}
        /\ (UNCHANGED scenario \/ \E what \in Bounds : Spend(what))
    BY <1>10 DEF Upload, Call, Nothing, store, Bounds
  <2>2. UNCHANGED <<sent, progress, completion, claims>>
    BY <2>1 DEF queueVars, redis, history
  <2>3. ClaimsKept
    BY <2>2 DEF ClaimsKept
  <2>4. FilesAgree' /\ FactsKept
    <3>1. \A w \in Movies : Delivered(w) => Delivered(w)'
      BY <2>1 DEF Delivered
    <3>2. \A w \in Movies : variant[w].status = "READY" => Delivered(w)
      BY <1>1 DEF FilesAgree, ReadyHasOutput, Delivered
    <3>3. \A o \in erasing : \E w \in Movies : variant[w].status = "DELETED" /\ o[2] = variant[w].s3Key
      BY <1>1 DEF FilesAgree
    <3>4. \A j \in sent : j.movieId \in Movies
      BY <1>1, JobsAssumption DEF WorkerInv, Shared, QueueInv, QueueTypeOK
    <3>5. QED
      BY <1>1, <2>1, <2>2, <3>1, <3>2, <3>3, <3>4, StoreAgrees
  <2>5. PICK l : Put(t, l) /\ (l \in Aware \/ (l = done /\ prod' = prod \cup {Job(t).s3Key}))
    BY <1>4, <1>10 DEF Upload, Call
  <2>6. ASSUME l = done, prod' = prod \cup {Job(t).s3Key} PROVE l \in Aware'
    <3>1. done \in Fit
      BY <1>1, <1>2, <1>3, Goes DEF Labels
    <3>2. done.at = "commit" /\ done.mode = task[t].mode /\ done.claim = task[t].claim
          /\ done.committed = task[t].committed /\ done.result = task[t].result
      BY <1>1 DEF Go, Local
    <3>3. PICK w \in Movies : w = v
      BY <1>4
    <3>4. Delivered(w)'
      BY <1>1, <1>4, <2>1, <2>6, <3>3 DEF Delivered, FilesAgree
    <3>5. Knows(task[t], w)
      BY <1>3, <3>3
    <3> HIDE DEF done, v
    <3>6. Placed(l)
      BY <1>3, <2>6, <3>2 DEF Placed
    <3>7. Knows(l, w)'
      BY <2>4, <2>6, <3>2, <3>4, <3>5 DEF Knows, FactsKept
    <3> USE DEF v
    <3>8. QED
      BY <1>1, <1>2, <2>3, <2>6, <3>1, <3>2, <3>3, <3>6, <3>7, AwareNext
  <2>7. l \in Aware'
    BY <1>1, <2>3, <2>4, <2>5, <2>6, StillAware
  <2>8. QED
    BY <1>1, <2>1, <2>3, <2>4, <2>5, <2>7, InformedStep
<1>11. QED
  BY <1>6, <1>7, <1>8, <1>9, <1>10

\* Commit, reconcile, delete: the record is written before the source goes.
LEMMA CommitKnows ==
  ASSUME Informed, WorkerInv', NEW p \in Processes,
         Commit(p) \/ Reconcile(p) \/ DeleteSource(p) \/ Recommit(p)
  PROVE  Informed'
<1> DEFINE t == Loop(p)
           m == task[t].claim
<1>1. t \in Tasks /\ task[t] \in Aware /\ task[t] \in Fit /\ task[t] \in Local /\ WorkerInv /\ FilesAgree
  BY DEF Tasks, Informed, Aware, Fit
<1>2. task[t].at \in {"commit", "reconcile", "delete", "recommit"}
  BY DEF Commit, Reconcile, DeleteSource, Recommit, At
<1>3. PICK v \in Movies : v = Job(t).movieId
  BY <1>1, <1>2, Goes
<1>4. task[t].mode \notin {"none", "reap"} /\ Placed(task[t]) /\ Knows(task[t], v)
  BY <1>1, <1>2, <1>3 DEF Aware, Fit, Placed, TerminalWrites, Job
<1>5. /\ Job(t) \in Jobs /\ Job(t) \in sent /\ m \in ClaimIds /\ Issued(m) /\ JobOf(m) = Job(t)
      /\ \A label \in Labels : Go(t, label) \in Fit
      /\ \A result \in Results \ {"completed", "failed"} : Return(t, result) \in Aware
      /\ \A l \in Aware : [l EXCEPT !.relinquished = TRUE] \in Aware
      /\ \A kind : Caught(t, kind) \in Aware
      /\ Thrown(t) \in SUBSET Aware
  BY <1>1, <1>2, <1>4, Goes, IssuedJob, PlainGoes, PlainCatches DEF Job
<1>6. variant[v].s3Key = Job(t).s3Key /\ CompletionKey(Job(t)) = <<v, variant[v].s3Key>>
  BY <1>1, <1>3, <1>5 DEF FilesAgree, CompletionKey
<1>7. Delivered(v)
  BY <1>2, <1>4 DEF Knows
<1>8. ASSUME Commit(p) \/ Recommit(p)
      PROVE  /\ UNCHANGED <<store, sent, progress>> /\ ClaimsKept
             /\ completion' \in {completion, completion \cup {<<v, variant[v].s3Key>>}}
             /\ FilesAgree' /\ FactsKept
             /\ UNCHANGED scenario \/ \E what \in Bounds : Spend(what)
  <2>1. IfHeld(m, CommitProcessingJob(m)) \/ Nothing
    BY <1>8 DEF Commit, Recommit, Call
  <2>2. /\ UNCHANGED <<store, sent, progress, claims>>
        /\ completion' \in {completion, completion \cup {<<v, variant[v].s3Key>>}}
    BY <1>5, <1>6, <2>1 DEF IfHeld, Redis, Nothing, CommitProcessingJob, queueVars, redis, history
  <2>3. FilesAgree' /\ FactsKept
    BY <1>1, <1>7, <2>2, RecordsAgree
  <2>4. UNCHANGED scenario \/ \E what \in Bounds : Spend(what)
    BY <1>8 DEF Commit, Recommit, Call, Bounds
  <2>5. QED
    BY <2>2, <2>3, <2>4 DEF ClaimsKept
\* A committed task, and what it is told.
<1>9. ASSUME ClaimsKept, FactsKept, Recorded(v)', task[t].at \in {"commit", "reconcile"}
      PROVE  [Go(t, "toDelete") EXCEPT !.committed = TRUE] \in Aware'
  <2>1. PICK l : l = [Go(t, "toDelete") EXCEPT !.committed = TRUE]
    OBVIOUS
  <2>2. l \in Fit
    BY <1>1, <1>2, <1>5, <2>1, Goes DEF Labels
  <2>3. l.at = "toDelete" /\ l.mode = task[t].mode /\ l.claim = m /\ l.committed = TRUE
        /\ l.result = task[t].result
    BY <1>1, <2>1 DEF Go, Local
  <2>4. Placed(l)
    BY <1>4, <2>3 DEF Placed
  <2>5. Knows(l, v)'
    BY <1>4, <1>7, <1>9, <2>3 DEF Knows, FactsKept
  <2>6. l \in Aware'
    BY <1>1, <1>2, <1>3, <1>9, <2>2, <2>3, <2>4, <2>5, AwareNext
  <2>7. QED
    BY <2>1, <2>6
<1>10. CASE Commit(p)
  <2> DEFINE again == IF task[t].tries + 1 < CommitAttempts
                      THEN [task[t] EXCEPT !.tries = @ + 1] ELSE Go(t, "reconcile")
             committed == [Go(t, "toDelete") EXCEPT !.committed = TRUE]
  <2>1. At(t, "commit")
    BY <1>10 DEF Commit
  <2>2. again \in Aware \/ ~Put(t, again)
    <3>1. SUFFICES ASSUME Put(t, again) PROVE again \in Aware
      OBVIOUS
    <3>2. again \in Local
      <4>1. task'[t] = again
        BY <1>1, <3>1 DEF Put, WorkerInv
      <4>2. QED
        BY <1>1, <4>1 DEF WorkerInv, Fit
    <3>3. again.at \in {"commit", "reconcile"} /\ again.mode = task[t].mode /\ again.claim = m
          /\ again.committed = task[t].committed /\ again.result = task[t].result /\ again.todo = task[t].todo
      BY <1>1, <2>1 DEF Go, Local, At
    <3> HIDE DEF again
    <3>4. again \in Fit
      BY <1>1, <1>2, <1>4, <1>5, <3>2, <3>3 DEF Fit
    <3>5. Placed(again) /\ Knows(again, v)
      BY <1>4, <1>7, <3>3 DEF Placed, Knows
    <3>6. QED
      BY <1>3, <1>5, <3>3, <3>4, <3>5 DEF Aware
  <2>3. PICK l : Put(t, l) /\ (l = again \/ (l = committed /\ Present(m) /\ CommitProcessingJob(m)))
    <3>1. Call(t, IfHeld(m, CommitProcessingJob(m)), Nothing, IF Present(m) THEN committed ELSE again, {again})
      BY <1>10 DEF Commit
    <3> HIDE DEF again, committed
    <3>2. QED
      BY <3>1 DEF Call, IfHeld, Redis
  <2>4. ASSUME l = committed, CommitProcessingJob(m) PROVE l \in Aware'
    <3>1. Recorded(v)'
      <4>1. completion' = completion \cup {<<v, variant[v].s3Key>>} /\ UNCHANGED variant
        BY <1>5, <1>6, <1>8, <1>10, <2>4 DEF CommitProcessingJob, store
      <4>2. QED
        BY <4>1 DEF Recorded
    <3>2. QED
      BY <1>8, <1>9, <1>10, <2>1, <2>4, <3>1 DEF At
  <2>5. l \in Aware'
    <3> HIDE DEF again, committed
    <3>1. QED
      BY <1>1, <1>8, <1>10, <2>2, <2>3, <2>4, StillAware
  <2>6. QED
    BY <1>1, <1>8, <1>10, <2>3, <2>5, InformedStep
<1>11. CASE Recommit(p)
  <2>1. \E l \in Aware : Put(t, l)
    BY <1>5, <1>11 DEF Recommit, Call, Results
  <2>2. \E l \in Aware' : Put(t, l)
    BY <1>1, <1>8, <1>11, <2>1, StillAware
  <2>3. QED
    BY <1>1, <1>8, <1>11, <2>2, InformedStep
<1>12. CASE Reconcile(p)
  <2> DEFINE giveUp == [Return(t, "relinquished") EXCEPT !.relinquished = TRUE]
             committed == [Go(t, "toDelete") EXCEPT !.committed = TRUE]
  <2>1. giveUp \in Aware
    BY <1>5 DEF Results
  <2>2. UNCHANGED <<queueVars, store>> /\ (UNCHANGED scenario \/ \E what \in Bounds : Spend(what))
    BY <1>12 DEF Reconcile, Read, Call, Nothing, Bounds
  <2>3. UNCHANGED <<sent, completion, progress, claims>>
    BY <2>2 DEF queueVars, redis, history
  <2>4. FilesAgree' /\ FactsKept /\ ClaimsKept
    BY <1>1, <2>2, <2>3, RecordsAgree DEF ClaimsKept
  <2>5. PICK l : Put(t, l) /\ (l = giveUp \/ (l = committed /\ CompletionKey(Job(t)) \in completion))
    <3>1. Read(t, IF CompletionKey(Job(t)) \in completion THEN committed ELSE giveUp, {giveUp})
      BY <1>12 DEF Reconcile
    <3> HIDE DEF giveUp, committed
    <3>2. QED
      BY <3>1 DEF Read, Call
  <2>6. ASSUME l = committed, CompletionKey(Job(t)) \in completion PROVE l \in Aware'
    <3>1. Recorded(v)'
      BY <1>6, <2>2, <2>3, <2>6 DEF Recorded, store
    <3>2. At(t, "reconcile")
      BY <1>12 DEF Reconcile
    <3>3. QED
      BY <1>9, <2>4, <2>6, <3>1, <3>2 DEF At
  <2> HIDE DEF giveUp, committed
  <2>7. l \in Aware'
    BY <1>1, <2>1, <2>4, <2>5, <2>6, StillAware
  <2>8. QED
    BY <1>1, <2>2, <2>4, <2>5, <2>7, InformedStep
<1>13. CASE DeleteSource(p)
  <2>1. At(t, "delete")
    BY <1>13 DEF DeleteSource
  <2>2. Recorded(v) /\ task[t].committed
    BY <1>4, <2>1 DEF Knows, At
  <2>3. UNCHANGED <<queueVars, variant, prod, erasing>> /\ tmp' \in {tmp, tmp \ {Job(t).s3Key}}
        /\ (UNCHANGED scenario \/ \E what \in Bounds : Spend(what))
    BY <1>13 DEF DeleteSource, Call, Nothing, store, Bounds
  <2>4. UNCHANGED <<sent, progress, completion, claims>>
    BY <2>3 DEF queueVars, redis, history
  <2>5. FilesAgree' /\ FactsKept
    <3>1. \A w \in Movies : Delivered(w) => Delivered(w)'
      BY <2>3 DEF Delivered
    <3>2. \A w \in Movies : variant[w].status = "READY" => Delivered(w)
      BY <1>1 DEF FilesAgree, ReadyHasOutput, Delivered
    <3>3. \A o \in erasing : \E w \in Movies : variant[w].status = "DELETED" /\ o[2] = variant[w].s3Key
      BY <1>1 DEF FilesAgree
    <3>4. \A w \in Movies : variant[w].s3Key \in tmp => variant[w].s3Key \in tmp' \/ Recorded(w)
      BY <1>1, <1>6, <2>2, <2>3 DEF FilesAgree
    <3>5. \A j \in sent : j.movieId \in Movies
      BY <1>1, JobsAssumption DEF WorkerInv, Shared, QueueInv, QueueTypeOK
    <3>6. QED
      BY <1>1, <2>3, <2>4, <3>1, <3>2, <3>3, <3>4, <3>5, StoreAgrees
  <2>6. ClaimsKept
    BY <2>4 DEF ClaimsKept
  <2>7. GoIn(t, "succeed", "main") \in Aware
    <3> DEFINE l == GoIn(t, "succeed", "main")
    <3>1. l \in Fit
      BY <1>1, <1>2, Goes DEF Labels, Modes
    <3>2. l.at = "succeed" /\ l.mode = "main" /\ l.claim = m /\ l.committed = task[t].committed
          /\ l.result = task[t].result
      BY <1>1 DEF GoIn, Local
    <3> HIDE DEF l
    <3>3. Placed(l) /\ Knows(l, v)
      BY <1>4, <1>7, <3>2 DEF Placed, Knows
    <3>4. l \in Aware
      BY <1>3, <1>5, <3>1, <3>2, <3>3 DEF Aware
    <3>5. QED
      BY <3>4 DEF l
  <2>8. \E l \in Aware : Put(t, l)
    BY <1>5, <1>13, <2>7 DEF DeleteSource, Call, Results
  <2>9. \E l \in Aware' : Put(t, l)
    BY <1>1, <2>5, <2>6, <2>8, StillAware
  <2>10. QED
    BY <1>1, <2>3, <2>5, <2>6, <2>9, InformedStep
<1>14. QED
  BY <1>10, <1>11, <1>12, <1>13

\* A completion record goes when the movie is settled.
LEMMA FinishAgrees ==
  ASSUME Informed, NEW m \in ClaimIds, Issued(m), variant[JobOf(m).movieId].status # "PROCESSING",
         FinishProcessingJob(m), UNCHANGED store
  PROVE  FilesAgree' /\ FactsKept /\ ClaimsKept
<1>1. JobOf(m) \in sent /\ JobOf(m).movieId \in Movies /\ FilesAgree
  BY IssuedJob DEF Informed
<1>2. UNCHANGED <<store, sent, progress, claims>>
      /\ completion' \in {completion, completion \ {CompletionKey(JobOf(m))}}
  BY DEF FinishProcessingJob
<1>3. FilesAgree' /\ FactsKept
  BY <1>1, <1>2, RecordsAgree DEF CompletionKey
<1>4. QED
  BY <1>2, <1>3 DEF ClaimsKept

\* A callback settles the movie of its job, as a success if the output is there.
LEMMA CallbackAgrees ==
  ASSUME Informed, NEW j \in sent, j.movieId \in Movies, NEW status \in {"READY", "FAILED"},
         status = "READY" => Delivered(j.movieId), Callback(j, status)
  PROVE  /\ FilesAgree' /\ FactsKept /\ ClaimsKept
         /\ variant'[j.movieId].status # "PROCESSING"
<1> DEFINE v == j.movieId
<1>1. FilesAgree /\ variant \in [Movies -> [status : {"PROCESSING", "READY", "FAILED", "DELETED"}, s3Key : Keys]]
      /\ sent \subseteq Jobs
  BY DEF Informed, WorkerInv, Shared, StoreTypeOK, QueueInv, QueueTypeOK
<1>2. UNCHANGED <<sent, progress, completion, claims, tmp, prod, erasing>>
  BY DEF Callback, queueVars, redis, history
<1>3. variant[v].s3Key = j.s3Key
  BY <1>1 DEF FilesAgree
<1>4. /\ \A w \in Movies \ {v} : variant'[w] = variant[w]
      /\ variant'[v] = IF variant[v].status = "PROCESSING" THEN [variant[v] EXCEPT !.status = status] ELSE variant[v]
  BY <1>1, <1>3 DEF Callback
<1>5. variant'[v].s3Key = variant[v].s3Key
      /\ variant'[v].status = IF variant[v].status = "PROCESSING" THEN status ELSE variant[v].status
  BY <1>1, <1>4
<1>6. \A w \in Movies : Delivered(w)' <=> Delivered(w)
  BY <1>2, <1>4, <1>5 DEF Delivered
<1>7. \A w \in Movies : variant'[w].status = "READY" => Delivered(w)'
  <2>1. \A w \in Movies : variant[w].status = "READY" => Delivered(w)
    BY <1>1 DEF FilesAgree, ReadyHasOutput, Delivered
  <2>2. QED
    BY <1>4, <1>5, <1>6, <2>1
<1>8. \A o \in erasing' : \E w \in Movies : variant'[w].status = "DELETED" /\ o[2] = variant[w].s3Key
  BY <1>1, <1>2, <1>4, <1>5 DEF FilesAgree
<1>9. /\ \A w \in Movies : variant'[w].s3Key = variant[w].s3Key
      /\ \A w \in Movies : variant[w].status = "DELETED" => variant'[w].status = "DELETED"
      /\ \A w \in Movies : variant[w].status # "PROCESSING" => variant'[w].status # "PROCESSING"
  BY <1>4, <1>5
<1>10. \A i \in sent : i.movieId \in Movies
  BY <1>1, JobsAssumption
<1>11. FilesAgree' /\ FactsKept
  BY <1>1, <1>2, <1>6, <1>7, <1>8, <1>9, <1>10, StoreAgrees
<1>12. QED
  BY <1>2, <1>5, <1>11 DEF ClaimsKept

\* The output of a movie that is gone may go.
LEMMA DiscardAgrees ==
  ASSUME Informed, NEW j \in sent, j.movieId \in Movies, variant[j.movieId].status = "DELETED", Discard(j)
  PROVE  FilesAgree' /\ FactsKept /\ ClaimsKept
<1>1. FilesAgree /\ sent \subseteq Jobs
  BY DEF Informed, WorkerInv, Shared, QueueInv, QueueTypeOK
<1>2. UNCHANGED <<sent, progress, completion, claims, variant, tmp, erasing>> /\ prod' = prod \ {j.s3Key}
  BY DEF Discard, queueVars, redis, history
<1>3. \A w \in Movies : Delivered(w) => Delivered(w)'
  BY <1>1, <1>2 DEF Delivered, FilesAgree
<1>4. \A w \in Movies : variant[w].status = "READY" => Delivered(w)
  BY <1>1 DEF FilesAgree, ReadyHasOutput, Delivered
<1>5. \A o \in erasing : \E w \in Movies : variant[w].status = "DELETED" /\ o[2] = variant[w].s3Key
  BY <1>1 DEF FilesAgree
<1>6. \A i \in sent : i.movieId \in Movies
  BY <1>1, JobsAssumption
<1>7. FilesAgree' /\ FactsKept
  BY <1>1, <1>2, <1>3, <1>4, <1>5, <1>6, StoreAgrees
<1>8. QED
  BY <1>2, <1>7 DEF ClaimsKept

\* The end of a job: a committed one is finished only when its movie is settled.
LEMMA SettleKnows ==
  ASSUME Informed, WorkerInv', NEW p \in Processes,
         \/ Postpone(p) \/ ReportPostponed(p) \/ GiveBack(p) \/ ReportHandedBack(p) \/ Resolve(p)
  PROVE  Informed'
<1> DEFINE t == Loop(p)
           m == task[t].claim
<1>1. t \in Tasks /\ task[t] \in Aware /\ task[t] \in Fit /\ task[t] \in Local /\ WorkerInv /\ FilesAgree
  BY DEF Tasks, Informed, Aware, Fit
<1>2. task[t].at \in {"retry", "defer", "postponed", "handBack", "handedBack", "resolve"}
  BY DEF Postpone, ReportPostponed, GiveBack, ReportHandedBack, Resolve, At
<1>3. task[t].mode \notin {"none", "reap"} /\ Knows(task[t], Job(t).movieId)
  BY <1>1, <1>2 DEF Aware, Fit, Placed, TerminalWrites, Job
<1>4. /\ m \in ClaimIds /\ Issued(m) /\ Job(t).movieId \in Movies /\ JobOf(m) = Job(t)
      /\ \A label \in Plain : Go(t, label) \in Aware
      /\ \A result \in Results \ {"completed", "failed"} : Return(t, result) \in Aware
      /\ Errors(t) \in SUBSET Aware
  BY <1>1, <1>2, <1>3, Goes, IssuedJob, PlainGoes, PlainCatches DEF Job
<1>5. {"postponed", "handedBack"} \subseteq Plain
      /\ {"relinquished", "retrying"} \subseteq Results \ {"completed", "failed"}
  BY DEF Plain, Results
<1>6. CASE Postpone(p)
  <2>1. CASE Present(m)
    <3>1. \E l \in {Go(t, "postponed")} \cup Errors(t) : Put(t, l)
      BY <1>6, <2>1 DEF Postpone, Call
    <3>2. UNCHANGED store /\ (AddJobToRetryQueue(m) \/ DeferJobForInfrastructure(m) \/ UNCHANGED queueVars)
      BY <1>6, <2>1 DEF Postpone, Call, Redis, Nothing
    <3>3. [QueueNext]_queueVars /\ UNCHANGED <<sent, completion, progress>>
      BY <1>4, <3>2 DEF QueueNext, OwnerCall, AddJobToRetryQueue, DeferJobForInfrastructure, queueVars, redis, history
    <3>4. UNCHANGED scenario \/ \E what \in Bounds : Spend(what)
      BY <1>6, <2>1 DEF Postpone, Call, Bounds
    <3>5. {Go(t, "postponed")} \cup Errors(t) \in SUBSET Aware
      BY <1>4, <1>5
    <3>6. QED
      BY <1>1, <3>1, <3>2, <3>3, <3>4, <3>5, QueueAware
  <2>2. CASE ~Present(m)
    <3>1. PICK l \in Aware : Read(t, l, {l})
      BY <1>4, <1>6, <2>2 DEF Postpone
    <3>2. QED
      BY <1>1, <3>1, ReadAware
  <2>3. QED
    BY <2>1, <2>2
<1>7. CASE ReportPostponed(p)
  <2>1. Report(t, "retrying", Return(t, "retrying"), Errors(t)) /\ Return(t, "retrying") \in Aware
    BY <1>4, <1>5, <1>7 DEF ReportPostponed
  <2>2. QED
    BY <1>1, <1>2, <1>4, <2>1, ReportAware DEF Status
<1>8. CASE GiveBack(p)
  <2>1. \E l \in {Go(t, "handedBack"), Return(t, "relinquished")} \cup Errors(t) : Put(t, l)
    BY <1>8 DEF GiveBack, Call, Read
  <2>2. UNCHANGED store /\ (RequeueProcessingJob(m) \/ UNCHANGED queueVars)
    BY <1>8 DEF GiveBack, Call, Read, Redis, Nothing
  <2>3. [QueueNext]_queueVars /\ UNCHANGED <<sent, completion, progress>>
    BY <1>4, <2>2 DEF QueueNext, OwnerCall, RequeueProcessingJob, queueVars, redis, history
  <2>4. UNCHANGED scenario \/ \E what \in Bounds : Spend(what)
    BY <1>8 DEF GiveBack, Call, Read, Bounds
  <2>5. {Go(t, "handedBack"), Return(t, "relinquished")} \cup Errors(t) \in SUBSET Aware
    BY <1>4, <1>5
  <2>6. QED
    BY <1>1, <2>1, <2>2, <2>3, <2>4, <2>5, QueueAware
<1>9. CASE ReportHandedBack(p)
  <2>1. Report(t, "queued", Return(t, "relinquished"), {Return(t, "relinquished")})
        /\ Return(t, "relinquished") \in Aware
    BY <1>4, <1>5, <1>9 DEF ReportHandedBack
  <2>2. QED
    BY <1>1, <1>2, <2>1, ReportAware DEF Status
<1>10. CASE Resolve(p)
  <2>1. \E l \in {Resting} : Put(t, l)
    BY <1>10 DEF Resolve, Call
  <2>2. UNCHANGED scenario \/ \E what \in Bounds : Spend(what)
    BY <1>10 DEF Resolve, Call, Bounds
  <2>3. CASE UNCHANGED store /\ (ReleaseProcessingJob(m) \/ UNCHANGED queueVars)
    <3>1. [QueueNext]_queueVars /\ UNCHANGED <<sent, completion, progress>>
      BY <1>4, <2>3 DEF QueueNext, OwnerCall, ReleaseProcessingJob, queueVars, redis, history
    <3>2. QED
      BY <1>1, <2>1, <2>2, <2>3, <3>1, RestingAware, QueueAware
  <2>4. CASE UNCHANGED store /\ FinishProcessingJob(m) /\ task[t].result \in {"completed", "failed"}
    <3>1. variant[JobOf(m).movieId].status # "PROCESSING"
      BY <1>3, <1>4, <2>4 DEF Knows
    <3>2. FilesAgree' /\ FactsKept /\ ClaimsKept
      BY <1>4, <2>4, <3>1, FinishAgrees
    <3>3. \E l \in Aware' : Put(t, l)
      BY <1>1, <2>1, <3>2, RestingAware, StillAware
    <3>4. QED
      BY <1>1, <2>2, <3>2, <3>3, InformedStep
  <2>5. QED
    BY <1>10, <2>3, <2>4 DEF Resolve, Call, Redis, Nothing
<1>11. QED
  BY <1>6, <1>7, <1>8, <1>9, <1>10

\* A verdict is returned when the movie is settled.
LEMMA VerdictAware ==
  ASSUME Informed, ClaimsKept, FactsKept, NEW t \in Tasks, task[t].at \in TerminalWrites \cup {"finish"},
         NEW v \in Movies, v = Job(t).movieId, variant'[v].status # "PROCESSING",
         NEW result \in {"completed", "failed"}
  PROVE  /\ task[t].mode # "reap" => Return(t, result) \in Aware'
         /\ Finalized(t, result) \in Aware'
<1>1. /\ WorkerInv /\ task[t] \in Aware /\ task[t] \in Local
      /\ task[t].at \notin {"idle", "poll", "claimed", "reap"}
  BY DEF Informed, Aware, Fit, TerminalWrites
<1>2. task[t].mode # "none" /\ Placed(task[t]) /\ Knows(task[t], v)
  BY <1>1 DEF Aware, Fit, Job
<1>3. ASSUME task[t].mode # "reap" PROVE Return(t, result) \in Aware'
  <2>1. PICK l : l = Return(t, result)
    OBVIOUS
  <2>2. l \in Fit
    BY <1>1, <1>2, <2>1, Goes DEF Results
  <2>3. l.at = "resolve" /\ l.mode = task[t].mode /\ l.claim = task[t].claim
        /\ l.committed = task[t].committed /\ l.result = result
    BY <1>1, <2>1 DEF Return, Local
  <2>4. Placed(l)
    BY <1>3, <2>3 DEF Placed
  <2>5. Knows(l, v)'
    BY <1>2, <2>3 DEF Knows, FactsKept
  <2>6. QED
    BY <1>1, <2>1, <2>2, <2>3, <2>4, <2>5, AwareNext
<1>4. Go(t, "finish") \in Aware'
  <2>1. PICK l : l = Go(t, "finish")
    OBVIOUS
  <2>2. l \in Fit
    BY <1>1, <1>2, <2>1, Goes DEF Labels
  <2>3. l.at = "finish" /\ l.mode = task[t].mode /\ l.claim = task[t].claim
        /\ l.committed = task[t].committed /\ l.result = task[t].result
    BY <1>1, <2>1 DEF Go, Local
  <2>4. Placed(l)
    BY <1>2, <2>3 DEF Placed
  <2>5. Knows(l, v)'
    BY <1>2, <2>3 DEF Knows, FactsKept
  <2>6. QED
    BY <1>1, <2>1, <2>2, <2>3, <2>4, <2>5, AwareNext
<1>5. QED
  BY <1>3, <1>4 DEF Finalized

\* How a job ends: what is told the backend is true of the files.
LEMMA FinalKnows ==
  ASSUME Informed, WorkerInv', NEW t \in Tasks, FinalStep(t)
  PROVE  Informed'
<1> DEFINE m == task[t].claim
<1>1. task[t] \in Aware /\ task[t] \in Fit /\ task[t] \in Local /\ WorkerInv /\ FilesAgree
      /\ ~scenario.mayReject
  BY DEF Informed, Aware, Fit, UploadedOnce
<1>2. task[t].at \in TerminalWrites \cup {"finish"}
  BY DEF FinalStep, Succeed, SucceedCallback, DiscardOutput, DropRejected, DeadLetter, ReportFailure,
     FailCallback, FinishFinalized, At, TerminalWrites
<1>3. task[t].at \notin {"idle", "poll", "claimed", "reap"}
  BY <1>2 DEF TerminalWrites
<1>4. PICK v \in Movies : v = Job(t).movieId
  BY <1>1, <1>3, Goes
<1>5. task[t].mode \in Modes \ {"none"} /\ Placed(task[t]) /\ Knows(task[t], v)
  BY <1>1, <1>3, <1>4 DEF Aware, Fit, Job, Local
<1>6. /\ m \in ClaimIds /\ Issued(m) /\ JobOf(m) = Job(t) /\ Job(t) \in Jobs /\ Job(t) \in sent
      /\ Go(t, "failProgress") \in Aware /\ Go(t, "failCallback") \in Aware
      /\ task[t].mode # "reap" => Return(t, "error") \in Aware
      /\ task[t].mode = "reap" => NextClaim(t) \in Aware
      /\ Errors(t) \in SUBSET Aware
  BY <1>1, <1>3, <1>5, Goes, IssuedJob, PlainGoes, PlainCatches DEF Job, Results
<1>7. CASE Succeed(t)
  <2>1. Go(t, "succeedCallback") \in Aware
    <3> DEFINE l == Go(t, "succeedCallback")
    <3>1. l \in Fit
      BY <1>1, <1>3, <1>5, Goes DEF Labels
    <3>2. l.at = "succeedCallback" /\ l.mode = task[t].mode /\ l.claim = m
          /\ l.committed = task[t].committed /\ l.result = task[t].result
      BY <1>1 DEF Go, Local
    <3>3. At(t, "succeed")
      BY <1>7 DEF Succeed
    <3> HIDE DEF l
    <3>4. Placed(l) /\ Knows(l, v)
      BY <1>5, <3>2, <3>3 DEF Placed, Knows, At, TerminalWrites
    <3>5. l \in Aware
      BY <1>4, <1>6, <3>1, <3>2, <3>4 DEF Aware
    <3>6. QED
      BY <3>5 DEF l
  <2>2. Delivered(v) /\ Report(t, "completed", Go(t, "succeedCallback"), Errors(t))
    BY <1>5, <1>7 DEF Succeed, Knows, At
  <2>3. QED
    BY <1>3, <1>4, <1>6, <2>1, <2>2, ReportAware DEF Status
<1>8. CASE ReportFailure(t)
  <2>1. Report(t, "failed", Go(t, "failCallback"), Errors(t))
    BY <1>8 DEF ReportFailure
  <2>2. QED
    BY <1>3, <1>6, <2>1, ReportAware DEF Status
<1>9. CASE SucceedCallback(t)
  <2>1. Delivered(v)
    BY <1>5, <1>9 DEF SucceedCallback, Knows, At
  <2>2. Call(t, Callback(Job(t), "READY"), Nothing,
             IF variant[Job(t).movieId].status = "DELETED" THEN Go(t, "discard")
             ELSE Finalized(t, "completed"), Errors(t))
    BY <1>1, <1>9 DEF SucceedCallback
  <2>3. UNCHANGED scenario \/ \E what \in Bounds : Spend(what)
    BY <2>2 DEF Call, Bounds
  <2>4. CASE Nothing /\ \E l \in Errors(t) : Put(t, l)
    <3>1. UNCHANGED <<store, sent, completion, progress>> /\ [QueueNext]_queueVars
      BY <2>4 DEF Nothing, queueVars, redis, history
    <3>2. QED
      BY <1>6, <2>3, <2>4, <3>1, QueueAware
  <2>5. CASE Callback(Job(t), "READY")
    <3>1. FilesAgree' /\ FactsKept /\ ClaimsKept /\ variant'[v].status # "PROCESSING"
      BY <1>4, <1>6, <2>1, <2>5, CallbackAgrees
    <3>2. Aware \subseteq Aware'
      BY <1>1, <3>1, StillAware
    <3>3. Finalized(t, "completed") \in Aware'
      BY <1>2, <1>4, <3>1, VerdictAware
    <3>4. ASSUME variant[v].status = "DELETED" PROVE Go(t, "discard") \in Aware'
      <4>1. PICK l : l = Go(t, "discard")
        OBVIOUS
      <4>2. l \in Fit
        BY <1>1, <1>3, <1>5, <4>1, Goes DEF Labels
      <4>3. l.at = "discard" /\ l.mode = task[t].mode /\ l.claim = m
            /\ l.committed = task[t].committed /\ l.result = task[t].result
        BY <1>1, <4>1 DEF Go, Local
      <4>4. Placed(l)
        BY <1>2, <1>5, <4>3 DEF Placed, TerminalWrites
      <4>5. Knows(l, v)'
        BY <1>5, <3>1, <3>4, <4>3 DEF Knows, FactsKept
      <4>6. QED
        BY <1>1, <1>3, <1>4, <3>1, <4>1, <4>2, <4>3, <4>4, <4>5, AwareNext
    <3>5. \E l \in Aware' : Put(t, l)
      BY <1>4, <1>6, <2>2, <3>2, <3>3, <3>4 DEF Call
    <3>6. QED
      BY <2>3, <3>1, <3>5, InformedStep
  <2>6. QED
    BY <2>2, <2>4, <2>5 DEF Call
<1>10. CASE DiscardOutput(t)
  <2>1. variant[v].status = "DELETED"
    BY <1>5, <1>10 DEF DiscardOutput, Knows, At
  <2>2. Discard(Job(t)) \/ Nothing
    BY <1>10 DEF DiscardOutput, Call
  <2>3. FilesAgree' /\ FactsKept /\ ClaimsKept
    <3>1. CASE Nothing
      <4>1. UNCHANGED <<store, sent, completion, progress, claims>>
        BY <3>1 DEF Nothing, queueVars, redis, history
      <4>2. QED
        BY <1>1, <4>1, RecordsAgree DEF ClaimsKept
    <3>2. QED
      BY <1>4, <1>6, <2>1, <2>2, <3>1, DiscardAgrees
  <2>4. variant'[v].status # "PROCESSING"
    BY <2>1, <2>3 DEF FactsKept
  <2>5. Finalized(t, "completed") \in Aware' /\ Aware \subseteq Aware'
    BY <1>1, <1>2, <1>4, <2>3, <2>4, VerdictAware, StillAware
  <2>6. \E l \in Aware' : Put(t, l)
    BY <1>6, <1>10, <2>5 DEF DiscardOutput, Call
  <2>7. UNCHANGED scenario \/ \E what \in Bounds : Spend(what)
    BY <1>10 DEF DiscardOutput, Call, Bounds
  <2>8. QED
    BY <2>3, <2>6, <2>7, InformedStep
<1>11. CASE DropRejected(t)
  BY <1>5, <1>11 DEF DropRejected, Knows, At
<1>12. CASE DeadLetter(t)
  <2>1. Nothing \/ (UNCHANGED store /\ AddJobToDeadLetterQueue(Job(t)))
    BY <1>12 DEF DeadLetter, Call, Redis
  <2>2. UNCHANGED <<store, sent, completion, progress, claims>>
    BY <2>1 DEF Nothing, AddJobToDeadLetterQueue, queueVars, redis, history
  <2>3. FilesAgree' /\ FactsKept /\ ClaimsKept
    BY <1>1, <2>2, RecordsAgree DEF ClaimsKept
  <2>4. \E l \in Aware' : Put(t, l)
    BY <1>1, <1>6, <1>12, <2>3, StillAware DEF DeadLetter, Call
  <2>5. UNCHANGED scenario \/ \E what \in Bounds : Spend(what)
    BY <1>12 DEF DeadLetter, Call, Bounds
  <2>6. QED
    BY <2>3, <2>4, <2>5, InformedStep
<1>13. CASE FailCallback(t)
  <2>1. UNCHANGED scenario \/ \E what \in Bounds : Spend(what)
    BY <1>13 DEF FailCallback, Call, Bounds
  <2>2. CASE Nothing /\ \E l \in Errors(t) : Put(t, l)
    <3>1. UNCHANGED <<store, sent, completion, progress>> /\ [QueueNext]_queueVars
      BY <2>2 DEF Nothing, queueVars, redis, history
    <3>2. QED
      BY <1>6, <2>1, <2>2, <3>1, QueueAware
  <2>3. CASE Callback(Job(t), "FAILED")
    <3>1. FilesAgree' /\ FactsKept /\ ClaimsKept /\ variant'[v].status # "PROCESSING"
      BY <1>4, <1>6, <2>3, CallbackAgrees
    <3>2. Aware \subseteq Aware'
      BY <1>1, <3>1, StillAware
    <3>3. Finalized(t, "failed") \in Aware' /\ (task[t].mode # "reap" => Return(t, "failed") \in Aware')
      BY <1>2, <1>4, <3>1, VerdictAware
    <3>4. \E l \in Aware' : Put(t, l)
      BY <1>5, <1>6, <1>13, <3>2, <3>3 DEF FailCallback, Call, Modes
    <3>5. QED
      BY <2>1, <3>1, <3>4, InformedStep
  <2>4. QED
    BY <1>1, <1>13, <2>2, <2>3 DEF FailCallback, Call
<1>14. CASE FinishFinalized(t)
  <2>1. variant[v].status # "PROCESSING"
    BY <1>5, <1>14 DEF FinishFinalized, Knows, At
  <2>2. UNCHANGED store /\ (FinishProcessingJob(m) \/ UNCHANGED queueVars)
    BY <1>14 DEF FinishFinalized, Call, Redis, Nothing
  <2>3. FilesAgree' /\ FactsKept /\ ClaimsKept
    <3>1. CASE UNCHANGED queueVars
      <4>1. UNCHANGED <<sent, completion, progress, claims>>
        BY <3>1 DEF queueVars, redis, history
      <4>2. QED
        BY <1>1, <2>2, <4>1, RecordsAgree DEF ClaimsKept
    <3>2. QED
      BY <1>4, <1>6, <2>1, <2>2, <3>1, FinishAgrees
  <2>4. variant'[v].status # "PROCESSING"
    BY <2>1, <2>3 DEF FactsKept
  <2>5. (task[t].mode # "reap" => Return(t, "completed") \in Aware') /\ Aware \subseteq Aware'
    BY <1>1, <1>2, <1>4, <2>3, <2>4, VerdictAware, StillAware
  <2>6. \E l \in Aware' : Put(t, l)
    BY <1>6, <1>14, <2>5 DEF FinishFinalized, Call
  <2>7. UNCHANGED scenario \/ \E what \in Bounds : Spend(what)
    BY <1>14 DEF FinishFinalized, Call, Bounds
  <2>8. QED
    BY <2>3, <2>6, <2>7, InformedStep
<1>15. QED
  BY <1>7, <1>8, <1>9, <1>10, <1>11, <1>12, <1>13, <1>14 DEF FinalStep

\* The reaper takes a completion record, or a movie's "completed", for a success:
\* the output is there.
LEMMA ReaperKnows ==
  ASSUME Informed, WorkerInv', NEW p \in Reapers, ReaperStep(p)
  PROVE  Informed'
<1> DEFINE t == Reaper(p)
           m == task[t].claim
<1>1. t \in Tasks /\ task[t] \in Aware /\ task[t] \in Fit /\ task[t] \in Local /\ WorkerInv /\ FilesAgree
  BY DEF Tasks, Informed, Aware, Fit
<1>2. CASE ReapStart(p)
  <2>1. PICK l : Put(t, l) /\ l = [Resting EXCEPT !.at = "reap", !.mode = "reap",
                                      !.todo = {k \in ClaimIds : lease[k] = "stale"}]
                 /\ UNCHANGED <<queueVars, handler, store, scenario>>
    BY <1>2 DEF ReapStart
  <2>2. l.at = "reap" /\ l.mode = "reap" /\ ~l.committed /\ l.result = "error"
    BY <2>1 DEF Resting
  <2>3. task'[t] = l /\ Fit' = Fit
    <3>1. UNCHANGED claims
      BY <2>1 DEF queueVars, redis
    <3>2. QED
      BY <1>1, <2>1, <3>1 DEF Put, WorkerInv, Fit, Issued
  <2>4. l \in Fit
    BY <1>1, <2>3 DEF WorkerInv
  <2>5. l \in Aware
    BY <2>2, <2>4 DEF Aware, Placed
  <2>6. QED
    BY <1>1, <2>1, <2>5, QuietAware
<1>3. CASE Reap(p)
  <2>1. At(t, "reap")
    BY <1>3 DEF Reap
  <2>2. CASE task[t].todo = {}
    BY <1>1, <1>3, <2>2, QuietAware, RestingAware DEF Reap
  <2>3. CASE task[t].todo # {}
    <3>1. PICK k \in task[t].todo :
            LET local == [task[t] EXCEPT !.claim = k, !.todo = @ \ {k}]
                guess == [local EXCEPT !.at = "guess"]
            IN  Read(t, IF CompletionKey(JobOf(k)) \in completion
                        THEN [local EXCEPT !.at = "succeed"] ELSE guess, {guess})
      BY <1>3, <2>3 DEF Reap
    <3> DEFINE local == [task[t] EXCEPT !.claim = k, !.todo = @ \ {k}]
    <3>2. k \in ClaimIds /\ Issued(k)
      BY <1>1 DEF Fit, Local
    <3>3. PICK v \in Movies : v = JobOf(k).movieId
      BY <1>1, <3>2, IssuedJob
    <3>4. CompletionKey(JobOf(k)) \in completion => Delivered(v)
      BY <1>1, <3>2, <3>3, IssuedJob DEF FilesAgree, CompletionKey
    <3>5. task[t].mode = "reap" /\ ~task[t].committed /\ task[t].result = "error"
      BY <1>1, <2>1 DEF Aware, Placed, At
    <3>6. ASSUME NEW label \in {"succeed", "guess"}, label = "succeed" => Delivered(v)
          PROVE  [local EXCEPT !.at = label] \in Aware
      <4>1. PICK l : l = [local EXCEPT !.at = label]
        OBVIOUS
      <4>2. l \in Local /\ l.todo \subseteq task[t].todo
        BY <1>1, <3>2, <4>1 DEF Local, Labels
      <4>3. l.at = label /\ l.mode = "reap" /\ l.claim = k /\ ~l.committed /\ l.result = "error"
        BY <1>1, <3>5, <4>1 DEF Local
      <4>4. l \in Fit
        BY <1>1, <3>2, <4>2, <4>3 DEF Fit
      <4>5. Placed(l) /\ Knows(l, v)
        BY <3>6, <4>3 DEF Placed, Knows, TerminalWrites
      <4>6. l \in Aware
        BY <3>3, <4>3, <4>4, <4>5 DEF Aware
      <4>7. QED
        BY <4>1, <4>6
    <3>7. [local EXCEPT !.at = "guess"] \in Aware
          /\ (CompletionKey(JobOf(k)) \in completion => [local EXCEPT !.at = "succeed"] \in Aware)
      BY <3>4, <3>6
    <3> HIDE DEF local
    <3>8. PICK next \in Aware, errs \in SUBSET Aware : Read(t, next, errs)
      BY <3>1, <3>7 DEF local
    <3>9. QED
      BY <1>1, <3>8, ReadAware
  <2>4. QED
    BY <2>2, <2>3
<1>4. ASSUME task[t].at \in {"guess", "release", "requeue"}
      PROVE  /\ m \in ClaimIds /\ Issued(m) /\ task[t].mode = "reap" /\ ~task[t].committed
             /\ task[t].result = "error" /\ NextClaim(t) \in Aware /\ Job(t).movieId \in Movies
  BY <1>1, <1>4, Goes, PlainCatches DEF Aware, Placed
<1>5. CASE Guess(p)
  <2>1. At(t, "guess")
    BY <1>5 DEF Guess
  <2>2. PICK v \in Movies : v = Job(t).movieId
    BY <1>4, <2>1 DEF At
  <2>3. ASSUME NEW label \in {"release", "succeed", "requeue"}, label = "succeed" => Delivered(v)
        PROVE  Go(t, label) \in Aware
    <3>1. PICK l : l = Go(t, label)
      OBVIOUS
    <3>2. l \in Fit
      BY <1>1, <1>4, <2>1, <3>1, Goes DEF At, Labels
    <3>3. l.at = label /\ l.mode = "reap" /\ l.claim = m /\ ~l.committed /\ l.result = "error"
      BY <1>1, <1>4, <2>1, <3>1 DEF Go, Local, At
    <3>4. Placed(l) /\ Knows(l, v)
      BY <2>3, <3>3 DEF Placed, Knows, TerminalWrites
    <3>5. l \in Aware
      BY <2>2, <3>2, <3>3, <3>4 DEF Aware, Job
    <3>6. QED
      BY <3>1, <3>5
  <2>4. progress[v] = "completed" => Delivered(v)
    BY <1>1 DEF FilesAgree
  <2>5. Go(t, "release") \in Aware /\ Go(t, "requeue") \in Aware
        /\ (progress[v] = "completed" => Go(t, "succeed") \in Aware)
    BY <2>3, <2>4
  <2>6. PICK next \in Aware, errs \in SUBSET Aware : Read(t, next, errs)
    BY <1>5, <2>2, <2>5 DEF Guess
  <2>7. QED
    BY <1>1, <2>6, ReadAware
<1>6. CASE ReleaseFailed(p) \/ RequeueStale(p)
  <2>1. m \in ClaimIds /\ {NextClaim(t)} \in SUBSET Aware
    BY <1>4, <1>6 DEF ReleaseFailed, RequeueStale, At
  <2>2. \E l \in {NextClaim(t)} : Put(t, l)
    BY <1>6 DEF ReleaseFailed, RequeueStale, Call, Read
  <2>3. UNCHANGED store /\ (ReleaseProcessingJob(m) \/ RequeueProcessingJob(m) \/ UNCHANGED queueVars)
    BY <1>6 DEF ReleaseFailed, RequeueStale, Call, Read, Redis, Nothing
  <2>4. [QueueNext]_queueVars /\ UNCHANGED <<sent, completion, progress>>
    BY <2>1, <2>3 DEF QueueNext, OwnerCall, ReleaseProcessingJob, RequeueProcessingJob, queueVars, redis, history
  <2>5. UNCHANGED scenario \/ \E what \in Bounds : Spend(what)
    BY <1>6 DEF ReleaseFailed, RequeueStale, Call, Read, Bounds
  <2>6. QED
    BY <1>1, <2>1, <2>2, <2>3, <2>4, <2>5, QueueAware
<1>7. QED
  BY <1>2, <1>3, <1>5, <1>6 DEF ReaperStep

\* A step that may move any task.
LEMMA InformedOutside ==
  ASSUME Informed, WorkerInv', FilesAgree', task' \in [Tasks -> Aware'],
         UNCHANGED scenario \/ \E what \in Bounds : Spend(what)
  PROVE  Informed'
<1>1. UNCHANGED <<scenario.mayReject, scenario.backlog>>
  BY DEF Spend, Informed, WorkerInv, BoundsTypeOK, Scenario
<1>2. QED
  BY <1>1 DEF Informed, UploadedOnce

\* The heartbeat, the signals and the end of a process.
LEMMA ProcessKnows ==
  ASSUME Informed, WorkerInv', NEW p \in Processes,
         EncodeProgress(p) \/ Heartbeat(p) \/ Sigterm(p) \/ HandlerStep(p) \/ Crash(p)
  PROVE  Informed'
<1> DEFINE t == Loop(p)
           m == task[t].claim
<1>1. t \in Tasks /\ task[t] \in Aware /\ task[t] \in Fit /\ task[t] \in Local /\ WorkerInv /\ FilesAgree
      /\ task \in [Tasks -> Aware] /\ m \in ClaimIds \cup {None}
  BY DEF Tasks, Informed, Aware, Fit, Local
<1>2. UNCHANGED scenario \/ \E what \in Bounds : Spend(what)
  BY DEF EncodeProgress, Heartbeat, Sigterm, HandlerStep, DrainEnds, HandOff, Settled, Exit, Crash, Bounds
<1>3. UNCHANGED <<store, sent, completion>>
  <2>1. CASE UNCHANGED <<store, queueVars>>
    BY <2>1 DEF queueVars, redis, history
  <2>2. CASE UNCHANGED store /\ \/ SetEncodeProgress(Job(t).movieId, "processing")
                                \/ RefreshProcessingJob(m)
                                \/ ExpireProcessingJob(m)
                                \/ RequeueProcessingJob(m)
    BY <2>2 DEF SetEncodeProgress, RefreshProcessingJob, ExpireProcessingJob, RequeueProcessingJob, history
  <2>3. QED
    BY <2>1, <2>2 DEF EncodeProgress, Heartbeat, Sigterm, HandlerStep, DrainEnds, HandOff, Settled, Exit,
       Crash, Replaced, Redis, Nothing
<1>4. ClaimsKept
  <2>1. CASE EncodeProgress(p)
    <3>1. Job(t).movieId \in Movies
      BY <1>1, <2>1, Goes DEF EncodeProgress, At
    <3>2. QED
      BY <1>1, <2>1, <3>1, RecordMoves DEF EncodeProgress, Redis, WorkerInv, Status
  <2>2. CASE ~EncodeProgress(p)
    <3>1. UNCHANGED claims
      BY <2>2 DEF Heartbeat, Sigterm, HandlerStep, DrainEnds, HandOff, Settled, Exit, Crash, Replaced,
         Redis, Nothing, RefreshProcessingJob, ExpireProcessingJob, RequeueProcessingJob, queueVars, redis
    <3>2. QED
      BY <3>1 DEF ClaimsKept
  <2>3. QED
    BY <2>1, <2>2
<1>5. \A v \in Movies : progress'[v] = "completed" => progress[v] = "completed"
  <2>1. CASE EncodeProgress(p)
    <3>1. progress' = [progress EXCEPT ![Job(t).movieId] = "processing"]
          /\ progress \in [Movies -> Status \cup {"none"}]
      BY <1>1, <2>1 DEF EncodeProgress, Redis, SetEncodeProgress, WorkerInv, Shared, QueueInv, QueueTypeOK
    <3>2. QED
      BY <3>1
  <2>2. CASE ~EncodeProgress(p)
    <3>1. UNCHANGED progress
      BY <2>2 DEF Heartbeat, Sigterm, HandlerStep, DrainEnds, HandOff, Settled, Exit, Crash, Replaced,
         Redis, Nothing, RefreshProcessingJob, ExpireProcessingJob, RequeueProcessingJob, queueVars, redis
    <3>2. QED
      BY <3>1
  <2>3. QED
    BY <2>1, <2>2
<1>6. FilesAgree' /\ FactsKept
  BY <1>1, <1>3, <1>5, RecordsAgree
<1>7. Aware \subseteq Aware'
  BY <1>1, <1>4, <1>6, StillAware
<1>8. task' \in [Tasks -> Aware']
  <2>1. CASE UNCHANGED task
    BY <1>1, <1>7, <2>1
  <2>2. CASE Put(t, [task[t] EXCEPT !.relinquished = TRUE]) /\ m # None
    <3>1. PICK l : l = [task[t] EXCEPT !.relinquished = TRUE]
      OBVIOUS
    <3>2. l.at = task[t].at /\ l.mode = task[t].mode /\ l.claim = m /\ l.committed = task[t].committed
          /\ l.result = task[t].result
      BY <1>1, <3>1 DEF Local
    <3>3. l \in Fit
      BY <1>1, <3>1 DEF Fit, Local
    <3>4. l \in Aware
      BY <1>1, <3>2, <3>3 DEF Aware, Placed, Knows
    <3>5. QED
      BY <1>1, <1>7, <2>2, <3>1, <3>4 DEF Put
  <2>3. CASE Replaced(p)
    BY <1>1, <1>7, <2>3, RestingAware DEF Replaced
  <2>4. QED
    BY <2>1, <2>2, <2>3 DEF EncodeProgress, Heartbeat, Beating, Sigterm, HandlerStep, DrainEnds, HandOff, Settled,
       Exit, Crash
<1>9. QED
  BY <1>2, <1>6, <1>8, InformedOutside

\* The leases, the timers, the deletion of a movie: what is erased is a deleted movie's.
LEMMA OutsideKnows ==
  ASSUME Informed, WorkerInv',
         \/ \E m \in ClaimIds : LeaseEnds(m) \/ Stall(m)
         \/ \E ready \in SUBSET retry : RetriesComeDue(ready)
         \/ \E v \in Movies : ProgressTtl(v) \/ DeleteMovie(v)
         \/ \E object \in erasing : Erase(object)
  PROVE  Informed'
<1>1. UNCHANGED task /\ (UNCHANGED scenario \/ \E what \in Bounds : Spend(what))
  BY DEF LeaseEnds, Stall, RetriesComeDue, ProgressTtl, DeleteMovie, Erase, Bounds
<1>2. WorkerInv /\ FilesAgree /\ task \in [Tasks -> Aware] /\ StoreTypeOK
      /\ progress \in [Movies -> Status \cup {"none"}] /\ \A j \in sent : j.movieId \in Movies
  BY JobsAssumption DEF Informed, WorkerInv, Shared, QueueInv, QueueTypeOK
<1>3. FilesAgree' /\ FactsKept
  <2>1. ASSUME NEW m \in ClaimIds, LeaseEnds(m) \/ Stall(m) PROVE FilesAgree' /\ FactsKept
    BY <1>2, <2>1, RecordsAgree DEF LeaseEnds, Stall, Redis, LeaseRunsOut, history
  <2>2. ASSUME NEW ready \in SUBSET retry, RetriesComeDue(ready) PROVE FilesAgree' /\ FactsKept
    <3>1. UNCHANGED <<store, sent, completion>>
          /\ \A v \in Movies : progress'[v] = "queued" \/ progress'[v] = progress[v]
      BY <1>2, <2>2 DEF RetriesComeDue, Redis, ProcessRetryQueue
    <3>2. QED
      BY <1>2, <3>1, RecordsAgree
  <2>3. ASSUME NEW v \in Movies, ProgressTtl(v) PROVE FilesAgree' /\ FactsKept
    <3>1. UNCHANGED <<store, sent, completion>> /\ progress' = [progress EXCEPT ![v] = "none"]
      BY <2>3 DEF ProgressTtl, Redis, ProgressExpires, history
    <3>2. \A w \in Movies : progress'[w] = "completed" => progress[w] = "completed"
      BY <1>2, <3>1
    <3>3. QED
      BY <1>2, <3>1, <3>2, RecordsAgree
  <2>4. ASSUME NEW v \in Movies, DeleteMovie(v) PROVE FilesAgree' /\ FactsKept
    <3>1. UNCHANGED <<sent, progress, completion, tmp, prod>>
      BY <2>4 DEF DeleteMovie, queueVars, redis, history
    <3>2. variant' = [variant EXCEPT ![v].status = "DELETED"]
          /\ variant \in [Movies -> [status : {"PROCESSING", "READY", "FAILED", "DELETED"}, s3Key : Keys]]
      BY <1>2, <2>4 DEF DeleteMovie, StoreTypeOK
    <3>3. /\ \A w \in Movies : variant'[w].s3Key = variant[w].s3Key
          /\ \A w \in Movies \ {v} : variant'[w].status = variant[w].status
          /\ variant'[v].status = "DELETED"
      BY <3>2
    <3>4. \A o \in erasing' : \E w \in Movies : variant'[w].status = "DELETED" /\ o[2] = variant[w].s3Key
      <4>1. \A o \in erasing : \E w \in Movies : variant[w].status = "DELETED" /\ o[2] = variant[w].s3Key
        BY <1>2 DEF FilesAgree
      <4>2. \A w \in Movies : variant[w].status = "DELETED" => variant'[w].status = "DELETED"
        BY <3>3
      <4>3. \A o \in erasing' : o \in erasing \/ o[2] = variant[v].s3Key
        BY <2>4 DEF DeleteMovie
      <4>4. QED
        BY <3>3, <4>1, <4>2, <4>3
    <3>5. \A w \in Movies : Delivered(w) => Delivered(w)'
      BY <3>1, <3>3 DEF Delivered
    <3>6. \A w \in Movies : variant'[w].status = "READY" => Delivered(w)'
      BY <1>2, <3>1, <3>3 DEF Delivered, FilesAgree, ReadyHasOutput
    <3>7. QED
      BY <1>2, <3>1, <3>3, <3>4, <3>5, <3>6, StoreAgrees
  <2>5. ASSUME NEW object \in erasing, Erase(object) PROVE FilesAgree' /\ FactsKept
    <3>1. UNCHANGED <<sent, progress, completion, variant>> /\ erasing' \subseteq erasing
          /\ tmp' \in {tmp, tmp \ {object[2]}} /\ prod' \in {prod, prod \ {object[2]}}
      BY <2>5 DEF Erase, queueVars, redis, history
    <3>2. PICK gone \in Movies : variant[gone].status = "DELETED" /\ object[2] = variant[gone].s3Key
      BY <1>2 DEF FilesAgree
    <3>3. \A w \in Movies : variant[w].s3Key = object[2] => w = gone
      BY <1>2, <3>2 DEF FilesAgree
    <3>4. \A w \in Movies : Delivered(w) => Delivered(w)'
      BY <3>1, <3>2, <3>3 DEF Delivered
    <3>5. \A w \in Movies : variant[w].status = "READY" => Delivered(w)
      BY <1>2 DEF FilesAgree, ReadyHasOutput, Delivered
    <3>6. \A w \in Movies : variant[w].s3Key \in tmp => variant[w].s3Key \in tmp' \/ Recorded(w)
      BY <3>1, <3>2, <3>3 DEF Recorded
    <3>7. \A o \in erasing' : \E w \in Movies : variant'[w].status = "DELETED" /\ o[2] = variant[w].s3Key
      BY <1>2, <3>1 DEF FilesAgree
    <3>8. QED
      BY <1>2, <3>1, <3>4, <3>5, <3>6, <3>7, StoreAgrees
  <2>6. QED
    BY <2>1, <2>2, <2>3, <2>4, <2>5
<1>4. ClaimsKept
  <2>1. UNCHANGED claims
    BY DEF LeaseEnds, Stall, RetriesComeDue, ProgressTtl, DeleteMovie, Erase, Redis, LeaseRunsOut,
       ProcessRetryQueue, ProgressExpires, queueVars, redis
  <2>2. QED
    BY <2>1 DEF ClaimsKept
<1>5. task' \in [Tasks -> Aware']
  BY <1>1, <1>2, <1>3, <1>4, StillAware
<1>6. QED
  BY <1>1, <1>3, <1>5, InformedOutside

\* Of the scenario, only what is left of its bounds changes.
LEMMA ScenarioStep ==
  ASSUME [WorkerNext]_workerVars
  PROVE  UNCHANGED scenario \/ \E what \in Bounds : Spend(what)
<1> DEFINE Goal == UNCHANGED scenario \/ \E what \in Bounds : Spend(what)
<1>1. ASSUME NEW p \in Processes, BeginPoll(p) \/ Claim(p) \/ FindNothing(p) \/ CheckCompletion(p) \/ Begin(p)
      PROVE  Goal
  BY <1>1 DEF BeginPoll, Claim, FindNothing, CheckCompletion, Begin, Read, Report, Call, Bounds
<1>2. ASSUME NEW p \in Processes, Inspect(p) \/ StartStage(p) \/ Download(p) \/ Encode(p) \/ Upload(p)
      PROVE  Goal
  BY <1>2 DEF Inspect, StartStage, Download, Encode, Upload, Read, Report, Call, Bounds
<1>3. ASSUME NEW p \in Processes, Commit(p) \/ Reconcile(p) \/ DeleteSource(p) \/ Recommit(p)
      PROVE  Goal
  BY <1>3 DEF Commit, Reconcile, DeleteSource, Recommit, Read, Call, Bounds
<1>4. ASSUME NEW p \in Processes, Postpone(p) \/ ReportPostponed(p) \/ GiveBack(p) \/ ReportHandedBack(p) \/ Resolve(p)
      PROVE  Goal
  BY <1>4 DEF Postpone, ReportPostponed, GiveBack, ReportHandedBack, Resolve, Read, Report, Call, Bounds
<1>5. ASSUME NEW t \in Tasks, FinalStep(t) PROVE Goal
  BY <1>5 DEF FinalStep, Succeed, SucceedCallback, DiscardOutput, DropRejected, DeadLetter, ReportFailure,
     FailCallback, FinishFinalized, Read, Report, Call, Bounds
<1>6. ASSUME NEW p \in Reapers, ReaperStep(p) PROVE Goal
  BY <1>6 DEF ReaperStep, ReapStart, Reap, Guess, ReleaseFailed, RequeueStale, Read, Call, Bounds
<1>7. ASSUME NEW p \in Processes, EncodeProgress(p) \/ Heartbeat(p) \/ Sigterm(p) \/ HandlerStep(p) \/ Crash(p)
      PROVE  Goal
  BY <1>7 DEF EncodeProgress, Heartbeat, Sigterm, HandlerStep, DrainEnds, HandOff, Settled, Exit, Crash, Bounds
<1>8. ASSUME \/ \E m \in ClaimIds : LeaseEnds(m) \/ Stall(m)
             \/ \E ready \in SUBSET retry : RetriesComeDue(ready)
             \/ \E v \in Movies : ProgressTtl(v) \/ DeleteMovie(v)
             \/ \E object \in erasing : Erase(object)
      PROVE  Goal
  BY <1>8 DEF LeaseEnds, Stall, RetriesComeDue, ProgressTtl, DeleteMovie, Erase, Bounds
<1>9. QED
  BY <1>1, <1>2, <1>3, <1>4, <1>5, <1>6, <1>7, <1>8 DEF WorkerNext, LoopStep, workerVars

LEMMA FilesInit == WorkerInit => FilesInv
<1> SUFFICES ASSUME WorkerInit, UploadedOnce PROVE FilesAgree /\ task \in [Tasks -> Aware]
  BY DEF FilesInv
<1> DEFINE log == scenario.backlog
<1>1. scenario \in Scenarios /\ variant = [v \in Movies |-> [status |-> "PROCESSING", s3Key |-> NewestKey(log, v)]]
      /\ completion = {} /\ erasing = {} /\ progress = [v \in Movies |-> "queued"]
      /\ sent = {log[i] : i \in DOMAIN log} /\ tmp = {j.s3Key : j \in sent}
  BY DEF WorkerInit
<1>2. \A v \in Movies : \E i \in DOMAIN log : log[i].movieId = v /\ log[i].s3Key = variant[v].s3Key
  BY <1>1, NewestKeyFound
<1>3. \A v, w \in Movies : variant[v].s3Key = variant[w].s3Key => v = w
  BY <1>2 DEF UploadedOnce
<1>4. \A j \in sent : variant[j.movieId].s3Key = j.s3Key
  <2>1. SUFFICES ASSUME NEW k \in DOMAIN log PROVE variant[log[k].movieId].s3Key = log[k].s3Key
    BY <1>1
  <2>2. log[k].movieId \in Movies
    <3>1. log \in Seq(Jobs)
      BY <1>1, WorkerAssumption DEF Scenario
    <3>2. QED
      BY <3>1, JobsAssumption, ElementOfSeq, LenProperties
  <2>3. PICK i \in DOMAIN log : log[i].movieId = log[k].movieId /\ log[i].s3Key = variant[log[k].movieId].s3Key
    BY <1>2, <2>2
  <2>4. log[i].s3Key = log[k].s3Key
    BY <2>3 DEF UploadedOnce
  <2>5. QED
    BY <2>3, <2>4
<1>5. ReadyHasOutput /\ SourceKept
  <2>1. \A v \in Movies : variant[v].status = "PROCESSING" /\ variant[v].s3Key \in tmp
    BY <1>1, <1>2
  <2>2. QED
    BY <2>1 DEF ReadyHasOutput, SourceKept
<1>6. FilesAgree
  BY <1>1, <1>3, <1>4, <1>5 DEF FilesAgree
<1>7. task \in [Tasks -> Aware]
  BY RestingAware DEF WorkerInit
<1>8. QED
  BY <1>6, <1>7

LEMMA FilesNext == WorkerInv /\ FilesInv /\ [WorkerNext]_workerVars => FilesInv'
<1> SUFFICES ASSUME WorkerInv, FilesInv, [WorkerNext]_workerVars, UploadedOnce'
             PROVE  FilesAgree' /\ task' \in [Tasks -> Aware']
  BY DEF FilesInv
<1>1. WorkerInv'
  BY WorkerNextInv
<1>2. UploadedOnce
  <2>1. UNCHANGED scenario \/ \E what \in Bounds : Spend(what)
    BY ScenarioStep
  <2>2. UNCHANGED <<scenario.mayReject, scenario.backlog>>
    BY <2>1 DEF Spend, WorkerInv, BoundsTypeOK, Scenario
  <2>3. QED
    BY <2>2 DEF UploadedOnce
<1>3. Informed
  BY <1>2 DEF Informed, FilesInv
<1>4. ASSUME NEW p \in Processes, LoopStep(p) PROVE Informed'
  BY <1>1, <1>3, <1>4, PollKnows, BodyKnows, CommitKnows, SettleKnows DEF LoopStep
<1>5. CASE UNCHANGED workerVars
  <2>1. UNCHANGED <<store, sent, completion, progress, claims, task, scenario>>
    BY <1>5 DEF workerVars, queueVars, redis, history
  <2>2. FilesAgree' /\ FactsKept /\ ClaimsKept
    BY <1>3, <2>1, RecordsAgree DEF Informed, ClaimsKept
  <2>3. task' \in [Tasks -> Aware']
    BY <1>3, <2>1, <2>2, StillAware DEF Informed
  <2>4. QED
    BY <2>2, <2>3
<1>6. CASE ~UNCHANGED workerVars
  <2>1. Informed'
    BY <1>1, <1>3, <1>4, <1>6, ProcessKnows, ReaperKnows, FinalKnows, OutsideKnows DEF WorkerNext
  <2>2. QED
    BY <2>1 DEF Informed
<1>7. QED
  BY <1>5, <1>6

LEMMA FilesInvariance == WorkerSpec => []FilesInv
<1>1. WorkerInv /\ FilesInv /\ [WorkerNext]_workerVars => FilesInv'
  BY FilesNext
<1>2. QED
  BY WorkerInvariance, FilesInit, <1>1, PTL DEF WorkerSpec

\* A movie its viewers are told is ready has its file in the production bucket,
\* whatever crashes, faults, stalls, shutdowns and deletions, in whatever order
\* workers, later owners and reapers come to tell the backend.
THEOREM ReadyMeansUploaded == WorkerSpec => [](UploadedOnce => ReadyHasOutput)
<1>1. FilesInv => (UploadedOnce => ReadyHasOutput)
  BY DEF FilesInv, FilesAgree
<1>2. QED
  BY FilesInvariance, <1>1, PTL

\* The source of a movie still processing is there to encode again, unless a
\* completion record says it need not be.
THEOREM SourceSurvives == WorkerSpec => [](UploadedOnce => SourceKept)
<1>1. FilesInv => (UploadedOnce => SourceKept)
  BY DEF FilesInv, FilesAgree
<1>2. QED
  BY FilesInvariance, <1>1, PTL

-----------------------------------------------------------------------------
(***************************************************************************)
(* Who has which claim.  A claim is taken by one poll loop and kept until  *)
(* its job is over; another task has it only by way of the reaper.         *)
(***************************************************************************)
Roles ==
  /\ \A t \in Tasks : task[t].at \in {"idle", "poll", "reap"} => task[t].claim = None
  /\ \A p, q \in Processes :
       task[Loop(p)].claim # None /\ task[Loop(p)].claim = task[Loop(q)].claim => p = q
  /\ \A p \in Processes : task[Loop(p)].mode # "reap"
  /\ \A p \in Reapers : task[Reaper(p)].at # "idle" => task[Reaper(p)].mode = "reap"

\* A task goes on with its claim, or is done with it.
Follows(t, l) ==
  \/ l = Resting
  \/ task[t].mode = "reap" /\ l = NextClaim(t)
  \/ /\ l.claim = task[t].claim /\ l.at \notin {"idle", "poll", "reap"}
     /\ l.mode = "reap" <=> task[t].mode = "reap"
     /\ l.todo = task[t].todo

LEMMA FollowsOn ==
  ASSUME WorkerInv, NEW t \in Tasks, task[t].at \notin {"idle", "poll", "claimed", "reap"}
  PROVE  /\ \A label \in Labels \ {"idle", "poll", "reap"} : Follows(t, Go(t, label))
         /\ \A result : Follows(t, Return(t, result))
         /\ task[t].mode # "reap" =>
              /\ \A label \in Labels \ {"idle", "poll", "reap"}, mode \in Modes \ {"none", "reap"} :
                   Follows(t, GoIn(t, label, mode))
              /\ \A mode \in Modes \ {"none", "reap"}, b \in BOOLEAN :
                   Follows(t, RetryOrDeadLetter(t, mode, b)) /\ Follows(t, HandBack(t, mode))
              /\ \A kind : Follows(t, Caught(t, kind))
              /\ \A l \in Thrown(t) : Follows(t, l)
         /\ \A l \in Errors(t) : Follows(t, l)
<1>1. task[t] \in Local /\ task[t].mode \in Modes \ {"none"} /\ task[t].relinquished \in BOOLEAN
      /\ task[t].committed \in BOOLEAN
  BY DEF WorkerInv, Fit, Local
<1>2. ASSUME NEW label \in Labels \ {"idle", "poll", "reap"} PROVE Follows(t, Go(t, label))
  BY <1>1, <1>2 DEF Go, Follows, Local
<1>3. ASSUME NEW result PROVE Follows(t, Return(t, result))
  BY <1>1, <1>3 DEF Return, Follows, Local
<1>4. ASSUME task[t].mode # "reap", NEW label \in Labels \ {"idle", "poll", "reap"},
             NEW mode \in Modes \ {"none", "reap"}
      PROVE  Follows(t, GoIn(t, label, mode))
  BY <1>1, <1>4 DEF GoIn, Follows, Local
<1>5. {"retry", "dead", "handBack", "defer", "succeed", "recommit"} \subseteq Labels \ {"idle", "poll", "reap"}
      /\ {"body", "encode", "catch", "last", "loop", "again", "prior", "main"} \subseteq Modes \ {"none", "reap"}
  BY DEF Labels, Modes
<1>6. ASSUME task[t].mode # "reap", NEW mode \in Modes \ {"none", "reap"}, NEW b
      PROVE  Follows(t, RetryOrDeadLetter(t, mode, b)) /\ Follows(t, HandBack(t, mode))
  <2>1. Follows(t, RetryOrDeadLetter(t, mode, b))
    BY <1>4, <1>5, <1>6 DEF RetryOrDeadLetter
  <2>2. Follows(t, HandBack(t, mode))
    BY <1>1, <1>6 DEF HandBack, GoIn, Follows, Local
  <2>3. QED
    BY <2>1, <2>2
<1>7. ASSUME task[t].mode # "reap", NEW kind PROVE Follows(t, Caught(t, kind))
  BY <1>1, <1>3, <1>4, <1>5, <1>6, <1>7 DEF Caught
<1>8. ASSUME task[t].mode # "reap" PROVE \A l \in Thrown(t) : Follows(t, l)
  BY <1>7, <1>8 DEF Thrown
<1>9. ASSUME NEW l \in Errors(t) PROVE Follows(t, l)
  <2>1. CASE task[t].mode \in {"body", "main"}
    BY <1>8, <1>9, <2>1 DEF Errors
  <2>2. CASE task[t].mode \in {"encode", "catch", "last", "prior"}
    BY <1>4, <1>5, <1>9, <2>2 DEF Errors
  <2>3. CASE task[t].mode = "loop"
    BY <1>3, <1>9, <2>3 DEF Errors
  <2>4. CASE task[t].mode = "again"
    BY <1>2, <1>5, <1>9, <2>4 DEF Errors
  <2>5. CASE task[t].mode = "reap"
    BY <1>9, <2>5 DEF Errors, Follows
  <2>6. QED
    BY <1>1, <2>1, <2>2, <2>3, <2>4, <2>5 DEF Modes
<1>10. QED
  BY <1>2, <1>3, <1>4, <1>6, <1>7, <1>8, <1>9

LEMMA ClaimIsOfTask ==
  ASSUME WorkerInv, Roles, NEW t \in Tasks, task[t].claim # None
  PROVE  task[t].claim \in ClaimIds /\ Issued(task[t].claim)
BY DEF WorkerInv, Roles, Fit

\* A step of one task that leaves the claims the poll loops have apart.
LEMMA RolesPut ==
  ASSUME WorkerInv, Roles, NEW t \in Tasks, NEW l, Put(t, l),
         l.at \in {"idle", "poll", "reap"} => l.claim = None,
         \A p \in Processes : t = Loop(p) =>
           /\ l.mode # "reap"
           /\ l.claim # None => \A q \in Processes : task[Loop(q)].claim = l.claim => q = p,
         \A p \in Reapers : t = Reaper(p) /\ l.at # "idle" => l.mode = "reap"
  PROVE  Roles'
<1>1. \A u \in Tasks : task'[u] = IF u = t THEN l ELSE task[u]
  BY DEF Put, WorkerInv
<1>2. (\A p \in Processes : Loop(p) \in Tasks) /\ (\A p \in Reapers : Reaper(p) \in Tasks)
  BY DEF Tasks
<1>3. \A u \in Tasks : task'[u].at \in {"idle", "poll", "reap"} => task'[u].claim = None
  BY <1>1 DEF Roles
<1>4. \A p \in Processes : task'[Loop(p)].mode # "reap"
  BY <1>1, <1>2 DEF Roles
<1>5. \A p \in Reapers : task'[Reaper(p)].at # "idle" => task'[Reaper(p)].mode = "reap"
  BY <1>1, <1>2 DEF Roles
<1>6. ASSUME NEW p \in Processes, NEW q \in Processes,
             task'[Loop(p)].claim # None, task'[Loop(p)].claim = task'[Loop(q)].claim
      PROVE  p = q
  <2>1. CASE t = Loop(p) /\ t = Loop(q)
    BY <2>1 DEF Loop
  <2>2. CASE t = Loop(p) /\ t # Loop(q)
    BY <1>1, <1>2, <1>6, <2>2
  <2>3. CASE t # Loop(p) /\ t = Loop(q)
    BY <1>1, <1>2, <1>6, <2>3
  <2>4. CASE t # Loop(p) /\ t # Loop(q)
    BY <1>1, <1>2, <1>6, <2>4 DEF Roles
  <2>5. QED
    BY <2>1, <2>2, <2>3, <2>4
<1>7. QED
  BY <1>3, <1>4, <1>5, <1>6 DEF Roles

\* A step of one task that goes on with its claim.
LEMMA RolesStep ==
  ASSUME WorkerInv, Roles, NEW t \in Tasks, task[t].at # "idle", NEW l, Follows(t, l), Put(t, l)
  PROVE  Roles'
<1>1. task[t] \in Local
  BY DEF WorkerInv, Fit
<1>2. /\ l.claim \in {None, task[t].claim}
      /\ l.at \in {"idle", "poll", "reap"} => l.claim = None
      /\ task[t].mode # "reap" => l.mode # "reap"
      /\ task[t].mode = "reap" => l.at = "idle" \/ l.mode = "reap"
  <2>1. CASE l = Resting
    BY <2>1 DEF Resting
  <2>2. CASE task[t].mode = "reap" /\ l = NextClaim(t)
    BY <1>1, <2>2 DEF NextClaim, Local
  <2>3. QED
    BY <1>1, <2>1, <2>2 DEF Follows, Local, Modes
<1>3. \A p \in Processes : t = Loop(p) =>
        /\ l.mode # "reap"
        /\ l.claim # None => \A q \in Processes : task[Loop(q)].claim = l.claim => q = p
  BY <1>2 DEF Roles
<1>4. \A p \in Reapers : t = Reaper(p) /\ l.at # "idle" => l.mode = "reap"
  BY <1>2 DEF Roles
<1>5. QED
  BY <1>2, <1>3, <1>4, RolesPut

\* The steps of the poll loop go on with the claim, but for the one that takes it.
LEMMA LoopFollows ==
  ASSUME WorkerInv, Roles, NEW p \in Processes, LoopStep(p), ~BeginPoll(p), ~Claim(p)
  PROVE  task[Loop(p)].at # "idle" /\ \E l : Put(Loop(p), l) /\ Follows(Loop(p), l)
<1> DEFINE t == Loop(p)
<1>1. t \in Tasks /\ task[t] \in Local
  BY DEF Tasks, WorkerInv, Fit
<1>2. task[t].mode # "reap" /\ Follows(t, Resting)
  BY DEF Roles, Follows
<1>3. CASE FindNothing(p)
  BY <1>2, <1>3 DEF FindNothing, At
<1>4. CASE CheckCompletion(p)
  <2>1. At(t, "claimed")
    BY <1>4 DEF CheckCompletion
  <2>2. \E l \in {GoIn(t, "begin", "last"), [GoIn(t, "succeed", "prior") EXCEPT !.committed = TRUE]} : Put(t, l)
    BY <1>4 DEF CheckCompletion, Read, Call
  <2>3. Follows(t, GoIn(t, "begin", "last"))
    BY <1>1, <1>2 DEF GoIn, Follows, Local
  <2>4. Follows(t, [GoIn(t, "succeed", "prior") EXCEPT !.committed = TRUE])
    BY <1>1, <1>2 DEF GoIn, Follows, Local
  <2>5. QED
    BY <2>1, <2>2, <2>3, <2>4 DEF At
<1>5. ASSUME task[t].at \notin {"idle", "poll", "claimed", "reap"}
      PROVE  /\ \A label \in Labels \ {"idle", "poll", "reap"} : Follows(t, Go(t, label))
             /\ \A result : Follows(t, Return(t, result))
             /\ \A label \in Labels \ {"idle", "poll", "reap"}, mode \in Modes \ {"none", "reap"} :
                   Follows(t, GoIn(t, label, mode))
             /\ \A mode \in Modes \ {"none", "reap"}, b \in BOOLEAN :
                   Follows(t, RetryOrDeadLetter(t, mode, b)) /\ Follows(t, HandBack(t, mode))
             /\ \A kind : Follows(t, Caught(t, kind))
             /\ \A l \in Thrown(t) : Follows(t, l)
             /\ \A l \in Errors(t) : Follows(t, l)
  <2>1. t \in Tasks /\ task[t].mode # "reap"
    BY <1>1, <1>2
  <2> HIDE DEF t
  <2>2. QED
    BY <1>5, <2>1, FollowsOn
<1>6. CASE Begin(p)
  <2>1. task[t].at \notin {"idle", "poll", "claimed", "reap"}
    BY <1>6 DEF Begin, At
  <2>2. \E l \in {Return(t, "relinquished"), GoIn(t, "inspect", "body")} \cup Errors(t) : Put(t, l)
    BY <1>6 DEF Begin, Report, Call
  <2>3. QED
    BY <1>5, <2>1, <2>2 DEF Labels, Modes
<1>7. CASE Inspect(p)
  <2>1. task[t].at \notin {"idle", "poll", "claimed", "reap"}
    BY <1>7 DEF Inspect, At
  <2>2. \E l \in {Go(t, "toDownload"), GoIn(t, "dead", "body"), GoIn(t, "defer", "body"),
                  Caught(t, "permanent")} \cup Thrown(t) : Put(t, l)
    BY <1>7 DEF Inspect, Read, Call
  <2>3. QED
    BY <1>5, <2>1, <2>2 DEF Labels, Modes
<1>8. CASE StartStage(p)
  <2>1. task[t].at \in {"toDownload", "toEncode", "toUpload", "toDelete"}
    BY <1>8 DEF StartStage
  <2>2. \E l \in {Go(t, "download"), Go(t, "encode"), Go(t, "upload"), Go(t, "delete")} \cup Thrown(t) : Put(t, l)
    BY <1>8, <2>1 DEF StartStage, Report, Call
  <2>3. QED
    BY <1>5, <2>1, <2>2 DEF Labels
<1>9. CASE Download(p)
  <2>1. task[t].at \notin {"idle", "poll", "claimed", "reap"}
    BY <1>9 DEF Download, At
  <2>2. \E l : Put(t, l) /\ (l = Go(t, "toEncode") \/ (\E kind : l = Caught(t, kind)) \/ l \in Thrown(t))
    BY <1>9 DEF Download, Read, Call
  <2>3. QED
    BY <1>5, <2>1, <2>2 DEF Labels
<1>10. CASE Encode(p)
  <2>1. task[t].at \notin {"idle", "poll", "claimed", "reap"}
    BY <1>10 DEF Encode, At
  <2>2. scenario.misfortunes \subseteq {"transient", "permanent", "nospace"}
    BY DEF WorkerInv, BoundsTypeOK, Scenario
  <2> DEFINE failure == [transient |-> RetryOrDeadLetter(t, "encode", TRUE),
                         permanent |-> GoIn(t, "dead", "body"),
                         nospace   |-> GoIn(t, "defer", "body")]
  <2>3. PICK l : /\ Put(t, l)
                 /\ \/ l \in {Return(t, "relinquished"), Go(t, "toUpload"), HandBack(t, "body")}
                    \/ \E kind \in scenario.misfortunes : l = failure[kind]
    BY <1>10 DEF Encode
  <2>4. CASE \E kind \in scenario.misfortunes : l = failure[kind]
    <3>1. PICK kind \in {"transient", "permanent", "nospace"} : l = failure[kind]
      BY <2>2, <2>4
    <3>2. l \in {RetryOrDeadLetter(t, "encode", TRUE), GoIn(t, "dead", "body"), GoIn(t, "defer", "body")}
      <4>1. CASE kind = "transient"
        BY <3>1, <4>1
      <4>2. CASE kind = "permanent"
        BY <3>1, <4>2
      <4>3. CASE kind = "nospace"
        BY <3>1, <4>3
      <4>4. QED
        BY <4>1, <4>2, <4>3
    <3>3. QED
      BY <1>5, <2>1, <2>3, <3>2 DEF Labels, Modes
  <2>5. QED
    BY <1>5, <2>1, <2>3, <2>4 DEF Labels, Modes
<1>11. CASE Upload(p)
  <2>1. task[t].at \notin {"idle", "poll", "claimed", "reap"}
    BY <1>11 DEF Upload, At
  <2>2. \E l \in {Go(t, "commit"), Caught(t, "abort")} \cup Thrown(t) : Put(t, l)
    BY <1>11 DEF Upload, Call
  <2>3. QED
    BY <1>5, <2>1, <2>2 DEF Labels
<1>12. CASE Commit(p)
  <2>1. task[t].at \notin {"idle", "poll", "claimed", "reap"} /\ task[t].at \in Labels
    BY <1>12 DEF Commit, At, Labels
  <2>2. \E l \in {[Go(t, "toDelete") EXCEPT !.committed = TRUE], [task[t] EXCEPT !.tries = @ + 1],
                  Go(t, "reconcile")} : Put(t, l)
    BY <1>12 DEF Commit, Call
  <2>3. Follows(t, [Go(t, "toDelete") EXCEPT !.committed = TRUE])
    BY <1>1 DEF Go, Follows, Local
  <2>4. Follows(t, [task[t] EXCEPT !.tries = @ + 1])
    BY <1>1, <2>1 DEF Follows, Local
  <2>5. QED
    BY <1>5, <2>1, <2>2, <2>3, <2>4 DEF Labels
<1>13. CASE Reconcile(p)
  <2>1. task[t].at \notin {"idle", "poll", "claimed", "reap"}
    BY <1>13 DEF Reconcile, At
  <2>2. \E l \in {[Go(t, "toDelete") EXCEPT !.committed = TRUE],
                  [Return(t, "relinquished") EXCEPT !.relinquished = TRUE]} : Put(t, l)
    BY <1>13 DEF Reconcile, Read, Call
  <2>3. Follows(t, [Go(t, "toDelete") EXCEPT !.committed = TRUE])
    BY <1>1 DEF Go, Follows, Local
  <2>4. Follows(t, [Return(t, "relinquished") EXCEPT !.relinquished = TRUE])
    BY <1>1 DEF Return, Follows, Local
  <2>5. QED
    BY <2>1, <2>2, <2>3, <2>4
<1>14. CASE DeleteSource(p)
  <2>1. task[t].at \notin {"idle", "poll", "claimed", "reap"}
    BY <1>14 DEF DeleteSource, At
  <2>2. \E l \in {Return(t, "relinquished"), GoIn(t, "succeed", "main"), Caught(t, "abort")} \cup Thrown(t) : Put(t, l)
    BY <1>14 DEF DeleteSource, Call
  <2>3. QED
    BY <1>5, <2>1, <2>2 DEF Labels, Modes
<1>15. CASE Recommit(p)
  <2>1. task[t].at \notin {"idle", "poll", "claimed", "reap"} /\ Put(t, Return(t, "error"))
    BY <1>15 DEF Recommit, At, Call
  <2>2. QED
    BY <1>5, <2>1
<1>16. CASE Postpone(p)
  <2>1. task[t].at \notin {"idle", "poll", "claimed", "reap"}
    BY <1>16 DEF Postpone
  <2>2. \E l \in {Go(t, "postponed")} \cup Errors(t) : Put(t, l)
    BY <1>16 DEF Postpone, Read, Call
  <2>3. QED
    BY <1>5, <2>1, <2>2 DEF Labels
<1>17. CASE ReportPostponed(p) \/ ReportHandedBack(p)
  <2>1. task[t].at \notin {"idle", "poll", "claimed", "reap"}
    BY <1>17 DEF ReportPostponed, ReportHandedBack, At
  <2>2. \E l \in {Return(t, "retrying"), Return(t, "relinquished")} \cup Errors(t) : Put(t, l)
    BY <1>17 DEF ReportPostponed, ReportHandedBack, Report, Call
  <2>3. QED
    BY <1>5, <2>1, <2>2
<1>18. CASE GiveBack(p)
  <2>1. task[t].at \notin {"idle", "poll", "claimed", "reap"}
    BY <1>18 DEF GiveBack, At
  <2>2. \E l \in {Go(t, "handedBack"), Return(t, "relinquished")} \cup Errors(t) : Put(t, l)
    BY <1>18 DEF GiveBack, Read, Call
  <2>3. QED
    BY <1>5, <2>1, <2>2 DEF Labels
<1>19. CASE Resolve(p)
  BY <1>2, <1>19 DEF Resolve, At, Call
<1>20. QED
  BY <1>3, <1>4, <1>6, <1>7, <1>8, <1>9, <1>10, <1>11, <1>12, <1>13, <1>14, <1>15, <1>16, <1>17, <1>18, <1>19
     DEF LoopStep

\* So do the steps that settle a movie.
LEMMA FinalFollows ==
  ASSUME WorkerInv, NEW t \in Tasks, FinalStep(t)
  PROVE  task[t].at # "idle" /\ \E l : Put(t, l) /\ Follows(t, l)
<1>1. task[t].at \in TerminalWrites \cup {"finish"}
  BY DEF FinalStep, TerminalWrites, Succeed, SucceedCallback, DiscardOutput, DropRejected, DeadLetter,
     ReportFailure, FailCallback, FinishFinalized, At
<1>2. task[t].at \notin {"idle", "poll", "claimed", "reap"}
  BY <1>1 DEF TerminalWrites
<1>3. /\ \A label \in Labels \ {"idle", "poll", "reap"} : Follows(t, Go(t, label))
      /\ \A result : Follows(t, Return(t, result))
      /\ \A l \in Errors(t) : Follows(t, l)
  BY <1>2, FollowsOn
<1>4. {"succeedCallback", "discard", "unwanted", "failProgress", "failCallback", "finish"}
        \subseteq Labels \ {"idle", "poll", "reap"}
  BY DEF Labels
<1>5. \A result : Follows(t, Finalized(t, result))
  BY <1>3, <1>4 DEF Finalized
<1>6. CASE Succeed(t) \/ ReportFailure(t)
  <2>1. \E l \in {Go(t, "succeedCallback"), Go(t, "failCallback")} \cup Errors(t) : Put(t, l)
    BY <1>6 DEF Succeed, ReportFailure, Report, Call
  <2>2. QED
    BY <1>2, <1>3, <1>4, <2>1
<1>7. CASE SucceedCallback(t) \/ DiscardOutput(t)
  <2>1. \E l \in {Go(t, "discard"), Go(t, "unwanted"), Finalized(t, "completed")} \cup Errors(t) : Put(t, l)
    BY <1>7 DEF SucceedCallback, DiscardOutput, Read, Call
  <2>2. QED
    BY <1>2, <1>3, <1>4, <1>5, <2>1
<1>8. CASE DropRejected(t) \/ DeadLetter(t)
  <2>1. \E l \in {Go(t, "failProgress")} \cup Errors(t) : Put(t, l)
    BY <1>8 DEF DropRejected, DeadLetter, Call
  <2>2. QED
    BY <1>2, <1>3, <1>4, <2>1
<1>9. CASE FailCallback(t)
  <2>1. \E l \in {Finalized(t, "failed"), Return(t, "error"), Return(t, "failed")} \cup Errors(t) : Put(t, l)
    BY <1>9 DEF FailCallback, Call
  <2>2. QED
    BY <1>2, <1>3, <1>5, <2>1
<1>10. CASE FinishFinalized(t)
  <2>1. \E l : Put(t, l) /\ (l = Return(t, "completed") \/ (task[t].mode = "reap" /\ l = NextClaim(t)) \/ l \in Errors(t))
    BY <1>10 DEF FinishFinalized, Call
  <2>2. QED
    BY <1>2, <1>3, <2>1 DEF Follows
<1>11. QED
  BY <1>6, <1>7, <1>8, <1>9, <1>10 DEF FinalStep

\* And the reaper's, but for the two that list and take stale claims.
LEMMA ReaperFollows ==
  ASSUME WorkerInv, Roles, NEW p \in Reapers, Guess(p) \/ ReleaseFailed(p) \/ RequeueStale(p)
  PROVE  task[Reaper(p)].at # "idle" /\ \E l : Put(Reaper(p), l) /\ Follows(Reaper(p), l)
<1> DEFINE t == Reaper(p)
<1>1. t \in Tasks /\ task[t].at \in {"guess", "release", "requeue"}
  BY DEF Tasks, Guess, ReleaseFailed, RequeueStale, At
<1>2. task[t].mode = "reap"
  BY <1>1 DEF Roles
<1>3. \A label \in {"release", "succeed", "requeue"} : Follows(t, Go(t, label))
  BY <1>1, FollowsOn DEF Labels
<1>4. Follows(t, NextClaim(t))
  BY <1>2 DEF Follows
<1>5. \E l \in {Go(t, "release"), Go(t, "succeed"), Go(t, "requeue"), NextClaim(t)} : Put(t, l)
  BY DEF Guess, ReleaseFailed, RequeueStale, Read, Call
<1>6. QED
  BY <1>1, <1>3, <1>4, <1>5

LEMMA LoopIsNoReaper ==
  ASSUME NEW p, NEW q PROVE Loop(p) # Reaper(q)
BY DEF Loop, Reaper

LEMMA RolesInit == WorkerInit => Roles
BY DEF WorkerInit, Roles, Resting, Tasks, Loop, Reaper

LEMMA RolesLoop ==
  ASSUME WorkerInv, Roles, NEW p \in Processes, NEW l, Put(Loop(p), l),
         l.at \in {"idle", "poll", "reap"} => l.claim = None,
         l.mode # "reap",
         l.claim # None => \A q \in Processes : task[Loop(q)].claim = l.claim => q = p
  PROVE  Roles'
<1>1. Loop(p) \in Tasks
  BY DEF Tasks
<1>2. \A q \in Processes : Loop(p) = Loop(q) => q = p
  BY DEF Loop
<1>3. \A q \in Reapers : Loop(p) # Reaper(q)
  BY LoopIsNoReaper
<1>4. QED
  BY <1>1, <1>2, <1>3, RolesPut

LEMMA RolesReaper ==
  ASSUME WorkerInv, Roles, NEW p \in Reapers, NEW l, Put(Reaper(p), l),
         l.at \in {"idle", "poll", "reap"} => l.claim = None,
         l.at # "idle" => l.mode = "reap"
  PROVE  Roles'
<1>1. Reaper(p) \in Tasks
  BY DEF Tasks
<1>2. \A q \in Processes : Loop(q) # Reaper(p)
  BY LoopIsNoReaper
<1>3. QED
  BY <1>1, <1>2, RolesPut

\* The steps that take or drop a claim, or none.
LEMMA PollRoles ==
  ASSUME WorkerInv, Roles, NEW p \in Processes, BeginPoll(p) \/ Claim(p)
  PROVE  Roles'
<1> DEFINE t == Loop(p)
<1>1. t \in Tasks /\ task[t] \in Local
  BY DEF Tasks, WorkerInv, Fit
<1>2. CASE BeginPoll(p)
  <2>1. task[t].claim = None /\ task[t].mode # "reap" /\ Put(t, Go(t, "poll"))
    BY <1>1, <1>2 DEF BeginPoll, At, Roles
  <2>2. Go(t, "poll").claim = None /\ Go(t, "poll").mode # "reap"
    BY <1>1, <2>1 DEF Go, Local
  <2>3. QED
    BY <2>1, <2>2, RolesLoop
<1>3. CASE Claim(p)
  <2>1. PICK m \in ClaimIds :
          Call(t, Redis(ClaimNextEncodeJob(m)), Nothing,
               IF Head(main).job \in Malformed THEN Resting
               ELSE [Resting EXCEPT !.at = "claimed", !.claim = m], {Resting})
    BY <1>3 DEF Claim
  <2>2. CASE Put(t, Resting)
    <3>1. Resting.claim = None /\ Resting.mode # "reap"
      BY DEF Resting
    <3>2. QED
      BY <2>2, <3>1, RolesLoop
  <2>3. CASE Redis(ClaimNextEncodeJob(m)) /\ Put(t, [Resting EXCEPT !.at = "claimed", !.claim = m])
    <3>1. ~Issued(m)
      BY <2>3 DEF Redis, ClaimNextEncodeJob
    <3>2. \A q \in Processes : task[Loop(q)].claim # m
      <4>1. \A q \in Processes : Loop(q) \in Tasks
        BY DEF Tasks
      <4>2. m # None
        BY WorkerAssumption
      <4>3. QED
        BY <3>1, <4>1, <4>2, ClaimIsOfTask
    <3>3. PICK l : l = [Resting EXCEPT !.at = "claimed", !.claim = m]
      OBVIOUS
    <3>4. l.at = "claimed" /\ l.claim = m /\ l.mode # "reap"
      BY <3>3 DEF Resting
    <3>5. QED
      BY <2>3, <3>2, <3>3, <3>4, RolesLoop
  <2>4. QED
    BY <2>1, <2>2, <2>3 DEF Call
<1>4. QED
  BY <1>2, <1>3

LEMMA ReapRoles ==
  ASSUME WorkerInv, Roles, NEW p \in Reapers, ReapStart(p) \/ Reap(p)
  PROVE  Roles'
<1> DEFINE t == Reaper(p)
<1>1. t \in Tasks /\ task[t] \in Local
  BY DEF Tasks, WorkerInv, Fit
<1>2. CASE ReapStart(p)
  <2>1. PICK l : /\ l = [Resting EXCEPT !.at = "reap", !.mode = "reap",
                                        !.todo = {m \in ClaimIds : lease[m] = "stale"}]
                 /\ Put(t, l)
    BY <1>2 DEF ReapStart
  <2>2. l.claim = None /\ l.mode = "reap"
    BY <2>1 DEF Resting
  <2>3. QED
    BY <2>1, <2>2, RolesReaper
<1>3. CASE Reap(p)
  <2>1. task[t].mode = "reap"
    BY <1>3 DEF Reap, At, Roles
  <2>2. CASE Put(t, Resting)
    <3>1. Resting.claim = None /\ Resting.at = "idle"
      BY DEF Resting
    <3>2. QED
      BY <2>2, <3>1, RolesReaper
  <2>3. CASE task[t].todo # {}
    <3>1. PICK m \in task[t].todo :
            \E at \in {"succeed", "guess"} :
              Put(t, [[task[t] EXCEPT !.claim = m, !.todo = @ \ {m}] EXCEPT !.at = at])
      BY <1>3, <2>3 DEF Reap, Read, Call
    <3>2. PICK at \in {"succeed", "guess"}, l \in Local :
            l = [[task[t] EXCEPT !.claim = m, !.todo = @ \ {m}] EXCEPT !.at = at] /\ Put(t, l)
      <4>1. \A at \in {"succeed", "guess"} :
              [[task[t] EXCEPT !.claim = m, !.todo = @ \ {m}] EXCEPT !.at = at] \in Local
        BY <1>1 DEF Local, Labels
      <4>2. QED
        BY <3>1, <4>1
    <3>3. l.at = at /\ l.mode = "reap"
      BY <1>1, <2>1, <3>2 DEF Local
    <3>4. QED
      BY <3>2, <3>3, RolesReaper
  <2>4. QED
    BY <1>3, <2>2, <2>3 DEF Reap
<1>4. QED
  BY <1>2, <1>3

\* A task that gives its claim up, or is gone with its process.
LEMMA ProcessRoles ==
  ASSUME WorkerInv, Roles, NEW p \in Processes,
         EncodeProgress(p) \/ Heartbeat(p) \/ Sigterm(p) \/ HandlerStep(p) \/ Crash(p)
  PROVE  Roles'
<1> DEFINE t == Loop(p)
<1>1. t \in Tasks /\ task[t] \in Local
  BY DEF Tasks, WorkerInv, Fit
<1>2. CASE UNCHANGED task
  BY <1>2 DEF Roles
<1>3. CASE Put(t, [task[t] EXCEPT !.relinquished = TRUE])
  <2>1. PICK l : l = [task[t] EXCEPT !.relinquished = TRUE]
    OBVIOUS
  <2>2. l.at = task[t].at /\ l.mode = task[t].mode /\ l.claim = task[t].claim
    BY <1>1, <2>1 DEF Local
  <2>3. \A q \in Processes : t = Loop(q) => q = p
    BY DEF Loop
  <2>4. /\ l.at \in {"idle", "poll", "reap"} => l.claim = None
        /\ l.mode # "reap"
        /\ l.claim # None => \A q \in Processes : task[Loop(q)].claim = l.claim => q = p
    BY <1>1, <2>2 DEF Roles
  <2>5. QED
    BY <1>3, <2>1, <2>4, RolesLoop
<1>4. CASE Replaced(p)
  <2>1. \A u \in Tasks : task'[u] = IF u[1] = p THEN Resting ELSE task[u]
    BY <1>4 DEF Replaced
  <2>2. \A u \in Tasks : task'[u] = Resting \/ task'[u] = task[u]
    BY <2>1
  <2>3. Resting.at = "idle" /\ Resting.claim = None /\ Resting.mode = "none"
    BY DEF Resting
  <2>4. (\A q \in Processes : Loop(q) \in Tasks) /\ (\A q \in Reapers : Reaper(q) \in Tasks)
    BY DEF Tasks
  <2>5. QED
    BY <2>2, <2>3, <2>4 DEF Roles
<1>5. QED
  BY <1>2, <1>3, <1>4 DEF EncodeProgress, Heartbeat, Sigterm, HandlerStep, DrainEnds, HandOff, Settled, Exit, Crash

LEMMA RolesNext == WorkerInv /\ Roles /\ [WorkerNext]_workerVars => Roles'
<1> SUFFICES ASSUME WorkerInv, Roles, [WorkerNext]_workerVars PROVE Roles'
  OBVIOUS
<1>1. ASSUME NEW p \in Processes, LoopStep(p) PROVE Roles'
  <2>1. Loop(p) \in Tasks
    BY DEF Tasks
  <2>2. QED
    BY <1>1, <2>1, LoopFollows, PollRoles, RolesStep
<1>2. ASSUME NEW p \in Reapers, ReaperStep(p) PROVE Roles'
  <2>1. Reaper(p) \in Tasks
    BY DEF Tasks
  <2>2. QED
    BY <1>2, <2>1, ReaperFollows, ReapRoles, RolesStep DEF ReaperStep
<1>3. ASSUME NEW t \in Tasks, FinalStep(t) PROVE Roles'
  BY <1>3, FinalFollows, RolesStep
<1>4. CASE UNCHANGED task
  BY <1>4 DEF Roles
<1>5. ASSUME \/ \E m \in ClaimIds : LeaseEnds(m) \/ Stall(m)
             \/ \E ready \in SUBSET retry : RetriesComeDue(ready)
             \/ \E v \in Movies : ProgressTtl(v) \/ DeleteMovie(v)
             \/ \E object \in erasing : Erase(object)
      PROVE  UNCHANGED task
  BY <1>5 DEF LeaseEnds, Stall, RetriesComeDue, ProgressTtl, DeleteMovie, Erase
<1>6. QED
  BY <1>1, <1>2, <1>3, <1>4, <1>5, ProcessRoles DEF WorkerNext, workerVars

LEMMA RolesInvariance == WorkerSpec => []Roles
<1>1. WorkerInv /\ Roles /\ [WorkerNext]_workerVars => Roles'
  BY RolesNext
<1>2. QED
  BY WorkerInvariance, RolesInit, <1>1, PTL DEF WorkerSpec

-----------------------------------------------------------------------------
(***************************************************************************)
(* One terminal writer.  Where only crashes happen, the claim a poll loop  *)
(* works with is live until the loop is through with it, so no reaper ever *)
(* lists it.                                                               *)
(***************************************************************************)
OnlyCrashes == \A what \in Bounds \ {"crash"} : scenario.bounds[what] = 0

Working(l) == l.claim # None =>
  /\ lease[l.claim] # "stale"
  /\ l.at \notin {"postponed", "resolve"} =>
       lease[l.claim] = "live" /\ ~l.relinquished /\ l.at \notin {"handBack", "handedBack"}

\* A reaper has nothing to do with the claim of a poll loop.
Apart ==
  \A p \in Processes, q \in Reapers : task[Loop(p)].claim # None =>
    task[Reaper(q)].claim # task[Loop(p)].claim /\ task[Loop(p)].claim \notin task[Reaper(q)].todo

CrashInv == OnlyCrashes =>
  /\ \A p \in Processes : handler[p] = "up" /\ Working(task[Loop(p)])
  /\ revived = {}
  /\ Apart

Unspoilt == WorkerInv /\ Roles /\ OnlyCrashes /\ CrashInv

\* Nothing but a crash is left to happen.
LEMMA Faultless ==
  ASSUME WorkerInv, OnlyCrashes
  PROVE  \A what \in Bounds \ {"crash"} : ~Spend(what)
<1> SUFFICES ASSUME NEW what \in Bounds \ {"crash"}, Spend(what) PROVE FALSE
  OBVIOUS
<1>1. scenario.left[what] \in Nat /\ scenario.left[what] <= scenario.bounds[what]
  BY DEF WorkerInv, BoundsTypeOK, Scenario
<1>2. QED
  BY <1>1 DEF OnlyCrashes, Spend

\* A poll loop at work.
AtWork(p) == task[Loop(p)].at \notin {"idle", "poll", "reap", "postponed", "resolve"}
Keeps(l) == ~l.relinquished /\ l.at \notin {"handBack", "handedBack"}

LEMMA WorkGoes ==
  ASSUME Unspoilt, NEW p \in Processes, AtWork(p)
  PROVE  /\ task[Loop(p)].claim \in ClaimIds /\ lease[task[Loop(p)].claim] = "live" /\ Keeps(task[Loop(p)])
         /\ \A mode : \A label \in Labels \ {"handBack", "handedBack"} :
              Keeps(Go(Loop(p), label)) /\ Keeps(GoIn(Loop(p), label, mode))
         /\ \A mode, b : Keeps(RetryOrDeadLetter(Loop(p), mode, b))
         /\ \A kind : kind # "abort" => Keeps(Caught(Loop(p), kind))
         /\ \A l \in Thrown(Loop(p)) : Keeps(l)
<1> DEFINE t == Loop(p)
<1>1. t \in Tasks /\ task[t] \in Fit /\ task[t] \in Local
  BY DEF Tasks, Unspoilt, WorkerInv, Fit
<1>2. task[t].claim \in ClaimIds /\ task[t].claim # None
  BY <1>1, WorkerAssumption DEF AtWork, Fit
<1>3. lease[task[t].claim] = "live" /\ Keeps(task[t])
  BY <1>2 DEF Unspoilt, CrashInv, Working, AtWork, Keeps
<1>4. ASSUME NEW label \in Labels \ {"handBack", "handedBack"}, NEW mode
      PROVE  Keeps(Go(t, label)) /\ Keeps(GoIn(t, label, mode))
  BY <1>1, <1>3, <1>4 DEF Keeps, Go, GoIn, Local
<1>5. {"retry", "dead", "succeed", "defer"} \subseteq Labels \ {"handBack", "handedBack"}
  BY DEF Labels
<1>6. \A mode, b : Keeps(RetryOrDeadLetter(t, mode, b))
  BY <1>4, <1>5 DEF RetryOrDeadLetter
<1>7. ~task[t].relinquished /\ task[t].committed \in BOOLEAN
  BY <1>1, <1>3 DEF Keeps, Local
<1>8. ASSUME NEW kind, kind # "abort" PROVE Keeps(Caught(t, kind))
  BY <1>4, <1>5, <1>6, <1>7, <1>8 DEF Caught
<1>9. \A l \in Thrown(t) : Keeps(l)
  BY <1>8 DEF Thrown
<1>10. QED
  BY <1>2, <1>3, <1>4, <1>6, <1>8, <1>9

\* The others' claims stay apart from that of a task that goes on with its own.
LEMMA ApartStep ==
  ASSUME WorkerInv, Apart, NEW t \in Tasks, NEW l, Put(t, l),
         l.claim \in {None, task[t].claim}, l.todo \subseteq task[t].todo
  PROVE  Apart'
<1>1. \A u \in Tasks : task'[u] = IF u = t THEN l ELSE task[u]
  BY DEF Put, WorkerInv
<1>2. \A u \in Tasks : task'[u].claim \in {None, task[u].claim} /\ task'[u].todo \subseteq task[u].todo
  BY <1>1
<1>3. (\A p \in Processes : Loop(p) \in Tasks) /\ (\A p \in Reapers : Reaper(p) \in Tasks)
  BY DEF Tasks
<1>4. QED
  BY <1>2, <1>3 DEF Apart

LEMMA FollowsClaim ==
  ASSUME WorkerInv, NEW t \in Tasks, NEW l, Follows(t, l)
  PROVE  l.claim \in {None, task[t].claim} /\ l.todo \subseteq task[t].todo
<1>1. task[t] \in Local
  BY DEF WorkerInv, Fit
<1>2. CASE l = Resting
  BY <1>2 DEF Resting
<1>3. CASE l = NextClaim(t)
  BY <1>1, <1>3 DEF NextClaim, Local
<1>4. QED
  BY <1>2, <1>3 DEF Follows

\* A step of a poll loop with its claim.
LEMMA UnspoiltLoop ==
  ASSUME Unspoilt, NEW p \in Processes, NEW l, Put(Loop(p), l), Follows(Loop(p), l), UNCHANGED <<handler, revived>>,
         \A m \in ClaimIds : m # task[Loop(p)].claim => lease'[m] = lease[m],
         \/ l = Resting
         \/ l.at \in {"postponed", "resolve"} /\ lease'[task[Loop(p)].claim] # "stale"
         \/ Keeps(l) /\ lease'[task[Loop(p)].claim] = "live"
  PROVE  CrashInv'
<1> DEFINE t == Loop(p)
<1>1. t \in Tasks /\ WorkerInv /\ Roles /\ revived = {} /\ Apart /\ (\A q \in Processes : handler[q] = "up")
  BY DEF Tasks, Unspoilt, CrashInv
<1>2. \A u \in Tasks : task'[u] = IF u = t THEN l ELSE task[u]
  BY <1>1 DEF Put, WorkerInv
<1>3. l.claim \in {None, task[t].claim} /\ l.todo \subseteq task[t].todo
  BY <1>1, FollowsClaim
<1>4. Apart'
  BY <1>1, <1>3, ApartStep
<1>5. ASSUME NEW q \in Processes PROVE Working(task[Loop(q)])'
  <2>1. Loop(q) \in Tasks
    BY DEF Tasks
  <2>2. CASE q = p
    <3>1. task'[Loop(q)] = l
      BY <1>1, <1>2, <2>2
    <3>2. l = Resting => l.claim = None
      BY DEF Resting
    <3>3. QED
      BY <1>3, <3>1, <3>2 DEF Working, Keeps
  <2>3. CASE q # p
    <3>1. Loop(q) # t /\ task'[Loop(q)] = task[Loop(q)]
      BY <1>2, <2>1, <2>3 DEF Loop
    <3>2. task[Loop(q)].claim # None => task[Loop(q)].claim \in ClaimIds /\ task[Loop(q)].claim # task[t].claim
      BY <1>1, <2>1, <2>3, ClaimIsOfTask DEF Roles
    <3>3. Working(task[Loop(q)])
      BY DEF Unspoilt, CrashInv
    <3>4. QED
      BY <3>1, <3>2, <3>3 DEF Working
  <2>4. QED
    BY <2>2, <2>3
<1>6. QED
  BY <1>1, <1>4, <1>5 DEF CrashInv

\* A step of a reaper with its claim.
LEMMA UnspoiltReaper ==
  ASSUME Unspoilt, NEW p \in Reapers, NEW l, Put(Reaper(p), l), Follows(Reaper(p), l), UNCHANGED <<handler, revived>>,
         \A m \in ClaimIds : m # task[Reaper(p)].claim => lease'[m] = lease[m]
  PROVE  CrashInv'
<1> DEFINE t == Reaper(p)
<1>1. t \in Tasks /\ WorkerInv /\ Roles /\ revived = {} /\ Apart /\ (\A q \in Processes : handler[q] = "up")
  BY DEF Tasks, Unspoilt, CrashInv
<1>2. \A u \in Tasks : task'[u] = IF u = t THEN l ELSE task[u]
  BY <1>1 DEF Put, WorkerInv
<1>3. l.claim \in {None, task[t].claim} /\ l.todo \subseteq task[t].todo
  BY <1>1, FollowsClaim
<1>4. Apart'
  BY <1>1, <1>3, ApartStep
<1>5. ASSUME NEW q \in Processes PROVE Working(task[Loop(q)])'
  <2>1. Loop(q) \in Tasks /\ task'[Loop(q)] = task[Loop(q)]
    BY <1>2, LoopIsNoReaper DEF Tasks
  <2>2. task[Loop(q)].claim # None => task[Loop(q)].claim \in ClaimIds /\ task[Loop(q)].claim # task[t].claim
    BY <1>1, <2>1, ClaimIsOfTask DEF Apart
  <2>3. Working(task[Loop(q)])
    BY DEF Unspoilt, CrashInv
  <2>4. QED
    BY <2>1, <2>2, <2>3 DEF Working
<1>6. QED
  BY <1>1, <1>4, <1>5 DEF CrashInv


\* The poll loop: what it does with its claim keeps the lease live.
LEMMA LoopUnspoilt ==
  ASSUME Unspoilt, NEW p \in Processes, LoopStep(p), ~BeginPoll(p), ~Claim(p)
  PROVE  CrashInv'
<1> DEFINE t == Loop(p)
           m == task[t].claim
           Rest == \A n \in ClaimIds : n # m => lease'[n] = lease[n]
<1>1. t \in Tasks /\ WorkerInv /\ Roles /\ task[t] \in Local /\ lease \in [ClaimIds -> {"none", "live", "stale"}]
  BY DEF Tasks, Unspoilt, WorkerInv, Fit, Shared, QueueInv, QueueTypeOK
<1>2. ~Spend("fault")
  BY Faultless DEF Unspoilt, Bounds
<1>3. PICK l : Put(t, l) /\ Follows(t, l)
  BY <1>1, LoopFollows
<1>4. \A k : Put(t, k) => k = l
  BY <1>1, <1>3 DEF Put, WorkerInv
<1>5. ASSUME UNCHANGED <<handler, revived>>, Rest,
             \/ l = Resting
             \/ l.at \in {"postponed", "resolve"} /\ lease'[m] # "stale"
             \/ Keeps(l) /\ lease'[m] = "live"
      PROVE  CrashInv'
  BY <1>3, <1>5, UnspoiltLoop
<1>6. ASSUME AtWork(p)
      PROVE  /\ m \in ClaimIds /\ lease[m] = "live" /\ Keeps(task[t])
             /\ \A mode : \A label \in Labels \ {"handBack", "handedBack"} :
                  Keeps(Go(t, label)) /\ Keeps(GoIn(t, label, mode))
             /\ \A mode, b : Keeps(RetryOrDeadLetter(t, mode, b))
             /\ \A kind : kind # "abort" => Keeps(Caught(t, kind))
             /\ \A k \in Thrown(t) : Keeps(k)
  BY <1>6, WorkGoes
<1>7. ~Aborted(p)
  BY DEF Unspoilt, CrashInv, Aborted
<1>8. \A result : Return(t, result).at = "resolve"
  BY <1>1 DEF Return, Local
<1> HIDE DEF t, m
<1>9. CASE FindNothing(p) \/ Resolve(p)
  <2>1. l = Resting
    BY <1>2, <1>4, <1>9 DEF FindNothing, Resolve, Call, t
  <2>2. Rest /\ UNCHANGED <<handler, revived>>
    BY <1>1, <1>9 DEF FindNothing, Resolve, Call, Redis, FinishProcessingJob, ReleaseProcessingJob, queueVars, redis,
       history, Nothing, t, m
  <2>3. QED
    BY <1>5, <2>1, <2>2
<1>10. ASSUME UNCHANGED <<lease, revived, handler>>, AtWork(p), Keeps(l) \/ l.at \in {"postponed", "resolve"}
       PROVE  CrashInv'
  BY <1>5, <1>6, <1>10
<1>11. CASE CheckCompletion(p)
  <2>1. AtWork(p)
    BY <1>11 DEF CheckCompletion, At, AtWork
  <2>2. UNCHANGED <<lease, revived, handler>>
    BY <1>11 DEF CheckCompletion, Read, Call, Nothing, queueVars, redis, history
  <2>3. l \in {GoIn(t, "begin", "last"), [GoIn(t, "succeed", "prior") EXCEPT !.committed = TRUE]}
    BY <1>4, <1>11 DEF CheckCompletion, Read, Call, t
  <2>4. Keeps(GoIn(t, "begin", "last")) /\ Keeps(GoIn(t, "succeed", "prior"))
    BY <1>6, <2>1 DEF Labels
  <2>5. Keeps([GoIn(t, "succeed", "prior") EXCEPT !.committed = TRUE])
    BY <1>1, <2>4 DEF Keeps, GoIn, Local
  <2>6. QED
    BY <1>10, <2>1, <2>2, <2>3, <2>4, <2>5
<1>12. CASE Begin(p) \/ StartStage(p)
  <2>1. AtWork(p)
    BY <1>12 DEF Begin, StartStage, At, AtWork
  <2>2. UNCHANGED <<lease, revived, handler>>
    BY <1>12 DEF Begin, StartStage, Report, Call, Redis, SetEncodeProgress, Nothing, queueVars, redis, history
  <2>3. l.at = "resolve" \/ l = GoIn(t, "inspect", "body")
        \/ l \in {Go(t, "download"), Go(t, "encode"), Go(t, "upload"), Go(t, "delete")}
    <3>1. CASE Begin(p)
      BY <1>2, <1>4, <1>8, <3>1 DEF Begin, Report, Call, t
    <3>2. CASE StartStage(p)
      <4>1. task[t].at \in {"toDownload", "toEncode", "toUpload", "toDelete"}
        BY <3>2 DEF StartStage, t
      <4>2. QED
        BY <1>2, <1>4, <3>2, <4>1 DEF StartStage, Report, Call, t
    <3>3. QED
      BY <1>12, <3>1, <3>2
  <2>4. QED
    BY <1>6, <1>10, <2>1, <2>2, <2>3 DEF Labels
<1>13. CASE Inspect(p) \/ Download(p)
  <2>1. AtWork(p)
    BY <1>13 DEF Inspect, Download, At, AtWork
  <2>2. UNCHANGED <<lease, revived, handler>>
    BY <1>13 DEF Inspect, Download, Read, Call, Nothing, queueVars, redis, history
  <2>3. ~task[t].relinquished
    BY <1>6, <2>1 DEF Keeps
  <2>4. \/ l \in {Go(t, "toDownload"), Go(t, "toEncode"), GoIn(t, "dead", "body"), GoIn(t, "defer", "body")}
        \/ \E kind : kind # "abort" /\ l = Caught(t, kind)
    <3>1. CASE Inspect(p)
      BY <1>2, <1>4, <3>1 DEF Inspect, Read, Call, t
    <3>2. CASE Download(p)
      <4>1. "abort" \notin scenario.misfortunes
        BY DEF Unspoilt, WorkerInv, BoundsTypeOK, Scenario
      <4>2. QED
        BY <1>2, <1>4, <1>7, <2>3, <3>2, <4>1 DEF Download, Read, Call, t
    <3>3. QED
      BY <1>13, <3>1, <3>2
  <2>5. QED
    BY <1>6, <1>10, <2>1, <2>2, <2>4 DEF Labels
<1>14. CASE Encode(p)
  <2>1. AtWork(p)
    BY <1>14 DEF Encode, At, AtWork
  <2>2. UNCHANGED <<lease, revived, handler>>
    BY <1>14 DEF Encode, queueVars, redis, history
  <2>3. ~task[t].relinquished
    BY <1>6, <2>1 DEF Keeps
  <2> DEFINE failure == [transient |-> RetryOrDeadLetter(t, "encode", TRUE),
                         permanent |-> GoIn(t, "dead", "body"),
                         nospace   |-> GoIn(t, "defer", "body")]
  <2>4. l = Go(t, "toUpload") \/ \E kind \in scenario.misfortunes : l = failure[kind]
    BY <1>4, <1>7, <1>14, <2>3 DEF Encode, t
  <2>5. CASE \E kind \in scenario.misfortunes : l = failure[kind]
    <3>1. scenario.misfortunes \subseteq {"transient", "permanent", "nospace"}
      BY DEF Unspoilt, WorkerInv, BoundsTypeOK, Scenario
    <3>2. PICK kind \in {"transient", "permanent", "nospace"} : l = failure[kind]
      BY <2>5, <3>1
    <3>3. l \in {RetryOrDeadLetter(t, "encode", TRUE), GoIn(t, "dead", "body"), GoIn(t, "defer", "body")}
      <4>1. CASE kind = "transient"
        BY <3>2, <4>1
      <4>2. CASE kind = "permanent"
        BY <3>2, <4>2
      <4>3. CASE kind = "nospace"
        BY <3>2, <4>3
      <4>4. QED
        BY <4>1, <4>2, <4>3
    <3>4. QED
      BY <1>6, <1>10, <2>1, <2>2, <3>3 DEF Labels
  <2>6. QED
    BY <1>6, <1>10, <2>1, <2>2, <2>4, <2>5 DEF Labels
<1>15. CASE Upload(p) \/ DeleteSource(p)
  <2>1. AtWork(p)
    BY <1>15 DEF Upload, DeleteSource, At, AtWork
  <2>2. ~task[t].relinquished
    BY <1>6, <2>1 DEF Keeps
  <2>3. UNCHANGED <<lease, revived, handler>>
    BY <1>7, <1>15, <2>2 DEF Upload, DeleteSource, Call, Nothing, queueVars, redis, history, t
  <2>4. l \in {Go(t, "commit"), GoIn(t, "succeed", "main")}
    BY <1>2, <1>4, <1>7, <1>15, <2>2 DEF Upload, DeleteSource, Call, t
  <2>5. QED
    BY <1>6, <1>10, <2>1, <2>3, <2>4 DEF Labels
<1>16. CASE Commit(p) \/ Recommit(p)
  <2>1. AtWork(p)
    BY <1>16 DEF Commit, Recommit, At, AtWork
  <2>2. m \in ClaimIds /\ lease[m] = "live" /\ Present(m)
    BY <1>6, <2>1 DEF Present
  <2>3. CommitProcessingJob(m) /\ UNCHANGED handler
    BY <1>2, <1>16, <2>2 DEF Commit, Recommit, Call, IfHeld, Redis, t, m
  <2>4. lease'[m] = "live" /\ Rest /\ UNCHANGED revived
    BY <1>1, <2>2, <2>3 DEF CommitProcessingJob, history
  <2>5. l = [Go(t, "toDelete") EXCEPT !.committed = TRUE] \/ l.at = "resolve"
    BY <1>2, <1>4, <1>8, <1>16, <2>2 DEF Commit, Recommit, Call, t, m
  <2>6. Keeps([Go(t, "toDelete") EXCEPT !.committed = TRUE])
    <3>1. Keeps(Go(t, "toDelete"))
      BY <1>6, <2>1 DEF Labels
    <3>2. QED
      BY <1>1, <3>1 DEF Keeps, Go, Local
  <2>7. QED
    BY <1>5, <2>3, <2>4, <2>5, <2>6
<1>17. CASE Reconcile(p)
  <2>1. AtWork(p)
    BY <1>17 DEF Reconcile, At, AtWork
  <2>2. UNCHANGED <<lease, revived, handler>>
    BY <1>17 DEF Reconcile, Read, Call, Nothing, queueVars, redis, history
  <2>3. l \in {[Go(t, "toDelete") EXCEPT !.committed = TRUE],
               [Return(t, "relinquished") EXCEPT !.relinquished = TRUE]}
    BY <1>4, <1>17 DEF Reconcile, Read, Call, t
  <2>4. Keeps([Go(t, "toDelete") EXCEPT !.committed = TRUE])
    <3>1. Keeps(Go(t, "toDelete"))
      BY <1>6, <2>1 DEF Labels
    <3>2. QED
      BY <1>1, <3>1 DEF Keeps, Go, Local
  <2>5. [Return(t, "relinquished") EXCEPT !.relinquished = TRUE].at = "resolve"
    BY <1>1 DEF Return, Local
  <2>6. QED
    BY <1>10, <2>1, <2>2, <2>3, <2>4, <2>5
<1>18. CASE Postpone(p)
  <2>1. AtWork(p)
    BY <1>18 DEF Postpone, AtWork
  <2>2. m \in ClaimIds /\ lease[m] = "live" /\ Present(m)
    BY <1>6, <2>1 DEF Present
  <2>3. (AddJobToRetryQueue(m) \/ DeferJobForInfrastructure(m)) /\ UNCHANGED handler
    BY <1>2, <1>18, <2>2 DEF Postpone, Call, Redis, t, m
  <2>4. lease'[m] # "stale" /\ Rest /\ UNCHANGED revived
    BY <1>1, <2>2, <2>3 DEF AddJobToRetryQueue, DeferJobForInfrastructure
  <2>5. l = Go(t, "postponed") /\ l.at = "postponed"
    <3>1. l = Go(t, "postponed")
      BY <1>2, <1>4, <1>18, <2>2 DEF Postpone, Call, t, m
    <3>2. QED
      BY <1>1, <3>1 DEF Go, Local
  <2>6. QED
    BY <1>5, <2>3, <2>4, <2>5
<1>19. CASE ReportPostponed(p)
  <2>1. UNCHANGED <<lease, revived, handler>> /\ l.at = "resolve" /\ At(t, "postponed")
    BY <1>2, <1>4, <1>8, <1>19 DEF ReportPostponed, Report, Call, Redis, SetEncodeProgress, Nothing, queueVars,
       redis, history, t
  <2>2. lease[m] # "stale"
    BY <1>1, <2>1, WorkerAssumption DEF At, Unspoilt, CrashInv, Working, Fit, WorkerInv, t, m
  <2>3. QED
    BY <1>5, <2>1, <2>2
<1>20. CASE GiveBack(p) \/ ReportHandedBack(p)
  <2>1. AtWork(p) /\ ~Keeps(task[t])
    BY <1>20 DEF GiveBack, ReportHandedBack, At, AtWork, Keeps, t
  <2>2. QED
    BY <1>6, <2>1
<1>21. QED
  BY <1>9, <1>11, <1>12, <1>13, <1>14, <1>15, <1>16, <1>17, <1>18, <1>19, <1>20 DEF LoopStep

\* The verdicts: of a claim, only finishProcessingJob takes the lease away, and
\* then the poll loop is through with it.
LEMMA FinalUnspoilt ==
  ASSUME Unspoilt, NEW t \in Tasks, FinalStep(t)
  PROVE  CrashInv'
<1> DEFINE m == task[t].claim
<1>1. WorkerInv /\ Roles /\ task[t] \in Local /\ lease \in [ClaimIds -> {"none", "live", "stale"}]
  BY DEF Unspoilt, WorkerInv, Fit, Shared, QueueInv, QueueTypeOK
<1>2. ~Spend("fault")
  BY Faultless DEF Unspoilt, Bounds
<1>3. PICK l : Put(t, l) /\ Follows(t, l)
  BY <1>1, FinalFollows
<1>4. \A k : Put(t, k) => k = l
  BY <1>1, <1>3 DEF Put, WorkerInv
<1>5. UNCHANGED <<revived, handler>> /\ \A n \in ClaimIds : n # m => lease'[n] = lease[n]
  BY <1>1 DEF FinalStep, Succeed, SucceedCallback, DiscardOutput, DropRejected, DeadLetter, ReportFailure,
     FailCallback, FinishFinalized, Report, Read, Call, Redis, SetEncodeProgress, Callback, Discard,
     AddJobToDeadLetterQueue, FinishProcessingJob, Nothing, queueVars, redis, history
<1>6. CASE \E p \in Reapers : t = Reaper(p)
  BY <1>3, <1>5, <1>6, UnspoiltReaper
<1>7. ASSUME NEW p \in Processes, t = Loop(p) PROVE CrashInv'
  <2>1. task[t].at \in TerminalWrites \cup {"finish"}
    BY DEF FinalStep, TerminalWrites, Succeed, SucceedCallback, DiscardOutput, DropRejected, DeadLetter,
       ReportFailure, FailCallback, FinishFinalized, At
  <2>2. AtWork(p)
    BY <1>7, <2>1 DEF AtWork, TerminalWrites
  <2>3. /\ m \in ClaimIds /\ lease[m] = "live"
        /\ \A label \in Labels \ {"handBack", "handedBack"} : Keeps(Go(t, label))
    BY <1>7, <2>2, WorkGoes
  <2>4. \A result : Return(t, result).at = "resolve"
    BY <1>1 DEF Return, Local
  <2>5. {"succeedCallback", "discard", "unwanted", "failProgress", "failCallback", "finish"}
          \subseteq Labels \ {"handBack", "handedBack"}
    BY DEF Labels
  <2>6. \A result : Keeps(Finalized(t, result)) \/ Finalized(t, result).at = "resolve"
    BY <2>3, <2>4, <2>5 DEF Finalized
  <2>7. CASE FinishFinalized(t)
    <3>1. task[t].mode # "reap"
      BY <1>1, <1>7 DEF Roles
    <3>2. l.at = "resolve" /\ FinishProcessingJob(m)
      BY <1>2, <1>4, <2>4, <2>7, <3>1 DEF FinishFinalized, Call, Redis
    <3>3. lease'[m] # "stale"
      BY <1>1, <2>3, <3>2 DEF FinishProcessingJob
    <3>4. QED
      BY <1>3, <1>5, <1>7, <3>2, <3>3, UnspoiltLoop
  <2>8. CASE ~FinishFinalized(t)
    <3>1. UNCHANGED lease
      BY <2>8 DEF FinalStep, Succeed, SucceedCallback, DiscardOutput, DropRejected, DeadLetter, ReportFailure,
         FailCallback, Report, Read, Call, Redis, SetEncodeProgress, Callback, Discard,
         AddJobToDeadLetterQueue, Nothing, queueVars, redis, history
    <3>2. \/ \E label \in Labels \ {"handBack", "handedBack"} : l = Go(t, label)
          \/ \E result : l = Finalized(t, result) \/ l = Return(t, result)
      <4>1. CASE Succeed(t) \/ DropRejected(t) \/ DeadLetter(t) \/ ReportFailure(t)
        <5>1. l \in {Go(t, "succeedCallback"), Go(t, "failProgress"), Go(t, "failCallback")}
          BY <1>2, <1>4, <4>1 DEF Succeed, DropRejected, DeadLetter, ReportFailure, Report, Call
        <5>2. QED
          BY <2>5, <5>1
      <4>2. CASE SucceedCallback(t) \/ DiscardOutput(t)
        <5>1. l \in {Go(t, "discard"), Go(t, "unwanted"), Finalized(t, "completed")}
          BY <1>2, <1>4, <4>2 DEF SucceedCallback, DiscardOutput, Read, Call
        <5>2. QED
          BY <2>5, <5>1
      <4>3. CASE FailCallback(t)
        <5>1. l \in {Finalized(t, "failed"), Return(t, "error"), Return(t, "failed")}
          BY <1>2, <1>4, <4>3 DEF FailCallback, Call
        <5>2. QED
          BY <5>1
      <4>4. QED
        BY <2>8, <4>1, <4>2, <4>3 DEF FinalStep
    <3>3. Keeps(l) \/ l.at = "resolve"
      BY <2>3, <2>4, <2>6, <3>2
    <3>4. QED
      BY <1>3, <1>5, <1>7, <2>3, <3>1, <3>3, UnspoiltLoop
  <2>9. QED
    BY <2>7, <2>8
<1>8. QED
  BY <1>6, <1>7 DEF Tasks

\* A claim is new to everyone: no reaper has it, nor has listed it.
LEMMA ClaimUnspoilt ==
  ASSUME Unspoilt, NEW p \in Processes, BeginPoll(p) \/ Claim(p)
  PROVE  CrashInv'
<1> DEFINE t == Loop(p)
<1>1. t \in Tasks /\ WorkerInv /\ Roles /\ task[t] \in Local /\ lease \in [ClaimIds -> {"none", "live", "stale"}]
      /\ revived = {} /\ Apart /\ \A q \in Processes : handler[q] = "up" /\ Working(task[Loop(q)])
  BY DEF Tasks, Unspoilt, CrashInv, WorkerInv, Fit, Shared, QueueInv, QueueTypeOK
<1>2. ASSUME NEW l, Put(t, l), l.claim = None, l.todo \subseteq task[t].todo, UNCHANGED <<handler, revived>>,
             \A q \in Processes : task[Loop(q)].claim # None => lease'[task[Loop(q)].claim] = lease[task[Loop(q)].claim]
      PROVE  CrashInv'
  <2>1. Apart'
    BY <1>1, <1>2, ApartStep
  <2>2. ASSUME NEW q \in Processes PROVE Working(task[Loop(q)])'
    <3>1. task'[Loop(q)] \in {l, task[Loop(q)]}
      BY <1>1, <1>2 DEF Put, WorkerInv, Tasks
    <3>2. QED
      BY <1>1, <1>2, <3>1 DEF Working
  <2>3. QED
    BY <1>1, <1>2, <2>1, <2>2 DEF CrashInv
<1>3. CASE BeginPoll(p)
  <2>1. Put(t, Go(t, "poll")) /\ task[t].claim = None
    BY <1>1, <1>3 DEF BeginPoll, At, Roles
  <2>2. Go(t, "poll").claim = None /\ Go(t, "poll").todo \subseteq task[t].todo
    BY <1>1, <2>1 DEF Go, Local
  <2>3. UNCHANGED <<handler, revived, lease>>
    BY <1>3 DEF BeginPoll, queueVars, redis, history
  <2>4. QED
    BY <1>2, <2>1, <2>2, <2>3
<1>4. CASE Claim(p)
  <2>1. PICK m \in ClaimIds :
          Call(t, Redis(ClaimNextEncodeJob(m)), Nothing,
               IF Head(main).job \in Malformed THEN Resting
               ELSE [Resting EXCEPT !.at = "claimed", !.claim = m], {Resting})
    BY <1>4 DEF Claim
  <2>2. ClaimNextEncodeJob(m) /\ UNCHANGED <<handler, revived>>
    BY <2>1, Faultless DEF Call, Redis, ClaimNextEncodeJob, Unspoilt, Bounds
  <2>3. \A u \in Tasks : task[u].claim # m /\ m \notin task[u].todo
    <3>1. ~Issued(m) /\ m # None
      BY <2>2, WorkerAssumption DEF ClaimNextEncodeJob
    <3>2. QED
      BY <1>1, <3>1, ClaimIsOfTask DEF WorkerInv, Fit
  <2>4. \A n \in ClaimIds : n # m => lease'[n] = lease[n]
    BY <1>1, <2>2 DEF ClaimNextEncodeJob
  <2>5. \A q \in Processes : task[Loop(q)].claim # None => lease'[task[Loop(q)].claim] = lease[task[Loop(q)].claim]
    <3>1. \A q \in Processes : Loop(q) \in Tasks
      BY DEF Tasks
    <3>2. QED
      BY <1>1, <2>3, <2>4, <3>1, ClaimIsOfTask
  <2>6. CASE Head(main).job \in Malformed
    <3>1. Put(t, Resting)
      BY <2>1, <2>6 DEF Call
    <3>2. Resting.claim = None /\ Resting.todo = {}
      BY DEF Resting
    <3>3. QED
      BY <1>2, <2>2, <2>5, <3>1, <3>2
  <2>7. CASE Head(main).job \notin Malformed
    <3>1. PICK l : l = [Resting EXCEPT !.at = "claimed", !.claim = m]
      OBVIOUS
    <3>2. Put(t, l)
      BY <2>1, <2>7, <3>1, Faultless DEF Call, Unspoilt, Bounds
    <3>3. l.at = "claimed" /\ l.claim = m /\ ~l.relinquished
      BY <3>1 DEF Resting
    <3>4. lease'[m] = "live"
      BY <1>1, <2>2, <2>7 DEF ClaimNextEncodeJob
    <3>5. \A u \in Tasks : task'[u] = IF u = t THEN l ELSE task[u]
      BY <1>1, <3>2 DEF Put, WorkerInv
    <3>6. ASSUME NEW q \in Processes PROVE Working(task[Loop(q)])'
      <4>1. CASE q = p
        BY <1>1, <3>3, <3>4, <3>5, <4>1 DEF Working
      <4>2. CASE q # p
        <5>1. task'[Loop(q)] = task[Loop(q)]
          BY <3>5, <4>2 DEF Loop, Tasks
        <5>2. QED
          BY <1>1, <2>5, <5>1 DEF Working
      <4>3. QED
        BY <4>1, <4>2
    <3>7. Apart'
      <4>1. SUFFICES ASSUME NEW q \in Processes, NEW r \in Reapers, task'[Loop(q)].claim # None
                     PROVE  task'[Reaper(r)].claim # task'[Loop(q)].claim /\ task'[Loop(q)].claim \notin task'[Reaper(r)].todo
        BY DEF Apart
      <4>2. Reaper(r) \in Tasks /\ Loop(q) \in Tasks /\ task'[Reaper(r)] = task[Reaper(r)]
        BY <3>5, LoopIsNoReaper DEF Tasks
      <4>3. CASE q = p
        BY <2>3, <3>3, <3>5, <4>2, <4>3
      <4>4. CASE q # p
        <5>1. task'[Loop(q)] = task[Loop(q)]
          BY <3>5, <4>2, <4>4 DEF Loop
        <5>2. QED
          BY <1>1, <4>1, <4>2, <5>1 DEF Apart
      <4>5. QED
        BY <4>3, <4>4
    <3>8. QED
      BY <1>1, <2>2, <3>6, <3>7 DEF CrashInv
  <2>8. QED
    BY <2>6, <2>7
<1>5. QED
  BY <1>3, <1>4

\* Another task's work leaves the loops' claims what they are.
LEMMA OthersUnspoilt ==
  ASSUME Unspoilt, UNCHANGED <<handler, revived>>, Apart',
         \A p \in Processes : task'[Loop(p)] = task[Loop(p)],
         \A p \in Processes : task[Loop(p)].claim # None => lease'[task[Loop(p)].claim] = lease[task[Loop(p)].claim]
  PROVE  CrashInv'
<1>1. \A p \in Processes : handler[p] = "up" /\ Working(task[Loop(p)])
  BY DEF Unspoilt, CrashInv
<1>2. \A p \in Processes : Working(task[Loop(p)])'
  BY <1>1 DEF Working
<1>3. QED
  BY <1>1, <1>2 DEF Unspoilt, CrashInv

\* A reaper lists stale claims, and no poll loop has one.
LEMMA ReaperUnspoilt ==
  ASSUME Unspoilt, NEW p \in Reapers, ReaperStep(p)
  PROVE  CrashInv'
<1> DEFINE t == Reaper(p)
           m == task[t].claim
<1>1. t \in Tasks /\ WorkerInv /\ Roles /\ task[t] \in Local /\ lease \in [ClaimIds -> {"none", "live", "stale"}]
      /\ Apart
  BY DEF Tasks, Unspoilt, CrashInv, WorkerInv, Fit, Shared, QueueInv, QueueTypeOK
<1>2. ASSUME NEW l, Put(t, l), UNCHANGED <<handler, revived, lease>>,
             \A q \in Processes : task[Loop(q)].claim # None =>
               l.claim # task[Loop(q)].claim /\ task[Loop(q)].claim \notin l.todo
      PROVE  CrashInv'
  <2>1. \A u \in Tasks : task'[u] = IF u = t THEN l ELSE task[u]
    BY <1>1, <1>2 DEF Put, WorkerInv
  <2>2. \A q \in Processes : task'[Loop(q)] = task[Loop(q)]
    BY <2>1, LoopIsNoReaper DEF Tasks
  <2>3. \A r \in Reapers : task'[Reaper(r)] = task[Reaper(r)] \/ task'[Reaper(r)] = l
    BY <2>1 DEF Tasks
  <2>4. Apart'
    BY <1>1, <1>2, <2>2, <2>3 DEF Apart
  <2>5. QED
    BY <1>2, <2>2, <2>4, OthersUnspoilt
<1>3. CASE ReapStart(p)
  <2>1. PICK l : /\ l = [Resting EXCEPT !.at = "reap", !.mode = "reap",
                                        !.todo = {n \in ClaimIds : lease[n] = "stale"}]
                 /\ Put(t, l)
    BY <1>3 DEF ReapStart
  <2>2. l.claim = None /\ l.todo = {n \in ClaimIds : lease[n] = "stale"}
    BY <2>1 DEF Resting
  <2>3. \A q \in Processes : task[Loop(q)].claim # None => lease[task[Loop(q)].claim] # "stale"
    BY DEF Unspoilt, CrashInv, Working
  <2>4. UNCHANGED <<handler, revived, lease>>
    BY <1>3 DEF ReapStart, queueVars, redis, history
  <2>5. QED
    BY <1>2, <2>1, <2>2, <2>3, <2>4
<1>4. CASE Reap(p)
  <2>1. UNCHANGED <<handler, revived, lease>>
    BY <1>4 DEF Reap, Read, Call, Nothing, queueVars, redis, history
  <2>2. CASE Put(t, Resting)
    <3>1. Resting.claim = None /\ Resting.todo = {}
      BY DEF Resting
    <3>2. QED
      BY <1>2, <2>1, <2>2, <3>1
  <2>3. CASE task[t].todo # {}
    <3>1. PICK n \in task[t].todo :
            \E at \in {"succeed", "guess"} :
              Put(t, [[task[t] EXCEPT !.claim = n, !.todo = @ \ {n}] EXCEPT !.at = at])
      BY <1>4, <2>3 DEF Reap, Read, Call
    <3>2. PICK at \in {"succeed", "guess"}, l \in Local :
            l = [[task[t] EXCEPT !.claim = n, !.todo = @ \ {n}] EXCEPT !.at = at] /\ Put(t, l)
      <4>1. \A at \in {"succeed", "guess"} :
              [[task[t] EXCEPT !.claim = n, !.todo = @ \ {n}] EXCEPT !.at = at] \in Local
        BY <1>1 DEF Local, Labels
      <4>2. QED
        BY <3>1, <4>1
    <3>3. l.claim = n /\ l.todo = task[t].todo \ {n}
      BY <1>1, <3>2 DEF Local
    <3>4. \A q \in Processes : task[Loop(q)].claim # None =>
            l.claim # task[Loop(q)].claim /\ task[Loop(q)].claim \notin l.todo
      BY <1>1, <3>1, <3>3 DEF Apart
    <3>5. QED
      BY <1>2, <2>1, <3>2, <3>4
  <2>4. QED
    BY <1>4, <2>2, <2>3 DEF Reap
<1>5. CASE Guess(p) \/ ReleaseFailed(p) \/ RequeueStale(p)
  <2>1. PICK l : Put(t, l) /\ Follows(t, l)
    BY <1>1, <1>5, ReaperFollows
  <2>2. UNCHANGED <<handler, revived>> /\ \A n \in ClaimIds : n # m => lease'[n] = lease[n]
    BY <1>1, <1>5 DEF Guess, ReleaseFailed, RequeueStale, Read, Call, Redis, Nothing, ReleaseProcessingJob,
       RequeueProcessingJob, queueVars, redis, history
  <2>3. QED
    BY <2>1, <2>2, UnspoiltReaper
<1>6. QED
  BY <1>3, <1>4, <1>5 DEF ReaperStep

\* No signal comes, no lease of a running loop ends; a crash takes the claims along.
LEMMA ProcessUnspoilt ==
  ASSUME Unspoilt, NEW p \in Processes,
         EncodeProgress(p) \/ Heartbeat(p) \/ Sigterm(p) \/ HandlerStep(p) \/ Crash(p)
  PROVE  CrashInv'
<1> DEFINE t == Loop(p)
           m == task[t].claim
<1>1. t \in Tasks /\ WorkerInv /\ Roles /\ task[t] \in Local /\ lease \in [ClaimIds -> {"none", "live", "stale"}]
      /\ revived = {} /\ Apart /\ \A q \in Processes : handler[q] = "up" /\ Working(task[Loop(q)])
  BY DEF Tasks, Unspoilt, CrashInv, WorkerInv, Fit, Shared, QueueInv, QueueTypeOK
<1>2. ~Spend("sigterm")
  BY Faultless DEF Unspoilt, Bounds
<1>3. CASE EncodeProgress(p)
  <2>1. UNCHANGED <<task, handler, revived, lease>>
    BY <1>3 DEF EncodeProgress, Redis, SetEncodeProgress, history
  <2>2. Apart'
    BY <1>1, <2>1 DEF Apart
  <2>3. QED
    BY <2>1, <2>2, OthersUnspoilt
<1>4. CASE Heartbeat(p)
  <2>1. m # None /\ ~At(t, "resolve") /\ m \in ClaimIds
    BY <1>1, <1>4, ClaimIsOfTask DEF Heartbeat, Beating
  <2>2. lease[m] # "stale"
    BY <1>1, <2>1 DEF Working
  <2>3. lease[m] = "none" /\ Put(t, [task[t] EXCEPT !.relinquished = TRUE]) /\ Nothing /\ UNCHANGED handler
    BY <1>4, <2>2 DEF Heartbeat, Present
  <2>4. task[t].at = "postponed"
    BY <1>1, <2>1, <2>3 DEF Working, At
  <2>5. PICK l : l = [task[t] EXCEPT !.relinquished = TRUE]
    OBVIOUS
  <2>6. l.at = "postponed" /\ l.claim = m /\ l.mode = task[t].mode /\ l.todo = task[t].todo
    BY <1>1, <2>4, <2>5 DEF Local
  <2>7. Follows(t, l)
    BY <2>6 DEF Follows
  <2>8. UNCHANGED <<lease, revived>>
    BY <2>3 DEF Nothing, queueVars, redis, history
  <2>9. QED
    BY <2>2, <2>3, <2>5, <2>6, <2>7, <2>8, UnspoiltLoop
<1>5. CASE Sigterm(p)
  BY <1>2, <1>5 DEF Sigterm
<1>6. CASE HandlerStep(p)
  BY <1>1, <1>6 DEF HandlerStep, DrainEnds, HandOff, Settled, Exit
<1>7. CASE Crash(p)
  <2>1. \A u \in Tasks : task'[u] = Resting \/ task'[u] = task[u]
    BY <1>7 DEF Crash, Replaced
  <2>2. Resting.claim = None /\ Resting.todo = {}
    BY DEF Resting
  <2>3. (\A q \in Processes : Loop(q) \in Tasks) /\ (\A q \in Reapers : Reaper(q) \in Tasks)
    BY DEF Tasks
  <2>4. UNCHANGED <<lease, revived>> /\ handler' = [handler EXCEPT ![p] = "up"]
    BY <1>7 DEF Crash, Replaced, Nothing, queueVars, redis, history
  <2>5. Apart'
    <3>1. \A u \in Tasks : task'[u].claim \in {None, task[u].claim} /\ task'[u].todo \subseteq task[u].todo
      BY <2>1, <2>2
    <3>2. QED
      BY <1>1, <2>3, <3>1 DEF Apart
  <2>6. \A q \in Processes : Working(task[Loop(q)])'
    BY <1>1, <2>1, <2>2, <2>3, <2>4 DEF Working
  <2>7. \A q \in Processes : handler'[q] = "up"
    BY <1>1, <2>4 DEF WorkerInv
  <2>8. QED
    BY <1>1, <2>4, <2>5, <2>6, <2>7 DEF CrashInv
<1>8. QED
  BY <1>3, <1>4, <1>5, <1>6, <1>7

LEMMA OutsideUnspoilt ==
  ASSUME Unspoilt,
         \/ \E m \in ClaimIds : LeaseEnds(m) \/ Stall(m)
         \/ \E ready \in SUBSET retry : RetriesComeDue(ready)
         \/ \E v \in Movies : ProgressTtl(v) \/ DeleteMovie(v)
         \/ \E object \in erasing : Erase(object)
  PROVE  CrashInv'
<1>1. lease \in [ClaimIds -> {"none", "live", "stale"}] /\ ~Spend("stall")
  BY Faultless DEF Unspoilt, Bounds, WorkerInv, Shared, QueueInv, QueueTypeOK
<1>2. UNCHANGED <<task, handler>>
  BY DEF LeaseEnds, Stall, RetriesComeDue, ProgressTtl, DeleteMovie, Erase
<1>3. UNCHANGED revived
  BY DEF LeaseEnds, Stall, RetriesComeDue, ProgressTtl, DeleteMovie, Erase, Redis, LeaseRunsOut,
     ProcessRetryQueue, ProgressExpires, queueVars, history
<1>4. \A p \in Processes : task[Loop(p)].claim # None => lease'[task[Loop(p)].claim] = lease[task[Loop(p)].claim]
  <2>1. ASSUME NEW m \in ClaimIds, LeaseEnds(m) \/ Stall(m), NEW p \in Processes, task[Loop(p)].claim # None
        PROVE  lease'[task[Loop(p)].claim] = lease[task[Loop(p)].claim]
    <3>1. task[Loop(p)].claim \in ClaimIds
      BY <2>1, ClaimIsOfTask DEF Unspoilt, Tasks
    <3>2. task[Loop(p)].claim # m
      BY <1>1, <2>1 DEF LeaseEnds, Stall
    <3>3. QED
      BY <1>1, <2>1, <3>1, <3>2 DEF LeaseEnds, Stall, Redis, LeaseRunsOut
  <2>2. QED
    BY <2>1 DEF RetriesComeDue, ProgressTtl, DeleteMovie, Erase, Redis, ProcessRetryQueue,
       ProgressExpires, queueVars, redis
<1>5. Apart'
  BY <1>2 DEF Unspoilt, CrashInv, Apart
<1>6. QED
  BY <1>2, <1>3, <1>4, <1>5, OthersUnspoilt

LEMMA CrashInit == WorkerInit => CrashInv
BY DEF WorkerInit, CrashInv, Working, Apart, Resting, Tasks, Loop, Reaper

LEMMA CrashNext == WorkerInv /\ Roles /\ CrashInv /\ [WorkerNext]_workerVars => CrashInv'
<1> SUFFICES ASSUME WorkerInv, Roles, CrashInv, [WorkerNext]_workerVars, OnlyCrashes' PROVE CrashInv'
  BY DEF CrashInv
<1>1. OnlyCrashes
  <2>1. UNCHANGED scenario \/ \E what \in Bounds : Spend(what)
    BY ScenarioStep
  <2>2. UNCHANGED scenario.bounds
    BY <2>1 DEF Spend, WorkerInv, BoundsTypeOK, Scenario
  <2>3. QED
    BY <2>2 DEF OnlyCrashes
<1>2. Unspoilt
  BY <1>1 DEF Unspoilt
<1>3. CASE UNCHANGED workerVars
  BY <1>3 DEF workerVars, queueVars, redis, history, CrashInv, OnlyCrashes, Working, Apart
<1>4. CASE ~UNCHANGED workerVars
  BY <1>2, <1>4, LoopUnspoilt, ClaimUnspoilt, FinalUnspoilt, ReaperUnspoilt, ProcessUnspoilt, OutsideUnspoilt
     DEF WorkerNext
<1>5. QED
  BY <1>3, <1>4

\* While a worker is about to write how a job ended, no other claim on that job
\* is held, whenever processes crash and come back, as long as no lease is lost
\* under its running owner.
THEOREM TerminalWriterAlone == WorkerSpec => []OneTerminalWriter
<1>1. WorkerInv /\ Roles /\ CrashInv => OneTerminalWriter
  <2> SUFFICES ASSUME WorkerInv, Roles, CrashInv, OnlyCrashes, NEW p \in Processes,
                      task[Loop(p)].at \in TerminalWrites, NEW m \in ClaimIds, HeldBy(m, Job(Loop(p)))
               PROVE  m = task[Loop(p)].claim
    BY DEF OneTerminalWriter, OnlyCrashes
  <2>1. AtWork(p)
    BY DEF AtWork, TerminalWrites
  <2>2. task[Loop(p)].claim \in ClaimIds /\ lease[task[Loop(p)].claim] = "live"
    BY <2>1, WorkGoes DEF Unspoilt
  <2>3. Job(Loop(p)) \in Jobs
    BY <2>1, Goes DEF AtWork, Tasks
  <2>4. HeldBy(task[Loop(p)].claim, Job(Loop(p)))
    BY <2>2 DEF HeldBy, Present, Job
  <2>5. AtMostOnce(Job(Loop(p)))
    BY <2>3 DEF WorkerInv, Shared, QueueInv, OnePlace, Loose, CrashInv
  <2>6. QED
    BY <2>2, <2>4, <2>5 DEF AtMostOnce
<1>2. WorkerSpec => []CrashInv
  BY WorkerInvariance, RolesInvariance, CrashInit, CrashNext, PTL DEF WorkerSpec
<1>3. QED
  BY WorkerInvariance, RolesInvariance, <1>1, <1>2, PTL

-----------------------------------------------------------------------------
(***************************************************************************)
(* No movie is forgotten.  A claim is given up only when the movie is      *)
(* settled or its job is a dead letter, or when it is not this worker's to *)
(* settle any more.                                                        *)
(***************************************************************************)
\* One call may fail: after two, the dead letter may be missing as well.
OneFault == UploadedOnce /\ scenario.bounds["fault"] <= 1

\* A movie is settled, or an operator can settle it.
Over(v) == variant[v].status # "PROCESSING" \/ \E j \in sent : j.movieId = v /\ j \in dead

\* A claim of this task's is no longer its to settle.
Lost(l) == l.relinquished \/ ~Present(l.claim)

Minds(l) ==
  /\ l.at \in {"failProgress", "failCallback", "release"} => Over(JobOf(l.claim).movieId)
  /\ l.at = "retry" => claims[l.claim].retryCount < MaxRetry
  /\ l.at \in {"handBack", "handedBack"} => l.relinquished
  /\ l.at = "postponed" => Lost(l)
  /\ l.at = "resolve" => Lost(l) \/ l.committed \/ Over(JobOf(l.claim).movieId)
  /\ l.mode = "loop" => /\ l.at \in {"dead", "failProgress", "failCallback", "resolve"}
                        /\ l.at = "dead" => Lost(l) \/ scenario.left["fault"] = 0

Settling ==
  /\ \A v \in Movies : \E j \in sent : j.movieId = v
  /\ \A j \in resolved : Over(j.movieId)
  /\ \A v \in Movies : progress[v] = "failed" => Over(v)
  /\ \A t \in Tasks : Minds(task[t])

AccountInv == OneFault => Settling

Careful == Informed /\ Roles /\ OneFault /\ Settling

\* What a step of the workers does to the queue.
LEMMA QueueEffect ==
  ASSUME [WorkerNext]_workerVars, WorkerInv
  PROVE  \/ UNCHANGED queueVars
         \/ \E m \in ClaimIds : ClaimNextEncodeJob(m) \/ OwnerCall(m) \/ LeaseRunsOut(m)
         \/ \E ready \in SUBSET retry : ProcessRetryQueue(ready)
         \/ \E v \in Movies : ProgressExpires(v) \/ \E s \in Status : SetEncodeProgress(v, s)
         \/ \E j \in Jobs : AddJobToDeadLetterQueue(j)
         \/ \E p \in Processes : HandOff(p) /\ ExpireProcessingJob(task[Loop(p)].claim)
<1> DEFINE Goal ==
             \/ UNCHANGED queueVars
             \/ \E m \in ClaimIds : ClaimNextEncodeJob(m) \/ OwnerCall(m) \/ LeaseRunsOut(m)
             \/ \E ready \in SUBSET retry : ProcessRetryQueue(ready)
             \/ \E v \in Movies : ProgressExpires(v) \/ \E s \in Status : SetEncodeProgress(v, s)
             \/ \E j \in Jobs : AddJobToDeadLetterQueue(j)
             \/ \E p \in Processes : HandOff(p) /\ ExpireProcessingJob(task[Loop(p)].claim)
<1>1. ASSUME NEW t \in Tasks, task[t].at \notin {"idle", "poll", "reap"}
      PROVE  task[t].claim \in ClaimIds /\ Job(t) \in Jobs /\ Job(t).movieId \in Movies
  BY <1>1, Goes
<1>2. \A p \in Processes : Loop(p) \in Tasks
  BY DEF Tasks
<1>3. \A p \in Reapers : Reaper(p) \in Tasks
  BY DEF Tasks
<1>4. Status = {"queued", "processing", "retrying", "completed", "failed"}
  BY DEF Status
<1>5. ASSUME NEW p \in Processes,
             BeginPoll(p) \/ FindNothing(p) \/ CheckCompletion(p) \/ Inspect(p) \/ Download(p)
             \/ Encode(p) \/ Upload(p) \/ Reconcile(p) \/ DeleteSource(p)
      PROVE  UNCHANGED queueVars
  BY <1>5 DEF BeginPoll, FindNothing, CheckCompletion, Inspect, Download, Encode, Upload, Reconcile, DeleteSource,
     Read, Call, Nothing, queueVars
<1>6. ASSUME NEW p \in Processes, Begin(p) \/ StartStage(p) \/ ReportPostponed(p) \/ ReportHandedBack(p) \/ EncodeProgress(p)
      PROVE  Goal
  <2>1. Loop(p) \in Tasks /\ task[Loop(p)].at \notin {"idle", "poll", "reap"}
    BY <1>2, <1>6 DEF Begin, StartStage, ReportPostponed, ReportHandedBack, EncodeProgress, At
  <2>2. UNCHANGED queueVars \/ \E s \in {"processing", "retrying", "queued"} : SetEncodeProgress(Job(Loop(p)).movieId, s)
    BY <1>6 DEF Begin, StartStage, ReportPostponed, ReportHandedBack, EncodeProgress, Report, Call, Redis, Nothing
  <2>3. QED
    BY <1>1, <1>4, <2>1, <2>2
<1>7. ASSUME NEW p \in Processes, Claim(p) PROVE Goal
  BY <1>7 DEF Claim, Call, Redis, Nothing
<1>8. ASSUME NEW p \in Processes, Commit(p) \/ Recommit(p) \/ Postpone(p) \/ GiveBack(p) PROVE Goal
  <2>1. Loop(p) \in Tasks /\ task[Loop(p)].at \notin {"idle", "poll", "reap"}
    BY <1>2, <1>8 DEF Commit, Recommit, Postpone, GiveBack, At
  <2>2. UNCHANGED queueVars \/ OwnerCall(task[Loop(p)].claim)
    BY <1>8 DEF Commit, Recommit, Postpone, GiveBack, IfHeld, Read, Call, Redis, Nothing, OwnerCall
  <2>3. QED
    BY <1>1, <2>1, <2>2
<1>9. ASSUME NEW p \in Processes, Resolve(p) PROVE Goal
  <2>1. Loop(p) \in Tasks /\ task[Loop(p)].at \notin {"idle", "poll", "reap"}
    BY <1>2, <1>9 DEF Resolve, At
  <2>2. UNCHANGED queueVars \/ OwnerCall(task[Loop(p)].claim)
    BY <1>9 DEF Resolve, Call, Redis, Nothing, OwnerCall
  <2>3. QED
    BY <1>1, <2>1, <2>2
<1>10. ASSUME NEW p \in Processes, LoopStep(p) PROVE Goal
  BY <1>5, <1>6, <1>7, <1>8, <1>9, <1>10 DEF LoopStep
<1>11. ASSUME NEW t \in Tasks, FinalStep(t) PROVE Goal
  <2>1. task[t].at \notin {"idle", "poll", "reap"}
    BY <1>11 DEF FinalStep, Succeed, SucceedCallback, DiscardOutput, DropRejected, DeadLetter,
       ReportFailure, FailCallback, FinishFinalized, At
  <2>2. \/ UNCHANGED queueVars
        \/ \E s \in {"completed", "failed"} : SetEncodeProgress(Job(t).movieId, s)
        \/ AddJobToDeadLetterQueue(Job(t))
        \/ OwnerCall(task[t].claim)
    BY <1>11 DEF FinalStep, Succeed, SucceedCallback, DiscardOutput, DropRejected, DeadLetter,
       ReportFailure, FailCallback, FinishFinalized, Report, Read, Call, Redis, Nothing, Callback, Discard, OwnerCall
  <2>3. QED
    BY <1>1, <1>4, <2>1, <2>2
<1>12. ASSUME NEW p \in Reapers, ReaperStep(p) PROVE Goal
  <2>1. CASE ReapStart(p) \/ Reap(p) \/ Guess(p)
    BY <2>1 DEF ReapStart, Reap, Guess, Read, Call, Nothing
  <2>2. CASE ReleaseFailed(p) \/ RequeueStale(p)
    <3>1. Reaper(p) \in Tasks /\ task[Reaper(p)].at \notin {"idle", "poll", "reap"}
      BY <1>3, <2>2 DEF ReleaseFailed, RequeueStale, At
    <3>2. UNCHANGED queueVars \/ OwnerCall(task[Reaper(p)].claim)
      BY <2>2 DEF ReleaseFailed, RequeueStale, Read, Call, Redis, Nothing, OwnerCall
    <3>3. QED
      BY <1>1, <3>1, <3>2
  <2>3. QED
    BY <1>12, <2>1, <2>2 DEF ReaperStep
<1>13. ASSUME NEW p \in Processes, Heartbeat(p) \/ Sigterm(p) \/ HandlerStep(p) \/ Crash(p) PROVE Goal
  <2>1. CASE Sigterm(p) \/ DrainEnds(p) \/ Settled(p) \/ Exit(p) \/ Crash(p)
    BY <2>1 DEF Sigterm, DrainEnds, Settled, Exit, Crash, Replaced, Nothing
  <2>2. CASE Heartbeat(p)
    <3>1. UNCHANGED queueVars \/ RefreshProcessingJob(task[Loop(p)].claim)
      BY <2>2 DEF Heartbeat, Redis, Nothing
    <3>2. task[Loop(p)].claim \in ClaimIds
      BY <1>2, <2>2 DEF Heartbeat, Beating, WorkerInv, Fit, Local
    <3>3. QED
      BY <3>1, <3>2 DEF OwnerCall
  <2>3. CASE HandOff(p)
    <3>1. \/ UNCHANGED queueVars \/ RequeueProcessingJob(task[Loop(p)].claim)
          \/ ExpireProcessingJob(task[Loop(p)].claim)
      BY <2>3 DEF HandOff, Redis, Nothing
    <3>2. task[Loop(p)].claim \in ClaimIds
      BY <1>2, <2>3 DEF HandOff, WorkerInv, Fit, Local
    <3>3. QED
      BY <2>3, <3>1, <3>2 DEF OwnerCall
  <2>4. QED
    BY <1>13, <2>1, <2>2, <2>3 DEF HandlerStep
<1>14. ASSUME \/ \E m \in ClaimIds : LeaseEnds(m) \/ Stall(m)
              \/ \E ready \in SUBSET retry : RetriesComeDue(ready)
              \/ \E v \in Movies : ProgressTtl(v) \/ DeleteMovie(v)
              \/ \E object \in erasing : Erase(object)
       PROVE  Goal
  BY <1>14 DEF LeaseEnds, Stall, RetriesComeDue, ProgressTtl, DeleteMovie, Erase, Redis
<1>15. QED
  BY <1>6, <1>10, <1>11, <1>12, <1>13, <1>14 DEF WorkerNext, workerVars

\* A claim that is gone stays so, but for a hand-off that puts its own back.
LEMMA QueueKeeps ==
  ASSUME [WorkerNext]_workerVars, WorkerInv
  PROVE  /\ ClaimsKept /\ sent' = sent /\ dead \subseteq dead'
         /\ \A m \in ClaimIds : Issued(m) /\ ~Present(m) /\ Present(m)' =>
              \E p \in Processes : HandOff(p) /\ m = task[Loop(p)].claim
<1> DEFINE Back(m) == \E p \in Processes : HandOff(p) /\ m = task[Loop(p)].claim
           Goal == /\ ClaimsKept /\ sent' = sent /\ dead \subseteq dead'
                   /\ \A m \in ClaimIds : Issued(m) /\ ~Present(m) /\ Present(m)' => Back(m)
<1>1. lease \in [ClaimIds -> {"none", "live", "stale"}] /\ claims \in [ClaimIds -> Entry \cup {NoEntry}]
  BY DEF WorkerInv, Shared, QueueInv, QueueTypeOK
<1>2. ASSUME UNCHANGED <<claims, sent, lease>>, dead \subseteq dead' PROVE Goal
  BY <1>2 DEF ClaimsKept, Present
<1>3. ASSUME NEW m \in ClaimIds, ClaimNextEncodeJob(m) PROVE Goal
  <2>1. ~Issued(m) /\ sent' = sent /\ dead \subseteq dead'
        /\ \A n \in ClaimIds \ {m} : claims'[n] = claims[n] /\ lease'[n] = lease[n]
    BY <1>1, <1>3 DEF ClaimNextEncodeJob
  <2>2. QED
    BY <2>1 DEF ClaimsKept, Present
<1>4. ASSUME NEW m \in ClaimIds, OwnerCall(m) \/ LeaseRunsOut(m) PROVE Goal
  <2>1. claims' = claims /\ sent' = sent /\ dead \subseteq dead'
        /\ \A n \in ClaimIds : lease[n] = "none" => lease'[n] = "none"
    BY <1>1, <1>4 DEF OwnerCall, AddJobToRetryQueue, DeferJobForInfrastructure, CommitProcessingJob,
       FinishProcessingJob, ReleaseProcessingJob, RefreshProcessingJob, RequeueProcessingJob, LeaseRunsOut,
       Present, history
  <2>2. QED
    BY <2>1 DEF ClaimsKept, Present
<1>5. ASSUME \/ \E ready \in SUBSET retry : ProcessRetryQueue(ready)
             \/ \E v \in Movies : ProgressExpires(v) \/ \E s \in Status : SetEncodeProgress(v, s)
             \/ \E j \in Jobs : AddJobToDeadLetterQueue(j)
             \/ UNCHANGED queueVars
      PROVE  Goal
  <2>1. UNCHANGED <<claims, sent, lease>> /\ dead \subseteq dead'
    BY <1>5 DEF ProcessRetryQueue, ProgressExpires, SetEncodeProgress, AddJobToDeadLetterQueue, queueVars, redis, history
  <2>2. QED
    BY <1>2, <2>1
<1>6. ASSUME NEW p \in Processes, HandOff(p), ExpireProcessingJob(task[Loop(p)].claim) PROVE Goal
  <2>1. claims' = claims /\ sent' = sent /\ dead \subseteq dead'
        /\ \A n \in ClaimIds : n # task[Loop(p)].claim => lease'[n] = lease[n]
    BY <1>1, <1>6 DEF ExpireProcessingJob
  <2>2. QED
    BY <1>6, <2>1 DEF ClaimsKept, Present
<1>7. QED
  BY <1>3, <1>4, <1>5, <1>6, QueueEffect

\* Who writes the rows: a deletion, and the callbacks.
LEMMA RowsMove ==
  ASSUME [WorkerNext]_workerVars
  PROVE  \/ UNCHANGED variant
         \/ \E v \in Movies : DeleteMovie(v)
         \/ \E t \in Tasks : SucceedCallback(t) /\ Callback(Job(t), "READY")
         \/ \E t \in Tasks : FailCallback(t) /\ Callback(Job(t), "FAILED")
<1>1. ASSUME NEW t \in Tasks, SucceedCallback(t) PROVE UNCHANGED variant \/ Callback(Job(t), "READY")
  BY <1>1 DEF SucceedCallback, Read, Call, Nothing, store
<1>2. ASSUME NEW t \in Tasks, FailCallback(t) PROVE UNCHANGED variant \/ Callback(Job(t), "FAILED")
  BY <1>2 DEF FailCallback, Call, Nothing, store
<1>3. ASSUME NEW t \in Tasks, FinalStep(t), ~SucceedCallback(t), ~FailCallback(t) PROVE UNCHANGED variant
  BY <1>3 DEF FinalStep, Succeed, DiscardOutput, DropRejected, DeadLetter, ReportFailure, FinishFinalized,
     Report, Call, Redis, Nothing, Discard, store
<1>4. ASSUME NEW p \in Processes, LoopStep(p) PROVE UNCHANGED variant
  <2>1. CASE BeginPoll(p) \/ FindNothing(p) \/ CheckCompletion(p) \/ Begin(p)
    BY <2>1 DEF BeginPoll, FindNothing, CheckCompletion, Begin, Report, Read, Call, Redis, Nothing, store
  <2>2. CASE StartStage(p) \/ Download(p) \/ Encode(p) \/ Upload(p) \/ Commit(p) \/ Reconcile(p)
    BY <2>2 DEF StartStage, Download, Encode, Upload, Commit, Reconcile, IfHeld, Report, Read, Call, Redis, Nothing, store
  <2>3. CASE DeleteSource(p) \/ Recommit(p) \/ Postpone(p) \/ ReportPostponed(p) \/ GiveBack(p)
    BY <2>3 DEF DeleteSource, Recommit, Postpone, ReportPostponed, GiveBack, IfHeld, Report, Read, Call, Redis, Nothing, store
  <2>4. CASE ReportHandedBack(p) \/ Resolve(p)
    BY <2>4 DEF ReportHandedBack, Resolve, Report, Call, Redis, Nothing, store
  <2>5. CASE Inspect(p)
    BY <2>5 DEF Inspect, Read, Call, Nothing, store
  <2>6. CASE Claim(p)
    BY <2>6, Zenon DEF Claim, Call, Redis, Nothing, store
  <2>7. QED
    BY <1>4, <2>1, <2>2, <2>3, <2>4, <2>5, <2>6 DEF LoopStep
<1>5. ASSUME NEW p \in Reapers, ReaperStep(p) PROVE UNCHANGED variant
  <2>1. CASE ReapStart(p) \/ Reap(p)
    BY <2>1, Zenon DEF ReapStart, Reap, Read, Call, Nothing, store
  <2>2. CASE Guess(p) \/ ReleaseFailed(p) \/ RequeueStale(p)
    BY <2>2 DEF Guess, ReleaseFailed, RequeueStale, Read, Call, Redis, Nothing, store
  <2>3. QED
    BY <1>5, <2>1, <2>2 DEF ReaperStep
<1>6. ASSUME NEW p \in Processes, EncodeProgress(p) \/ Heartbeat(p) \/ Sigterm(p) \/ HandlerStep(p) \/ Crash(p)
      PROVE  UNCHANGED variant
  BY <1>6 DEF EncodeProgress, Heartbeat, Sigterm, HandlerStep, DrainEnds, HandOff, Settled, Exit, Crash, Replaced,
     Redis, Nothing, store
<1>7. ASSUME \/ \E m \in ClaimIds : LeaseEnds(m) \/ Stall(m)
             \/ \E ready \in SUBSET retry : RetriesComeDue(ready)
             \/ \E w \in Movies : ProgressTtl(w)
             \/ \E object \in erasing : Erase(object)
      PROVE  UNCHANGED variant
  BY <1>7 DEF LeaseEnds, Stall, RetriesComeDue, ProgressTtl, Erase, Redis, store
<1>8. QED
  BY <1>1, <1>2, <1>3, <1>4, <1>5, <1>6, <1>7 DEF WorkerNext, workerVars, store

\* A movie does not go back to processing, and keeps its upload.
LEMMA StatusKept ==
  ASSUME [WorkerNext]_workerVars, WorkerInv, NEW v \in Movies
  PROVE  /\ variant[v].status # "PROCESSING" => variant'[v].status # "PROCESSING"
         /\ variant'[v].s3Key = variant[v].s3Key
<1>1. variant \in [Movies -> [status : {"PROCESSING", "READY", "FAILED", "DELETED"}, s3Key : Keys]]
  BY DEF WorkerInv, Shared, StoreTypeOK
<1>2. CASE UNCHANGED variant
  BY <1>2
<1>3. ASSUME NEW w \in Movies, DeleteMovie(w) PROVE variant'[v].status # "PROCESSING" \/ variant'[v] = variant[v]
  BY <1>1, <1>3 DEF DeleteMovie
<1>4. ASSUME NEW w \in Movies, DeleteMovie(w) PROVE variant'[v].s3Key = variant[v].s3Key
  <2>1. variant' = [variant EXCEPT ![w] = [variant[w] EXCEPT !.status = "DELETED"]]
    BY <1>4 DEF DeleteMovie
  <2>2. QED
    BY <1>1, <2>1
<1>5. ASSUME NEW t \in Tasks, NEW status \in {"READY", "FAILED"}, Callback(Job(t), status),
             SucceedCallback(t) \/ FailCallback(t)
      PROVE  /\ variant[v].status # "PROCESSING" => variant'[v].status # "PROCESSING"
             /\ variant'[v].s3Key = variant[v].s3Key
  <2>1. Job(t).movieId \in Movies
    BY <1>5, Goes DEF SucceedCallback, FailCallback, At
  <2>2. QED
    BY <1>1, <1>5, <2>1 DEF Callback
<1>6. QED
  BY <1>2, <1>3, <1>4, <1>5, RowsMove

\* What a task minds stays true.
WorldKept ==
  /\ ClaimsKept
  /\ \A v \in Movies : Over(v) => Over(v)'
  /\ scenario.left["fault"] = 0 => scenario'.left["fault"] = 0
GoneKept == \A m \in ClaimIds : Issued(m) /\ ~Present(m) => ~Present(m)'

LEMMA WorldKeeps ==
  ASSUME [WorkerNext]_workerVars, WorkerInv
  PROVE  WorldKept /\ (UNCHANGED handler => GoneKept)
<1>1. ClaimsKept /\ sent' = sent /\ dead \subseteq dead'
  BY QueueKeeps
<1>2. \A v \in Movies : Over(v) => Over(v)'
  BY <1>1, StatusKept DEF Over
<1>3. ASSUME scenario.left["fault"] = 0 PROVE scenario'.left["fault"] = 0
  <2>1. scenario \in Scenario /\ scenario.left \in [Bounds -> Nat] /\ "fault" \in Bounds
    BY DEF WorkerInv, BoundsTypeOK, Scenario, Bounds
  <2>2. ASSUME NEW what \in Bounds, Spend(what) PROVE scenario'.left["fault"] = 0
    <3>1. what # "fault" /\ scenario' = [scenario EXCEPT !.left = [scenario.left EXCEPT ![what] = @ - 1]]
      BY <1>3, <2>2 DEF Spend
    <3>2. scenario'.left = [scenario.left EXCEPT ![what] = @ - 1]
      BY <2>1, <3>1 DEF Scenario
    <3>3. QED
      BY <1>3, <2>1, <3>1, <3>2
  <2>3. QED
    BY <1>3, <2>2, ScenarioStep
<1>4. ASSUME UNCHANGED handler PROVE GoneKept
  <2>1. \A p \in Processes : ~HandOff(p)
    BY <1>4 DEF HandOff, WorkerInv
  <2>2. QED
    BY <2>1, QueueKeeps DEF GoneKept
<1>5. QED
  BY <1>1, <1>2, <1>3, <1>4 DEF WorldKept

LEMMA StillMinds ==
  ASSUME WorkerInv, WorldKept, NEW l, Minds(l),
         l.at \notin {"idle", "poll", "reap"} => l.claim \in ClaimIds /\ Issued(l.claim),
         \/ l.at \in {"idle", "poll", "reap"}
         \/ l.relinquished
         \/ l.mode = "reap" /\ l.at \notin {"postponed", "resolve"}
         \/ ~Present(l.claim) => ~Present(l.claim)'
  PROVE  Minds(l)'
<1>1. CASE l.at \in {"idle", "poll", "reap"}
  BY <1>1 DEF Minds
<1>2. CASE l.at \notin {"idle", "poll", "reap"}
  <2>1. l.claim \in ClaimIds /\ Issued(l.claim) /\ JobOf(l.claim).movieId \in Movies
    BY <1>2, IssuedJob
  <2>2. claims'[l.claim] = claims[l.claim]
    BY <2>1 DEF WorldKept, ClaimsKept
  <2>3. Over(JobOf(l.claim).movieId) => Over(JobOf(l.claim).movieId)'
    <3>1. PICK v \in Movies : v = JobOf(l.claim).movieId
      BY <2>1
    <3>2. (JobOf(l.claim).movieId)' = v
      BY <2>2, <3>1 DEF JobOf
    <3>3. Over(v) => Over(v)'
      BY DEF WorldKept
    <3>4. Over(v)' => Over(JobOf(l.claim).movieId)'
      BY <3>2
    <3>5. QED
      BY <3>1, <3>3, <3>4
  <2>4. l.mode = "reap" => l.mode # "loop"
    OBVIOUS
  <2>5. l.relinquished \/ (l.mode = "reap" /\ l.at \notin {"postponed", "resolve"}) \/ (Lost(l) => Lost(l)')
    BY <1>2 DEF Lost
  <2>6. l.relinquished => Lost(l)'
    BY DEF Lost
  <2>7. QED
    BY <2>2, <2>3, <2>4, <2>5, <2>6 DEF Minds, WorldKept
<1>3. QED
  BY <1>1, <1>2

\* The labels at which a task minds nothing.
Carefree == Labels \ {"failProgress", "failCallback", "release", "retry", "handBack", "handedBack",
                      "postponed", "resolve"}

LEMMA MindGoes ==
  ASSUME Careful, NEW t \in Tasks, task[t].at \notin {"idle", "poll", "reap"}
  PROVE  /\ Minds(task[t])
         /\ task[t].mode # "loop" => \A label \in Carefree : Minds(Go(t, label))
         /\ \A mode \in Modes \ {"loop"} :
              /\ \A label \in Carefree : Minds(GoIn(t, label, mode))
              /\ \A b \in BOOLEAN : Minds(RetryOrDeadLetter(t, mode, b))
              /\ Minds(HandBack(t, mode))
         /\ task[t].relinquished => \A result : Minds(Return(t, result))
         /\ \A kind : Minds(Caught(t, kind))
         /\ \A l \in Thrown(t) : Minds(l)
<1>1. Minds(task[t]) /\ task[t] \in Local /\ task[t].relinquished \in BOOLEAN /\ task[t].committed \in BOOLEAN
  BY DEF Careful, Settling, Informed, WorkerInv, Fit, Local
<1>2. ASSUME task[t].mode # "loop", NEW label \in Carefree PROVE Minds(Go(t, label))
  BY <1>1, <1>2 DEF Go, Minds, Carefree, Local
<1>3. ASSUME NEW mode \in Modes \ {"loop"}, NEW label \in Carefree PROVE Minds(GoIn(t, label, mode))
  BY <1>1, <1>3 DEF GoIn, Minds, Carefree, Local
<1>4. {"dead", "succeed", "defer"} \subseteq Carefree /\ {"catch", "last", "again"} \subseteq Modes \ {"loop"}
  BY DEF Carefree, Labels, Modes
<1>5. ASSUME NEW mode \in Modes \ {"loop"}, NEW b PROVE Minds(RetryOrDeadLetter(t, mode, b))
  <2>1. CASE b /\ claims[task[t].claim].retryCount < MaxRetry
    BY <1>1, <1>5, <2>1 DEF RetryOrDeadLetter, GoIn, Minds, Local
  <2>2. CASE ~(b /\ claims[task[t].claim].retryCount < MaxRetry)
    BY <1>3, <1>4, <1>5, <2>2 DEF RetryOrDeadLetter
  <2>3. QED
    BY <2>1, <2>2
<1>6. ASSUME NEW mode \in Modes \ {"loop"} PROVE Minds(HandBack(t, mode))
  BY <1>1, <1>6 DEF HandBack, GoIn, Minds, Local
<1>7. ASSUME task[t].relinquished, NEW result PROVE Minds(Return(t, result))
  BY <1>1, <1>7 DEF Return, Minds, Local, Lost
<1>8. ASSUME NEW kind PROVE Minds(Caught(t, kind))
  BY <1>1, <1>3, <1>4, <1>5, <1>6, <1>7 DEF Caught
<1>9. \A l \in Thrown(t) : Minds(l)
  BY <1>8 DEF Thrown
<1>10. QED
  BY <1>1, <1>2, <1>3, <1>5, <1>6, <1>7, <1>8, <1>9

\* After a fault, or for a claim that is gone, a catch block may give up.
LEMMA ErrorsMind ==
  ASSUME Careful, WorldKept, NEW t \in Tasks, task[t].at \notin {"idle", "poll", "claimed", "reap"},
         NEW m \in ClaimIds, m = task[t].claim, ~Present(m) => ~Present(m)',
         scenario'.left["fault"] = 0 \/ ~Present(m)',
         task[t].mode = "loop" => task[t].relinquished \/ ~Present(m)' \/ Over(Job(t).movieId),
         NEW l \in Errors(t)
  PROVE  Minds(l)'
<1>1. /\ task[t] \in Local /\ task[t].mode \in Modes \ {"none"} /\ WorkerInv /\ task[t].at \in Labels
      /\ Issued(m)
  BY DEF Careful, Informed, WorkerInv, Fit, Local
<1>2. ASSUME Minds(l), l.claim = m PROVE Minds(l)'
  BY <1>1, <1>2, StillMinds
<1>3. {"dead", "recommit", "succeed"} \subseteq Carefree
      /\ {"body", "catch", "last", "again"} \subseteq Modes \ {"loop"}
  BY DEF Carefree, Labels, Modes
<1>4. CASE task[t].mode \in {"body", "main"}
  <2>1. l \in Thrown(t)
    BY <1>4 DEF Errors
  <2>2. l.claim = m
    BY <1>1, <2>1 DEF Thrown, Caught, Return, GoIn, HandBack, RetryOrDeadLetter, Local
  <2>3. QED
    BY <1>2, <2>1, <2>2, MindGoes
<1>5. CASE task[t].mode \in {"encode", "catch"}
  <2>1. l \in {GoIn(t, "dead", "body"), GoIn(t, "dead", "last")}
    BY <1>5 DEF Errors
  <2>2. l.claim = m
    BY <1>1, <2>1 DEF GoIn, Local
  <2>3. QED
    BY <1>2, <1>3, <2>1, <2>2, MindGoes
<1>6. CASE task[t].mode \in {"last", "prior"}
  <2>1. l = GoIn(t, "dead", "loop")
    BY <1>6 DEF Errors
  <2>2. l.at = "dead" /\ l.claim = m
    BY <1>1, <2>1 DEF GoIn, Local
  <2>3. QED
    BY <2>2 DEF Minds, Lost
<1>7. CASE task[t].mode = "loop"
  <2>1. l = Return(t, "error")
    BY <1>7 DEF Errors
  <2>2. l.at = "resolve" /\ l.claim = m /\ l.relinquished = task[t].relinquished /\ l.mode = "loop"
    BY <1>1, <1>7, <2>1 DEF Return, Local
  <2>3. Over(Job(t).movieId) => Over(JobOf(l.claim).movieId)'
    <3>1. PICK v \in Movies : v = Job(t).movieId
      BY <1>1, IssuedJob DEF Job
    <3>2. (JobOf(l.claim).movieId)' = v
      BY <1>1, <2>2, <3>1 DEF WorldKept, ClaimsKept, Job, JobOf
    <3>3. Over(v)' => Over(JobOf(l.claim).movieId)'
      BY <3>2
    <3>4. QED
      BY <3>1, <3>3 DEF WorldKept
  <2>4. Lost(l)' \/ Over(JobOf(l.claim).movieId)'
    BY <1>7, <2>2, <2>3 DEF Lost
  <2>5. QED
    BY <2>2, <2>4 DEF Minds
<1>8. CASE task[t].mode = "again"
  <2>1. l = Go(t, "recommit") /\ l.claim = m
    BY <1>1, <1>8 DEF Errors, Go, Local
  <2>2. QED
    BY <1>2, <1>3, <1>8, <2>1, MindGoes
<1>9. CASE task[t].mode = "reap"
  <2>1. l.at = "reap" /\ l.mode = "reap"
    BY <1>1, <1>9 DEF Errors, NextClaim, Local
  <2>2. QED
    BY <2>1 DEF Minds
<1>10. QED
  BY <1>1, <1>4, <1>5, <1>6, <1>7, <1>8, <1>9 DEF Modes

\* A fault the scenario allows is the only one.
LEMMA OnlyFault ==
  ASSUME Careful, Spend("fault")
  PROVE  scenario.left["fault"] # 0 /\ scenario'.left["fault"] = 0
<1>1. /\ scenario \in Scenario /\ scenario.left \in [Bounds -> Nat] /\ scenario.bounds \in [Bounds -> Nat]
      /\ "fault" \in Bounds /\ scenario.left["fault"] <= scenario.bounds["fault"]
      /\ scenario.bounds["fault"] <= 1
  BY DEF Careful, Informed, WorkerInv, BoundsTypeOK, Scenario, OneFault, Bounds
<1>2. scenario.left["fault"] \in Nat /\ scenario.bounds["fault"] \in Nat
  BY <1>1
<1>3. scenario.left["fault"] = 1
  BY <1>1, <1>2 DEF Spend
<1>4. scenario'.left = [scenario.left EXCEPT !["fault"] = @ - 1]
  BY <1>1 DEF Spend, Scenario
<1>5. QED
  BY <1>1, <1>3, <1>4

\* The records a step writes of jobs that are over are true.
Tells ==
  /\ \A j \in resolved' : j \in resolved \/ Over(j.movieId)'
  /\ \A v \in Movies : progress'[v] = "failed" => progress[v] = "failed" \/ Over(v)'

LEMMA SettlingStep ==
  ASSUME Careful, [WorkerNext]_workerVars, Tells, \A u \in Tasks : \A l : l = task'[u] => Minds(l)'
  PROVE  Settling'
<1>1. WorldKept /\ sent' = sent
  BY WorldKeeps, QueueKeeps DEF Careful, Informed
<1>2. \A j \in resolved : j.movieId \in Movies /\ Over(j.movieId)
  BY JobsAssumption DEF Careful, Settling, Informed, WorkerInv, Shared, QueueInv, QueueTypeOK
<1>3. \A j \in resolved' : Over(j.movieId)'
  BY <1>1, <1>2 DEF Tells, WorldKept
<1>4. \A v \in Movies : progress'[v] = "failed" => Over(v)'
  BY <1>1 DEF Tells, WorldKept, Careful, Settling
<1>5. \A u \in Tasks : Minds(task[u])'
  OBVIOUS
<1>6. \A v \in Movies : \E j \in sent' : j.movieId = v
  BY <1>1 DEF Careful, Settling
<1>7. QED
  BY <1>3, <1>4, <1>5, <1>6 DEF Settling

LEMMA TaskMinds ==
  ASSUME Careful, WorldKept, GoneKept, NEW u \in Tasks, NEW l, l = task[u]
  PROVE  Minds(l)'
<1>1. l \in Fit /\ Minds(l) /\ WorkerInv
  BY DEF Careful, Informed, WorkerInv, Settling
<1>2. l.at \notin {"idle", "poll", "reap"} => l.claim \in ClaimIds /\ Issued(l.claim)
  BY <1>1 DEF Fit
<1>3. QED
  BY <1>1, <1>2, StillMinds DEF GoneKept

\* A step of one task, which goes on minding.
LEMMA SettlingPut ==
  ASSUME Careful, [WorkerNext]_workerVars, UNCHANGED handler, Tells,
         NEW t \in Tasks, NEW l, Put(t, l), Minds(l)'
  PROVE  Settling'
<1>1. WorldKept /\ GoneKept
  BY WorldKeeps DEF Careful, Informed
<1>2. \A u \in Tasks : task'[u] = IF u = t THEN l ELSE task[u]
  BY DEF Put, Careful, Informed, WorkerInv
<1>3. ASSUME NEW u \in Tasks, NEW k, k = task'[u] PROVE Minds(k)'
  <2>1. CASE u = t
    BY <1>2, <1>3, <2>1
  <2>2. CASE u # t
    BY <1>1, <1>2, <1>3, <2>2, TaskMinds
  <2>3. QED
    BY <2>1, <2>2
<1>4. QED
  BY <1>3, SettlingStep

\* What holds of the task's next place now holds there.
LEMMA MindOn ==
  ASSUME Careful, WorldKept, GoneKept, NEW t \in Tasks, task[t].at \notin {"idle", "poll", "reap"},
         NEW l, Follows(t, l), Minds(l)
  PROVE  Minds(l)'
<1>1. WorkerInv /\ task[t] \in Local /\ task[t].claim \in ClaimIds /\ Issued(task[t].claim)
  BY Goes DEF Careful, Informed, Fit
<1>2. CASE l = Resting
  BY <1>2 DEF Minds, Resting
<1>3. CASE task[t].mode = "reap" /\ l = NextClaim(t)
  <2>1. l.at = "reap" /\ l.mode = "reap"
    BY <1>1, <1>3 DEF NextClaim, Local
  <2>2. QED
    BY <2>1 DEF Minds
<1>4. CASE l.claim = task[t].claim
  <2>1. l.claim \in ClaimIds /\ Issued(l.claim)
    BY <1>1, <1>4
  <2>2. QED
    BY <1>1, <2>1, StillMinds DEF GoneKept
<1>5. QED
  BY <1>2, <1>3, <1>4 DEF Follows

\* So does what a fault leads to, by way of a catch block.
LEMMA FaultMinds ==
  ASSUME Careful, WorldKept, GoneKept, NEW t \in Tasks,
         task[t].at \notin {"idle", "poll", "claimed", "reap", "resolve"},
         NEW l \in Errors(t), Spend("fault")
  PROVE  Minds(l)'
<1>1. PICK m \in ClaimIds : m = task[t].claim /\ Issued(m)
  BY Goes DEF Careful, Informed
<1>2. ~Present(m) => ~Present(m)'
  BY <1>1 DEF GoneKept
<1>3. scenario.left["fault"] # 0 /\ scenario'.left["fault"] = 0
  BY OnlyFault
<1>4. task[t].mode = "loop" => task[t].relinquished \/ ~Present(m)' \/ Over(Job(t).movieId)
  BY <1>1, <1>2, <1>3 DEF Careful, Settling, Minds, Lost, Job
<1>5. QED
  BY <1>1, <1>2, <1>3, <1>4, ErrorsMind

\* The poll loop, from the start of the job to the deletion of the source.
LEMMA BodyMinds ==
  ASSUME Careful, NEW p \in Processes, NEW l, Put(Loop(p), l),
         \/ Begin(p) \/ Inspect(p) \/ StartStage(p) \/ Download(p)
         \/ Encode(p) \/ Upload(p) \/ Commit(p) \/ Reconcile(p) \/ DeleteSource(p)
  PROVE  Minds(l) \/ (Spend("fault") /\ l \in Errors(Loop(p)))
<1> DEFINE t == Loop(p)
<1>1. /\ t \in Tasks /\ task[t] \in Local /\ task \in [Tasks -> Fit] /\ task[t].relinquished \in BOOLEAN
      /\ Minds(task[t]) /\ Placed(task[t])
  BY DEF Tasks, Careful, Settling, Informed, WorkerInv, Fit, Local, Aware
<1>2. \A k : Put(t, k) => k = l
  BY <1>1 DEF Put
<1>3. ASSUME task[t].at \in {"begin", "inspect", "toDownload", "download", "toEncode", "encode", "toUpload", "upload",
                             "commit", "reconcile", "toDelete", "delete"}
      PROVE  /\ task[t].mode # "loop"
             /\ \A label \in Carefree : Minds(Go(t, label))
             /\ \A mode \in {"body", "last", "main"} : \A label \in Carefree : Minds(GoIn(t, label, mode))
             /\ \A b \in BOOLEAN : Minds(RetryOrDeadLetter(t, "encode", b))
             /\ Minds(HandBack(t, "body"))
             /\ task[t].relinquished => Minds(Return(t, "relinquished"))
             /\ \A kind : Minds(Caught(t, kind))
             /\ \A k \in Thrown(t) : Minds(k)
  <2>1. task[t].mode # "loop" /\ task[t].at \notin {"idle", "poll", "reap"}
    BY <1>1, <1>3 DEF Minds
  <2>2. {"body", "last", "main", "encode"} \subseteq Modes \ {"loop"}
    BY DEF Modes
  <2>3. QED
    BY <1>1, <2>1, <2>2, MindGoes
<1>4. {"inspect", "toDownload", "dead", "defer", "download", "toEncode", "encode", "toUpload", "upload", "commit",
       "reconcile", "toDelete", "delete", "succeed"} \subseteq Carefree
  BY DEF Carefree, Labels
<1>5. CASE Begin(p)
  <2>1. task[t].at = "begin"
    BY <1>5 DEF Begin, At
  <2>2. CASE task[t].relinquished
    <3>1. l = Return(t, "relinquished")
      BY <1>2, <1>5, <2>2 DEF Begin
    <3>2. QED
      BY <1>3, <2>1, <2>2, <3>1
  <2>3. CASE ~task[t].relinquished
    <3>1. l = GoIn(t, "inspect", "body") \/ (Spend("fault") /\ l \in Errors(t))
      BY <1>2, <1>5, <2>3 DEF Begin, Report, Call
    <3>2. QED
      BY <1>3, <1>4, <2>1, <3>1
  <2>4. QED
    BY <2>2, <2>3
<1>6. CASE Inspect(p)
  <2>1. task[t].at = "inspect"
    BY <1>6 DEF Inspect, At
  <2>2. l \in {Go(t, "toDownload"), GoIn(t, "dead", "body"), GoIn(t, "defer", "body"), Caught(t, "permanent")} \cup Thrown(t)
    BY <1>2, <1>6 DEF Inspect, Read, Call
  <2>3. QED
    BY <1>3, <1>4, <2>1, <2>2
<1>7. CASE StartStage(p)
  <2>1. task[t].at \in {"toDownload", "toEncode", "toUpload", "toDelete"}
    BY <1>7 DEF StartStage
  <2>2. l \in {Go(t, "download"), Go(t, "encode"), Go(t, "upload"), Go(t, "delete")} \cup Thrown(t)
    BY <1>2, <1>7, <2>1 DEF StartStage, Report, Call
  <2>3. QED
    BY <1>3, <1>4, <2>1, <2>2
<1>8. CASE Download(p)
  <2>1. task[t].at = "download"
    BY <1>8 DEF Download, At
  <2>2. l = Go(t, "toEncode") \/ (\E kind : l = Caught(t, kind)) \/ l \in Thrown(t)
    BY <1>2, <1>8 DEF Download, Read, Call
  <2>3. QED
    BY <1>3, <1>4, <2>1, <2>2
<1>9. CASE Encode(p)
  <2>1. task[t].at = "encode" /\ scenario.misfortunes \subseteq {"transient", "permanent", "nospace"}
    BY <1>9 DEF Encode, At, Careful, Informed, WorkerInv, BoundsTypeOK, Scenario
  <2>2. PICK failure : failure = [transient |-> RetryOrDeadLetter(t, "encode", TRUE),
                                  permanent |-> GoIn(t, "dead", "body"),
                                  nospace   |-> GoIn(t, "defer", "body")]
    OBVIOUS
  <2>3. \/ task[t].relinquished /\ l = Return(t, "relinquished")
        \/ l = Go(t, "toUpload") \/ l = HandBack(t, "body")
        \/ \E kind \in scenario.misfortunes : l = failure[kind]
    BY <1>2, <1>9, <2>2 DEF Encode
  <2>4. failure["transient"] = RetryOrDeadLetter(t, "encode", TRUE) /\ failure["permanent"] = GoIn(t, "dead", "body")
        /\ failure["nospace"] = GoIn(t, "defer", "body")
    BY <2>2
  <2>5. ASSUME NEW kind \in scenario.misfortunes, l = failure[kind]
        PROVE  l \in {RetryOrDeadLetter(t, "encode", TRUE), GoIn(t, "dead", "body"), GoIn(t, "defer", "body")}
    BY <2>1, <2>4, <2>5
  <2>6. QED
    BY <1>3, <1>4, <2>1, <2>3, <2>5
<1>10. CASE Upload(p)
  <2>1. task[t].at = "upload"
    BY <1>10 DEF Upload, At
  <2>2. l \in {Go(t, "commit"), Caught(t, "abort")} \cup Thrown(t)
    BY <1>2, <1>10 DEF Upload, Call
  <2>3. QED
    BY <1>3, <1>4, <2>1, <2>2
<1>11. CASE Commit(p)
  <2>1. task[t].at = "commit"
    BY <1>11 DEF Commit, At
  <2>2. l \in {[Go(t, "toDelete") EXCEPT !.committed = TRUE], [task[t] EXCEPT !.tries = @ + 1], Go(t, "reconcile")}
    BY <1>2, <1>11 DEF Commit, Call
  <2>3. l.at \in {"commit", "toDelete", "reconcile"} /\ l.mode = task[t].mode
    BY <1>1, <2>1, <2>2 DEF Go, Local
  <2>4. QED
    BY <1>3, <2>1, <2>3 DEF Minds
<1>12. CASE Reconcile(p)
  <2>1. task[t].at = "reconcile"
    BY <1>12 DEF Reconcile, At
  <2>2. l \in {[Go(t, "toDelete") EXCEPT !.committed = TRUE], [Return(t, "relinquished") EXCEPT !.relinquished = TRUE]}
    BY <1>2, <1>12 DEF Reconcile, Read, Call
  <2>3. l.mode = task[t].mode /\ (l.at = "toDelete" \/ (l.at = "resolve" /\ l.relinquished))
    BY <1>1, <2>1, <2>2 DEF Go, Return, Local
  <2>4. QED
    BY <1>3, <2>1, <2>3 DEF Minds, Lost
<1>13. CASE DeleteSource(p)
  <2>1. task[t].at = "delete"
    BY <1>13 DEF DeleteSource, At
  <2>2. \/ l \in {GoIn(t, "succeed", "main"), Caught(t, "abort")} \cup Thrown(t)
        \/ task[t].relinquished /\ l = Return(t, "relinquished")
    BY <1>2, <1>13 DEF DeleteSource, Call
  <2>3. QED
    BY <1>3, <1>4, <2>1, <2>2
<1>14. QED
  BY <1>5, <1>6, <1>7, <1>8, <1>9, <1>10, <1>11, <1>12, <1>13

\* The poll loop, from there to the end of the job.
LEMMA EndMinds ==
  ASSUME Careful, WorldKept, GoneKept, NEW p \in Processes, NEW l, Put(Loop(p), l), Follows(Loop(p), l),
         \/ Recommit(p) \/ Postpone(p) \/ ReportPostponed(p) \/ GiveBack(p) \/ ReportHandedBack(p) \/ Resolve(p)
  PROVE  Minds(l)'
<1> DEFINE t == Loop(p)
<1>1. /\ t \in Tasks /\ task[t] \in Local /\ task \in [Tasks -> Fit] /\ Minds(task[t]) /\ Placed(task[t])
      /\ task[t] \in Aware /\ WorkerInv
  BY DEF Tasks, Careful, Settling, Informed, WorkerInv, Fit, Local, Aware
<1>2. \A k : Put(t, k) => k = l
  BY <1>1 DEF Put
<1>3. task[t].at \in {"recommit", "retry", "defer", "postponed", "handBack", "handedBack", "resolve"}
  BY DEF Recommit, Postpone, ReportPostponed, GiveBack, ReportHandedBack, Resolve, At
<1>4. PICK m \in ClaimIds : m = task[t].claim /\ Issued(m)
  BY <1>1, <1>3, Goes
<1>5. Minds(l) => Minds(l)'
  BY <1>1, <1>3, MindOn
<1>6. ASSUME task[t].at # "resolve", Spend("fault"), l \in Errors(t) PROVE Minds(l)'
  BY <1>1, <1>3, <1>6, FaultMinds
<1>7. CASE Recommit(p)
  <2>1. task[t].at = "recommit" /\ l = Return(t, "error")
    BY <1>2, <1>7 DEF Recommit, At, Call
  <2>2. task[t].committed
    BY <1>1, <2>1 DEF Aware, Knows
  <2>3. l.at = "resolve" /\ l.committed /\ l.mode = task[t].mode /\ l.mode # "loop"
    BY <1>1, <2>1, <2>2 DEF Return, Local, Minds
  <2>4. QED
    BY <1>5, <2>3 DEF Minds
<1>8. CASE Postpone(p)
  <2>1. task[t].at \in {"retry", "defer"} /\ task[t].mode # "loop"
    BY <1>1, <1>8 DEF Postpone, Minds
  <2>2. CASE l \in Errors(t) /\ Spend("fault")
    BY <1>6, <2>1, <2>2
  <2>3. CASE Present(m) /\ ~(l \in Errors(t) /\ Spend("fault"))
    <3>1. l = Go(t, "postponed")
          /\ ((task[t].at = "retry" /\ AddJobToRetryQueue(m)) \/ DeferJobForInfrastructure(m))
      BY <1>2, <1>4, <1>8, <2>3 DEF Postpone, Call, Redis, At
    <3>2. task[t].at = "retry" => claims[m].retryCount < MaxRetry
      BY <1>1, <1>4 DEF Minds
    <3>3. claims[m].retryCount \in Nat /\ lease \in [ClaimIds -> {"none", "live", "stale"}]
      BY <1>1, <1>4 DEF WorkerInv, Shared, QueueInv, QueueTypeOK, Issued, Entry
    <3>4. lease'[m] = "none"
      BY <3>1, <3>2, <3>3, MaxRetryAssumption DEF AddJobToRetryQueue, DeferJobForInfrastructure
    <3>5. l.at = "postponed" /\ l.claim = m /\ l.mode = task[t].mode
      BY <1>1, <1>4, <3>1 DEF Go, Local
    <3>6. Lost(l)'
      BY <3>4, <3>5 DEF Lost, Present
    <3>7. QED
      BY <2>1, <3>5, <3>6 DEF Minds
  <2>4. CASE ~Present(m)
    <3>1. l \in Errors(t)
      BY <1>2, <1>4, <1>8, <2>4 DEF Postpone, Read, Call
    <3>2. ~Present(m)'
      BY <1>4, <2>4 DEF GoneKept
    <3>3. QED
      BY <1>1, <1>4, <2>1, <3>1, <3>2, ErrorsMind
  <2>5. QED
    BY <2>2, <2>3, <2>4
<1>9. CASE ReportPostponed(p)
  <2>1. task[t].at = "postponed" /\ (l = Return(t, "retrying") \/ (l \in Errors(t) /\ Spend("fault")))
    BY <1>2, <1>9 DEF ReportPostponed, At, Report, Call
  <2>2. CASE l = Return(t, "retrying")
    <3>1. l.at = "resolve" /\ l.mode = task[t].mode /\ l.mode # "loop" /\ l.claim = task[t].claim
          /\ l.relinquished = task[t].relinquished
      BY <1>1, <2>1, <2>2 DEF Return, Local, Minds
    <3>2. Lost(l)
      BY <1>1, <2>1, <3>1 DEF Minds, Lost
    <3>3. QED
      BY <1>5, <3>1, <3>2 DEF Minds
  <2>3. QED
    BY <1>6, <2>1, <2>2
<1>10. CASE GiveBack(p) \/ ReportHandedBack(p)
  <2>1. task[t].at \in {"handBack", "handedBack"} /\ task[t].relinquished /\ task[t].mode # "loop"
    BY <1>1, <1>10 DEF GiveBack, ReportHandedBack, At, Minds
  <2>2. l = Go(t, "handedBack") \/ l = Return(t, "relinquished") \/ (l \in Errors(t) /\ Spend("fault"))
    BY <1>2, <1>10 DEF GiveBack, ReportHandedBack, Report, Read, Call
  <2>3. CASE l = Go(t, "handedBack") \/ l = Return(t, "relinquished")
    <3>1. l.at \in {"handedBack", "resolve"} /\ l.relinquished /\ l.mode # "loop"
      BY <1>1, <2>1, <2>3 DEF Go, Return, Local
    <3>2. QED
      BY <1>5, <3>1 DEF Minds, Lost
  <2>4. QED
    BY <1>6, <2>1, <2>2, <2>3
<1>11. CASE Resolve(p)
  <2>1. l = Resting
    BY <1>2, <1>11 DEF Resolve, Call
  <2>2. QED
    BY <1>5, <2>1 DEF Minds, Resting
<1>12. QED
  BY <1>7, <1>8, <1>9, <1>10, <1>11

\* What a job's end is written with.
LEMMA FinalMinds ==
  ASSUME Careful, Informed', WorldKept, GoneKept, NEW t \in Tasks, NEW l, Put(t, l), Follows(t, l), FinalStep(t),
         dead \subseteq dead', sent' = sent
  PROVE  Minds(l)'
<1>1. /\ task[t] \in Local /\ task \in [Tasks -> Fit] /\ Minds(task[t]) /\ Placed(task[t])
      /\ task[t] \in Aware /\ WorkerInv /\ task[t].at \in TerminalWrites \cup {"finish"}
  BY DEF Careful, Settling, Informed, WorkerInv, Fit, Aware, FinalStep, TerminalWrites, Succeed, SucceedCallback,
     DiscardOutput, DropRejected, DeadLetter, ReportFailure, FailCallback, FinishFinalized, At
<1>2. \A k : Put(t, k) => k = l
  BY <1>1 DEF Put
<1>3. task[t].at \notin {"idle", "poll", "claimed", "reap", "resolve"} /\ task[t].mode \in Modes
  BY <1>1 DEF TerminalWrites, Local
<1>4. PICK m \in ClaimIds, v \in Movies : m = task[t].claim /\ Issued(m) /\ v = Job(t).movieId
  BY <1>1, <1>3, Goes, IssuedJob DEF Job
<1>5. Minds(l) => Minds(l)'
  BY <1>1, <1>3, MindOn
<1>6. ASSUME Spend("fault"), l \in Errors(t) PROVE Minds(l)'
  BY <1>1, <1>3, <1>6, FaultMinds
<1>7. ASSUME Over(v)', l.claim = m, l.at \notin {"retry", "handBack", "handedBack", "postponed"},
             l.mode = "loop" => l.at \in {"failProgress", "failCallback", "resolve"}
      PROVE  Minds(l)'
  <2>1. (JobOf(l.claim).movieId)' = v
    BY <1>4, <1>7 DEF JobOf, Job, WorldKept, ClaimsKept
  <2>2. Over(JobOf(l.claim).movieId)'
    BY <1>7, <2>1
  <2>3. QED
    BY <1>7, <2>2 DEF Minds
<1>8. Over(v) => Over(v)'
  BY DEF WorldKept
<1>9. CASE Succeed(t)
  <2>1. task[t].at = "succeed" /\ (l = Go(t, "succeedCallback") \/ (l \in Errors(t) /\ Spend("fault")))
    BY <1>2, <1>9 DEF Succeed, Report, Call, At
  <2>2. task[t].mode # "loop" /\ "succeedCallback" \in Carefree
    BY <1>1, <2>1 DEF Minds, Carefree, Labels
  <2>3. CASE l = Go(t, "succeedCallback")
    BY <1>3, <1>5, <2>2, <2>3, MindGoes
  <2>4. QED
    BY <1>6, <2>1, <2>3
<1>10. ASSUME NEW result \in {"completed", "failed"}, l = Finalized(t, result), task[t].mode # "loop" PROVE Minds(l)'
  <2>1. CASE l = Go(t, "finish")
    <3>1. "finish" \in Carefree
      BY DEF Carefree, Labels
    <3>2. QED
      BY <1>3, <1>5, <1>10, <2>1, <3>1, MindGoes
  <2>2. CASE l = Return(t, result)
    <3>1. l.at = "resolve" /\ l.mode = task[t].mode /\ l.claim = m /\ l.result \in {"completed", "failed"}
      BY <1>1, <1>4, <2>2 DEF Return, Local
    <3>2. task'[t] = l
      BY <1>1 DEF Put
    <3>3. (JobOf(l.claim).movieId)' = v
      BY <1>4, <3>1 DEF JobOf, Job, WorldKept, ClaimsKept
    <3>4. l \in Aware'
      BY <3>2 DEF Informed
    <3>5. Knows(l, JobOf(l.claim).movieId)'
      BY <3>1, <3>4 DEF Aware
    <3>6. Knows(l, v)'
      BY <3>3, <3>5
    <3>7. variant'[v].status # "PROCESSING"
      BY <3>1, <3>6 DEF Knows
    <3>8. QED
      BY <1>7, <1>10, <3>1, <3>7 DEF Over
  <2>3. QED
    BY <1>10, <2>1, <2>2 DEF Finalized
<1>11. CASE SucceedCallback(t) \/ DiscardOutput(t)
  <2>1. task[t].at \in {"succeedCallback", "discard"} /\ ~scenario.mayReject
    BY <1>11 DEF SucceedCallback, DiscardOutput, At, Careful, Informed, UploadedOnce
  <2>2. l = Finalized(t, "completed") \/ l = Go(t, "discard") \/ (l \in Errors(t) /\ Spend("fault"))
    BY <1>2, <1>11, <2>1 DEF SucceedCallback, DiscardOutput, Call
  <2>3. task[t].mode # "loop" /\ "discard" \in Carefree
    BY <1>1, <2>1 DEF Minds, Carefree, Labels
  <2>4. CASE l = Go(t, "discard")
    BY <1>3, <1>5, <2>3, <2>4, MindGoes
  <2>5. QED
    BY <1>6, <1>10, <2>2, <2>3, <2>4
<1>12. CASE DropRejected(t)
  <2>1. task[t].at = "unwanted"
    BY <1>12 DEF DropRejected, At
  <2>2. QED
    BY <1>1, <2>1 DEF Aware, Knows
<1>13. CASE DeadLetter(t)
  <2>1. task[t].at = "dead"
        /\ ((l = Go(t, "failProgress") /\ AddJobToDeadLetterQueue(Job(t))) \/ (l \in Errors(t) /\ Spend("fault")))
    BY <1>2, <1>13 DEF DeadLetter, Call, At, Redis
  <2>2. CASE l = Go(t, "failProgress") /\ AddJobToDeadLetterQueue(Job(t))
    <3>1. l.at = "failProgress" /\ l.claim = m
      BY <1>1, <1>4, <2>2 DEF Go, Local
    <3>2. Job(t) \in sent' /\ Job(t) \in dead'
      BY <1>1, <1>4, <2>2, IssuedJob DEF Job, AddJobToDeadLetterQueue
    <3>3. PICK j : j = Job(t)
      OBVIOUS
    <3>4. Over(v)'
      BY <1>4, <3>2, <3>3 DEF Over
    <3>5. QED
      BY <1>7, <3>1, <3>4
  <2>3. QED
    BY <1>6, <2>1, <2>2
<1>14. CASE ReportFailure(t)
  <2>1. task[t].at = "failProgress" /\ (l = Go(t, "failCallback") \/ (l \in Errors(t) /\ Spend("fault")))
    BY <1>2, <1>14 DEF ReportFailure, Report, Call, At
  <2>2. CASE l = Go(t, "failCallback")
    <3>1. l.at = "failCallback" /\ l.claim = m
      BY <1>1, <1>4, <2>2 DEF Go, Local
    <3>2. Over(v)
      BY <1>1, <1>4, <2>1 DEF Minds, Job
    <3>3. QED
      BY <1>7, <1>8, <3>1, <3>2
  <2>3. QED
    BY <1>6, <2>1, <2>2
<1>15. CASE FailCallback(t)
  <2>1. task[t].at = "failCallback"
    BY <1>15 DEF FailCallback, At
  <2>2. Over(v)'
    BY <1>1, <1>4, <1>8, <2>1 DEF Minds, Job
  <2>3. \/ task[t].mode \in {"prior", "reap", "main", "again"} /\ l = Finalized(t, "failed")
        \/ l \in {Return(t, "error"), Return(t, "failed")}
        \/ l \in Errors(t) /\ Spend("fault")
    BY <1>2, <1>3, <1>15 DEF FailCallback, Call, Modes
  <2>4. CASE l \in {Return(t, "error"), Return(t, "failed")}
    <3>1. l.at = "resolve" /\ l.claim = m
      BY <1>1, <1>4, <2>4 DEF Return, Local
    <3>2. QED
      BY <1>7, <2>2, <3>1
  <2>5. QED
    BY <1>6, <1>10, <2>3, <2>4
<1>16. CASE FinishFinalized(t)
  <2>1. task[t].at = "finish" /\ task[t].mode # "loop"
        /\ (l = NextClaim(t) \/ l = Return(t, "completed") \/ (l \in Errors(t) /\ Spend("fault")))
    BY <1>1, <1>2, <1>16 DEF FinishFinalized, Call, At, Minds
  <2>2. CASE l = NextClaim(t)
    <3>1. l.at = "reap" /\ l.mode = task[t].mode
      BY <1>1, <2>2 DEF NextClaim, Local
    <3>2. QED
      BY <2>1, <3>1 DEF Minds
  <2>3. CASE l = Return(t, "completed")
    <3>1. l.at = "resolve" /\ l.claim = m /\ l.mode = task[t].mode
      BY <1>1, <1>4, <2>3 DEF Return, Local
    <3>2. variant[v].status # "PROCESSING"
      BY <1>1, <1>4, <2>1 DEF Aware, Knows, Job
    <3>3. Over(v)'
      BY <1>8, <3>2 DEF Over
    <3>4. QED
      BY <1>7, <2>1, <3>1, <3>3
  <2>4. QED
    BY <1>6, <2>1, <2>2, <2>3
<1>17. QED
  BY <1>9, <1>11, <1>12, <1>13, <1>14, <1>15, <1>16 DEF FinalStep

\* What the scripts of the queue record.
LEMMA ScriptTells ==
  ASSUME Careful, WorldKept, sent' = sent,
         \/ UNCHANGED queueVars
         \/ \E m \in ClaimIds : ClaimNextEncodeJob(m)
         \/ \E m \in ClaimIds :
              \/ AddJobToRetryQueue(m) \/ DeferJobForInfrastructure(m) \/ CommitProcessingJob(m)
              \/ RefreshProcessingJob(m) \/ RequeueProcessingJob(m) \/ ExpireProcessingJob(m) \/ LeaseRunsOut(m)
         \/ \E m \in ClaimIds : /\ FinishProcessingJob(m) \/ ReleaseProcessingJob(m)
                                /\ Issued(m) /\ (Present(m) => Over(JobOf(m).movieId))
         \/ \E ready \in SUBSET retry : ProcessRetryQueue(ready)
         \/ \E v \in Movies : ProgressExpires(v)
         \/ \E v \in Movies, s \in Status : SetEncodeProgress(v, s) /\ (s = "failed" => Over(v))
         \/ \E j \in Jobs : AddJobToDeadLetterQueue(j)
  PROVE  Tells
<1>1. /\ QueueInv /\ WorkerInv /\ progress \in [Movies -> Status \cup {"none"}] /\ main \in Seq(Entry)
      /\ retry \subseteq Entry /\ resolved \subseteq Jobs
  BY DEF Careful, Informed, WorkerInv, Shared, QueueInv, QueueTypeOK
<1>2. CASE UNCHANGED <<resolved, progress>>
  BY <1>2 DEF Tells
<1>3. ASSUME NEW m \in ClaimIds, ClaimNextEncodeJob(m) PROVE Tells
  <2>1. PICK h : h = Head(main).job
    OBVIOUS
  <2>2. h \in sent
    BY <1>1, <1>3, <2>1 DEF ClaimNextEncodeJob, QueueInv, Known
  <2>3. CASE UNCHANGED resolved
    BY <1>3, <2>3 DEF ClaimNextEncodeJob, Tells
  <2>4. CASE resolved' = resolved \cup {h} /\ h \in dead'
    <3>1. h \in sent' /\ progress' = progress
      BY <1>3, <2>2 DEF ClaimNextEncodeJob
    <3>2. Over(h.movieId)'
      BY <2>4, <3>1 DEF Over
    <3>3. QED
      BY <2>4, <3>1, <3>2 DEF Tells
  <2>5. QED
    BY <1>3, <2>1, <2>3, <2>4 DEF ClaimNextEncodeJob
<1>4. ASSUME NEW m \in ClaimIds,
             \/ AddJobToRetryQueue(m) \/ DeferJobForInfrastructure(m) \/ CommitProcessingJob(m)
             \/ RefreshProcessingJob(m) \/ RequeueProcessingJob(m) \/ ExpireProcessingJob(m) \/ LeaseRunsOut(m)
      PROVE  Tells
  BY <1>2, <1>4 DEF AddJobToRetryQueue, DeferJobForInfrastructure, CommitProcessingJob, RefreshProcessingJob,
     RequeueProcessingJob, ExpireProcessingJob, LeaseRunsOut, history
<1>5. ASSUME NEW m \in ClaimIds, FinishProcessingJob(m) \/ ReleaseProcessingJob(m), Issued(m),
             Present(m) => Over(JobOf(m).movieId)
      PROVE  Tells
  <2>1. CASE UNCHANGED resolved
    BY <1>5, <2>1 DEF FinishProcessingJob, ReleaseProcessingJob, Tells
  <2>2. CASE Present(m)
    <3>1. PICK j \in Jobs, v \in Movies : j = JobOf(m) /\ v = j.movieId
      BY <1>1, <1>5, IssuedJob
    <3>2. Over(v)'
      BY <1>5, <2>2, <3>1 DEF WorldKept
    <3>3. resolved' = resolved \cup {j} /\ progress' = progress
      BY <1>5, <2>2, <3>1 DEF FinishProcessingJob, ReleaseProcessingJob
    <3>4. QED
      BY <3>1, <3>2, <3>3 DEF Tells
  <2>3. QED
    BY <1>5, <2>1, <2>2 DEF FinishProcessingJob, ReleaseProcessingJob
<1>6. ASSUME NEW ready \in SUBSET retry, ProcessRetryQueue(ready) PROVE Tells
  <2>1. PICK bad : bad = {e \in ready : e.job \in Malformed}
    OBVIOUS
  <2>2. /\ resolved' = resolved \cup {e.job : e \in bad}
        /\ dead' = dead \cup {e.job : e \in bad}
        /\ progress' = [v \in Movies |-> IF \E e \in ready \ bad : e.job.movieId = v THEN "queued" ELSE progress[v]]
    BY <1>6, <2>1 DEF ProcessRetryQueue
  <2>3. \A e \in bad : e.job \in sent' /\ e.job \in dead'
    BY <1>1, <2>1, <2>2 DEF QueueInv, Known
  <2>4. \A j : (\E e \in bad : j = e.job) => Over(j.movieId)'
    BY <2>3 DEF Over
  <2>5. \A v \in Movies : progress'[v] \in {"queued", progress[v]}
    BY <2>2
  <2>6. QED
    BY <2>2, <2>4, <2>5 DEF Tells
<1>7. ASSUME NEW v \in Movies, ProgressExpires(v) PROVE Tells
  BY <1>1, <1>7 DEF ProgressExpires, history, Tells
<1>8. ASSUME NEW v \in Movies, NEW s \in Status, SetEncodeProgress(v, s), s = "failed" => Over(v) PROVE Tells
  <2>1. /\ resolved' = resolved
        /\ \A w \in Movies : progress'[w] = IF w = v THEN s ELSE progress[w]
    BY <1>1, <1>8 DEF SetEncodeProgress, history
  <2>2. s = "failed" => Over(v)'
    BY <1>8 DEF WorldKept
  <2>3. QED
    BY <2>1, <2>2 DEF Tells
<1>9. ASSUME NEW j \in Jobs, AddJobToDeadLetterQueue(j) PROVE Tells
  BY <1>2, <1>9 DEF AddJobToDeadLetterQueue, history
<1>10. UNCHANGED queueVars => Tells
  BY <1>2 DEF queueVars, redis, history
<1>11. QED
  BY <1>3, <1>4, <1>5, <1>6, <1>7, <1>8, <1>9, <1>10

\* What the tasks record.
LEMMA LoopTells ==
  ASSUME Careful, WorldKept, sent' = sent, NEW p \in Processes, LoopStep(p)
  PROVE  Tells
<1> DEFINE t == Loop(p)
<1>1. t \in Tasks /\ task[t] \in Aware /\ Minds(task[t]) /\ WorkerInv
  BY DEF Tasks, Careful, Settling, Informed
<1>2. {"queued", "processing", "retrying"} \subseteq Status \ {"failed"}
  BY DEF Status
<1>3. task[t].at \notin {"idle", "poll", "reap"} => task[t].claim \in ClaimIds /\ Issued(task[t].claim) /\ Job(t).movieId \in Movies
  BY <1>1, Goes, IssuedJob DEF Job
<1>4. CASE BeginPoll(p) \/ FindNothing(p) \/ CheckCompletion(p) \/ Inspect(p) \/ Download(p) \/ Encode(p)
           \/ Upload(p) \/ Reconcile(p) \/ DeleteSource(p)
  <2>1. UNCHANGED queueVars
    BY <1>4 DEF BeginPoll, FindNothing, CheckCompletion, Inspect, Download, Encode, Upload, Reconcile, DeleteSource,
       Read, Call, Nothing
  <2>2. QED
    BY <2>1, ScriptTells
<1>5. CASE Claim(p)
  <2>1. UNCHANGED queueVars \/ \E m \in ClaimIds : ClaimNextEncodeJob(m)
    BY <1>5 DEF Claim, Call, Redis, Nothing
  <2>2. QED
    BY <2>1, ScriptTells
<1>6. CASE Begin(p) \/ StartStage(p) \/ ReportPostponed(p) \/ ReportHandedBack(p)
  <2>1. task[t].at \notin {"idle", "poll", "reap"}
    BY <1>6 DEF Begin, StartStage, ReportPostponed, ReportHandedBack, At
  <2>2. UNCHANGED queueVars \/ \E s \in {"queued", "processing", "retrying"} : SetEncodeProgress(Job(t).movieId, s)
    BY <1>6 DEF Begin, StartStage, ReportPostponed, ReportHandedBack, Report, Call, Redis, Nothing
  <2>3. QED
    BY <1>2, <1>3, <2>1, <2>2, ScriptTells
<1>7. CASE Commit(p) \/ Recommit(p) \/ Postpone(p) \/ GiveBack(p)
  <2>1. task[t].at \notin {"idle", "poll", "reap"}
    BY <1>7 DEF Commit, Recommit, Postpone, GiveBack, At
  <2>2. \E m \in ClaimIds :
          \/ UNCHANGED queueVars
          \/ AddJobToRetryQueue(m) \/ DeferJobForInfrastructure(m) \/ CommitProcessingJob(m) \/ RequeueProcessingJob(m)
    BY <1>3, <1>7, <2>1 DEF Commit, Recommit, Postpone, GiveBack, IfHeld, Read, Call, Redis, Nothing
  <2>3. QED
    BY <2>2, ScriptTells
<1>8. CASE Resolve(p)
  <2>1. task[t].at = "resolve"
    BY <1>8 DEF Resolve, At
  <2>2. PICK m \in ClaimIds : m = task[t].claim /\ Issued(m) /\ Job(t) = JobOf(m)
    BY <1>3, <2>1 DEF Job
  <2>3. CASE UNCHANGED queueVars
    BY <2>3, ScriptTells
  <2>4. CASE ~UNCHANGED queueVars
    <3>1. ~task[t].relinquished /\ (task[t].committed => task[t].result \in {"completed", "failed"})
      BY <1>8, <2>4 DEF Resolve
    <3>2. FinishProcessingJob(m) \/ ReleaseProcessingJob(m)
      BY <1>8, <2>2, <2>4, <3>1 DEF Resolve, Call, Redis, Nothing
    <3>3. task[t].committed => Over(JobOf(m).movieId)
      BY <1>1, <2>1, <2>2, <3>1 DEF Aware, Knows, Over
    <3>4. Present(m) => Over(JobOf(m).movieId)
      BY <1>1, <2>1, <2>2, <3>1, <3>3 DEF Minds, Lost
    <3>5. QED
      BY <2>2, <3>2, <3>4, ScriptTells
  <2>5. QED
    BY <2>3, <2>4
<1>9. QED
  BY <1>4, <1>5, <1>6, <1>7, <1>8 DEF LoopStep

LEMMA FinalTells ==
  ASSUME Careful, WorldKept, sent' = sent, NEW t \in Tasks, FinalStep(t)
  PROVE  Tells
<1>1. /\ task[t] \in Aware /\ Minds(task[t]) /\ WorkerInv /\ task[t].at \in TerminalWrites \cup {"finish"}
  BY DEF Careful, Settling, Informed, FinalStep, TerminalWrites, Succeed, SucceedCallback,
     DiscardOutput, DropRejected, DeadLetter, ReportFailure, FailCallback, FinishFinalized, At
<1>2. task[t].at \notin {"idle", "poll", "reap"}
  BY <1>1 DEF TerminalWrites
<1>3. PICK m \in ClaimIds, v \in Movies : m = task[t].claim /\ Issued(m) /\ v = Job(t).movieId
                                          /\ Job(t) = JobOf(m) /\ Job(t) \in Jobs
  BY <1>1, <1>2, Goes, IssuedJob DEF Job
<1>4. {"completed", "failed"} \subseteq Status
  BY DEF Status
<1>5. CASE SucceedCallback(t) \/ DiscardOutput(t) \/ DropRejected(t) \/ FailCallback(t)
  <2>1. UNCHANGED queueVars
    BY <1>5 DEF SucceedCallback, DiscardOutput, DropRejected, FailCallback, Read, Call, Nothing, Callback, Discard
  <2>2. QED
    BY <2>1, ScriptTells
<1>6. CASE Succeed(t) \/ DeadLetter(t)
  <2>1. UNCHANGED queueVars \/ SetEncodeProgress(v, "completed") \/ AddJobToDeadLetterQueue(Job(t))
    BY <1>3, <1>6 DEF Succeed, DeadLetter, Report, Call, Redis, Nothing
  <2>2. QED
    BY <1>3, <1>4, <2>1, ScriptTells
<1>7. CASE ReportFailure(t)
  <2>1. UNCHANGED queueVars \/ SetEncodeProgress(v, "failed")
    BY <1>3, <1>7 DEF ReportFailure, Report, Call, Redis, Nothing
  <2>2. Over(v)
    BY <1>1, <1>3, <1>7 DEF ReportFailure, At, Minds
  <2>3. QED
    BY <1>4, <2>1, <2>2, ScriptTells
<1>8. CASE FinishFinalized(t)
  <2>1. UNCHANGED queueVars \/ FinishProcessingJob(m)
    BY <1>3, <1>8 DEF FinishFinalized, Call, Redis, Nothing
  <2>2. Over(JobOf(m).movieId)
    BY <1>1, <1>2, <1>3, <1>8 DEF FinishFinalized, At, Aware, Knows, Over
  <2>3. QED
    BY <1>3, <2>1, <2>2, ScriptTells
<1>9. QED
  BY <1>5, <1>6, <1>7, <1>8 DEF FinalStep

LEMMA ReaperTells ==
  ASSUME Careful, WorldKept, sent' = sent, NEW p \in Reapers, ReaperStep(p)
  PROVE  Tells
<1> DEFINE t == Reaper(p)
<1>1. t \in Tasks /\ task[t] \in Aware /\ Minds(task[t]) /\ WorkerInv
  BY DEF Tasks, Careful, Settling, Informed
<1>2. CASE ReapStart(p) \/ Reap(p) \/ Guess(p)
  <2>1. UNCHANGED queueVars
    BY <1>2 DEF ReapStart, Reap, Guess, Read, Call, Nothing
  <2>2. QED
    BY <2>1, ScriptTells
<1>3. CASE ReleaseFailed(p) \/ RequeueStale(p)
  <2>1. task[t].at \notin {"idle", "poll", "reap"}
    BY <1>3 DEF ReleaseFailed, RequeueStale, At
  <2>2. PICK m \in ClaimIds : m = task[t].claim /\ Issued(m)
    BY <1>1, <2>1, Goes
  <2>3. /\ ReleaseFailed(p) => UNCHANGED queueVars \/ ReleaseProcessingJob(m)
        /\ RequeueStale(p) => UNCHANGED queueVars \/ RequeueProcessingJob(m)
    BY <2>2 DEF ReleaseFailed, RequeueStale, Read, Call, Redis, Nothing
  <2>4. ReleaseFailed(p) => Over(JobOf(m).movieId)
    BY <1>1, <2>2 DEF ReleaseFailed, At, Minds
  <2>5. QED
    BY <1>3, <2>2, <2>3, <2>4, ScriptTells
<1>4. QED
  BY <1>2, <1>3 DEF ReaperStep

\* The steps of the tasks.
LEMMA LoopSettles ==
  ASSUME Careful, Informed', [WorkerNext]_workerVars, NEW p \in Processes, LoopStep(p)
  PROVE  Settling'
<1> DEFINE t == Loop(p)
<1>1. t \in Tasks /\ WorkerInv /\ Roles /\ task[t] \in Local /\ task[t] \in Aware
  BY DEF Tasks, Careful, Informed, Aware, Fit
<1>2. UNCHANGED handler
  <2>1. CASE BeginPoll(p) \/ Claim(p) \/ FindNothing(p) \/ CheckCompletion(p) \/ Begin(p) \/ Inspect(p)
    BY <2>1 DEF BeginPoll, Claim, FindNothing, CheckCompletion, Begin, Inspect, Report, Read, Call
  <2>2. CASE StartStage(p) \/ Download(p) \/ Encode(p) \/ Upload(p) \/ Commit(p) \/ Reconcile(p)
    BY <2>2 DEF StartStage, Download, Encode, Upload, Commit, Reconcile, Report, Read, Call
  <2>3. CASE DeleteSource(p) \/ Recommit(p) \/ Postpone(p) \/ ReportPostponed(p) \/ GiveBack(p)
    BY <2>3 DEF DeleteSource, Recommit, Postpone, ReportPostponed, GiveBack, Report, Read, Call
  <2>4. CASE ReportHandedBack(p) \/ Resolve(p)
    BY <2>4 DEF ReportHandedBack, Resolve, Report, Call
  <2>5. QED
    BY <2>1, <2>2, <2>3, <2>4 DEF LoopStep
<1>3. WorldKept /\ GoneKept /\ sent' = sent
  BY <1>1, <1>2, WorldKeeps, QueueKeeps
<1>4. Tells
  BY <1>3, LoopTells
<1>5. CASE BeginPoll(p) \/ Claim(p)
  <2>1. Resting.at = "idle" /\ Resting.mode = "none"
    BY DEF Resting
  <2>2. PICK l : Put(t, l) /\ l.at \in {"idle", "poll", "claimed"} /\ l.mode = "none"
    <3>1. CASE BeginPoll(p)
      <4>1. PICK l : l = Go(t, "poll") /\ Put(t, l)
        BY <3>1 DEF BeginPoll
      <4>2. l.at = "poll" /\ l.mode = "none"
        BY <1>1, <3>1, <4>1 DEF BeginPoll, At, Go, Local, Aware, Placed
      <4>3. QED
        BY <4>1, <4>2
    <3>2. CASE Claim(p)
      <4>1. Put(t, Resting) \/ \E m \in ClaimIds : Put(t, [Resting EXCEPT !.at = "claimed", !.claim = m])
        BY <3>2 DEF Claim, Call
      <4>2. ASSUME NEW m \in ClaimIds, NEW l, l = [Resting EXCEPT !.at = "claimed", !.claim = m]
            PROVE  l.at = "claimed" /\ l.mode = "none"
        BY <4>2 DEF Resting
      <4>3. QED
        BY <2>1, <4>1, <4>2
    <3>3. QED
      BY <1>5, <3>1, <3>2
  <2>3. Minds(l)'
    BY <2>2 DEF Minds
  <2>4. QED
    BY <1>1, <1>2, <1>4, <2>2, <2>3, SettlingPut
<1>6. CASE FindNothing(p)
  <2>1. PICK k : k = Resting /\ Put(t, k)
    BY <1>6 DEF FindNothing
  <2>2. Minds(k)'
    BY <2>1 DEF Minds, Resting
  <2>3. QED
    BY <1>1, <1>2, <1>4, <2>1, <2>2, SettlingPut
<1>7. CASE CheckCompletion(p)
  <2>1. PICK k : /\ Put(t, k)
                 /\ k = GoIn(t, "begin", "last") \/ k = [GoIn(t, "succeed", "prior") EXCEPT !.committed = TRUE]
    BY <1>7 DEF CheckCompletion, Read, Call
  <2>2. k.at \in {"begin", "succeed"} /\ k.mode \in {"last", "prior"}
    BY <1>1, <2>1 DEF GoIn, Local
  <2>3. Minds(k)'
    BY <2>2 DEF Minds
  <2>4. QED
    BY <1>1, <1>2, <1>4, <2>1, <2>3, SettlingPut
<1>8. CASE ~BeginPoll(p) /\ ~Claim(p) /\ ~FindNothing(p) /\ ~CheckCompletion(p)
  <2>1. PICK l : Put(t, l) /\ Follows(t, l) /\ task[t].at # "idle"
    BY <1>1, <1>8, LoopFollows
  <2>2. CASE Begin(p) \/ Inspect(p) \/ StartStage(p) \/ Download(p) \/ Encode(p) \/ Upload(p)
             \/ Commit(p) \/ Reconcile(p) \/ DeleteSource(p)
    <3>1. Minds(l) \/ (Spend("fault") /\ l \in Errors(t))
      BY <2>1, <2>2, BodyMinds
    <3>2. task[t].at \notin {"idle", "poll", "claimed", "reap", "resolve"}
      BY <2>2 DEF Begin, Inspect, StartStage, Download, Encode, Upload, Commit, Reconcile, DeleteSource, At
    <3>3. Minds(l)'
      BY <1>1, <1>3, <2>1, <3>1, <3>2, MindOn, FaultMinds
    <3>4. QED
      BY <1>1, <1>2, <1>4, <2>1, <3>3, SettlingPut
  <2>3. CASE Recommit(p) \/ Postpone(p) \/ ReportPostponed(p) \/ GiveBack(p) \/ ReportHandedBack(p) \/ Resolve(p)
    BY <1>1, <1>2, <1>3, <1>4, <2>1, <2>3, EndMinds, SettlingPut
  <2>4. QED
    BY <1>8, <2>2, <2>3 DEF LoopStep
<1>9. QED
  BY <1>5, <1>6, <1>7, <1>8

LEMMA FinalSettles ==
  ASSUME Careful, Informed', [WorkerNext]_workerVars, NEW t \in Tasks, FinalStep(t)
  PROVE  Settling'
<1>1. WorkerInv
  BY DEF Careful, Informed
<1>2. UNCHANGED handler
  BY DEF FinalStep, Succeed, SucceedCallback, DiscardOutput, DropRejected, DeadLetter, ReportFailure, FailCallback,
     FinishFinalized, Report, Read, Call
<1>3. WorldKept /\ GoneKept /\ sent' = sent /\ dead \subseteq dead'
  BY <1>1, <1>2, WorldKeeps, QueueKeeps
<1>4. PICK l : Put(t, l) /\ Follows(t, l)
  BY <1>1, FinalFollows
<1>5. Minds(l)'
  BY <1>3, <1>4, FinalMinds
<1>6. QED
  BY <1>2, <1>3, <1>4, <1>5, FinalTells, SettlingPut

LEMMA ReaperSettles ==
  ASSUME Careful, [WorkerNext]_workerVars, NEW p \in Reapers, ReaperStep(p)
  PROVE  Settling'
<1> DEFINE t == Reaper(p)
<1>1. /\ t \in Tasks /\ WorkerInv /\ Roles /\ task[t] \in Local /\ task[t] \in Aware
      /\ (task[t].at # "idle" => task[t].mode = "reap")
  BY DEF Tasks, Careful, Informed, Aware, Fit, Roles
<1>2. UNCHANGED handler
  BY DEF ReaperStep, ReapStart, Reap, Guess, ReleaseFailed, RequeueStale, Read, Call
<1>3. WorldKept /\ GoneKept /\ sent' = sent
  BY <1>1, <1>2, WorldKeeps, QueueKeeps
<1>4. Tells
  BY <1>3, ReaperTells
<1>5. ASSUME NEW l, Put(t, l), l.at \in {"idle", "reap", "guess", "succeed", "requeue"}, l.mode \in {"none", "reap"}
      PROVE  Settling'
  <2>1. Minds(l)'
    BY <1>5 DEF Minds
  <2>2. QED
    BY <1>1, <1>2, <1>4, <1>5, <2>1, SettlingPut
<1>6. Resting.at = "idle" /\ Resting.mode = "none"
  BY DEF Resting
<1>7. CASE ReapStart(p)
  <2>1. PICK l : /\ l = [Resting EXCEPT !.at = "reap", !.mode = "reap", !.todo = {m \in ClaimIds : lease[m] = "stale"}]
                 /\ Put(t, l)
    BY <1>7 DEF ReapStart
  <2>2. l.at = "reap" /\ l.mode = "reap"
    BY <2>1 DEF Resting
  <2>3. QED
    BY <1>5, <2>1, <2>2
<1>8. CASE Reap(p)
  <2>1. task[t].mode = "reap"
    BY <1>1, <1>8 DEF Reap, At
  <2>2. CASE Put(t, Resting)
    BY <1>5, <1>6, <2>2
  <2>3. CASE task[t].todo # {}
    <3>1. PICK m \in task[t].todo :
            \E at \in {"succeed", "guess"} :
              Put(t, [[task[t] EXCEPT !.claim = m, !.todo = @ \ {m}] EXCEPT !.at = at])
      BY <1>8, <2>3 DEF Reap, Read, Call
    <3>2. PICK at \in {"succeed", "guess"}, l \in Local :
            l = [[task[t] EXCEPT !.claim = m, !.todo = @ \ {m}] EXCEPT !.at = at] /\ Put(t, l)
      <4>1. \A at \in {"succeed", "guess"} :
              [[task[t] EXCEPT !.claim = m, !.todo = @ \ {m}] EXCEPT !.at = at] \in Local
        BY <1>1 DEF Local, Labels
      <4>2. QED
        BY <3>1, <4>1
    <3>3. l.at = at /\ l.mode = "reap"
      BY <1>1, <2>1, <3>2 DEF Local
    <3>4. QED
      BY <1>5, <3>2, <3>3
  <2>4. QED
    BY <1>8, <2>2, <2>3 DEF Reap
<1>9. CASE Guess(p)
  <2>1. task[t].at = "guess" /\ task[t].mode = "reap"
    BY <1>1, <1>9 DEF Guess, At
  <2>2. PICK l : Put(t, l) /\ (\/ l = Go(t, "succeed") \/ l = Go(t, "requeue")
                               \/ l = Go(t, "release") /\ progress[Job(t).movieId] = "failed")
    BY <1>9 DEF Guess, Read, Call
  <2>3. CASE l = Go(t, "succeed") \/ l = Go(t, "requeue")
    <3>1. l.at \in {"succeed", "requeue"} /\ l.mode = "reap"
      BY <1>1, <2>1, <2>3 DEF Go, Local
    <3>2. QED
      BY <1>5, <2>2, <3>1
  <2>4. CASE l = Go(t, "release") /\ progress[Job(t).movieId] = "failed"
    <3>1. l.at = "release" /\ l.mode = "reap" /\ l.claim = task[t].claim /\ l.todo = task[t].todo
      BY <1>1, <2>1, <2>4 DEF Go, Local
    <3>2. task[t].claim \in ClaimIds /\ Issued(task[t].claim) /\ Job(t).movieId \in Movies
      BY <1>1, <2>1, Goes, IssuedJob DEF Job
    <3>3. Over(Job(t).movieId)
      BY <2>4, <3>2 DEF Careful, Settling
    <3>4. Minds(l)
      BY <3>1, <3>3 DEF Minds, Job
    <3>5. Follows(t, l)
      BY <2>1, <3>1 DEF Follows
    <3>6. Minds(l)'
      BY <1>1, <1>3, <2>1, <3>4, <3>5, MindOn
    <3>7. QED
      BY <1>1, <1>2, <1>4, <2>2, <3>6, SettlingPut
  <2>5. QED
    BY <2>2, <2>3, <2>4
<1>10. CASE ReleaseFailed(p) \/ RequeueStale(p)
  <2>1. task[t].mode = "reap"
    BY <1>1, <1>10 DEF ReleaseFailed, RequeueStale, At
  <2>2. PICK l : l = NextClaim(t) /\ Put(t, l)
    BY <1>10 DEF ReleaseFailed, RequeueStale, Read, Call
  <2>3. l.at = "reap" /\ l.mode = "reap"
    BY <1>1, <2>1, <2>2 DEF NextClaim, Local
  <2>4. QED
    BY <1>5, <2>2, <2>3
<1>11. QED
  BY <1>7, <1>8, <1>9, <1>10 DEF ReaperStep

\* A task that gives its claim up minds less.
LEMMA GiverMinds ==
  ASSUME WorkerInv, WorldKept, NEW u \in Tasks, Minds(task[u]), NEW l, l = [task[u] EXCEPT !.relinquished = TRUE]
  PROVE  Minds(l)'
<1>1. task[u] \in Local /\ task[u] \in Fit
  BY DEF WorkerInv, Fit
<1>2. l.relinquished /\ l.at = task[u].at /\ l.mode = task[u].mode /\ l.claim = task[u].claim
  BY <1>1 DEF Local
<1>3. Minds(l)
  BY <1>2 DEF Minds, Lost
<1>4. l.at \notin {"idle", "poll", "reap"} => l.claim \in ClaimIds /\ Issued(l.claim)
  BY <1>1, <1>2 DEF Fit
<1>5. QED
  BY <1>2, <1>3, <1>4, StillMinds

\* The steps of the processes and of the world around them.
LEMMA ProcessSettles ==
  ASSUME Careful, [WorkerNext]_workerVars, NEW p \in Processes,
         EncodeProgress(p) \/ Heartbeat(p) \/ Sigterm(p) \/ HandlerStep(p) \/ Crash(p)
  PROVE  Settling'
<1> DEFINE t == Loop(p)
<1>1. /\ t \in Tasks /\ WorkerInv /\ Roles /\ task \in [Tasks -> Fit] /\ task[t] \in Local
      /\ \A u \in Tasks : task[u] \in Aware /\ Minds(task[u])
  BY DEF Tasks, Careful, Settling, Informed, WorkerInv, Fit
<1>2. WorldKept /\ sent' = sent
  BY <1>1, WorldKeeps, QueueKeeps
<1>3. UNCHANGED lease => GoneKept
  BY DEF GoneKept, Present
<1>4. CASE EncodeProgress(p)
  <2>1. Job(t).movieId \in Movies
    BY <1>1, <1>4, Goes DEF EncodeProgress, At
  <2>2. SetEncodeProgress(Job(t).movieId, "processing") /\ "processing" \in Status /\ task' = task
    BY <1>4 DEF EncodeProgress, Redis, Status
  <2>3. Tells /\ GoneKept
    BY <1>2, <1>3, <2>1, <2>2, ScriptTells DEF SetEncodeProgress
  <2>4. QED
    BY <1>2, <2>2, <2>3, TaskMinds, SettlingStep
<1>5. CASE Heartbeat(p)
  <2>1. task[t].claim \in ClaimIds
    BY <1>1, <1>5 DEF Heartbeat, Beating, Local
  <2>2. UNCHANGED queueVars \/ RefreshProcessingJob(task[t].claim)
    BY <1>5 DEF Heartbeat, Redis, Nothing
  <2>3. Tells
    BY <1>2, <2>1, <2>2, ScriptTells
  <2>4. UNCHANGED handler /\ (task' = task \/ \E l : l = [task[t] EXCEPT !.relinquished = TRUE] /\ Put(t, l))
    BY <1>5 DEF Heartbeat
  <2>5. GoneKept
    BY <1>1, <2>4, WorldKeeps
  <2>6. CASE task' = task
    BY <1>2, <2>3, <2>5, <2>6, TaskMinds, SettlingStep
  <2>7. ASSUME NEW l, l = [task[t] EXCEPT !.relinquished = TRUE], Put(t, l) PROVE Settling'
    <3>1. Minds(l)'
      BY <1>1, <1>2, <2>7, GiverMinds
    <3>2. QED
      BY <1>1, <2>3, <2>4, <2>7, <3>1, SettlingPut
  <2>8. QED
    BY <2>4, <2>6, <2>7
<1>6. CASE Sigterm(p) \/ DrainEnds(p) \/ Settled(p)
  <2>1. UNCHANGED queueVars /\ UNCHANGED task
    BY <1>6 DEF Sigterm, DrainEnds, Settled
  <2>2. Tells /\ GoneKept
    BY <1>2, <1>3, <2>1, ScriptTells DEF queueVars, redis
  <2>3. QED
    BY <1>2, <2>1, <2>2, TaskMinds, SettlingStep
<1>7. CASE Exit(p) \/ Crash(p)
  <2>1. UNCHANGED queueVars /\ \A u \in Tasks : task'[u] = Resting \/ task'[u] = task[u]
    BY <1>7 DEF Exit, Crash, Replaced, Nothing
  <2>2. Tells /\ GoneKept
    BY <1>2, <1>3, <2>1, ScriptTells DEF queueVars, redis
  <2>3. ASSUME NEW l, l = Resting PROVE Minds(l)'
    BY <2>3 DEF Minds, Resting
  <2>4. \A u \in Tasks : \A l : l = task'[u] => Minds(l)'
    BY <1>2, <2>1, <2>2, <2>3, TaskMinds
  <2>5. QED
    BY <2>2, <2>4, SettlingStep
<1>8. CASE HandOff(p)
  <2>1. task[t].claim \in ClaimIds /\ task[t].claim # None
    BY <1>1, <1>8 DEF HandOff, Local
  <2>2. \/ UNCHANGED queueVars
        \/ RequeueProcessingJob(task[t].claim) \/ ExpireProcessingJob(task[t].claim)
    BY <1>8 DEF HandOff, Redis, Nothing
  <2>3. Tells
    BY <1>2, <2>1, <2>2, ScriptTells
  <2>4. PICK k : k = [task[t] EXCEPT !.relinquished = TRUE] /\ Put(t, k)
    BY <1>8 DEF HandOff
  <2>5. lease \in [ClaimIds -> {"none", "live", "stale"}]
    BY <1>1 DEF WorkerInv, Shared, QueueInv, QueueTypeOK
  <2>6. \A n \in ClaimIds : n # task[t].claim => lease'[n] = lease[n]
    BY <2>2, <2>5 DEF RequeueProcessingJob, ExpireProcessingJob, queueVars, redis
  <2>7. \A u \in Tasks : task'[u] = IF u = t THEN k ELSE task[u]
    BY <1>1, <2>4 DEF Put
  <2>8. ASSUME NEW u \in Tasks, u # t, NEW l, l = task[u] PROVE Minds(l)'
    <3>1. l \in Fit /\ Minds(l) /\ Placed(l)
      BY <1>1, <2>8 DEF Aware
    <3>2. l.at \notin {"idle", "poll", "reap"} => l.claim \in ClaimIds /\ Issued(l.claim)
      BY <3>1 DEF Fit
    <3>3. CASE l.mode = "reap"
      <4>1. l.at \notin {"postponed", "resolve"}
        BY <3>1, <3>3 DEF Placed, TerminalWrites
      <4>2. QED
        BY <1>1, <1>2, <3>1, <3>2, <3>3, <4>1, StillMinds
    <3>4. CASE l.at \in {"idle", "poll", "reap"}
      BY <1>1, <1>2, <3>1, <3>2, <3>4, StillMinds
    <3>5. CASE l.mode # "reap" /\ l.at \notin {"idle", "poll", "reap"}
      <4>1. PICK q \in Processes : u = Loop(q)
        BY <1>1, <2>8, <3>5 DEF Tasks, Roles
      <4>2. l.claim # task[t].claim
        BY <1>1, <2>1, <2>8, <4>1 DEF Roles
      <4>3. lease'[l.claim] = lease[l.claim]
        BY <2>6, <3>2, <3>5, <4>2
      <4>4. ~Present(l.claim) => ~Present(l.claim)'
        BY <4>3 DEF Present
      <4>5. QED
        BY <1>1, <1>2, <3>1, <3>2, <4>4, StillMinds
    <3>6. QED
      BY <3>3, <3>4, <3>5
  <2>9. Minds(k)'
    BY <1>1, <1>2, <2>4, GiverMinds
  <2>10. \A u \in Tasks : \A l : l = task'[u] => Minds(l)'
    BY <2>7, <2>8, <2>9
  <2>11. QED
    BY <2>3, <2>10, SettlingStep
<1>9. QED
  BY <1>4, <1>5, <1>6, <1>7, <1>8 DEF HandlerStep

LEMMA OutsideSettles ==
  ASSUME Careful, [WorkerNext]_workerVars,
         \/ UNCHANGED workerVars
         \/ \E m \in ClaimIds : LeaseEnds(m) \/ Stall(m)
         \/ \E ready \in SUBSET retry : RetriesComeDue(ready)
         \/ \E v \in Movies : ProgressTtl(v) \/ DeleteMovie(v)
         \/ \E object \in erasing : Erase(object)
  PROVE  Settling'
<1>1. UNCHANGED <<task, handler>>
  BY DEF LeaseEnds, Stall, RetriesComeDue, ProgressTtl, DeleteMovie, Erase, workerVars
<1>2. WorldKept /\ GoneKept /\ sent' = sent
  BY <1>1, WorldKeeps, QueueKeeps DEF Careful, Informed
<1>3. \/ UNCHANGED queueVars
      \/ \E m \in ClaimIds : LeaseRunsOut(m)
      \/ \E ready \in SUBSET retry : ProcessRetryQueue(ready)
      \/ \E v \in Movies : ProgressExpires(v)
  BY DEF LeaseEnds, Stall, RetriesComeDue, ProgressTtl, DeleteMovie, Erase, Redis, workerVars
<1>4. Tells
  BY <1>2, <1>3, ScriptTells
<1>5. \A u \in Tasks : \A l : l = task'[u] => Minds(l)'
  BY <1>1, <1>2, TaskMinds
<1>6. QED
  BY <1>4, <1>5, SettlingStep

LEMMA AccountInit == WorkerInit => AccountInv
<1> SUFFICES ASSUME WorkerInit PROVE Settling
  BY DEF AccountInv
<1>1. \A v \in Movies : \E i \in DOMAIN scenario.backlog : scenario.backlog[i].movieId = v
  BY WorkerAssumption DEF WorkerInit
<1>2. \A v \in Movies : \E j \in sent : j.movieId = v
  BY <1>1 DEF WorkerInit
<1>3. resolved = {} /\ \A v \in Movies : progress[v] = "queued"
  BY DEF WorkerInit
<1>4. ASSUME NEW t \in Tasks PROVE Minds(task[t])
  <2>1. task[t] = Resting
    BY DEF WorkerInit
  <2>2. QED
    BY <2>1 DEF Minds, Resting
<1>5. QED
  BY <1>2, <1>3, <1>4 DEF Settling

LEMMA AccountNext ==
  WorkerInv /\ Roles /\ FilesInv /\ FilesInv' /\ WorkerInv' /\ AccountInv /\ [WorkerNext]_workerVars => AccountInv'
<1> SUFFICES ASSUME WorkerInv, Roles, FilesInv, FilesInv', WorkerInv', AccountInv, [WorkerNext]_workerVars, OneFault'
             PROVE  Settling'
  BY DEF AccountInv
<1>1. OneFault
  <2>1. scenario'.bounds = scenario.bounds /\ scenario'.mayReject = scenario.mayReject
        /\ scenario'.backlog = scenario.backlog
    BY ScenarioStep DEF Spend, WorkerInv, BoundsTypeOK, Scenario
  <2>2. QED
    BY <2>1 DEF OneFault, UploadedOnce
<1>2. Careful /\ Informed'
  BY <1>1 DEF Careful, Informed, FilesInv, AccountInv, OneFault
<1>3. QED
  BY <1>2, LoopSettles, FinalSettles, ReaperSettles, ProcessSettles, OutsideSettles DEF WorkerNext

LEMMA AccountInvariance == WorkerSpec => []AccountInv
<1>1. WorkerInv /\ Roles /\ FilesInv /\ FilesInv' /\ WorkerInv' /\ AccountInv /\ [WorkerNext]_workerVars => AccountInv'
  BY AccountNext
<1>2. QED
  BY <1>1, AccountInit, WorkerInvariance, RolesInvariance, FilesInvariance, PTL DEF WorkerSpec

\* Where a call fails at most once, a movie that is processing has a job in the
\* queue that will settle it, or a dead letter: no crash, no stall, no shutdown
\* and no retry loses it (queue.ts:379, job-runner.ts, reaper.ts).
THEOREM MoviesAccountedFor == WorkerSpec => [](OneFault => Accounted)
<1>1. WorkerInv /\ FilesInv /\ AccountInv => (OneFault => Accounted)
  <2>1. SUFFICES ASSUME WorkerInv, FilesAgree, Settling, NEW v \in Movies, variant[v].status = "PROCESSING"
                 PROVE  \E j \in sent : Encodes(j, v) /\ (Live(j) \/ j \in dead)
    BY DEF OneFault, FilesInv, AccountInv, Accounted
  <2>2. \A j \in sent : j.movieId = v => Encodes(j, v)
    BY <2>1 DEF FilesAgree, Encodes
  <2>3. PICK j \in sent : j.movieId = v
    BY <2>1 DEF Settling
  <2>4. CASE j \in resolved
    <3>1. Over(v)
      BY <2>1, <2>3, <2>4 DEF Settling
    <3>2. QED
      BY <2>1, <2>2, <3>1 DEF Over
  <2>5. CASE j \notin resolved
    <3>1. Live(j)
      BY <2>1, <2>3, <2>5 DEF WorkerInv, Shared, QueueInv, NothingLost, Live
    <3>2. QED
      BY <2>2, <2>3, <3>1
  <2>6. QED
    BY <2>4, <2>5
<1>2. QED
  BY <1>1, WorkerInvariance, FilesInvariance, AccountInvariance, PTL
=============================================================================
