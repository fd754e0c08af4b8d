---------------------------- MODULE EncodeWorker ----------------------------
(***************************************************************************)
(* The ffmpeg worker processes: the poll loop and the job it runs          *)
(* (worker-loop.ts, job-runner.ts, job-finalizer.ts), the reaper of each   *)
(* process (reaper.ts), the lease heartbeat (index.ts), and the shutdown   *)
(* handler (shutdown.ts), over the queue of EncodeQueue, the two buckets   *)
(* and the backend's encode callback.                                      *)
(*                                                                         *)
(* A task is the poll loop or the reaper of a process.  One step is one    *)
(* awaited call with the synchronous code around it, so everything another *)
(* task, a signal or a timer can do happens between two calls.  A call may *)
(* fail, before its effect or after it (a lost reply), as often as the     *)
(* scenario of the behaviour, one of Scenarios, allows.                    *)
(***************************************************************************)
EXTENDS EncodeQueue

CONSTANTS
  Processes,      \* the worker processes
  Reapers,        \* the processes whose reaper is followed; the others' never runs
  CommitAttempts, \* COMPLETION_COMMIT_ATTEMPTS
  Scenarios,      \* what a behaviour starts with and what may happen in it
  None            \* no claim

\* The encode jobs queued at the start, oldest first; how many faults, stalls,
\* crashes, sigterms and deletes may happen; what may befall a job; whether the
\* backend may answer a callback with a 4xx.
Bounds == {"fault", "stall", "crash", "sigterm", "delete"}
Scenario ==
  [backlog : Seq(Jobs), bounds : [Bounds -> Nat], left : [Bounds -> Nat], mayReject : BOOLEAN,
   misfortunes : SUBSET {"transient", "permanent", "nospace"}]

ASSUME WorkerAssumption ==
  /\ Reapers \subseteq Processes
  /\ CommitAttempts \in Nat \ {0}
  /\ Scenarios \subseteq Scenario
  /\ \A s \in Scenarios : /\ s.left = s.bounds
                          /\ \A v \in Movies : \E i \in DOMAIN s.backlog : s.backlog[i].movieId = v
                          /\ \A i, k \in DOMAIN s.backlog : s.backlog[i] = s.backlog[k] => i = k
  /\ None \notin ClaimIds

VARIABLES
  task,      \* where each poll loop and each reaper stands
  handler,   \* the phase of each process's shutdown handler
  variant,   \* the MovieVariant row of each movie
  tmp, prod, \* the object keys in the two buckets
  erasing,   \* the objects a movie's deletion has still to remove
  scenario   \* the scenario, with what is left of its bounds

store == <<variant, tmp, prod, erasing>>
workerVars == <<queueVars, task, handler, store, scenario>>

Loop(p) == <<p, "loop">>
Reaper(p) == <<p, "reaper">>
Tasks == {Loop(p) : p \in Processes} \cup {Reaper(p) : p \in Reapers}

\* at: the next call; mode: which catch block an error of it reaches; claim:
\* activeJobClaim, set while activeJob is; the other fields as in the code.
Resting == [at |-> "idle", mode |-> "none", claim |-> None, committed |-> FALSE,
            relinquished |-> FALSE, tries |-> 0, result |-> "error", todo |-> {}]

\* The movie's variant is processing the newest of its jobs.
NewestKey(backlog, v) ==
  LET mine == {i \in DOMAIN backlog : backlog[i].movieId = v}
  IN  backlog[CHOOSE i \in mine : \A k \in mine : k <= i].s3Key

WorkerInit ==
  /\ scenario \in Scenarios
  /\ main = [i \in DOMAIN scenario.backlog |-> [job |-> scenario.backlog[i], retryCount |-> 0]]
  /\ sent = {scenario.backlog[i] : i \in DOMAIN scenario.backlog}
  /\ retry = {} /\ completion = {} /\ dead = {} /\ resolved = {} /\ revived = {}
  /\ claims = [m \in ClaimIds |-> NoEntry]
  /\ lease = [m \in ClaimIds |-> "none"]
  /\ progress = [v \in Movies |-> "queued"]
  /\ spent = [j \in Jobs |-> 0]
  /\ task = [t \in Tasks |-> Resting]
  /\ handler = [p \in Processes |-> "up"]
  /\ variant = [v \in Movies |-> [status |-> "PROCESSING", s3Key |-> NewestKey(scenario.backlog, v)]]
  /\ tmp = {j.s3Key : j \in sent}
  /\ prod = {} /\ erasing = {}

-----------------------------------------------------------------------------
\* Calls and their failures.
Job(t) == JobOf(task[t].claim)
At(t, label) == task[t].at = label
Put(t, local) == task' = [task EXCEPT ![t] = local]
Spend(what) == scenario.left[what] > 0 /\ scenario' = [scenario EXCEPT !.left[what] = @ - 1]

\* A call: it takes effect and control goes on, or it throws, with or without
\* its effect, and control is at one of the places errs.
Call(t, Effect, NoEffect, next, errs) ==
  /\ \/ Effect /\ Put(t, next) /\ UNCHANGED scenario
     \/ (Effect \/ NoEffect) /\ Spend("fault") /\ \E local \in errs : Put(t, local)
  /\ UNCHANGED handler

Redis(Script) == Script /\ UNCHANGED store
Nothing == UNCHANGED <<queueVars, store>>
Read(t, next, errs) == Call(t, Nothing, Nothing, next, errs)
Report(t, status, next, errs) ==
  Call(t, Redis(SetEncodeProgress(Job(t).movieId, status)), Nothing, next, errs)

\* A script that answers 0 and changes nothing when its claim is gone.
IfHeld(m, Script) == IF Present(m) THEN Redis(Script) ELSE Nothing

-----------------------------------------------------------------------------
\* Where control goes.
Go(t, label) == [task[t] EXCEPT !.at = label]
GoIn(t, label, mode) == [task[t] EXCEPT !.at = label, !.mode = mode]
Return(t, result) == [task[t] EXCEPT !.at = "resolve", !.result = result]

\* jobShutdownAbort.signal.aborted
Aborted(p) == handler[p] \in {"settle", "abort", "leaving"}

\* The next iteration of the reaper's loop.
NextClaim(t) == [task[t] EXCEPT !.at = "reap", !.claim = None]

\* retryOrDeadLetter: the budget decides between the retry set and the dead letters.
RetryOrDeadLetter(t, mode, retryable) ==
  IF retryable /\ claims[task[t].claim].retryCount < MaxRetry
  THEN GoIn(t, "retry", mode) ELSE GoIn(t, "dead", mode)

\* handBackOnShutdown
HandBack(t, mode) == [GoIn(t, "handBack", mode) EXCEPT !.relinquished = TRUE]

\* Mutant: no branch for an abort.
CaughtRetriesAbort(t, kind) ==
  CASE task[t].relinquished -> Return(t, "relinquished")
    [] ~task[t].relinquished /\ task[t].committed -> GoIn(t, "succeed", "again")
    [] OTHER -> RetryOrDeadLetter(t, "catch", kind \in {"transient", "abort"})

\* The catch block of processJob, for an error of the given kind.  A timeout of
\* the job makes any error "permanent", so does an HTTP 4xx.
Caught(t, kind) ==
  CASE task[t].relinquished -> Return(t, "relinquished")
    [] ~task[t].relinquished /\ task[t].committed -> GoIn(t, "succeed", "again")
    [] ~task[t].relinquished /\ ~task[t].committed ->
         CASE kind = "abort"   -> HandBack(t, "last")
           [] kind = "nospace" -> GoIn(t, "defer", "last")
           [] OTHER            -> RetryOrDeadLetter(t, "catch", kind = "transient")

Thrown(t) == {Caught(t, kind) : kind \in {"transient", "permanent"}}

\* Where an error goes: out of the body of processJob, out of the block that
\* schedules a retry of a failed encode, out of the catch block of processJob
\* (its own retry, then its last resort), out of the worker loop's catch block;
\* out of finalizeSuccess called by the body, by the catch block, for a prior
\* completion, and by the reaper.
Errors(t) ==
  CASE task[t].mode \in {"body", "main"} -> Thrown(t)
    [] task[t].mode = "encode" -> {GoIn(t, "dead", "body")}
    [] task[t].mode = "catch"  -> {GoIn(t, "dead", "last")}
    [] task[t].mode \in {"last", "prior"} -> {GoIn(t, "dead", "loop")}
    [] task[t].mode = "loop"   -> {Return(t, "error")}
    [] task[t].mode = "again"  -> {Go(t, "recommit")}
    [] task[t].mode = "reap"   -> {NextClaim(t)}

-----------------------------------------------------------------------------
\* The poll loop: the check of isShuttingDown, then the claim.
BeginPoll(p) ==
  /\ At(Loop(p), "idle") /\ handler[p] = "up"
  /\ Put(Loop(p), Go(Loop(p), "poll"))
  /\ UNCHANGED <<queueVars, handler, store, scenario>>

Claim(p) ==
  /\ At(Loop(p), "poll")
  /\ \E m \in ClaimIds :
       Call(Loop(p), Redis(ClaimNextEncodeJob(m)), Nothing,
            IF Head(main).job \in Malformed THEN Resting
            ELSE [Resting EXCEPT !.at = "claimed", !.claim = m], {Resting})

\* The queue is empty: the loop sleeps and looks at isShuttingDown again.
FindNothing(p) ==
  /\ At(Loop(p), "poll") /\ main = <<>>
  /\ Put(Loop(p), Resting)
  /\ UNCHANGED <<queueVars, handler, store, scenario>>

\* getJobCompletion first: a committed output is only finalized.
CheckCompletion(p) ==
  LET t == Loop(p)
      start == GoIn(t, "begin", "last")
  IN  /\ At(t, "claimed")
      /\ Read(t, IF CompletionKey(Job(t)) \in completion
                 THEN [GoIn(t, "succeed", "prior") EXCEPT !.committed = TRUE]
                 ELSE start, {start})

\* processJob up to its try block.
Begin(p) ==
  LET t == Loop(p)
  IN  /\ At(t, "begin")
      /\ IF task[t].relinquished
         THEN Put(t, Return(t, "relinquished")) /\ UNCHANGED <<queueVars, handler, store, scenario>>
         ELSE Report(t, "processing", GoIn(t, "inspect", "body"), Errors(t))

\* getTmpObjectSize and the disk checks that follow it.
Inspect(p) ==
  LET t == Loop(p)
      outcome == {Go(t, "toDownload")}
                 \cup (IF "permanent" \in scenario.misfortunes THEN {GoIn(t, "dead", "body")} ELSE {})
                 \cup (IF "nospace" \in scenario.misfortunes THEN {GoIn(t, "defer", "body")} ELSE {})
  IN  /\ At(t, "inspect")
      /\ IF Job(t).s3Key \in tmp
         THEN \E local \in outcome : Read(t, local, Thrown(t))
         ELSE Read(t, Caught(t, "permanent"), Thrown(t))

\* measureStage publishes the stage before it starts it.
StartStage(p) ==
  LET t == Loop(p)
      stage == [toDownload |-> "download", toEncode |-> "encode",
                toUpload |-> "upload", toDelete |-> "delete"]
  IN  /\ task[t].at \in DOMAIN stage
      /\ Report(t, "processing", Go(t, stage[task[t].at]), Thrown(t))

\* downloadFromTmp
Download(p) ==
  LET t == Loop(p)
  IN  /\ At(t, "download")
      /\ IF Aborted(p) \/ task[t].relinquished THEN Read(t, Caught(t, "abort"), Thrown(t))
         ELSE IF Job(t).s3Key \notin tmp THEN Read(t, Caught(t, "permanent"), Thrown(t))
         ELSE \/ Read(t, Go(t, "toEncode"), Thrown(t))
              \/ \E kind \in scenario.misfortunes : Read(t, Caught(t, kind), Thrown(t))

\* The progress callback of encodeVideo.
EncodeProgress(p) ==
  LET t == Loop(p)
  IN  /\ At(t, "encode") /\ ~task[t].relinquished
      /\ Redis(SetEncodeProgress(Job(t).movieId, "processing"))
      /\ UNCHANGED <<task, handler, scenario>>

\* encodeVideo, which returns its failures, and what processJob does with them;
\* an abort may come too late to change the outcome.
Encode(p) ==
  LET t == Loop(p)
      failure == [transient |-> RetryOrDeadLetter(t, "encode", TRUE),
                  permanent |-> GoIn(t, "dead", "body"),
                  nospace   |-> GoIn(t, "defer", "body")]
  IN  /\ At(t, "encode")
      /\ \E local \in IF task[t].relinquished THEN {Return(t, "relinquished")}
                      ELSE {Go(t, "toUpload")} \cup {failure[kind] : kind \in scenario.misfortunes}
                           \cup (IF Aborted(p) THEN {HandBack(t, "body")} ELSE {}) :
           Put(t, local)
      /\ UNCHANGED <<queueVars, handler, store, scenario>>

\* Mutant: the source is deleted before the completion is recorded.
UploadDeletesFirst(p) ==
  /\ At(Loop(p), "upload")
  /\ prod' = prod \cup {Job(Loop(p)).s3Key}
  /\ Put(Loop(p), Go(Loop(p), "toDelete"))
  /\ UNCHANGED <<queueVars, variant, tmp, erasing, handler, scenario>>

\* uploadToProd; an abort may come after the object is complete.
Upload(p) ==
  LET t == Loop(p)
      Stored == prod' = prod \cup {Job(t).s3Key} /\ UNCHANGED <<queueVars, variant, tmp, erasing>>
  IN  /\ At(t, "upload")
      /\ IF Aborted(p) \/ task[t].relinquished
         THEN Call(t, Stored \/ Nothing, Nothing, Caught(t, "abort"), Thrown(t))
         ELSE Call(t, Stored, Nothing, Go(t, "commit"), Thrown(t))

\* commitProcessingJob, up to CommitAttempts times, then getJobCompletion, as a
\* lost reply may hide a write.
Commit(p) ==
  LET t == Loop(p)
      m == task[t].claim
      committed == [Go(t, "toDelete") EXCEPT !.committed = TRUE]
      again == IF task[t].tries + 1 < CommitAttempts
               THEN [task[t] EXCEPT !.tries = @ + 1] ELSE Go(t, "reconcile")
  IN  /\ At(t, "commit")
      /\ Call(t, IfHeld(m, CommitProcessingJob(m)), Nothing,
              IF Present(m) THEN committed ELSE again, {again})

Reconcile(p) ==
  LET t == Loop(p)
      giveUp == [Return(t, "relinquished") EXCEPT !.relinquished = TRUE]
  IN  /\ At(t, "reconcile")
      /\ Read(t, IF CompletionKey(Job(t)) \in completion
                 THEN [Go(t, "toDelete") EXCEPT !.committed = TRUE] ELSE giveUp, {giveUp})

\* deleteFromTmp
DeleteSource(p) ==
  LET t == Loop(p)
      Deleted == tmp' = tmp \ {Job(t).s3Key} /\ UNCHANGED <<queueVars, variant, prod, erasing>>
      next == IF task[t].relinquished THEN Return(t, "relinquished") ELSE GoIn(t, "succeed", "main")
  IN  /\ At(t, "delete")
      /\ IF Aborted(p) \/ task[t].relinquished
         THEN Call(t, Deleted \/ Nothing, Nothing, Caught(t, "abort"), Thrown(t))
         ELSE Call(t, Deleted, Nothing, next, Thrown(t))

-----------------------------------------------------------------------------
\* Mutant: the callback does not compare the key.
CallbackAnyKey(j, status) ==
  /\ variant' = [variant EXCEPT ![j.movieId] =
       IF @.status = "PROCESSING" THEN [@ EXCEPT !.status = status] ELSE @]
  /\ UNCHANGED <<queueVars, tmp, prod, erasing>>

\* The backend's callback route: only the variant still processing this key moves.
Callback(j, status) ==
  /\ variant' = [variant EXCEPT ![j.movieId] =
       IF @.status = "PROCESSING" /\ @.s3Key = j.s3Key THEN [@ EXCEPT !.status = status] ELSE @]
  /\ UNCHANGED <<queueVars, tmp, prod, erasing>>

Discard(j) == prod' = prod \ {j.s3Key} /\ UNCHANGED <<queueVars, variant, tmp, erasing>>

\* What follows finalizeSuccess: for a prior completion and in the reaper, the
\* claim is finished; in processJob it returns.
Finalized(t, result) ==
  IF task[t].mode \in {"prior", "reap"} THEN Go(t, "finish") ELSE Return(t, result)

\* finalizeSuccess: progress, callback, and the removal of an unwanted output.
Succeed(t) ==
  /\ At(t, "succeed")
  /\ Report(t, "completed", Go(t, "succeedCallback"), Errors(t))

\* Mutant: the answer 410 is taken like any other.
CallbackKeepsOutput(t) ==
  /\ At(t, "succeedCallback")
  /\ Call(t, Callback(Job(t), "READY"), Nothing, Finalized(t, "completed"), Errors(t))

SucceedCallback(t) ==
  /\ At(t, "succeedCallback")
  /\ \/ Call(t, Callback(Job(t), "READY"), Nothing,
             IF variant[Job(t).movieId].status = "DELETED" THEN Go(t, "discard")
             ELSE Finalized(t, "completed"), Errors(t))
     \/ scenario.mayReject /\ Read(t, Go(t, "unwanted"), Errors(t))

\* sendCallback: the movie is gone, so is its output.
DiscardOutput(t) ==
  /\ At(t, "discard")
  /\ Call(t, Discard(Job(t)), Nothing, Finalized(t, "completed"), Errors(t))

\* The callback was rejected: the output goes (an error is logged) and the job failed.
DropRejected(t) ==
  /\ At(t, "unwanted")
  /\ Call(t, Discard(Job(t)), Nothing, Go(t, "failProgress"), {Go(t, "failProgress")})

\* markJobFailed and notifyFailure.
DeadLetter(t) ==
  /\ At(t, "dead")
  /\ Call(t, Redis(AddJobToDeadLetterQueue(Job(t))), Nothing, Go(t, "failProgress"), Errors(t))

ReportFailure(t) ==
  /\ At(t, "failProgress")
  /\ Report(t, "failed", Go(t, "failCallback"), Errors(t))

FailCallback(t) ==
  /\ At(t, "failCallback")
  /\ Call(t, Callback(Job(t), "FAILED") \/ (scenario.mayReject /\ Nothing), Nothing,
          CASE task[t].mode \in {"prior", "reap", "main", "again"} -> Finalized(t, "failed")
            [] task[t].mode = "loop" -> Return(t, "error")
            [] OTHER -> Return(t, "failed"), Errors(t))

\* The failed finalize of a committed job records the completion once more.
Recommit(p) ==
  LET t == Loop(p)
  IN  /\ At(t, "recommit")
      /\ Call(t, IfHeld(task[t].claim, CommitProcessingJob(task[t].claim)), Nothing,
              Return(t, "error"), {Return(t, "error")})

\* finishProcessingJob inside finalizeCommittedClaim.
FinishFinalized(t) ==
  LET m == task[t].claim
      next == IF task[t].mode = "reap" THEN NextClaim(t) ELSE Return(t, "completed")
  IN  /\ At(t, "finish")
      /\ Call(t, Redis(FinishProcessingJob(m)), Nothing, next, Errors(t))

-----------------------------------------------------------------------------
\* addJobToRetryQueue and deferJobForInfrastructure throw when the claim is
\* gone; then the progress is published.
Postpone(p) ==
  LET t == Loop(p)
      m == task[t].claim
      script == IF At(t, "retry") THEN AddJobToRetryQueue(m) ELSE DeferJobForInfrastructure(m)
  IN  /\ task[t].at \in {"retry", "defer"}
      /\ IF Present(m) THEN Call(t, Redis(script), Nothing, Go(t, "postponed"), Errors(t))
         ELSE \E local \in Errors(t) : Read(t, local, {local})

ReportPostponed(p) ==
  LET t == Loop(p)
  IN  /\ At(t, "postponed")
      /\ Report(t, "retrying", Return(t, "retrying"), Errors(t))

\* handBackOnShutdown: requeue, and if that moved the job, publish "queued".
GiveBack(p) ==
  LET t == Loop(p)
      m == task[t].claim
      moves == Present(m) /\ CompletionKey(Job(t)) \notin completion
  IN  /\ At(t, "handBack")
      /\ IF moves THEN Call(t, Redis(RequeueProcessingJob(m)), Nothing, Go(t, "handedBack"), Errors(t))
         ELSE Read(t, Return(t, "relinquished"), Errors(t))

ReportHandedBack(p) ==
  LET t == Loop(p)
  IN  /\ At(t, "handedBack")
      /\ Report(t, "queued", Return(t, "relinquished"), {Return(t, "relinquished")})

\* The finally block of the loop: settle the claim unless it was given up or is
\* committed and not finalized.
Resolve(p) ==
  LET t == Loop(p)
      m == task[t].claim
      done == task[t].result \in {"completed", "failed"}
      claimResolved == ~task[t].relinquished /\ (task[t].committed => done)
      Settle == IF task[t].committed \/ task[t].result = "completed"
                THEN FinishProcessingJob(m) ELSE ReleaseProcessingJob(m)
  IN  /\ At(t, "resolve")
      /\ IF claimResolved THEN Call(t, Redis(Settle), Nothing, Resting, {Resting})
         ELSE Put(t, Resting) /\ UNCHANGED <<queueVars, handler, store, scenario>>

-----------------------------------------------------------------------------
\* runReaper: list the stale claims, then take them one by one.
\* Mutant: the score of a claim is not compared with the threshold.
ReapAll(p) ==
  LET t == Reaper(p)
      all == {m \in ClaimIds : Present(m)}
  IN  /\ At(t, "idle") /\ handler[p] = "up" /\ all # {}
      /\ Put(t, [Resting EXCEPT !.at = "reap", !.mode = "reap", !.todo = all])
      /\ UNCHANGED <<queueVars, handler, store, scenario>>

ReapStart(p) ==
  LET t == Reaper(p)
      stale == {m \in ClaimIds : lease[m] = "stale"}
  IN  /\ At(t, "idle") /\ handler[p] = "up" /\ stale # {}
      /\ Put(t, [Resting EXCEPT !.at = "reap", !.mode = "reap", !.todo = stale])
      /\ UNCHANGED <<queueVars, handler, store, scenario>>

Reap(p) ==
  LET t == Reaper(p)
  IN  /\ At(t, "reap")
      /\ IF task[t].todo = {}
         THEN Put(t, Resting) /\ UNCHANGED <<queueVars, handler, store, scenario>>
         ELSE \E m \in task[t].todo :
                LET local == [task[t] EXCEPT !.claim = m, !.todo = @ \ {m}]
                    guess == [local EXCEPT !.at = "guess"]
                IN  Read(t, IF CompletionKey(JobOf(m)) \in completion
                            THEN [local EXCEPT !.at = "succeed"] ELSE guess, {guess})

\* Mutants: the reaper drops, finishes or skips what is not known to be over.
GuessReleases(p) ==
  /\ At(Reaper(p), "guess")
  /\ Put(Reaper(p), Go(Reaper(p), IF progress[Job(Reaper(p)).movieId] \in {"failed", "none"}
                                  THEN "release" ELSE "requeue"))
  /\ UNCHANGED <<queueVars, handler, store, scenario>>

GuessFinishes(p) ==
  /\ At(Reaper(p), "guess")
  /\ Put(Reaper(p), Go(Reaper(p), IF progress[Job(Reaper(p)).movieId] = "failed"
                                  THEN "release" ELSE "succeed"))
  /\ UNCHANGED <<queueVars, handler, store, scenario>>

GuessSkips(p) ==
  /\ At(Reaper(p), "guess")
  /\ Put(Reaper(p), IF progress[Job(Reaper(p)).movieId] = "processing"
                    THEN NextClaim(Reaper(p)) ELSE Go(Reaper(p), "requeue"))
  /\ UNCHANGED <<queueVars, handler, store, scenario>>

\* Without a completion record the reaper goes by the movie's progress.
Guess(p) ==
  LET t == Reaper(p)
      status == progress[Job(t).movieId]
  IN  /\ At(t, "guess")
      /\ Read(t, CASE status = "failed"    -> Go(t, "release")
                   [] status = "completed" -> Go(t, "succeed")
                   [] OTHER                -> Go(t, "requeue"), {Go(t, "requeue")})

ReleaseFailed(p) ==
  LET t == Reaper(p)
  IN  /\ At(t, "release")
      /\ Call(t, Redis(ReleaseProcessingJob(task[t].claim)), Nothing, NextClaim(t), {NextClaim(t)})

RequeueStale(p) ==
  LET t == Reaper(p)
      m == task[t].claim
  IN  /\ At(t, "requeue")
      /\ IF Present(m) /\ CompletionKey(JobOf(m)) \notin completion
         THEN Call(t, Redis(RequeueProcessingJob(m)), Nothing, NextClaim(t), {NextClaim(t)})
         ELSE Read(t, NextClaim(t), {NextClaim(t)})

-----------------------------------------------------------------------------
\* The lease heartbeat runs from the claim to the finally block, while the job
\* is not relinquished.
Beating(p) ==
  LET t == Loop(p) IN task[t].claim # None /\ ~At(t, "resolve") /\ ~task[t].relinquished

Heartbeat(p) ==
  LET m == task[Loop(p)].claim
  IN  /\ Beating(p)
      /\ IF Present(m)
         THEN lease[m] = "stale" /\ Redis(RefreshProcessingJob(m)) /\ UNCHANGED task
         ELSE Put(Loop(p), [task[Loop(p)] EXCEPT !.relinquished = TRUE]) /\ Nothing
      /\ UNCHANGED <<handler, scenario>>

\* A lease nobody refreshes runs out.  The lease is far longer than the waits of
\* the shutdown handler and the calls after the last heartbeat, so a claim some
\* process still works on is lost only by a process that stalls.
LeaseEnds(m) ==
  /\ ~\E p \in Processes : task[Loop(p)].claim = m
  /\ Redis(LeaseRunsOut(m))
  /\ UNCHANGED <<task, handler, scenario>>

Stall(m) ==
  /\ \E p \in Processes : task[Loop(p)].claim = m
  /\ Redis(LeaseRunsOut(m))
  /\ Spend("stall")
  /\ UNCHANGED <<task, handler>>

\* The shutdown handler: abort the job unless it is being finalized, and wait.
Sigterm(p) ==
  LET finalizing == task[Loop(p)].claim # None /\ task[Loop(p)].committed
  IN  /\ handler[p] = "up"
      /\ handler' = [handler EXCEPT ![p] = IF finalizing THEN "drain" ELSE "settle"]
      /\ Spend("sigterm")
      /\ UNCHANGED <<queueVars, task, store>>

\* The wait of a finalizing job is over: abort it after all, and wait again.
DrainEnds(p) ==
  /\ handler[p] = "drain" /\ task[Loop(p)].claim # None
  /\ handler' = [handler EXCEPT ![p] = "abort"]
  /\ UNCHANGED <<queueVars, task, store, scenario>>

\* Mutant: the claim is dropped instead of requeued.
HandOffReleases(p) ==
  LET m == task[Loop(p)].claim
  IN  /\ handler[p] \in {"settle", "abort"} /\ m # None
      /\ Put(Loop(p), [task[Loop(p)] EXCEPT !.relinquished = TRUE])
      /\ Redis(ReleaseProcessingJob(m)) /\ UNCHANGED scenario
      /\ handler' = [handler EXCEPT ![p] = "leaving"]

\* A wait is over and the job is not: relinquish it and hand its claim off.
HandOff(p) ==
  LET t == Loop(p)
      m == task[t].claim
      script == IF task[t].committed THEN ExpireProcessingJob(m) ELSE RequeueProcessingJob(m)
      moves == task[t].committed \/ (Present(m) /\ CompletionKey(Job(t)) \notin completion)
  IN  /\ handler[p] \in {"settle", "abort"} /\ m # None
      /\ Put(t, [task[t] EXCEPT !.relinquished = TRUE])
      /\ \/ (IF moves THEN Redis(script) ELSE Nothing) /\ UNCHANGED scenario
         \/ Nothing /\ Spend("fault")
      /\ handler' = [handler EXCEPT ![p] = "leaving"]

\* The loop has ended, or its claim call outlasts the wait: nothing to hand off.
Settled(p) ==
  /\ handler[p] \in {"settle", "drain", "abort"} /\ task[Loop(p)].claim = None
  /\ \/ At(Loop(p), "idle") /\ UNCHANGED scenario
     \/ At(Loop(p), "poll") /\ Spend("stall")
  /\ handler' = [handler EXCEPT ![p] = "leaving"]
  /\ UNCHANGED <<queueVars, task, store>>

\* The process is gone, with all it knew, and a new one takes its place.
Replaced(p) ==
  /\ task' = [t \in Tasks |-> IF t[1] = p THEN Resting ELSE task[t]]
  /\ handler' = [handler EXCEPT ![p] = "up"]
  /\ Nothing

Exit(p) == handler[p] = "leaving" /\ Replaced(p) /\ UNCHANGED scenario
Crash(p) == (\E t \in Tasks : t[1] = p /\ task[t] # Resting) /\ Replaced(p) /\ Spend("crash")

-----------------------------------------------------------------------------
\* The interval of every process moves ready retries back.
RetriesComeDue(ready) == Redis(ProcessRetryQueue(ready)) /\ UNCHANGED <<task, handler, scenario>>
ProgressTtl(v) == Redis(ProgressExpires(v)) /\ UNCHANGED <<task, handler, scenario>>

\* DELETE /movies/:movie removes the row, then its objects, as far as it can.
DeleteMovie(v) ==
  /\ variant[v].status # "DELETED"
  /\ Spend("delete")
  /\ variant' = [variant EXCEPT ![v].status = "DELETED"]
  /\ erasing' = erasing \cup ({"tmp", "prod"} \X {variant[v].s3Key})
  /\ UNCHANGED <<queueVars, task, handler, tmp, prod>>

Erase(object) ==
  /\ object \in erasing
  /\ erasing' = erasing \ {object}
  /\ tmp' = IF object[1] = "tmp" THEN tmp \ {object[2]} ELSE tmp
  /\ prod' = IF object[1] = "prod" THEN prod \ {object[2]} ELSE prod
  /\ UNCHANGED <<queueVars, task, handler, variant, scenario>>

LoopStep(p) ==
  \/ BeginPoll(p) \/ Claim(p) \/ FindNothing(p) \/ CheckCompletion(p) \/ Begin(p) \/ Inspect(p)
  \/ StartStage(p) \/ Download(p) \/ Encode(p) \/ Upload(p) \/ Commit(p) \/ Reconcile(p)
  \/ DeleteSource(p) \/ Recommit(p) \/ Postpone(p) \/ ReportPostponed(p) \/ GiveBack(p)
  \/ ReportHandedBack(p) \/ Resolve(p)

FinalStep(t) ==
  \/ Succeed(t) \/ SucceedCallback(t) \/ DiscardOutput(t) \/ DropRejected(t)
  \/ DeadLetter(t) \/ ReportFailure(t) \/ FailCallback(t) \/ FinishFinalized(t)

ReaperStep(p) == ReapStart(p) \/ Reap(p) \/ Guess(p) \/ ReleaseFailed(p) \/ RequeueStale(p)

HandlerStep(p) == DrainEnds(p) \/ HandOff(p) \/ Settled(p) \/ Exit(p)

WorkerNext ==
  \/ \E p \in Processes : \/ LoopStep(p) \/ EncodeProgress(p) \/ Heartbeat(p)
                          \/ Sigterm(p) \/ HandlerStep(p) \/ Crash(p)
  \/ \E p \in Reapers : ReaperStep(p)
  \/ \E t \in Tasks : FinalStep(t)
  \/ \E m \in ClaimIds : LeaseEnds(m) \/ Stall(m)
  \/ \E ready \in SUBSET retry : RetriesComeDue(ready)
  \/ \E v \in Movies : ProgressTtl(v) \/ DeleteMovie(v)
  \/ \E object \in erasing : Erase(object)

WorkerSpec == WorkerInit /\ [][WorkerNext]_workerVars

\* The event loop of a live process runs on, its timers fire, a lease nobody
\* refreshes ages, and the retry interval of some process finds what is due.
WorkerFairness ==
  /\ \A p \in Processes : WF_workerVars(LoopStep(p)) /\ WF_workerVars(HandlerStep(p))
  /\ \A p \in Reapers : WF_workerVars(ReaperStep(p))
  /\ \A t \in Tasks : WF_workerVars(FinalStep(t))
  /\ \A m \in ClaimIds : WF_workerVars(LeaseEnds(m))
  /\ WF_workerVars(retry # {} /\ RetriesComeDue(retry))

FairWorkerSpec == WorkerSpec /\ WorkerFairness

-----------------------------------------------------------------------------
Labels == {"idle", "poll", "claimed", "begin", "inspect", "toDownload", "download",
  "toEncode", "encode", "toUpload", "upload", "commit", "reconcile", "toDelete", "delete",
  "succeed", "succeedCallback", "discard", "unwanted", "dead", "failProgress",
  "failCallback", "recommit", "finish", "retry", "defer", "postponed", "handBack",
  "handedBack", "resolve", "reap", "guess", "release", "requeue"}

Modes == {"none", "body", "encode", "catch", "last", "loop", "prior", "main", "again", "reap"}
Results == {"completed", "failed", "error", "retrying", "relinquished"}

Local == [at : Labels, mode : Modes, claim : ClaimIds \cup {None}, committed : BOOLEAN,
          relinquished : BOOLEAN, tries : 0..(CommitAttempts - 1), result : Results,
          todo : SUBSET ClaimIds]

WorkerTypeOK ==
  /\ QueueTypeOK
  /\ task \in [Tasks -> Local]
  /\ handler \in [Processes -> {"up", "settle", "drain", "abort", "leaving"}]
  /\ variant \in [Movies -> [status : {"PROCESSING", "READY", "FAILED", "DELETED"}, s3Key : Keys]]
  /\ tmp \subseteq Keys /\ prod \subseteq Keys
  /\ erasing \subseteq {"tmp", "prod"} \X Keys
  /\ scenario \in Scenario /\ \A what \in Bounds : scenario.left[what] <= scenario.bounds[what]

\* A movie its viewers are told is ready has its file in the production bucket:
\* the success callback follows the upload, whoever sends it (the worker, a
\* later owner, a reaper), and what is uploaded stays.
ReadyHasOutput ==
  \A v \in Movies : variant[v].status = "READY" => variant[v].s3Key \in prod

\* While a movie is processing its upload can be encoded again, or a completion
\* record says it need not be: the record is written before the source is
\* deleted (job-runner.ts:370-373).
SourceKept ==
  \A v \in Movies : variant[v].status = "PROCESSING" =>
    variant[v].s3Key \in tmp \/ <<v, variant[v].s3Key>> \in completion

Encodes(j, v) == j.movieId = v /\ j.s3Key = variant[v].s3Key
Live(j) == Queued(j) \/ Waiting(j) \/ Held(j)

\* A movie that is processing has a job in the queue that will settle it, or a
\* dead letter by which an operator can: "crashed jobs are requeued instead of
\* being lost" (queue.ts:379).
Accounted ==
  \A v \in Movies : variant[v].status = "PROCESSING" =>
    \E j \in sent : Encodes(j, v) /\ (Live(j) \/ j \in dead)

\* The same with no operator: a movie still processing has a job in the queue,
\* and viewers are not left waiting for a movie nothing works on.  Of scenarios
\* where the backend takes the callbacks.
StillRunning ==
  ~scenario.mayReject => \A v \in Movies : variant[v].status = "PROCESSING" =>
    \E j \in sent : Encodes(j, v) /\ Live(j)

\* A job whose completion is recorded is finalized as a success, and never
\* reported as failed (job-runner.ts:190-192): its movie does not turn FAILED
\* while the record is there, unless the backend refused the success.
CommittedNeverFails ==
  [][\A v \in Movies :
       ~scenario.mayReject /\ variant[v].status = "PROCESSING" /\ <<v, variant[v].s3Key>> \in completion
       => variant'[v].status # "FAILED"]_workerVars

\* While a worker is about to write how a job ended, no other claim on that job
\* is held: another worker takes over "only after this worker has relinquished terminal
\* writes" (index.ts:67-70).  Of scenarios where a claim is not lost under its
\* running owner, and only crashes happen.
TerminalWrites == {"succeed", "succeedCallback", "discard", "unwanted", "dead",
                   "failProgress", "failCallback"}
OneTerminalWriter ==
  (\A what \in Bounds \ {"crash"} : scenario.bounds[what] = 0) =>
  \A p \in Processes : task[Loop(p)].at \in TerminalWrites =>
    \A m \in ClaimIds : HeldBy(m, Job(Loop(p))) => m = task[Loop(p)].claim

\* Shutdowns alone never fail a movie, dead-letter a job or cost it a retry:
\* "the job did nothing wrong, so it must not consume a retry"
\* (job-runner.ts:124-126).  Of scenarios where nothing else happens.
OnlyShutdowns ==
  /\ scenario.misfortunes = {} /\ ~scenario.mayReject
  /\ \A what \in Bounds \ {"sigterm"} : scenario.bounds[what] = 0
UnharmedByShutdown ==
  OnlyShutdowns => /\ \A v \in Movies : variant[v].status # "FAILED"
                   /\ dead = {} /\ \A j \in sent : spent[j] = 0

\* When all work on it is over, a deleted movie has left no file in the
\* production bucket, although its encode may have run on (callback.ts:95-96).
DeletedLeavesNothing ==
  (erasing = {} /\ main = <<>> /\ retry = {} /\ \A m \in ClaimIds : ~Present(m))
  /\ (\A t \in Tasks : task[t].claim = None)
  => \A v \in Movies : variant[v].status = "DELETED" => variant[v].s3Key \notin prod

\* Every upload handed to the workers comes to an end, whatever process crashes
\* on the way: the movie becomes ready or failed, or its job a dead letter.
SettlesOrIsRecorded ==
  \A v \in Movies : variant[v].status = "PROCESSING" ~>
    variant[v].status # "PROCESSING" \/ \E j \in dead : Encodes(j, v)
=============================================================================
