---------------------------- MODULE EncodeQueue ----------------------------
(***************************************************************************)
(* The Redis keys through which the backend hands encode jobs to the       *)
(* ffmpeg workers (app/ffmpeg-worker/src/queue.ts and addEncodeJob of      *)
(* app/backend/src/lib/redis.ts).  Every operation below is one command or *)
(* one Lua script, hence one atomic step.  The clients are left free: any  *)
(* operation may be called at any time with any claim that was ever        *)
(* issued, so a worker that stalled, was reaped and came back is included. *)
(*                                                                         *)
(* Abstracted: clock readings.  A retry entry may come due at any moment,  *)
(* a lease may run out at any moment, a key with a TTL may expire at any   *)
(* moment.  The cap of the dead-letter set is left out.                    *)
(***************************************************************************)
EXTENDS Naturals, Sequences, FiniteSets

CONSTANTS
  Movies,      \* movie ids
  Keys,        \* object keys of uploads in the tmp bucket
  Jobs,        \* the EncodeJob messages that may be queued, one per addEncodeJob call
  Malformed,   \* the messages that the schema of the Lua scripts refuses
  ClaimIds,    \* the values randomUUID may return for a claim
  MaxRetry     \* MAX_RETRY_COUNT

ASSUME JobsAssumption ==
  /\ Jobs \subseteq [movieId : Movies, s3Key : Keys, createdAt : Nat]
  /\ Malformed \subseteq Jobs
  /\ IsFiniteSet(Jobs)
ASSUME MaxRetryAssumption == MaxRetry \in Nat

\* A message in the main list or the retry set: the job and its retryCount.
Entry == [job : Jobs, retryCount : 0..MaxRetry]
NoEntry == [job |-> "none"]

\* The key video:encode:completion:{movieId}:{s3Key} of a job.
CompletionKey(j) == <<j.movieId, j.s3Key>>

Status == {"queued", "processing", "retrying", "completed", "failed"}

VARIABLES
  main,        \* ENCODE_QUEUE_KEY, oldest first: LPUSH appends, RPOP takes the head
  retry,       \* RETRY_QUEUE_KEY
  claims,      \* the job in the text of each claim member ever issued
  lease,       \* PROCESSING_QUEUE_KEY: "none" when the member is absent, else
               \* whether its score is older than the reaper's threshold
  completion,  \* the completion keys that exist
  progress,    \* the status of each movie's progress key, "none" when absent
  dead         \* the jobs DEAD_LETTER_QUEUE_KEY names

\* History variables: no operation reads them, the properties do.
VARIABLES
  sent,        \* the jobs addEncodeJob has queued
  resolved,    \* the jobs whose claim was finished or released, or that were refused
  revived,     \* the claims expireProcessingJob put back after their removal
  spent        \* how many retries each job has consumed

redis == <<main, retry, claims, lease, completion, progress, dead>>
history == <<sent, resolved, revived, spent>>
queueVars == <<redis, history>>

-----------------------------------------------------------------------------
Issued(m) == claims[m] # NoEntry
Present(m) == lease[m] # "none"
JobOf(m) == claims[m].job

\* Empty keys, but for malformed entries an operator may have left to retry.
QueueInit ==
  /\ main = <<>>
  /\ retry \in SUBSET [job : Malformed, retryCount : {0}]
  /\ claims = [m \in ClaimIds |-> NoEntry]
  /\ lease = [m \in ClaimIds |-> "none"]
  /\ completion = {}
  /\ progress = [v \in Movies |-> "none"]
  /\ dead = {}
  /\ sent = {e.job : e \in retry}
  /\ resolved = {}
  /\ revived = {}
  /\ spent = [j \in Jobs |-> 0]

\* addEncodeJob: LPUSH.  createdAt makes every call's message a new one.
AddEncodeJob(j) ==
  /\ j \notin sent
  /\ main' = Append(main, [job |-> j, retryCount |-> 0])
  /\ sent' = sent \cup {j}
  /\ UNCHANGED <<retry, claims, lease, completion, progress, dead, resolved, revived, spent>>

\* claimNextEncodeJob: RPOP and, in the same script, the claim or the dead letter.
ClaimNextEncodeJob(m) ==
  /\ main # <<>>
  /\ ~Issued(m)
  /\ main' = Tail(main)
  /\ IF Head(main).job \in Malformed
     THEN /\ dead' = dead \cup {Head(main).job}
          /\ resolved' = resolved \cup {Head(main).job}
          /\ UNCHANGED <<claims, lease>>
     ELSE /\ claims' = [claims EXCEPT ![m] = Head(main)]
          /\ lease' = [lease EXCEPT ![m] = "live"]
          /\ UNCHANGED <<dead, resolved>>
  /\ UNCHANGED <<retry, completion, progress, sent, revived, spent>>

\* Mutant: the claim goes before the budget is looked at, and with the dead letter.
RetryDropsClaim(m) ==
  /\ Issued(m) /\ Present(m)
  /\ lease' = [lease EXCEPT ![m] = "none"]
  /\ IF claims[m].retryCount + 1 > MaxRetry
     THEN dead' = dead \cup {JobOf(m)} /\ UNCHANGED <<retry, spent>>
     ELSE /\ retry' = retry \cup {[claims[m] EXCEPT !.retryCount = @ + 1]}
          /\ spent' = [spent EXCEPT ![JobOf(m)] = claims[m].retryCount + 1]
          /\ UNCHANGED dead
  /\ UNCHANGED <<main, claims, completion, progress, sent, resolved, revived>>

\* addJobToRetryQueue with the claim: past the budget it dead-letters and
\* throws; otherwise one script adds the retry entry and drops the claim, and
\* does nothing when the claim is gone (the caller throws).
AddJobToRetryQueue(m) ==
  /\ Issued(m)
  /\ IF claims[m].retryCount + 1 > MaxRetry
     THEN /\ dead' = dead \cup {JobOf(m)}
          /\ UNCHANGED <<retry, lease, spent>>
     ELSE /\ Present(m)
          /\ retry' = retry \cup {[claims[m] EXCEPT !.retryCount = @ + 1]}
          /\ lease' = [lease EXCEPT ![m] = "none"]
          /\ spent' = [spent EXCEPT ![JobOf(m)] = claims[m].retryCount + 1]
          /\ UNCHANGED dead
  /\ UNCHANGED <<main, claims, completion, progress, sent, resolved, revived>>

\* deferJobForInfrastructure: the same move, with the retry count untouched.
DeferJobForInfrastructure(m) ==
  /\ Issued(m) /\ Present(m)
  /\ retry' = retry \cup {claims[m]}
  /\ lease' = [lease EXCEPT ![m] = "none"]
  /\ UNCHANGED <<main, claims, completion, progress, dead, sent, resolved, revived, spent>>

\* The orders in which ZRANGEBYSCORE may list a set of ready entries.
Listings(S) ==
  {s \in [1..Cardinality(S) -> S] :
     /\ \A a, b \in DOMAIN s : s[a] = s[b] => a = b
     /\ \A e \in S : \E a \in DOMAIN s : s[a] = e}

\* Mutant: the entries stay in the retry set.
MoveWithoutRemoval(ready) ==
  LET good == {e \in ready : e.job \notin Malformed}
  IN  /\ \E moved \in Listings(good) : main' = main \o moved
      /\ good # {} /\ Len(main) < 3
      /\ UNCHANGED <<retry, claims, lease, completion, progress, dead, history>>

\* processRetryQueue: the ready entries leave the retry set; malformed ones are
\* dead-lettered, the others go behind the waiting work, and their movies read
\* "queued" from the same step on.
ProcessRetryQueue(ready) ==
  LET bad == {e \in ready : e.job \in Malformed}
      good == ready \ bad
  IN  /\ ready # {}
      /\ retry' = retry \ ready
      /\ \E moved \in Listings(good) : main' = main \o moved
      /\ dead' = dead \cup {e.job : e \in bad}
      /\ resolved' = resolved \cup {e.job : e \in bad}
      /\ progress' = [v \in Movies |->
                        IF \E e \in good : e.job.movieId = v THEN "queued" ELSE progress[v]]
      /\ UNCHANGED <<claims, lease, completion, sent, revived, spent>>

\* commitProcessingJob: refresh the claim and record the completion, or refuse.
CommitProcessingJob(m) ==
  /\ Issued(m) /\ Present(m)
  /\ lease' = [lease EXCEPT ![m] = "live"]
  /\ completion' = completion \cup {CompletionKey(JobOf(m))}
  /\ UNCHANGED <<main, retry, claims, progress, dead, history>>

\* Mutant: the completion record goes whether or not the claim was there.
FinishForgetsClaim(m) ==
  /\ Issued(m)
  /\ lease' = [lease EXCEPT ![m] = "none"]
  /\ completion' = completion \ {CompletionKey(JobOf(m))}
  /\ resolved' = IF Present(m) THEN resolved \cup {JobOf(m)} ELSE resolved
  /\ UNCHANGED <<main, retry, claims, progress, dead, sent, revived, spent>>

\* finishProcessingJob: the completion record goes only with the claim.
FinishProcessingJob(m) ==
  /\ Issued(m)
  /\ IF Present(m)
     THEN /\ lease' = [lease EXCEPT ![m] = "none"]
          /\ completion' = completion \ {CompletionKey(JobOf(m))}
          /\ resolved' = resolved \cup {JobOf(m)}
     ELSE UNCHANGED <<lease, completion, resolved>>
  /\ UNCHANGED <<main, retry, claims, progress, dead, sent, revived, spent>>

\* releaseProcessingJob: ZREM.
ReleaseProcessingJob(m) ==
  /\ Issued(m)
  /\ IF Present(m)
     THEN /\ lease' = [lease EXCEPT ![m] = "none"]
          /\ resolved' = resolved \cup {JobOf(m)}
     ELSE UNCHANGED <<lease, resolved>>
  /\ UNCHANGED <<main, retry, claims, completion, progress, dead, sent, revived, spent>>

\* expireProcessingJob: ZADD with score 0, whether or not the member is there.
\* It is the last call a process makes with a claim, so one claim sees it once.
ExpireProcessingJob(m) ==
  /\ Issued(m)
  /\ m \notin revived
  /\ lease' = [lease EXCEPT ![m] = "stale"]
  /\ revived' = IF Present(m) THEN revived ELSE revived \cup {m}
  /\ UNCHANGED <<main, retry, claims, completion, progress, dead, sent, resolved, spent>>

\* refreshProcessingJob: a new score for a member that is still there.
RefreshProcessingJob(m) ==
  /\ Issued(m) /\ Present(m)
  /\ lease' = [lease EXCEPT ![m] = "live"]
  /\ UNCHANGED <<main, retry, claims, completion, progress, dead, history>>

\* Mutants: the count of ZREM is ignored; the retry count starts over.
RequeueUnchecked(m) ==
  /\ Issued(m) /\ Len(main) < 3
  /\ CompletionKey(JobOf(m)) \notin completion
  /\ lease' = [lease EXCEPT ![m] = "none"]
  /\ main' = Append(main, claims[m])
  /\ UNCHANGED <<retry, claims, completion, progress, dead, history>>

RequeueForgetsCount(m) ==
  /\ Issued(m) /\ Present(m)
  /\ CompletionKey(JobOf(m)) \notin completion
  /\ lease' = [lease EXCEPT ![m] = "none"]
  /\ main' = Append(main, [claims[m] EXCEPT !.retryCount = 0])
  /\ UNCHANGED <<retry, claims, completion, progress, dead, history>>

\* requeueProcessingJob and requeueStaleProcessingJob run the same script: back
\* to the main list only while no completion is recorded, and only once.
RequeueProcessingJob(m) ==
  /\ Issued(m) /\ Present(m)
  /\ CompletionKey(JobOf(m)) \notin completion
  /\ lease' = [lease EXCEPT ![m] = "none"]
  /\ main' = Append(main, claims[m])
  /\ UNCHANGED <<retry, claims, completion, progress, dead, history>>

\* addJobToDeadLetterQueue with a job.
AddJobToDeadLetterQueue(j) ==
  /\ dead' = dead \cup {j}
  /\ UNCHANGED <<main, retry, claims, lease, completion, progress, history>>

\* setEncodeProgress: SETEX, whatever the key holds.
SetEncodeProgress(v, s) ==
  /\ progress' = [progress EXCEPT ![v] = s]
  /\ UNCHANGED <<main, retry, claims, lease, completion, dead, history>>

\* PROCESSING_JOB_LEASE_MS pass without a refresh.
LeaseRunsOut(m) ==
  /\ lease[m] = "live"
  /\ lease' = [lease EXCEPT ![m] = "stale"]
  /\ UNCHANGED <<main, retry, claims, completion, progress, dead, history>>

\* The TTLs of the completion and progress keys.
CompletionExpires(k) ==
  /\ k \in completion
  /\ completion' = completion \ {k}
  /\ UNCHANGED <<main, retry, claims, lease, progress, dead, history>>

ProgressExpires(v) ==
  /\ progress[v] # "none"
  /\ progress' = [progress EXCEPT ![v] = "none"]
  /\ UNCHANGED <<main, retry, claims, lease, completion, dead, history>>

\* What the owner of a claim, present or past, may call with it.
OwnerCall(m) ==
  \/ AddJobToRetryQueue(m)
  \/ DeferJobForInfrastructure(m)
  \/ CommitProcessingJob(m)
  \/ FinishProcessingJob(m)
  \/ ReleaseProcessingJob(m)
  \/ RefreshProcessingJob(m)
  \/ RequeueProcessingJob(m)

QueueNext ==
  \/ \E j \in Jobs : AddEncodeJob(j)
  \/ \E m \in ClaimIds : \/ ClaimNextEncodeJob(m)
                         \/ OwnerCall(m)
                         \/ ExpireProcessingJob(m)
                         \/ LeaseRunsOut(m)
  \/ \E ready \in SUBSET retry : ProcessRetryQueue(ready)
  \/ \E k \in Movies \X Keys : CompletionExpires(k)

\* No script reads a progress key or the dead letters, so their other writers
\* (SetEncodeProgress, ProgressExpires, AddJobToDeadLetterQueue) join only in
\* EncodeWorker, where the workers call them and the reaper reads the progress.
QueueSpec == QueueInit /\ [][QueueNext]_queueVars

-----------------------------------------------------------------------------
QueueTypeOK ==
  /\ main \in Seq(Entry)
  /\ retry \subseteq Entry
  /\ claims \in [ClaimIds -> Entry \cup {NoEntry}]
  /\ lease \in [ClaimIds -> {"none", "live", "stale"}]
  /\ completion \subseteq Movies \X Keys
  /\ progress \in [Movies -> Status \cup {"none"}]
  /\ dead \subseteq Jobs
  /\ sent \subseteq Jobs
  /\ resolved \subseteq Jobs
  /\ revived \subseteq ClaimIds
  /\ spent \in [Jobs -> 0..MaxRetry]

\* Where a job is.
Queued(j) == \E a \in DOMAIN main : main[a].job = j
Waiting(j) == \E e \in retry : e.job = j
HeldBy(m, j) == Present(m) /\ JobOf(m) = j
Held(j) == \E m \in ClaimIds : HeldBy(m, j)
Loose(j) == \E m \in revived : JobOf(m) = j

\* At most one element of the main list, of the retry set, and one claim.
AtMostOnce(j) ==
  /\ \A a, b \in DOMAIN main : main[a].job = j /\ main[b].job = j => a = b
  /\ \A d, e \in retry : d.job = j /\ e.job = j => d = e
  /\ \A m, n \in ClaimIds : HeldBy(m, j) /\ HeldBy(n, j) => m = n

\* In no two of them, and in none once resolved.
Exclusive(j) ==
  /\ ~(Queued(j) /\ Waiting(j)) /\ ~(Queued(j) /\ Held(j)) /\ ~(Waiting(j) /\ Held(j))
  /\ j \in resolved => ~Queued(j) /\ ~Waiting(j) /\ ~Held(j)

\* A job is at most once in the main list, in the retry set and under a claim,
\* and in no two of them, whichever stale owner calls which script: the moves
\* of queue.ts are atomic and each removes before it adds.  Only the
\* unconditional ZADD of expireProcessingJob can break this.
OnePlace == \A j \in Jobs : Loose(j) \/ (AtMostOnce(j) /\ Exclusive(j))

\* A job that addEncodeJob queued is somewhere until a claim on it is finished
\* or released, or a script refuses it: no crash of a client between two
\* calls can make it vanish (comment at queue.ts:425-426).
NothingLost ==
  \A j \in sent : Queued(j) \/ Waiting(j) \/ Held(j) \/ j \in resolved

\* The retryCount a job carries, wherever it is, is the number of retries it
\* was given: hand-backs on shutdown, deferrals for disk space and the reaper's
\* requeue neither consume the budget nor give it back (job-runner.ts:124-126,
\* queue.ts:212).
BudgetExact ==
  \A j \in Jobs : Loose(j) \/
    /\ \A a \in DOMAIN main : main[a].job = j => main[a].retryCount = spent[j]
    /\ \A e \in retry : e.job = j => e.retryCount = spent[j]
    /\ \A m \in ClaimIds : HeldBy(m, j) => claims[m].retryCount = spent[j]

\* A call with a claim that is gone changes no queue, no other claim and no
\* completion record: "a stale owner's ZREM/DEL can never disturb the new
\* claim" (queue.ts:385-386).
StaleOwnerHarmless ==
  [][\A m \in ClaimIds :
       ~Present(m) /\ OwnerCall(m) => UNCHANGED <<main, retry, lease, completion>>]_queueVars

\* The queue implements the ledger.
Place(j) ==
  IF Loose(j) THEN "loose"
  ELSE IF j \notin sent THEN "unsent"
  ELSE IF Queued(j) THEN "queued"
  ELSE IF Waiting(j) THEN "waiting"
  ELSE IF Held(j) THEN "held"
  ELSE "settled"

Ledger == INSTANCE JobLedger WITH place <- [j \in Jobs |-> Place(j)]

\* Every step of the queue is a step of the ledger or leaves it alone: a job
\* goes from place to place along the ledger's moves only.
LedgerImplemented == Ledger!LedgerSpec
=============================================================================
