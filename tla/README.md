# Verification of video-host

TLA+ models of the video platform in this repository, the TLC configurations
that check them on small instances, and theorems about them with proofs that
TLAPS checks. Three groups of modules: the pipeline that turns an uploaded file
into a playable movie, the services of the backend around it, and the pages of
the web frontend. Paths are relative to the repository; `W/` stands for
`app/ffmpeg-worker/src/`, `B/` for `app/backend/src/`, `F/` for
`app/frontend/src/`.

## 1. The system

video-host is a video platform: a Hono backend over MySQL (Prisma), Redis and
two object-storage buckets, any number of ffmpeg worker processes, a React
frontend, and nginx-vod for playback. An upload passes through all of them:

1. `POST /upload/init` creates a movie whose variant is `UPLOADING` with an
   `s3Key`, and answers a presigned PUT URL for the **tmp** bucket.
2. The browser PUTs the file, then calls `POST /upload/:id/complete`, which
   moves the variant to `PROCESSING` and LPUSHes an encode job.
3. A worker claims the job, downloads the source, encodes it, uploads the
   result to the **prod** bucket, records the completion in Redis, deletes the
   source, and calls the backend's `/callback`, which moves the variant to
   `READY` (or `FAILED`).
4. Around it: retries with delay, dead letters, leases with a heartbeat, a
   reaper in each worker process, graceful shutdown, a cleanup of uploads
   nobody finished, and `DELETE /movies/:id` at any time.
5. A browser shows the progress, edits and lists movies, series and playlists,
   shares them by invitation, and plays them under signed URLs, as the account
   and the profile its user has selected.

### Inventory

**Pipeline**

| Component | State | Operations | Hard because of | Correct when | Here |
|---|---|---|---|---|---|
| Encode queue (`W/queue.ts`, `B/lib/redis.ts`) | Redis list, retry ZSET, claim ZSET, completion and progress keys, dead letters | push, claim, retry, defer, commit, finish, release, expire, refresh, requeue | stale owners, atomicity, retry budget | a job is in one place, never lost, its budget exact, stale owners harmless | EncodeQueue, JobLedger |
| Worker loop, job runner, finalizer (`W/worker-loop.ts`, `job-runner.ts`, `job-finalizer.ts`) | `activeJob*`, `jobRelinquished`, local phase | claim, encode stages, commit, finalize, retry, hand back, settle | crash at any await, lost replies, nested catch blocks | READY means output exists; a PROCESSING movie can still be finished | EncodeWorker |
| Reaper and heartbeat (`W/reaper.ts`, `index.ts`) | stale claims, in-flight flag | refresh, finalize, release, requeue | guesses from shared progress, races with the owner | a dead worker's job ends once | EncodeWorker |
| Shutdown (`W/shutdown.ts`) | phase, timers | abort, wait, expire or requeue, exit | arrives at every await | costs no retry, loses no job | EncodeWorker |
| Child processes (`W/encoder.ts`) | child, timers, flags | probe, encode, probe the output, thumbnail | timeout, abort and exit race; SIGTERM ends with code 0 | a cut encode is no success; every encode ends | EncoderProcess |
| Callback route (`B/routes/api/v4/callback.ts`) | variant row | guarded update | late, duplicate, foreign callbacks | only the variant still processing the key moves | EncodeWorker |
| Upload routes (`B/routes/api/v4/upload.ts`) | variant row, tmp bucket | init, url, complete | read-then-write races, lost pushes | one job per upload, its source in place | UploadFlow |
| Stale-upload cleanup (`B/lib/cleanup-stale-uploads.ts`) | rows, tmp bucket | list, guarded delete | acts on an old list | never deletes an active movie | UploadFlow |
| Movie deletion (`B/routes/api/v4/movies/[movie].ts`) | row, both buckets | delete | uploads and encodes run on | nothing stays behind | UploadFlow, EncodeWorker |

**Services of the backend**

| Component | State | Operations | Hard because of | Correct when | Here |
|---|---|---|---|---|---|
| Start, migration lock, shutdown (`app/backend/start.mjs`, `B/index.ts`) | MySQL lock and session, children, drain | lock, beat, migrate, release, serve, close | other replicas, lost sessions, signals | one migration at a time; a signal ends the process, unless a handler without a connection holds it | BackendStart |
| Series, playlists (`B/routes/api/v4/series`, `playlists`, `B/utils/movieAuth.ts`) | rows with an order | create, add, remove, reorder, delete, PATCH of a movie | read-then-write over several requests | nobody puts a movie into another's series | Catalogue |
| Logins, profiles, system accounts (`B/lib/auth-profile.ts`, `B/routes/api/v4/users/profiles.ts`, `system-accounts.ts`) | user and profile rows | provision, create, delete | concurrent first requests, a counted limit | one profile per identity, limit kept | Accounts |
| Progress stream (`B/routes/api/v4/progress.ts`, `B/lib/redis.ts`) | cached client, shared scan | poll, scan, send | shared promises that fail late | streams share one scan | ProgressStream |
| Visibility, invitations (`B/utils/buildVisibilityFilter.ts`, `B/routes/api/v4/invitations.ts`) | visibilities, grants, invitations | filter, view, invite, accept, decline, cancel | one rule written five times; read-then-write | the filters agree; access only by invitation | Sharing |
| Playback tokens (`B/lib/vod-token.ts`, `B/routes/api/v4/vod.ts`) | none | sign, verify, map | rounding, units, refetches | a URL lasts six hours, then ends | Playback |

**Web frontend**

| Component | State | Operations | Hard because of | Correct when | Here |
|---|---|---|---|---|---|
| Upload page (`F/routes/_app.dashboard.videos.new.tsx`, `F/hooks/useUpload.ts`) | phase, refs, queue of saves | upload, resume, cancel, save, retry | late answers, sessions that change | requests go out as who made the movie; "saved" is true | UploadPage |
| Editors of series and playlists (`F/routes/_app.dashboard.series.$id.edit.tsx`, `playlists.$id.edit.tsx`, `F/components/Dashboard/MovieManager.tsx`) | form, list, refs | load, save, add, remove, reorder | late answers, optimistic lists | shows what is stored; form of its own profile | EntityEditor |
| Editor of a video (`F/routes/_app.dashboard.videos.$id.edit.tsx`) | form, feed, refs | load, save, resume, follow | refetches while one types | edits are kept | VideoEditor |
| Dashboard lists (`F/routes/_app.dashboard.*.index.tsx`) | page, cache, dialog | page, delete | selection changes under a dialog | a row is deleted as who it was listed for | DashboardList |
| Endless lists (`F/hooks/useMovies.ts`, `useInfiniteScrolling.ts`) | pages, cache | load, retry, revalidate | pages fail alone | "no more data" is true | Listing |
| Player, history (`F/components/Player/Shared/Video.tsx`, `F/atoms`) | hls, budgets, positions | load, recover, record | what refills a budget | a broken stream is given up | Player |
| Account switcher (`F/components/Dashboard/AccountSwitcher.tsx`, `B/middleware/auth.ts`) | selection, lists | select, refresh, create, log in and out | other tabs, late answers, silent fallback | acts as the profile it shows | AccountSwitch |

**Not modelled**: see section 7. `PROJECT.json` lists the same components and,
under `hazards`, every place where this code is hard to test, with the
properties that cover it.

## 2. Modules of the pipeline

### EncodeQueue: the Redis keys

One variable per key: `main` (list), `retry` and `dead` (sorted sets), the
claim set as `claims` (the text of each member ever issued) and `lease`
(absent, fresh, or older than the reaper's threshold), `completion`, `progress`.
One action per Redis command or Lua script, named after the function of
`queue.ts` that runs it; a script is atomic, so the action is.

In `QueueSpec` the clients are arbitrary: any script may be called at any time
with any claim that was *ever* issued. This includes everything a stalled,
reaped and resurrected worker can do, and more than the real workers do.

`sent`, `resolved`, `revived` and `spent` are history variables which only the
properties read. *Scores* are abstracted: a retry may come due, a lease run out
and a TTL expire at any time. A message is the record of the fields the scripts
compare; `userId`, `retryAfter` and the completion's content are left out.
Messages the Lua schema refuses are the set `Malformed`; they may be in the
list, or left in the retry set by an operator (`QueueInit`). The cap of the
dead-letter set is left out.

`expireProcessingJob` re-adds its claim unconditionally (ZADD). A job whose
removed claim comes back that way is *loose*, and `OnePlace` and `BudgetExact`
say nothing of it. `AddEncodeJob` is called once per message, because
`createdAt` makes every message new.

### JobLedger: what the queue promises

The abstract specification: each job has one place (`unsent`, `queued`,
`waiting`, `held`, `settled`, or `loose`), and eight moves between them.
`LedgerImplemented` says that the queue implements it under the mapping
`place[j] = Place(j)`, which reads a job's place off the Redis keys.

### EncodeWorker: the worker processes over the queue

EXTENDS EncodeQueue. Each process has a poll loop and may have a reaper; `task`
holds, for each, the next awaited call (`at`), which catch block an error of it
reaches (`mode`), and the code's own flags (`claim`, `committed`,
`relinquished`, `result`). `handler` is the phase of the shutdown handler.
`variant`, `tmp` and `prod` are the database row and the buckets, `erasing` the
objects a movie deletion has still to remove.

* *One step is one awaited call* with the synchronous code around it, so
  anything another task, timer or signal does happens between two calls.
* `Call` is the pattern of all of them: the call takes effect and control goes
  on; or it throws, before or after its effect (a lost reply). `Errors` maps
  `mode` to the catch block: the body of `processJob`, its own catch block's
  retry, that block's last resort, the loop's catch, the finalizers.
* A call's effect and the caller's next line are one step. A reply that is
  merely *late* (the handler expires a claim whose finish is under way) is not
  seen.
* `Caught` is the catch block of `processJob`, in its order: relinquished,
  abort, committed, disk full, retry or dead letter. A job timeout counts as
  `permanent`.
* A member of `Scenarios` says what a behaviour is about: the jobs queued at its
  start, what may befall an encode, whether the backend may answer a success
  callback with another 4xx, and how many faults (a failed call or lost reply),
  stalls (a lease lost by a process that works on), crashes, SIGTERMs and
  deletions there may be.
  `LeaseEnds` is free for a claim no live loop works on. The lease is five
  minutes, the heartbeat 30 s, and a shutdown waits 25 s at most, so a lease
  ends under a working process only if that process stalls: `Stall`.
* The branch of the reaper for a malformed claim is left out, since claims are
  written by the claim script only. The retries inside `requestCallback` are
  one call.

### UploadFlow: the upload routes

One movie, any number of requests on it: `/url`, `/complete`, `DELETE`, and runs
of the cleanup. Each step is one awaited database, storage or Redis call;
`request[r]` holds what the request read (`key`), generated (`fresh`) and
answered (`reply`). A PUT may arrive at any time after its URL was answered, also
after the key was replaced. A worker is the single step `Settle`. Deletions of
objects whose errors the code ignores may fail (`BestEffort`). Authorization,
titles and the presigned URL are left out: no property speaks of them.
The cleanup's fixed cutoff is `row.old`; a row touched and aged again during
one run of it still counts as old, which is more than can happen.

### How they compose

EncodeWorker runs the very actions of EncodeQueue, so what is proved of a script
called by anybody holds for the workers that call it. UploadFlow and
EncodeWorker meet at two points which each models from its own side: the push of
a job (`PushJob`; the backlog of a scenario is what it left) and the callback
(`Settle`; `Callback`). EncoderProcess is what EncodeWorker takes as the result
of one call.

## 3. Modules of the services and of the frontend

The services share no state that these modules follow, and neither do the pages
(a browser shows one at a time; the selection each of them sees change is an
action of its own). `MCServices` and `MCBrowser` therefore choose one area or
page at the start and run its module; the others stay in their initial state.

### Services

* **BackendStart**: `start.mjs` and the server it spawns, for any number of
  replicas. `boot` is the awaited call of `start.mjs`, `failing` that a `finally`
  block is unwinding an error, `session` the MySQL session, `child` the migration
  or the server, `lock` the holder of `GET_LOCK`. A session may be lost at any
  moment (`SessionLost`), which frees the lock whether or not the replica has
  noticed; signals come at any moment. Parsing of URLs and SSL options only
  decides whether `Connect` fails. `server` is the phase of `index.ts`: a shutdown
  waits for the start, drains, forces the connections closed after 45 s and
  closes Prisma, Redis and the metrics. It sets an exit code and exits nowhere, so
  the process ends when nothing holds it (`LetGo`). `requests` are handlers with a
  connection, `orphans` handlers whose client has left or was cut off, and
  sweeps of the timers: those run on, may use Prisma or Redis after their end and
  so open them again (`reopened`, `OrphanReopens`), and may keep the process
  alive. A start that fails is an unhandled rejection (line 39) and ends the
  process at once.
* **Catalogue**: rows of series, playlists and their entries. A request reads,
  decides and writes in steps of its own (`ReadAdd`, `ReadMax`, `Attach`, ...);
  a delete unlinks before it deletes; a reorder of a playlist writes one entry
  after the other. The schema's keys refuse what breaks them (`CallFails`).
  Titles, descriptions and the lists are left out. A behaviour is about one of
  `Shelves`.
* **Accounts**: the tables with their unique keys. A serializable transaction
  that has counted rows locks them; of two that then insert, one is the
  deadlock's victim (`Victim`) and tries again up to `MaxAttempts` times.
* **ProgressStream**: connections that poll, over the Redis client (published
  before it has connected) and the scan of the queue that they share (`snapshot`,
  its expiry, its handler of a late failure). A position itself is not followed,
  only which scan it is read from.
* **EncoderProcess**: the four child processes of one job. `process` is the
  child, which exits some time before its pipes close (`ChildExits`,
  `ChildCloses`); `timer`, `kill`, `timedOut` and `aborted` are the code's timers
  and flags; `cut` is a history variable: ffmpeg was told to stop before its file
  was written. ffmpeg may answer SIGTERM with code 0, or ignore it.
* **Sharing**: the filters as operators of the visibilities of movie (or
  container) and profile, the requester and what it may view; invitations as
  requests of two or three steps between edits of a visibility and the deletion
  of the movie. Two targets are followed: a movie and the profile of its author.
* **Playback**: `Expiry` rounds up to the hour as `vod-token.ts` does; the two
  mapping routes, and what the first makes of a path that does not verify while
  `VOD_ALLOW_UNSIGNED` is set; a player that refetches every half hour, or fails
  to. Time goes in half hours. The HMAC accepts what it signed and nothing else.

### Frontend

One step is a handler up to its next await, or the answer to a request; a
request that is in flight is a member of a set (`tasks`, `calls`, `asked`, ...),
so answers come in any order. Generation refs are a field `current` of the
request, cleared where the code increments the ref. What a re-render shows is
taken as seen at once.

* **UploadPage**: `page` is the state and the refs of the page and its hook,
  `chains` the promise queue of saves (with the queues it was reset from),
  `known` the maps from movie to session and profile. Sessions follow each other
  (1, 2, ...): nobody logs in again as an earlier one. The backend is what its
  answers show, since UploadFlow models it. A save is three steps: it is sent
  (`SendSave`), the backend applies it to a movie it still has (`SaveLands`), and
  its answer arrives whenever it does (`SaveAnswers`), the movie cancelled and
  deleted by then, or the next one on the page; or it fails, applied or not
  (`SaveFails`). One whose answer was lost is not applied later.
* **EntityEditor**: both editors, which are alike, with MovieManager: its two
  locks are `busy`, a drag is three steps, the list shown is optimistic and rolled
  back. A request takes effect when it is answered, or is lost and may still
  have taken effect (`astray`). Nobody else edits the entity.
* **VideoEditor**: load, edit, save, resume, the event stream and the refetch at
  its end; the form is followed by where its contents come from.
* **DashboardList**: SWR's cache by selection and page, the dialog, the DELETE.
* **Listing**: SWR's walk over the pages as the hook relies on it (first page,
  missing and changed ones again; all of them on mutate), against a table that
  changes.
* **Player**: hls.js with its two recovery budgets, positions in steps of which
  `Progress` make `RECOVERY_PROGRESS_SECONDS`, and the capped history, which
  another tab may write too. `trail` is a history variable: where each media
  recovery of the source was, and the furthest position reported before the next
  one. It is written from the recoveries and the positions alone and knows
  nothing of the budget, of what resets it or of `recoveredAt`.
* **AccountSwitch**: selection in the local storage, lists of profiles by login,
  refreshes and creations that outlive the switcher, another tab with the same
  login, and the backend's silent fallback to the default profile
  (`ActiveProfile`).

## 4. Runs

Each run checks one question. Deadlock is not an error in any: requests, claim
ids and budgets are finite, so the models come to rest.

| Run | Instance | Shows |
|---|---|---|
| `queue` | 2 jobs with the same completion key, 1 malformed message, 2 claims, 1 retry | `OnePlace`, `NothingLost`, `BudgetExact`, `StaleOwnerHarmless`, refinement `LedgerImplemented` |
| `worker_hardships` | 1 job; any two of 1 fault, 1 stall, 1 SIGTERM; or 2 crashes with every kind of encode failure | `ReadyHasOutput`, `SourceKept`: neither two hardships together nor two crashes destroy a movie; `Accounted`: every processing movie has a job or a dead letter; `OneTerminalWriter`: crashes alone never let two workers end one job |
| `worker_scenarios` | 2 SIGTERMs; or 1 deletion with rejected callbacks and encode failures; or 2 jobs of one movie with different keys and encode failures | `UnharmedByShutdown`, `DeletedLeavesNothing`, `StillRunning`, `CommittedNeverFails` |
| `worker_settles` | 1 crash, transient failures, fairness | `SettlesOrIsRecorded` |
| `upload` | 3 requests of any kind, 3 keys (1 oversized), 1 fault, 1 crash | `OneJob`, `JobHasSource`, `ProcessingHasJob`, `NoOversizedJob`, `CleanupSparesActive` |
| `services` | one area at a time, below | `LockProtects`, `SignalStops` (start); `AttachedByManager` (catalogue); `ProfileCap`, `FirstRequestsAgree` (accounts); `ScanShared` (stream); `CutIsNoSuccess`, `EncodeEnds` (encoder); `AccessAgrees`, `GrantNeedsInvitation` (sharing) |
| `browser` | one page at a time, below | `SavedIsStored`, `OwnSessionOnly` (upload); `FormIsOwn`, `ListIsStored` (editor); `EditsKept` (video); `DeletesAsListed` (dashboard); `CompleteAtEnd` (listing); `GivesUp` (player); `ActsAsShown` (account) |

Every run of a worker has 2 processes, 1 reaper, 3 claims, `MaxRetry` 1 and
`CommitAttempts` 2. Five further runs expect a violation (section 5).
The playback area is run for its types only, since
`UrlLastsTtl` is proved for every lifetime and key.
`ServicesTypeOK` and `BrowserTypeOK` join the type invariants of the modules
they run; those of the queue, of the workers, of the upload routes and of the start
are proved.

**Bounds of the pipeline.** Two jobs suffice for the queue because no script touches two jobs
but through a shared completion key, which both have, and the order of a list,
which no property but the ledger's moves reads. Two claims let a stale owner
meet the next one. Two processes and one reaper suffice for the worker: a
third actor adds no new pair, and the reaper belongs to the process that did not
claim first, or after a restart to the same one. `MaxRetry = 1` and
`CommitAttempts = 2` keep both branches of each budget. Three requests give
every pair of routes with one more between them. Symmetry over claims or requests is used
in safety runs only: the values are never ordered or compared but for
equality. So it is over the movies, forms and profiles of the upload page in
`browser` (`MCAlike`), whose values some other pages use too.

**Bounds of `services`.** Two replicas with two handlers each: the lock
knows one holder and the rest, and of two handlers one may be answered and one
cut off. Two overlapping requests on 2 movies, 2 series and
1 playlist, of a user, an administrator and a system account. One identity, 3
rows, a limit of 1 and 3 attempts for 2 callers: the limit is met, missed
and contended. Two streams and two scans: an old scan and a newer one. Five
profiles of 3 accounts (author, viewer, administrator), 1 invitation, 2 requests
in flight. For 3 keys, 20 half hours: the six hours of a
token, the hour it is rounded up by, and the time after.

**Bounds of `browser`.** Two sessions, selections, forms and movies for the
upload page: every request belongs to this session or the one before, and every
answer to the movie that is shown or the one before. Two
requests in flight for the editors, which refuse a third. Two pages of one row
for the dashboard, two profiles with different rows. Pages of 2 out of at most 4
rows, of which one is left out by the hook for having no duration, and 2 changes
of the table. Two movies and tokens, 2 recoveries of each kind in a row and 3 media recoveries of
a source in all, so that a third one needs the budget refilled; two steps to
`RECOVERY_PROGRESS_SECONDS`, so that a position may advance and not
suffice; a history of 1 entry. Two
logins, one of them an administrator, 2 profiles that may be created, 1 system
account, and one refresh and one creation in flight (`MaxInFlight`).

**Fairness.** `FairWorkerSpec`: weak fairness of each loop, reaper, finalizer and
handler step (the event loop of a live process runs on, every call has a
timeout), of the lease running out (time passes), and of the retry interval,
which runs every ten seconds in every live process and moves whatever is due.
Crashes, faults and signals are not fair, but bounded: a process that crashes
for ever finishes nothing. The reapers' process is replaced on exit, as the
deployment restarts containers. `BootFairness`: the same for each replica's
start and for the steps of `index.ts` (start, drain, forced close, close of the
resources, exit when nothing holds the process), which supposes that S3, MySQL and
Redis answer the calls made there, since `index.ts` puts no timeout on them.
Nothing is assumed of a handler, which may never end (`HandlerStep` is not fair):
the forced close takes its connection away, and `SignalStops` says that then the
process is gone or one such handler, or what it opened again, holds it.
`EncoderFairness`: timers strike (strong fairness of the timeout, which other
phases switch off and on), a child dies of SIGKILL, and the pipes of a dead child
close; nothing is assumed of ffmpeg itself. In `services` each of these holds
while its area runs.

## 5. Where code and comments disagree

Five runs expect a violation; each counterexample is a schedule of the code.

* `worker_released_unreported` (`StillRunning`): `notifyFailure` writes progress
  `failed` before it sends the failed callback (`W/job-finalizer.ts:26-32`). A
  worker that dies in between leaves a stale claim; the reaper reads `failed` and
  releases it without a callback (`W/reaper.ts:74-77`). The movie stays
  `PROCESSING` with no job; only the dead letter remains.
* `worker_stale_failure` (`CommittedNeverFails`): a worker that lost its lease
  and has not noticed finds the source deleted by the new owner, takes the 404
  for a permanent failure and sends a failed callback, which no claim fences.
  A committed encode turns `FAILED`.
* `upload_success_lost` (`SuccessMeansQueued`): a second `/complete` reads
  `PROCESSING` and answers success while the first one's push has yet to fail;
  the first then reverts to `UPLOADING`, and no encode is queued.
* `browser_warns_idle` (`WarnsOnlyInFlight`): when the deletion of a cancelled
  upload's movie succeeds, `clearCanceledUpload` forgets the session
  (`F/routes/_app.dashboard.videos.new.tsx:352`), so the `finally` block (391-395)
  takes itself for one of an older session and leaves `cancelDeletePending` set.
  The page warns before every navigation although nothing is in flight, against
  the comment at 79-82.
* `services_suggestions` (`SuggestedAsListed`): the suggestions are capped "exactly
  like buildVisibilityFilter" by their comment (`B/lib/suggest.ts:37-39`). Their SQL
  lets the `PUBLIC` series and playlists pass of any author who has the user in
  `ProfileViewer` (44); the filter of the lists counts such a row for a `LIMITED` or
  `PRIVATE` profile only (`B/utils/buildVisibilityFilter.ts:88-91`). When a `LIMITED`
  profile with viewers becomes `UNLISTED`, its public entities are suggested to
  them and not listed. `OnlySuggested` is this case and no other: `AccessAgrees`
  says that the two agree but for it, and that what is suggested can be opened.

More was seen while modelling, for which there is no run. In the pipeline, with
the misfortune that is needed:

* [1 transient failure, 1 fault] the reply of `addJobToRetryQueue` is lost, and
  the movie is reported failed while its retry waits (`W/job-runner.ts:526`);
* [2 jobs of one movie, 1 crash] the progress key is per movie: if an older job
  of the movie completes while the current job's claim is stale, the reaper reads
  `completed` and makes a movie `READY` whose file was never encoded
  (`W/reaper.ts:78-85`); two jobs arise when the reply to the push is lost
  and the upload is made again (`B/routes/api/v4/upload.ts:211-226`);
* [2 faults] `markJobFailed` fails too, and the claim is released with neither a
  dead letter nor a callback (`W/worker-loop.ts:184`);
* [1 SIGTERM, 1 permanent failure] the hand-off requeues a claim while the loop
  is inside `markJobFailed`, so another worker starts the job before this one's
  terminal writes end (`W/shutdown.ts:75` against `W/index.ts:67-70`);
* [1 deletion, 1 crash] a worker dies between upload and commit; the next one
  finds the source erased by the deletion, and its *failed* callback is answered 410,
  upon which nothing is removed: the output of a movie that is gone stays in the
  bucket (`W/callback.ts:97`);
* [1 deletion, 1 SIGTERM] the same, when the signal aborts an upload whose object is
  already complete (`W/s3.ts:112`);
* [1 backend crash] killed between the claim of the transition and the push, the
  backend leaves a movie `PROCESSING` for ever (`B/routes/api/v4/upload.ts:199`);
* any 4xx answer but 409, 410 and two kinds of 400 counts as a rejection of the
  callback, 401, 404 and 429 included (`W/job-finalizer.ts:53`);
* a dead letter that is requeued by hand encodes again, but its movie is
  `FAILED`, so its callback is answered as stale (`B/routes/api/v4/callback.ts:92`);
* an expired claim is added back even when it was finished meanwhile
  (`W/queue.ts:538`, *loose* above); dead letters of malformed retries are scored
  in seconds, all others in milliseconds (`W/queue.ts:277`).

In the services: the Redis client is published before it has connected and is
kept when that fails, so later callers get a client that nobody connects again
(`B/lib/redis.ts:54`); a progress key that expires for a few polls ends the
stream (`B/routes/api/v4/progress.ts:76`); an `accept` and a `decline`
that overlap are settled by the last write, which may leave a viewer whose
invitation says declined (`B/routes/api/v4/invitations.ts:302-325`); two additions to a
playlist may take the same order (`playlists/[playlist].ts:224`), and its reorder
is not a transaction (322). A shutdown need not end the backend: it closes the
connections and resources and sets `process.exitCode`, but handlers whose
connection it closed run on, and the first to use Redis or Prisma opens them again
(`B/index.ts:70-91`, `B/lib/redis.ts:50-58`); only a second signal or a SIGKILL
ends such a process. A start that fails during a shutdown, or at all, dies of an
unhandled rejection (`B/index.ts:39`) before the cleanup at 93-101 is over.

In the frontend: the answer to a save looks at the session and not at the movie
(`videos.new.tsx:127-134`): when it comes after its movie was cancelled and
deleted and the next file has the same form, the page shows "saved" for a movie
of which nothing was saved, which `SavedIsStored` excludes by its premise
`OnlyShownDeleted`; a save that settles after a cancellation leaves `isSaving` set
(`handleSubmit` compares the session ref that `clearCanceledUpload` nulled); a seek
forward refills the budget of media recoveries as if playback had advanced
(`Video.tsx:227-234` against "playback advanced well past it", 223-224), so
`GivesUp` counts positions, played or sought; a refresh of the profiles that fails
is swallowed by SWR, and the switcher concludes from the old list (`AccountSwitcher.tsx:84-86`); a change of
the account alone never refetches the editors (`videos.$id.edit.tsx:138`,
`series.$id.edit.tsx:98`); a fetch is not outdated by a resumed upload
(`videos.$id.edit.tsx:157-160`), and `disposed` is checked before the body is
read (219-224); paging back past the first page leaves a page the API refuses
(`videos.index.tsx:97`); `setSize` is called for a key that is null, again and
again (`useMovies.ts:70-74`); a `timeupdate` at 0 resets the remembered position
(`Video.tsx:59-62`); two tabs overwrite each other's history.

These limits are why `Accounted`, `OneTerminalWriter` and `DeletedLeavesNothing`
are checked, and proved, under the misfortunes named in the table and no others, and why
`SettlesOrIsRecorded` counts a dead letter as an end.

## 6. Proofs

TLAPS checks the theorems below for every value of the constants.

`EncodeQueueProofs`, for any movies, keys, jobs, claims and any retry budget:

| Theorem | Statement |
|---|---|
| `TypeCorrect` | `QueueSpec => []QueueTypeOK` |
| `JobInOnePlace` | `QueueSpec => []OnePlace` |
| `JobNeverLost` | `QueueSpec => []NothingLost` |
| `RetryCountExact` | `QueueSpec => []BudgetExact` |
| `StaleOwnersHarmless` | `QueueSpec => StaleOwnerHarmless` |
| `ImplementsLedger` | `QueueSpec => LedgerImplemented` |

*Assumptions*: `JobsAssumption` (jobs are records of the given shape, finitely
many) and `MaxRetryAssumption`. Nothing is assumed of the clients.

*The invariant* is `QueueInv == QueueTypeOK /\ Known /\ OnePlace /\ NothingLost
/\ BudgetExact`. `OnePlace` alone is not inductive: `AddEncodeJob` keeps it only
if an unsent job is nowhere, `RequeueProcessingJob` only if a claim in the set
has a text, and `ProcessRetryQueue` needs a finite retry set to list. `Known`
says these things. `BudgetExact` needs `Known` for a job that is sent with count
0, and `OnePlace` for a retry that raises a count while no second copy carries
the old one.

*The argument*: `NoMove` covers the actions that move no job; each of the others
has a lemma of its own, with one step per conjunct of the invariant, and two
lemmas say what appending one message or a listing does to a list. `Invariance`
joins them over the disjuncts of `QueueNext`.

*The refinement*: a step of the queue changes the place of one job, or of the
several that a listing of the retry set makes due one by one. `ImplementsLedger`
has a lemma per action that names the job and its move; that the others stay
where they are is `OnePlace` read backwards: the key that has a job is the only
one that has it.

`EncodeWorkerProofs`, for any processes, reapers, movies, claims and scenarios
(any backlog, encode failures, and numbers of faults, stalls, crashes, SIGTERMs and
deletions):

| Theorem | Statement |
|---|---|
| `WorkerTypeCorrect` | `WorkerSpec => []WorkerTypeOK` |
| `WorkersKeepQueue` | `WorkerSpec => [](OnePlace /\ NothingLost /\ BudgetExact)` |
| `ReadyMeansUploaded` | `WorkerSpec => [](UploadedOnce => ReadyHasOutput)` |
| `SourceSurvives` | `WorkerSpec => [](UploadedOnce => SourceKept)` |
| `TerminalWriterAlone` | `WorkerSpec => []OneTerminalWriter` |
| `MoviesAccountedFor` | `WorkerSpec => [](OneFault => Accounted)` |

*Assumptions*: `WorkerAssumption`, `JobsAssumption`, `MaxRetryAssumption`.

*The premises* are on the scenario, and the code needs them. `UploadedOnce` says
that two jobs of the backlog are of one movie just when they carry one key, and that
the backend refuses no callback. The progress of a job of another upload may be
taken for this one's (section 5); and a refused success
drops the output, while the failed callback that follows may be refused
too, which leaves a movie `PROCESSING` with neither source nor job. `OneFault` is
`UploadedOnce` with at most one call that fails or loses its reply: with two the
claim may be released without a dead letter (section 5).

*Types and the queue*: every awaited call is one operation of the queue, of the
row or of a bucket, so a step of a worker is a step of `QueueNext` or leaves the
queue alone, and `QueueInv` comes over. `WorkerInv` adds what the calls
rely on: a task past its claim has a claim that was issued, and a mode that says
which catch block an error of it reaches (`Fit`).

*Files* (`FilesInv`): what a task knows of its movie, by its place in the code, is
true of the movie (`Knows`), and stays so because the facts only grow
(`FactsKept`): the output is delivered, a completion is recorded, the status
is settled. A `READY` row and a deleted source rest on these.

*Claims*: `Roles` says how a claim comes to a task: a poll loop has the one it
took, and another task only by way of the reaper. With crashes alone, a lease
that ends is one whose loop is gone, and so the claims of the reaper and those of
the loops stay apart (`Apart`, in `CrashInv`).

*No movie forgotten* (`AccountInv`): a claim is resolved only when its
movie is over, settled or with a dead letter, or when the job is another's by
then. `Minds` says it of every place of `processJob` and its catch blocks: who
is about to resolve, report a failure or release is committed, has
lost the claim, or has an `Over` movie; and who is in the loop's own catch
block, past the job's, has spent the fault. `Accounted` follows with
`NothingLost`: a job that is neither live nor dead was resolved.

`CalmWorkerProofs`, for scenarios in which no call fails and no process stalls or
crashes (`Calm`), again for any processes, reapers, movies, claims, backlog and
encode failures, and for any numbers of SIGTERMs and deletions but where a premise
says otherwise:

| Theorem | Statement |
|---|---|
| `MoviesStillRunning` | `WorkerSpec => [](Calm => StillRunning)` |
| `ShutdownsAreHarmless` | `WorkerSpec => [](Calm => UnharmedByShutdown)` |
| `RecordedNeverFails` | `WorkerSpec /\ Calm /\ (Undisturbed \/ OnlyShutdowns) => CommittedNeverFails` |
| `DeletionsLeaveNothing` | `WorkerSpec => [](Calm /\ Undisturbed => DeletedLeavesNothing)` |

*Assumptions*: those of `EncodeWorkerProofs`.

*The premises*: every scenario of the run `worker_scenarios` is calm, and has no
SIGTERM or nothing else. `Calm` also says that two uploads have two keys and that the messages are well-formed.
With a crash `StillRunning` and `DeletedLeavesNothing` are false, with a
stall `CommittedNeverFails` is (section 5). `Undisturbed` (no SIGTERM) is needed too: a
hand-off requeues the claim of a loop that is inside `markJobFailed`, so the job
may be committed elsewhere while the first loop still reports it as failed; and
an upload that is aborted when its object is complete is a leftover. With
nothing but SIGTERMs no job is in `markJobFailed`, which is why `OnlyShutdowns` is
enough for `RecordedNeverFails`. `UnharmedByShutdown` has its premise in its own
statement; `Calm` adds the keys and the messages only.

*Who has what* (`InOrder`): in a calm scenario a claim has one owner who knows it.
`InHand` says, by the place of a poll loop in the code and the phase of its
process's shutdown handler, what its claim is: while it has not relinquished it,
the claim is there and its lease fresh, and the loop believes it committed just
when the completion record says so; a loop that works on after it has
relinquished is one whose process is leaving. `Books` says that a claim no loop
has is a committed one, and that each completion record is of a claim that is
there. So the reapers only ever meet committed claims (`Reaping`), of loops that gave
them up (`Aloof`). `CalmInvariance` has a lemma per group of
calls (`BodyOrder`, `CommitOrder`, `EndOrder`, `VerdictOrder`, `ClaimOrder`,
`ReaperCalm`, `ProcessOrder`, `OutsideOrder`); what a call does to a claim is one of the
five outcomes of `Effect`, and `EffectApart` says once what these leave alone.

*What a step makes of a task* (`Edges`): it keeps its place, starts afresh, or takes one
of the edges that `Edge` describes, each with what was paid for it: a task comes to
a failure by a misfortune or a source that is not there (`Excused`), to `committed`
by a completion record, and to the end of its claim by an answer of the backend.
The four theorems read these edges:

* `MoviesStillRunning` by `Answered`: the job of a claim that ends, and of one
  that has ended, is of a movie the backend has moved on. A job that is in no
  list and under no claim was settled, so its movie is not processing.
* `ShutdownsAreHarmless` by `Unharmed`: nothing is in a place that leads to a
  failure, because a job's source is there until its completion is recorded
  (`SourceThere`), and an abort never counts as a failure.
* `RecordedNeverFails` by `Approved`: no committed loop and no reaper is about to
  report a failure, and a loop that is about to has the only claim on the job.
* `DeletionsLeaveNothing` by `Tracking`: what the bucket still holds of a deleted
  movie is on the list of its deletion, or was stored by a loop that has not yet
  heard from the backend. `StoringGoes` says that such a loop gets there.

`UploadFlowProofs`, for any keys, any number of requests of any kind, and
any number of faults and crashes:

| Theorem | Statement |
|---|---|
| `UploadTypeCorrect` | `UploadSpec => []UploadTypeOK` |
| `OneJobOnly` | `UploadSpec => []OneJob` |
| `ProcessingIsServed` | `UploadSpec => []ProcessingHasJob` |
| `ProcessingKeepsSource` | `UploadSpec => []JobHasSource` |
| `CleanupIsSafe` | `UploadSpec => CleanupSparesActive` |
| `OversizedNeverQueued` | `UploadSpec => []NoOversizedJob` |

*Assumption*: `UploadAssumption` (oversized keys are keys, the bounds are
numbers). `Keys` and `Requests` may be infinite.

*The invariant* is `UploadInv`. Its parts are the facts a reader of the routes
relies on without saying so: nothing exists before `/init` and a deleted row
stays deleted (`Lifetime`); who is past `HeadObject` saw an object of a legal
size (`Examined`); a swap generates a key nobody has read, so what `/url` drops
is never the current key (`KeysKnown`); while every push is answered no claim is
taken back, so a movie with a job is never waiting for an upload again
(`NeverTakenBack`); and from the look at the object to the claim nothing drops
it (`ClaimHasSource`), which is what makes `JobHasSource` inductive.
`JobIsComing` is `ProcessingHasJob` with the key the pushing request carries:
without it a push for another key could pass for the movie's own.

*The count*: `OneJob` rests on `JobsCounted`. Jobs pushed, requests between their
claim and its end, and a free row (one that may still be claimed) are together
at most one more than the faults: a claim trades the free row for a claimant, a
push a claimant for a job, and a failed push, which may leave a job and a
claimant both, is paid for by its fault.

*The argument*: the lemmas `Moves`, `Swapped` and `Claimed` say what a step does
to the requests and the row; each part of the invariant has a lemma with one
step per action.

The services and the frontend:

| Module | Theorem | Statement | Assumption |
|---|---|---|---|
| `ServicesProofs` | `BootTypeCorrect` | `BootSpec => []BootTypeOK` | `BootAssumption` |
| | `LockProtectsAll` | `BootSpec => []LockProtects` | |
| `DatabaseProofs` | `NobodyInjects` | `CatalogueSpec => []AttachedByManager` | `CatalogueAssumption` |
| | `CapHolds` | `AccountsSpec => []ProfileCap` | `AccountsAssumption` |
| | `FirstRequests` | `AccountsSpec => []FirstRequestsAgree` | |
| `ServicesProofs` | `FiltersAlwaysAgree` | `SharingSpec => []AccessAgrees` | none |
| | `GrantsAreInvited` | `SharingSpec => GrantNeedsInvitation` | `SharingAssumption`, `BoundsAssumption` |
| | `NoCutSuccess` | `EncoderSpec => CutIsNoSuccess` | none |
| | `UrlsLast` | `PlaybackSpec => []UrlLastsTtl` | `PlaybackAssumption` |
| | `ScansAreShared` | `StreamSpec => ScanShared` | `StreamAssumption` |
| `PagesProofs` | `PlayerGivesUp` | `PlayerSpec => []GivesUp` | `PlayerAssumption` |
| | `ShownIsActed` | `SwitchSpec => []ActsAsShown` | `SwitchAssumption` |
| | `TypedIsKept` | `VideoSpec => EditsKept` | none |
| | `DeletionsAreOwn` | `DashboardSpec => []DeletesAsListed` | none |
| | `FormsAreOwn` | `EditorSpec => []FormIsOwn` | none |
| | `ListsAgree` | `EditorSpec => []ListIsStored` | none |
| `UploadPageProofs` | `SessionsKeepTheirMovies` | `PageSpec => []OwnSessionOnly` | `UploadPageAssumption` |
| | `SavedIsTrue` | `PageSpec => []SavedIsStored` | `UploadPageAssumption` |

*The lock*: `start.mjs` does not ask MySQL whether it still holds the lock while
its child migrates. What carries `LockProtects` is the session: from `GET_LOCK` to
`RELEASE_LOCK` it is open and holds the lock, or the replica has been robbed of
it (`Held`), and a session that was lost cannot answer the release (`Noticed`); a
start that gets past it has migrated under the lock (`Earned`), and only such a
start spawns a server (`Serving`).

*Series*: a request checks and writes in different steps, so `Permitted` says of
each request in flight that what it will write was allowed. Who manages what does
not change, so a check that is out of date still protects.

*Profiles*: `CapHolds` rests on the lock of the serializable transaction: what a
request counted stays true until it inserts (`Room`). `FirstRequests` rests on
the unique key: who is told that the row is there finds it (`Sole`), and no
account that is deleted is anybody's login (`NoLogin`).

*Sharing*: that the filters agree, but for `OnlySuggested`, is a fact about operators,
for every requester, readiness and combination of visibilities (`FiltersAgree`). An accept is two
reads and a write; its target and invitee are those of the row because a row
keeps both while it is there (`RowsKept`), so only the status can have changed
in between, and that is what the write's update depends on.

*Encoder, playback, scan*: an encode that was cut is still known to be when
ffmpeg closes, by `timedOut` or `aborted` (`CutKnown`). A URL's token is for its
own key and for an expiry between six hours and seven from its issue (`Signed`,
with `ExpiryBounds` for the rounding). The snapshot is one of
the scans (`OneScan`), and the handler of a failed scan compares it with its own
before it clears anything.

*Pages*: `GivesUp` is about the recoveries on the player's `trail`, and says
nothing of the budget. `Budgeted` joins the two: the last `media` recoveries are
those the budget counts, playback was not seen well past the last of them
(`Passed`), and was seen well past the one before them, which is where the budget
was refilled; so among `MAX_RECOVERY_ATTEMPTS` + 1 in a row there is one that it was
seen past. The
switcher's invariant `SwitchInv` says what rest is bought with: every profile in a
cached list or in an answer on its way exists (`ListsExist`, `ReadsExist`,
`MadeExist`, `OwnReads`), and a selection that is neither in the list nor being
looked for has a check due (`LookedFor`).

The editor of a video waits for one fetch at most (`OneFetch`), and one that
brings a form finds the page loading (`LoadsAreShown`); whatever else is answered
leaves an edited form as it is. A row on the dashboard is listed, and a dialog
opened, under the profile that owns it (`RowsOwned`).

The editors of series and playlists have one change of the list on its way at a
time (`ChangedOnce`). `ListIsStored` speaks of a page at rest and is not inductive;
`Mirrors` says what holds on the way there: before a change is answered, what it
will make of the stored list is what it will make of the one shown, a reordering
is shown already and can be rolled back to what is stored, and a drag remembers
what is stored. `Omitting` and the order of the entries stay opaque in the proof:
both sides apply the same operator to the same list, and no fact about
`SelectSeq` is needed.

*The upload page*: requests of an earlier session go on after the session has
changed, and several may have the same movie. `UploadInv` says that a session has
one upload, which is of the movie on the page and keeps the page busy
(`OneUpload`), or one deletion of that movie while the page is idle
(`OneDeletion`), that the page knows in which session and under which profile its
movie was made (`PageIsOwn`), and that what was made stays made. A task survives a
step marked as superseded or not; the lemma `TasksGoOn` states once what a step
may do with those that stay and the one that joins them.

`SavesInv` adds, in the first session, the queue of saves: at most one of each
kind, each with its flag on the page set, only the first of them sent, and no
upload under way while the trailing save is pending (`FirstInLine`). A save that
was sent is of the movie on the page or of one that is deleted; if it is of the one on
the page, the form it carries is the one shown if that is shown as saved, and
the one stored once it has landed (`SentIsShown`). That is what the queue buys: a
late answer to an older save cannot store another form than the one shown as
saved. The premise `OnlyShownDeleted` is needed because an answer does not say whose
it is: while no other movie is deleted, the save it is of is of the movie on the
page. In later sessions `SavedIsStored` does not hold, and does not claim to: a
save that is still queued from an earlier session reads the page of the later one,
beside a queue of its own.

*Only model-checked*: `CompleteAtEnd` of the endless list, which is about what
`FlattenSeq` and `SelectSeq` make of pages, for which the prover has no
induction; the types of the modules in `services` and `browser`, except that of the start; and
liveness (`SettlesOrIsRecorded`, `SignalStops`, `EncodeEnds`), which needs
fairness and `ENABLED`, beyond this prover.

## 7. Not modelled

* *Dead-letter and retry-set housekeeping*: the cap of the dead-letter set and the
  unit of its scores. The sets are in EncodeQueue, their sizes and scores are not.
* *Rate-limit cleanup and request limits*: one `SET NX` and one `DELETE`, with no
  effect that depends on how often they run.
* *Search and suggestions*: SQL and ranking of text; who may see a result is in
  Sharing.
* *Web frontend views*: rendering and routing, which have no protocol of their
  own.
* *Object storage clients*: wrappers over S3 calls. The buckets are sets of keys
  in EncodeWorker and UploadFlow.
* *Infrastructure*: compose files, nginx and images are configuration. Generated
  files (the route tree, the Prisma client) and UI primitives are not the
  program's own logic.

Of modelled components the following is left out: titles, descriptions and other
text; the list views (their filters are in Sharing); ffmpeg's arguments and the
parsing of its output; native playback, volume, rate and audio tracks; the
search within the editors; the HMAC.

Three hazards in `PROJECT.json` have no property, and each is a violation the code
has (section 5): the hand-off against `markJobFailed` (`W/shutdown.ts:75`), which the
comment at `W/index.ts:67-70` speaks against and no run shows; the progress of
another job of the movie (`W/reaper.ts:78`) and the backend that dies between claim
and push (`B/routes/api/v4/upload.ts:199`), of which no comment speaks.

## 8. What could come next

1. Proofs about EncodeWorker with crashes: `InOrder` for scenarios in which a loop
   may vanish, so that a reaper also meets claims that are not committed.
2. One abstract specification of a movie's life (`UPLOADING`, `PROCESSING`,
   `READY`, `FAILED`, gone) that UploadFlow and EncodeWorker both implement.
3. UploadPage over UploadFlow instead of over its answers, so that a lost answer
   is one event of both.
