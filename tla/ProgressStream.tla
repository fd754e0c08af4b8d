--------------------------- MODULE ProgressStream ---------------------------
(***************************************************************************)
(* The stream of a movie's encode progress (progress.ts) over the Redis    *)
(* client and the snapshot of the queue that all streams of a backend      *)
(* process share (redis.ts).                                               *)
(*                                                                         *)
(* A stream is one connection; between any two of its awaited calls the    *)
(* others run.  The movie's progress changes and expires on its own: the   *)
(* worker writes it.  A position is not modelled, only which scan of the   *)
(* queue it is read from.                                                  *)
(***************************************************************************)
EXTENDS Naturals, FiniteSets

CONSTANTS
  Streams,        \* bound: the connections
  Scans,          \* bound: the scans of the queue
  Written,        \* bound: the statuses the worker writes
  MaxEmptyPolls,
  NoScan

Statuses == {"queued", "processing", "retrying", "completed", "failed"}
Terminal == {"completed", "failed"}

ASSUME StreamAssumption == Written \subseteq Statuses /\ MaxEmptyPolls \in Nat \ {0} /\ NoScan \notin Scans

VARIABLES
  client,    \* the published Redis client: none, connecting, open, or broken
  opener,    \* the stream that awaits connect()
  progress,  \* the movie's progress, "none" when the key is not there
  scan,      \* the scans: unused, pending, done or failed
  snapshot,  \* the scan that queueSnapshot refers to
  expired,   \* whether its 2 s are over
  stream     \* where each connection stands, what it has read, the scan it awaits

streamVars == <<client, opener, progress, scan, snapshot, expired, stream>>
redisVars == <<client, opener>>
snapshotVars == <<scan, snapshot, expired>>

StreamInit ==
  /\ client = "none" /\ opener = NoScan
  /\ progress = "none"
  /\ scan = [n \in Scans |-> "unused"] /\ snapshot = NoScan /\ expired = FALSE
  /\ stream = [s \in Streams |->
       [at |-> "poll", empty |-> 0, seen |-> "none", on |-> NoScan]]

StreamAt(s, label) == stream[s].at = label
StreamPut(s, r) == stream' = [stream EXCEPT ![s] = r]
Closed == [at |-> "closed", empty |-> 0, seen |-> "none", on |-> NoScan]

-----------------------------------------------------------------------------
\* getRedisClient: the first caller publishes the client and awaits connect();
\* the others take it as it is.
Connects(s) ==
  /\ StreamAt(s, "poll") /\ client = "none"
  /\ client' = "connecting" /\ opener' = s
  /\ StreamPut(s, [stream[s] EXCEPT !.at = "connect"])
  /\ UNCHANGED <<progress, snapshotVars>>

ConnectEnds ==
  /\ client = "connecting"
  /\ \E how \in {"open", "broken"} :
       /\ client' = how
       /\ stream' = IF StreamAt(opener, "connect")
                    THEN [stream EXCEPT ![opener] = IF how = "open" THEN [@ EXCEPT !.at = "get"]
                                                                   ELSE Closed]
                    ELSE stream
  /\ UNCHANGED <<opener, progress, snapshotVars>>

\* A command on a client that is not open rejects; and any command may fail.
Reuses(s) ==
  /\ StreamAt(s, "poll") /\ client # "none"
  /\ StreamPut(s, IF client = "open" THEN [stream[s] EXCEPT !.at = "get"] ELSE Closed)
  /\ UNCHANGED <<redisVars, progress, snapshotVars>>

GetFails(s) ==
  /\ StreamAt(s, "get")
  /\ StreamPut(s, Closed)
  /\ UNCHANGED <<redisVars, progress, snapshotVars>>

\* Mutant: a missing key is polled for ever.
GetPollsOn(s) ==
  LET r == stream[s]
  IN  /\ StreamAt(s, "get")
      /\ StreamPut(s,
           CASE progress = "none"   -> [r EXCEPT !.at = "poll", !.empty = @ + 1]
             [] progress = "queued" -> [r EXCEPT !.at = "position", !.empty = 0, !.seen = progress]
             [] OTHER               -> [r EXCEPT !.at = "send", !.empty = 0, !.seen = progress])
      /\ UNCHANGED <<redisVars, progress, snapshotVars>>

\* getEncodeProgress
Get(s) ==
  LET r == stream[s]
  IN  /\ StreamAt(s, "get")
      /\ StreamPut(s,
           CASE progress = "none" /\ r.empty + 1 >= MaxEmptyPolls -> Closed
             [] progress = "none"   -> [r EXCEPT !.at = "poll", !.empty = @ + 1]
             [] progress = "queued" -> [r EXCEPT !.at = "position", !.empty = 0, !.seen = progress]
             [] OTHER               -> [r EXCEPT !.at = "send", !.empty = 0, !.seen = progress])
      /\ UNCHANGED <<redisVars, progress, snapshotVars>>

\* getQueuePosition: the snapshot in use, or a new scan of the whole queue.
Position(s) ==
  /\ StreamAt(s, "position")
  /\ IF snapshot # NoScan /\ ~expired
     THEN StreamPut(s, [stream[s] EXCEPT !.at = "await", !.on = snapshot]) /\ UNCHANGED snapshotVars
     ELSE \E n \in Scans :
            /\ scan[n] = "unused"
            /\ scan' = [scan EXCEPT ![n] = "pending"]
            /\ snapshot' = n /\ expired' = FALSE
            /\ StreamPut(s, [stream[s] EXCEPT !.at = "await", !.on = n])
  /\ UNCHANGED <<redisVars, progress>>

ScanDone(n) ==
  /\ scan[n] = "pending"
  /\ scan' = [scan EXCEPT ![n] = "done"]
  /\ UNCHANGED <<redisVars, progress, snapshot, expired, stream>>

\* Mutant: the handler of a failed scan clears whatever snapshot there is.
ScanFailsClearing(n) ==
  /\ scan[n] = "pending"
  /\ scan' = [scan EXCEPT ![n] = "failed"]
  /\ snapshot' = NoScan
  /\ UNCHANGED <<redisVars, progress, expired, stream>>

\* A failure is not cached, unless a later scan has taken the place.
ScanFails(n) ==
  /\ scan[n] = "pending"
  /\ scan' = [scan EXCEPT ![n] = "failed"]
  /\ snapshot' = IF snapshot = n THEN NoScan ELSE snapshot
  /\ UNCHANGED <<redisVars, progress, expired, stream>>

\* The await of the snapshot it has got returns, or throws.
Positioned(s) ==
  /\ StreamAt(s, "await") /\ scan[stream[s].on] \in {"done", "failed"}
  /\ StreamPut(s, IF scan[stream[s].on] = "done"
                  THEN [stream[s] EXCEPT !.at = "send", !.on = NoScan] ELSE Closed)
  /\ UNCHANGED <<redisVars, progress, snapshotVars>>

\* writeSSE, when the text is new; the loop ends with a terminal status.
Send(s) ==
  LET r == stream[s]
  IN  /\ StreamAt(s, "send")
      /\ StreamPut(s, IF r.seen \in Terminal THEN Closed
                      ELSE [r EXCEPT !.at = "poll", !.seen = "none"])
      /\ UNCHANGED <<redisVars, progress, snapshotVars>>

\* The client leaves, or the hour is over: found before the next poll.
Leaves(s) ==
  /\ StreamAt(s, "poll")
  /\ StreamPut(s, Closed)
  /\ UNCHANGED <<redisVars, progress, snapshotVars>>

-----------------------------------------------------------------------------
\* The worker and the upload route write the key; an hour without a write ends it.
Progresses(status) ==
  /\ progress # status
  /\ progress' = status
  /\ UNCHANGED <<redisVars, snapshotVars, stream>>

SnapshotExpires ==
  /\ snapshot # NoScan /\ ~expired
  /\ expired' = TRUE
  /\ UNCHANGED <<redisVars, progress, scan, snapshot, stream>>

StreamNext ==
  \/ \E s \in Streams :
       \/ Connects(s) \/ Reuses(s) \/ GetFails(s) \/ Get(s) \/ Position(s) \/ Positioned(s)
       \/ Send(s) \/ Leaves(s)
  \/ ConnectEnds \/ SnapshotExpires
  \/ \E n \in Scans : ScanDone(n) \/ ScanFails(n)
  \/ \E status \in Written \cup {"none"} : Progresses(status)

StreamSpec == StreamInit /\ [][StreamNext]_streamVars

-----------------------------------------------------------------------------
StreamTypeOK ==
  /\ client \in {"none", "connecting", "open", "broken"} /\ opener \in Streams \cup {NoScan}
  /\ progress \in Statuses \cup {"none"}
  /\ scan \in [Scans -> {"unused", "pending", "done", "failed"}]
  /\ snapshot \in Scans \cup {NoScan} /\ expired \in BOOLEAN
  /\ \A s \in Streams :
       /\ stream[s].at \in {"poll", "connect", "get", "position", "await", "send", "closed"}
       /\ stream[s].empty \in 0..MaxEmptyPolls /\ stream[s].on \in Scans \cup {NoScan}

\* The queue is scanned "at most once per TTL" (redis.ts:126-127): a scan that
\* is running or has succeeded stays the shared one until its time is over,
\* also when an older scan fails late.
ScanShared ==
  [][snapshot # NoScan /\ ~expired /\ scan'[snapshot] # "failed"
     => snapshot' = snapshot]_streamVars
=============================================================================
