---------------------------- MODULE BackendStart ----------------------------
(***************************************************************************)
(* A backend replica from its start to its end: start.mjs takes a MySQL    *)
(* named lock, migrates the database in a child process, releases the      *)
(* lock and runs the server, a second child (index.ts), which drains and   *)
(* closes its resources when a signal comes.  Nothing there ends the       *)
(* process: it ends when no handler, socket or timer holds it any more.    *)
(*                                                                         *)
(* Replicas share nothing but the lock.  Its holder is a MySQL session:    *)
(* the server frees the lock when the session ends, whether or not the     *)
(* replica has noticed.  The parsing of the URL and of the SSL options     *)
(* only decides whether Connect fails.                                     *)
(***************************************************************************)
EXTENDS Naturals, FiniteSets

CONSTANTS
  Replicas,
  MaxRequests,  \* bound: handlers that run at a time in one server
  NoReplica

ASSUME BootAssumption == MaxRequests \in Nat /\ NoReplica \notin Replicas

StopSignals == {"SIGINT", "SIGTERM"}

VARIABLES
  boot,      \* where start.mjs stands in each replica
  failing,   \* whether it is unwinding an error
  session,   \* its MySQL session
  child,     \* its child process: none, running, or running with a signal sent
  received,  \* the signals start.mjs has received
  lock,      \* the replica whose session holds the named lock
  migrated,  \* history: the replicas whose migration ended with code 0
  robbed,    \* history: the replicas whose session died with the lock
  server,    \* the phase of index.ts
  requests,  \* its handlers that have a connection
  orphans,   \* its handlers and sweeps that run without one
  reopened   \* whether one of these opened Prisma or Redis again after its end

bootVars == <<boot, failing, session, child, received, lock, migrated, robbed>>
serverVars == <<server, requests, orphans, reopened>>
backendVars == <<bootVars, serverVars>>

BootInit ==
  /\ boot = [r \in Replicas |-> "connect"]
  /\ failing = [r \in Replicas |-> FALSE]
  /\ session = [r \in Replicas |-> "none"]
  /\ child = [r \in Replicas |-> "none"]
  /\ received = [r \in Replicas |-> {}]
  /\ lock = NoReplica /\ migrated = {} /\ robbed = {}
  /\ server = [r \in Replicas |-> "off"]
  /\ requests = [r \in Replicas |-> 0]
  /\ orphans = [r \in Replicas |-> 0]
  /\ reopened = [r \in Replicas |-> FALSE]

BootGo(r, label) == boot' = [boot EXCEPT ![r] = label]
BootFails(r) == failing' = [failing EXCEPT ![r] = TRUE]
Freed(r) == IF lock = r THEN NoReplica ELSE lock

-----------------------------------------------------------------------------
\* start.mjs

Connect(r) ==
  /\ boot[r] = "connect"
  /\ \/ BootGo(r, "getLock") /\ session' = [session EXCEPT ![r] = "open"]
     \/ BootGo(r, "gone") /\ UNCHANGED session
  /\ UNCHANGED <<failing, child, received, lock, migrated, robbed, serverVars>>

\* Mutant: the answer of GET_LOCK is not looked at.
GetLockUnchecked(r) ==
  /\ boot[r] = "getLock" /\ session[r] = "open"
  /\ lock' = IF lock = NoReplica THEN r ELSE lock
  /\ BootGo(r, "settings")
  /\ UNCHANGED <<failing, session, child, received, migrated, robbed, serverVars>>

\* GET_LOCK: granted; or the session is lost or the wait of 1800 s is over, and
\* the finally block has nothing to release.
GetLock(r) ==
  /\ boot[r] = "getLock"
  /\ \/ session[r] = "open" /\ lock = NoReplica /\ lock' = r /\ BootGo(r, "settings")
        /\ UNCHANGED failing
     \/ BootGo(r, "end") /\ BootFails(r) /\ UNCHANGED lock
  /\ UNCHANGED <<session, child, received, migrated, robbed, serverVars>>

\* The query of wait_timeout, then the child that migrates.
Migrate(r) ==
  /\ boot[r] = "settings"
  /\ IF session[r] = "open"
     THEN BootGo(r, "migrate") /\ child' = [child EXCEPT ![r] = "running"] /\ UNCHANGED failing
     ELSE BootGo(r, "release") /\ BootFails(r) /\ UNCHANGED child
  /\ UNCHANGED <<session, received, lock, migrated, robbed, serverVars>>

\* keepConnectionActive: a failed heartbeat kills the child, once.
HeartbeatFails(r) ==
  /\ boot[r] = "migrate" /\ session[r] = "lost" /\ ~failing[r]
  /\ BootFails(r)
  /\ child' = [child EXCEPT ![r] = "signalled"]
  /\ UNCHANGED <<boot, session, received, lock, migrated, robbed, serverVars>>

\* The child may end well in spite of a signal, or be ended by one.
MigrationEnds(r) ==
  /\ boot[r] = "migrate"
  /\ \/ migrated' = migrated \cup {r} /\ UNCHANGED failing
     \/ BootFails(r) /\ UNCHANGED migrated
  /\ child' = [child EXCEPT ![r] = "none"]
  /\ BootGo(r, "stopBeat")
  /\ UNCHANGED <<session, received, lock, robbed, serverVars>>

\* heartbeat.stop waits for a query in flight, which may still fail.
StopHeartbeat(r) ==
  /\ boot[r] = "stopBeat"
  /\ \/ BootFails(r) /\ session[r] = "lost"
     \/ UNCHANGED failing
  /\ BootGo(r, "release")
  /\ UNCHANGED <<session, child, received, lock, migrated, robbed, serverVars>>

\* RELEASE_LOCK throws when the session is lost, and must answer 1.
ReleaseLock(r) ==
  /\ boot[r] = "release"
  /\ IF session[r] = "open" /\ lock = r
     THEN lock' = NoReplica /\ UNCHANGED failing
     ELSE BootFails(r) /\ UNCHANGED lock
  /\ BootGo(r, "end")
  /\ UNCHANGED <<session, child, received, migrated, robbed, serverVars>>

\* connection.end, then the server, unless an error or a signal has come.
EndConnection(r) ==
  /\ boot[r] = "end"
  /\ session' = [session EXCEPT ![r] = "closed"]
  /\ lock' = Freed(r)
  /\ IF failing[r] \/ received[r] # {} \/ session[r] = "lost"
     THEN BootGo(r, "gone") /\ UNCHANGED <<child, server>>
     ELSE /\ BootGo(r, "serve")
          /\ child' = [child EXCEPT ![r] = "running"]
          /\ server' = [server EXCEPT ![r] = "starting"]
  /\ UNCHANGED <<failing, received, migrated, robbed, requests, orphans, reopened>>

\* The exit of the server's process ends start.mjs.
ServerGone(r) ==
  /\ boot[r] = "serve" /\ server[r] = "exited"
  /\ child' = [child EXCEPT ![r] = "none"]
  /\ BootGo(r, "gone")
  /\ UNCHANGED <<failing, session, received, lock, migrated, robbed, serverVars>>

\* What index.ts does with a signal: the first of its kind starts the shutdown,
\* which waits for the server to have started; a second of its kind meets no
\* listener any more and kills the process, as any does before they are set.
ServerSignalled(r, s) ==
  \E phase \in CASE s \in received[r]      -> {"exited"}
                [] server[r] = "starting" -> {"starting", "exited"}
                [] server[r] = "up"       -> {"draining"}
                [] OTHER                  -> {server[r]} :
    server' = [server EXCEPT ![r] = phase]

\* The signal handler of start.mjs: pass it to the child, or leave at once.  The
\* session ends with the process.
SendSignal(r, s) ==
  /\ boot[r] # "gone"
  /\ received' = [received EXCEPT ![r] = @ \cup {s}]
  /\ IF child[r] # "none"
     THEN /\ child' = [child EXCEPT ![r] = "signalled"]
          /\ IF boot[r] = "serve" THEN ServerSignalled(r, s) ELSE UNCHANGED server
          /\ UNCHANGED <<boot, session, lock>>
     ELSE /\ BootGo(r, "gone")
          /\ session' = [session EXCEPT ![r] = "closed"]
          /\ lock' = Freed(r)
          /\ UNCHANGED <<child, server>>
  /\ UNCHANGED <<failing, migrated, robbed, requests, orphans, reopened>>

\* MySQL loses the session: it fails over, or an idle timeout strikes.
SessionLost(r) ==
  /\ session[r] = "open"
  /\ session' = [session EXCEPT ![r] = "lost"]
  /\ lock' = Freed(r)
  /\ robbed' = IF lock = r THEN robbed \cup {r} ELSE robbed
  /\ UNCHANGED <<boot, failing, child, received, migrated, serverVars>>

-----------------------------------------------------------------------------
\* index.ts: buckets and timers, requests, drain, resources.

\* A start that fails rejects serverPromise.then(...) too, which nobody catches:
\* Node ends the process.  A shutdown that was waiting goes on to drain.
ServerStarts(r) ==
  /\ server[r] = "starting"
  /\ \E phase \in {"exited", IF received[r] = {} THEN "up" ELSE "draining"} :
       server' = [server EXCEPT ![r] = phase]
  /\ UNCHANGED <<bootVars, requests, orphans, reopened>>

AcceptRequest(r) ==
  /\ server[r] = "up" /\ requests[r] + orphans[r] < MaxRequests
  /\ requests' = [requests EXCEPT ![r] = @ + 1]
  /\ UNCHANGED <<bootVars, server, orphans, reopened>>

AnswerRequest(r) ==
  /\ server[r] # "exited" /\ requests[r] > 0
  /\ requests' = [requests EXCEPT ![r] = @ - 1]
  /\ UNCHANGED <<bootVars, server, orphans, reopened>>

\* The client closes its connection; the handler runs on.
ClientLeaves(r) ==
  /\ server[r] # "exited" /\ requests[r] > 0
  /\ requests' = [requests EXCEPT ![r] = @ - 1]
  /\ orphans' = [orphans EXCEPT ![r] = @ + 1]
  /\ UNCHANGED <<bootVars, server, reopened>>

\* A timer starts a sweep of old uploads or of the rate limits.
Sweep(r) ==
  /\ server[r] = "up" /\ requests[r] + orphans[r] < MaxRequests
  /\ orphans' = [orphans EXCEPT ![r] = @ + 1]
  /\ UNCHANGED <<bootVars, server, requests, reopened>>

OrphanEnds(r) ==
  /\ server[r] # "exited" /\ orphans[r] > 0
  /\ orphans' = [orphans EXCEPT ![r] = @ - 1]
  /\ UNCHANGED <<bootVars, server, requests, reopened>>

\* server.close calls back when the last connection is closed.
Drained(r) ==
  /\ server[r] = "draining" /\ requests[r] = 0
  /\ server' = [server EXCEPT ![r] = "closing"]
  /\ UNCHANGED <<bootVars, requests, orphans, reopened>>

\* Mutant: only the idle connections are closed.
ForceCloseIdle(r) ==
  /\ server[r] = "draining" /\ requests[r] > 0
  /\ UNCHANGED backendVars

\* After 45 s the connections are closed under the handlers, which run on.
ForceClose(r) ==
  /\ server[r] = "draining" /\ requests[r] > 0
  /\ orphans' = [orphans EXCEPT ![r] = @ + requests[r]]
  /\ requests' = [requests EXCEPT ![r] = 0]
  /\ UNCHANGED <<bootVars, server, reopened>>

\* Prisma, then Redis and metrics are closed, each as far as it can be.
CloseResources(r) ==
  /\ server[r] = "closing"
  /\ server' = [server EXCEPT ![r] = "closed"]
  /\ UNCHANGED <<bootVars, requests, orphans, reopened>>

\* Both open again when they are used again, and nothing closes them any more.
OrphanReopens(r) ==
  /\ server[r] \in {"closing", "closed"} /\ orphans[r] > 0
  /\ reopened' = [reopened EXCEPT ![r] = TRUE]
  /\ UNCHANGED <<bootVars, server, requests, orphans>>

\* The process ends when nothing holds it.
LetGo(r) ==
  /\ server[r] = "closed" /\ orphans[r] = 0 /\ ~reopened[r]
  /\ server' = [server EXCEPT ![r] = "exited"]
  /\ UNCHANGED <<bootVars, requests, orphans, reopened>>

\* What an orphan waits for, or has opened, may not hold it either.
EndsEarly(r) ==
  /\ server[r] = "closed" /\ (orphans[r] > 0 \/ reopened[r])
  /\ server' = [server EXCEPT ![r] = "exited"]
  /\ UNCHANGED <<bootVars, requests, orphans, reopened>>

-----------------------------------------------------------------------------
BootStep(r) ==
  \/ Connect(r) \/ GetLock(r) \/ Migrate(r) \/ MigrationEnds(r) \/ StopHeartbeat(r)
  \/ ReleaseLock(r) \/ EndConnection(r) \/ ServerGone(r)

ServerStep(r) ==
  ServerStarts(r) \/ Drained(r) \/ ForceClose(r) \/ CloseResources(r) \/ LetGo(r)

\* What nothing makes happen.
HandlerStep(r) ==
  \/ AcceptRequest(r) \/ AnswerRequest(r) \/ ClientLeaves(r) \/ Sweep(r)
  \/ OrphanEnds(r) \/ OrphanReopens(r) \/ EndsEarly(r)

BootNext ==
  \E r \in Replicas :
    \/ BootStep(r) \/ ServerStep(r) \/ HeartbeatFails(r) \/ SessionLost(r)
    \/ HandlerStep(r) \/ \E s \in StopSignals : SendSignal(r, s)

BootSpec == BootInit /\ [][BootNext]_backendVars

\* GET_LOCK returns within 1800 s, a killed migration ends, the event loops run
\* on, and S3, MySQL and Redis answer the start and the close of the server;
\* nothing makes a handler end.
BootFairness ==
  \A r \in Replicas : WF_backendVars(BootStep(r)) /\ WF_backendVars(ServerStep(r))

-----------------------------------------------------------------------------
BootTypeOK ==
  /\ boot \in [Replicas -> {"connect", "getLock", "settings", "migrate", "stopBeat",
                            "release", "end", "serve", "gone"}]
  /\ failing \in [Replicas -> BOOLEAN]
  /\ session \in [Replicas -> {"none", "open", "lost", "closed"}]
  /\ child \in [Replicas -> {"none", "running", "signalled"}]
  /\ received \in [Replicas -> SUBSET StopSignals]
  /\ lock \in Replicas \cup {NoReplica}
  /\ migrated \subseteq Replicas /\ robbed \subseteq Replicas
  /\ server \in [Replicas -> {"off", "starting", "up", "draining", "closing", "closed", "exited"}]
  /\ requests \in [Replicas -> Nat] /\ orphans \in [Replicas -> Nat]
  /\ \A r \in Replicas : requests[r] + orphans[r] <= MaxRequests
  /\ reopened \in [Replicas -> BOOLEAN]

\* Two migrations run at a time only when the session of one of them was lost
\* with the lock: what the named lock is for (start.mjs:129-136).
MigrationsExclude ==
  \A r, q \in Replicas :
    boot[r] = "migrate" /\ boot[q] = "migrate" /\ r # q => r \in robbed \/ q \in robbed

\* A server runs on a database its own replica has migrated, under a lock it
\* held to the end: an error, a lost session or a failed release stops the
\* start ("Lost the database migration lock before release", start.mjs:171-173).
ServerUnderLock ==
  \A r \in Replicas : server[r] # "off" => r \in migrated /\ r \notin robbed

\* What replicas that start together may rely on: both of the above.
LockProtects == MigrationsExclude /\ ServerUnderLock

\* Held by a handler that has lost its connection, or by what one opened again.
Lingers(r) == server[r] = "closed" /\ (orphans[r] > 0 \/ reopened[r])

\* A replica that has been told to stop stops, whatever it waits for: the lock,
\* its migration, its start, or requests that never end (index.ts:53-59).  A
\* server that has drained and closed may be held by an orphan, by nothing else.
SignalStops ==
  \A r \in Replicas : received[r] # {} ~> boot[r] = "gone" \/ Lingers(r)
=============================================================================
