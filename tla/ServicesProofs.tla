--------------------------- MODULE ServicesProofs ---------------------------
(***************************************************************************)
(* What an encode, a playback URL, the shared scan of the queue and the    *)
(* start of the backend promise, for any number of replicas, streams and   *)
(* scans, any key and any lifetime; and, for any accounts, invitations and *)
(* overlapping requests, that the filters agree and that access is only    *)
(* given by an invitation that stands.                                     *)
(*                                                                         *)
(* The filters are compared for every requester and everything it may be a *)
(* viewer of, which is all a state can ask of them.  Access is given by    *)
(* the last step of an accept, whose first step read the invitation: the   *)
(* invariant is that a row keeps its target and its invitee once it is     *)
(* there, so that only its status can have changed in between.             *)
(***************************************************************************)
EXTENDS BackendStart, EncoderProcess, Playback, ProgressStream, Sharing, TLAPS

\* ffmpeg is only cut short by the timeout or by the abort signal, and both are
\* still known when it closes: no output is probed after that.
\* And a child runs in the four phases that have one.
CutKnown ==
  /\ cut => result # "none" \/ (phase = "encode" /\ (timedOut \/ aborted))
  /\ process # "none" => phase \in {"probe", "encode", "probeOutput", "thumbnail"}

LEMMA CutKnownInit == EncoderInit => CutKnown
BY DEF EncoderInit, CutKnown

LEMMA CutKnownStep == CutKnown /\ [EncoderNext]_encoderVars => CutKnown'
<1> SUFFICES ASSUME CutKnown, [EncoderNext]_encoderVars PROVE CutKnown'
  OBVIOUS
<1> USE DEF CutKnown, processVars
<1>1. CASE EncodeVideo
  BY <1>1 DEF EncodeVideo, Settle, Spawn
<1>2. CASE Abort
  BY <1>2 DEF Abort, Terminate
<1>3. CASE Timeout
  BY <1>3 DEF Timeout, Terminate
<1>4. CASE OutputTooLong
  BY <1>4 DEF OutputTooLong, Terminate
<1>5. CASE SpawnFails
  <2>1. \E p \in {"ended", "over"}, o \in Failures \cup {"none"} : Settle(p, o)
    BY <1>5 DEF SpawnFails, Failures
  <2> QED BY <1>5, <2>1 DEF SpawnFails, Settle
<1>6. CASE ProbeCloses
  BY <1>6 DEF ProbeCloses, Settle, Spawn
<1>7. CASE EncodeCloses
  BY <1>7 DEF EncodeCloses, Settle, Spawn
<1>8. CASE OutputProbeCloses
  BY <1>8 DEF OutputProbeCloses, Settle
<1>9. CASE GenerateThumbnail \/ ThumbnailCloses
  BY <1>9 DEF GenerateThumbnail, ThumbnailCloses, Settle, Spawn
<1>10. CASE KillTimer \/ ChildExits \/ ReportProgress \/ Reported
  BY <1>10 DEF KillTimer, ChildExits, ReportProgress, Reported
<1>11. CASE UNCHANGED encoderVars
  BY <1>11 DEF encoderVars
<1> QED
  BY <1>1, <1>2, <1>3, <1>4, <1>5, <1>6, <1>7, <1>8, <1>9, <1>10, <1>11 DEF EncoderNext, ChildCloses

\* What CutIsNoSuccess asks of a step.
EndsWhole ==
  /\ result = "none" /\ result' = "success" => ~cut /\ ~aborted /\ ~term
  /\ result = "none" /\ result' # "none" => process' = "none"

LEMMA StepEndsWhole == CutKnown /\ EncoderNext => EndsWhole
<1> SUFFICES ASSUME CutKnown, EncoderNext PROVE EndsWhole
  OBVIOUS
<1> USE DEF EndsWhole
<1>1. CASE OutputProbeCloses
  BY <1>1 DEF OutputProbeCloses, Settle, CutKnown
<1>2. CASE SpawnFails
  BY <1>2 DEF SpawnFails, Settle, CutKnown
<1>6. CASE EncodeVideo
  BY <1>6 DEF EncodeVideo, Settle, Spawn
<1>3. CASE ProbeCloses \/ EncodeCloses
  BY <1>3 DEF ProbeCloses, EncodeCloses, Settle, Spawn
<1>4. CASE GenerateThumbnail \/ ThumbnailCloses
  BY <1>4 DEF GenerateThumbnail, ThumbnailCloses, Settle, Spawn
<1>5. CASE Abort \/ Timeout \/ KillTimer \/ OutputTooLong \/ ChildExits \/ ReportProgress \/ Reported
  BY <1>5 DEF Abort, Timeout, KillTimer, OutputTooLong, ChildExits, ReportProgress, Reported
<1> QED BY <1>1, <1>2, <1>3, <1>4, <1>5, <1>6 DEF EncoderNext, ChildCloses

\* An encode that was cut short is not a success, and no child is left behind
\* when it has settled (encoder.ts: runFfmpeg, getDuration).
THEOREM NoCutSuccess == EncoderSpec => CutIsNoSuccess
<1>1. EncoderSpec => []CutKnown
  BY CutKnownInit, CutKnownStep, PTL DEF EncoderSpec
<1>2. CutKnown /\ [EncoderNext]_encoderVars => [EndsWhole]_encoderVars
  BY StepEndsWhole
<1> QED BY <1>1, <1>2, PTL DEF EncoderSpec, CutIsNoSuccess, EndsWhole

-----------------------------------------------------------------------------
\* A signed URL is the one the API made for its key when it was issued.
Signed ==
  /\ clock \in Nat /\ issued \in Nat
  /\ url # NoUrl => url.token = NoUrl \/ url = Sign(url.key, issued)

LEMMA SignedInvariant == PlaybackSpec => []Signed
<1>1. PlaybackInit => Signed
  BY DEF PlaybackInit, Signed
<1>2. Signed /\ [PlaybackNext]_playbackVars => Signed'
  <2> SUFFICES ASSUME Signed, [PlaybackNext]_playbackVars PROVE Signed'
    OBVIOUS
  <2>1. ASSUME NEW key \in Keys, FetchMovie(key) PROVE Signed'
    BY <2>1 DEF FetchMovie, Signed, Sign, Plain
  <2>2. CASE HalfHour
    BY <2>2 DEF HalfHour, Signed
  <2>3. CASE RolloutEnds \/ UNCHANGED playbackVars
    BY <2>3 DEF RolloutEnds, playbackVars, Signed
  <2> QED BY <2>1, <2>2, <2>3 DEF PlaybackNext
<1> QED BY <1>1, <1>2, PTL DEF PlaybackSpec

\* The expiry is in whole hours: up to one more than the lifetime.
LEMMA ExpiryBounds ==
  ASSUME NEW t \in Nat
  PROVE  /\ Expiry(t) \in Nat
         /\ 2 * Expiry(t) >= t + 2 * TtlHours /\ 2 * Expiry(t) <= t + 2 * TtlHours + 1
BY PlaybackAssumption DEF Expiry

\* A signed URL works for VOD_TOKEN_TTL_SECONDS, for at most an hour more, and
\* for its own key only (vod-token.ts, vod.ts).
THEOREM UrlsLast == PlaybackSpec => []UrlLastsTtl
<1>1. Signed => UrlLastsTtl
  <2> SUFFICES ASSUME Signed, url # NoUrl, url.token # NoUrl
               PROVE  /\ url.key \in ValidKeys /\ clock < issued + 2 * TtlHours => Mapped(url, clock) = url.key
                      /\ clock >= issued + 2 * TtlHours + 2 =>
                           /\ ThumbnailMapped(url, clock) = "refused"
                           /\ Mapped(url, clock) \in {"refused", "token/key"}
                      /\ \A key \in Keys \ {url.key} : ~Verifies(url.token, key, clock)
    BY DEF UrlLastsTtl
  <2>1. url.token.key = url.key /\ url.token.exp = Expiry(issued)
    BY DEF Signed, Sign
  <2>2. /\ clock \in Nat /\ issued \in Nat /\ TtlHours \in Nat /\ Expiry(issued) \in Nat
        /\ 2 * Expiry(issued) >= issued + 2 * TtlHours /\ 2 * Expiry(issued) <= issued + 2 * TtlHours + 1
    BY ExpiryBounds, PlaybackAssumption DEF Signed
  <2>3. ASSUME NEW key \in Keys \ {url.key} PROVE ~Verifies(url.token, key, clock)
    BY <2>1 DEF Verifies
  <2>4. ASSUME url.key \in ValidKeys, clock < issued + 2 * TtlHours PROVE Mapped(url, clock) = url.key
    <3>1. 2 * url.token.exp > clock
      BY <2>1, <2>2, <2>4
    <3> QED BY <2>1, <2>4, <3>1 DEF Mapped, Verifies
  <2>5. ASSUME clock >= issued + 2 * TtlHours + 2
        PROVE  /\ ThumbnailMapped(url, clock) = "refused"
               /\ Mapped(url, clock) \in {"refused", "token/key"}
    <3>1. ~(2 * url.token.exp > clock)
      BY <2>1, <2>2, <2>5
    <3> QED BY <3>1 DEF ThumbnailMapped, Mapped, Verifies
  <2> QED BY <2>3, <2>4, <2>5
<1> QED BY <1>1, SignedInvariant, PTL

-----------------------------------------------------------------------------
\* The snapshot is one of the scans.
OneScan == DOMAIN scan = Scans /\ snapshot \in Scans \cup {NoScan}

\* What ScanShared asks of a step.
KeepsScan == snapshot # NoScan /\ ~expired /\ scan'[snapshot] # "failed" => snapshot' = snapshot

LEMMA OneScanStep == OneScan /\ [StreamNext]_streamVars => OneScan'
<1> SUFFICES ASSUME OneScan, [StreamNext]_streamVars PROVE OneScan'
  OBVIOUS
<1> USE DEF OneScan
<1>1. ASSUME NEW s \in Streams, Position(s) PROVE OneScan'
  BY <1>1 DEF Position, snapshotVars
<1>2. ASSUME NEW n \in Scans, ScanDone(n) \/ ScanFails(n) PROVE OneScan'
  BY <1>2 DEF ScanDone, ScanFails
<1>3. ASSUME UNCHANGED <<scan, snapshot>> PROVE OneScan'
  BY <1>3
<1> QED
  BY <1>1, <1>2, <1>3 DEF StreamNext, streamVars, Connects, Reuses, GetFails, Get, Positioned, Send, Leaves,
     ConnectEnds, SnapshotExpires, Progresses, snapshotVars

LEMMA StepKeepsScan == OneScan /\ StreamNext => KeepsScan
<1> SUFFICES ASSUME OneScan, StreamNext PROVE KeepsScan
  OBVIOUS
<1> USE DEF OneScan, KeepsScan
<1>1. ASSUME NEW s \in Streams, Position(s) PROVE KeepsScan
  BY <1>1 DEF Position, snapshotVars
<1>2. ASSUME NEW n \in Scans, ScanDone(n) \/ ScanFails(n) PROVE KeepsScan
  BY <1>2 DEF ScanDone, ScanFails
<1>3. ASSUME UNCHANGED snapshot PROVE KeepsScan
  BY <1>3
<1> QED
  BY <1>1, <1>2, <1>3 DEF StreamNext, Connects, Reuses, GetFails, Get, Positioned, Send, Leaves,
     ConnectEnds, SnapshotExpires, Progresses, snapshotVars

\* All streams share one scan of the queue until its time is over, and an older
\* scan that fails late takes nothing away (redis.ts).
THEOREM ScansAreShared == StreamSpec => ScanShared
<1>1. StreamInit => OneScan
  BY DEF StreamInit, OneScan
<1>2. StreamSpec => []OneScan
  BY <1>1, OneScanStep, PTL DEF StreamSpec
<1>3. OneScan /\ [StreamNext]_streamVars => [KeepsScan]_streamVars
  BY StepKeepsScan
<1> QED BY <1>2, <1>3, PTL DEF StreamSpec, ScanShared, KeepsScan

-----------------------------------------------------------------------------
\* The named lock keeps migrations apart, and no server starts without a
\* migration of its own under the lock.
\*
\* start.mjs never asks MySQL whether it still holds the lock while the child
\* migrates.  What carries the proof is that its session does: at every label
\* between GET_LOCK and RELEASE_LOCK the session is open and holds the lock, or
\* the replica has been robbed of it (Held), and a session that was lost cannot
\* answer 1 to RELEASE_LOCK (Noticed).
UnderLock == {"settings", "migrate", "stopBeat", "release"}
Labels == {"connect", "getLock", "settings", "migrate", "stopBeat", "release", "end",
           "serve", "gone"}

\* The part of the type that the other conjuncts rest on.
Typed ==
  /\ boot \in [Replicas -> Labels]
  /\ failing \in [Replicas -> BOOLEAN]
  /\ session \in [Replicas -> {"none", "open", "lost", "closed"}]
  /\ server \in [Replicas -> {"off", "starting", "up", "draining", "closing", "closed", "exited"}]

Held ==
  \A r \in Replicas : boot[r] \in UnderLock =>
    IF session[r] = "open" THEN lock = r ELSE r \in robbed

Noticed ==
  \A r \in Replicas :
    /\ r \in robbed => session[r] \in {"lost", "closed"}
    /\ boot[r] = "connect" => session[r] = "none"

Earned ==
  \A r \in Replicas :
    /\ boot[r] \in {"stopBeat", "release", "end"} /\ ~failing[r] => r \in migrated
    /\ boot[r] = "end" /\ ~failing[r] => lock # r /\ r \notin robbed

Serving ==
  \A r \in Replicas :
    /\ boot[r] = "serve" => server[r] # "off"
    /\ server[r] # "off" =>
         boot[r] \in {"serve", "gone"} /\ session[r] = "closed" /\ r \in migrated /\ r \notin robbed

IInv == Typed /\ Held /\ Noticed /\ Earned /\ Serving

-----------------------------------------------------------------------------
\* The variables of start.mjs and of index.ts keep their types.
THEOREM BootTypeCorrect == BootSpec => []BootTypeOK
<1>1. BootInit => BootTypeOK
  BY BootAssumption DEF BootInit, BootTypeOK
<1>2. BootTypeOK /\ [BootNext]_backendVars => BootTypeOK'
  <2> SUFFICES ASSUME BootTypeOK, [BootNext]_backendVars PROVE BootTypeOK'
    OBVIOUS
  <2> USE BootAssumption DEF BootTypeOK, BootGo, BootFails, Freed, serverVars, bootVars, StopSignals
  <2>1. ASSUME NEW r \in Replicas, BootStep(r) PROVE BootTypeOK'
    <3>1. CASE Connect(r) BY <3>1 DEF Connect
    <3>2. CASE GetLock(r) BY <3>2 DEF GetLock
    <3>3. CASE Migrate(r) BY <3>3 DEF Migrate
    <3>4. CASE MigrationEnds(r) BY <3>4 DEF MigrationEnds
    <3>5. CASE StopHeartbeat(r) BY <3>5 DEF StopHeartbeat
    <3>6. CASE ReleaseLock(r) BY <3>6 DEF ReleaseLock
    <3>7. CASE EndConnection(r) BY <3>7 DEF EndConnection
    <3>8. CASE ServerGone(r) BY <3>8 DEF ServerGone
    <3> QED BY <2>1, <3>1, <3>2, <3>3, <3>4, <3>5, <3>6, <3>7, <3>8 DEF BootStep
  <2>2. ASSUME NEW r \in Replicas, ServerStep(r) PROVE BootTypeOK'
    <3>1. CASE ServerStarts(r) BY <3>1 DEF ServerStarts
    <3>2. CASE Drained(r) BY <3>2 DEF Drained
    <3>3. CASE ForceClose(r) BY <3>3 DEF ForceClose
    <3>4. CASE CloseResources(r) BY <3>4 DEF CloseResources
    <3>5. CASE LetGo(r) BY <3>5 DEF LetGo
    <3> QED BY <2>2, <3>1, <3>2, <3>3, <3>4, <3>5 DEF ServerStep
  <2>3. ASSUME NEW r \in Replicas, HeartbeatFails(r) \/ SessionLost(r) PROVE BootTypeOK'
    BY <2>3 DEF HeartbeatFails, SessionLost
  <2>4. ASSUME NEW r \in Replicas, HandlerStep(r) PROVE BootTypeOK'
    <3>1. CASE AcceptRequest(r) BY <3>1 DEF AcceptRequest
    <3>2. CASE AnswerRequest(r) BY <3>2 DEF AnswerRequest
    <3>3. CASE ClientLeaves(r) BY <3>3 DEF ClientLeaves
    <3>4. CASE Sweep(r) BY <3>4 DEF Sweep
    <3>5. CASE OrphanEnds(r) BY <3>5 DEF OrphanEnds
    <3>6. CASE OrphanReopens(r) \/ EndsEarly(r) BY <3>6 DEF OrphanReopens, EndsEarly
    <3> QED BY <2>4, <3>1, <3>2, <3>3, <3>4, <3>5, <3>6 DEF HandlerStep
  <2>5. ASSUME NEW r \in Replicas, NEW s \in StopSignals, SendSignal(r, s) PROVE BootTypeOK'
    <3>1. ServerSignalled(r, s) => server' \in [Replicas -> {"off", "starting", "up", "draining", "closing", "closed", "exited"}]
      BY DEF ServerSignalled
    <3> QED BY <2>5, <3>1 DEF SendSignal
  <2>6. CASE UNCHANGED backendVars
    BY <2>6 DEF backendVars
  <2> QED BY <2>1, <2>2, <2>3, <2>4, <2>5, <2>6 DEF BootNext
<1> QED BY <1>1, <1>2, PTL DEF BootSpec

-----------------------------------------------------------------------------
LEMMA IInvInit == BootInit => IInv
  BY BootAssumption DEF BootInit, IInv, Typed, Held, Noticed, Earned, Serving, Labels, UnderLock

\* Typed needs nothing but itself.
LEMMA TypedStep == Typed /\ [BootNext]_backendVars => Typed'
<1> SUFFICES ASSUME Typed, [BootNext]_backendVars PROVE Typed'
  OBVIOUS
<1> USE DEF Typed, Labels, BootGo, BootFails, serverVars, bootVars
<1>1. ASSUME NEW r \in Replicas, BootStep(r) PROVE Typed'
  <2>1. CASE Connect(r) BY <2>1 DEF Connect
  <2>2. CASE GetLock(r) BY <2>2 DEF GetLock
  <2>3. CASE Migrate(r) BY <2>3 DEF Migrate
  <2>4. CASE MigrationEnds(r) BY <2>4 DEF MigrationEnds
  <2>5. CASE StopHeartbeat(r) BY <2>5 DEF StopHeartbeat
  <2>6. CASE ReleaseLock(r) BY <2>6 DEF ReleaseLock
  <2>7. CASE EndConnection(r) BY <2>7 DEF EndConnection
  <2>8. CASE ServerGone(r) BY <2>8 DEF ServerGone
  <2> QED BY <1>1, <2>1, <2>2, <2>3, <2>4, <2>5, <2>6, <2>7, <2>8 DEF BootStep
<1>2. ASSUME NEW r \in Replicas, ServerStep(r) PROVE Typed'
  BY <1>2 DEF ServerStep, ServerStarts, Drained, ForceClose, CloseResources, LetGo
<1>3. ASSUME NEW r \in Replicas, HeartbeatFails(r) \/ SessionLost(r) PROVE Typed'
  BY <1>3 DEF HeartbeatFails, SessionLost
<1>4. ASSUME NEW r \in Replicas, HandlerStep(r) PROVE Typed'
  BY <1>4 DEF HandlerStep, AcceptRequest, AnswerRequest, ClientLeaves, Sweep, OrphanEnds,
     OrphanReopens, EndsEarly
<1>5. ASSUME NEW r \in Replicas, NEW s \in StopSignals, SendSignal(r, s) PROVE Typed'
  <2>1. ServerSignalled(r, s) => server' \in [Replicas -> {"off", "starting", "up", "draining", "closing", "closed", "exited"}]
    BY DEF ServerSignalled
  <2> QED BY <1>5, <2>1 DEF SendSignal
<1>6. CASE UNCHANGED backendVars
  BY <1>6 DEF backendVars
<1> QED BY <1>1, <1>2, <1>3, <1>4, <1>5, <1>6 DEF BootNext

LEMMA IInvStep == IInv /\ [BootNext]_backendVars => IInv'
<1> SUFFICES ASSUME IInv, [BootNext]_backendVars PROVE IInv'
  OBVIOUS
<1> USE BootAssumption DEF IInv, Typed, Held, Noticed, Earned, Serving, Labels, UnderLock,
                           BootGo, BootFails, Freed, serverVars, bootVars
<1>1. ASSUME NEW r \in Replicas, BootStep(r) PROVE IInv'
  <2>1. CASE Connect(r) BY <2>1 DEF Connect
  <2>2. CASE GetLock(r)
    <3>1. Typed' BY TypedStep
    <3>2. Held' BY <2>2 DEF GetLock
    <3>3. Noticed' BY <2>2 DEF GetLock
    <3>4. Earned' BY <2>2 DEF GetLock
    <3>5. Serving' BY <2>2 DEF GetLock
    <3> QED BY <3>1, <3>2, <3>3, <3>4, <3>5
  <2>3. CASE Migrate(r)
    <3>1. Typed' BY TypedStep
    <3>2. Held' BY <2>3 DEF Migrate
    <3>3. Noticed' BY <2>3 DEF Migrate
    <3>4. Earned' BY <2>3 DEF Migrate
    <3>5. Serving' BY <2>3 DEF Migrate
    <3> QED BY <3>1, <3>2, <3>3, <3>4, <3>5
  <2>4. CASE MigrationEnds(r)
    <3>1. Typed' BY TypedStep
    <3>2. Held' /\ Noticed' BY <2>4 DEF MigrationEnds
    <3>3. Earned' BY <2>4 DEF MigrationEnds
    <3>4. Serving' BY <2>4 DEF MigrationEnds
    <3> QED BY <3>1, <3>2, <3>3, <3>4
  <2>5. CASE StopHeartbeat(r)
    <3>1. Typed' BY TypedStep
    <3>2. Held' /\ Noticed' BY <2>5 DEF StopHeartbeat
    <3>3. Earned' BY <2>5 DEF StopHeartbeat
    <3>4. Serving' BY <2>5 DEF StopHeartbeat
    <3> QED BY <3>1, <3>2, <3>3, <3>4
  <2>6. CASE ReleaseLock(r)
    <3>1. Typed' BY TypedStep
    <3>2. Held' BY <2>6 DEF ReleaseLock
    <3>3. Noticed' BY <2>6 DEF ReleaseLock
    <3>4. Earned' BY <2>6 DEF ReleaseLock
    <3>5. Serving' BY <2>6 DEF ReleaseLock
    <3> QED BY <3>1, <3>2, <3>3, <3>4, <3>5
  <2>7. CASE EndConnection(r) BY <2>7 DEF EndConnection
  <2>8. CASE ServerGone(r) BY <2>8 DEF ServerGone
  <2> QED BY <1>1, <2>1, <2>2, <2>3, <2>4, <2>5, <2>6, <2>7, <2>8 DEF BootStep
<1>2. ASSUME NEW r \in Replicas, ServerStep(r) PROVE IInv'
  BY <1>2 DEF ServerStep, ServerStarts, Drained, ForceClose, CloseResources, LetGo
<1>3. ASSUME NEW r \in Replicas, HeartbeatFails(r) PROVE IInv'
  BY <1>3 DEF HeartbeatFails
<1>4. ASSUME NEW r \in Replicas, SessionLost(r) PROVE IInv'
  BY <1>4 DEF SessionLost
<1>5. ASSUME NEW r \in Replicas, HandlerStep(r) PROVE IInv'
  BY <1>5 DEF HandlerStep, AcceptRequest, AnswerRequest, ClientLeaves, Sweep, OrphanEnds,
     OrphanReopens, EndsEarly
<1>6. ASSUME NEW r \in Replicas, NEW s \in StopSignals, SendSignal(r, s) PROVE IInv'
  <2>1. CASE child[r] = "none" BY <1>6, <2>1 DEF SendSignal
  <2>2. CASE child[r] # "none"
    <3>1. CASE boot[r] # "serve" BY <1>6, <2>2, <3>1 DEF SendSignal
    <3>2. CASE boot[r] = "serve" \* the phase of r moves, and nothing else
      <4>1. ServerSignalled(r, s) /\ UNCHANGED <<boot, failing, session, lock, migrated, robbed>>
        BY <1>6, <2>2, <3>2 DEF SendSignal
      <4>2. Typed' BY TypedStep
      <4>3. \A q \in Replicas \ {r} : server'[q] = server[q]
        BY <4>1 DEF ServerSignalled
      <4>4. server'[r] # "off"
        BY <3>2, <4>1 DEF ServerSignalled
      <4> QED BY <3>2, <4>1, <4>2, <4>3, <4>4
    <3> QED BY <3>1, <3>2
  <2> QED BY <2>1, <2>2
<1>7. CASE UNCHANGED backendVars
  BY <1>7 DEF backendVars
<1> QED BY <1>1, <1>2, <1>3, <1>4, <1>5, <1>6, <1>7 DEF BootNext

\* Whatever sessions are lost and whatever signals arrive, two replicas migrate
\* at a time only when one of them was robbed of the lock, and a server runs
\* only after its replica has migrated under a lock it held to the end.
THEOREM LockProtectsAll == BootSpec => []LockProtects
<1>1. IInv => LockProtects
  BY DEF IInv, Typed, Held, Noticed, Serving, UnderLock, LockProtects, MigrationsExclude, ServerUnderLock
<1> QED BY IInvInit, IInvStep, <1>1, PTL DEF BootSpec

-----------------------------------------------------------------------------
\* Every pair of filters agrees, whoever asks.
LEMMA FiltersAgree == ASSUME NEW u \in Requesters, NEW v \in SUBSET SharedTargets PROVE Agree(u, v)
<1> SUFFICES ASSUME NEW pv \in Visibilities, NEW mv \in Visibilities
             PROVE  /\ Searchable(pv, u) => CanViewProfile(pv, u, v)
                    /\ Suggested(mv, pv, u, v) <=> EntityInList(mv, pv, u, v) \/ OnlySuggested(mv, pv, v)
                    /\ Suggested(mv, pv, u, v) => CanViewOwnedEntity(mv, pv, u, v)
                    /\ \A ready \in BOOLEAN :
                         /\ MovieInContainer(mv, pv, ready, u, v) <=> ShowMovie(mv, pv, ready, u, v)
                         /\ MovieInList(mv, pv, ready, u, v) => ShowMovie(mv, pv, ready, u, v)
                         /\ \A cv \in Visibilities :
                              /\ SeriesListShows(cv, mv, pv, ready, u, v) => SeriesShows(cv, mv, pv, ready, u, v)
                              /\ SeriesShows(cv, mv, pv, ready, u, v) <=> SeriesMoviesShows(cv, mv, pv, ready, u, v)
                              /\ SeriesShows(cv, mv, pv, ready, u, v) <=> PlaylistShows(cv, mv, pv, ready, u, v)
                              /\ ShowMovie(mv, pv, ready, u, v) /\ CanViewOwnedEntity(cv, pv, u, v)
                                   => SeriesShows(cv, mv, pv, ready, u, v)
  BY DEF Agree
<1>1. Searchable(pv, u) => CanViewProfile(pv, u, v)
  BY DEF Searchable, CanViewProfile
<1>2. Suggested(mv, pv, u, v) <=> EntityInList(mv, pv, u, v) \/ OnlySuggested(mv, pv, v)
  BY DEF EntityInList, InFilter, Suggested, OnlySuggested, Anyone, ProfileAccess, SharedProfile, Visibilities
<1>3. Suggested(mv, pv, u, v) => CanViewOwnedEntity(mv, pv, u, v)
  BY DEF Suggested, CanViewOwnedEntity, CanViewProfile, SharedProfile, Visibilities
<1>4. ASSUME NEW ready \in BOOLEAN
      PROVE  MovieInContainer(mv, pv, ready, u, v) <=> ShowMovie(mv, pv, ready, u, v)
  BY DEF MovieInContainer, ShowMovie, InFilter, CanViewMovie, CanViewProfile, Anyone, ProfileAccess, SharedProfile
<1>5. ASSUME NEW ready \in BOOLEAN
      PROVE  MovieInList(mv, pv, ready, u, v) => ShowMovie(mv, pv, ready, u, v)
  BY DEF MovieInList, ReadyOrOwn, ShowMovie, InFilter, CanViewMovie, CanViewProfile, Anyone, ProfileAccess, SharedProfile
<1>6. ASSUME NEW ready \in BOOLEAN, NEW cv \in Visibilities
      PROVE  SeriesListShows(cv, mv, pv, ready, u, v) => SeriesShows(cv, mv, pv, ready, u, v)
  <2>1. EntityInList(cv, pv, u, v) => CanViewOwnedEntity(cv, pv, u, v)
    BY DEF EntityInList, InFilter, CanViewOwnedEntity, CanViewProfile, Anyone, ProfileAccess, SharedProfile
  <2> QED BY <2>1 DEF SeriesListShows, SeriesShows
<1>7. ASSUME NEW ready \in BOOLEAN, NEW cv \in Visibilities
      PROVE  /\ SeriesShows(cv, mv, pv, ready, u, v) <=> SeriesMoviesShows(cv, mv, pv, ready, u, v)
             /\ SeriesShows(cv, mv, pv, ready, u, v) <=> PlaylistShows(cv, mv, pv, ready, u, v)
             /\ ShowMovie(mv, pv, ready, u, v) /\ CanViewOwnedEntity(cv, pv, u, v)
                  => SeriesShows(cv, mv, pv, ready, u, v)
  BY <1>4 DEF SeriesShows, SeriesMoviesShows, PlaylistShows
<1> QED BY <1>1, <1>2, <1>3, <1>4, <1>5, <1>6, <1>7

\* So every verdict that a state can ask for is there, and is TRUE.
LEMMA VerdictsHold ==
  ASSUME NEW u \in Requesters, NEW w \in SUBSET SharedTargets PROVE <<u, w, TRUE>> \in Verdicts
<1>1. Agree(u, w) = TRUE
  <2>1. Agree(u, w)
    BY FiltersAgree
  <2>2. Agree(u, w) \in BOOLEAN
    BY DEF Agree
  <2> QED BY <2>1, <2>2, Zenon
<1>2. <<u, w, Agree(u, w)>> \in Verdicts
  BY DEF Verdicts
<1> QED BY <1>1, <1>2

\* What a list, a container, a suggestion or a search shows, the single view
\* shows, a container hides nothing, and the suggestions are those of the list
\* but for the one case named: in every state, for every requester.
THEOREM FiltersAlwaysAgree == SharingSpec => []AccessAgrees
<1>1. AccessAgrees
  <2> SUFFICES ASSUME NEW u \in Requesters PROVE <<u, ViewedBy(u), TRUE>> \in Verdicts
    BY DEF AccessAgrees
  <2> QED BY VerdictsHold DEF ViewedBy
<1> QED BY <1>1, PTL

-----------------------------------------------------------------------------
Rows ==
  /\ viewers \in [SharedTargets -> SUBSET Profiles]
  /\ invitation \in [InvitationIds -> InvitationRow]
  /\ DOMAIN request = Requests

\* The invitation a request is about to accept is there, for its target and its account.
AcceptRow == [kind : {"accept"}, at : {"check", "write"}, id : InvitationIds,
              target : SharedTargets, profile : Profiles]
ForInvitee(r) ==
  /\ r \in AcceptRow
  /\ invitation[r.id].status # "NONE"
  /\ invitation[r.id].target = r.target /\ invitation[r.id].invitee = AccountOf[r.profile]

Accepts == \A q \in Requests :
  request[q] # Nobody /\ request[q].kind = "accept" => ForInvitee(request[q])
Invites == \A q \in Requests :
  RequestAt(q, "invite", "write") => request[q].target \in SharedTargets /\ request[q].invitee \in Accounts
Answers == \A q \in Requests :
  RequestAt(q, "decline", "write") \/ RequestAt(q, "cancel", "write") => request[q].id \in InvitationIds

SharingInv == Rows /\ Accepts /\ Invites /\ Answers

\* What a step may do to the rows: every invitation that is there keeps its
\* target and its invitee.
RowsKept == \A i \in InvitationIds : invitation[i].status # "NONE" =>
  /\ invitation'[i].status # "NONE"
  /\ invitation'[i].target = invitation[i].target /\ invitation'[i].invitee = invitation[i].invitee

LEMMA SharingInvInit == SharingInit => SharingInv
<1> SUFFICES ASSUME SharingInit PROVE SharingInv
  OBVIOUS
<1>1. NoInvitation \in InvitationRow
  BY DEF NoInvitation, InvitationRow, SharedTargets, Requesters
<1> QED BY <1>1 DEF SharingInit, SharingInv, Rows, Accepts, Invites, Answers, RequestAt

\* A step that keeps the rows and lets no request in, or only moves one on.
LEMMA RequestsLeave ==
  ASSUME SharingInv, Rows', RowsKept,
         \A q \in Requests : \/ request'[q] = request[q]
                              \/ request'[q] = Nobody
  PROVE  SharingInv'
<1>1. Accepts'
  BY DEF SharingInv, Accepts, ForInvitee, AcceptRow, RowsKept
<1>2. Invites'
  BY DEF SharingInv, Invites, RequestAt
<1>3. Answers'
  BY DEF SharingInv, Answers, RequestAt
<1> QED BY <1>1, <1>2, <1>3 DEF SharingInv

\* A step that touches no row, and lets one request in that asks for no row yet.
LEMMA RequestArrives ==
  ASSUME SharingInv, UNCHANGED <<viewers, invitation>>, NEW q \in Requests, NEW r,
         request' = [request EXCEPT ![q] = r],
         r.kind = "accept" => ForInvitee(r),
         r.kind = "invite" => r.target \in SharedTargets /\ r.invitee \in Accounts,
         r.kind \in {"decline", "cancel"} => r.id \in InvitationIds
  PROVE  SharingInv'
<1>1. Rows'
  BY DEF SharingInv, Rows
<1>2. request'[q] = r /\ \A o \in Requests : o # q => request'[o] = request[o]
  BY DEF SharingInv, Rows
<1>3. Accepts'
  BY <1>2 DEF SharingInv, Accepts, ForInvitee
<1>4. Invites'
  BY <1>2 DEF SharingInv, Invites, RequestAt
<1>5. Answers'
  BY <1>2 DEF SharingInv, Answers, RequestAt
<1> QED BY <1>1, <1>3, <1>4, <1>5 DEF SharingInv

LEMMA SharingInvStep == SharingInv /\ [SharingNext]_sharingVars => SharingInv'
<1> SUFFICES ASSUME SharingInv, [SharingNext]_sharingVars PROVE SharingInv'
  OBVIOUS
<1> USE SharingAssumption, BoundsAssumption
<1>r. Rows
  BY DEF SharingInv
<1>1. ASSUME NEW q \in Requests, NEW u \in Profiles, NEW t \in SharedTargets, NEW a \in Invitees,
             Invite(q, u, t, a)
      PROVE  SharingInv'
  <2> DEFINE next == [kind |-> "invite", at |-> "write", target |-> t, invitee |-> a]
  <2>1. request' = [request EXCEPT ![q] = next] /\ UNCHANGED <<viewers, invitation>>
    BY <1>1 DEF Invite, ArriveRequest
  <2>2. next.kind = "invite" /\ next.target = t /\ next.invitee = a
    OBVIOUS
  <2> HIDE DEF next
  <2> QED BY <2>1, <2>2, RequestArrives
<1>2. ASSUME NEW q \in Requests, NEW u \in Profiles, NEW p \in Profiles, NEW i \in InvitationIds,
             ReadAnswer(q, u, i, p, "accept")
      PROVE  SharingInv'
  <2> DEFINE next == [kind |-> "accept", at |-> "check", id |-> i,
                      target |-> invitation[i].target, profile |-> p]
  <2>1. request' = [request EXCEPT ![q] = next] /\ UNCHANGED <<viewers, invitation>>
    BY <1>2 DEF ReadAnswer, ArriveRequest
  <2>2. next.kind = "accept" /\ ForInvitee(next)
    BY <1>2, <1>r DEF ReadAnswer, Pending, ForInvitee, AcceptRow, Rows, InvitationRow
  <2> HIDE DEF next
  <2> QED BY <2>1, <2>2, RequestArrives
<1>3. ASSUME NEW q \in Requests, NEW u \in Profiles, NEW p \in Profiles, NEW i \in InvitationIds,
             ReadAnswer(q, u, i, p, "decline")
      PROVE  SharingInv'
  <2> DEFINE next == [kind |-> "decline", at |-> "write", id |-> i,
                      target |-> invitation[i].target, profile |-> Nobody]
  <2>1. request' = [request EXCEPT ![q] = next] /\ UNCHANGED <<viewers, invitation>>
    BY <1>3 DEF ReadAnswer, ArriveRequest
  <2>2. next.kind = "decline" /\ next.id = i
    OBVIOUS
  <2> HIDE DEF next
  <2> QED BY <2>1, <2>2, RequestArrives
<1>4. ASSUME NEW q \in Requests, NEW u \in Profiles, NEW i \in InvitationIds, ReadCancel(q, u, i)
      PROVE  SharingInv'
  <2> DEFINE next == [kind |-> "cancel", at |-> "write", id |-> i]
  <2>1. request' = [request EXCEPT ![q] = next] /\ UNCHANGED <<viewers, invitation>>
    BY <1>4 DEF ReadCancel, ArriveRequest
  <2>2. next.kind = "cancel" /\ next.id = i
    OBVIOUS
  <2> HIDE DEF next
  <2> QED BY <2>1, <2>2, RequestArrives
<1>5. ASSUME NEW q \in Requests, NEW t \in SharedTargets, NEW asked, ReadVisibility(q, t, asked)
      PROVE  SharingInv'
  <2> DEFINE next == [kind |-> "edit", at |-> "write", target |-> t,
                      value |-> IF asked = Nobody THEN visibility[t] ELSE asked]
  <2>1. request' = [request EXCEPT ![q] = next] /\ UNCHANGED <<viewers, invitation>>
    BY <1>5 DEF ReadVisibility, ArriveRequest
  <2>2. next.kind = "edit"
    OBVIOUS
  <2> HIDE DEF next
  <2> QED BY <2>1, <2>2, RequestArrives
<1>6. ASSUME NEW q \in Requests, CheckShareable(q) PROVE SharingInv'
  <2>1. CASE request' = [request EXCEPT ![q].at = "write"]
    <3> DEFINE next == [request[q] EXCEPT !.at = "write"]
    <3>1. request' = [request EXCEPT ![q] = next] /\ UNCHANGED <<viewers, invitation>>
      BY <1>6, <2>1 DEF CheckShareable
    <3>2. ForInvitee(request[q])
      BY <1>6 DEF CheckShareable, RequestAt, SharingInv, Accepts
    <3>3. next.kind = "accept" /\ ForInvitee(next)
      BY <3>2 DEF ForInvitee, AcceptRow
    <3> HIDE DEF next
    <3> QED BY <3>1, <3>3, RequestArrives
  <2>2. CASE LeaveRequest(q)
    BY <1>6, <2>2, <1>r, RequestsLeave DEF CheckShareable, LeaveRequest, Rows, RowsKept
  <2> QED BY <1>6, <2>1, <2>2 DEF CheckShareable
<1>7. ASSUME NEW q \in Requests, CreateInvitation(q) PROVE SharingInv'
  <2> DEFINE row == [target |-> request[q].target, invitee |-> request[q].invitee,
                     status |-> "PENDING", granted |-> Nobody]
  <2>1. PICK i \in InvitationIds :
          invitation[i].status = "NONE" /\ invitation' = [invitation EXCEPT ![i] = row]
    BY <1>7 DEF CreateInvitation
  <2>2. row \in InvitationRow
    BY <1>7 DEF CreateInvitation, SharingInv, Invites, InvitationRow, Requesters
  <2> HIDE DEF row
  <2>3. Rows' /\ RowsKept
    BY <1>7, <1>r, <2>1, <2>2 DEF CreateInvitation, LeaveRequest, Rows, RowsKept
  <2> QED BY <1>7, <1>r, <2>3, RequestsLeave DEF CreateInvitation, LeaveRequest, Rows
<1>8. ASSUME NEW q \in Requests, Grant(q) PROVE SharingInv'
  <2>1. ForInvitee(request[q])
    BY <1>8 DEF Grant, RequestAt, SharingInv, Accepts
  <2>2. CASE UNCHANGED <<viewers, invitation>>
    BY <1>8, <1>r, <2>2, RequestsLeave DEF Grant, LeaveRequest, Rows, RowsKept
  <2> DEFINE r == request[q]
             row == [invitation[r.id] EXCEPT !.status = "ACCEPTED", !.granted = r.profile]
  <2>3. CASE /\ viewers' = [viewers EXCEPT ![r.target] = @ \cup {r.profile}]
             /\ invitation' = [invitation EXCEPT ![r.id] = row]
    <3>1. /\ r.id \in InvitationIds /\ r.target \in SharedTargets /\ r.profile \in Profiles
          /\ invitation[r.id] \in InvitationRow
      BY <2>1, <1>r DEF ForInvitee, AcceptRow, Rows
    <3>2. /\ row \in InvitationRow /\ row.status = "ACCEPTED"
          /\ row.target = invitation[r.id].target /\ row.invitee = invitation[r.id].invitee
      BY <3>1 DEF InvitationRow, Requesters
    <3>3. DOMAIN request' = Requests
      BY <1>8, <1>r DEF Grant, LeaveRequest, Rows
    <3> HIDE DEF row, r
    <3>4. Rows' /\ RowsKept
      BY <2>3, <1>r, <3>1, <3>2, <3>3 DEF Rows, RowsKept
    <3> QED BY <1>8, <1>r, <3>4, RequestsLeave DEF Grant, LeaveRequest, Rows
  <2>4. \/ UNCHANGED <<viewers, invitation>>
        \/ /\ viewers' = [viewers EXCEPT ![r.target] = @ \cup {r.profile}]
           /\ invitation' = [invitation EXCEPT ![r.id].status = "ACCEPTED", ![r.id].granted = r.profile]
    BY <1>8 DEF Grant
  <2>5. [invitation EXCEPT ![r.id].status = "ACCEPTED", ![r.id].granted = r.profile]
          = [invitation EXCEPT ![r.id] = row]
    <3>1. r.id \in InvitationIds
      BY <2>1 DEF ForInvitee, AcceptRow
    <3> QED BY <3>1, <1>r DEF Rows
  <2> HIDE DEF row
  <2> QED BY <2>2, <2>3, <2>4, <2>5
<1>9. ASSUME NEW q \in Requests, DeclineInvitation(q) PROVE SharingInv'
  <2>0. request[q].id \in InvitationIds
    BY <1>9 DEF DeclineInvitation, RequestAt, SharingInv, Answers
  <2>1. Rows' /\ RowsKept
    BY <1>9, <1>r, <2>0 DEF DeclineInvitation, LeaveRequest, Rows, RowsKept, InvitationRow, Standing
  <2> QED BY <1>9, <1>r, <2>1, RequestsLeave DEF DeclineInvitation, LeaveRequest, Rows
<1>10. ASSUME NEW q \in Requests, CancelInvitation(q) PROVE SharingInv'
  <2>0. request[q].id \in InvitationIds
    BY <1>10 DEF CancelInvitation, RequestAt, SharingInv, Answers
  <2>1. Rows' /\ RowsKept
    BY <1>10, <1>r, <2>0 DEF CancelInvitation, LeaveRequest, Rows, RowsKept, InvitationRow
  <2> QED BY <1>10, <1>r, <2>1, RequestsLeave DEF CancelInvitation, LeaveRequest, Rows
<1>11. ASSUME NEW q \in Requests, WriteVisibility(q) \/ RequestFails(q) PROVE SharingInv'
  BY <1>11, <1>r, RequestsLeave DEF WriteVisibility, RequestFails, LeaveRequest, Rows, RowsKept
<1>12. ASSUME DropMovie PROVE SharingInv'
  BY <1>12, <1>r, RequestsLeave DEF DropMovie, Rows, RowsKept
<1>13. ASSUME UNCHANGED sharingVars PROVE SharingInv'
  BY <1>13, <1>r, RequestsLeave DEF sharingVars, Rows, RowsKept
<1> QED BY <1>1, <1>2, <1>3, <1>4, <1>5, <1>6, <1>7, <1>8, <1>9, <1>10, <1>11, <1>12, <1>13 DEF SharingNext

\* What GrantNeedsInvitation asks of a step.
Granted == \A t \in SharedTargets : \A p \in viewers'[t] \ viewers[t] :
  \E i \in InvitationIds :
    /\ Standing(i)
    /\ invitation[i].target = t /\ invitation[i].invitee = AccountOf[p]
    /\ invitation'[i].status = "ACCEPTED" /\ invitation'[i].granted = p

LEMMA StepGrants == SharingInv /\ [SharingNext]_sharingVars => Granted
<1> SUFFICES ASSUME SharingInv, [SharingNext]_sharingVars PROVE Granted
  OBVIOUS
<1>1. Rows
  BY DEF SharingInv
<1>2. ASSUME NEW q \in Requests, Grant(q) PROVE Granted
  <2> DEFINE r == request[q]
  <2>1. ForInvitee(r)
    BY <1>2 DEF Grant, RequestAt, SharingInv, Accepts
  <2>2. CASE UNCHANGED viewers
    BY <2>2 DEF Granted
  <2>3. CASE /\ Standing(r.id)
             /\ viewers' = [viewers EXCEPT ![r.target] = @ \cup {r.profile}]
             /\ invitation' = [invitation EXCEPT ![r.id].status = "ACCEPTED", ![r.id].granted = r.profile]
    <3>1. invitation'[r.id].status = "ACCEPTED" /\ invitation'[r.id].granted = r.profile
      BY <2>3, <1>1, <2>1 DEF Rows, InvitationRow, ForInvitee, AcceptRow
    <3>2. \A t \in SharedTargets : \A p \in viewers'[t] \ viewers[t] : t = r.target /\ p = r.profile
      BY <2>3, <1>1, <2>1 DEF Rows, ForInvitee, AcceptRow
    <3> HIDE DEF r
    <3> QED BY <2>3, <3>1, <3>2, <2>1 DEF Granted, ForInvitee, AcceptRow
  <2> QED BY <1>2, <2>2, <2>3 DEF Grant
<1>3. ASSUME DropMovie PROVE Granted
  BY <1>3, <1>1 DEF DropMovie, Granted, Rows
<1>4. ASSUME UNCHANGED viewers PROVE Granted
  BY <1>4 DEF Granted
<1>5. SUFFICES ASSUME SharingNext, \A q \in Requests : ~Grant(q), ~DropMovie PROVE UNCHANGED viewers
  BY <1>2, <1>3, <1>4 DEF sharingVars
<1>6. ASSUME NEW q \in Requests, NEW u \in Profiles, NEW t \in SharedTargets, NEW a \in Invitees,
             Invite(q, u, t, a)
      PROVE  UNCHANGED viewers
  BY <1>6 DEF Invite
<1>7. ASSUME NEW q \in Requests, NEW u \in Profiles, NEW p \in Profiles, NEW i \in InvitationIds,
             NEW kind, ReadAnswer(q, u, i, p, kind) \/ ReadCancel(q, u, i)
      PROVE  UNCHANGED viewers
  BY <1>7 DEF ReadAnswer, ReadCancel
<1>8. ASSUME NEW q \in Requests, NEW t \in SharedTargets, NEW asked, ReadVisibility(q, t, asked)
      PROVE  UNCHANGED viewers
  BY <1>8 DEF ReadVisibility
<1>9. ASSUME NEW q \in Requests,
             \/ CreateInvitation(q) \/ CheckShareable(q) \/ DeclineInvitation(q) \/ CancelInvitation(q)
             \/ WriteVisibility(q) \/ RequestFails(q)
      PROVE  UNCHANGED viewers
  BY <1>9 DEF CreateInvitation, CheckShareable, DeclineInvitation, CancelInvitation, WriteVisibility,
              RequestFails
<1> QED BY <1>5, <1>6, <1>7, <1>8, <1>9 DEF SharingNext

\* Access is only given by accepting an invitation that stands, for its target
\* and to a profile of the account it invited (invitations.ts:276-304).
THEOREM GrantsAreInvited == SharingSpec => GrantNeedsInvitation
<1>1. SharingSpec => []SharingInv
  BY SharingInvInit, SharingInvStep, PTL DEF SharingSpec
<1>2. SharingInv /\ [SharingNext]_sharingVars => [Granted]_sharingVars
  BY StepGrants
<1> QED BY <1>1, <1>2, PTL DEF SharingSpec, GrantNeedsInvitation, Granted
=============================================================================
