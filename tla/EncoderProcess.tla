--------------------------- MODULE EncoderProcess ---------------------------
(***************************************************************************)
(* The child processes of one encode (encoder.ts): ffprobe reads the       *)
(* source, ffmpeg encodes it, ffprobe reads the output, and ffmpeg makes   *)
(* a thumbnail.  Each is ended by itself, by its timeout or by the job's   *)
(* abort signal, with SIGTERM first and SIGKILL after a grace period.      *)
(*                                                                         *)
(* A child exits some time before its pipes close, and only the close (or  *)
(* the error of a failed spawn) is answered.  EncodeWorker takes the       *)
(* result as an input.                                                     *)
(***************************************************************************)
EXTENDS Naturals

Phases == {"idle", "probe", "encode", "probeOutput", "ended", "thumbnail", "over"}
Failures == {"transient", "permanent", "timeout", "unknown"}

VARIABLES
  phase,    \* which child is awaited
  process,    \* none, running, or how it has exited: well, badly, on bad media
  term,     \* whether it was sent SIGTERM
  kill,     \* the timer of SIGKILL: off, armed, or fired
  timer,    \* whether the timeout of the phase is pending
  timedOut, \* whether it has struck
  aborted,  \* the job's abort signal
  result,   \* of encodeVideo: none, success, or the kind of failure
  report,   \* whether a progress callback is in flight
  cut       \* history: ffmpeg was told to stop before it had written its file

encoderVars == <<phase, process, term, kill, timer, timedOut, aborted, result, report, cut>>
processVars == <<process, term, kill>>

EncoderInit ==
  /\ phase = "idle" /\ process = "none" /\ term = FALSE /\ kill = "off" /\ timer = FALSE
  /\ timedOut = FALSE /\ aborted = FALSE /\ result = "none" /\ report = FALSE
  /\ cut = FALSE

-----------------------------------------------------------------------------
\* spawn, with the phase's timeout; a child that starts under an abort signal
\* is terminated at once.
Spawn(p) ==
  /\ phase' = p /\ process' = "running" /\ timer' = TRUE /\ timedOut' = FALSE
  /\ term' = aborted /\ kill' = IF aborted THEN "armed" ELSE "off"

\* finish: timers and listener are cleared, the promise settles.
Settle(p, outcome) ==
  /\ phase' = p /\ process' = "none" /\ term' = FALSE /\ kill' = "off"
  /\ timer' = FALSE /\ timedOut' = FALSE
  /\ result' = IF p = "ended" THEN outcome ELSE result

\* encodeVideo
EncodeVideo ==
  /\ phase = "idle"
  /\ IF aborted
     THEN Settle("ended", "timeout")
     ELSE Spawn("probe") /\ UNCHANGED result
  /\ UNCHANGED <<aborted, report, cut>>

\* Mutant: SIGTERM, and no more.
TerminatePolitely ==
  IF process = "running"
  THEN /\ term' = TRUE /\ cut' = (cut \/ phase = "encode")
       /\ UNCHANGED <<process, kill>>
  ELSE UNCHANGED <<processVars, cut>>

\* terminate and onAbort: nothing is left to do once the child has exited.
Terminate ==
  IF process = "running"
  THEN /\ term' = TRUE /\ cut' = (cut \/ phase = "encode")
       /\ kill' = (IF kill = "fired" THEN kill ELSE "armed")
       /\ UNCHANGED process
  ELSE UNCHANGED <<processVars, cut>>

\* ffprobe is answered with the last of the errors forced on it.
Abort ==
  /\ ~aborted
  /\ aborted' = TRUE
  /\ timedOut' = (timedOut /\ phase \notin {"probe", "probeOutput"})
  /\ Terminate
  /\ UNCHANGED <<phase, timer, result, report>>

Timeout ==
  /\ timer
  /\ timer' = FALSE /\ timedOut' = TRUE
  /\ Terminate
  /\ UNCHANGED <<phase, aborted, result, report>>

\* The grace period is over.
KillTimer ==
  /\ kill = "armed" /\ process = "running"
  /\ kill' = "fired"
  /\ UNCHANGED <<phase, process, term, timer, timedOut, aborted, result, report, cut>>

\* ffprobe's output exceeds 1 MiB: an error of its own, answered at the close.
OutputTooLong ==
  /\ phase \in {"probe", "probeOutput"} /\ process = "running"
  /\ timedOut' = FALSE
  /\ Terminate
  /\ UNCHANGED <<phase, timer, aborted, result, report>>

-----------------------------------------------------------------------------
\* A child may end well although it was sent SIGTERM; SIGKILL leaves it no choice.
ChildExits ==
  /\ process = "running"
  /\ process' \in IF kill = "fired" THEN {"badly"} ELSE {"well", "badly", "onMedia"}
  /\ UNCHANGED <<phase, term, kill, timer, timedOut, aborted, result, report, cut>>

SpawnFails ==
  /\ process = "running"
  /\ CASE phase = "probe"       -> Settle("ended", "transient")
       [] phase = "encode"      -> Settle("ended", "unknown")
       [] phase = "probeOutput" -> Settle("ended", "unknown")
       [] phase = "thumbnail"   -> Settle("over", "none")
  /\ UNCHANGED <<aborted, report, cut>>

Exited == process \in {"well", "badly", "onMedia"}

\* The first ffprobe: unsupported media is permanent, a timeout a timeout, and
\* everything else, an abort included, transient.
ProbeCloses ==
  /\ phase = "probe" /\ Exited
  /\ CASE timedOut                 -> Settle("ended", "timeout")
       [] ~timedOut /\ (aborted \/ term) -> Settle("ended", "transient")
       [] OTHER -> \/ process = "well" /\ Spawn("encode") /\ UNCHANGED result
                   \/ process # "badly" /\ Settle("ended", "permanent")
                   \/ process # "onMedia" /\ Settle("ended", "transient")
  /\ UNCHANGED <<aborted, report, cut>>

\* Mutant: the exit code decides alone.
EncodeClosesByCode ==
  /\ phase = "encode" /\ Exited
  /\ IF process = "well"
     THEN Spawn("probeOutput") /\ UNCHANGED result
     ELSE Settle("ended", IF process = "onMedia" THEN "permanent" ELSE "transient")
  /\ UNCHANGED <<aborted, report, cut>>

\* ffmpeg: success wants code 0 and an output file, and then a second ffprobe.
EncodeCloses ==
  /\ phase = "encode" /\ Exited
  /\ CASE timedOut             -> Settle("ended", "timeout")
       [] ~timedOut /\ aborted -> Settle("ended", "transient")
       [] OTHER -> \/ process = "well" /\ Spawn("probeOutput") /\ UNCHANGED result
                   \/ process # "onMedia" /\ Settle("ended", "transient")
                   \/ process = "onMedia" /\ Settle("ended", "permanent")
  /\ UNCHANGED <<aborted, report, cut>>

\* getDuration
OutputProbeCloses ==
  /\ phase = "probeOutput" /\ Exited
  /\ Settle("ended", IF process = "well" /\ ~term /\ ~aborted /\ ~timedOut THEN "success" ELSE "unknown")
  /\ UNCHANGED <<aborted, report, cut>>

\* generateThumbnail, of an encoded file; the caller makes do without one.
GenerateThumbnail ==
  /\ phase = "ended" /\ result = "success"
  /\ IF aborted THEN Settle("over", "none") ELSE Spawn("thumbnail") /\ UNCHANGED result
  /\ UNCHANGED <<aborted, report, cut>>

ThumbnailCloses ==
  /\ phase = "thumbnail" /\ Exited
  /\ Settle("over", "none")
  /\ UNCHANGED <<aborted, report, cut>>

\* A progress line calls back, unless a callback is still running.
ReportProgress ==
  /\ phase = "encode" /\ process = "running" /\ ~report
  /\ report' = TRUE
  /\ UNCHANGED <<phase, processVars, timer, timedOut, aborted, result, cut>>

Reported == report /\ report' = FALSE /\ UNCHANGED <<phase, processVars, timer, timedOut, aborted, result, cut>>

ChildCloses == ProbeCloses \/ EncodeCloses \/ OutputProbeCloses \/ ThumbnailCloses

EncoderNext ==
  \/ EncodeVideo \/ Abort \/ Timeout \/ KillTimer \/ ChildCloses \/ OutputTooLong \/ ChildExits \/ SpawnFails
  \/ GenerateThumbnail \/ ReportProgress \/ Reported

EncoderSpec == EncoderInit /\ [][EncoderNext]_encoderVars

\* Timers strike and closed pipes are noticed; a child is only sure to exit
\* once it was sent SIGKILL.
EncoderFairness ==
  /\ WF_encoderVars(KillTimer) /\ SF_encoderVars(Timeout)
  /\ WF_encoderVars(kill = "fired" /\ ChildExits)
  /\ WF_encoderVars(ChildCloses)

-----------------------------------------------------------------------------
EncoderTypeOK ==
  /\ phase \in Phases /\ process \in {"none", "running", "well", "badly", "onMedia"}
  /\ term \in BOOLEAN /\ kill \in {"off", "armed", "fired"}
  /\ timer \in BOOLEAN /\ timedOut \in BOOLEAN /\ aborted \in BOOLEAN /\ report \in BOOLEAN /\ cut \in BOOLEAN
  /\ result \in {"none", "success"} \cup Failures

\* An encode that was cut short is not a success, even when ffmpeg ends with
\* code 0 on SIGTERM: a truncated file is never uploaded.  And when it has
\* settled, no child is left behind that still writes.
CutIsNoSuccess ==
  [][/\ result = "none" /\ result' = "success" => ~cut /\ ~aborted /\ ~term
     /\ result = "none" /\ result' # "none" => process' = "none"]_encoderVars

\* Every encode and every thumbnail ends, though the source may make ffmpeg
\* hang and SIGTERM may be ignored.
EncodeEnds ==
  phase \in {"probe", "encode", "probeOutput", "thumbnail"} ~> phase \in {"ended", "over"}
=============================================================================
