------------------------------- MODULE Player -------------------------------
(***************************************************************************)
(* The video element of the player (components/Player/Shared/Video.tsx):   *)
(* it loads the URL of a movie into hls.js, swaps it when the token in the *)
(* URL is renewed or another movie is shown, recovers from fatal errors a  *)
(* few times, and records how far each movie was watched.                  *)
(*                                                                         *)
(* Positions are steps of time.  hls.js and the element are what their     *)
(* events show: any position may follow any other, played or sought, and   *)
(* hls.js itself sets the element back to 0 while it recovers.  Native     *)
(* playback, the volume, the rate and the audio tracks are not modelled.   *)
(***************************************************************************)
EXTENDS Naturals, Sequences, FiniteSetsExt

CONSTANTS
  Titles,       \* the movies that are shown
  Tokens,       \* the tokens their URLs are signed with
  EndOf,        \* bound: the length of a movie, in steps
  MaxRecovery,  \* MAX_RECOVERY_ATTEMPTS
  Progress,     \* RECOVERY_PROGRESS_SECONDS, in steps
  MaxTrail,     \* bound: the media recoveries of one source
  HistorySize,  \* MAX_WATCHED_HISTORY_ENTRIES
  MaxSaves,     \* bound: the entries written
  NoSource

ASSUME PlayerAssumption ==
  /\ EndOf \in Nat \ {0} /\ MaxRecovery \in Nat /\ Progress \in Nat \ {0} /\ MaxTrail \in Nat
  /\ HistorySize \in Nat \ {0} /\ MaxSaves \in Nat
  /\ NoSource \notin [title : Titles, token : Tokens]

VARIABLES
  source,   \* the URL that is loaded: a movie and a token
  engine,   \* the hls.js of that URL: its budgets, and whether it is destroyed
  position, \* currentTime
  tracked,  \* lastPlaybackTimeRef
  history,  \* the watched history: when and how far each movie was watched
  trail     \* history: the media recoveries of the source, where each was and
            \* the furthest that playback was seen before the next one

playerVars == <<source, engine, position, tracked, history, trail>>

Sources == [title : Titles, token : Tokens]
NoEngine == [on |-> FALSE, ready |-> FALSE, start |-> 0, network |-> 0, media |-> 0,
             recoveredAt |-> 0, error |-> FALSE]
Unwatched == [at |-> 0, watched |-> 0]
Saves == Cardinality({t \in Titles : history[t] # Unwatched})

PlayerInit ==
  /\ source = NoSource /\ engine = NoEngine /\ position = 0 /\ tracked = 0
  /\ history = [t \in Titles |-> Unwatched] /\ trail = <<>>

Playing == engine.on /\ engine.ready
Clock == Max({history[t].at : t \in Titles})

\* The newest entries are kept.
Newest(written) ==
  LET newer(t) == {s \in Titles : written[s].at > written[t].at}
  IN  [t \in Titles |-> IF Cardinality(newer(t)) < HistorySize THEN written[t] ELSE Unwatched]

\* saveWatchedProgress
Saved(title, p) == Newest([history EXCEPT ![title] = [at |-> Clock + 1, watched |-> p]])
SaveProgress(p) ==
  \/ Clock < MaxSaves /\ history[source.title].watched # p /\ history' = Saved(source.title, p)
  \/ UNCHANGED history

\* The source effect: the same movie under another token goes on where it was.
LoadSource(s) ==
  /\ s # source
  /\ LET same == s # NoSource /\ source # NoSource /\ s.title = source.title
         resumeAt == IF same THEN tracked ELSE 0
     IN  /\ engine' = IF s = NoSource THEN NoEngine
                      ELSE [NoEngine EXCEPT !.on = TRUE, !.start = resumeAt]
         /\ tracked' = IF s = NoSource THEN tracked ELSE resumeAt
  /\ source' = s /\ position' = 0 /\ trail' = <<>>
  /\ UNCHANGED history

\* The timeupdate of the element that has lost its source.
Emptied ==
  /\ ~Playing /\ tracked' = 0
  /\ UNCHANGED <<source, engine, position, history, trail>>

\* The manifest is there: playback starts at startPosition.
MetadataLoaded ==
  /\ engine.on /\ ~engine.ready
  /\ engine' = [engine EXCEPT !.ready = TRUE] /\ position' = engine.start
  /\ SaveProgress(engine.start)
  /\ UNCHANGED <<source, tracked, trail>>

FragLoaded ==
  /\ engine.on /\ engine' = [engine EXCEPT !.network = 0]
  /\ UNCHANGED <<source, position, tracked, history, trail>>

\* Mutant: any progress makes the last recovery a success.
MovedOnAtAll(p) == engine.media > 0 /\ p > engine.recoveredAt

\* Playback went well past where the last media recovery was.
MovedOn(p) == engine.media > 0 /\ p >= engine.recoveredAt + Progress

\* What the trail shows of a position that was reported.
SeenAt(p) ==
  IF trail = <<>> THEN trail
  ELSE [trail EXCEPT ![Len(trail)].reached = IF p > @ THEN p ELSE @]

\* timeupdate, after playback went on or the user has sought.
TimeUpdate(p) ==
  /\ Playing /\ p # position
  /\ position' = p /\ tracked' = p
  /\ engine' = IF MovedOn(p) THEN [engine EXCEPT !.media = 0] ELSE engine
  /\ trail' = SeenAt(p)
  /\ SaveProgress(p)
  /\ UNCHANGED source

\* The element stops: a pause, the end, the page is hidden.
StopPlaying ==
  /\ Playing /\ SaveProgress(position)
  /\ UNCHANGED <<source, engine, position, tracked, trail>>

\* Another tab has written its history, whatever it has seen of this one: the
\* storage event puts that in the place of what is here.
OtherHistory(title, p) ==
  /\ Clock < MaxSaves
  /\ history' \in {Saved(title, p),
                  Newest([t \in Titles |-> IF t = title THEN [at |-> Clock + 1, watched |-> p] ELSE Unwatched])}
  /\ UNCHANGED <<source, engine, position, tracked, trail>>

\* Mutant: the budget is not looked at.
RecoverNetworkAlways ==
  /\ engine.on
  /\ engine' = [engine EXCEPT !.network = @ + 1]
  /\ UNCHANGED <<source, position, tracked, history, trail>>

\* A fatal error that is recovered from, and one that is not: hls.js is destroyed
\* and the message shown, until another URL is loaded.
RecoverNetwork ==
  /\ engine.on /\ engine.network < MaxRecovery
  /\ engine' = [engine EXCEPT !.network = @ + 1]
  /\ UNCHANGED <<source, position, tracked, history, trail>>

RecoverMedia ==
  /\ engine.on /\ engine.media < MaxRecovery /\ Len(trail) < MaxTrail
  /\ engine' = [engine EXCEPT !.media = @ + 1, !.recoveredAt = position]
  /\ trail' = Append(trail, [at |-> position, reached |-> position])
  /\ UNCHANGED <<source, position, tracked, history>>

GiveUp ==
  /\ engine.on
  /\ engine.network >= MaxRecovery \/ engine.media >= MaxRecovery
  /\ engine' = [engine EXCEPT !.on = FALSE, !.error = TRUE]
  /\ position' = 0
  /\ UNCHANGED <<source, tracked, history, trail>>

PlayerNext ==
  \/ \E s \in Sources \cup {NoSource} : LoadSource(s)
  \/ MetadataLoaded \/ Emptied \/ FragLoaded \/ StopPlaying \/ RecoverNetwork \/ RecoverMedia \/ GiveUp
  \/ \E p \in 0..EndOf : TimeUpdate(p) \/ \E t \in Titles : OtherHistory(t, p)

PlayerSpec == PlayerInit /\ [][PlayerNext]_playerVars

-----------------------------------------------------------------------------
PlayerTypeOK ==
  /\ source \in Sources \cup {NoSource}
  /\ position \in 0..EndOf /\ tracked \in 0..EndOf
  /\ engine.network \in 0..MaxRecovery /\ engine.media \in 0..MaxRecovery
  /\ history \in [Titles -> [at : 0..MaxSaves, watched : 0..EndOf]]
  /\ Saves <= HistorySize

\* A stream that cannot be decoded is given up: of MAX_RECOVERY_ATTEMPTS + 1
\* media recoveries in a row, wherever playback was set in between and whatever
\* was fetched, one was followed by a position RECOVERY_PROGRESS_SECONDS beyond
\* it ("Recoveries only count as successful once playback advanced well past
\* it", Video.tsx:223-224).  A position counts whether it was played or sought.
GivesUp ==
  \A i \in DOMAIN trail :
    i + MaxRecovery \in DOMAIN trail =>
      \E k \in i..(i + MaxRecovery - 1) : trail[k].reached >= trail[k].at + Progress
=============================================================================
