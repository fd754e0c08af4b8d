---------------------------- MODULE VideoEditor ----------------------------
(***************************************************************************)
(* The edit page of a video (_app.dashboard.videos.$id.edit.tsx): it loads *)
(* the movie, resumes an upload that was cut short, follows the encode on  *)
(* the event stream and saves the form, while the selection changes.       *)
(*                                                                         *)
(* The form is followed by where its contents come from.  A selection is   *)
(* the account and the profile; the session is part of the profile.        *)
(***************************************************************************)
EXTENDS Naturals, FiniteSets

CONSTANTS
  Viewpoints,  \* the selections: records of an account and a profile
  MaxAsked,    \* bound: the requests in flight
  NoMovie      \* nothing is loaded

ASSUME VideoEditorAssumption == MaxAsked \in Nat \ {0} /\ \A v \in Viewpoints : v # NoMovie

VARIABLES
  viewpoint,  \* the selection
  video,      \* the state and the refs of the page
  asked,      \* the requests in flight
  feed,       \* the event stream is open
  stage       \* the status of the first variant, in the database

videoVars == <<viewpoint, video, asked, feed, stage>>

Stages == {"UPLOADING", "PROCESSING", "READY", "FAILED"}
\* current: the generation that fetchGenerationRef has now.
Ask(kind, how) == [kind |-> kind, current |-> TRUE, how |-> how]
\* The requests of these kinds are not current any more.
Outdate(kinds, qs) == {IF q.kind \in kinds THEN [q EXCEPT !.current = FALSE] ELSE q : q \in qs}

FreshVideo == [loading |-> TRUE, movie |-> NoMovie, form |-> "blank",
               resuming |-> FALSE, submitting |-> FALSE]

VideoInit ==
  /\ viewpoint \in Viewpoints /\ stage \in Stages
  /\ video = FreshVideo /\ asked = {Ask("fetch", "load")} /\ feed = FALSE

\* The page is loaded and shows its form.
Shown == ~video.loading /\ video.movie # NoMovie
HasRoom == Cardinality(asked) < MaxAsked

\* The effect of the event stream runs again when the movie that is shown is
\* of another status: the old stream is disposed of, and with it its refetch.
FollowFeed(movie, qs) ==
  IF video.movie = movie THEN UNCHANGED feed /\ asked' = qs
  ELSE /\ feed' = (movie = "PROCESSING")
       /\ asked' = Outdate({"refetch"}, qs)

-----------------------------------------------------------------------------
\* Mutant: the refetch after a resume loads the form as well.
LoadedOverEdits(q) ==
  /\ q.kind = "fetch"
  /\ IF q.current
     THEN /\ video' = [video EXCEPT !.loading = FALSE, !.movie = stage, !.form = "loaded"]
          /\ FollowFeed(stage, asked \ {q})
     ELSE UNCHANGED <<video, feed>> /\ asked' = asked \ {q}
  /\ UNCHANGED <<viewpoint, stage>>

\* fetchMovie
MovieLoaded(q) ==
  /\ q.kind = "fetch"
  /\ IF q.current
     THEN /\ video' = [video EXCEPT !.loading = FALSE, !.movie = stage,
                          !.form = IF q.how = "preserveForm" THEN @ ELSE "loaded"]
          /\ FollowFeed(stage, asked \ {q})
     ELSE UNCHANGED <<video, feed>> /\ asked' = asked \ {q}
  /\ UNCHANGED <<viewpoint, stage>>

\* The movie that is shown stays, if there is one: loadError is not looked at.
MovieNotLoaded(q) ==
  /\ q.kind = "fetch"
  /\ video' = IF q.current THEN [video EXCEPT !.loading = FALSE] ELSE video
  /\ asked' = asked \ {q}
  /\ UNCHANGED <<viewpoint, feed, stage>>

EditVideo ==
  /\ Shown /\ video' = [video EXCEPT !.form = "edited"]
  /\ UNCHANGED <<viewpoint, asked, feed, stage>>

\* handleSubmit
SaveVideo ==
  /\ Shown /\ ~video.resuming /\ ~video.submitting /\ HasRoom
  /\ video' = [video EXCEPT !.submitting = TRUE]
  /\ asked' = asked \cup {Ask("save", "form")}
  /\ UNCHANGED <<viewpoint, feed, stage>>

\* The page is left, and opened again later; a resumed upload makes it ask first,
\* and then the page may stay as it is.
VideoSaved(q) ==
  /\ q.kind = "save"
  /\ \/ /\ q.current
        /\ video' = FreshVideo /\ feed' = FALSE
        /\ asked' = {Ask("fetch", "load")} \cup Outdate({"resume"}, {p \in asked : p.kind = "resume"})
     \/ /\ q.current => video.resuming
        /\ asked' = asked \ {q} /\ UNCHANGED <<video, feed>>
  /\ UNCHANGED <<viewpoint, stage>>

VideoNotSaved(q) ==
  /\ q.kind = "save"
  /\ video' = IF q.current THEN [video EXCEPT !.submitting = FALSE] ELSE video
  /\ asked' = asked \ {q}
  /\ UNCHANGED <<viewpoint, feed, stage>>

-----------------------------------------------------------------------------
\* handleResumeFileChange: an UPLOADING movie gets its file after all.
ResumeVideo ==
  /\ Shown /\ video.movie = "UPLOADING" /\ ~video.resuming /\ HasRoom
  /\ \A q \in asked : q.how # "preserveForm"
  /\ video' = [video EXCEPT !.resuming = TRUE]
  /\ asked' = asked \cup {Ask("resume", "file")}
  /\ UNCHANGED <<viewpoint, feed, stage>>

\* The upload goes on whatever is selected by then, and so does the refetch,
\* whose answer is taken before that of the selection's own fetch.
VideoResumed(q) ==
  /\ q.kind = "resume"
  /\ stage' = IF stage = "UPLOADING" THEN "PROCESSING" ELSE stage
  /\ IF q.current
     THEN /\ video' = [video EXCEPT !.resuming = FALSE]
          /\ asked' = Outdate({"fetch"}, asked \ {q})
                        \cup {Ask("fetch", "preserveForm")}
     ELSE UNCHANGED video /\ asked' = asked \ {q}
  /\ UNCHANGED <<viewpoint, feed>>

ResumeFails(q) ==
  /\ q.kind = "resume"
  /\ video' = IF q.current THEN [video EXCEPT !.resuming = FALSE] ELSE video
  /\ asked' = asked \ {q}
  /\ UNCHANGED <<viewpoint, feed, stage>>

\* The worker: the encode ends.
EncodeOver ==
  /\ stage = "PROCESSING" /\ stage' \in {"READY", "FAILED"}
  /\ UNCHANGED <<viewpoint, video, asked, feed>>

\* The stream reports the end of the encode, for a completed one possibly before
\* the callback has made the movie READY; the movie is fetched once more.
FeedReportsEnd ==
  /\ feed /\ HasRoom /\ feed' = FALSE
  /\ asked' = asked \cup {Ask("refetch", "headers")}
  /\ UNCHANGED <<viewpoint, video, stage>>

\* "end", or an error of the response.
FeedCloses ==
  /\ feed /\ feed' = FALSE
  /\ UNCHANGED <<viewpoint, video, asked, stage>>

\* disposed is looked at before the body is read, and not after.
RefetchAnswered(q) ==
  /\ q.kind = "refetch" /\ q.how = "headers"
  /\ asked' = IF q.current THEN (asked \ {q}) \cup {[q EXCEPT !.how = stage]} ELSE asked \ {q}
  /\ UNCHANGED <<viewpoint, video, feed, stage>>

RefetchRead(q) ==
  /\ q.kind = "refetch" /\ q.how \in Stages
  /\ video' = [video EXCEPT !.movie = q.how]
  /\ FollowFeed(q.how, asked \ {q})
  /\ UNCHANGED <<viewpoint, stage>>

RefetchFails(q) ==
  /\ q.kind = "refetch" /\ asked' = asked \ {q}
  /\ UNCHANGED <<viewpoint, video, feed, stage>>

\* The effects of a new selection: fetchMovie is another one when the profile is.
SelectViewpoint(v) ==
  /\ v # viewpoint /\ HasRoom
  /\ viewpoint' = v
  /\ video' = [video EXCEPT !.loading = TRUE, !.movie = NoMovie, !.submitting = FALSE]
  /\ feed' = FALSE
  /\ asked' = Outdate({"fetch", "save", "refetch"}, asked) \cup
       IF v.profile = viewpoint.profile THEN {} ELSE {Ask("fetch", "load")}
  /\ UNCHANGED stage

VideoNext ==
  \/ \E q \in asked :
       \/ MovieLoaded(q) \/ MovieNotLoaded(q) \/ VideoSaved(q) \/ VideoNotSaved(q)
       \/ VideoResumed(q) \/ ResumeFails(q) \/ RefetchAnswered(q) \/ RefetchRead(q) \/ RefetchFails(q)
  \/ EditVideo \/ SaveVideo \/ ResumeVideo \/ EncodeOver \/ FeedReportsEnd \/ FeedCloses
  \/ \E v \in Viewpoints : SelectViewpoint(v)

VideoSpec == VideoInit /\ [][VideoNext]_videoVars

-----------------------------------------------------------------------------
VideoTypeOK ==
  /\ viewpoint \in Viewpoints /\ stage \in Stages /\ feed \in BOOLEAN
  /\ video.movie \in Stages \cup {NoMovie} /\ video.form \in {"blank", "loaded", "edited"}
  /\ Cardinality(asked) <= MaxAsked

\* What the user has typed is not replaced by what a refetch brings, be it the one
\* after a resumed upload or the one after an encode ("without overwriting edits
\* made during resume", videos.$id.edit.tsx:159); only a page that was reset for
\* another selection, or left, loads its form again.
EditsKept == [][video.form = "edited" /\ video'.form # "edited" => video.loading \/ video'.loading]_videoVars
=============================================================================
