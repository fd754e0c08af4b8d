----------------------------- MODULE UploadPage -----------------------------
(***************************************************************************)
(* The upload page of the dashboard (_app.dashboard.videos.new.tsx) on its *)
(* upload client (useUpload.ts): a file is picked, a movie is created for  *)
(* it, the file is PUT, the upload completed and the form saved; the user  *)
(* cancels, retries, edits and saves meanwhile, and may log in as somebody *)
(* else or choose another profile in a second tab.                         *)
(*                                                                         *)
(* A handler runs up to its next await; its requests are tasks, answered   *)
(* in any order.  Values that only a later render would see are taken as   *)
(* seen at once.  The backend is what its answers show: UploadFlow models  *)
(* it.  Bounds of the model: a title the user has emptied, which is never  *)
(* sent, is left out; a PATCH whose answer is lost has been applied by     *)
(* then, or never is.                                                      *)
(***************************************************************************)
EXTENDS Naturals, Sequences

CONSTANTS
  LastSession,  \* bound: the sessions follow each other, 1 to LastSession
  Selections,   \* the profiles that may be selected
  Ids,          \* bound: the movies that are created
  Forms,        \* bound: the contents the form is given
  Nothing

ASSUME UploadPageAssumption ==
  /\ LastSession \in Nat \ {0}
  /\ Nothing \notin Ids \cup Forms \cup Selections \cup Nat \cup [sess : 1..LastSession, as : Selections]

VARIABLES
  session, selected,  \* the user of the session, the profile selected
  page,     \* the state and the refs of the page and of useUpload
  known,    \* profileByMovieIdRef, sessionByMovieIdRef
  tasks,    \* the requests of uploads and deletions that are in flight
  chains,   \* saveQueueRef, and the queues it was reset from: the saves to be made
  server    \* the movies: who made them, what has become of them, what is saved

pageVars == <<session, selected, page, known, tasks, chains, server>>

\* Without a movie the form is blank.
FreshPage ==
  [phase |-> "idle", active |-> FALSE, file |-> FALSE, movie |-> Nothing,
   mine |-> Nothing, as |-> Nothing, uploaded |-> Nothing, saved |-> FALSE,
   saving |-> FALSE, savePending |-> FALSE, cancelling |-> FALSE, cancelFailed |-> FALSE,
   form |-> Nothing]
NothingKnown == [m \in Ids |-> Nothing]

PageInit ==
  /\ session = 1 /\ selected \in Selections
  /\ page = FreshPage
  /\ known = NothingKnown /\ tasks = {} /\ chains = <<<<>>>>
  /\ server = [m \in Ids |-> [by |-> Nothing, state |-> "none", meta |-> Nothing]]

Busy == page.phase \in {"creating", "uploading", "completing"}
LeaveGuard == Busy \/ page.savePending \/ page.cancelling

-----------------------------------------------------------------------------
\* What ends a task: the finally block of the operation it belongs to.
Ended(t) == page.active /\ ~t.current
Without(t) == tasks \ {t}
Own(t) == t.sess = session
NewTask(label, m, who, how) ==
  [at |-> label, movie |-> m, sess |-> session, as |-> who, current |-> TRUE, via |-> how]

\* ++uploadOperationRef: no task in flight is the current one any more.
Superseded(ts) == {[t EXCEPT !.current = FALSE] : t \in ts}
GoesOn(t, label) == Without(t) \cup {[t EXCEPT !.at = label]}

\* init, with the profile selected now.
InitUpload(how) ==
  tasks' = Superseded(tasks) \cup {NewTask("init", Nothing, selected, how)}

\* handleFileChange; the input is shown without a movie, and disabled when busy.
PickFile ==
  /\ page.movie = Nothing /\ ~Busy /\ ~page.active /\ ~page.savePending
  /\ page' = [page EXCEPT !.active = TRUE, !.file = TRUE, !.mine = Nothing, !.as = Nothing,
                          !.uploaded = Nothing, !.saved = FALSE, !.phase = "creating"]
  /\ known' = NothingKnown
  /\ InitUpload("pick")
  /\ UNCHANGED <<session, selected, chains, server>>

\* The movie is made, whether or not the answer is received.
Makes(t, m) ==
  /\ server[m].state = "none"
  /\ server' = [server EXCEPT ![m].by = <<t.sess, t.as>>, ![m].state = "uploading"]

\* init gives null: handleFileChange takes itself for the active upload.
InitLost(t) ==
  /\ t.at = "init"
  /\ UNCHANGED server \/ \E m \in Ids : Makes(t, m)
  /\ page' = [page EXCEPT !.phase = IF Own(t) THEN "error" ELSE @,
                          !.active = IF t.via = "pick" THEN FALSE ELSE Ended(t)]
  /\ tasks' = Without(t)
  /\ UNCHANGED <<session, selected, known, chains>>

\* The title of the form is that of the file.
InitAnswers(t) ==
  /\ t.at = "init"
  /\ \E m \in Ids, titled \in Forms :
       /\ Makes(t, m)
       /\ IF Own(t)
          THEN /\ known' = [known EXCEPT ![m] = [sess |-> t.sess, as |-> t.as]]
               /\ page' = [page EXCEPT !.movie = m, !.mine = session, !.as = t.as,
                                       !.form = titled, !.phase = "uploading"]
               /\ tasks' = Without(t) \cup {[t EXCEPT !.at = "put", !.movie = m]}
          ELSE /\ page' = [page EXCEPT !.active = IF t.via = "pick" THEN FALSE ELSE Ended(t)]
               /\ tasks' = Without(t)
               /\ UNCHANGED known
  /\ UNCHANGED <<session, selected, chains>>

\* The PUT to the bucket; then completeUpload.
PutLands(t) ==
  /\ t.at = "put"
  /\ page' = [page EXCEPT !.uploaded = t.movie, !.phase = "completing"]
  /\ tasks' = Without(t) \cup {[t EXCEPT !.at = "complete", !.as = known[t.movie].as]}
  /\ UNCHANGED <<session, selected, known, chains, server>>

\* A task that fails: the PUT, the new URL, the completion.
TaskFails(t) ==
  /\ t.at \in {"put", "url", "complete"}
  /\ \E refused \in BOOLEAN :
       /\ page' = [page EXCEPT !.phase = IF Own(t) THEN "error" ELSE @, !.active = Ended(t),
                     !.uploaded = IF t.at = "complete" /\ refused THEN Nothing ELSE @]
       /\ \/ UNCHANGED server
          \/ t.at = "complete" /\ ~refused /\ server' = [server EXCEPT ![t.movie].state = "queued"]
  /\ tasks' = Without(t)
  /\ UNCHANGED <<session, selected, known, chains>>

\* The encode is queued, and the form is saved.
CompleteAnswers(t) ==
  /\ t.at = "complete"
  /\ server' = [server EXCEPT ![t.movie].state = "queued"]
  /\ IF Own(t)
     THEN /\ page' = [page EXCEPT !.uploaded = Nothing, !.phase = "done", !.savePending = TRUE]
          /\ chains' = [chains EXCEPT ![Len(chains)] =
               Append(@, [by |-> "auto", sess |-> session, sent |-> Nothing])]
     ELSE page' = [page EXCEPT !.active = Ended(t)] /\ UNCHANGED chains
  /\ tasks' = Without(t)
  /\ UNCHANGED <<session, selected, known>>

UrlAnswers(t) ==
  /\ t.at = "url"
  /\ IF Own(t)
     THEN page' = [page EXCEPT !.phase = "uploading"] /\ tasks' = GoesOn(t, "put")
     ELSE page' = [page EXCEPT !.active = Ended(t)] /\ tasks' = Without(t)
  /\ UNCHANGED <<session, selected, known, chains, server>>

-----------------------------------------------------------------------------
\* handleRetryUpload, of an upload without a movie.
RetryInit ==
  /\ page.phase = "error" /\ page.file /\ page.movie = Nothing /\ ~page.active /\ ~page.savePending
  /\ page' = [page EXCEPT !.active = TRUE, !.phase = "creating"]
  /\ InitUpload("retry")
  /\ UNCHANGED <<session, selected, known, chains, server>>

\* Mutant: resume sends the profile that is selected now.
ResumeAsSelected ==
  /\ page.phase = "error" /\ page.file /\ page.movie # Nothing /\ page.mine = session
  /\ ~page.active /\ ~page.savePending
  /\ LET m == page.movie
     IN  /\ known' = [known EXCEPT ![m] = [sess |-> session, as |-> selected]]
         /\ page' = [page EXCEPT !.active = TRUE,
                       !.phase = IF page.uploaded = m THEN "completing" ELSE "creating"]
         /\ tasks' = Superseded(tasks) \cup
              {NewTask(IF page.uploaded = m THEN "complete" ELSE "url", m, selected, "retry")}
  /\ UNCHANGED <<session, selected, chains, server>>

\* resume: only the completion once the file has landed, else a new URL; with
\* the profile the movie was made with.
Resume ==
  /\ page.phase = "error" /\ page.file /\ page.movie # Nothing /\ page.mine = session
  /\ ~page.active /\ ~page.savePending
  /\ LET m == page.movie
         k == IF known[m] = Nothing THEN [sess |-> session, as |-> selected] ELSE known[m]
     IN  /\ k.sess = session
         /\ known' = [known EXCEPT ![m] = k]
         /\ page' = [page EXCEPT !.active = TRUE,
                       !.phase = IF page.uploaded = m THEN "completing" ELSE "creating"]
         /\ tasks' = Superseded(tasks) \cup
              {NewTask(IF page.uploaded = m THEN "complete" ELSE "url", m, k.as, "retry")}
  /\ UNCHANGED <<session, selected, chains, server>>

\* handleCancelUpload: the PUT is aborted, and the movie deleted.
CancelUpload(t) ==
  /\ page.phase = "uploading" /\ page.mine = session /\ t.at = "put"
  /\ page' = [page EXCEPT !.phase = "idle", !.cancelling = TRUE]
  /\ tasks' = Superseded(Without(t)) \cup {NewTask("delete", page.movie, page.as, "cancel")}
  /\ UNCHANGED <<session, selected, known, chains, server>>

RetryDelete ==
  /\ page.cancelFailed /\ ~page.cancelling /\ page.mine = session
  /\ page' = [page EXCEPT !.cancelling = TRUE]
  /\ tasks' = tasks \cup {NewTask("delete", page.movie, page.as, "cancel")}
  /\ UNCHANGED <<session, selected, known, chains, server>>

\* deleteCanceledMovie.  clearCanceledUpload forgets whose movie it was, and so
\* the finally block leaves cancelDeletePending as it is.
DeleteAnswers(t) ==
  /\ t.at = "delete"
  /\ server' = [server EXCEPT ![t.movie].state = "deleted"]
  /\ IF Own(t)
     THEN /\ page' = [page EXCEPT !.cancelFailed = FALSE, !.file = FALSE, !.movie = Nothing,
                        !.mine = Nothing, !.as = Nothing, !.phase = "idle",
                        !.uploaded = Nothing, !.form = Nothing, !.active = FALSE]
          /\ known' = NothingKnown
     ELSE UNCHANGED <<page, known>>
  /\ tasks' = Without(t)
  /\ UNCHANGED <<session, selected, chains>>

DeleteFails(t) ==
  /\ t.at = "delete"
  /\ UNCHANGED server \/ server' = [server EXCEPT ![t.movie].state = "deleted"]
  /\ page' = IF Own(t)
             THEN [page EXCEPT !.cancelFailed = TRUE, !.active = FALSE, !.cancelling = FALSE]
             ELSE page
  /\ tasks' = Without(t)
  /\ UNCHANGED <<session, selected, known, chains>>

\* handleStartNextUpload
StartNext ==
  /\ page.phase = "done" /\ page.saved /\ ~page.saving /\ ~page.savePending /\ ~page.active
  /\ page' = [page EXCEPT !.phase = "idle", !.file = FALSE, !.movie = Nothing,
                          !.uploaded = Nothing, !.form = Nothing, !.saved = FALSE]
  /\ known' = NothingKnown
  /\ UNCHANGED <<session, selected, tasks, chains, server>>

-----------------------------------------------------------------------------
\* The form: edits, and saves that run one after the other.

EditForm(v) ==
  /\ page.movie # Nothing
  /\ page' = [page EXCEPT !.form = v, !.saved = FALSE]
  /\ UNCHANGED <<session, selected, known, tasks, chains, server>>

\* Mutant: every save has a queue of its own.
SubmitUnqueued ==
  /\ page.movie # Nothing /\ page.mine = session /\ ~page.saving
  /\ page' = [page EXCEPT !.saving = TRUE]
  /\ chains' = <<<<[by |-> "manual", sess |-> session, sent |-> Nothing]>>>> \o chains
  /\ UNCHANGED <<session, selected, known, tasks, server>>

\* handleSubmit
Submit ==
  /\ page.movie # Nothing /\ page.mine = session /\ ~page.saving
  /\ page' = [page EXCEPT !.saving = TRUE]
  /\ chains' = [chains EXCEPT ![Len(chains)] =
       Append(@, [by |-> "manual", sess |-> session, sent |-> Nothing])]
  /\ UNCHANGED <<session, selected, known, tasks, server>>

\* The callers of saveMetadata, when it settles.
SaveSettled(s, p) ==
  IF session = s.sess /\ p.mine = s.sess
  THEN IF s.by = "auto" THEN [p EXCEPT !.savePending = FALSE, !.active = FALSE]
                        ELSE [p EXCEPT !.saving = FALSE]
  ELSE p

\* doSaveMetadata: without a movie there is nothing to save; a movie of another
\* session is an error.
SendSave(c) ==
  /\ IF page.movie = Nothing \/ page.mine # session
     THEN /\ chains' = [chains EXCEPT ![c] = Tail(@)]
          /\ page' = SaveSettled(Head(chains[c]), page)
     ELSE /\ chains' = [chains EXCEPT ![c][1].sent =
               [movie |-> page.movie, as |-> page.as, sess |-> session, form |-> page.form,
                landed |-> FALSE]]
          /\ UNCHANGED page
  /\ UNCHANGED <<session, selected, known, tasks, server>>

Sent(c) == chains[c] # <<>> /\ Head(chains[c]).sent # Nothing

\* The backend applies the PATCH to a movie it still has.
SaveLands(c) ==
  /\ Sent(c)
  /\ LET r == Head(chains[c]).sent
     IN  /\ ~r.landed /\ server[r.movie].state # "deleted"
         /\ server' = [server EXCEPT ![r.movie].meta = r.form]
  /\ chains' = [chains EXCEPT ![c][1].sent.landed = TRUE]
  /\ UNCHANGED <<session, selected, page, known, tasks>>

\* Its answer, whatever has become of the page by then: only the session is
\* looked at, and not which movie was saved.
SaveAnswers(c) ==
  /\ Sent(c)
  /\ LET s == Head(chains[c])
     IN  /\ s.sent.landed
         /\ page' = SaveSettled(s, IF s.sent.sess = session
                                   THEN [page EXCEPT !.saved = s.sent.form = page.form]
                                   ELSE page)
  /\ chains' = [chains EXCEPT ![c] = Tail(@)]
  /\ UNCHANGED <<session, selected, known, tasks, server>>

\* It is refused, or its answer is lost.
SaveFails(c) ==
  /\ Sent(c)
  /\ page' = SaveSettled(Head(chains[c]), page)
  /\ chains' = [chains EXCEPT ![c] = Tail(@)]
  /\ UNCHANGED <<session, selected, known, tasks, server>>

-----------------------------------------------------------------------------
\* The layout effects of a new session: everything is aborted and forgotten.
ChangeSession ==
  /\ session < LastSession
  /\ session' = session + 1
  /\ page' = FreshPage
  /\ known' = NothingKnown
  /\ tasks' = Superseded({t \in tasks : t.at # "put"})
  /\ chains' = Append(chains, <<>>)
  /\ UNCHANGED <<selected, server>>

SelectProfile(who) ==
  /\ selected' = who /\ who # selected
  /\ UNCHANGED <<session, page, known, tasks, chains, server>>

\* A save at the head of its queue is sent before any other event is handled.
Unsent == {c \in DOMAIN chains : chains[c] # <<>> /\ Head(chains[c]).sent = Nothing}

PageEvent ==
  \/ PickFile \/ RetryInit \/ Resume \/ RetryDelete \/ StartNext \/ Submit \/ ChangeSession
  \/ \E v \in Forms : EditForm(v)
  \/ \E who \in Selections : SelectProfile(who)
  \/ \E c \in DOMAIN chains : SaveLands(c) \/ SaveAnswers(c) \/ SaveFails(c)
  \/ \E t \in tasks :
       \/ InitLost(t) \/ InitAnswers(t) \/ PutLands(t) \/ TaskFails(t) \/ CompleteAnswers(t)
       \/ UrlAnswers(t) \/ CancelUpload(t) \/ DeleteAnswers(t) \/ DeleteFails(t)

PageNext == (\E c \in Unsent : SendSave(c)) \/ (Unsent = {} /\ PageEvent)

PageSpec == PageInit /\ [][PageNext]_pageVars

-----------------------------------------------------------------------------
PageTypeOK ==
  /\ session \in 1..LastSession /\ selected \in Selections
  /\ page.phase \in {"idle", "creating", "uploading", "completing", "done", "error"}
  /\ page.movie \in Ids \cup {Nothing} /\ page.form \in Forms \cup {Nothing}
  /\ \A t \in tasks : t.at \in {"init", "put", "url", "complete", "delete"}

\* The saves and uploads that belong to the session on the page.
Trailing == {c \in DOMAIN chains : \E i \in DOMAIN chains[c] :
               chains[c][i].by = "auto" /\ chains[c][i].sess = session}
Working == (\E t \in tasks : Own(t)) \/ Trailing # {}

\* No other movie than the one that is shown is deleted.
OnlyShownDeleted == \A m \in Ids : server[m].state = "deleted" => m = page.movie

\* "Saved" is shown only of what the backend has ("could otherwise land first
\* and let the stale request finish last", videos.new.tsx:137-139).  A new
\* session may find saves of the old one still queued, and make them its own;
\* and the late answer to a save of a cancelled movie is taken for one of the
\* next movie: the property claims neither.
SavedIsStored ==
  session = 1 /\ page.saved /\ page.movie # Nothing /\ OnlyShownDeleted =>
    server[page.movie].meta = page.form

\* Every request about a movie is sent in the session and under the profile the
\* movie was made with, whatever is selected by then.
OwnSessionOnly ==
  /\ \A t \in tasks : t.movie # Nothing => server[t.movie].by = <<t.sess, t.as>>
  /\ \A c \in DOMAIN chains : \A i \in DOMAIN chains[c] :
       LET s == chains[c][i].sent
       IN  s # Nothing => server[s.movie].by = <<s.sess, s.as>>

\* "Warn before leaving while the upload (or the trailing metadata save) is in
\* flight; once it lands, ... leaving is safe" (videos.new.tsx:79-81).
WarnsOnlyInFlight == LeaveGuard => Working
=============================================================================
