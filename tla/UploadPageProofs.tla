-------------------------- MODULE UploadPageProofs --------------------------
(***************************************************************************)
(* For any sessions, profiles, movies and forms: the upload page asks      *)
(* about a movie only in the session and under the profile it was made     *)
(* with, and while no other movie is deleted, shows "saved" only of what   *)
(* the backend has.                                                        *)
(*                                                                         *)
(* UploadInv is the invariant of the first: a session has one upload, of   *)
(* the movie on the page, or one deletion of it, and a movie that was made *)
(* stays made.  SavesInv adds, for the second, the queue of saves: one of  *)
(* each kind, one of them out, of the movie that is shown.                 *)
(***************************************************************************)
EXTENDS UploadPage, TLAPS

Sessions == 1..LastSession
Requests == {"init", "url", "put", "complete", "delete"}
PageRow ==
  [phase : {"idle", "creating", "uploading", "completing", "done", "error"},
   active : BOOLEAN, file : BOOLEAN, movie : Ids \cup {Nothing}, mine : Sessions \cup {Nothing},
   as : Selections \cup {Nothing}, uploaded : Ids \cup {Nothing}, saved : BOOLEAN,
   saving : BOOLEAN, savePending : BOOLEAN, cancelling : BOOLEAN, cancelFailed : BOOLEAN,
   form : Forms \cup {Nothing}]
TaskRow ==
  [at : Requests, movie : Ids \cup {Nothing}, sess : Sessions, as : Selections, current : BOOLEAN,
   via : {"pick", "retry", "cancel"}]
Origin == [sess : Sessions, as : Selections]
MovieRow ==
  [by : (Sessions \X Selections) \cup {Nothing},
   state : {"none", "uploading", "queued", "deleted"}, meta : Forms \cup {Nothing}]
PatchRow ==
  [movie : Ids, as : Selections, sess : Sessions, form : Forms \cup {Nothing}, landed : BOOLEAN]
SaveRow == [by : {"auto", "manual"}, sess : Sessions, sent : PatchRow \cup {Nothing}]

PageShape ==
  /\ session \in Sessions /\ selected \in Selections /\ page \in PageRow
  /\ known \in [Ids -> Origin \cup {Nothing}] /\ tasks \subseteq TaskRow
  /\ chains \in Seq(Seq(SaveRow)) /\ chains # <<>>
  /\ server \in [Ids -> MovieRow]

\* The movie m was made in session s under the profile a.
MadeIn(m, s, a) == m \in Ids /\ server[m].by = <<s, a>> /\ server[m].state # "none"

\* The movie on the page was made in this session, and the page knows how.
PageIsOwn ==
  page.movie # Nothing =>
    /\ page.mine = session /\ page.as \in Selections /\ MadeIn(page.movie, session, page.as)
    /\ known[page.movie] = [sess |-> session, as |-> page.as]

TasksAreOwn ==
  \A t \in tasks : /\ t.sess <= session
                   /\ t.at = "init" <=> t.movie = Nothing
                   /\ t.movie # Nothing => MadeIn(t.movie, t.sess, t.as)
                   /\ t.at = "put" => Own(t)

\* The session has one upload under way, which is that of the page.
Uploads(t) == Own(t) /\ t.at # "delete"
OneUpload ==
  /\ \A t \in tasks : Uploads(t) => Busy /\ t.movie = page.movie
  /\ \A t, u \in tasks : Uploads(t) /\ Uploads(u) => t = u

\* Or one deletion.
Deletes(t) == Own(t) /\ t.at = "delete"
OneDeletion ==
  /\ \A t \in tasks : Deletes(t) => page.phase = "idle" /\ t.movie = page.movie /\ page.cancelling
  /\ \A t, u \in tasks : Deletes(t) /\ Deletes(u) => t = u
  /\ page.cancelFailed => page.phase = "idle" /\ page.movie # Nothing

SaveIsOwn(x) == x.sent # Nothing => MadeIn(x.sent.movie, x.sent.sess, x.sent.as)
SavesAreOwn == \A c \in DOMAIN chains : \A i \in DOMAIN chains[c] : SaveIsOwn(chains[c][i])

TasksInv == TasksAreOwn /\ OneUpload /\ OneDeletion
UploadInv == PageShape /\ PageIsOwn /\ TasksInv /\ SavesAreOwn

-----------------------------------------------------------------------------
\* A movie that was made stays made.
MoviesStay == \A m, s, a : MadeIn(m, s, a) => MadeIn(m, s, a)'

LEMMA MovieMade ==
  ASSUME PageShape, NEW t \in tasks, NEW m \in Ids, Makes(t, m)
  PROVE  MoviesStay /\ MadeIn(m, t.sess, t.as)' /\ server' \in [Ids -> MovieRow]
         /\ \A k \in Ids : server[k].state # "none" => server'[k] = server[k]
BY DEF PageShape, Makes, MoviesStay, MadeIn, MovieRow, TaskRow

LEMMA MovieMoved ==
  ASSUME PageShape, NEW m \in Ids, NEW to \in {"queued", "deleted"},
         server' = [server EXCEPT ![m].state = to]
  PROVE  MoviesStay /\ server' \in [Ids -> MovieRow] /\ server'[m].state = to
         /\ \A k \in Ids : server'[k].meta = server[k].meta /\ (k # m => server'[k] = server[k])
BY DEF PageShape, MoviesStay, MadeIn, MovieRow

LEMMA MovieSaved ==
  ASSUME PageShape, NEW m \in Ids, NEW f \in Forms \cup {Nothing},
         server' = [server EXCEPT ![m].meta = f]
  PROVE  MoviesStay /\ server' \in [Ids -> MovieRow] /\ server'[m].meta = f
         /\ \A k \in Ids : server'[k].state = server[k].state /\ (k # m => server'[k] = server[k])
BY DEF PageShape, MoviesStay, MadeIn, MovieRow

-----------------------------------------------------------------------------
\* Tasks that remain, whether they are current or not.
Kin(t, u) == t.at = u.at /\ t.movie = u.movie /\ t.sess = u.sess /\ t.as = u.as
Remain(ts, old) ==
  /\ ts \subseteq TaskRow
  /\ \A t, u \in ts : \E v, w \in old : Kin(t, v) /\ Kin(u, w) /\ (v = w => t = u)

LEMMA SomeRemain == ASSUME PageShape, NEW old, old \subseteq tasks PROVE Remain(old, old)
BY DEF PageShape, Remain, Kin

LEMMA OldRemain == ASSUME PageShape, NEW old, old \subseteq tasks PROVE Remain(Superseded(old), old)
<1> DEFINE aged(t) == [t EXCEPT !.current = FALSE]
<1>1. \A t \in TaskRow : aged(t) \in TaskRow /\ Kin(aged(t), t)
  BY DEF TaskRow, Kin
<1>2. Superseded(old) = {aged(t) : t \in old}
  BY DEF Superseded
<1>3. old \subseteq TaskRow
  BY DEF PageShape
<1> HIDE DEF aged
<1> QED BY <1>1, <1>2, <1>3 DEF Remain

\* A task that joins those that remain.
Joins(n, old) ==
  /\ n.sess <= session
  /\ n.at = "init" <=> n.movie = Nothing
  /\ n.movie # Nothing => MadeIn(n.movie, n.sess, n.as)'
  /\ n.at = "put" => Own(n)
  /\ Uploads(n) => Busy' /\ n.movie = page'.movie /\ \A u \in old : ~Uploads(u)
  /\ Deletes(n) => /\ page'.phase = "idle" /\ n.movie = page'.movie /\ page'.cancelling
                   /\ \A u \in old : ~Deletes(u)

\* Of the old ones ts remain, and at most one joins them.
GoTo(old, ts, new) ==
  /\ old \subseteq tasks /\ Remain(ts, old) /\ tasks' = ts \cup new
  /\ \A n, k \in new : n = k
  /\ \A n \in new : Joins(n, old)

LEMMA TasksGoOn ==
  ASSUME PageShape, TasksInv, MoviesStay, session' = session, NEW old, NEW ts, NEW new, GoTo(old, ts, new),
         (\E u \in old : Uploads(u)) => Busy' /\ page'.movie = page.movie,
         (\E u \in old : Deletes(u)) =>
           page'.phase = "idle" /\ page'.movie = page.movie /\ page'.cancelling,
         page'.cancelFailed => page'.phase = "idle" /\ page'.movie # Nothing
  PROVE  TasksInv'
<1> USE DEF GoTo
<1>1. \A t \in ts : \E u \in old : Kin(t, u)
  BY DEF Remain
<1>2. TasksAreOwn'
  <2>1. \A t \in tasks' : /\ t.sess <= session
                          /\ t.at = "init" <=> t.movie = Nothing
                          /\ t.movie # Nothing => MadeIn(t.movie, t.sess, t.as)'
                          /\ t.at = "put" => Own(t)
    BY <1>1 DEF TasksInv, TasksAreOwn, Kin, Own, Joins, MoviesStay
  <2> QED BY <2>1 DEF TasksAreOwn, Own
<1>3. OneUpload'
  <2>1. \A t \in tasks' : Uploads(t) => Busy' /\ t.movie = page'.movie
    BY <1>1 DEF TasksInv, OneUpload, Kin, Uploads, Own, Joins
  <2>2. \A t, u \in tasks' : Uploads(t) /\ Uploads(u) => t = u
    <3>1. \A t, u \in ts : Uploads(t) /\ Uploads(u) => t = u
      BY DEF TasksInv, OneUpload, Kin, Uploads, Own, Remain
    <3>2. \A t \in ts, n \in new : ~(Uploads(t) /\ Uploads(n))
      BY <1>1 DEF Kin, Uploads, Own, Joins
    <3> QED BY <3>1, <3>2
  <2> QED BY <2>1, <2>2 DEF OneUpload, Uploads, Own
<1>4. OneDeletion'
  <2>1. \A t \in tasks' : Deletes(t) => page'.phase = "idle" /\ t.movie = page'.movie /\ page'.cancelling
    BY <1>1 DEF TasksInv, OneDeletion, Kin, Deletes, Own, Joins
  <2>2. \A t, u \in tasks' : Deletes(t) /\ Deletes(u) => t = u
    <3>1. \A t, u \in ts : Deletes(t) /\ Deletes(u) => t = u
      BY DEF TasksInv, OneDeletion, Kin, Deletes, Own, Remain
    <3>2. \A t \in ts, n \in new : ~(Deletes(t) /\ Deletes(n))
      BY <1>1 DEF Kin, Deletes, Own, Joins
    <3> QED BY <3>1, <3>2
  <2> QED BY <2>1, <2>2 DEF OneDeletion, Deletes, Own
<1> QED BY <1>2, <1>3, <1>4 DEF TasksInv

LEMMA NoneJoin ==
  ASSUME PageShape, TasksInv, MoviesStay, session' = session, NEW old,
         old \subseteq tasks, tasks' = old \/ tasks' = Superseded(old),
         (\E u \in old : Uploads(u)) => Busy' /\ page'.movie = page.movie,
         (\E u \in old : Deletes(u)) =>
           page'.phase = "idle" /\ page'.movie = page.movie /\ page'.cancelling,
         page'.cancelFailed => page'.phase = "idle" /\ page'.movie # Nothing
  PROVE  TasksInv'
<1>1. Remain(tasks', old)
  BY SomeRemain, OldRemain
<1>2. PICK ts : ts = tasks'
  OBVIOUS
<1>3. GoTo(old, ts, {})
  BY <1>1, <1>2 DEF GoTo
<1> QED BY <1>3, TasksGoOn

LEMMA OneJoins ==
  ASSUME PageShape, TasksInv, MoviesStay, session' = session, NEW old, NEW n,
         old \subseteq tasks, tasks' = old \cup {n} \/ tasks' = Superseded(old) \cup {n},
         Joins(n, old),
         (\E u \in old : Uploads(u)) => Busy' /\ page'.movie = page.movie,
         (\E u \in old : Deletes(u)) =>
           page'.phase = "idle" /\ page'.movie = page.movie /\ page'.cancelling,
         page'.cancelFailed => page'.phase = "idle" /\ page'.movie # Nothing
  PROVE  TasksInv'
<1>1. Remain(old, old) /\ Remain(Superseded(old), old)
  BY SomeRemain, OldRemain
<1>2. PICK ts : Remain(ts, old) /\ tasks' = ts \cup {n}
  BY <1>1
<1>3. GoTo(old, ts, {n})
  BY <1>2 DEF GoTo
<1> QED BY <1>3, TasksGoOn

\* The movie of the page, if it has one, is the one it had.
LEMMA PageGoesOn ==
  ASSUME PageShape, PageIsOwn, MoviesStay, session' = session,
         \/ page'.movie = Nothing
         \/ /\ page'.movie = page.movie /\ page'.mine = page.mine /\ page'.as = page.as
            /\ known' = known
  PROVE  PageIsOwn'
BY DEF PageIsOwn, MoviesStay

\* The saves stay as they are.
LEMMA SavesGoOn == ASSUME SavesAreOwn, MoviesStay, chains' = chains PROVE SavesAreOwn'
<1>1. \A x : SaveIsOwn(x) => SaveIsOwn(x)'
  BY DEF SaveIsOwn, MoviesStay
<1>2. PICK cs : cs = chains
  OBVIOUS
<1>3. \A c \in DOMAIN cs : \A i \in DOMAIN cs[c] : SaveIsOwn(cs[c][i])'
  BY <1>1, <1>2 DEF SavesAreOwn
<1>4. chains' = cs
  BY <1>2
<1> QED BY <1>3, <1>4 DEF SavesAreOwn, SaveIsOwn

LEMMA SameServer == server' = server => MoviesStay
BY DEF MoviesStay, MadeIn

-----------------------------------------------------------------------------
LEMMA PickSteps == ASSUME UploadInv, PickFile \/ RetryInit PROVE UploadInv'
<1> USE DEF UploadInv
<1>1. page \in PageRow /\ selected \in Selections /\ session \in Sessions /\ tasks \subseteq TaskRow
  BY DEF PageShape
<1>2. /\ page' \in PageRow /\ page.movie = Nothing /\ page'.movie = Nothing /\ page'.phase = "creating"
      /\ ~Busy /\ page'.cancelFailed = page.cancelFailed
  BY <1>1 DEF PickFile, RetryInit, PageRow, Busy
<1>3. PICK how \in {"pick", "retry"} : InitUpload(how)
  BY DEF PickFile, RetryInit
<1> PICK n : n = NewTask("init", Nothing, selected, how)
  OBVIOUS
<1>4. /\ n \in TaskRow /\ n.at = "init" /\ n.movie = Nothing /\ n.sess = session
      /\ tasks' = Superseded(tasks) \cup {n}
  BY <1>1, <1>3 DEF NewTask, TaskRow, Requests, InitUpload
<1>5. /\ UNCHANGED <<session, selected, chains, server>>
      /\ known' = known \/ known' = NothingKnown
  BY DEF PickFile, RetryInit
<1>6. MoviesStay
  BY <1>5, SameServer
<1>7. \A t \in tasks : ~Uploads(t) /\ ~Deletes(t)
  BY <1>2 DEF TasksInv, TasksAreOwn, OneUpload, OneDeletion, Deletes
<1>8. ~page.cancelFailed
  BY <1>2 DEF TasksInv, OneDeletion
<1>9. Remain(Superseded(tasks), tasks)
  BY OldRemain
<1>10. Joins(n, tasks)
  BY <1>1, <1>2, <1>4, <1>7 DEF Joins, Uploads, Deletes, Own, Busy, Sessions
<1>11. TasksInv'
  BY <1>2, <1>4, <1>5, <1>6, <1>7, <1>8, <1>10, OneJoins
<1>12. PageShape'
  BY <1>2, <1>4, <1>5, <1>9 DEF PageShape, Remain, NothingKnown
<1>13. PageIsOwn'
  BY <1>2, <1>5, <1>6, PageGoesOn
<1>14. SavesAreOwn'
  BY <1>5, <1>6, SavesGoOn
<1> QED BY <1>11, <1>12, <1>13, <1>14

\* A task that is over.
LEMMA TaskOver ==
  ASSUME UploadInv, NEW t \in tasks, tasks' = tasks \ {t}, session' = session, MoviesStay, page' \in PageRow,
         page'.movie = page.movie,
         page'.phase = page.phase \/ (Uploads(t) /\ page'.phase \in {"error", "done"}),
         page'.cancelling = page.cancelling \/ Deletes(t),
         page'.cancelFailed = page.cancelFailed \/ Deletes(t)
  PROVE  TasksInv'
<1> USE DEF UploadInv
<1> DEFINE old == tasks \ {t}
<1>1. Remain(old, old) /\ old \subseteq tasks
  BY SomeRemain
<1>2. Uploads(t) => \A u \in old : ~Uploads(u)
  BY DEF TasksInv, OneUpload
<1>3. Deletes(t) => \A u \in old : ~Deletes(u)
  BY DEF TasksInv, OneDeletion
<1>4. Uploads(t) => page.phase # "idle"
  BY DEF TasksInv, OneUpload, Busy
<1>5. Deletes(t) => page.phase = "idle" /\ page.movie # Nothing
  BY DEF TasksInv, OneDeletion, TasksAreOwn, Deletes
<1>6. (\E u \in old : Uploads(u)) => Busy' /\ page'.movie = page.movie
  BY <1>2 DEF TasksInv, OneUpload, Busy
<1>7. \A u \in old : Deletes(u) => page.phase = "idle" /\ page.cancelling
  BY DEF TasksInv, OneDeletion
<1>8. (\E u \in old : Deletes(u)) => page'.phase = "idle" /\ page'.movie = page.movie /\ page'.cancelling
  BY <1>3, <1>4, <1>7
<1>9. page'.cancelFailed => page'.phase = "idle" /\ page'.movie # Nothing
  <2>1. CASE Deletes(t)
    <3>1. ~Uploads(t)
      BY <2>1 DEF Deletes, Uploads
    <3> QED BY <1>5, <2>1, <3>1
  <2>2. CASE ~Deletes(t)
    BY <1>4, <2>2 DEF TasksInv, OneDeletion
  <2> QED BY <2>1, <2>2
<1> HIDE DEF old
<1>10. tasks' = old
  BY DEF old
<1> QED BY <1>1, <1>6, <1>8, <1>9, <1>10, NoneJoin

LEMMA InitLostStep == ASSUME UploadInv, NEW t \in tasks, InitLost(t) PROVE UploadInv'
<1> USE DEF UploadInv
<1>1. page \in PageRow /\ t \in TaskRow /\ tasks \subseteq TaskRow
  BY DEF PageShape
<1>2. /\ page' \in PageRow /\ page'.movie = page.movie /\ page'.mine = page.mine /\ page'.as = page.as
      /\ page'.cancelling = page.cancelling /\ page'.cancelFailed = page.cancelFailed
      /\ page'.phase = IF Own(t) THEN "error" ELSE page.phase
  <2>1. PICK a \in BOOLEAN :
          page' = [page EXCEPT !.phase = IF Own(t) THEN "error" ELSE @, !.active = a]
    <3>1. CASE t.via = "pick"
      BY <3>1 DEF InitLost
    <3>2. CASE t.via # "pick"
      BY <3>2 DEF InitLost, Ended
    <3> QED BY <3>1, <3>2
  <2>2. CASE Own(t)
    <3>1. page' = [page EXCEPT !.phase = "error", !.active = a]
      BY <2>1, <2>2
    <3> QED BY <1>1, <2>2, <3>1 DEF PageRow
  <2>3. CASE ~Own(t)
    <3>1. page' = [page EXCEPT !.phase = page.phase, !.active = a]
      BY <2>1, <2>3
    <3> QED BY <1>1, <2>3, <3>1 DEF PageRow
  <2> QED BY <2>2, <2>3
<1>3. /\ UNCHANGED <<session, selected, known, chains>> /\ tasks' = tasks \ {t} /\ t.at = "init"
  BY DEF InitLost, Without
<1>4. MoviesStay /\ server' \in [Ids -> MovieRow]
  BY SameServer, MovieMade DEF InitLost, PageShape
<1>5. TasksInv'
  BY <1>2, <1>3, <1>4, TaskOver DEF Uploads
<1>6. PageShape'
  BY <1>2, <1>3, <1>4 DEF PageShape
<1> QED BY <1>2, <1>3, <1>4, <1>5, <1>6, PageGoesOn, SavesGoOn

LEMMA TaskFailsStep == ASSUME UploadInv, NEW t \in tasks, TaskFails(t) PROVE UploadInv'
<1> USE DEF UploadInv
<1>1. page \in PageRow /\ t \in TaskRow /\ tasks \subseteq TaskRow
  BY DEF PageShape
<1>2. /\ page' \in PageRow /\ page'.movie = page.movie /\ page'.mine = page.mine /\ page'.as = page.as
      /\ page'.cancelling = page.cancelling /\ page'.cancelFailed = page.cancelFailed
      /\ page'.phase = IF Own(t) THEN "error" ELSE page.phase
  BY <1>1 DEF TaskFails, PageRow, Ended
<1>3. /\ UNCHANGED <<session, selected, known, chains>> /\ tasks' = tasks \ {t} /\ t.at # "delete"
      /\ t.at # "init"
  BY DEF TaskFails, Without
<1>4. t.movie \in Ids
  BY <1>1, <1>3 DEF TasksInv, TasksAreOwn, TaskRow
<1>5. server' = server \/ server' = [server EXCEPT ![t.movie].state = "queued"]
  BY DEF TaskFails
<1>6. MoviesStay /\ server' \in [Ids -> MovieRow]
  BY <1>4, <1>5, SameServer, MovieMoved DEF PageShape
<1>7. TasksInv'
  BY <1>2, <1>3, <1>6, TaskOver DEF Uploads
<1>8. PageShape'
  BY <1>2, <1>3, <1>6 DEF PageShape
<1> QED BY <1>2, <1>3, <1>6, <1>7, <1>8, PageGoesOn, SavesGoOn

\* A step of a task that goes on, or of one that is over, and of the movie.
LEMMA InitAnswersStep == ASSUME UploadInv, NEW t \in tasks, InitAnswers(t) PROVE UploadInv'
<1> USE DEF UploadInv
<1>1. page \in PageRow /\ t \in TaskRow /\ tasks \subseteq TaskRow /\ session \in Sessions
  BY DEF PageShape
<1>2. PICK m \in Ids, titled \in Forms :
        /\ Makes(t, m)
        /\ IF Own(t)
           THEN /\ known' = [known EXCEPT ![m] = [sess |-> t.sess, as |-> t.as]]
                /\ page' = [page EXCEPT !.movie = m, !.mine = session, !.as = t.as,
                                        !.form = titled, !.phase = "uploading"]
                /\ tasks' = Without(t) \cup {[t EXCEPT !.at = "put", !.movie = m]}
           ELSE /\ page' = [page EXCEPT !.active = IF t.via = "pick" THEN FALSE ELSE Ended(t)]
                /\ tasks' = Without(t)
                /\ UNCHANGED known
  BY DEF InitAnswers
<1>3. UNCHANGED <<session, selected, chains>> /\ t.at = "init"
  BY DEF InitAnswers
<1>4. MoviesStay /\ MadeIn(m, t.sess, t.as)' /\ server' \in [Ids -> MovieRow]
  BY <1>2, MovieMade
<1>5. SavesAreOwn'
  BY <1>3, <1>4, SavesGoOn
<1>6. m # Nothing
  BY UploadPageAssumption
<1>7. CASE Own(t)
  <2>a. /\ page' = [page EXCEPT !.movie = m, !.mine = session, !.as = t.as,
                                !.form = titled, !.phase = "uploading"]
        /\ known' = [known EXCEPT ![m] = [sess |-> t.sess, as |-> t.as]]
    BY <1>2, <1>7
  <2>b. t.sess = session /\ t.as \in Selections
    BY <1>1, <1>7 DEF Own, TaskRow
  <2>1. /\ page' \in PageRow /\ page'.movie = m /\ page'.mine = session /\ page'.as = t.as
        /\ page'.phase = "uploading" /\ page'.cancelFailed = page.cancelFailed
    BY <1>1, <2>a, <2>b DEF PageRow
  <2> PICK n : n = [t EXCEPT !.at = "put", !.movie = m]
    OBVIOUS
  <2>2. n \in TaskRow /\ n.at = "put" /\ n.movie = m /\ n.sess = t.sess /\ n.as = t.as
    BY <1>1 DEF TaskRow, Requests
  <2>3. Uploads(t) /\ page.phase # "idle"
    BY <1>3, <1>7 DEF Uploads, TasksInv, OneUpload, Busy
  <2>4. \A u \in tasks \ {t} : ~Uploads(u) /\ ~Deletes(u)
    BY <2>3 DEF TasksInv, OneUpload, OneDeletion
  <2>5. ~page'.cancelFailed
    BY <2>1, <2>3 DEF TasksInv, OneDeletion
  <2>6. tasks' = (tasks \ {t}) \cup {n}
    BY <1>2, <1>7 DEF Without
  <2>7. Joins(n, tasks \ {t})
    BY <1>1, <1>4, <1>6, <1>7, <2>1, <2>2, <2>4 DEF Joins, Uploads, Deletes, Own, Busy, Sessions
  <2>8. TasksInv'
    BY <1>3, <1>4, <2>4, <2>5, <2>6, <2>7, OneJoins
  <2>9. known' \in [Ids -> Origin \cup {Nothing}] /\ known'[m] = [sess |-> session, as |-> t.as]
    BY <1>1, <2>a, <2>b DEF PageShape, Origin
  <2>10. PageShape'
    BY <1>3, <1>4, <2>1, <2>2, <2>6, <2>9 DEF PageShape
  <2>11. PageIsOwn'
    BY <1>1, <1>3, <1>4, <1>7, <2>1, <2>9 DEF PageIsOwn, Own, TaskRow
  <2> QED BY <1>5, <2>8, <2>10, <2>11
<1>8. CASE ~Own(t)
  <2>1. PICK a \in BOOLEAN : page' = [page EXCEPT !.active = a]
    <3>1. CASE t.via = "pick"
      BY <1>2, <1>8, <3>1
    <3>2. CASE t.via # "pick"
      BY <1>2, <1>8, <3>2 DEF Ended
    <3> QED BY <3>1, <3>2
  <2>2. /\ page' \in PageRow /\ page'.movie = page.movie /\ page'.mine = page.mine /\ page'.as = page.as
        /\ page'.cancelling = page.cancelling /\ page'.cancelFailed = page.cancelFailed
        /\ page'.phase = page.phase
    BY <1>1, <2>1 DEF PageRow
  <2>3. tasks' = tasks \ {t} /\ known' = known
    BY <1>2, <1>8 DEF Without
  <2>4. TasksInv'
    BY <1>3, <1>4, <2>2, <2>3, TaskOver
  <2>5. PageShape'
    BY <1>3, <1>4, <2>2, <2>3 DEF PageShape
  <2> QED BY <1>3, <1>4, <1>5, <2>2, <2>3, <2>4, <2>5, PageGoesOn
<1> QED BY <1>7, <1>8

\* The upload of the page goes on with its next request.
LEMMA UploadContinues ==
  ASSUME UploadInv, NEW t \in tasks, Uploads(t), t.at # "init", NEW n \in TaskRow,
         Kin(n, [t EXCEPT !.at = n.at]), n.at \in {"put", "complete"},
         tasks' = Without(t) \cup {n}, UNCHANGED <<session, server>>,
         page'.movie = page.movie, Busy', page'.cancelFailed = page.cancelFailed
  PROVE  TasksInv'
<1> USE DEF UploadInv
<1>1. t \in TaskRow
  BY DEF PageShape
<1>2. n.movie = t.movie /\ n.sess = t.sess /\ n.as = t.as
  BY <1>1 DEF Kin, TaskRow
<1>3. MoviesStay
  BY SameServer
<1>4. \A u \in tasks \ {t} : ~Uploads(u) /\ ~Deletes(u)
  BY DEF TasksInv, OneUpload, OneDeletion, Busy
<1>5. ~page'.cancelFailed
  BY DEF TasksInv, OneUpload, OneDeletion, Busy
<1>6. Joins(n, tasks \ {t})
  BY <1>2, <1>3, <1>4 DEF Joins, Uploads, Deletes, Own, TasksInv, TasksAreOwn, OneUpload, MoviesStay
<1> QED BY <1>3, <1>4, <1>5, <1>6, OneJoins DEF Without

LEMMA PutLandsStep == ASSUME UploadInv, NEW t \in tasks, PutLands(t) PROVE UploadInv'
<1> USE DEF UploadInv
<1>1. page \in PageRow /\ t \in TaskRow /\ tasks \subseteq TaskRow
  BY DEF PageShape
<1>2. t.at = "put" /\ Uploads(t) /\ t.movie = page.movie /\ t.movie # Nothing
  BY DEF PutLands, TasksInv, TasksAreOwn, OneUpload, Uploads
<1>3. known[t.movie].as = t.as /\ t.movie \in Ids
  <2>1. page.movie \in Ids /\ server[page.movie].by = <<session, page.as>>
        /\ known[page.movie] = [sess |-> session, as |-> page.as]
    BY <1>2 DEF PageIsOwn, MadeIn
  <2>2. server[page.movie].by = <<t.sess, t.as>>
    BY <1>2 DEF TasksInv, TasksAreOwn, MadeIn
  <2> QED BY <1>2, <2>1, <2>2
<1>4. /\ page' \in PageRow /\ page'.movie = page.movie /\ page'.mine = page.mine /\ page'.as = page.as
      /\ page'.phase = "completing" /\ page'.cancelFailed = page.cancelFailed
  BY <1>1, <1>3 DEF PutLands, PageRow
<1> PICK n : n = [t EXCEPT !.at = "complete", !.as = known[t.movie].as]
  OBVIOUS
<1>5. n \in TaskRow /\ n.at = "complete" /\ n.movie = t.movie /\ n.sess = t.sess /\ n.as = t.as
  BY <1>1, <1>3 DEF TaskRow, Requests
<1>6. Kin(n, [t EXCEPT !.at = n.at])
  BY <1>1, <1>5 DEF Kin, TaskRow
<1>7. UNCHANGED <<session, selected, known, chains, server>> /\ tasks' = Without(t) \cup {n}
  BY DEF PutLands
<1>8. TasksInv'
  BY <1>2, <1>4, <1>5, <1>6, <1>7, UploadContinues DEF Busy
<1>9. PageShape'
  BY <1>4, <1>5, <1>7 DEF PageShape, Without
<1> QED BY <1>4, <1>7, <1>8, <1>9, SameServer, PageGoesOn, SavesGoOn

LEMMA UrlAnswersStep == ASSUME UploadInv, NEW t \in tasks, UrlAnswers(t) PROVE UploadInv'
<1> USE DEF UploadInv
<1>1. page \in PageRow /\ t \in TaskRow /\ tasks \subseteq TaskRow
  BY DEF PageShape
<1>2. /\ page' \in PageRow /\ page'.movie = page.movie /\ page'.mine = page.mine /\ page'.as = page.as
      /\ page'.cancelling = page.cancelling /\ page'.cancelFailed = page.cancelFailed
      /\ page'.phase = IF Own(t) THEN "uploading" ELSE page.phase
  <2>1. CASE Own(t)
    <3>1. page' = [page EXCEPT !.phase = "uploading"]
      BY <2>1 DEF UrlAnswers
    <3> QED BY <1>1, <2>1, <3>1 DEF PageRow
  <2>2. CASE ~Own(t)
    <3>1. PICK a \in BOOLEAN : page' = [page EXCEPT !.active = a]
      BY <2>2 DEF UrlAnswers, Ended
    <3> QED BY <1>1, <2>2, <3>1 DEF PageRow
  <2> QED BY <2>1, <2>2
<1>3. UNCHANGED <<session, selected, known, chains, server>> /\ t.at = "url" /\ MoviesStay
  BY SameServer DEF UrlAnswers
<1>4. CASE Own(t)
  <2> PICK n : n = [t EXCEPT !.at = "put"]
    OBVIOUS
  <2>1. n \in TaskRow /\ n.at = "put" /\ Kin(n, [t EXCEPT !.at = n.at])
    BY <1>1 DEF TaskRow, Requests, Kin
  <2>2. tasks' = Without(t) \cup {n} /\ Uploads(t) /\ Busy'
    BY <1>2, <1>3, <1>4 DEF UrlAnswers, GoesOn, Uploads, Busy
  <2>3. TasksInv'
    BY <1>2, <1>3, <2>1, <2>2, UploadContinues
  <2>4. PageShape'
    BY <1>2, <1>3, <2>1, <2>2 DEF PageShape, Without
  <2> QED BY <1>2, <1>3, <2>3, <2>4, PageGoesOn, SavesGoOn
<1>5. CASE ~Own(t)
  <2>1. tasks' = tasks \ {t}
    BY <1>5 DEF UrlAnswers, Without
  <2>2. TasksInv'
    BY <1>2, <1>3, <1>5, <2>1, TaskOver
  <2>3. PageShape'
    BY <1>2, <1>3, <2>1 DEF PageShape
  <2> QED BY <1>2, <1>3, <2>2, <2>3, PageGoesOn, SavesGoOn
<1> QED BY <1>4, <1>5

\* A save is either one that was in a queue, or one of the new ones.
Was(x) == \E d \in DOMAIN chains : \E k \in DOMAIN chains[d] : x = chains[d][k]
SavesRemain(new) == \A c \in DOMAIN chains' : \A i \in DOMAIN chains'[c] :
                      chains'[c][i] \in new \/ Was(chains'[c][i])

LEMMA SavesGoOnBut ==
  ASSUME SavesAreOwn, MoviesStay, NEW new, \A x \in new : SaveIsOwn(x)', SavesRemain(new)
  PROVE  SavesAreOwn'
<1>1. \A x : SaveIsOwn(x) => SaveIsOwn(x)'
  BY DEF SaveIsOwn, MoviesStay
<1> PICK cs : cs = chains'
  OBVIOUS
<1>2. ASSUME NEW c \in DOMAIN cs, NEW i \in DOMAIN cs[c]
      PROVE  SaveIsOwn(cs[c][i])'
  <2> PICK x : x = cs[c][i]
    OBVIOUS
  <2>1. SaveIsOwn(x)'
    <3>1. CASE x \in new
      BY <3>1
    <3>2. CASE Was(x)
      BY <1>1, <3>2 DEF SavesAreOwn, Was
    <3> QED BY <3>1, <3>2 DEF SavesRemain
  <2> QED BY <2>1 DEF SaveIsOwn
<1> QED BY <1>2 DEF SavesAreOwn, SaveIsOwn

\* What happens to the queues of saves.
LEMMA SaveQueued ==
  ASSUME PageShape, SavesAreOwn, MoviesStay, NEW x \in SaveRow, x.sent = Nothing,
         chains' = [chains EXCEPT ![Len(chains)] = Append(@, x)]
  PROVE  SavesAreOwn' /\ chains' \in Seq(Seq(SaveRow)) /\ chains' # <<>>
<1> DEFINE last == Len(chains)
<1>1. chains \in Seq(Seq(SaveRow)) /\ last \in DOMAIN chains /\ chains[last] \in Seq(SaveRow)
  BY DEF PageShape
<1> DEFINE longer == Append(chains[last], x)
<1>2. /\ longer \in Seq(SaveRow)
      /\ \A i \in DOMAIN longer : IF i = Len(chains[last]) + 1 THEN longer[i] = x
                                  ELSE i \in DOMAIN chains[last] /\ longer[i] = chains[last][i]
  BY <1>1
<1>3. chains' = [chains EXCEPT ![last] = longer]
  OBVIOUS
<1> HIDE DEF longer, last
<1>4. DOMAIN chains' = DOMAIN chains /\ chains' \in Seq(Seq(SaveRow)) /\ chains' # <<>>
  BY <1>1, <1>2, <1>3 DEF PageShape
<1>5. \A c \in DOMAIN chains : chains'[c] = IF c = last THEN longer ELSE chains[c]
  BY <1>1, <1>3
<1>6. SavesRemain({x})
  BY <1>1, <1>2, <1>4, <1>5 DEF SavesRemain, Was
<1>7. \A y \in {x} : SaveIsOwn(y)'
  BY DEF SaveIsOwn
<1> QED BY <1>4, <1>6, <1>7, SavesGoOnBut

LEMMA SavePopped ==
  ASSUME PageShape, SavesAreOwn, MoviesStay, NEW c \in DOMAIN chains, chains[c] # <<>>,
         chains' = [chains EXCEPT ![c] = Tail(@)]
  PROVE  SavesAreOwn' /\ chains' \in Seq(Seq(SaveRow)) /\ chains' # <<>>
<1>1. chains \in Seq(Seq(SaveRow)) /\ chains[c] \in Seq(SaveRow)
  BY DEF PageShape
<1> DEFINE rest == Tail(chains[c])
<1>2. /\ rest \in Seq(SaveRow)
      /\ \A i \in DOMAIN rest : i + 1 \in DOMAIN chains[c] /\ rest[i] = chains[c][i + 1]
  BY <1>1
<1>3. chains' = [chains EXCEPT ![c] = rest]
  OBVIOUS
<1> HIDE DEF rest
<1>4. DOMAIN chains' = DOMAIN chains /\ chains' \in Seq(Seq(SaveRow)) /\ chains' # <<>>
  BY <1>1, <1>2, <1>3 DEF PageShape
<1>5. \A d \in DOMAIN chains : chains'[d] = IF d = c THEN rest ELSE chains[d]
  BY <1>1, <1>3
<1>6. SavesRemain({})
  <2>1. ASSUME NEW d \in DOMAIN chains', NEW i \in DOMAIN chains'[d] PROVE Was(chains'[d][i])
    <3>1. CASE d = c
      <4>1. i + 1 \in DOMAIN chains[d] /\ chains'[d][i] = chains[d][i + 1]
        BY <1>2, <1>5, <3>1
      <4> QED BY <1>4, <4>1 DEF Was
    <3>2. CASE d # c
      BY <1>4, <1>5, <3>2 DEF Was
    <3> QED BY <3>1, <3>2
  <2> QED BY <2>1 DEF SavesRemain
<1> QED BY <1>4, <1>6, SavesGoOnBut

LEMMA SaveSent ==
  ASSUME PageShape, SavesAreOwn, MoviesStay, NEW c \in DOMAIN chains, chains[c] # <<>>,
         NEW r \in PatchRow, MadeIn(r.movie, r.sess, r.as)',
         chains' = [chains EXCEPT ![c][1].sent = r]
  PROVE  SavesAreOwn' /\ chains' \in Seq(Seq(SaveRow)) /\ chains' # <<>>
<1>1. chains \in Seq(Seq(SaveRow)) /\ chains[c] \in Seq(SaveRow) /\ 1 \in DOMAIN chains[c]
  BY DEF PageShape
<1> PICK head : head = [chains[c][1] EXCEPT !.sent = r]
  OBVIOUS
<1>2. head \in SaveRow /\ head.sent = r
  <2>1. chains[c][1] \in SaveRow
    BY <1>1
  <2> QED BY <2>1 DEF SaveRow
<1> PICK line : line = [chains[c] EXCEPT ![1] = head]
  OBVIOUS
<1>3. line \in Seq(SaveRow) /\ DOMAIN line = DOMAIN chains[c]
      /\ \A i \in DOMAIN line : line[i] = IF i = 1 THEN head ELSE chains[c][i]
  BY <1>1, <1>2
<1>4. chains' = [chains EXCEPT ![c] = line]
  OBVIOUS
<1>5. DOMAIN chains' = DOMAIN chains /\ chains' \in Seq(Seq(SaveRow)) /\ chains' # <<>>
  BY <1>1, <1>3, <1>4 DEF PageShape
<1>6. \A d \in DOMAIN chains : chains'[d] = IF d = c THEN line ELSE chains[d]
  BY <1>1, <1>4
<1>7. SavesRemain({head})
  BY <1>3, <1>5, <1>6 DEF SavesRemain, Was
<1>8. \A y \in {head} : SaveIsOwn(y)'
  BY <1>2 DEF SaveIsOwn
<1> QED BY <1>5, <1>7, <1>8, SavesGoOnBut

LEMMA QueueAdded ==
  ASSUME PageShape, SavesAreOwn, MoviesStay, chains' = Append(chains, <<>>)
  PROVE  SavesAreOwn' /\ chains' \in Seq(Seq(SaveRow)) /\ chains' # <<>>
<1>1. chains \in Seq(Seq(SaveRow)) /\ <<>> \in Seq(SaveRow)
  BY DEF PageShape
<1>2. /\ chains' \in Seq(Seq(SaveRow)) /\ chains' # <<>>
      /\ \A c \in DOMAIN chains' : IF c = Len(chains) + 1 THEN chains'[c] = <<>>
                                   ELSE c \in DOMAIN chains /\ chains'[c] = chains[c]
  BY <1>1
<1>3. SavesRemain({})
  BY <1>2 DEF SavesRemain, Was
<1> QED BY <1>2, <1>3, SavesGoOnBut

\* What is left of the page after a save, an edit or a choice of profile.
SamePage ==
  /\ page' \in PageRow /\ page'.movie = page.movie /\ page'.mine = page.mine /\ page'.as = page.as
  /\ page'.phase = page.phase /\ page'.cancelling = page.cancelling
  /\ page'.cancelFailed = page.cancelFailed

LEMMA PageHolds ==
  ASSUME UploadInv, MoviesStay, SamePage, UNCHANGED <<session, known, tasks>>
  PROVE  PageIsOwn' /\ TasksInv'
<1> USE DEF UploadInv, SamePage
<1>1. PageIsOwn'
  BY PageGoesOn
<1>2. (\E u \in tasks : Uploads(u)) => Busy' /\ page'.movie = page.movie
  BY DEF TasksInv, OneUpload, Busy
<1>3. (\E u \in tasks : Deletes(u)) =>
        page'.phase = "idle" /\ page'.movie = page.movie /\ page'.cancelling
  BY DEF TasksInv, OneDeletion
<1>4. page'.cancelFailed => page'.phase = "idle" /\ page'.movie # Nothing
  BY DEF TasksInv, OneDeletion
<1>5. TasksInv'
  BY <1>2, <1>3, <1>4, NoneJoin
<1> QED BY <1>1, <1>5

LEMMA Settles ==
  ASSUME NEW s \in SaveRow, NEW p \in PageRow, page' = SaveSettled(s, p),
         p.movie = page.movie, p.mine = page.mine, p.as = page.as, p.phase = page.phase,
         p.cancelling = page.cancelling, p.cancelFailed = page.cancelFailed
  PROVE  SamePage
<1>1. CASE session = s.sess /\ p.mine = s.sess /\ s.by = "auto"
  <2>1. page' = [p EXCEPT !.savePending = FALSE, !.active = FALSE]
    BY <1>1 DEF SaveSettled
  <2> QED BY <2>1 DEF SamePage, PageRow
<1>2. CASE session = s.sess /\ p.mine = s.sess /\ s.by # "auto"
  <2>1. page' = [p EXCEPT !.saving = FALSE]
    BY <1>2 DEF SaveSettled
  <2> QED BY <2>1 DEF SamePage, PageRow
<1>3. CASE ~(session = s.sess /\ p.mine = s.sess)
  <2>1. page' = p
    BY <1>3 DEF SaveSettled
  <2> QED BY <2>1 DEF SamePage, PageRow
<1> QED BY <1>1, <1>2, <1>3

LEMMA CompleteAnswersStep == ASSUME UploadInv, NEW t \in tasks, CompleteAnswers(t) PROVE UploadInv'
<1> USE DEF UploadInv
<1>1. page \in PageRow /\ t \in TaskRow /\ tasks \subseteq TaskRow /\ session \in Sessions
  BY DEF PageShape
<1>2. /\ page' \in PageRow /\ page'.movie = page.movie /\ page'.mine = page.mine /\ page'.as = page.as
      /\ page'.cancelling = page.cancelling /\ page'.cancelFailed = page.cancelFailed
      /\ page'.phase = IF Own(t) THEN "done" ELSE page.phase
  <2>1. CASE Own(t)
    <3>1. page' = [page EXCEPT !.uploaded = Nothing, !.phase = "done", !.savePending = TRUE]
      BY <2>1 DEF CompleteAnswers
    <3> QED BY <1>1, <2>1, <3>1 DEF PageRow
  <2>2. CASE ~Own(t)
    <3>1. PICK a \in BOOLEAN : page' = [page EXCEPT !.active = a]
      BY <2>2 DEF CompleteAnswers, Ended
    <3> QED BY <1>1, <2>2, <3>1 DEF PageRow
  <2> QED BY <2>1, <2>2
<1>3. /\ UNCHANGED <<session, selected, known>> /\ tasks' = tasks \ {t} /\ t.at = "complete"
      /\ server' = [server EXCEPT ![t.movie].state = "queued"]
  BY DEF CompleteAnswers, Without
<1>4. t.movie \in Ids
  BY <1>1, <1>3 DEF TasksInv, TasksAreOwn, TaskRow
<1>5. MoviesStay /\ server' \in [Ids -> MovieRow]
  BY <1>3, <1>4, MovieMoved
<1>6. TasksInv' /\ PageIsOwn'
  BY <1>2, <1>3, <1>5, TaskOver, PageGoesOn DEF Uploads
<1>7. SavesAreOwn' /\ chains' \in Seq(Seq(SaveRow)) /\ chains' # <<>>
  <2>1. CASE Own(t)
    <3> PICK x : x = [by |-> "auto", sess |-> session, sent |-> Nothing]
      OBVIOUS
    <3>1. x \in SaveRow /\ x.sent = Nothing
      BY <1>1 DEF SaveRow
    <3>2. chains' = [chains EXCEPT ![Len(chains)] = Append(@, x)]
      BY <2>1 DEF CompleteAnswers
    <3> QED BY <1>5, <3>1, <3>2, SaveQueued
  <2>2. CASE ~Own(t)
    BY <1>5, <2>2, SavesGoOn DEF CompleteAnswers, PageShape
  <2> QED BY <2>1, <2>2
<1>8. PageShape'
  BY <1>2, <1>3, <1>5, <1>7 DEF PageShape
<1> QED BY <1>6, <1>7, <1>8

LEMMA ResumeStep == ASSUME UploadInv, Resume PROVE UploadInv'
<1> USE DEF UploadInv
<1>1. page \in PageRow /\ tasks \subseteq TaskRow /\ session \in Sessions
  BY DEF PageShape
<1>2. /\ page.movie \in Ids /\ page.as \in Selections /\ MadeIn(page.movie, session, page.as)
      /\ known[page.movie] = [sess |-> session, as |-> page.as] /\ page.phase = "error"
      /\ page.movie # Nothing
  BY DEF Resume, PageIsOwn, MadeIn
<1>3. known[page.movie] # Nothing
  BY <1>1, <1>2, UploadPageAssumption DEF Sessions
<1>4. known' = known
  BY <1>2, <1>3 DEF Resume, PageShape
<1>5. PICK to \in {"complete", "url"} :
        tasks' = Superseded(tasks) \cup {NewTask(to, page.movie, page.as, "retry")}
  <2>1. tasks' = Superseded(tasks) \cup
          {NewTask(IF page.uploaded = page.movie THEN "complete" ELSE "url", page.movie, page.as, "retry")}
    BY <1>2, <1>3 DEF Resume
  <2>2. CASE page.uploaded = page.movie
    BY <2>1, <2>2
  <2>3. CASE page.uploaded # page.movie
    BY <2>1, <2>3
  <2> QED BY <2>2, <2>3
<1>6. PICK ph \in {"completing", "creating"} : page' = [page EXCEPT !.active = TRUE, !.phase = ph]
  <2>1. CASE page.uploaded = page.movie
    BY <2>1 DEF Resume
  <2>2. CASE page.uploaded # page.movie
    BY <2>2 DEF Resume
  <2> QED BY <2>1, <2>2
<1>7. /\ page' \in PageRow /\ page'.movie = page.movie /\ page'.mine = page.mine /\ page'.as = page.as
      /\ page'.phase = ph /\ page'.cancelFailed = page.cancelFailed
  BY <1>1, <1>6 DEF PageRow
<1> PICK n : n = NewTask(to, page.movie, page.as, "retry")
  OBVIOUS
<1>8. /\ n \in TaskRow /\ n.at = to /\ n.movie = page.movie /\ n.sess = session /\ n.as = page.as
      /\ tasks' = Superseded(tasks) \cup {n}
  BY <1>1, <1>2, <1>5 DEF NewTask, TaskRow, Requests
<1>9. UNCHANGED <<session, selected, chains, server>>
  BY DEF Resume
<1>10. MoviesStay
  BY <1>9, SameServer
<1>11. \A u \in tasks : ~Uploads(u) /\ ~Deletes(u)
  BY <1>2 DEF TasksInv, OneUpload, OneDeletion, Busy
<1>12. ~page'.cancelFailed
  BY <1>2, <1>7 DEF TasksInv, OneDeletion
<1>13. Joins(n, tasks)
  BY <1>1, <1>2, <1>7, <1>8, <1>10, <1>11 DEF Joins, Uploads, Deletes, Own, Busy, Sessions, MoviesStay
<1>14. TasksInv'
  BY <1>8, <1>9, <1>10, <1>11, <1>12, <1>13, OneJoins
<1>15. Remain(Superseded(tasks), tasks)
  BY OldRemain
<1>16. PageShape'
  BY <1>4, <1>7, <1>8, <1>9, <1>15 DEF PageShape, Remain
<1> QED BY <1>4, <1>7, <1>9, <1>10, <1>14, <1>16, PageGoesOn, SavesGoOn

\* The deletion of a canceled upload, asked or asked again.
LEMMA DeletionAsked ==
  ASSUME UploadInv, NEW old, old \subseteq tasks, \A u \in old : ~Uploads(u) /\ ~Deletes(u), page.movie # Nothing,
         tasks' = Superseded(old) \cup {NewTask("delete", page.movie, page.as, "cancel")}
           \/ tasks' = old \cup {NewTask("delete", page.movie, page.as, "cancel")},
         page' = [page EXCEPT !.phase = "idle", !.cancelling = TRUE],
         UNCHANGED <<session, selected, known, chains, server>>
  PROVE  UploadInv'
<1> USE DEF UploadInv
<1>1. page \in PageRow /\ tasks \subseteq TaskRow /\ session \in Sessions
  BY DEF PageShape
<1>2. /\ page.movie \in Ids /\ page.as \in Selections /\ MadeIn(page.movie, session, page.as)
  BY DEF PageIsOwn, MadeIn
<1>3. /\ page' \in PageRow /\ page'.movie = page.movie /\ page'.mine = page.mine /\ page'.as = page.as
      /\ page'.phase = "idle" /\ page'.cancelling /\ page'.cancelFailed = page.cancelFailed
  BY <1>1 DEF PageRow
<1> PICK n : n = NewTask("delete", page.movie, page.as, "cancel")
  OBVIOUS
<1>4. /\ n \in TaskRow /\ n.at = "delete" /\ n.movie = page.movie /\ n.sess = session /\ n.as = page.as
  BY <1>1, <1>2 DEF NewTask, TaskRow, Requests
<1>5. MoviesStay
  BY SameServer
<1>6. Joins(n, old)
  BY <1>1, <1>2, <1>3, <1>4, <1>5 DEF Joins, Uploads, Deletes, Own, Sessions, MoviesStay
<1>7. TasksInv'
  BY <1>3, <1>5, <1>6, OneJoins
<1>8. Remain(Superseded(old), old)
  BY OldRemain
<1>9. PageShape'
  BY <1>3, <1>4, <1>8 DEF PageShape, Remain
<1> QED BY <1>3, <1>5, <1>7, <1>9, PageGoesOn, SavesGoOn

LEMMA CancelUploadStep == ASSUME UploadInv, NEW t \in tasks, CancelUpload(t) PROVE UploadInv'
<1>1. t.movie # Nothing /\ t.movie = page.movie /\ Uploads(t)
  BY DEF CancelUpload, UploadInv, TasksInv, TasksAreOwn, OneUpload, Uploads
<1>2. \A u \in Without(t) : ~Uploads(u) /\ ~Deletes(u)
  BY <1>1 DEF CancelUpload, UploadInv, TasksInv, OneUpload, OneDeletion, Without
<1> QED BY <1>1, <1>2, DeletionAsked DEF CancelUpload, Without

LEMMA RetryDeleteStep == ASSUME UploadInv, RetryDelete PROVE UploadInv'
<1>1. page.movie # Nothing /\ page.phase = "idle" /\ ~page.cancelling
  BY DEF RetryDelete, UploadInv, TasksInv, OneDeletion
<1>2. \A u \in tasks : ~Uploads(u) /\ ~Deletes(u)
  BY <1>1 DEF UploadInv, TasksInv, OneUpload, OneDeletion, Busy
<1>3. page' = [page EXCEPT !.phase = "idle", !.cancelling = TRUE]
  BY <1>1 DEF RetryDelete, UploadInv, PageShape, PageRow
<1> QED BY <1>1, <1>2, <1>3, DeletionAsked DEF RetryDelete

LEMMA DeleteAnswersStep == ASSUME UploadInv, NEW t \in tasks, DeleteAnswers(t) PROVE UploadInv'
<1> USE DEF UploadInv
<1>1. page \in PageRow /\ t \in TaskRow /\ tasks \subseteq TaskRow
  BY DEF PageShape
<1>2. /\ UNCHANGED <<session, selected, chains>> /\ tasks' = tasks \ {t} /\ t.at = "delete"
      /\ server' = [server EXCEPT ![t.movie].state = "deleted"]
  BY DEF DeleteAnswers, Without
<1>3. t.movie \in Ids
  BY <1>1, <1>2 DEF TasksInv, TasksAreOwn, TaskRow
<1>4. MoviesStay /\ server' \in [Ids -> MovieRow]
  BY <1>2, <1>3, MovieMoved
<1>5. SavesAreOwn'
  BY <1>2, <1>4, SavesGoOn
<1>6. CASE Own(t)
  <2>1. /\ page' \in PageRow /\ page'.movie = Nothing /\ ~page'.cancelFailed /\ known' = NothingKnown
    <3>1. /\ page' = [page EXCEPT !.cancelFailed = FALSE, !.file = FALSE, !.movie = Nothing,
                        !.mine = Nothing, !.as = Nothing, !.phase = "idle",
                        !.uploaded = Nothing, !.form = Nothing, !.active = FALSE]
          /\ known' = NothingKnown
      BY <1>6 DEF DeleteAnswers
    <3> QED BY <1>1, <3>1 DEF PageRow
  <2>2. Deletes(t) /\ page.phase = "idle"
    BY <1>2, <1>6 DEF Deletes, TasksInv, OneDeletion
  <2>3. \A u \in tasks \ {t} : ~Uploads(u) /\ ~Deletes(u)
    BY <2>2 DEF TasksInv, OneUpload, OneDeletion, Busy
  <2>4. TasksInv'
    BY <1>2, <1>4, <2>1, <2>3, NoneJoin
  <2>5. PageIsOwn'
    BY <2>1 DEF PageIsOwn
  <2>6. PageShape'
    BY <1>2, <1>4, <2>1 DEF PageShape, NothingKnown
  <2> QED BY <1>5, <2>4, <2>5, <2>6
<1>7. CASE ~Own(t)
  <2>1. UNCHANGED <<page, known>>
    BY <1>7 DEF DeleteAnswers
  <2> QED BY <1>1, <1>2, <1>4, <1>5, <2>1, TaskOver, PageGoesOn DEF PageShape
<1> QED BY <1>6, <1>7

LEMMA DeleteFailsStep == ASSUME UploadInv, NEW t \in tasks, DeleteFails(t) PROVE UploadInv'
<1> USE DEF UploadInv
<1>1. page \in PageRow /\ t \in TaskRow /\ tasks \subseteq TaskRow
  BY DEF PageShape
<1>2. /\ UNCHANGED <<session, selected, known, chains>> /\ tasks' = tasks \ {t} /\ t.at = "delete"
      /\ server' = server \/ server' = [server EXCEPT ![t.movie].state = "deleted"]
  BY DEF DeleteFails, Without
<1>3. t.movie \in Ids
  BY <1>1, <1>2 DEF TasksInv, TasksAreOwn, TaskRow
<1>4. MoviesStay /\ server' \in [Ids -> MovieRow]
  BY <1>2, <1>3, SameServer, MovieMoved DEF PageShape
<1>5. /\ page' \in PageRow /\ page'.movie = page.movie /\ page'.mine = page.mine /\ page'.as = page.as
      /\ page'.phase = page.phase
      /\ page'.cancelling = page.cancelling \/ Own(t)
      /\ page'.cancelFailed = page.cancelFailed \/ Own(t)
  BY <1>1 DEF DeleteFails, PageRow
<1>6. TasksInv'
  BY <1>2, <1>4, <1>5, TaskOver DEF Deletes
<1>7. PageShape'
  BY <1>2, <1>4, <1>5 DEF PageShape
<1> QED BY <1>2, <1>4, <1>5, <1>6, <1>7, PageGoesOn, SavesGoOn

LEMMA StartNextStep == ASSUME UploadInv, StartNext PROVE UploadInv'
<1> USE DEF UploadInv
<1>1. page \in PageRow
  BY DEF PageShape
<1>2. /\ page' \in PageRow /\ page'.movie = Nothing /\ page'.cancelFailed = page.cancelFailed
      /\ page.phase = "done" /\ known' = NothingKnown
      /\ UNCHANGED <<session, selected, tasks, chains, server>>
  BY <1>1 DEF StartNext, PageRow
<1>3. MoviesStay
  BY <1>2, SameServer
<1>4. \A u \in tasks : ~Uploads(u) /\ ~Deletes(u)
  BY <1>2 DEF TasksInv, OneUpload, OneDeletion, Busy
<1>5. ~page'.cancelFailed
  BY <1>2 DEF TasksInv, OneDeletion
<1>6. TasksInv'
  BY <1>2, <1>3, <1>4, <1>5, NoneJoin
<1>7. PageShape' /\ PageIsOwn'
  BY <1>2 DEF PageShape, NothingKnown, PageIsOwn
<1> QED BY <1>2, <1>3, <1>6, <1>7, SavesGoOn

LEMMA FormSteps ==
  ASSUME UploadInv, (\E v \in Forms : EditForm(v)) \/ (\E who \in Selections : SelectProfile(who))
  PROVE  UploadInv'
<1> USE DEF UploadInv
<1>1. page \in PageRow
  BY DEF PageShape
<1>2. SamePage /\ selected' \in Selections /\ UNCHANGED <<session, known, tasks, chains, server>>
  <2>1. ASSUME NEW v \in Forms, EditForm(v) PROVE SamePage
    <3>1. page' = [page EXCEPT !.form = v, !.saved = FALSE]
      BY <2>1 DEF EditForm
    <3> QED BY <1>1, <3>1 DEF SamePage, PageRow
  <2>2. ASSUME NEW who \in Selections, SelectProfile(who) PROVE SamePage
    BY <1>1, <2>2 DEF SelectProfile, SamePage
  <2> QED BY <2>1, <2>2 DEF EditForm, SelectProfile, PageShape
<1>3. MoviesStay
  BY <1>2, SameServer
<1>4. PageShape'
  BY <1>2 DEF PageShape, SamePage
<1> QED BY <1>2, <1>3, <1>4, PageHolds, SavesGoOn

LEMMA NoStep ==
  ASSUME UploadInv, UNCHANGED <<session, selected, page, known, tasks, chains, server>> PROVE UploadInv'
<1> USE DEF UploadInv
<1>1. SamePage /\ MoviesStay
  BY SameServer DEF SamePage, PageShape
<1>2. PageShape'
  BY DEF PageShape
<1> QED BY <1>1, <1>2, PageHolds, SavesGoOn

LEMMA SubmitFormStep == ASSUME UploadInv, Submit PROVE UploadInv'
<1> USE DEF UploadInv
<1>1. page \in PageRow /\ session \in Sessions
  BY DEF PageShape
<1>2. SamePage /\ UNCHANGED <<session, selected, known, tasks, server>>
  BY <1>1 DEF Submit, SamePage, PageRow
<1>3. MoviesStay
  BY <1>2, SameServer
<1> PICK x : x = [by |-> "manual", sess |-> session, sent |-> Nothing]
  OBVIOUS
<1>4. x \in SaveRow /\ x.sent = Nothing /\ chains' = [chains EXCEPT ![Len(chains)] = Append(@, x)]
  BY <1>1 DEF Submit, SaveRow
<1>5. SavesAreOwn' /\ chains' \in Seq(Seq(SaveRow)) /\ chains' # <<>>
  BY <1>3, <1>4, SaveQueued
<1>6. PageShape'
  BY <1>2, <1>5 DEF PageShape, SamePage
<1> QED BY <1>2, <1>3, <1>5, <1>6, PageHolds

LEMMA SendSaveStep == ASSUME UploadInv, NEW c \in Unsent, SendSave(c) PROVE UploadInv'
<1> USE DEF UploadInv
<1>1. page \in PageRow /\ session \in Sessions
  BY DEF PageShape
<1>2. c \in DOMAIN chains /\ chains[c] # <<>> /\ chains[c] \in Seq(SaveRow)
  BY DEF PageShape, Unsent
<1>3. UNCHANGED <<session, selected, known, tasks, server>> /\ MoviesStay
  BY SameServer DEF SendSave
<1>4. CASE page.movie = Nothing \/ page.mine # session
  <2>1. Head(chains[c]) \in SaveRow
    BY <1>2
  <2>2. chains' = [chains EXCEPT ![c] = Tail(@)] /\ page' = SaveSettled(Head(chains[c]), page)
    BY <1>4 DEF SendSave
  <2>3. SamePage
    BY <1>1, <2>1, <2>2, Settles
  <2>4. SavesAreOwn' /\ chains' \in Seq(Seq(SaveRow)) /\ chains' # <<>>
    BY <1>2, <1>3, <2>2, SavePopped
  <2>5. PageShape'
    BY <1>3, <2>3, <2>4 DEF PageShape, SamePage
  <2> QED BY <1>3, <2>3, <2>4, <2>5, PageHolds
<1>5. CASE ~(page.movie = Nothing \/ page.mine # session)
  <2>1. page.movie \in Ids /\ page.as \in Selections /\ MadeIn(page.movie, session, page.as)
    BY <1>5 DEF PageIsOwn, MadeIn
  <2> PICK r : r = [movie |-> page.movie, as |-> page.as, sess |-> session, form |-> page.form,
                    landed |-> FALSE]
    OBVIOUS
  <2>2. r \in PatchRow /\ MadeIn(r.movie, r.sess, r.as)'
    BY <1>1, <1>3, <2>1 DEF PatchRow, PageRow, MoviesStay
  <2>3. chains' = [chains EXCEPT ![c][1].sent = r] /\ page' = page
    BY <1>5 DEF SendSave
  <2>4. SamePage
    BY <1>1, <2>3 DEF SamePage
  <2>5. SavesAreOwn' /\ chains' \in Seq(Seq(SaveRow)) /\ chains' # <<>>
    BY <1>2, <1>3, <2>2, <2>3, SaveSent
  <2>6. PageShape'
    BY <1>3, <2>4, <2>5 DEF PageShape, SamePage
  <2> QED BY <1>3, <2>4, <2>5, <2>6, PageHolds
<1> QED BY <1>4, <1>5

LEMMA SaveLandsStep == ASSUME UploadInv, NEW c \in DOMAIN chains, SaveLands(c) PROVE UploadInv'
<1> USE DEF UploadInv
<1>1. /\ chains[c] # <<>> /\ chains[c] \in Seq(SaveRow) /\ chains[c][1] \in SaveRow
      /\ Head(chains[c]) = chains[c][1]
  BY DEF PageShape, SaveLands, Sent
<1> PICK s : s = chains[c][1].sent
  OBVIOUS
<1>2. s \in PatchRow /\ MadeIn(s.movie, s.sess, s.as)
  <2>1. s # Nothing
    BY <1>1 DEF SaveLands, Sent
  <2>2. SaveIsOwn(chains[c][1])
    BY <1>1 DEF SavesAreOwn
  <2> QED BY <1>1, <2>1, <2>2 DEF SaveRow, SaveIsOwn
<1>3. s.movie \in Ids /\ s.form \in Forms \cup {Nothing}
  BY <1>2 DEF PatchRow
<1>4. UNCHANGED <<session, selected, page, known, tasks>> /\ server' = [server EXCEPT ![s.movie].meta = s.form]
  BY <1>1 DEF SaveLands
<1>5. MoviesStay /\ server' \in [Ids -> MovieRow]
  BY <1>3, <1>4, MovieSaved
<1> PICK r : r = [s EXCEPT !.landed = TRUE]
  OBVIOUS
<1>6. r \in PatchRow /\ MadeIn(r.movie, r.sess, r.as)'
  BY <1>2, <1>5 DEF PatchRow, MoviesStay
<1>7. chains' = [chains EXCEPT ![c][1].sent = r]
  BY <1>1 DEF SaveLands, PageShape, SaveRow
<1>8. SavesAreOwn' /\ chains' \in Seq(Seq(SaveRow)) /\ chains' # <<>>
  BY <1>1, <1>5, <1>6, <1>7, SaveSent
<1>9. SamePage
  BY <1>4 DEF SamePage, PageShape
<1>10. PageShape'
  BY <1>4, <1>5, <1>8 DEF PageShape
<1> QED BY <1>4, <1>5, <1>8, <1>9, <1>10, PageHolds

LEMMA SaveAnswersStep ==
  ASSUME UploadInv, NEW c \in DOMAIN chains, SaveAnswers(c) \/ SaveFails(c) PROVE UploadInv'
<1> USE DEF UploadInv
<1>1. page \in PageRow /\ session \in Sessions
  BY DEF PageShape
<1>2. chains[c] # <<>> /\ chains[c] \in Seq(SaveRow)
  BY DEF PageShape, SaveAnswers, SaveFails, Sent
<1> PICK s : s = Head(chains[c])
  OBVIOUS
<1>3. s \in SaveRow
  BY <1>2
<1>4. UNCHANGED <<session, selected, known, tasks, server>> /\ chains' = [chains EXCEPT ![c] = Tail(@)]
  BY DEF SaveAnswers, SaveFails
<1>5. MoviesStay
  BY <1>4, SameServer
<1>6. \/ page' = SaveSettled(s, [page EXCEPT !.saved = s.sent.form = page.form])
      \/ page' = SaveSettled(s, page)
  BY DEF SaveAnswers, SaveFails
<1>7. SamePage
  <2> PICK p : p = [page EXCEPT !.saved = s.sent.form = page.form]
    OBVIOUS
  <2>1. /\ p \in PageRow /\ p.movie = page.movie /\ p.mine = page.mine /\ p.as = page.as
        /\ p.phase = page.phase /\ p.cancelling = page.cancelling /\ p.cancelFailed = page.cancelFailed
    <3> PICK a \in BOOLEAN : a = (s.sent.form = page.form)
      OBVIOUS
    <3>1. p = [page EXCEPT !.saved = a]
      OBVIOUS
    <3> QED BY <1>1, <3>1 DEF PageRow
  <2> QED BY <1>1, <1>3, <1>6, <2>1, Settles
<1>8. SavesAreOwn' /\ chains' \in Seq(Seq(SaveRow)) /\ chains' # <<>>
  BY <1>2, <1>4, <1>5, SavePopped
<1>9. PageShape'
  BY <1>4, <1>7, <1>8 DEF PageShape, SamePage
<1> QED BY <1>4, <1>5, <1>7, <1>8, <1>9, PageHolds

LEMMA ChangeSessionStep == ASSUME UploadInv, ChangeSession PROVE UploadInv'
<1> USE DEF UploadInv
<1>1. page \in PageRow /\ session \in Sessions /\ session' = session + 1 /\ session' \in Sessions
  BY UploadPageAssumption DEF PageShape, ChangeSession, Sessions
<1>2. /\ page' \in PageRow /\ page'.movie = Nothing /\ ~page'.cancelFailed
  BY <1>1 DEF ChangeSession, FreshPage, PageRow
<1> PICK old : old = {t \in tasks : t.at # "put"}
  OBVIOUS
<1>3. UNCHANGED <<selected, server>> /\ known' = NothingKnown /\ tasks' = Superseded(old)
      /\ chains' = Append(chains, <<>>) /\ old \subseteq tasks
  BY DEF ChangeSession
<1>4. MoviesStay
  BY <1>3, SameServer
<1>5. SavesAreOwn' /\ chains' \in Seq(Seq(SaveRow)) /\ chains' # <<>>
  BY <1>3, <1>4, QueueAdded
<1>6. Remain(tasks', old)
  BY <1>3, OldRemain
<1>7. \A t \in tasks' : \E u \in old : Kin(t, u)
  BY <1>6 DEF Remain
<1>8. \A t \in tasks' : t.sess # session' /\ t.sess <= session'
  <2>1. \A u \in old : u.sess \in Nat /\ u.sess <= session
    BY <1>3 DEF PageShape, TaskRow, Sessions, TasksInv, TasksAreOwn
  <2>2. \A t \in tasks' : t.sess \in Nat /\ t.sess <= session
    BY <1>7, <2>1 DEF Kin
  <2> QED BY <1>1, <2>2 DEF Sessions
<1>9. TasksAreOwn'
  <2>1. \A t \in tasks' : /\ t.at # "put"
                          /\ t.at = "init" <=> t.movie = Nothing
                          /\ t.movie # Nothing => MadeIn(t.movie, t.sess, t.as)'
    BY <1>3, <1>4, <1>7 DEF TasksInv, TasksAreOwn, Kin, MoviesStay
  <2> QED BY <1>8, <2>1 DEF TasksAreOwn
<1>10. OneUpload' /\ OneDeletion'
  BY <1>2, <1>8 DEF OneUpload, OneDeletion, Uploads, Deletes, Own
<1>11. PageShape'
  BY <1>1, <1>2, <1>3, <1>5, <1>6 DEF PageShape, NothingKnown, Remain
<1>12. PageIsOwn'
  BY <1>2 DEF PageIsOwn
<1> QED BY <1>5, <1>9, <1>10, <1>11, <1>12 DEF TasksInv

LEMMA UploadPageStarts == ASSUME PageInit PROVE UploadInv
<1>1. session \in Sessions /\ selected \in Selections
  BY UploadPageAssumption DEF PageInit, Sessions
<1>2. page \in PageRow /\ page.movie = Nothing /\ ~page.cancelFailed
  BY DEF PageInit, FreshPage, PageRow
<1>3. chains \in Seq(Seq(SaveRow)) /\ chains # <<>> /\ \A c \in DOMAIN chains : chains[c] = <<>>
  BY DEF PageInit
<1>4. PageShape
  BY <1>1, <1>2, <1>3 DEF PageInit, PageShape, MovieRow, NothingKnown
<1>5. SavesAreOwn
  BY <1>3 DEF SavesAreOwn
<1>6. TasksInv /\ PageIsOwn
  BY <1>2 DEF PageInit, TasksInv, TasksAreOwn, OneUpload, OneDeletion, PageIsOwn
<1> QED BY <1>4, <1>5, <1>6 DEF UploadInv

LEMMA UploadPageSteps == ASSUME UploadInv, [PageNext]_pageVars PROVE UploadInv'
<1>1. CASE \E c \in Unsent : SendSave(c)
  BY <1>1, SendSaveStep
<1>2. CASE PageEvent
  <2>1. CASE PickFile \/ RetryInit
    BY <2>1, PickSteps
  <2>2. CASE Resume \/ RetryDelete \/ StartNext \/ Submit \/ ChangeSession
    BY <2>2, ResumeStep, RetryDeleteStep, StartNextStep, SubmitFormStep, ChangeSessionStep
  <2>3. CASE (\E v \in Forms : EditForm(v)) \/ (\E who \in Selections : SelectProfile(who))
    BY <2>3, FormSteps
  <2>4. CASE \E c \in DOMAIN chains : SaveLands(c) \/ SaveAnswers(c) \/ SaveFails(c)
    BY <2>4, SaveLandsStep, SaveAnswersStep
  <2>5. ASSUME NEW t \in tasks,
               \/ InitLost(t) \/ InitAnswers(t) \/ PutLands(t) \/ TaskFails(t) \/ CompleteAnswers(t)
               \/ UrlAnswers(t) \/ CancelUpload(t) \/ DeleteAnswers(t) \/ DeleteFails(t)
        PROVE  UploadInv'
    BY <2>5, InitLostStep, InitAnswersStep, PutLandsStep, TaskFailsStep, CompleteAnswersStep,
       UrlAnswersStep, CancelUploadStep, DeleteAnswersStep, DeleteFailsStep
  <2> QED BY <1>2, <2>1, <2>2, <2>3, <2>4, <2>5 DEF PageEvent
<1>3. CASE UNCHANGED pageVars
  BY <1>3, NoStep DEF pageVars
<1> QED BY <1>1, <1>2, <1>3 DEF PageNext

\* A request about a movie is sent in the session and under the profile the
\* movie was made with: the page forgets the movie with its session.
THEOREM SessionsKeepTheirMovies == PageSpec => []OwnSessionOnly
<1>1. PageInit => UploadInv
  BY UploadPageStarts
<1>2. UploadInv /\ [PageNext]_pageVars => UploadInv'
  BY UploadPageSteps
<1>3. UploadInv => OwnSessionOnly
  BY DEF UploadInv, OwnSessionOnly, TasksInv, TasksAreOwn, SavesAreOwn, SaveIsOwn, MadeIn
<1> QED BY <1>1, <1>2, <1>3, PTL DEF PageSpec

Queue == chains[1]
\* The first session has one queue, and in it at most one save of each kind.
FirstInLine ==
  /\ DOMAIN chains = {1}
  /\ \A i \in DOMAIN Queue : Queue[i].sess = 1 /\ (i # 1 => Queue[i].sent = Nothing)
  /\ \A i, k \in DOMAIN Queue : Queue[i].by = Queue[k].by => i = k
  /\ \A i \in DOMAIN Queue : IF Queue[i].by = "auto" THEN page.savePending ELSE page.saving
  /\ \A t \in tasks : Uploads(t) => ~page.savePending
\* A save that is out is of the movie on the page, or of one that is deleted.
SentIsShown ==
  \A i \in DOMAIN Queue : Queue[i].sent # Nothing =>
    /\ server[Queue[i].sent.movie].state = "deleted" \/ Queue[i].sent.movie = page.movie
    /\ page.saved /\ Queue[i].sent.movie = page.movie => Queue[i].sent.form = page.form
    /\ Queue[i].sent.landed /\ Queue[i].sent.movie = page.movie =>
         server[page.movie].meta = Queue[i].sent.form
    /\ Queue[i].sent.form # Nothing
SavedShown ==
  page.saved /\ page.movie # Nothing /\ OnlyShownDeleted => server[page.movie].meta = page.form
UnsavedBeforeMovie == page.movie = Nothing /\ page.phase # "idle" => ~page.saved
BlankBeforeMovie == page.movie = Nothing <=> page.form = Nothing
FirstSession ==
  FirstInLine /\ SentIsShown /\ SavedShown /\ UnsavedBeforeMovie /\ BlankBeforeMovie
SavesInv == session = 1 => FirstSession

\* A step that leaves the queue as it is, and takes nothing from under it.
QueueStays ==
  /\ chains' = chains /\ page'.saving = page.saving /\ page'.savePending = page.savePending
  /\ \A k \in Ids : server[k].state # "none" =>
       /\ server'[k].meta = server[k].meta
       /\ server[k].state = "deleted" \/ k = page.movie =>
            server'[k].state = "deleted" \/ k = page'.movie
  /\ \A t \in tasks' : Uploads(t) => ~page.savePending
  /\ page'.saved /\ page'.movie # Nothing =>
       page.saved /\ page'.movie = page.movie /\ page'.form = page.form
  /\ page'.movie \in Ids => page'.movie = page.movie \/ server[page'.movie].state = "none"
  /\ page'.movie = Nothing /\ page'.phase # "idle" => ~page'.saved
  /\ page'.movie = Nothing <=> page'.form = Nothing

LEMMA QueueGoesOn ==
  ASSUME UploadInv, session = 1, session' = 1, FirstSession, QueueStays PROVE FirstSession'
<1> USE DEF FirstSession
<1>1. PICK q : q = Queue /\ q = Queue'
  BY DEF QueueStays, Queue
<1>2. FirstInLine'
  BY <1>1 DEF FirstInLine, QueueStays, Uploads, Own
<1>3. \A i \in DOMAIN q : q[i].sent # Nothing =>
        /\ q[i].sent.movie \in Ids /\ server[q[i].sent.movie].state # "none"
        /\ q[i].sent.movie # Nothing
  <2>1. \A i \in DOMAIN q : SaveIsOwn(q[i])
    BY <1>1 DEF UploadInv, SavesAreOwn, Queue, FirstInLine
  <2> QED BY <2>1, UploadPageAssumption DEF SaveIsOwn, MadeIn
<1>4. SentIsShown'
  BY <1>1, <1>3 DEF SentIsShown, QueueStays
<1>5. SavedShown'
  <2> SUFFICES ASSUME page'.saved, page'.movie # Nothing, OnlyShownDeleted'
               PROVE  server'[page'.movie].meta = page'.form
    BY DEF SavedShown
  <2>1. page.saved /\ page'.movie = page.movie /\ page'.form = page.form
    BY DEF QueueStays
  <2>2. OnlyShownDeleted
    BY <2>1 DEF OnlyShownDeleted, QueueStays
  <2> QED BY <2>1, <2>2 DEF SavedShown, QueueStays, UploadInv, PageIsOwn, MadeIn
<1>6. UnsavedBeforeMovie' /\ BlankBeforeMovie'
  BY DEF UnsavedBeforeMovie, BlankBeforeMovie, QueueStays
<1> QED BY <1>2, <1>4, <1>5, <1>6

\* In the first session every task is its own.
LEMMA AllOwn == ASSUME UploadInv, session = 1 PROVE \A t \in tasks : Own(t) /\ t.sess = 1
BY DEF UploadInv, PageShape, TaskRow, Sessions, TasksInv, TasksAreOwn, Own

\* Events that do not touch the saves; a retry or a new upload begins when
\* nothing is to be saved.
LEMMA StartsStay ==
  ASSUME UploadInv, session = 1, FirstSession, PickFile \/ RetryInit \/ Resume PROVE QueueStays
<1> USE DEF FirstSession
<1>1. page \in PageRow
  BY DEF UploadInv, PageShape
<1>2. ~page.savePending /\ UNCHANGED <<chains, server>> /\ page'.movie = page.movie
      /\ page'.saving = page.saving /\ page'.savePending = page.savePending
  BY <1>1 DEF PickFile, RetryInit, Resume, PageRow
<1>3. page'.saved => page.saved
  BY <1>1 DEF PickFile, RetryInit, Resume, PageRow
<1>4. page'.form = page.form
  BY <1>1 DEF PickFile, RetryInit, Resume, PageRow
<1>5. page'.movie = Nothing => ~page'.saved
  BY <1>1 DEF PickFile, RetryInit, Resume, PageRow, UnsavedBeforeMovie
<1> QED BY <1>2, <1>3, <1>4, <1>5 DEF QueueStays, BlankBeforeMovie

LEMMA TasksStay ==
  ASSUME UploadInv, session = 1, FirstSession, NEW t \in tasks,
         InitLost(t) \/ InitAnswers(t) \/ PutLands(t) \/ TaskFails(t) \/ UrlAnswers(t)
  PROVE  QueueStays
<1> USE DEF FirstSession
<1>1. page \in PageRow /\ t \in TaskRow /\ tasks \subseteq TaskRow /\ PageShape
  BY DEF UploadInv, PageShape
<1>2. Own(t) /\ Uploads(t) /\ Busy /\ t.movie = page.movie /\ ~page.savePending
  BY AllOwn DEF UploadInv, TasksInv, OneUpload, Uploads, InitLost, InitAnswers, PutLands, TaskFails, UrlAnswers,
     FirstInLine
<1>3. chains' = chains /\ page'.saving = page.saving /\ page'.savePending = page.savePending
      /\ page'.saved = page.saved
      /\ \/ page'.movie = page.movie /\ page'.form = page.form
         \/ /\ InitAnswers(t) /\ page'.movie \in Ids /\ server[page'.movie].state = "none"
            /\ page'.form \in Forms
  <2>1. CASE InitLost(t)
    BY <1>1, <2>1 DEF InitLost, PageRow
  <2>2. CASE InitAnswers(t)
    BY <1>1, <1>2, <2>2 DEF InitAnswers, Makes, PageRow
  <2>3. CASE PutLands(t) \/ UrlAnswers(t)
    BY <1>1, <1>2, <2>3 DEF PutLands, UrlAnswers, PageRow
  <2>4. CASE TaskFails(t)
    BY <1>1, <2>4 DEF TaskFails, PageRow
  <2> QED BY <2>1, <2>2, <2>3, <2>4
<1>4. CASE InitLost(t) \/ InitAnswers(t)
  <2>1. page.movie = Nothing /\ ~page.saved
    BY <1>2, <1>4 DEF UploadInv, TasksInv, TasksAreOwn, InitLost, InitAnswers, UnsavedBeforeMovie, Busy
  <2>2. \A k \in Ids : server[k].state # "none" => server'[k] = server[k]
    BY <1>1, <1>4, MovieMade DEF InitLost, InitAnswers
  <2>3. page.movie \notin Ids /\ Nothing \notin Forms /\ Nothing \notin Ids
    BY <2>1, UploadPageAssumption
  <2> QED BY <1>2, <1>3, <2>1, <2>2, <2>3 DEF QueueStays, BlankBeforeMovie
<1>5. CASE PutLands(t) \/ TaskFails(t) \/ UrlAnswers(t)
  <2>1. page.movie # Nothing /\ t.movie \in Ids
    BY <1>1, <1>2, <1>5 DEF UploadInv, TasksInv, TasksAreOwn, PutLands, TaskFails, UrlAnswers, TaskRow
  <2>2. page'.movie = page.movie /\ page'.form = page.form
    BY <1>1, <1>2, <1>5 DEF PutLands, UrlAnswers, TaskFails, PageRow
  <2>3. server' = server \/ server' = [server EXCEPT ![t.movie].state = "queued"]
    BY <1>5 DEF PutLands, UrlAnswers, TaskFails
  <2>4. \A k \in Ids : server'[k].meta = server[k].meta /\ (k # page.movie => server'[k] = server[k])
    BY <1>1, <1>2, <2>1, <2>3, MovieMoved
  <2> QED BY <1>2, <1>3, <2>1, <2>2, <2>4 DEF QueueStays, BlankBeforeMovie
<1> QED BY <1>4, <1>5

LEMMA DeletionsStay ==
  ASSUME UploadInv, session = 1, FirstSession,
         RetryDelete \/ \E t \in tasks : CancelUpload(t) \/ DeleteAnswers(t) \/ DeleteFails(t)
  PROVE  QueueStays
<1> USE DEF FirstSession
<1>1. page \in PageRow /\ tasks \subseteq TaskRow /\ PageShape
  BY DEF UploadInv, PageShape
<1>2. CASE RetryDelete
  <2>1. /\ UNCHANGED <<chains, server>> /\ page'.movie = page.movie /\ page'.phase = page.phase
        /\ page'.saving = page.saving /\ page'.savePending = page.savePending
        /\ page'.saved = page.saved /\ page'.form = page.form
    BY <1>1, <1>2 DEF RetryDelete, PageRow
  <2>2. \A t \in tasks' : Uploads(t) => t \in tasks
    BY <1>2 DEF RetryDelete, NewTask, Uploads
  <2> QED BY <2>1, <2>2 DEF QueueStays, FirstInLine, UnsavedBeforeMovie, BlankBeforeMovie
<1>3. ASSUME NEW t \in tasks, CancelUpload(t) PROVE QueueStays
  <2>1. /\ UNCHANGED <<chains, server>> /\ page'.movie = page.movie /\ page'.phase = "idle"
        /\ page'.saving = page.saving /\ page'.savePending = page.savePending
        /\ page'.saved = page.saved /\ page'.form = page.form
    BY <1>1, <1>3 DEF CancelUpload, PageRow
  <2>2. ~page.savePending
    BY <1>3, AllOwn DEF CancelUpload, Uploads, FirstInLine
  <2> QED BY <2>1, <2>2 DEF QueueStays, BlankBeforeMovie
<1>4. ASSUME NEW t \in tasks, DeleteAnswers(t) \/ DeleteFails(t) PROVE QueueStays
  <2>1. Own(t) /\ Deletes(t) /\ page.phase = "idle" /\ t.movie = page.movie /\ t.movie \in Ids
    BY <1>1, <1>4, AllOwn DEF DeleteAnswers, DeleteFails, Deletes, UploadInv, TasksInv, TasksAreOwn,
       OneDeletion, TaskRow
  <2>2. server' = server \/ server' = [server EXCEPT ![t.movie].state = "deleted"]
    BY <1>4 DEF DeleteAnswers, DeleteFails
  <2>3. /\ \A k \in Ids : server'[k].meta = server[k].meta /\ (k # page.movie => server'[k] = server[k])
        /\ DeleteAnswers(t) => server'[page.movie].state = "deleted"
    BY <1>1, <2>1, <2>2, MovieMoved DEF DeleteAnswers
  <2>4. /\ chains' = chains /\ tasks' \subseteq tasks /\ page'.phase = "idle"
        /\ page'.saving = page.saving /\ page'.savePending = page.savePending
        /\ page'.saved = page.saved
        /\ page'.movie = IF DeleteAnswers(t) THEN Nothing ELSE page.movie
        /\ page'.form = IF DeleteAnswers(t) THEN Nothing ELSE page.form
    <3>1. CASE DeleteAnswers(t)
      BY <1>1, <2>1, <3>1 DEF DeleteAnswers, PageRow, Without
    <3>2. CASE ~DeleteAnswers(t) /\ DeleteFails(t)
      BY <1>1, <2>1, <3>2 DEF DeleteFails, PageRow, Without
    <3> QED BY <1>4, <3>1, <3>2
  <2>5. Nothing \notin Ids
    BY UploadPageAssumption
  <2> QED BY <2>3, <2>4, <2>5 DEF QueueStays, FirstInLine, BlankBeforeMovie
<1> QED BY <1>2, <1>3, <1>4

LEMMA FormStays ==
  ASSUME UploadInv, session = 1, FirstSession,
         \/ \E v \in Forms : EditForm(v)
         \/ \E who \in Selections : SelectProfile(who)
         \/ UNCHANGED pageVars
  PROVE  QueueStays
<1> USE DEF FirstSession
<1>1. page \in PageRow
  BY DEF UploadInv, PageShape
<1>2. /\ UNCHANGED <<chains, server, tasks>> /\ page'.movie = page.movie /\ page'.phase = page.phase
      /\ page'.saving = page.saving /\ page'.savePending = page.savePending
      /\ (page'.saved => page.saved /\ page'.form = page.form)
      /\ page'.form = page.form \/ (page.movie # Nothing /\ page'.form \in Forms)
  BY <1>1 DEF EditForm, SelectProfile, pageVars, PageRow
<1>3. Nothing \notin Forms
  BY UploadPageAssumption
<1> QED BY <1>2, <1>3 DEF QueueStays, FirstInLine, UnsavedBeforeMovie, BlankBeforeMovie

\* The next upload begins when nothing is being saved.
LEMMA NextStarts == ASSUME UploadInv, session = 1, FirstSession, StartNext PROVE FirstSession'
<1> USE DEF FirstSession
<1>1. page \in PageRow
  BY DEF UploadInv, PageShape
<1>2. /\ UNCHANGED <<session, tasks, chains, server>> /\ page'.movie = Nothing /\ ~page'.saved
      /\ ~page.saving /\ ~page.savePending /\ page'.savePending = page.savePending
      /\ page.phase = "done" /\ page'.form = Nothing
  BY <1>1 DEF StartNext, PageRow
<1>3. DOMAIN Queue = {} /\ Queue' = Queue
  BY <1>2 DEF FirstInLine, Queue
<1>4. FirstInLine' /\ SentIsShown'
  BY <1>2, <1>3 DEF FirstInLine, SentIsShown, Uploads, Own
<1> QED BY <1>2, <1>4 DEF SavedShown, UnsavedBeforeMovie, BlankBeforeMovie

\* A save joins the queue, the only one of its kind.
LEMMA JoinsQueue ==
  ASSUME UploadInv, session = 1, session' = 1, FirstSession, NEW x \in SaveRow,
         x.sess = 1, x.sent = Nothing, chains' = [chains EXCEPT ![Len(chains)] = Append(@, x)],
         IF x.by = "auto" THEN ~page.savePending /\ page'.savePending /\ page'.saving = page.saving
                          ELSE ~page.saving /\ page'.saving /\ page'.savePending = page.savePending,
         page'.saved = page.saved, page'.movie = page.movie, page'.form = page.form,
         page'.movie = Nothing /\ page'.phase # "idle" => ~page'.saved,
         \A t \in tasks' : Uploads(t) => ~page'.savePending,
         \A k \in Ids : /\ server'[k].meta = server[k].meta
                        /\ k # page.movie => server'[k] = server[k]
  PROVE  FirstSession'
<1> USE DEF FirstSession
<1>1. chains \in Seq(Seq(SaveRow)) /\ DOMAIN chains = {1} /\ Queue \in Seq(SaveRow)
  BY DEF UploadInv, PageShape, FirstInLine, Queue
<1>2. Len(chains) = 1
  BY <1>1
<1> PICK q : q = Queue
  OBVIOUS
<1> PICK longer : longer = Append(q, x)
  OBVIOUS
<1>3. chains' = [chains EXCEPT ![1] = longer]
  BY <1>2 DEF Queue
<1>4. Queue' = longer /\ DOMAIN chains' = {1}
  BY <1>1, <1>3 DEF Queue
<1>5. \A i \in DOMAIN longer : IF i = Len(q) + 1 THEN longer[i] = x
                               ELSE i \in DOMAIN q /\ longer[i] = q[i]
  BY <1>1
<1>6. \A i \in DOMAIN q : q[i] \in SaveRow /\ SaveIsOwn(q[i]) /\ q[i].by \in {"auto", "manual"}
  <2>1. \A i \in DOMAIN q : q[i] \in SaveRow
    BY <1>1
  <2>2. \A i \in DOMAIN q : SaveIsOwn(q[i])
    BY <1>1 DEF UploadInv, SavesAreOwn, Queue
  <2> QED BY <2>1, <2>2 DEF SaveRow
<1>7. \A i \in DOMAIN q : q[i].by # x.by
  BY <1>6 DEF FirstInLine
<1>8. x.by \in {"auto", "manual"}
  BY DEF SaveRow
<1>9. FirstInLine'
  <2>1. \A i, k \in DOMAIN longer : longer[i].by = longer[k].by => i = k
    BY <1>5, <1>7 DEF FirstInLine
  <2>2. \A i \in DOMAIN longer : longer[i].sess = 1 /\ (i # 1 => longer[i].sent = Nothing)
    BY <1>5 DEF FirstInLine
  <2>3. \A i \in DOMAIN longer : IF longer[i].by = "auto" THEN page'.savePending ELSE page'.saving
    BY <1>5, <1>6, <1>7, <1>8 DEF FirstInLine
  <2> QED BY <1>4, <2>1, <2>2, <2>3 DEF FirstInLine, Uploads, Own
<1>10. SentIsShown'
  <2>1. \A i \in DOMAIN longer : longer[i].sent # Nothing => i \in DOMAIN q /\ longer[i] = q[i]
    BY <1>5
  <2>2. \A i \in DOMAIN q : q[i].sent # Nothing => q[i].sent.movie \in Ids
    BY <1>6 DEF SaveIsOwn, MadeIn
  <2>3. \A i \in DOMAIN longer : longer[i].sent # Nothing =>
          /\ longer[i].sent.movie \in Ids
          /\ server[longer[i].sent.movie].state = "deleted" \/ longer[i].sent.movie = page.movie
          /\ page.saved /\ longer[i].sent.movie = page.movie => longer[i].sent.form = page.form
          /\ longer[i].sent.landed /\ longer[i].sent.movie = page.movie =>
               server[page.movie].meta = longer[i].sent.form
          /\ longer[i].sent.form # Nothing
    BY <2>1, <2>2 DEF SentIsShown
  <2>4. \A k \in Ids : server[k].state = "deleted" \/ k = page.movie =>
          server'[k].state = "deleted" \/ k = page'.movie
    OBVIOUS
  <2> QED BY <1>4, <2>3, <2>4 DEF SentIsShown
<1>11. SavedShown' /\ UnsavedBeforeMovie' /\ BlankBeforeMovie'
  <2>1. OnlyShownDeleted' => OnlyShownDeleted
    BY DEF OnlyShownDeleted
  <2> QED BY <2>1 DEF SavedShown, UnsavedBeforeMovie, BlankBeforeMovie, UploadInv, PageIsOwn, MadeIn
<1> QED BY <1>9, <1>10, <1>11

LEMMA CompleteJoins ==
  ASSUME UploadInv, session = 1, FirstSession, NEW t \in tasks, CompleteAnswers(t) PROVE FirstSession'
<1>1. page \in PageRow /\ t \in TaskRow /\ PageShape
  BY DEF UploadInv, PageShape
<1>2. /\ Own(t) /\ Uploads(t) /\ t.movie = page.movie /\ t.movie \in Ids /\ ~page.savePending
      /\ t.movie # Nothing
  BY <1>1, AllOwn DEF CompleteAnswers, Uploads, UploadInv, TasksInv, TasksAreOwn, OneUpload, TaskRow,
     FirstSession, FirstInLine
<1>3. /\ page'.movie = page.movie /\ page'.saved = page.saved /\ page'.form = page.form
      /\ page'.saving = page.saving /\ page'.savePending
  BY <1>1, <1>2 DEF CompleteAnswers, PageRow
<1>4. \A k \in Ids : server'[k].meta = server[k].meta /\ (k # page.movie => server'[k] = server[k])
  BY <1>1, <1>2, MovieMoved DEF CompleteAnswers
<1>5. \A u \in tasks' : ~Uploads(u)
  BY <1>2 DEF CompleteAnswers, Without, UploadInv, TasksInv, OneUpload
<1> PICK x : x = [by |-> "auto", sess |-> session, sent |-> Nothing]
  OBVIOUS
<1>6. x \in SaveRow /\ x.by = "auto" /\ x.sess = 1 /\ x.sent = Nothing
  BY <1>1 DEF SaveRow, PageShape
<1>7. chains' = [chains EXCEPT ![Len(chains)] = Append(@, x)] /\ session' = 1
  BY <1>2 DEF CompleteAnswers
<1> QED BY <1>2, <1>3, <1>4, <1>5, <1>6, <1>7, JoinsQueue

LEMMA SubmitJoins == ASSUME UploadInv, session = 1, FirstSession, Submit PROVE FirstSession'
<1>1. page \in PageRow /\ PageShape
  BY DEF UploadInv, PageShape
<1>2. /\ page'.movie = page.movie /\ page'.saved = page.saved /\ page'.form = page.form
      /\ ~page.saving /\ page'.saving /\ page'.savePending = page.savePending
      /\ page.movie # Nothing /\ UNCHANGED <<tasks, server>> /\ session' = 1
  BY <1>1 DEF Submit, PageRow
<1> PICK x : x = [by |-> "manual", sess |-> session, sent |-> Nothing]
  OBVIOUS
<1>3. x \in SaveRow /\ x.by = "manual" /\ x.sess = 1 /\ x.sent = Nothing
  BY <1>1 DEF SaveRow, PageShape
<1>4. chains' = [chains EXCEPT ![Len(chains)] = Append(@, x)]
  BY DEF Submit
<1>5. \A t \in tasks' : Uploads(t) => ~page'.savePending
  BY <1>2 DEF FirstSession, FirstInLine
<1> QED BY <1>2, <1>3, <1>4, <1>5, JoinsQueue

\* The save at the head leaves the queue, and its caller is told.
Leaves(s) ==
  /\ chains' = [chains EXCEPT ![1] = Tail(@)]
  /\ page'.savePending = page.savePending \/ s.by = "auto"
  /\ page'.saving = page.saving \/ s.by # "auto"
  /\ s.by = "auto" => page'.saving = page.saving
  /\ page'.savePending => page.savePending
LEMMA LeavesQueue ==
  ASSUME UploadInv, session = 1, UNCHANGED <<session, tasks>>, FirstInLine, Queue # <<>>, Leaves(Head(Queue))
  PROVE  FirstInLine' /\ \A i \in DOMAIN Queue' : Queue'[i].sent = Nothing
<1> USE DEF Leaves
<1>1. chains \in Seq(Seq(SaveRow)) /\ DOMAIN chains = {1} /\ Queue \in Seq(SaveRow)
  BY DEF UploadInv, PageShape, FirstInLine, Queue
<1> PICK q : q = Queue
  OBVIOUS
<1> PICK rest : rest = Tail(q)
  OBVIOUS
<1>2. Queue' = rest /\ DOMAIN chains' = {1}
  BY <1>1 DEF Queue
<1>3. /\ \A i \in DOMAIN rest : i + 1 \in DOMAIN q /\ rest[i] = q[i + 1] /\ i + 1 # 1 /\ i \in Nat
      /\ 1 \in DOMAIN q /\ Head(q) = q[1]
  BY <1>1
<1>4. \A i \in DOMAIN rest : rest[i].by # q[1].by /\ rest[i].by \in {"auto", "manual"}
                             /\ rest[i].sess = 1 /\ rest[i].sent = Nothing
  <2>1. \A i \in DOMAIN q : q[i].by \in {"auto", "manual"}
    <3>1. \A i \in DOMAIN q : q[i] \in SaveRow
      BY <1>1
    <3> QED BY <3>1 DEF SaveRow
  <2> QED BY <1>3, <2>1 DEF FirstInLine
<1>5. \A i, k \in DOMAIN rest : rest[i].by = rest[k].by => i = k
  BY <1>3 DEF FirstInLine
<1>6. \A i \in DOMAIN rest : IF rest[i].by = "auto" THEN page'.savePending ELSE page'.saving
  <2>1. \A i \in DOMAIN rest : IF rest[i].by = "auto" THEN page.savePending ELSE page.saving
    BY <1>3 DEF FirstInLine
  <2>2. q[1].by \in {"auto", "manual"}
    <3>1. q[1] \in SaveRow
      BY <1>1, <1>3
    <3> QED BY <3>1 DEF SaveRow
  <2> QED BY <1>3, <1>4, <2>1, <2>2
<1>7. \A t \in tasks' : Uploads(t) => ~page'.savePending
  BY DEF FirstInLine
<1> QED BY <1>2, <1>4, <1>5, <1>6, <1>7 DEF FirstInLine, Uploads, Own

LEMMA SettledLeaves ==
  ASSUME NEW s \in SaveRow, NEW p \in PageRow, page' = SaveSettled(s, p),
         p.saving = page.saving, p.savePending = page.savePending,
         chains' = [chains EXCEPT ![1] = Tail(@)]
  PROVE  Leaves(s) /\ page'.saved = p.saved /\ page'.form = p.form
<1>1. CASE session = s.sess /\ p.mine = s.sess /\ s.by = "auto"
  <2>1. page' = [p EXCEPT !.savePending = FALSE, !.active = FALSE]
    BY <1>1 DEF SaveSettled
  <2> QED BY <1>1, <2>1 DEF Leaves, PageRow
<1>2. CASE session = s.sess /\ p.mine = s.sess /\ s.by # "auto"
  <2>1. page' = [p EXCEPT !.saving = FALSE]
    BY <1>2 DEF SaveSettled
  <2> QED BY <1>2, <2>1 DEF Leaves, PageRow
<1>3. CASE ~(session = s.sess /\ p.mine = s.sess)
  <2>1. page' = p
    BY <1>3 DEF SaveSettled
  <2> QED BY <2>1 DEF Leaves, PageRow
<1> QED BY <1>1, <1>2, <1>3

LEMMA SendSaves == ASSUME UploadInv, session = 1, FirstSession, NEW c \in Unsent, SendSave(c) PROVE FirstSession'
<1> USE DEF FirstSession
<1>1. page \in PageRow /\ chains \in Seq(Seq(SaveRow)) /\ DOMAIN chains = {1} /\ Queue \in Seq(SaveRow)
      /\ c = 1 /\ Queue # <<>>
  BY DEF UploadInv, PageShape, FirstInLine, Queue, Unsent
<1>2. UNCHANGED <<session, tasks, server>>
  BY DEF SendSave
<1>3. CASE page.movie = Nothing \/ page.mine # session
  <2>1. chains' = [chains EXCEPT ![1] = Tail(@)] /\ page' = SaveSettled(Head(Queue), page)
    BY <1>1, <1>3 DEF SendSave, Queue
  <2>2. Head(Queue) \in SaveRow
    BY <1>1
  <2>3. Leaves(Head(Queue)) /\ page'.saved = page.saved /\ page'.form = page.form
    BY <1>1, <2>1, <2>2, SettledLeaves
  <2>4. SamePage
    BY <1>1, <2>1, <2>2, Settles
  <2>5. FirstInLine' /\ SentIsShown'
    BY <1>1, <1>2, <2>3, LeavesQueue DEF SentIsShown
  <2> QED BY <1>2, <2>3, <2>4, <2>5 DEF SamePage, SavedShown, UnsavedBeforeMovie, BlankBeforeMovie,
             OnlyShownDeleted
<1>4. CASE ~(page.movie = Nothing \/ page.mine # session)
  <2> PICK r : r = [movie |-> page.movie, as |-> page.as, sess |-> session, form |-> page.form,
                    landed |-> FALSE]
    OBVIOUS
  <2>1. r.movie = page.movie /\ r.form = page.form /\ r.movie # Nothing /\ ~r.landed /\ r.form # Nothing
    BY <1>4 DEF BlankBeforeMovie
  <2> PICK q : q = Queue
    OBVIOUS
  <2> PICK line : line = [q EXCEPT ![1].sent = r]
    OBVIOUS
  <2>2. chains' = [chains EXCEPT ![1] = line] /\ page' = page
    BY <1>1, <1>4 DEF SendSave, Queue
  <2>3. Queue' = line /\ DOMAIN chains' = {1}
    BY <1>1, <2>2 DEF Queue
  <2>4. q \in Seq(SaveRow) /\ 1 \in DOMAIN q /\ q[1] \in SaveRow
    BY <1>1
  <2>5. DOMAIN line = DOMAIN q /\ line[1].sent = r /\ line[1].by = q[1].by /\ line[1].sess = q[1].sess
        /\ \A i \in DOMAIN line : i # 1 => line[i] = q[i]
    BY <2>4 DEF SaveRow
  <2>6. \A i \in DOMAIN line : line[i].by = q[i].by /\ line[i].sess = q[i].sess
    BY <2>5
  <2>7. FirstInLine'
    <3>1. \A i, k \in DOMAIN line : line[i].by = line[k].by => i = k
      BY <2>5, <2>6 DEF FirstInLine
    <3>2. \A i \in DOMAIN line : line[i].sess = 1 /\ (i # 1 => line[i].sent = Nothing)
      BY <2>5, <2>6 DEF FirstInLine
    <3>3. \A i \in DOMAIN line : IF line[i].by = "auto" THEN page.savePending ELSE page.saving
      BY <2>5, <2>6 DEF FirstInLine
    <3> QED BY <1>2, <2>2, <2>3, <3>1, <3>2, <3>3 DEF FirstInLine, Uploads, Own
  <2>8. SentIsShown'
    <3>1. \A i \in DOMAIN line : line[i].sent # Nothing => line[i].sent = r
      BY <2>5 DEF FirstInLine
    <3> QED BY <2>1, <2>2, <2>3, <3>1 DEF SentIsShown
  <2> QED BY <1>2, <2>2, <2>7, <2>8 DEF SavedShown, UnsavedBeforeMovie, BlankBeforeMovie,
             OnlyShownDeleted
<1> QED BY <1>3, <1>4

\* The save that is out, at the head of the queue.
LEMMA SaveOut ==
  ASSUME UploadInv, session = 1, FirstSession, NEW c \in DOMAIN chains, Sent(c)
  PROVE  /\ c = 1 /\ Queue \in Seq(SaveRow) /\ Queue # <<>> /\ 1 \in DOMAIN Queue
         /\ Head(Queue) = Queue[1] /\ Queue[1] \in SaveRow
         /\ Queue[1].sent \in PatchRow /\ Queue[1].sent # Nothing /\ Queue[1].sent.movie \in Ids
         /\ MadeIn(Queue[1].sent.movie, Queue[1].sent.sess, Queue[1].sent.as)
<1>1. PageShape /\ chains \in Seq(Seq(SaveRow)) /\ DOMAIN chains = {1} /\ c = 1
  BY DEF UploadInv, PageShape, FirstSession, FirstInLine
<1>2. Queue \in Seq(SaveRow) /\ Queue # <<>>
  BY <1>1 DEF Queue, Sent
<1>3. 1 \in DOMAIN Queue /\ Head(Queue) = Queue[1] /\ Queue[1] \in SaveRow
  BY <1>2
<1>4. Queue[1].sent # Nothing
  BY <1>1, <1>3 DEF Sent, Queue
<1>5. SaveIsOwn(Queue[1])
  BY <1>1, <1>3 DEF UploadInv, SavesAreOwn, Queue
<1> QED BY <1>1, <1>2, <1>3, <1>4, <1>5 DEF SaveRow, PatchRow, SaveIsOwn

LEMMA SavesLand ==
  ASSUME UploadInv, session = 1, FirstSession, NEW c \in DOMAIN chains, SaveLands(c) PROVE FirstSession'
<1> USE DEF FirstSession
<1> PICK q : q = Queue
  OBVIOUS
<1>1. /\ c = 1 /\ q \in Seq(SaveRow) /\ 1 \in DOMAIN q /\ Head(q) = q[1] /\ q[1] \in SaveRow
      /\ q[1].sent \in PatchRow /\ q[1].sent # Nothing /\ q[1].sent.movie \in Ids /\ Sent(c)
  BY SaveOut DEF SaveLands
<1> PICK s : s = q[1].sent
  OBVIOUS
<1> PICK r : r = [s EXCEPT !.landed = TRUE]
  OBVIOUS
<1>2. r.movie = s.movie /\ r.form = s.form /\ r.landed /\ s.movie \in Ids
  BY <1>1 DEF PatchRow
<1>3. UNCHANGED <<session, page, tasks>> /\ server' = [server EXCEPT ![s.movie].meta = s.form]
      /\ chains' = [chains EXCEPT ![1][1].sent.landed = TRUE]
  BY <1>1 DEF SaveLands, Queue
<1> PICK line : line = [q EXCEPT ![1].sent = r]
  OBVIOUS
<1>4. chains' = [chains EXCEPT ![1] = line]
  BY <1>1, <1>3 DEF Queue, SaveRow, FirstInLine
<1>5. Queue' = line /\ DOMAIN chains' = {1}
  BY <1>4 DEF Queue, FirstInLine
<1>6. DOMAIN line = DOMAIN q /\ line[1].sent = r /\ line[1].by = q[1].by /\ line[1].sess = q[1].sess
      /\ \A i \in DOMAIN line : i # 1 => line[i] = q[i]
  BY <1>1 DEF SaveRow
<1>7. \A i \in DOMAIN line : line[i].by = q[i].by /\ line[i].sess = q[i].sess
  BY <1>6
<1>8. FirstInLine'
  <2>1. \A i, k \in DOMAIN line : line[i].by = line[k].by => i = k
    BY <1>6, <1>7 DEF FirstInLine
  <2>2. \A i \in DOMAIN line : line[i].sess = 1 /\ (i # 1 => line[i].sent = Nothing)
    BY <1>6, <1>7 DEF FirstInLine
  <2>3. \A i \in DOMAIN line : IF line[i].by = "auto" THEN page.savePending ELSE page.saving
    BY <1>6, <1>7 DEF FirstInLine
  <2> QED BY <1>3, <1>5, <2>1, <2>2, <2>3 DEF FirstInLine, Uploads, Own
<1>9. PageShape
  BY DEF UploadInv
<1>10. /\ \A k \in Ids : server'[k].state = server[k].state /\ (k # s.movie => server'[k] = server[k])
       /\ server'[s.movie].meta = s.form
  BY <1>2, <1>3, <1>9 DEF PageShape, MovieRow
<1>11. SentIsShown'
  <2>1. \A i \in DOMAIN line : line[i].sent # Nothing => line[i].sent = r
    BY <1>6 DEF FirstInLine
  <2>2. /\ server[s.movie].state = "deleted" \/ s.movie = page.movie
        /\ page.saved /\ s.movie = page.movie => s.form = page.form
        /\ s.form # Nothing
    BY <1>1 DEF SentIsShown
  <2>3. /\ server'[r.movie].state = "deleted" \/ r.movie = page'.movie
        /\ page'.saved /\ r.movie = page'.movie => r.form = page'.form
        /\ r.movie = page'.movie => server'[page'.movie].meta = r.form
        /\ r.form # Nothing
    BY <1>2, <1>3, <1>10, <2>2
  <2> QED BY <1>5, <2>1, <2>3 DEF SentIsShown
<1>12. SavedShown'
  <2> SUFFICES ASSUME page.saved, page.movie # Nothing, OnlyShownDeleted'
               PROVE  server'[page.movie].meta = page.form
    BY <1>3 DEF SavedShown
  <2>1. OnlyShownDeleted /\ page.movie \in Ids
    BY <1>3, <1>10 DEF OnlyShownDeleted, UploadInv, PageIsOwn, MadeIn
  <2>2. CASE page.movie = s.movie
    BY <1>1, <1>10, <2>2 DEF SentIsShown
  <2>3. CASE page.movie # s.movie
    BY <1>10, <2>1, <2>3 DEF SavedShown
  <2> QED BY <2>2, <2>3
<1>13. UnsavedBeforeMovie' /\ BlankBeforeMovie'
  BY <1>3 DEF UnsavedBeforeMovie, BlankBeforeMovie
<1> QED BY <1>8, <1>11, <1>12, <1>13

LEMMA SavesAnswered ==
  ASSUME UploadInv, session = 1, FirstSession, NEW c \in DOMAIN chains, SaveAnswers(c) \/ SaveFails(c)
  PROVE  FirstSession'
<1> USE DEF FirstSession
<1>1. page \in PageRow
  BY DEF UploadInv, PageShape
<1> PICK s : s = Queue[1]
  OBVIOUS
<1>2. /\ c = 1 /\ Queue # <<>> /\ Head(Queue) = s /\ s \in SaveRow /\ 1 \in DOMAIN Queue
      /\ s.sent # Nothing /\ s.sent.movie \in Ids
  BY SaveOut DEF SaveAnswers, SaveFails
<1>3. UNCHANGED <<session, tasks, server>> /\ chains' = [chains EXCEPT ![1] = Tail(@)]
  BY <1>2 DEF SaveAnswers, SaveFails
<1>4. \* What the caller of the save finds.
      ASSUME NEW p \in PageRow, page' = SaveSettled(s, p), p.movie = page.movie, p.mine = page.mine,
             p.as = page.as, p.phase = page.phase, p.cancelling = page.cancelling,
             p.cancelFailed = page.cancelFailed, p.saving = page.saving,
             p.savePending = page.savePending, p.form = page.form
      PROVE  /\ FirstInLine' /\ SentIsShown' /\ BlankBeforeMovie'
             /\ SamePage /\ page'.saved = p.saved /\ page'.form = page.form
  <2>1. Leaves(s) /\ page'.saved = p.saved /\ page'.form = page.form
    BY <1>2, <1>3, <1>4, SettledLeaves
  <2>2. SamePage
    BY <1>2, <1>4, Settles
  <2>3. FirstInLine' /\ SentIsShown'
    BY <1>2, <1>3, <2>1, LeavesQueue DEF SentIsShown
  <2> QED BY <2>1, <2>2, <2>3 DEF BlankBeforeMovie, SamePage
<1>5. CASE page' = SaveSettled(s, page)
  <2>1. /\ FirstInLine' /\ SentIsShown' /\ BlankBeforeMovie'
        /\ SamePage /\ page'.saved = page.saved /\ page'.form = page.form
    BY <1>1, <1>4, <1>5
  <2> QED BY <1>3, <2>1 DEF SamePage, SavedShown, UnsavedBeforeMovie, OnlyShownDeleted
<1>6. CASE /\ s.sent.landed
           /\ page' = SaveSettled(s, [page EXCEPT !.saved = s.sent.form = page.form])
  <2> PICK p : p = [page EXCEPT !.saved = s.sent.form = page.form]
    OBVIOUS
  <2>1. /\ p \in PageRow /\ p.movie = page.movie /\ p.mine = page.mine /\ p.as = page.as
        /\ p.phase = page.phase /\ p.cancelling = page.cancelling /\ p.cancelFailed = page.cancelFailed
        /\ p.saving = page.saving /\ p.savePending = page.savePending /\ p.form = page.form
        /\ p.saved = (s.sent.form = page.form)
    <3> PICK a \in BOOLEAN : a = (s.sent.form = page.form)
      OBVIOUS
    <3>1. p = [page EXCEPT !.saved = a]
      OBVIOUS
    <3> QED BY <1>1, <3>1 DEF PageRow
  <2>2. /\ FirstInLine' /\ SentIsShown' /\ BlankBeforeMovie'
        /\ SamePage /\ page'.form = page.form /\ (page'.saved <=> s.sent.form = page.form)
    BY <1>4, <1>6, <2>1
  <2>3. /\ server[s.sent.movie].state = "deleted" \/ s.sent.movie = page.movie
        /\ s.sent.movie = page.movie => server[page.movie].meta = s.sent.form
        /\ s.sent.form # Nothing
    BY <1>2, <1>6 DEF SentIsShown
  <2>4. SavedShown'
    <3>1. OnlyShownDeleted' => s.sent.movie = page'.movie
      BY <1>2, <1>3, <2>2, <2>3 DEF OnlyShownDeleted, SamePage
    <3> QED BY <1>3, <2>2, <2>3, <3>1 DEF SavedShown, SamePage
  <2>5. UnsavedBeforeMovie'
    BY <2>2, <2>3 DEF UnsavedBeforeMovie, BlankBeforeMovie
  <2> QED BY <2>2, <2>4, <2>5
<1> QED BY <1>2, <1>5, <1>6 DEF SaveAnswers, SaveFails, Queue

\* "Saved" is shown only of what the backend has, as long as no other movie was
\* cancelled and deleted: the saves of the first session run one after the
\* other, and the form is not shown as saved while another form is being sent.
THEOREM SavedIsTrue == PageSpec => []SavedIsStored
<1>1. PageInit => UploadInv /\ SavesInv
  <2> SUFFICES ASSUME PageInit PROVE SavesInv
    BY UploadPageStarts
  <2>1. DOMAIN chains = {1} /\ DOMAIN Queue = {} /\ tasks = {}
    BY DEF PageInit, Queue
  <2>2. page.movie = Nothing /\ ~page.saved /\ page.form = Nothing
    BY DEF PageInit, FreshPage
  <2> QED BY <2>1, <2>2 DEF SavesInv, FirstSession, FirstInLine, SentIsShown, SavedShown,
          UnsavedBeforeMovie, BlankBeforeMovie
<1>2. (UploadInv /\ SavesInv) /\ [PageNext]_pageVars => (UploadInv /\ SavesInv)'
  <2> SUFFICES ASSUME UploadInv, SavesInv, [PageNext]_pageVars, session' = 1 PROVE FirstSession'
    BY UploadPageSteps DEF SavesInv
  <2>1. ~ChangeSession
    BY DEF ChangeSession, UploadInv, PageShape, Sessions
  <2>2. session = 1 /\ FirstSession
    <3>1. UNCHANGED session
      BY <2>1 DEF PageNext, PageEvent, pageVars, PickFile, RetryInit, Resume, RetryDelete, StartNext,
         Submit, EditForm, SelectProfile, SaveLands, SaveAnswers, SaveFails, InitLost, InitAnswers,
         PutLands, TaskFails,
         CompleteAnswers, UrlAnswers, CancelUpload, DeleteAnswers, DeleteFails, SendSave
    <3> QED BY <3>1 DEF SavesInv
  <2>3. CASE \E c \in Unsent : SendSave(c)
    BY <2>2, <2>3, SendSaves
  <2>4. CASE PageEvent
    <3>1. CASE PickFile \/ RetryInit \/ Resume \/ RetryDelete
      BY <2>2, <3>1, StartsStay, DeletionsStay, QueueGoesOn
    <3>2. CASE StartNext \/ Submit
      BY <2>2, <3>2, NextStarts, SubmitJoins
    <3>3. CASE (\E v \in Forms : EditForm(v)) \/ (\E who \in Selections : SelectProfile(who))
      BY <2>2, <3>3, FormStays, QueueGoesOn
    <3>4. CASE \E c \in DOMAIN chains : SaveLands(c) \/ SaveAnswers(c) \/ SaveFails(c)
      BY <2>2, <3>4, SavesLand, SavesAnswered
    <3>5. ASSUME NEW t \in tasks,
                 InitLost(t) \/ InitAnswers(t) \/ PutLands(t) \/ TaskFails(t) \/ UrlAnswers(t)
          PROVE  FirstSession'
      BY <2>2, <3>5, TasksStay, QueueGoesOn
    <3>6. ASSUME NEW t \in tasks, CancelUpload(t) \/ DeleteAnswers(t) \/ DeleteFails(t)
          PROVE  FirstSession'
      BY <2>2, <3>6, DeletionsStay, QueueGoesOn
    <3>7. ASSUME NEW t \in tasks, CompleteAnswers(t) PROVE FirstSession'
      BY <2>2, <3>7, CompleteJoins
    <3> QED BY <2>1, <2>4, <3>1, <3>2, <3>3, <3>4, <3>5, <3>6, <3>7 DEF PageEvent
  <2>5. CASE UNCHANGED pageVars
    BY <2>2, <2>5, FormStays, QueueGoesOn
  <2> QED BY <2>3, <2>4, <2>5 DEF PageNext
<1>3. UploadInv /\ SavesInv => SavedIsStored
  BY DEF SavesInv, FirstSession, SavedShown, SavedIsStored
<1> QED BY <1>1, <1>2, <1>3, PTL DEF PageSpec
=============================================================================
