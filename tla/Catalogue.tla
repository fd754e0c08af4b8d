----------------------------- MODULE Catalogue -----------------------------
(***************************************************************************)
(* Series and playlists (series/[series].ts, playlists/[playlist].ts, the  *)
(* POST of their index.ts) and what an edit of a movie does to them        *)
(* (movies/[movie].ts, movieAuth.ts).                                      *)
(*                                                                         *)
(* A movie is in at most one series, by its row; it is in a playlist by a  *)
(* row of MovieOnPlaylist.  A request reads, decides and writes in steps   *)
(* of its own, one for each awaited call whose answer can be out of date   *)
(* when it is used; the foreign keys and primary keys of the schema refuse *)
(* a write that breaks them, and the request fails.                        *)
(***************************************************************************)
EXTENDS Naturals, FiniteSets, Sequences, FiniteSetsExt

CONSTANTS
  Users, Systems,   \* the users, and the system accounts
  AdminUsers,       \* the users who may act for a system account
  Movies, Series, Playlists,
  AuthorOf,         \* the user or system account each of them belongs to
  MaxOrder,         \* bound: the largest order a movie is given
  Slots,            \* bound: the requests in flight
  Shelves,          \* bound: the series and playlists one behaviour is about
  None

ASSUME CatalogueAssumption ==
  /\ AdminUsers \subseteq Users
  /\ AuthorOf \in [Movies \cup Series \cup Playlists -> Users \cup Systems]
  /\ MaxOrder \in Nat /\ Shelves \subseteq SUBSET (Series \cup Playlists)
  /\ None \notin Series \cup Playlists \cup Movies
  /\ Movies \cap Series = {} /\ Series \cap Playlists = {} /\ Movies \cap Playlists = {}

VARIABLES
  live,      \* the rows of Movie, Series and Playlist that exist
  seriesId,  \* the series of each movie
  order,     \* its order, in whatever series it is
  entry,     \* the order of each movie in each playlist, 0 if it is not there
  call,      \* the requests in flight, None where there is none
  shelf      \* bound: one of Shelves

catalogueVars == <<live, seriesId, order, entry, call, shelf>>

CatalogueInit ==
  /\ live = Movies
  /\ seriesId = [m \in Movies |-> None]
  /\ order = [m \in Movies |-> 0]
  /\ entry = [p \in Playlists |-> [m \in Movies |-> 0]]
  /\ call = [q \in Slots |-> None]
  /\ shelf \in Shelves

-----------------------------------------------------------------------------
\* canManageOwned: the author, or an admin for a system account.
CanManage(u, x) == AuthorOf[x] = u \/ (u \in AdminUsers /\ AuthorOf[x] \in Systems)

MoviesIn(s) == {m \in Movies \cap live : seriesId[m] = s}
Call(q, next) == call[q] = None /\ call' = [call EXCEPT ![q] = next]
CallAt(q, label) == call[q] # None /\ call[q].at = label
Proceed(q, next) == call' = [call EXCEPT ![q] = next]
Answered(q) == Proceed(q, None)
rowVars == <<live, seriesId, order, entry, shelf>>

\* All orderings of a subset of the movies: what a client may send.
Lists(movies) == {l \in UNION {[1..n -> movies] : n \in 1..Cardinality(movies)} :
                    \A i, j \in DOMAIN l : i # j => l[i] # l[j]}

\* POST /series and POST /playlists, as oneself or, for an admin, as a system account.
Create(u, x) ==
  /\ x \in shelf \ live /\ CanManage(u, x)
  /\ \A q \in Slots : call[q] # None => call[q].into # x
  /\ live' = live \cup {x}
  /\ UNCHANGED <<seriesId, order, entry, call, shelf>>

\* POST /series/:series/movies: the series and the movie, which the caller must
\* manage both; then the largest order; then the write.
ReadAdd(q, u, s, m) ==
  /\ {s, m} \subseteq live /\ CanManage(u, s) /\ CanManage(u, m)
  /\ seriesId[m] # s
  /\ Call(q, [at |-> "max", into |-> s, movie |-> m])
  /\ UNCHANGED rowVars

ReadMax(q) ==
  /\ CallAt(q, "max")
  /\ LET s == call[q].into
         orders == IF s \in Series THEN {order[m] : m \in MoviesIn(s)} ELSE {entry[s][m] : m \in Movies}
     IN  /\ Max(orders \cup {0}) < MaxOrder
         /\ Proceed(q, [at |-> "attach", into |-> s, movie |-> call[q].movie,
                     order |-> Max(orders \cup {0}) + 1])
  /\ UNCHANGED rowVars

Attach(q) ==
  LET r == call[q]
  IN  /\ CallAt(q, "attach") /\ r.into \in Series
      /\ IF {r.movie, r.into} \subseteq live
         THEN /\ seriesId' = [seriesId EXCEPT ![r.movie] = r.into]
              /\ order' = [order EXCEPT ![r.movie] = r.order]
         ELSE UNCHANGED <<seriesId, order>>
      /\ Answered(q)
      /\ UNCHANGED <<live, entry, shelf>>

\* DELETE /series/:series/movies/:movie, scoped to the series.
Detach(u, s, m) ==
  /\ {s, m} \subseteq live /\ CanManage(u, s) /\ seriesId[m] = s
  /\ seriesId' = [seriesId EXCEPT ![m] = None]
  /\ order' = [order EXCEPT ![m] = 0]
  /\ UNCHANGED <<live, entry, call, shelf>>

\* PATCH /series/:series/movies: the check that all belong to the series, then
\* one transaction of updates by id, which fails when a movie is gone.
ReadReorder(q, u, s, list) ==
  /\ s \in live /\ CanManage(u, s)
  /\ \A i \in DOMAIN list : list[i] \in MoviesIn(s)
  /\ Call(q, [at |-> "reorder", into |-> s, list |-> list])
  /\ UNCHANGED rowVars

PlaceIn(list, m) == CHOOSE i \in DOMAIN list : list[i] = m
Listed(list) == {list[i] : i \in DOMAIN list}

Reorder(q) ==
  LET list == call[q].list
  IN  /\ CallAt(q, "reorder") /\ call[q].into \in Series
      /\ order' = IF Listed(list) \subseteq live
                  THEN [m \in Movies |-> IF m \in Listed(list) THEN PlaceIn(list, m) ELSE order[m]]
                  ELSE order
      /\ Answered(q)
      /\ UNCHANGED <<live, seriesId, entry, shelf>>

\* DELETE /series/:series: the movies are unlinked, and then the row is deleted,
\* whose foreign key unlinks what was added in between.
Unlink(q, u, s) ==
  /\ s \in live /\ CanManage(u, s)
  /\ seriesId' = [m \in Movies |-> IF seriesId[m] = s THEN None ELSE seriesId[m]]
  /\ Call(q, [at |-> "delete", into |-> s])
  /\ UNCHANGED <<live, order, entry, shelf>>

DeleteSeries(q) ==
  LET s == call[q].into
  IN  /\ CallAt(q, "delete")
      /\ live' = live \ {s}
      /\ seriesId' = [m \in Movies |-> IF seriesId[m] = s THEN None ELSE seriesId[m]]
      /\ Answered(q)
      /\ UNCHANGED <<order, entry, shelf>>

\* Mutant: the series of the edit is not checked.
ReadMovieEditUnchecked(q, u, m, asked) ==
  /\ m \in live /\ CanManage(u, m)
  /\ asked \in Series => asked \in live
  /\ Call(q, [at |-> "edit", into |-> IF asked = "keep" THEN seriesId[m] ELSE asked,
               movie |-> m, order |-> order[m]])
  /\ UNCHANGED rowVars

\* PATCH /movies/:movie: a series it names must be the caller's
\* (assertCanManageSeries); what it leaves out is written back as read.
ReadMovieEdit(q, u, m, asked) ==
  /\ m \in live /\ CanManage(u, m)
  /\ asked \in Series => asked \in live /\ CanManage(u, asked)
  /\ Call(q, [at |-> "edit", into |-> IF asked = "keep" THEN seriesId[m] ELSE asked,
               movie |-> m, order |-> order[m]])
  /\ UNCHANGED rowVars

WriteMovieEdit(q) ==
  LET r == call[q]
  IN  /\ CallAt(q, "edit")
      /\ IF r.movie \in live /\ (r.into # None => r.into \in live)
         THEN /\ seriesId' = [seriesId EXCEPT ![r.movie] = r.into]
              /\ order' = [order EXCEPT ![r.movie] = r.order]
         ELSE UNCHANGED <<seriesId, order>>
      /\ Answered(q)
      /\ UNCHANGED <<live, entry, shelf>>

\* DELETE /movies/:movie, with its rows in playlists.
RemoveMovie(u, m) ==
  /\ m \in live /\ CanManage(u, m)
  /\ live' = live \ {m}
  /\ seriesId' = [seriesId EXCEPT ![m] = None]
  /\ order' = [order EXCEPT ![m] = 0]
  /\ entry' = [p \in Playlists |-> [entry[p] EXCEPT ![m] = 0]]
  /\ UNCHANGED <<call, shelf>>

-----------------------------------------------------------------------------
\* POST /playlists/:playlist/movies: any movie the caller can view; the primary
\* key refuses a second row.
ReadListAdd(q, u, p, m) ==
  /\ {p, m} \subseteq live /\ CanManage(u, p)
  /\ entry[p][m] = 0
  /\ Call(q, [at |-> "max", into |-> p, movie |-> m])
  /\ UNCHANGED rowVars

InsertEntry(q) ==
  LET r == call[q]
  IN  /\ CallAt(q, "attach") /\ r.into \in Playlists
      /\ entry' = IF {r.movie, r.into} \subseteq live /\ entry[r.into][r.movie] = 0
                  THEN [entry EXCEPT ![r.into][r.movie] = r.order] ELSE entry
      /\ Answered(q)
      /\ UNCHANGED <<live, seriesId, order, shelf>>

\* DELETE /playlists/:playlist/movies/:movie
RemoveEntry(u, p, m) ==
  /\ p \in live /\ CanManage(u, p) /\ entry[p][m] # 0
  /\ entry' = [entry EXCEPT ![p][m] = 0]
  /\ UNCHANGED <<live, seriesId, order, call, shelf>>

\* PATCH /playlists/:playlist/movies: unchecked, one update for each movie, all
\* in flight together; an update of a row that is not there does nothing.
ReadListOrder(q, u, p, list) ==
  /\ p \in live /\ CanManage(u, p)
  /\ Call(q, [at |-> "entries", into |-> p, list |-> list, todo |-> DOMAIN list])
  /\ UNCHANGED rowVars

UpdateEntry(q) ==
  LET r == call[q]
  IN  /\ CallAt(q, "entries")
      /\ \E i \in r.todo :
           /\ entry' = [entry EXCEPT ![r.into][r.list[i]] = IF @ = 0 THEN 0 ELSE i]
           /\ IF r.todo = {i} THEN Answered(q) ELSE Proceed(q, [r EXCEPT !.todo = @ \ {i}])
      /\ UNCHANGED <<live, seriesId, order, shelf>>

\* DELETE /playlists/:playlist, with its rows.
DeletePlaylist(u, p) ==
  /\ p \in live /\ CanManage(u, p)
  /\ live' = live \ {p}
  /\ entry' = [entry EXCEPT ![p] = [m \in Movies |-> 0]]
  /\ UNCHANGED <<seriesId, order, call, shelf>>

\* A call to the database fails, and the request with it.
CallFails(q) == call[q] # None /\ Answered(q) /\ UNCHANGED rowVars

CatalogueStep(q) ==
  \/ ReadMax(q) \/ Attach(q) \/ Reorder(q) \/ DeleteSeries(q) \/ WriteMovieEdit(q)
  \/ InsertEntry(q) \/ UpdateEntry(q) \/ CallFails(q)

CatalogueNext ==
  \/ \E q \in Slots : CatalogueStep(q)
  \/ \E u \in Users, x \in Series \cup Playlists : Create(u, x)
  \/ \E q \in Slots, u \in Users, s \in Series :
       \/ \E m \in Movies : ReadAdd(q, u, s, m)
       \/ \E list \in Lists(Movies) : ReadReorder(q, u, s, list)
       \/ Unlink(q, u, s)
  \/ \E u \in Users, s \in Series, m \in Movies : Detach(u, s, m)
  \/ \E q \in Slots, u \in Users, m \in Movies, asked \in Series \cup {None, "keep"} :
       ReadMovieEdit(q, u, m, asked)
  \/ \E u \in Users, m \in Movies : RemoveMovie(u, m)
  \/ \E q \in Slots, u \in Users, p \in Playlists :
       \/ \E m \in Movies : ReadListAdd(q, u, p, m)
       \/ \E list \in Lists(Movies) : ReadListOrder(q, u, p, list)
  \/ \E u \in Users, p \in Playlists : DeletePlaylist(u, p) \/ \E m \in Movies : RemoveEntry(u, p, m)

CatalogueSpec == CatalogueInit /\ [][CatalogueNext]_catalogueVars

-----------------------------------------------------------------------------
CatalogueTypeOK ==
  /\ live \subseteq Movies \cup Series \cup Playlists
  /\ seriesId \in [Movies -> Series \cup {None}]
  /\ order \in [Movies -> Nat]
  /\ entry \in [Playlists -> [Movies -> Nat]]

\* "Nobody can inject movies into another user's series" (movieAuth.ts:37-38):
\* a movie is in a series only if one user manages both, however edits, moves
\* and deletions overlap; and the series exists.
AttachedByManager ==
  \A m \in Movies : seriesId[m] # None =>
    /\ seriesId[m] \in live
    /\ \E u \in Users : CanManage(u, m) /\ CanManage(u, seriesId[m])
=============================================================================
