------------------------------ MODULE Sharing ------------------------------
(***************************************************************************)
(* Who sees what, and how access is given: the visibility filters of the   *)
(* lists and of the single views (buildVisibilityFilter.ts, suggest.ts,    *)
(* movies/[movie].ts), the edits of a visibility (me.ts, movies/[movie].ts)*)
(* and the invitations to view (invitations.ts).                           *)
(*                                                                         *)
(* Two targets are followed: a movie, and the profile of its author.  A    *)
(* request is its reads, one step each, and its write; other requests run  *)
(* between them.  Where nothing else can change the answer, neighbouring   *)
(* reads are one step.                                                     *)
(***************************************************************************)
EXTENDS Naturals, FiniteSets

CONSTANTS
  Accounts, Profiles,
  AccountOf,      \* the account of each profile
  DefaultOf,      \* the default profile of each account, always public
  Admins,         \* the accounts whose default profile has the role ADMIN
  Author,         \* an additional profile, which has made the movie
  Settings,        \* bound: the visibilities a request sets
  Invitees,       \* bound: the accounts that are invited
  InvitationIds,  \* bound: the rows of AccessInvitation
  Requests,       \* bound: the requests in flight
  Nobody          \* no user, no row, no profile

ASSUME SharingAssumption ==
  /\ AccountOf \in [Profiles -> Accounts]
  /\ DefaultOf \in [Accounts -> Profiles]
  /\ \A a \in Accounts : AccountOf[DefaultOf[a]] = a
  /\ Admins \subseteq Accounts
  /\ Author \in Profiles /\ Author # DefaultOf[AccountOf[Author]]
  /\ Nobody \notin Accounts \cup Profiles

Visibilities == {"PUBLIC", "UNLISTED", "PRIVATE", "LIMITED"}
ASSUME BoundsAssumption == Settings \subseteq Visibilities /\ Invitees \subseteq Accounts

SharedTargets == {"movie", "profile"}
Requesters == Profiles \cup {Nobody}

VARIABLES
  visibility,  \* of each target, "deleted" once the movie is
  viewers,     \* the rows of MovieViewer and ProfileViewer
  invitation,  \* the rows of AccessInvitation; ids are not used twice
  request      \* the requests in flight, Nobody where there is none

sharingVars == <<visibility, viewers, invitation, request>>

-----------------------------------------------------------------------------
\* The filters: u is the requester, Nobody without a session, and v says of which
\* of the targets it is a viewer; mv and pv are the visibilities of a movie (or
\* series, or playlist) and of its author's profile.

IsAdmin(u) == u # Nobody /\ AccountOf[u] \in Admins
IsAuthor(u) == u = Author
SharedProfile(pv, v) == pv \in {"LIMITED", "PRIVATE"} /\ "profile" \in v

CanViewProfile(pv, u, v) ==
  pv \in {"PUBLIC", "UNLISTED"} \/ IsAdmin(u) \/ IsAuthor(u) \/ SharedProfile(pv, v)

CanViewOwnedEntity(mv, pv, u, v) ==
  /\ mv \in {"PUBLIC", "UNLISTED"} \/ IsAdmin(u) \/ IsAuthor(u)
  /\ CanViewProfile(pv, u, v)

CanViewMovie(mv, pv, u, v) ==
  /\ \/ mv \in {"PUBLIC", "UNLISTED"} \/ IsAdmin(u) \/ IsAuthor(u)
     \/ mv = "LIMITED" /\ "movie" \in v
  /\ CanViewProfile(pv, u, v)

\* GET /movies/:movie: until a variant is ready, only the author and admins.
ShowMovie(mv, pv, ready, u, v) ==
  CanViewMovie(mv, pv, u, v) /\ (ready \/ IsAuthor(u) \/ IsAdmin(u))

Anyone(unlisted) == IF unlisted THEN {"PUBLIC", "UNLISTED"} ELSE {"PUBLIC"}

\* buildProfileAccessFilter
ProfileAccess(pv, unlisted, u, v) ==
  pv \in Anyone(unlisted) \/ IsAdmin(u) \/ IsAuthor(u) \/ SharedProfile(pv, v)

\* Mutant: only the public clause wants a ready variant.
InFilterLimitedUnready(mv, pv, ready, limited, unlisted, u, v) ==
  \/ IsAdmin(u) \/ IsAuthor(u)
  \/ ready /\ mv \in Anyone(unlisted) /\ ProfileAccess(pv, unlisted, u, v)
  \/ limited /\ mv = "LIMITED" /\ "movie" \in v /\ ProfileAccess(pv, unlisted, u, v)

\* buildAccessFilter; ready is TRUE where the filter does not ask for it.
InFilter(mv, pv, ready, limited, unlisted, u, v) ==
  \/ IsAdmin(u) \/ IsAuthor(u)
  \/ ready /\ mv \in Anyone(unlisted) /\ ProfileAccess(pv, unlisted, u, v)
  \/ /\ limited /\ ready /\ mv = "LIMITED" /\ "movie" \in v
     /\ ProfileAccess(pv, unlisted, u, v)

\* buildMovieAccessWhere; the list of movies, with readyOrOwnMovieFilter; the
\* lists of series and playlists; their suggestions, which are SQL of their own.
MovieInContainer(mv, pv, ready, u, v) == InFilter(mv, pv, ready, TRUE, TRUE, u, v)
ReadyOrOwn(ready, u) == ready \/ IsAuthor(u) \/ IsAdmin(u)
MovieInList(mv, pv, ready, u, v) ==
  InFilter(mv, pv, TRUE, TRUE, FALSE, u, v) /\ ReadyOrOwn(ready, u)
EntityInList(mv, pv, u, v) == InFilter(mv, pv, TRUE, FALSE, FALSE, u, v)
Suggested(mv, pv, u, v) ==
  \/ IsAdmin(u) \/ IsAuthor(u)
  \/ mv = "PUBLIC" /\ (pv = "PUBLIC" \/ "profile" \in v)

\* A movie inside a series or playlist of the same author, whose visibility is cv:
\* GET /series/:series and /series/:series/movies, GET /playlists/:playlist, and
\* the movies that the list of series carries along.
SeriesShows(cv, mv, pv, ready, u, v) ==
  CanViewOwnedEntity(cv, pv, u, v) /\ MovieInContainer(mv, pv, ready, u, v)
SeriesMoviesShows(cv, mv, pv, ready, u, v) ==
  CanViewOwnedEntity(cv, pv, u, v) /\ MovieInContainer(mv, pv, ready, u, v)
PlaylistShows(cv, mv, pv, ready, u, v) ==
  CanViewOwnedEntity(cv, pv, u, v) /\ MovieInContainer(mv, pv, ready, u, v)
SeriesListShows(cv, mv, pv, ready, u, v) ==
  EntityInList(cv, pv, u, v) /\ MovieInContainer(mv, pv, ready, u, v)

\* The search for users.
Searchable(pv, u) == pv = "PUBLIC" \/ IsAuthor(u) \/ IsAdmin(u)

-----------------------------------------------------------------------------
NoInvitation == [target |-> "movie", invitee |-> Nobody, status |-> "NONE", granted |-> Nobody]
Standing(i) == invitation[i].status \in {"PENDING", "ACCEPTED", "DECLINED"}
Pending(i) == invitation[i].status = "PENDING"

SharingInit ==
  /\ visibility \in [SharedTargets -> Settings]
  /\ viewers = [t \in SharedTargets |-> {}]
  /\ invitation = [i \in InvitationIds |-> NoInvitation]
  /\ request = [q \in Requests |-> Nobody]

ArriveRequest(q, next) == request[q] = Nobody /\ request' = [request EXCEPT ![q] = next]
RequestAt(q, kind, label) == request[q] # Nobody /\ request[q].kind = kind /\ request[q].at = label
LeaveRequest(q) == request' = [request EXCEPT ![q] = Nobody]

\* canManageOwned for the movie (its author is no system account), ownership of
\* the account for the profile.
MayShare(u, t) ==
  IF t = "movie" THEN u = Author ELSE AccountOf[u] = AccountOf[Author]

\* POST /invitations: the account is found by any of its profiles.
Invite(q, u, t, invitee) ==
  /\ visibility[t] # "deleted" /\ MayShare(u, t)
  /\ invitee # AccountOf[u]
  /\ \A i \in InvitationIds :
       Pending(i) => invitation[i].target # t \/ invitation[i].invitee # invitee
  /\ ArriveRequest(q, [kind |-> "invite", at |-> "write", target |-> t, invitee |-> invitee])
  /\ UNCHANGED <<visibility, viewers, invitation>>

CreateInvitation(q) ==
  /\ RequestAt(q, "invite", "write")
  /\ \E i \in InvitationIds :
       /\ invitation[i].status = "NONE"
       /\ invitation' = [invitation EXCEPT ![i] =
            [target |-> request[q].target, invitee |-> request[q].invitee,
             status |-> "PENDING", granted |-> Nobody]]
  /\ LeaveRequest(q)
  /\ UNCHANGED <<visibility, viewers>>

\* POST /invitations/:id/accept and /decline: the invitation, and the profiles
\* of the account.
ReadAnswer(q, u, i, chosen, kind) ==
  /\ Pending(i) /\ invitation[i].invitee = AccountOf[u]
  /\ IF kind = "accept" THEN AccountOf[chosen] = AccountOf[u] ELSE chosen = u
  /\ ArriveRequest(q, [kind |-> kind, at |-> IF kind = "accept" THEN "check" ELSE "write",
                id |-> i, target |-> invitation[i].target,
                profile |-> IF kind = "accept" THEN chosen ELSE Nobody])
  /\ UNCHANGED <<visibility, viewers, invitation>>

\* targetIsShareable
Shareable(t) ==
  visibility[t] \in IF t = "movie" THEN {"LIMITED"} ELSE {"LIMITED", "PRIVATE"}

CheckShareable(q) ==
  /\ RequestAt(q, "accept", "check")
  /\ IF Shareable(request[q].target)
     THEN request' = [request EXCEPT ![q].at = "write"]
     ELSE LeaveRequest(q)
  /\ UNCHANGED <<visibility, viewers, invitation>>

\* Mutant: updateMany, which does not fail on a missing row.
GrantUnfenced(q) ==
  /\ RequestAt(q, "accept", "write")
  /\ LET r == request[q]
     IN  IF visibility[r.target] # "deleted"
         THEN /\ viewers' = [viewers EXCEPT ![r.target] = @ \cup {r.profile}]
              /\ invitation' = [invitation EXCEPT ![r.id] =
                   IF ~Standing(r.id) THEN @ ELSE [@ EXCEPT !.status = "ACCEPTED", !.granted = r.profile]]
         ELSE UNCHANGED <<viewers, invitation>>
  /\ LeaveRequest(q)
  /\ UNCHANGED visibility

\* The transaction: a missing target or a missing invitation rolls it back.
Grant(q) ==
  /\ RequestAt(q, "accept", "write")
  /\ LET r == request[q]
     IN  IF visibility[r.target] # "deleted" /\ Standing(r.id)
         THEN /\ viewers' = [viewers EXCEPT ![r.target] = @ \cup {r.profile}]
              /\ invitation' = [invitation EXCEPT ![r.id].status = "ACCEPTED",
                                                  ![r.id].granted = r.profile]
         ELSE UNCHANGED <<viewers, invitation>>
  /\ LeaveRequest(q)
  /\ UNCHANGED visibility

DeclineInvitation(q) ==
  /\ RequestAt(q, "decline", "write")
  /\ LET i == request[q].id
     IN  IF Standing(i)
         THEN invitation' = [invitation EXCEPT ![i].status = "DECLINED"]
         ELSE UNCHANGED invitation
  /\ LeaveRequest(q)
  /\ UNCHANGED <<visibility, viewers>>

\* DELETE /invitations/:id.  The inviter of a profile is the profile, of a movie
\* its author: here the account of Author either way.
ReadCancel(q, u, i) ==
  /\ Pending(i) /\ AccountOf[u] = AccountOf[Author]
  /\ ArriveRequest(q, [kind |-> "cancel", at |-> "write", id |-> i])
  /\ UNCHANGED <<visibility, viewers, invitation>>

CancelInvitation(q) ==
  /\ RequestAt(q, "cancel", "write")
  /\ invitation' = [invitation EXCEPT ![request[q].id].status = "CANCELLED"]
  /\ LeaveRequest(q)
  /\ UNCHANGED <<visibility, viewers>>

\* PATCH /me (by the profile itself, which is no default profile) and PATCH
\* /movies/:movie: every field the request leaves out is written back as read.
ReadVisibility(q, t, asked) ==
  /\ visibility[t] # "deleted"
  /\ ArriveRequest(q, [kind |-> "edit", at |-> "write", target |-> t,
                value |-> IF asked = Nobody THEN visibility[t] ELSE asked])
  /\ UNCHANGED <<visibility, viewers, invitation>>

WriteVisibility(q) ==
  /\ RequestAt(q, "edit", "write")
  /\ LET r == request[q]
     IN  visibility' = [visibility EXCEPT ![r.target] = IF @ = "deleted" THEN @ ELSE r.value]
  /\ LeaveRequest(q)
  /\ UNCHANGED <<viewers, invitation>>

\* DELETE /movies/:movie takes the viewer rows along, and leaves the invitations.
DropMovie ==
  /\ visibility["movie"] # "deleted"
  /\ visibility' = [visibility EXCEPT !["movie"] = "deleted"]
  /\ viewers' = [viewers EXCEPT !["movie"] = {}]
  /\ UNCHANGED <<invitation, request>>

\* A call to the database fails, and the request with it.
RequestFails(q) ==
  /\ request[q] # Nobody
  /\ LeaveRequest(q)
  /\ UNCHANGED <<visibility, viewers, invitation>>

SharingNext ==
  \/ \E q \in Requests :
       \/ \E u \in Profiles, t \in SharedTargets, a \in Invitees : Invite(q, u, t, a)
       \/ \E u, p \in Profiles, i \in InvitationIds, kind \in {"accept", "decline"} :
            ReadAnswer(q, u, i, p, kind)
       \/ \E u \in Profiles, i \in InvitationIds : ReadCancel(q, u, i)
       \/ \E t \in SharedTargets, asked \in Settings \cup {Nobody} : ReadVisibility(q, t, asked)
       \/ CreateInvitation(q) \/ CheckShareable(q) \/ Grant(q) \/ DeclineInvitation(q) \/ CancelInvitation(q)
       \/ WriteVisibility(q) \/ RequestFails(q)
  \/ DropMovie

SharingSpec == SharingInit /\ [][SharingNext]_sharingVars

-----------------------------------------------------------------------------
InvitationRow ==
  [target : SharedTargets, invitee : Accounts \cup {Nobody}, granted : Requesters,
   status : {"NONE", "PENDING", "ACCEPTED", "DECLINED", "CANCELLED"}]

SharingTypeOK ==
  /\ visibility \in [SharedTargets -> Visibilities \cup {"deleted"}]
  /\ viewers \in [SharedTargets -> SUBSET Profiles]
  /\ invitation \in [InvitationIds -> InvitationRow]
  /\ \A q \in Requests : request[q] # Nobody =>
       request[q].kind \in {"invite", "accept", "decline", "cancel", "edit"}

\* What is suggested and not listed: the SQL of the suggestions counts the rows of
\* ProfileViewer whatever the visibility of the profile, the filter of the lists
\* for a LIMITED or PRIVATE one only.
OnlySuggested(mv, pv, v) == mv = "PUBLIC" /\ pv = "UNLISTED" /\ "profile" \in v

\* What the filters promise each other, for a requester and what it is a viewer of.
Agree(u, v) ==
  \A pv, mv \in Visibilities :
    /\ Searchable(pv, u) => CanViewProfile(pv, u, v)
    /\ Suggested(mv, pv, u, v) <=> EntityInList(mv, pv, u, v) \/ OnlySuggested(mv, pv, v)
    /\ Suggested(mv, pv, u, v) => CanViewOwnedEntity(mv, pv, u, v)
    /\ \A ready \in BOOLEAN :
         /\ MovieInContainer(mv, pv, ready, u, v) <=> ShowMovie(mv, pv, ready, u, v)
         /\ MovieInList(mv, pv, ready, u, v) => ShowMovie(mv, pv, ready, u, v)
         /\ \A cv \in Visibilities :
              /\ SeriesListShows(cv, mv, pv, ready, u, v) => SeriesShows(cv, mv, pv, ready, u, v)
              /\ SeriesShows(cv, mv, pv, ready, u, v) <=> SeriesMoviesShows(cv, mv, pv, ready, u, v)
              /\ SeriesShows(cv, mv, pv, ready, u, v) <=> PlaylistShows(cv, mv, pv, ready, u, v)
              /\ ShowMovie(mv, pv, ready, u, v) /\ CanViewOwnedEntity(cv, pv, u, v)
                   => SeriesShows(cv, mv, pv, ready, u, v)
Verdicts == {<<u, v, Agree(u, v)>> : u \in Requesters, v \in SUBSET SharedTargets}

\* The five places that decide who sees a movie, a series or a playlist agree:
\* what a container or a list shows, the single view shows; a container hides
\* nothing from those who could open it; the suggestions are those of the list,
\* but for what OnlySuggested says; and nothing is suggested that could not be
\* opened (buildVisibilityFilter.ts:70-73, 159-166; suggest.ts:37-47).
ViewedBy(u) == {t \in SharedTargets : u \in viewers[t]}
AccessAgrees == \A u \in Requesters : <<u, ViewedBy(u), TRUE>> \in Verdicts

\* "Suggestions are capped by the author profile's visibility, exactly like
\* buildVisibilityFilter" (suggest.ts:37-38): the author's entities of any
\* visibility are suggested to those who find them in the list.
SuggestedAsListed ==
  \A u \in Requesters, mv \in Visibilities :
    LET pv == visibility["profile"]
    IN  Suggested(mv, pv, u, ViewedBy(u)) <=> EntityInList(mv, pv, u, ViewedBy(u))

\* Access is only ever given by accepting an invitation that stands: one that
\* was cancelled in the meantime gives none (invitations.ts:276-304).
GrantNeedsInvitation ==
  [][\A t \in SharedTargets : \A p \in viewers'[t] \ viewers[t] :
       \E i \in InvitationIds :
         /\ Standing(i)
         /\ invitation[i].target = t /\ invitation[i].invitee = AccountOf[p]
         /\ invitation'[i].status = "ACCEPTED" /\ invitation'[i].granted = p]_sharingVars
=============================================================================
