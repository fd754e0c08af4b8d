------------------------------ MODULE Accounts ------------------------------
(***************************************************************************)
(* Logins and profiles: the profile that is provisioned when an identity   *)
(* is first seen (auth-profile.ts, called by the session hook of auth.ts   *)
(* and by middleware/auth.ts), the additional profiles of an account       *)
(* (users/profiles.ts), and the system accounts (system-accounts.ts).      *)
(*                                                                         *)
(* The database is its rows and its unique keys.  A serializable           *)
(* transaction that has counted the rows of an account holds a shared lock *)
(* on them: of two that both want to insert, MySQL makes one the victim    *)
(* of a deadlock, which Prisma reports as P2034.                           *)
(***************************************************************************)
EXTENDS Naturals, FiniteSets

CONSTANTS
  AuthIds,        \* the identities of Better Auth
  UserIds,        \* bound: the rows of User
  Usernames,      \* bound: the names that are asked for
  Films,          \* bound: the movies made as a system account
  MaxProfiles,    \* MAX_ADDITIONAL_PROFILES
  MaxAttempts,    \* of the transaction
  Callers,        \* bound: the requests in flight
  NoRow

ASSUME AccountsAssumption ==
  /\ MaxProfiles \in Nat /\ MaxAttempts \in Nat \ {0}
  /\ NoRow \notin UserIds \cup AuthIds \cup Usernames
  /\ NoRow \notin [kind : {"HUMAN", "SYSTEM", "GONE"}, auth : AuthIds \cup {NoRow},
                   name : Usernames \cup AuthIds \cup {NoRow}]
  /\ IsFiniteSet(UserIds)

VARIABLES
  user,      \* User: kind, login and name of each row
  link,      \* AuthProfile: the account an additional profile belongs to
  film,      \* the author of each movie
  stored,    \* the movies whose file is in a bucket
  signedIn,  \* the identities a session was issued for
  caller     \* the requests in flight; "failed" is an answer of 500

accountVars == <<user, link, film, stored, signedIn, caller>>
accountRows == <<user, link, film, stored, signedIn>>

AccountsInit ==
  /\ user = [i \in UserIds |-> NoRow]
  /\ link = [i \in UserIds |-> NoRow]
  /\ film = [f \in Films |-> NoRow]
  /\ stored = {} /\ signedIn = {}
  /\ caller = [c \in Callers |-> NoRow]

-----------------------------------------------------------------------------
\* The id of a deleted row is not used again.
Exists(i) == user[i] # NoRow /\ user[i].kind # "GONE"
DefaultProfiles(a) == {i \in UserIds : Exists(i) /\ user[i].auth = a}
Additional(a) == {i \in UserIds : link[i] = a}
Taken(n) == \E i \in UserIds : Exists(i) /\ user[i].name = n
HasSpace == \E i \in UserIds : user[i] = NoRow
NewId == CHOOSE i \in UserIds : user[i] = NoRow
Row(kind, a, n) == [kind |-> kind, auth |-> a, name |-> n]

CallerAt(c, label) == caller[c] # NoRow /\ caller[c].at = label
CallerGo(c, next) == caller' = [caller EXCEPT ![c] = next]
CallerDone(c) == CallerGo(c, NoRow)
CallerFails(c) == CallerGo(c, [caller[c] EXCEPT !.at = "failed"])

-----------------------------------------------------------------------------
\* provisionAuthProfile, before a session is issued and in every request of one.

\* What the caller was waiting for a profile to do.
Provisioned(c, a, goal) ==
  /\ signedIn' = IF goal = "session" THEN signedIn \cup {a} ELSE signedIn
  /\ CallerDone(c)

FindProfile(c, a, goal) ==
  /\ caller[c] = NoRow /\ (goal = "request" => a \in signedIn)
  /\ IF DefaultProfiles(a) # {}
     THEN Provisioned(c, a, goal)
     ELSE CallerGo(c, [at |-> "provision", auth |-> a, goal |-> goal]) /\ UNCHANGED signedIn
  /\ UNCHANGED <<user, link, film, stored>>

\* Mutant: a violated unique key is an error like any other.
ProvisionNoReread(c) ==
  LET r == caller[c]
  IN  /\ CallerAt(c, "provision")
      /\ IF DefaultProfiles(r.auth) = {}
         THEN /\ HasSpace /\ user' = [user EXCEPT ![NewId] = Row("HUMAN", r.auth, r.auth)]
              /\ Provisioned(c, r.auth, r.goal)
         ELSE CallerFails(c) /\ UNCHANGED <<user, signedIn>>
      /\ UNCHANGED <<link, film, stored>>

\* The create; its name carries a hash of the identity and is nobody else's.
Provision(c) ==
  LET r == caller[c]
  IN  /\ CallerAt(c, "provision")
      /\ IF DefaultProfiles(r.auth) = {}
         THEN /\ HasSpace /\ user' = [user EXCEPT ![NewId] = Row("HUMAN", r.auth, r.auth)]
              /\ Provisioned(c, r.auth, r.goal)
         ELSE CallerGo(c, [r EXCEPT !.at = "reread"]) /\ UNCHANGED <<user, signedIn>>
      /\ UNCHANGED <<link, film, stored>>

\* P2002: a concurrent first request created the row.
ReadAgain(c) ==
  LET r == caller[c]
  IN  /\ CallerAt(c, "reread")
      /\ IF DefaultProfiles(r.auth) # {}
         THEN Provisioned(c, r.auth, r.goal)
         ELSE CallerFails(c) /\ UNCHANGED signedIn
      /\ UNCHANGED <<user, link, film, stored>>

-----------------------------------------------------------------------------
\* POST /users/profiles

Counting(a, n, attempt) == [at |-> "count", auth |-> a, name |-> n, attempt |-> attempt]

AskProfile(c, a, n) ==
  /\ caller[c] = NoRow /\ a \in signedIn /\ DefaultProfiles(a) # {} /\ ~Taken(n)
  /\ CallerGo(c, Counting(a, n, 0))
  /\ UNCHANGED accountRows

CountProfiles(c) ==
  /\ CallerAt(c, "count")
  /\ IF Cardinality(Additional(caller[c].auth)) >= MaxProfiles
     THEN CallerDone(c)
     ELSE CallerGo(c, [caller[c] EXCEPT !.at = "insert"])
  /\ UNCHANGED accountRows

\* Another transaction has counted the same rows, and holds the lock on them.
Contended(c) ==
  \E d \in Callers \ {c} : CallerAt(d, "insert") /\ caller[d].auth = caller[c].auth

Victim(c) ==
  /\ CallerAt(c, "insert") /\ Contended(c)
  /\ IF caller[c].attempt + 1 < MaxAttempts
     THEN CallerGo(c, Counting(caller[c].auth, caller[c].name, caller[c].attempt + 1))
     ELSE CallerFails(c)
  /\ UNCHANGED accountRows

\* Mutant: the transaction is not serializable.
InsertProfileUnlocked(c) ==
  LET r == caller[c]
  IN  /\ CallerAt(c, "insert")
      /\ IF Taken(r.name)
         THEN UNCHANGED <<user, link>>
         ELSE /\ HasSpace
              /\ user' = [user EXCEPT ![NewId] = Row("HUMAN", NoRow, r.name)]
              /\ link' = [link EXCEPT ![NewId] = r.auth]
      /\ CallerDone(c)
      /\ UNCHANGED <<film, stored, signedIn>>

\* The profile and its membership, or the answer 400 when the name is taken.
InsertProfile(c) ==
  LET r == caller[c]
  IN  /\ CallerAt(c, "insert") /\ ~Contended(c)
      /\ IF Taken(r.name)
         THEN UNCHANGED <<user, link>>
         ELSE /\ HasSpace
              /\ user' = [user EXCEPT ![NewId] = Row("HUMAN", NoRow, r.name)]
              /\ link' = [link EXCEPT ![NewId] = r.auth]
      /\ CallerDone(c)
      /\ UNCHANGED <<film, stored, signedIn>>

-----------------------------------------------------------------------------
\* System accounts: users without a login, which admins act for.

AskSystem(c, n) ==
  /\ caller[c] = NoRow /\ ~Taken(n)
  /\ CallerGo(c, [at |-> "system", name |-> n])
  /\ UNCHANGED accountRows

\* The unique key refuses a name taken since; nothing turns that into a 400.
CreateSystem(c) ==
  /\ CallerAt(c, "system")
  /\ IF Taken(caller[c].name)
     THEN CallerFails(c) /\ UNCHANGED user
     ELSE /\ HasSpace /\ user' = [user EXCEPT ![NewId] = Row("SYSTEM", NoRow, caller[c].name)]
          /\ CallerDone(c)
  /\ UNCHANGED <<link, film, stored, signedIn>>

IsSystem(i) == Exists(i) /\ user[i].kind = "SYSTEM"

\* POST /upload/init as a system account: resolveAuthorId, then the movie.
AskFilm(c, i) ==
  /\ caller[c] = NoRow /\ IsSystem(i)
  /\ CallerGo(c, [at |-> "film", author |-> i])
  /\ UNCHANGED accountRows

CreateFilm(c) ==
  LET i == caller[c].author
  IN  /\ CallerAt(c, "film")
      /\ IF ~Exists(i)
         THEN CallerFails(c) /\ UNCHANGED <<film, stored>>
         ELSE \E f \in Films \ stored :
                /\ film' = [film EXCEPT ![f] = i]
                /\ stored' = stored \cup {f}
                /\ CallerDone(c)
      /\ UNCHANGED <<user, link, signedIn>>

\* DELETE /system-accounts/:id: the checks and the list of the files, the
\* transaction over all that belongs to it, and the files, errors only logged.
ListFilms(c, i) ==
  /\ caller[c] = NoRow /\ IsSystem(i) /\ user[i].auth = NoRow
  /\ CallerGo(c, [at |-> "drop", author |-> i, files |-> {f \in Films : film[f] = i}])
  /\ UNCHANGED accountRows

DropSystem(c) ==
  LET i == caller[c].author
  IN  /\ CallerAt(c, "drop")
      /\ IF Exists(i)
         THEN /\ user' = [user EXCEPT ![i] = Row("GONE", NoRow, NoRow)]
              /\ film' = [f \in Films |-> IF film[f] = i THEN NoRow ELSE film[f]]
              /\ CallerGo(c, [caller[c] EXCEPT !.at = "files"])
         ELSE CallerFails(c) /\ UNCHANGED <<user, film>>
      /\ UNCHANGED <<link, stored, signedIn>>

DropFiles(c) ==
  /\ CallerAt(c, "files")
  /\ \E gone \in SUBSET caller[c].files : stored' = stored \ gone
  /\ CallerDone(c)
  /\ UNCHANGED <<user, link, film, signedIn>>

-----------------------------------------------------------------------------
\* The connection of a failed request is closed.
Hangup(c) == CallerAt(c, "failed") /\ CallerDone(c) /\ UNCHANGED accountRows

AccountsNext ==
  \E c \in Callers :
    \/ \E a \in AuthIds, goal \in {"session", "request"} : FindProfile(c, a, goal)
    \/ \E a \in AuthIds, n \in Usernames : AskProfile(c, a, n)
    \/ \E n \in Usernames : AskSystem(c, n)
    \/ \E i \in UserIds : AskFilm(c, i) \/ ListFilms(c, i)
    \/ Provision(c) \/ ReadAgain(c) \/ CountProfiles(c) \/ InsertProfile(c) \/ Victim(c)
    \/ CreateSystem(c) \/ CreateFilm(c) \/ DropSystem(c) \/ DropFiles(c) \/ Hangup(c)

AccountsSpec == AccountsInit /\ [][AccountsNext]_accountVars

-----------------------------------------------------------------------------
AccountsTypeOK ==
  /\ \A i \in UserIds : Exists(i) =>
       /\ user[i].kind \in {"HUMAN", "SYSTEM"} /\ user[i].auth \in AuthIds \cup {NoRow}
       /\ user[i].name \in Usernames \cup AuthIds
  /\ link \in [UserIds -> AuthIds \cup {NoRow}]
  /\ film \in [Films -> UserIds \cup {NoRow}]
  /\ stored \subseteq Films /\ signedIn \subseteq AuthIds

\* However many requests race, an account has at most MAX_ADDITIONAL_PROFILES
\* additional profiles (profiles.ts:67-74): the count is of rows nobody inserts
\* beside until the transaction ends.
ProfileCap == \A a \in AuthIds : Cardinality(Additional(a)) <= MaxProfiles

\* The first requests of an identity, however many at once, all get its one
\* profile: none of them fails, and no session is without a profile ("a
\* concurrent first request created the row", auth-profile.ts:52-60).
FirstRequestsAgree ==
  /\ \A a \in AuthIds : Cardinality(DefaultProfiles(a)) <= 1
  /\ \A a \in signedIn : DefaultProfiles(a) # {}
  /\ \A c \in Callers : CallerAt(c, "failed") => "goal" \notin DOMAIN caller[c]
=============================================================================
