-------------------------- MODULE DatabaseProofs --------------------------
(***************************************************************************)
(* What the tables of the API keep, for any number of rows and of          *)
(* overlapping requests: accounts and profiles (Accounts), and the movies  *)
(* and series that belong to them (Catalogue).                             *)
(*                                                                         *)
(* The cap of additional profiles rests on the lock of the serializable    *)
(* transaction: what a request has counted stays true until it inserts     *)
(* (Room).  The first requests rest on the unique key: who is told that    *)
(* the row is there finds it (Provisioning), and nothing deletes the       *)
(* profile of a login (NoLogin).                                           *)
(*                                                                         *)
(* A request of the catalogue checks and writes in different steps, so its *)
(* invariant says of every request in flight that what it is about to      *)
(* write was allowed: who manages what never changes, which is why a check *)
(* that is out of date when it is used still protects (Permitted).         *)
(***************************************************************************)
EXTENDS Accounts, Catalogue, FiniteSetTheorems, TLAPS

RowOK(r) ==
  r \in [kind : {"HUMAN", "SYSTEM", "GONE"}, auth : AuthIds \cup {NoRow},
         name : Usernames \cup AuthIds \cup {NoRow}]

Tables ==
  /\ DOMAIN user = UserIds /\ \A i \in UserIds : user[i] = NoRow \/ RowOK(user[i])
  /\ DOMAIN link = UserIds /\ \A i \in UserIds : user[i] = NoRow => link[i] = NoRow
  /\ DOMAIN caller = Callers
  /\ signedIn \subseteq AuthIds

\* The records of the requests, by what they are for.
Provisioning(r) == r \in [at : {"provision", "reread"}, auth : AuthIds, goal : {"session", "request"}]
Adding(r) == r \in [at : {"count", "insert", "failed"}, auth : AuthIds, name : Usernames, attempt : Nat]
Other(r) ==
  \/ r \in [at : {"system", "failed"}, name : Usernames]
  \/ r \in [at : {"film", "failed"}, author : UserIds]
  \/ r \in [at : {"drop", "files", "failed"}, author : UserIds, files : SUBSET Films]

InFlight ==
  \A c \in Callers :
    caller[c] = NoRow \/ Provisioning(caller[c]) \/ Adding(caller[c]) \/ Other(caller[c])

\* A system account that is about to be deleted is nobody's profile.
NoLogin ==
  \A c \in Callers : CallerAt(c, "drop") =>
    user[caller[c].author] # NoRow /\ user[caller[c].author].auth = NoRow

Sole ==
  /\ \A a \in AuthIds : \A i, j \in DefaultProfiles(a) : i = j
  /\ \A a \in signedIn : DefaultProfiles(a) # {}
  /\ \A c \in Callers : CallerAt(c, "reread") => DefaultProfiles(caller[c].auth) # {}

\* The locked count: it is below the limit, and stays so until the insert.
Room ==
  /\ \A c \in Callers : CallerAt(c, "insert") =>
       Cardinality(Additional(caller[c].auth)) < MaxProfiles
  /\ ProfileCap

Shape == Tables /\ InFlight /\ NoLogin

-----------------------------------------------------------------------------
\* What CHOOSE gives.
LEMMA NewRow == ASSUME Tables, HasSpace PROVE NewId \in UserIds /\ user[NewId] = NoRow /\ link[NewId] = NoRow
<1>1. PICK i \in UserIds : user[i] = NoRow
  BY DEF HasSpace
<1>2. NewId \in UserIds /\ user[NewId] = NoRow
  BY <1>1 DEF NewId
<1> QED BY <1>2 DEF Tables

\* No value of a row is the missing row.
LEMMA RowExists == ASSUME NEW r, RowOK(r) PROVE r # NoRow
  BY AccountsAssumption DEF RowOK

\* A request that moves, and leaves the tables alone.
Fits(r) == r = NoRow \/ Provisioning(r) \/ Adding(r) \/ Other(r)

LEMMA Moves ==
  ASSUME Shape, NEW c \in Callers, NEW next, caller' = [caller EXCEPT ![c] = next],
         UNCHANGED <<user, link>>, signedIn' \subseteq AuthIds, Fits(next),
         next # NoRow /\ next.at = "drop" => user[next.author] # NoRow /\ user[next.author].auth = NoRow
  PROVE  Shape' /\ caller'[c] = next /\ \A d \in Callers \ {c} : caller'[d] = caller[d]
<1>1. Tables'
  BY DEF Shape, Tables, RowOK
<1>2. \A d \in Callers : caller'[d] = IF d = c THEN next ELSE caller[d]
  BY DEF Shape, Tables
<1>3. InFlight'
  BY <1>2 DEF Shape, InFlight, Fits, Provisioning, Adding, Other
<1>4. NoLogin'
  BY <1>2 DEF Shape, NoLogin, CallerAt
<1> QED BY <1>1, <1>2, <1>3, <1>4 DEF Shape

\* A request that moves, and adds a row.
LEMMA Grows ==
  ASSUME Shape, NEW c \in Callers, NEW next, caller' = [caller EXCEPT ![c] = next],
         HasSpace, NEW r, RowOK(r), user' = [user EXCEPT ![NewId] = r],
         UNCHANGED link \/ \E a \in AuthIds : link' = [link EXCEPT ![NewId] = a],
         signedIn' \subseteq AuthIds, Fits(next), next # NoRow => next.at # "drop"
  PROVE  Shape' /\ caller'[c] = next /\ \A d \in Callers \ {c} : caller'[d] = caller[d]
<1>1. NewId \in UserIds /\ user[NewId] = NoRow /\ r # NoRow
  BY NewRow, RowExists DEF Shape
<1>2. \A i \in UserIds : user'[i] = IF i = NewId THEN r ELSE user[i]
  BY DEF Shape, Tables
<1>3. \A d \in Callers : caller'[d] = IF d = c THEN next ELSE caller[d]
  BY DEF Shape, Tables
<1>4. Tables'
  BY <1>1, <1>2 DEF Shape, Tables, RowOK
<1>5. InFlight'
  BY <1>3 DEF Shape, InFlight, Fits, Provisioning, Adding, Other
<1>6. NoLogin'
  <2> SUFFICES ASSUME NEW d \in Callers, CallerAt(d, "drop")'
               PROVE  user'[caller'[d].author] # NoRow /\ user'[caller'[d].author].auth = NoRow
    BY DEF NoLogin
  <2>1. d # c /\ caller'[d] = caller[d] /\ CallerAt(d, "drop")
    BY <1>3 DEF CallerAt
  <2>2. caller[d].author \in UserIds
    BY <2>1 DEF Shape, InFlight, CallerAt, Provisioning, Adding, Other
  <2>3. user[caller[d].author] # NoRow /\ user[caller[d].author].auth = NoRow
    BY <2>1 DEF Shape, NoLogin
  <2> QED BY <1>1, <1>2, <2>1, <2>2, <2>3
<1> QED BY <1>3, <1>4, <1>5, <1>6 DEF Shape

-----------------------------------------------------------------------------
IInv == Shape /\ Sole /\ Room

LEMMA IInvInit == AccountsInit => IInv
<1> SUFFICES ASSUME AccountsInit PROVE IInv
  OBVIOUS
<1>1. Shape
  BY AccountsAssumption DEF AccountsInit, Shape, Tables, InFlight, NoLogin, CallerAt, RowOK
<1>2. Sole
  BY DEF AccountsInit, Sole, DefaultProfiles, Exists, CallerAt
<1>3. \A a \in AuthIds : Additional(a) = {}
  BY AccountsAssumption DEF AccountsInit, Additional
<1>4. Room
  BY <1>3, FS_EmptySet, AccountsAssumption DEF AccountsInit, Room, ProfileCap, CallerAt
<1> QED BY <1>1, <1>2, <1>4 DEF IInv

\* Requests that change no row keep the invariant, if they go where it says.
LEMMA Still ==
  ASSUME IInv, NEW c \in Callers, NEW next, caller' = [caller EXCEPT ![c] = next],
         UNCHANGED <<user, link>>, signedIn' \subseteq AuthIds, Fits(next),
         next # NoRow /\ next.at = "drop" => user[next.author] # NoRow /\ user[next.author].auth = NoRow,
         \A a \in signedIn' \ signedIn : DefaultProfiles(a) # {},
         next # NoRow /\ next.at = "reread" => DefaultProfiles(next.auth) # {},
         next # NoRow /\ next.at = "insert" => Cardinality(Additional(next.auth)) < MaxProfiles
  PROVE  IInv'
<1>1. Shape' /\ caller'[c] = next /\ \A d \in Callers \ {c} : caller'[d] = caller[d]
  BY Moves DEF IInv
<1>2. /\ \A a : DefaultProfiles(a)' = DefaultProfiles(a)
      /\ \A a : Additional(a)' = Additional(a)
  BY DEF DefaultProfiles, Exists, Additional
<1>3. \A d \in Callers : CallerAt(d, "reread")' => DefaultProfiles(caller'[d].auth) # {}
  BY <1>1 DEF IInv, Sole, CallerAt
<1>4. Sole'
  BY <1>2, <1>3 DEF IInv, Sole, DefaultProfiles, Exists
<1>5. \A d \in Callers : CallerAt(d, "insert")' => Cardinality(Additional(caller'[d].auth)) < MaxProfiles
  BY <1>1 DEF IInv, Room, CallerAt
<1>6. Room'
  BY <1>2, <1>5 DEF IInv, Room, ProfileCap, Additional
<1> QED BY <1>1, <1>4, <1>6 DEF IInv

\* A request that ends with a new row keeps it, if the row is the first of its
\* login, or an additional profile nobody else is counting on.
LEMMA Ends ==
  ASSUME IInv, NEW c \in Callers, caller' = [caller EXCEPT ![c] = NoRow],
         HasSpace, NEW r, RowOK(r), r.kind # "GONE", user' = [user EXCEPT ![NewId] = r],
         r.auth \in AuthIds => DefaultProfiles(r.auth) = {},
         signedIn' \subseteq AuthIds, signedIn' \subseteq signedIn \cup {r.auth},
         \/ UNCHANGED link
         \/ \E a \in AuthIds :
              /\ link' = [link EXCEPT ![NewId] = a]
              /\ Cardinality(Additional(a)) < MaxProfiles
              /\ \A d \in Callers \ {c} : CallerAt(d, "insert") => caller[d].auth # a
  PROVE  IInv'
<1>1. Shape' /\ caller'[c] = NoRow /\ \A d \in Callers \ {c} : caller'[d] = caller[d]
  BY Grows DEF IInv, Fits
<1>2. NewId \in UserIds /\ user[NewId] = NoRow /\ link[NewId] = NoRow /\ r # NoRow
  BY NewRow, RowExists DEF IInv, Shape
<1>3. \A a \in AuthIds : DefaultProfiles(a)' = IF r.auth = a THEN DefaultProfiles(a) \cup {NewId}
                                                            ELSE DefaultProfiles(a)
  BY <1>2 DEF IInv, Shape, Tables, DefaultProfiles, Exists
<1>4. Sole'
  <2>1. \A a \in AuthIds : \A i, j \in DefaultProfiles(a)' : i = j
    BY <1>3 DEF IInv, Sole
  <2>2. \A a \in signedIn' : DefaultProfiles(a)' # {}
    BY <1>3 DEF IInv, Sole
  <2>3. \A d \in Callers : CallerAt(d, "reread")' =>
          /\ CallerAt(d, "reread") /\ caller'[d] = caller[d]
          /\ caller[d].auth \in AuthIds
    BY <1>1 DEF CallerAt, IInv, Shape, InFlight, Provisioning, Adding, Other
  <2>4. \A d \in Callers : CallerAt(d, "reread")' => DefaultProfiles(caller[d].auth)' # {}
    BY <1>3, <2>3 DEF IInv, Sole
  <2>5. \A d \in Callers : CallerAt(d, "reread")' => (DefaultProfiles(caller[d].auth) # {})'
    BY <2>3, <2>4 DEF DefaultProfiles
  <2> QED BY <2>1, <2>2, <2>5 DEF Sole
<1>5. \A a \in AuthIds : IsFiniteSet(Additional(a)) /\ Cardinality(Additional(a)) \in Nat
  BY AccountsAssumption, FS_Subset, FS_CardinalityType DEF Additional
<1>6. \A d \in Callers : CallerAt(d, "insert")' =>
          /\ d # c /\ CallerAt(d, "insert") /\ caller'[d] = caller[d]
          /\ caller[d].auth \in AuthIds
  BY <1>1 DEF CallerAt, IInv, Shape, InFlight, Provisioning, Adding, Other
<1>7. Room'
  <2>1. CASE UNCHANGED link
    <3>1. \A a : Additional(a)' = Additional(a)
      BY <2>1 DEF Additional
    <3> QED BY <1>6, <3>1 DEF IInv, Room, ProfileCap
  <2>2. ASSUME NEW a \in AuthIds,
               link' = [link EXCEPT ![NewId] = a],
               Cardinality(Additional(a)) < MaxProfiles,
               \A d \in Callers \ {c} : CallerAt(d, "insert") => caller[d].auth # a
        PROVE  Room'
    <3>1. Additional(a)' = Additional(a) \cup {NewId}
      BY <1>2, <2>2 DEF Additional, IInv, Shape, Tables
    <3>2. \A b \in AuthIds \ {a} : Additional(b)' = Additional(b)
      BY <1>2, <2>2, AccountsAssumption DEF Additional, IInv, Shape, Tables
    <3>3. Cardinality(Additional(a)') <= MaxProfiles
      <4>1. Cardinality(Additional(a) \cup {NewId}) \in {Cardinality(Additional(a)), Cardinality(Additional(a)) + 1}
        BY <1>5, FS_AddElement
      <4>2. Cardinality(Additional(a) \cup {NewId}) <= MaxProfiles
        BY <1>5, <2>2, <4>1, AccountsAssumption
      <4> QED BY <3>1, <4>2
    <3>4. ProfileCap'
      BY <3>2, <3>3 DEF IInv, Room, ProfileCap
    <3>5. \A d \in Callers : CallerAt(d, "insert")' => Cardinality(Additional(caller[d].auth)') < MaxProfiles
      BY <1>6, <2>2, <3>2 DEF IInv, Room
    <3> QED BY <1>6, <3>4, <3>5 DEF Room, Additional
  <2> QED BY <2>1, <2>2
<1> QED BY <1>1, <1>4, <1>7 DEF IInv

\* A call of provisionAuthProfile is over.
LEMMA ProvisionedKeeps ==
  ASSUME IInv, NEW c \in Callers, NEW a \in AuthIds, NEW goal \in {"session", "request"},
         Provisioned(c, a, goal)
  PROVE  /\ caller' = [caller EXCEPT ![c] = NoRow]
         /\ signedIn' \subseteq AuthIds /\ signedIn' \subseteq signedIn \cup {a}
  BY DEF Provisioned, CallerDone, CallerGo, IInv, Shape, Tables

\* A request fails where it stands.
LEMMA FailsKeeps ==
  ASSUME IInv, NEW c \in Callers, CallerFails(c), UNCHANGED <<user, link, signedIn>>,
         Adding(caller[c]) \/ Other(caller[c])
  PROVE  IInv'
<1> DEFINE next == [caller[c] EXCEPT !.at = "failed"]
<1>1. caller' = [caller EXCEPT ![c] = next]
  BY DEF CallerFails, CallerGo
<1>2. next.at = "failed" /\ Fits(next)
  BY DEF Fits, Adding, Other
<1> HIDE DEF next
<1> QED BY <1>1, <1>2, Still DEF IInv, Shape, Tables

\* A request answers and is gone.
LEMMA DoneKeeps ==
  ASSUME IInv, NEW c \in Callers, CallerDone(c), UNCHANGED <<user, link, signedIn>>
  PROVE  IInv'
  BY Still DEF CallerDone, CallerGo, Fits, IInv, Shape, Tables

LEMMA IInvStep == IInv /\ [AccountsNext]_accountVars => IInv'
<1> SUFFICES ASSUME IInv, [AccountsNext]_accountVars PROVE IInv'
  OBVIOUS
<1>0. Shape /\ signedIn \subseteq AuthIds /\ \A c \in Callers : caller[c] = NoRow \/ Provisioning(caller[c]) \/ Adding(caller[c]) \/ Other(caller[c])
  BY DEF IInv, Shape, Tables, InFlight
<1>1. ASSUME NEW c \in Callers, NEW a \in AuthIds, NEW goal \in {"session", "request"}, FindProfile(c, a, goal)
      PROVE  IInv'
  <2>1. CASE DefaultProfiles(a) # {}
    <3>1. Provisioned(c, a, goal) /\ UNCHANGED <<user, link>>
      BY <1>1, <2>1 DEF FindProfile
    <3> QED BY <2>1, <3>1, ProvisionedKeeps, Still DEF Fits
  <2>2. CASE DefaultProfiles(a) = {}
    <3> DEFINE next == [at |-> "provision", auth |-> a, goal |-> goal]
    <3>1. caller' = [caller EXCEPT ![c] = next] /\ UNCHANGED <<user, link, signedIn>>
      BY <1>1, <2>2 DEF FindProfile, CallerGo
    <3>2. next.at = "provision" /\ Fits(next)
      BY DEF Fits, Provisioning
    <3> HIDE DEF next
    <3> QED BY <1>0, <3>1, <3>2, Still
  <2> QED BY <2>1, <2>2
<1>2. ASSUME NEW c \in Callers, Provision(c) PROVE IInv'
  <2>1. caller[c].auth \in AuthIds /\ caller[c].goal \in {"session", "request"} /\ Provisioning(caller[c])
    BY <1>0, <1>2 DEF Provision, CallerAt, Provisioning, Adding, Other
  <2>2. CASE DefaultProfiles(caller[c].auth) = {}
    <3> DEFINE r == Row("HUMAN", caller[c].auth, caller[c].auth)
    <3>1. RowOK(r) /\ r.kind # "GONE" /\ r.auth = caller[c].auth
      BY <2>1 DEF RowOK, Row
    <3>2. /\ HasSpace /\ user' = [user EXCEPT ![NewId] = r] /\ UNCHANGED link
          /\ Provisioned(c, caller[c].auth, caller[c].goal)
      BY <1>2, <2>2 DEF Provision
    <3>3. /\ caller' = [caller EXCEPT ![c] = NoRow]
          /\ signedIn' \subseteq AuthIds /\ signedIn' \subseteq signedIn \cup {caller[c].auth}
      BY <2>1, <3>2, ProvisionedKeeps
    <3> HIDE DEF r
    <3> QED BY <2>2, <3>1, <3>2, <3>3, Ends
  <2>3. CASE DefaultProfiles(caller[c].auth) # {}
    <3> DEFINE next == [caller[c] EXCEPT !.at = "reread"]
    <3>1. caller' = [caller EXCEPT ![c] = next] /\ UNCHANGED <<user, link, signedIn>>
      BY <1>2, <2>3 DEF Provision, CallerGo
    <3>2. next.at = "reread" /\ Fits(next) /\ next.auth = caller[c].auth
      BY <2>1 DEF Fits, Provisioning
    <3> HIDE DEF next
    <3> QED BY <1>0, <2>3, <3>1, <3>2, Still
  <2> QED BY <2>2, <2>3
<1>3. ASSUME NEW c \in Callers, ReadAgain(c) PROVE IInv'
  <2>1. caller[c].auth \in AuthIds /\ caller[c].goal \in {"session", "request"}
    BY <1>0, <1>3 DEF ReadAgain, CallerAt, Provisioning, Adding, Other
  <2>2. DefaultProfiles(caller[c].auth) # {}
    BY <1>3 DEF ReadAgain, IInv, Sole
  <2>3. Provisioned(c, caller[c].auth, caller[c].goal) /\ UNCHANGED <<user, link>>
    BY <1>3, <2>2 DEF ReadAgain
  <2> QED BY <2>1, <2>2, <2>3, ProvisionedKeeps, Still DEF Fits
<1>4. ASSUME NEW c \in Callers, NEW a \in AuthIds, NEW n \in Usernames, AskProfile(c, a, n) PROVE IInv'
  <2> DEFINE next == Counting(a, n, 0)
  <2>1. caller' = [caller EXCEPT ![c] = next] /\ UNCHANGED <<user, link, signedIn>>
    BY <1>4 DEF AskProfile, CallerGo, accountRows
  <2>2. next.at = "count" /\ Fits(next)
    BY DEF Fits, Adding, Counting
  <2> HIDE DEF next
  <2> QED BY <1>0, <2>1, <2>2, Still
<1>5. ASSUME NEW c \in Callers, CountProfiles(c) PROVE IInv'
  <2>1. Adding(caller[c]) /\ UNCHANGED <<user, link, signedIn>>
    BY <1>0, <1>5 DEF CountProfiles, CallerAt, Provisioning, Adding, Other, accountRows
  <2>2. CASE Cardinality(Additional(caller[c].auth)) >= MaxProfiles
    BY <1>5, <2>1, <2>2, DoneKeeps DEF CountProfiles
  <2>3. CASE ~(Cardinality(Additional(caller[c].auth)) >= MaxProfiles)
    <3> DEFINE next == [caller[c] EXCEPT !.at = "insert"]
    <3>1. caller' = [caller EXCEPT ![c] = next]
      BY <1>5, <2>3 DEF CountProfiles, CallerGo
    <3>2. next.at = "insert" /\ Fits(next) /\ next.auth = caller[c].auth
      BY <2>1 DEF Fits, Adding
    <3>3. IsFiniteSet(Additional(caller[c].auth))
      BY AccountsAssumption, FS_Subset DEF Additional
    <3>4. Cardinality(Additional(next.auth)) < MaxProfiles
      BY <2>3, <3>2, <3>3, FS_CardinalityType, AccountsAssumption
    <3> HIDE DEF next
    <3> QED BY <1>0, <2>1, <3>1, <3>2, <3>4, Still
  <2> QED BY <2>2, <2>3
<1>6. ASSUME NEW c \in Callers, Victim(c) PROVE IInv'
  <2>1. Adding(caller[c]) /\ UNCHANGED <<user, link, signedIn>>
    BY <1>0, <1>6 DEF Victim, CallerAt, Provisioning, Adding, Other, accountRows
  <2>2. CASE CallerFails(c)
    BY <2>1, <2>2, FailsKeeps
  <2>3. CASE ~CallerFails(c)
    <3> DEFINE next == Counting(caller[c].auth, caller[c].name, caller[c].attempt + 1)
    <3>1. caller' = [caller EXCEPT ![c] = next]
      BY <1>6, <2>3 DEF Victim, CallerGo
    <3>2. next.at = "count" /\ Fits(next)
      BY <2>1 DEF Fits, Adding, Counting
    <3> HIDE DEF next
    <3> QED BY <1>0, <2>1, <3>1, <3>2, Still
  <2> QED BY <2>2, <2>3
<1>7. ASSUME NEW c \in Callers, InsertProfile(c) PROVE IInv'
  <2>1. Adding(caller[c]) /\ signedIn' = signedIn /\ CallerDone(c) /\ CallerAt(c, "insert")
    BY <1>0, <1>7 DEF InsertProfile, CallerAt, Provisioning, Adding, Other
  <2>2. CASE Taken(caller[c].name)
    BY <1>7, <2>1, <2>2, DoneKeeps DEF InsertProfile
  <2>3. CASE ~Taken(caller[c].name)
    <3> DEFINE r == Row("HUMAN", NoRow, caller[c].name)
    <3>1. RowOK(r) /\ r.kind # "GONE" /\ r.auth \notin AuthIds
      BY <2>1, AccountsAssumption DEF RowOK, Row, Adding
    <3>2. /\ HasSpace /\ user' = [user EXCEPT ![NewId] = r]
          /\ link' = [link EXCEPT ![NewId] = caller[c].auth]
      BY <1>7, <2>3 DEF InsertProfile
    <3>3. \A d \in Callers \ {c} : CallerAt(d, "insert") => caller[d].auth # caller[c].auth
      BY <1>7 DEF InsertProfile, Contended
    <3>4. caller[c].auth \in AuthIds /\ Cardinality(Additional(caller[c].auth)) < MaxProfiles
      BY <2>1 DEF Adding, IInv, Room
    <3>5. caller' = [caller EXCEPT ![c] = NoRow]
      BY <2>1 DEF CallerDone, CallerGo
    <3> HIDE DEF r
    <3> QED BY <1>0, <2>1, <3>1, <3>2, <3>3, <3>4, <3>5, Ends
  <2> QED BY <2>2, <2>3
<1>8. ASSUME NEW c \in Callers, NEW n \in Usernames, AskSystem(c, n) PROVE IInv'
  <2> DEFINE next == [at |-> "system", name |-> n]
  <2>1. caller' = [caller EXCEPT ![c] = next] /\ UNCHANGED <<user, link, signedIn>>
    BY <1>8 DEF AskSystem, CallerGo, accountRows
  <2>2. next.at = "system" /\ Fits(next)
    BY DEF Fits, Other
  <2> HIDE DEF next
  <2> QED BY <1>0, <2>1, <2>2, Still
<1>9. ASSUME NEW c \in Callers, CreateSystem(c) PROVE IInv'
  <2>1. Other(caller[c]) /\ caller[c].name \in Usernames /\ UNCHANGED <<link, signedIn>>
    BY <1>0, <1>9 DEF CreateSystem, CallerAt, Provisioning, Adding, Other
  <2>2. CASE Taken(caller[c].name)
    BY <1>9, <2>1, <2>2, FailsKeeps DEF CreateSystem
  <2>3. CASE ~Taken(caller[c].name)
    <3> DEFINE r == Row("SYSTEM", NoRow, caller[c].name)
    <3>1. RowOK(r) /\ r.kind # "GONE" /\ r.auth \notin AuthIds
      BY <2>1, AccountsAssumption DEF RowOK, Row
    <3>2. /\ HasSpace /\ user' = [user EXCEPT ![NewId] = r]
          /\ caller' = [caller EXCEPT ![c] = NoRow]
      BY <1>9, <2>3 DEF CreateSystem, CallerDone, CallerGo
    <3> HIDE DEF r
    <3> QED BY <1>0, <2>1, <3>1, <3>2, Ends
  <2> QED BY <2>2, <2>3
<1>10. ASSUME NEW c \in Callers, NEW i \in UserIds, AskFilm(c, i) PROVE IInv'
  <2> DEFINE next == [at |-> "film", author |-> i]
  <2>1. caller' = [caller EXCEPT ![c] = next] /\ UNCHANGED <<user, link, signedIn>>
    BY <1>10 DEF AskFilm, CallerGo, accountRows
  <2>2. next.at = "film" /\ Fits(next)
    BY DEF Fits, Other
  <2> HIDE DEF next
  <2> QED BY <1>0, <2>1, <2>2, Still
<1>11. ASSUME NEW c \in Callers, CreateFilm(c) PROVE IInv'
  <2>1. Other(caller[c]) /\ UNCHANGED <<user, link, signedIn>>
    BY <1>0, <1>11 DEF CreateFilm, CallerAt, Provisioning, Adding, Other
  <2>2. CallerFails(c) \/ CallerDone(c)
    BY <1>11 DEF CreateFilm
  <2> QED BY <2>1, <2>2, FailsKeeps, DoneKeeps
<1>12. ASSUME NEW c \in Callers, NEW i \in UserIds, ListFilms(c, i) PROVE IInv'
  <2> DEFINE next == [at |-> "drop", author |-> i, files |-> {f \in Films : film[f] = i}]
  <2>1. caller' = [caller EXCEPT ![c] = next] /\ UNCHANGED <<user, link, signedIn>>
    BY <1>12 DEF ListFilms, CallerGo, accountRows
  <2>2. next.at = "drop" /\ Fits(next) /\ user[next.author] # NoRow /\ user[next.author].auth = NoRow
    BY <1>12 DEF Fits, Other, ListFilms, IsSystem, Exists
  <2> HIDE DEF next
  <2> QED BY <1>0, <2>1, <2>2, Still
<1>13. ASSUME NEW c \in Callers, DropSystem(c) PROVE IInv'
  <2> DEFINE i == caller[c].author
             next == [caller[c] EXCEPT !.at = "files"]
  <2>1. Other(caller[c]) /\ i \in UserIds /\ user[i] # NoRow /\ user[i].auth = NoRow
        /\ UNCHANGED <<link, signedIn>>
    BY <1>0, <1>13 DEF DropSystem, CallerAt, Provisioning, Adding, Other, Shape, NoLogin
  <2>2. CASE ~Exists(i)
    BY <1>13, <2>1, <2>2, FailsKeeps DEF DropSystem
  <2>3. CASE Exists(i) \* a row that is nobody's profile goes
    <3> DEFINE gone == Row("GONE", NoRow, NoRow)
    <3>1. user' = [user EXCEPT ![i] = gone] /\ caller' = [caller EXCEPT ![c] = next]
      BY <1>13, <2>3 DEF DropSystem, CallerGo
    <3>2. RowOK(gone) /\ gone.kind = "GONE" /\ gone.auth = NoRow /\ gone # NoRow
      BY RowExists DEF RowOK, Row
    <3>3. next.at = "files" /\ Fits(next)
      BY <2>1, <1>13 DEF Fits, Other, DropSystem, CallerAt
    <3> HIDE DEF gone, next, i
    <3>4. \A k \in UserIds : user'[k] = IF k = i THEN gone ELSE user[k]
      BY <1>0, <2>1, <3>1 DEF Shape, Tables
    <3>5. \A d \in Callers : caller'[d] = IF d = c THEN next ELSE caller[d]
      BY <1>0, <3>1 DEF Shape, Tables
    <3>6. \A a \in AuthIds : DefaultProfiles(a)' = DefaultProfiles(a)
      BY <2>1, <3>2, <3>4, AccountsAssumption DEF DefaultProfiles, Exists
    <3>7. Tables'
      BY <1>0, <2>1, <3>1, <3>2, <3>4 DEF Shape, Tables
    <3>8. InFlight'
      BY <1>0, <3>3, <3>5 DEF InFlight, Fits, Provisioning, Adding, Other
    <3>9. NoLogin'
      <4> SUFFICES ASSUME NEW d \in Callers, CallerAt(d, "drop")'
                   PROVE  user'[caller'[d].author] # NoRow /\ user'[caller'[d].author].auth = NoRow
        BY DEF NoLogin
      <4>1. caller'[d] = caller[d] /\ CallerAt(d, "drop") /\ caller[d].author \in UserIds
        BY <1>0, <3>3, <3>5 DEF CallerAt, Provisioning, Adding, Other
      <4> QED BY <1>0, <3>2, <3>4, <4>1 DEF Shape, NoLogin
    <3>10. \A d \in Callers, at \in {"reread", "insert"} : CallerAt(d, at)' =>
             CallerAt(d, at) /\ caller'[d] = caller[d] /\ caller[d].auth \in AuthIds
      BY <1>0, <3>3, <3>5 DEF CallerAt, Provisioning, Adding, Other
    <3>11. \A d \in Callers : CallerAt(d, "reread")' => DefaultProfiles(caller[d].auth)' # {}
      BY <3>6, <3>10 DEF IInv, Sole
    <3>12. \A d \in Callers : CallerAt(d, "reread")' => (DefaultProfiles(caller[d].auth) # {})'
      BY <3>10, <3>11 DEF DefaultProfiles
    <3>13. Sole'
      BY <1>0, <2>1, <3>6, <3>12 DEF IInv, Sole
    <3>14. \A a : Additional(a)' = Additional(a)
      BY <2>1 DEF Additional
    <3>15. Room'
      BY <3>10, <3>14 DEF IInv, Room, ProfileCap
    <3> QED BY <3>7, <3>8, <3>9, <3>13, <3>15 DEF IInv, Shape
  <2> QED BY <2>2, <2>3
<1>14. ASSUME NEW c \in Callers, DropFiles(c) \/ Hangup(c) PROVE IInv'
  BY <1>14, DoneKeeps DEF DropFiles, Hangup, accountRows
<1>15. CASE UNCHANGED accountVars
  <2>1. Shape'
    BY <1>15 DEF accountVars, IInv, Shape, Tables, InFlight, NoLogin, CallerAt, Provisioning, Adding, Other, RowOK
  <2>2. Sole' /\ Room'
    BY <1>15 DEF accountVars, IInv, Sole, Room, ProfileCap, DefaultProfiles, Exists, Additional, CallerAt
  <2> QED BY <2>1, <2>2 DEF IInv
<1> QED
  BY <1>1, <1>2, <1>3, <1>4, <1>5, <1>6, <1>7, <1>8, <1>9, <1>10, <1>11, <1>12, <1>13, <1>14, <1>15
  DEF AccountsNext

\* However many requests race, an account has no more than MAX_ADDITIONAL_PROFILES
\* additional profiles.
THEOREM CapHolds == AccountsSpec => []ProfileCap
<1>1. IInv => ProfileCap
  BY DEF IInv, Room
<1> QED BY IInvInit, IInvStep, <1>1, PTL DEF AccountsSpec

\* However many first requests of one identity race, each gets its one profile.
THEOREM FirstRequests == AccountsSpec => []FirstRequestsAgree
<1>1. IInv => FirstRequestsAgree
  <2> SUFFICES ASSUME IInv PROVE FirstRequestsAgree
    OBVIOUS
  <2>1. ASSUME NEW a \in AuthIds PROVE Cardinality(DefaultProfiles(a)) <= 1
    <3>1. CASE DefaultProfiles(a) = {}
      BY <3>1, FS_EmptySet
    <3>2. CASE DefaultProfiles(a) # {}
      <4>1. PICK i : i \in DefaultProfiles(a)
        BY <3>2
      <4>2. DefaultProfiles(a) = {i}
        BY <4>1 DEF IInv, Sole
      <4>3. Cardinality(DefaultProfiles(a)) = 1
        BY <4>2, FS_Singleton
      <4> QED BY <4>3
    <3> QED BY <3>1, <3>2
  <2>2. \A c \in Callers : CallerAt(c, "failed") => "goal" \notin DOMAIN caller[c]
    BY DEF IInv, Shape, InFlight, CallerAt, Provisioning, Adding, Other
  <2> QED BY <2>1, <2>2 DEF FirstRequestsAgree, IInv, Sole
<1> QED BY IInvInit, IInvStep, <1>1, PTL DEF AccountsSpec

-----------------------------------------------------------------------------
\* The catalogue.


\* One user manages both.
Managed(m, s) == \E u \in Users : CanManage(u, m) /\ CanManage(u, s)

Permitted ==
  \A q \in Slots :
    /\ CallAt(q, "max") \/ CallAt(q, "attach") =>
         call[q].movie \in Movies /\ (call[q].into \in Series => Managed(call[q].movie, call[q].into))
    /\ CallAt(q, "edit") =>
         /\ call[q].movie \in Movies /\ call[q].into \in Series \cup {None}
         /\ call[q].into # None => Managed(call[q].movie, call[q].into)
    /\ CallAt(q, "delete") => call[q].into \in Series

Rows ==
  /\ live \subseteq Movies \cup Series \cup Playlists
  /\ seriesId \in [Movies -> Series \cup {None}]
  /\ DOMAIN call = Slots

Attached == \A m \in Movies : seriesId[m] # None => seriesId[m] \in live /\ Managed(m, seriesId[m])

ShelfInv == Rows /\ Permitted /\ Attached

LEMMA ShelfInvInit == CatalogueInit => ShelfInv
  BY CatalogueAssumption DEF CatalogueInit, ShelfInv, Rows, Permitted, Attached, CallAt

\* A step that writes no row and moves at most one request, to a place where it
\* is permitted.
Allowed(r) ==
  \/ r = None
  \/ r.at \in {"max", "attach"} /\ r.movie \in Movies /\ (r.into \in Series => Managed(r.movie, r.into))
  \/ r.at = "edit" /\ r.movie \in Movies /\ r.into \in Series \cup {None}
       /\ (r.into # None => Managed(r.movie, r.into))
  \/ r.at = "delete" /\ r.into \in Series
  \/ r.at \notin {"max", "attach", "edit", "delete"}

LEMMA OnlyCall ==
  ASSUME NEW q \in Slots, NEW next, ShelfInv, UNCHANGED rowVars, call' = [call EXCEPT ![q] = next],
         Allowed(next)
  PROVE  ShelfInv'
<1>1. Rows' /\ Attached'
  BY DEF ShelfInv, Rows, Attached, rowVars, Managed
<1>2. ASSUME NEW p \in Slots PROVE call'[p] = IF p = q THEN next ELSE call[p]
  BY DEF ShelfInv, Rows
<1>3. Permitted'
  BY <1>2 DEF ShelfInv, Permitted, CallAt, Managed, CanManage, Allowed
<1> QED BY <1>1, <1>3 DEF ShelfInv

LEMMA ShelfInvStep == ShelfInv /\ [CatalogueNext]_catalogueVars => ShelfInv'
<1> SUFFICES ASSUME ShelfInv, [CatalogueNext]_catalogueVars PROVE ShelfInv'
  OBVIOUS
<1> USE CatalogueAssumption
<1>1. ASSUME NEW u \in Users, NEW x \in Series \cup Playlists, Create(u, x) PROVE ShelfInv'
  BY <1>1 DEF Create, ShelfInv, Rows, Permitted, Attached, CallAt, Managed, CanManage
<1>2. ASSUME NEW q \in Slots, NEW u \in Users, NEW s \in Series, NEW m \in Movies, ReadAdd(q, u, s, m)
      PROVE ShelfInv'
  <2>1. Managed(m, s)
    BY <1>2 DEF ReadAdd, Managed
  <2> DEFINE next == [at |-> "max", into |-> s, movie |-> m]
  <2>2. Allowed(next)
    BY <2>1 DEF Allowed
  <2>3. call' = [call EXCEPT ![q] = next] /\ UNCHANGED rowVars
    BY <1>2 DEF ReadAdd, Call
  <2> HIDE DEF next
  <2> QED BY <2>2, <2>3, OnlyCall
<1>3. ASSUME NEW q \in Slots, ReadMax(q) PROVE ShelfInv'
  <2> DEFINE next(n) == [at |-> "attach", into |-> call[q].into, movie |-> call[q].movie, order |-> n]
  <2>1. PICK n : call' = [call EXCEPT ![q] = next(n)]
    BY <1>3 DEF ReadMax, Proceed
  <2>2. /\ call[q].movie \in Movies
        /\ call[q].into \in Series => Managed(call[q].movie, call[q].into)
    BY <1>3 DEF ReadMax, ShelfInv, Permitted
  <2>3. Allowed(next(n)) /\ UNCHANGED rowVars
    BY <1>3, <2>2 DEF Allowed, ReadMax
  <2> HIDE DEF next
  <2> QED BY <2>1, <2>3, OnlyCall
<1>4. ASSUME NEW q \in Slots, Attach(q) PROVE ShelfInv'
  <2>1. call[q].movie \in Movies /\ call[q].into \in Series /\ Managed(call[q].movie, call[q].into)
    BY <1>4 DEF Attach, ShelfInv, Permitted
  <2>2. Rows' /\ Permitted'
    BY <1>4, <2>1 DEF Attach, Answered, Proceed, ShelfInv, Rows, Permitted, CallAt, Managed, CanManage
  <2>3. Attached'
    BY <1>4, <2>1 DEF Attach, ShelfInv, Rows, Attached, Managed, CanManage
  <2> QED BY <2>2, <2>3 DEF ShelfInv
<1>5. ASSUME NEW u \in Users, NEW s \in Series, NEW m \in Movies, Detach(u, s, m) PROVE ShelfInv'
  BY <1>5 DEF Detach, ShelfInv, Rows, Permitted, Attached, CallAt, Managed, CanManage
<1>6. ASSUME NEW q \in Slots, NEW u \in Users, NEW s \in Series, NEW list, ReadReorder(q, u, s, list)
      PROVE ShelfInv'
  <2> DEFINE next == [at |-> "reorder", into |-> s, list |-> list]
  <2>1. call' = [call EXCEPT ![q] = next] /\ UNCHANGED rowVars /\ Allowed(next)
    BY <1>6 DEF ReadReorder, Call, Allowed
  <2> HIDE DEF next
  <2> QED BY <2>1, OnlyCall
<1>7. ASSUME NEW q \in Slots, Reorder(q) PROVE ShelfInv'
  BY <1>7 DEF Reorder, Answered, Proceed, ShelfInv, Rows, Permitted, Attached, CallAt, Managed, CanManage
<1>8. ASSUME NEW q \in Slots, NEW u \in Users, NEW s \in Series, Unlink(q, u, s) PROVE ShelfInv'
  <2>1. Rows' /\ Attached'
    BY <1>8 DEF Unlink, Call, ShelfInv, Rows, Attached, Managed, CanManage
  <2>2. Permitted'
    BY <1>8 DEF Unlink, Call, ShelfInv, Rows, Permitted, CallAt, Managed, CanManage
  <2> QED BY <2>1, <2>2 DEF ShelfInv
<1>9. ASSUME NEW q \in Slots, DeleteSeries(q) PROVE ShelfInv'
  <2>1. call[q].into \in Series
    BY <1>9 DEF DeleteSeries, ShelfInv, Permitted
  <2>2. Rows' /\ Attached'
    BY <1>9, <2>1 DEF DeleteSeries, Answered, Proceed, ShelfInv, Rows, Attached, Managed, CanManage
  <2>3. Permitted'
    BY <1>9 DEF DeleteSeries, Answered, Proceed, ShelfInv, Rows, Permitted, CallAt, Managed, CanManage
  <2> QED BY <2>2, <2>3 DEF ShelfInv
<1>10. ASSUME NEW q \in Slots, NEW u \in Users, NEW m \in Movies, NEW asked \in Series \cup {None, "keep"},
              ReadMovieEdit(q, u, m, asked)
       PROVE ShelfInv'
  <2> DEFINE into == IF asked = "keep" THEN seriesId[m] ELSE asked
  <2>1. into \in Series \cup {None}
    BY DEF ShelfInv, Rows
  <2>2. into # None => Managed(m, into)
    <3>1. CASE asked = "keep" BY <3>1 DEF ShelfInv, Attached
    <3>2. CASE asked # "keep" BY <1>10, <3>2 DEF ReadMovieEdit, Managed
    <3> QED BY <3>1, <3>2
  <2> HIDE DEF into
  <2> DEFINE next == [at |-> "edit", into |-> into, movie |-> m, order |-> order[m]]
  <2>3. call' = [call EXCEPT ![q] = next] /\ UNCHANGED rowVars
    BY <1>10 DEF ReadMovieEdit, Call, into
  <2>4. Allowed(next)
    BY <2>1, <2>2 DEF Allowed
  <2> HIDE DEF next
  <2> QED BY <2>3, <2>4, OnlyCall
<1>11. ASSUME NEW q \in Slots, WriteMovieEdit(q) PROVE ShelfInv'
  <2>1. /\ call[q].movie \in Movies /\ call[q].into \in Series \cup {None}
        /\ call[q].into # None => Managed(call[q].movie, call[q].into)
    BY <1>11 DEF WriteMovieEdit, ShelfInv, Permitted
  <2>2. Rows' /\ Permitted'
    BY <1>11, <2>1 DEF WriteMovieEdit, Answered, Proceed, ShelfInv, Rows, Permitted, CallAt, Managed, CanManage
  <2>3. Attached'
    BY <1>11, <2>1 DEF WriteMovieEdit, ShelfInv, Rows, Attached, Managed, CanManage
  <2> QED BY <2>2, <2>3 DEF ShelfInv
<1>12. ASSUME NEW u \in Users, NEW m \in Movies, RemoveMovie(u, m) PROVE ShelfInv'
  BY <1>12 DEF RemoveMovie, ShelfInv, Rows, Permitted, Attached, CallAt, Managed, CanManage
<1>13. ASSUME NEW q \in Slots, NEW u \in Users, NEW p \in Playlists, NEW m \in Movies,
              ReadListAdd(q, u, p, m)
       PROVE ShelfInv'
  <2> DEFINE next == [at |-> "max", into |-> p, movie |-> m]
  <2>1. call' = [call EXCEPT ![q] = next] /\ UNCHANGED rowVars /\ Allowed(next)
    BY <1>13 DEF ReadListAdd, Call, Allowed
  <2> HIDE DEF next
  <2> QED BY <2>1, OnlyCall
<1>14. ASSUME NEW q \in Slots, InsertEntry(q) \/ UpdateEntry(q) PROVE ShelfInv'
  <2>1. Rows' /\ Attached'
    BY <1>14 DEF InsertEntry, UpdateEntry, Answered, Proceed, ShelfInv, Rows, Attached, Managed, CanManage
  <2>2. CASE InsertEntry(q)
    <3>1. Permitted'
      BY <2>2 DEF InsertEntry, Answered, Proceed, ShelfInv, Rows, Permitted, CallAt, Managed, CanManage
    <3> QED BY <2>1, <3>1 DEF ShelfInv
  <2>3. CASE UpdateEntry(q)
    <3>1. PICK i : call' = [call EXCEPT ![q] = IF call[q].todo = {i} THEN None
                                               ELSE [call[q] EXCEPT !.todo = @ \ {i}]]
      BY <2>3 DEF UpdateEntry, Answered, Proceed
    <3>2. call[q] # None /\ call[q].at = "entries"
      BY <2>3 DEF UpdateEntry, CallAt
    <3>3. Permitted'
      BY <3>1, <3>2 DEF ShelfInv, Rows, Permitted, CallAt, Managed, CanManage
    <3> QED BY <2>1, <3>3 DEF ShelfInv
  <2> QED BY <1>14, <2>2, <2>3
<1>15. ASSUME NEW u \in Users, NEW p \in Playlists, NEW m \in Movies, RemoveEntry(u, p, m) PROVE ShelfInv'
  BY <1>15 DEF RemoveEntry, ShelfInv, Rows, Permitted, Attached, CallAt, Managed, CanManage
<1>16. ASSUME NEW q \in Slots, NEW u \in Users, NEW p \in Playlists, NEW list, ReadListOrder(q, u, p, list)
       PROVE ShelfInv'
  <2> DEFINE next == [at |-> "entries", into |-> p, list |-> list, todo |-> DOMAIN list]
  <2>1. call' = [call EXCEPT ![q] = next] /\ UNCHANGED rowVars /\ Allowed(next)
    BY <1>16 DEF ReadListOrder, Call, Allowed
  <2> HIDE DEF next
  <2> QED BY <2>1, OnlyCall
<1>17. ASSUME NEW u \in Users, NEW p \in Playlists, DeletePlaylist(u, p) PROVE ShelfInv'
  BY <1>17 DEF DeletePlaylist, ShelfInv, Rows, Permitted, Attached, CallAt, Managed, CanManage
<1>18. ASSUME NEW q \in Slots, CallFails(q) PROVE ShelfInv'
  BY <1>18, OnlyCall DEF CallFails, Answered, Proceed, Allowed
<1>19. CASE UNCHANGED catalogueVars
  BY <1>19 DEF catalogueVars, ShelfInv, Rows, Permitted, Attached, CallAt, Managed, CanManage
<1> QED
  BY <1>1, <1>2, <1>3, <1>4, <1>5, <1>6, <1>7, <1>8, <1>9, <1>10, <1>11, <1>12, <1>13, <1>14,
     <1>15, <1>16, <1>17, <1>18, <1>19
  DEF CatalogueNext, CatalogueStep

\* However edits, moves, deletions and failed calls overlap, a movie is in a
\* series that exists, and one user manages both.
THEOREM NobodyInjects == CatalogueSpec => []AttachedByManager
<1>1. ShelfInv => AttachedByManager
  BY DEF ShelfInv, Attached, Managed, AttachedByManager
<1> QED BY ShelfInvInit, ShelfInvStep, <1>1, PTL DEF CatalogueSpec
=============================================================================
