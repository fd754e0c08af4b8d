---------------------------- MODULE PagesProofs ----------------------------
(***************************************************************************)
(* What the pages of the web frontend promise, for any movies, tokens,     *)
(* logins, profiles and lists: the player gives up, a profile that is      *)
(* shown is the one that requests act as, what was typed into the form of  *)
(* a video stays, a deletion is the listing profile's, and the editors of  *)
(* series and playlists show what is theirs and, at rest, what is stored.  *)
(*                                                                         *)
(* The pages change while requests are on their way.  Their invariants say *)
(* which answers still count: a fetch that does finds the page loading     *)
(* (VideoInv), a change of a list that does is the only one, and what it   *)
(* will make of the stored list it will make of the one shown (EditorInv). *)
(* For the switcher, every profile in a cached list or in an answer on its *)
(* way exists, and a selection that is in neither the list nor a running   *)
(* refresh has a check due (SwitchInv).                                    *)
(***************************************************************************)
EXTENDS EntityEditor, VideoEditor, DashboardList, Player, AccountSwitch, TLAPS

\* The budget counts the last media recoveries of the trail: playback was not
\* seen well past the last of them, and was seen well past the one before them.
Marks == [at : Nat, reached : Nat]
Passed(k) == trail[k].reached >= trail[k].at + Progress
Budgeted ==
  /\ DOMAIN engine = DOMAIN NoEngine /\ position \in Nat /\ tracked \in Nat /\ engine.start \in Nat
  /\ engine.media \in Nat /\ engine.media <= MaxRecovery
  /\ trail \in Seq(Marks) /\ engine.media <= Len(trail)
  /\ engine.media > 0 => trail[Len(trail)].at = engine.recoveredAt /\ ~Passed(Len(trail))
  /\ Len(trail) > engine.media => Passed(Len(trail) - engine.media)
  /\ GivesUp

\* A step of the engine that leaves its media budget as it is.
LEMMA BudgetKept ==
  ASSUME Budgeted, DOMAIN engine' = DOMAIN NoEngine, position' \in Nat, tracked' \in Nat,
         trail' = trail, engine'.start = engine.start, engine'.media = engine.media, engine'.recoveredAt = engine.recoveredAt
  PROVE  Budgeted'
BY DEF Budgeted, GivesUp, Passed

\* Another source: nothing was recovered from.
LEMMA BudgetFresh ==
  ASSUME PlayerAssumption, DOMAIN engine' = DOMAIN NoEngine, position' \in Nat, tracked' \in Nat,
         trail' = <<>>, engine'.start \in Nat, engine'.media = 0
  PROVE  Budgeted'
BY DEF Budgeted, GivesUp, PlayerAssumption

LEMMA TrailSeen ==
  ASSUME Budgeted, NEW p \in Nat, trail' = SeenAt(p), Len(trail) > 0
  PROVE  /\ trail' \in Seq(Marks) /\ Len(trail') = Len(trail)
         /\ \A k \in DOMAIN trail : /\ trail'[k].at = trail[k].at
                                    /\ k # Len(trail) => trail'[k] = trail[k]
         /\ trail'[Len(trail)].reached = IF p > trail[Len(trail)].reached THEN p
                                         ELSE trail[Len(trail)].reached
<1> PICK n : n = Len(trail)
  OBVIOUS
<1> PICK r : r = IF p > trail[n].reached THEN p ELSE trail[n].reached
  OBVIOUS
<1> PICK last : last = [trail[n] EXCEPT !.reached = r]
  OBVIOUS
<1>1. trail \in Seq(Marks) /\ n \in DOMAIN trail /\ trail[n] \in Marks
  <2>1. trail \in Seq(Marks)
    BY DEF Budgeted
  <2>2. n \in DOMAIN trail
    BY <2>1
  <2> QED BY <2>1, <2>2
<1>2. r \in Nat /\ last \in Marks /\ last.at = trail[n].at /\ last.reached = r
  BY <1>1 DEF Marks
<1>3. trail' = [trail EXCEPT ![n] = last]
  BY <1>1 DEF SeenAt
<1>4. DOMAIN trail' = DOMAIN trail /\ trail' \in Seq(Marks) /\ Len(trail') = n
  BY <1>1, <1>2, <1>3
<1>5. trail'[n] = last /\ \A k \in DOMAIN trail : k # n => trail'[k] = trail[k]
  BY <1>1, <1>3
<1>6. \A k \in DOMAIN trail : trail'[k].at = trail[k].at
  BY <1>2, <1>5
<1> QED BY <1>2, <1>4, <1>5, <1>6

LEMMA BudgetSeen ==
  ASSUME PlayerAssumption, Budgeted, NEW p \in 0..EndOf, TimeUpdate(p) PROVE Budgeted'
<1>1. p \in Nat /\ position' = p /\ tracked' = p /\ trail' = SeenAt(p) /\ Progress \in Nat \ {0}
  BY DEF TimeUpdate, PlayerAssumption
<1>2. /\ DOMAIN engine' = DOMAIN NoEngine
      /\ engine'.media = IF MovedOn(p) THEN 0 ELSE engine.media
      /\ engine'.recoveredAt = engine.recoveredAt
      /\ engine'.start = engine.start /\ engine.start \in Nat
  BY DEF TimeUpdate, Budgeted, NoEngine
<1>3. CASE Len(trail) = 0
  <2>1. trail = <<>> /\ engine.media = 0
    BY <1>3 DEF Budgeted
  <2>2. trail' = <<>> /\ engine'.media = 0
    BY <1>1, <1>2, <2>1 DEF SeenAt
  <2> QED BY <1>1, <1>2, <2>2, BudgetFresh
<1>4. CASE Len(trail) > 0
  <2> PICK n : n = Len(trail)
    OBVIOUS
  <2>1. /\ trail' \in Seq(Marks) /\ Len(trail') = n /\ n \in Nat /\ n > 0
        /\ DOMAIN trail = 1..n /\ DOMAIN trail' = 1..n
        /\ \A k \in 1..n : trail'[k].at = trail[k].at /\ (k # n => trail'[k] = trail[k])
        /\ trail'[n].reached = IF p > trail[n].reached THEN p ELSE trail[n].reached
        /\ \A k \in 1..n : /\ trail[k].at \in Nat /\ trail[k].reached \in Nat
                            /\ trail'[k].at \in Nat /\ trail'[k].reached \in Nat
    <3>1. trail \in Seq(Marks)
      BY DEF Budgeted
    <3>2. /\ trail' \in Seq(Marks) /\ Len(trail') = n
          /\ \A k \in DOMAIN trail : trail'[k].at = trail[k].at /\ (k # n => trail'[k] = trail[k])
          /\ trail'[n].reached = IF p > trail[n].reached THEN p ELSE trail[n].reached
      BY <1>1, <1>4, TrailSeen
    <3>3. DOMAIN trail = 1..n /\ DOMAIN trail' = 1..n /\ n \in Nat /\ n > 0
      BY <1>4, <3>1, <3>2
    <3>4. \A k \in 1..n : trail[k] \in Marks /\ trail'[k] \in Marks
      BY <3>1, <3>2, <3>3
    <3> QED BY <3>2, <3>3, <3>4 DEF Marks
  <2>2. \A k \in 1..n : /\ Passed(k) => Passed(k)'
                        /\ k # n => (Passed(k)' <=> Passed(k))
                        /\ k = n => (Passed(k)' <=> Passed(k) \/ p >= trail[n].at + Progress)
    <3>1. SUFFICES ASSUME NEW k \in 1..n
                   PROVE  /\ k # n => (Passed(k)' <=> Passed(k))
                          /\ k = n => (Passed(k)' <=> Passed(k) \/ p >= trail[n].at + Progress)
      OBVIOUS
    <3>2. CASE k # n
      BY <2>1, <3>2 DEF Passed
    <3>3. CASE k = n
      BY <1>1, <2>1, <3>3 DEF Passed
    <3> QED BY <3>2, <3>3
  <2>3. GivesUp'
    <3>1. ASSUME NEW i \in 1..n, i + MaxRecovery \in 1..n
          PROVE  \E k \in i..(i + MaxRecovery - 1) : Passed(k)'
      <4>1. PICK k \in i..(i + MaxRecovery - 1) : Passed(k)
        BY <2>1, <3>1 DEF Budgeted, GivesUp, Passed
      <4>2. n \in Nat /\ MaxRecovery \in Nat /\ i \in Nat /\ i + MaxRecovery <= n /\ i >= 1
        BY <2>1, <3>1 DEF PlayerAssumption
      <4>3. k \in 1..n
        BY <4>1, <4>2
      <4> QED BY <2>2, <4>1, <4>3
    <3> QED BY <2>1, <3>1 DEF GivesUp, Passed
  <2>4. CASE MovedOn(p)
    <3>1. engine.media > 0 /\ trail[n].at = engine.recoveredAt /\ p >= trail[n].at + Progress
      BY <2>4 DEF MovedOn, Budgeted
    <3>2. Passed(n)'
      BY <2>1, <2>2, <3>1
    <3> QED BY <1>1, <1>2, <2>1, <2>3, <2>4, <3>2 DEF Budgeted, Passed, PlayerAssumption
  <2>5. CASE ~MovedOn(p)
    <3>1. engine'.media = engine.media /\ engine.media \in Nat /\ engine.media <= n /\ engine.media <= MaxRecovery
      BY <1>2, <2>5 DEF Budgeted
    <3>2. engine.media > 0 => trail'[n].at = engine.recoveredAt /\ ~Passed(n)'
      <4>1. engine.media > 0 => trail[n].at = engine.recoveredAt /\ ~Passed(n)
        BY DEF Budgeted
      <4>2. engine.media > 0 => ~(p >= trail[n].at + Progress)
        BY <2>5, <4>1 DEF MovedOn
      <4> QED BY <2>1, <2>2, <4>1, <4>2
    <3>3. n > engine.media => Passed(n - engine.media)'
      <4>1. n > engine.media => Passed(n - engine.media)
        BY DEF Budgeted
      <4>2. n > engine.media => n - engine.media \in 1..n
        BY <2>1, <3>1
      <4> QED BY <2>2, <3>1, <4>1, <4>2 DEF Passed
    <3> QED BY <1>1, <1>2, <2>1, <2>3, <3>1, <3>2, <3>3 DEF Budgeted, Passed
  <2> QED BY <2>4, <2>5
<1> QED BY <1>3, <1>4 DEF Budgeted

\* One more recovery: of the last MaxRecovery, one was passed.
LEMMA BudgetSpent == ASSUME PlayerAssumption, Budgeted, RecoverMedia PROVE Budgeted'
<1> PICK n : n = Len(trail)
  OBVIOUS
<1> PICK m : m = engine.media
  OBVIOUS
<1>1. m \in Nat /\ n \in Nat /\ m < MaxRecovery /\ MaxRecovery \in Nat /\ m <= n
      /\ Progress \in Nat \ {0} /\ position \in Nat /\ position' = position
      /\ tracked' \in Nat /\ trail \in Seq(Marks)
  BY DEF RecoverMedia, Budgeted, PlayerAssumption
<1>2. /\ DOMAIN engine' = DOMAIN NoEngine /\ engine'.media = m + 1
      /\ engine'.recoveredAt = position
      /\ engine'.start = engine.start /\ engine.start \in Nat
  BY DEF RecoverMedia, Budgeted, NoEngine
<1>3. /\ trail' \in Seq(Marks) /\ Len(trail') = n + 1
      /\ DOMAIN trail' = 1..(n + 1) /\ DOMAIN trail = 1..n
      /\ \A k \in 1..n : trail'[k] = trail[k]
      /\ trail'[n + 1].at = position /\ trail'[n + 1].reached = position
  BY <1>1 DEF RecoverMedia, Marks
<1>4. \A k \in 1..n : Passed(k)' <=> Passed(k)
  BY <1>3 DEF Passed
<1>5. ~Passed(n + 1)'
  BY <1>1, <1>3 DEF Passed
<1>6. n > m => Passed(n - m) /\ n - m \in 1..n
  <2>1. n > m => Passed(n - m)
    BY DEF Budgeted
  <2> QED BY <1>1, <2>1
<1>7. GivesUp'
  <2>1. ASSUME NEW i \in 1..(n + 1), i + MaxRecovery \in 1..(n + 1)
        PROVE  \E k \in i..(i + MaxRecovery - 1) : Passed(k)'
    <3>1. CASE i + MaxRecovery = n + 1
      <4>1. n - m \in i..(i + MaxRecovery - 1) /\ n > m
        BY <1>1, <2>1, <3>1
      <4> QED BY <1>4, <1>6, <4>1
    <3>2. CASE i + MaxRecovery # n + 1
      <4>1. i \in 1..n /\ i + MaxRecovery \in 1..n
        <5>1. MaxRecovery \in Nat /\ n \in Nat /\ MaxRecovery > 0
          BY <1>1
        <5> QED BY <2>1, <3>2, <5>1
      <4>2. PICK k \in i..(i + MaxRecovery - 1) : Passed(k)
        BY <1>3, <4>1 DEF Budgeted, GivesUp, Passed
      <4>3. k \in 1..n
        BY <1>1, <4>1, <4>2
      <4> QED BY <1>4, <4>2, <4>3
    <3> QED BY <3>1, <3>2
  <2> QED BY <1>3, <2>1 DEF GivesUp, Passed
<1>8. n + 1 > m + 1 => Passed((n + 1) - (m + 1))'
  <2>1. (n + 1) - (m + 1) = n - m
    BY <1>1
  <2> QED BY <1>1, <1>4, <1>6, <2>1
<1>9. engine'.media > 0 =>
        trail'[Len(trail')].at = engine'.recoveredAt /\ ~Passed(Len(trail))'
  BY <1>2, <1>3, <1>5 DEF Passed
<1>10. Len(trail') > engine'.media => Passed(Len(trail) - engine.media)'
  BY <1>2, <1>3, <1>8 DEF Passed
<1> QED BY <1>1, <1>2, <1>3, <1>7, <1>9, <1>10 DEF Budgeted

LEMMA BudgetedStep == Budgeted /\ [PlayerNext]_playerVars => Budgeted'
<1> SUFFICES ASSUME Budgeted, [PlayerNext]_playerVars PROVE Budgeted'
  OBVIOUS
<1>a. PlayerAssumption
  BY PlayerAssumption
<1>1. ASSUME NEW s \in Sources \cup {NoSource}, LoadSource(s) PROVE Budgeted'
  <2>1. /\ DOMAIN engine' = DOMAIN NoEngine /\ engine'.media = 0
        /\ engine'.start \in Nat /\ tracked' \in Nat
    BY <1>1 DEF LoadSource, NoEngine, Budgeted
  <2> QED BY <1>1, <1>a, <2>1, BudgetFresh DEF LoadSource
<1>2. ASSUME NEW p \in 0..EndOf, TimeUpdate(p) PROVE Budgeted'
  BY <1>2, <1>a, BudgetSeen
<1>3. CASE MetadataLoaded
  BY <1>3, BudgetKept DEF MetadataLoaded, NoEngine, Budgeted
<1>4. CASE FragLoaded
  BY <1>4, BudgetKept DEF FragLoaded, NoEngine, Budgeted
<1>5. CASE RecoverNetwork
  BY <1>5, BudgetKept DEF RecoverNetwork, NoEngine, Budgeted
<1>6. CASE RecoverMedia
  BY <1>6, <1>a, BudgetSpent
<1>7. CASE GiveUp
  BY <1>7, BudgetKept DEF GiveUp, NoEngine, Budgeted
<1>b. tracked \in Nat
  BY DEF Budgeted
<1>8. ASSUME UNCHANGED <<engine, position, trail>>, tracked' \in Nat PROVE Budgeted'
  BY <1>8, BudgetKept DEF Budgeted
<1>9. CASE Emptied
  BY <1>8, <1>9 DEF Emptied
<1>10. CASE StopPlaying \/ UNCHANGED playerVars
  BY <1>b, <1>8, <1>10 DEF StopPlaying, playerVars
<1>11. ASSUME NEW p \in 0..EndOf, NEW t \in Titles, OtherHistory(t, p) PROVE Budgeted'
  BY <1>b, <1>8, <1>11 DEF OtherHistory
<1> QED BY <1>1, <1>2, <1>3, <1>4, <1>5, <1>6, <1>7, <1>9, <1>10, <1>11 DEF PlayerNext

\* A stream that cannot be decoded is given up: of MAX_RECOVERY_ATTEMPTS + 1
\* media recoveries in a row (Video.tsx:255-270), wherever playback was set in
\* between, one was followed by a position well beyond it.
THEOREM PlayerGivesUp == PlayerSpec => []GivesUp
<1>1. PlayerInit => Budgeted
  BY PlayerAssumption DEF PlayerInit, Budgeted, NoEngine, GivesUp
<1>2. Budgeted => GivesUp
  BY DEF Budgeted
<1> QED BY <1>1, <1>2, BudgetedStep, PTL DEF PlayerSpec

-----------------------------------------------------------------------------
ReadRow == [of : Logins, profile : Added \cup {NoOne}, seen : (SUBSET Added) \cup {NoList},
            current : BOOLEAN, away : BOOLEAN]
CreationRow == [of : Logins, acting : SystemAccounts \cup {NoOne},
                changed : {"nothing", "selection", "session"},
                made : Added \cup {NoOne}, away : BOOLEAN]

Shape ==
  /\ login \in Logins \cup {NoOne} /\ chosen \in Added \cup {NoOne}
  /\ acting \in SystemAccounts \cup {NoOne}
  /\ owned \in [Logins -> SUBSET Added]
  /\ lists \in [Logins -> (SUBSET Added) \cup {NoList}]
  /\ switcher \in [open : BOOLEAN, due : BOOLEAN, busy : BOOLEAN]
  /\ refreshes \subseteq ReadRow /\ creations \subseteq CreationRow

\* Every profile that is in a list, in an answer or was made exists.
ListsExist == \A i \in Logins : lists[i] = NoList \/ lists[i] \subseteq owned[i]
ReadsExist == \A r \in refreshes : r.seen = NoList \/ r.seen \subseteq owned[r.of]
MadeExist == \A c \in creations : c.made = NoOne \/ c.made \in owned[c.of]

\* The open switcher's reads are of the login there is.
OwnReads ==
  \A r \in refreshes : ~r.away => switcher.open /\ (login = NoOne \/ r.of = login)

\* A selection that is not in the list is being looked for, or will be.
Sought(p) == \E r \in refreshes : ~r.away /\ r.profile = p
LookedFor ==
  ListShown /\ ~switcher.due => chosen = NoOne \/ chosen \in lists[login] \/ Sought(chosen)

SwitchInv == Shape /\ ListsExist /\ ReadsExist /\ MadeExist /\ OwnReads /\ LookedFor

\* NoList is no list of profiles.
LEMMA NoListIsNone == \A l \in SUBSET Added : NoList # l
BY SwitchAssumption

LEMMA SoughtIsRefreshing == \A p : Sought(p) <=> p \in Refreshing
BY DEF Sought, Refreshing

LEMMA SwitchInvInit == SwitchInit => SwitchInv
<1> SUFFICES ASSUME SwitchInit PROVE SwitchInv
  OBVIOUS
<1>1. Shape
  <2>1. switcher \in [open : BOOLEAN, due : BOOLEAN, busy : BOOLEAN]
    BY DEF SwitchInit
  <2>2. owned \in [Logins -> SUBSET Added] /\ lists \in [Logins -> (SUBSET Added) \cup {NoList}]
    BY DEF SwitchInit
  <2> QED BY <2>1, <2>2 DEF SwitchInit, Shape
<1>2. ListsExist /\ ReadsExist /\ MadeExist /\ OwnReads
  BY DEF SwitchInit, ListsExist, ReadsExist, MadeExist, OwnReads
<1>3. LookedFor
  BY DEF SwitchInit, LookedFor, ListShown, Using
<1> QED BY <1>1, <1>2, <1>3 DEF SwitchInv

\* When the switcher has come to rest, the list answers as the backend does.
LEMMA RestAgrees == SwitchInv => ActsAsShown
<1> SUFFICES ASSUME SwitchInv, Settled PROVE ActiveProfile(login, chosen) = ShownProfile(login)
  BY DEF ActsAsShown
<1>1. login \in Logins /\ lists[login] \in SUBSET Added /\ lists[login] \subseteq owned[login]
  BY DEF Settled, ListShown, Using, SwitchInv, Shape, ListsExist
<1>2. chosen = NoOne \/ chosen \in lists[login]
  BY SoughtIsRefreshing DEF Settled, SwitchInv, LookedFor
<1>3. CASE chosen \in lists[login]
  BY <1>1, <1>3 DEF ActiveProfile, ShownProfile
<1>4. CASE chosen = NoOne
  BY <1>4 DEF ActiveProfile, ShownProfile
<1> QED BY <1>2, <1>3, <1>4

-----------------------------------------------------------------------------
\* Reads that differ in nothing but whether they are outdated.
Alike(x, r) == x.of = r.of /\ x.profile = r.profile /\ x.seen = r.seen /\ x.away = r.away
AlikeReads(a, b) ==
  /\ a \subseteq ReadRow
  /\ \A x \in a : \E r \in b : Alike(x, r)
  /\ \A r \in b : \E x \in a : Alike(x, r)

LEMMA OutdatedAlike == ASSUME Shape, NEW i PROVE AlikeReads(Outdated(i), refreshes)
<1> DEFINE old(r) == IF r.of = i THEN [r EXCEPT !.current = FALSE] ELSE r
<1>1. \A r \in refreshes : old(r) \in ReadRow /\ Alike(old(r), r)
  BY DEF Shape, ReadRow, Alike
<1>2. Outdated(i) = {old(r) : r \in refreshes}
  BY DEF Outdated
<1> HIDE DEF old
<1> QED BY <1>1, <1>2 DEF AlikeReads

\* Reads that outlive their switcher.
LEMMA AwayReads ==
  ASSUME NEW a \in SUBSET ReadRow
  PROVE  /\ Away(a) \subseteq ReadRow /\ \A x \in Away(a) : x.away
         /\ \A x \in Away(a) : \E r \in a : x.of = r.of /\ x.seen = r.seen
<1> DEFINE left(r) == [r EXCEPT !.away = TRUE]
<1>1. \A r \in a : left(r) \in ReadRow /\ left(r).away /\ left(r).of = r.of /\ left(r).seen = r.seen
  BY DEF ReadRow
<1>2. Away(a) = {left(r) : r \in a}
  BY DEF Away
<1> HIDE DEF left
<1> QED BY <1>1, <1>2

\* Creations that keep their login and what they have made.
KeptCreations(a, b) ==
  a \subseteq CreationRow /\ \A x \in a : \E c \in b : x.of = c.of /\ x.made = c.made

LEMMA AwayKeeps == ASSUME NEW b \in SUBSET CreationRow PROVE KeptCreations(Away(b), b)
<1> DEFINE left(c) == [c EXCEPT !.away = TRUE]
<1>1. \A c \in b : left(c) \in CreationRow /\ left(c).of = c.of /\ left(c).made = c.made
  BY DEF CreationRow
<1>2. Away(b) = {left(c) : c \in b}
  BY DEF Away
<1> HIDE DEF left
<1> QED BY <1>1, <1>2 DEF KeptCreations

LEMMA NoticedKeeps ==
  ASSUME NEW b \in SUBSET CreationRow, NEW what \in {"selection", "session"} PROVE KeptCreations(Noticed(b, what), b)
<1> DEFINE told(c) == IF c.away \/ c.changed = "session" THEN c ELSE [c EXCEPT !.changed = what]
<1>1. \A c \in b : told(c) \in CreationRow /\ told(c).of = c.of /\ told(c).made = c.made
  BY DEF CreationRow
<1>2. Noticed(b, what) = {told(c) : c \in b}
  BY DEF Noticed
<1> HIDE DEF told
<1> QED BY <1>1, <1>2 DEF KeptCreations

LEMMA SelectedKeeps ==
  ASSUME NEW b \in SUBSET CreationRow, NEW p PROVE KeptCreations(Selected(p, b), b)
BY NoticedKeeps DEF Selected, KeptCreations

LEMMA KeptTwice ==
  ASSUME NEW a, NEW b, NEW c, KeptCreations(a, b), KeptCreations(b, c) PROVE KeptCreations(a, c)
BY DEF KeptCreations

-----------------------------------------------------------------------------
\* Profiles are not taken away.
Grows == owned' \in [Logins -> SUBSET Added] /\ \A i \in Logins : owned[i] \subseteq owned'[i]

LEMMA OwnedGrows == ASSUME Shape PROVE owned' = owned => Grows
BY DEF Grows, Shape

LEMMA MadeStays ==
  ASSUME Shape, MadeExist, Grows, KeptCreations(creations', creations) PROVE MadeExist'
BY DEF Shape, CreationRow, MadeExist, Grows, KeptCreations

LEMMA ReadsStay ==
  ASSUME Shape, ReadsExist, Grows, refreshes' \subseteq ReadRow,
         \A x \in refreshes' : \E r \in refreshes : x.of = r.of /\ x.seen = r.seen
  PROVE  ReadsExist'
BY DEF Shape, ReadRow, ReadsExist, Grows

LEMMA ListsStay == ASSUME Shape, ListsExist, Grows, lists' = lists PROVE ListsExist'
BY DEF Shape, ListsExist, Grows

\* What a step leaves that touches neither rows nor reads nor lists.
LEMMA RowsStay ==
  ASSUME SwitchInv, UNCHANGED <<owned, lists, refreshes, creations>>
  PROVE  ListsExist' /\ ReadsExist' /\ MadeExist'
BY DEF SwitchInv, ListsExist, ReadsExist, MadeExist

\* A new read, beside those there are.
LEMMA ReadStarts ==
  ASSUME SwitchInv, login \in Logins, NEW p \in Added \cup {NoOne}, StartRead(p), owned' = owned,
         login' = login, switcher'.open = TRUE
  PROVE  /\ refreshes' \subseteq ReadRow /\ ReadsExist' /\ OwnReads'
         /\ Sought(p)' /\ \A q : Sought(q) => Sought(q)'
<1> DEFINE new == Read(login, p)
           old == Outdated(login)
<1>1. /\ new \in ReadRow /\ new.of = login /\ new.seen = NoList /\ new.profile = p /\ new.away = FALSE
  BY DEF Read, ReadRow
<1>2. AlikeReads(old, refreshes)
  <2>1. Shape
    BY DEF SwitchInv
  <2>2. AlikeReads(Outdated(login), refreshes)
    BY <2>1, OutdatedAlike, Zenon
  <2> QED BY <2>2
<1>3. refreshes' = old \cup {new}
  BY DEF StartRead
<1> HIDE DEF new, old
<1>4. refreshes' \subseteq ReadRow
  BY <1>1, <1>2, <1>3 DEF AlikeReads
<1>5. ReadsExist'
  BY <1>1, <1>2, <1>3 DEF AlikeReads, Alike, SwitchInv, ReadsExist
<1>6. OwnReads'
  BY <1>1, <1>2, <1>3 DEF AlikeReads, Alike, SwitchInv, OwnReads
<1>7. Sought(p)'
  BY <1>1, <1>3 DEF Sought
<1>8. ASSUME NEW q, Sought(q) PROVE Sought(q)'
  BY <1>2, <1>3, <1>8 DEF AlikeReads, Alike, Sought
<1> QED BY <1>4, <1>5, <1>6, <1>7, <1>8

LEMMA SessionSteps ==
  ASSUME SwitchInv, (\E i \in Logins : SignIn(i)) \/ SignOut \/ SessionExpires PROVE SwitchInv'
<1> USE DEF SwitchInv
<1>g. Grows
  BY OwnedGrows DEF SignIn, SignOut, SessionExpires
<1>1. ASSUME NEW i \in Logins, SignIn(i) PROVE SwitchInv'
  <2>1. Shape'
    BY <1>1 DEF SignIn, Shape
  <2>2. OwnReads' /\ LookedFor'
    BY <1>1 DEF SignIn, OwnReads, LookedFor, ListShown, Using
  <2> QED BY <1>1, <2>1, <2>2, RowsStay DEF SignIn
<1>2. CASE SignOut
  <2> DEFINE read(r) == [r EXCEPT !.current = FALSE]
             reads == {read(r) : r \in refreshes}
  <2>1. reads \in SUBSET ReadRow /\ \A x \in reads : \E r \in refreshes : x.of = r.of /\ x.seen = r.seen
    <3>1. \A r \in refreshes : read(r) \in ReadRow /\ read(r).of = r.of /\ read(r).seen = r.seen
      BY DEF Shape, ReadRow
    <3> HIDE DEF read
    <3> QED BY <3>1
  <2>2. refreshes' = Away(reads)
    BY <1>2 DEF SignOut
  <2> HIDE DEF reads
  <2>3. /\ refreshes' \subseteq ReadRow /\ \A x \in refreshes' : x.away
        /\ \A x \in refreshes' : \E r \in refreshes : x.of = r.of /\ x.seen = r.seen
    BY <2>1, <2>2, AwayReads
  <2>4. KeptCreations(creations', creations)
    <3>1. creations' = Away(Noticed(creations, "session")) \/ creations' = Away(Selected(NoOne, creations))
      BY <1>2 DEF SignOut
    <3>2. KeptCreations(Noticed(creations, "session"), creations) /\ KeptCreations(Selected(NoOne, creations), creations)
      BY NoticedKeeps, SelectedKeeps DEF Shape
    <3> DEFINE told == Noticed(creations, "session")
               other == Selected(NoOne, creations)
    <3>3. told \in SUBSET CreationRow /\ other \in SUBSET CreationRow
      BY <3>2 DEF KeptCreations
    <3>4. KeptCreations(Away(told), told) /\ KeptCreations(Away(other), other)
      BY <3>3, AwayKeeps
    <3>5. KeptCreations(Away(told), creations) /\ KeptCreations(Away(other), creations)
      BY <3>2, <3>4, KeptTwice
    <3> QED BY <3>1, <3>5
  <2>5. Shape'
    <3>1. lists' \in [Logins -> (SUBSET Added) \cup {NoList}]
      BY <1>2 DEF SignOut
    <3>2. switcher' \in [open : BOOLEAN, due : BOOLEAN, busy : BOOLEAN]
      BY <1>2 DEF SignOut
    <3>3. login' = NoOne /\ chosen' = NoOne /\ acting' = NoOne /\ owned' = owned
      BY <1>2 DEF SignOut
    <3> QED BY <2>3, <2>4, <3>1, <3>2, <3>3 DEF Shape, KeptCreations
  <2>6. ListsExist'
    BY <1>2 DEF SignOut, ListsExist
  <2>7. OwnReads' /\ LookedFor'
    BY <1>2, <2>3 DEF SignOut, OwnReads, LookedFor, ListShown, Using
  <2> QED BY <1>g, <2>3, <2>4, <2>5, <2>6, <2>7, MadeStays, ReadsStay
<1>3. CASE SessionExpires
  <2>1. KeptCreations(creations', creations)
    BY <1>3, NoticedKeeps DEF SessionExpires, Shape
  <2>2. Shape'
    BY <1>3, <2>1 DEF SessionExpires, Shape, KeptCreations
  <2>3. OwnReads' /\ LookedFor'
    BY <1>3 DEF SessionExpires, Shape, OwnReads, LookedFor, ListShown, Using
  <2>4. ListsExist' /\ ReadsExist'
    BY <1>3 DEF SessionExpires, ListsExist, ReadsExist
  <2> QED BY <1>g, <2>1, <2>2, <2>3, <2>4, MadeStays
<1> QED BY <1>1, <1>2, <1>3

LEMMA DashboardSteps == ASSUME SwitchInv, OpenDashboard \/ LeaveDashboard \/ Reread \/ CheckProfile PROVE SwitchInv'
<1> USE DEF SwitchInv
<1>g. Grows /\ (UNCHANGED creations => MadeExist') /\ (UNCHANGED lists => ListsExist')
  BY OwnedGrows, ListsStay DEF OpenDashboard, LeaveDashboard, Reread, CheckProfile, MadeExist
<1>s. NoOne \in Added \cup {NoOne} /\ (Using => login \in Logins)
  BY DEF Using, Shape
<1>1. CASE OpenDashboard
  <2>1. /\ login \in Logins /\ StartRead(NoOne) /\ switcher' = [open |-> TRUE, due |-> TRUE, busy |-> FALSE]
        /\ UNCHANGED <<login, chosen, acting, owned, lists, creations>>
    BY <1>1 DEF OpenDashboard, Shape
  <2>2. switcher'.open = TRUE /\ switcher'.due = TRUE /\ switcher' \in [open : BOOLEAN, due : BOOLEAN, busy : BOOLEAN]
    BY <2>1
  <2>3. refreshes' \subseteq ReadRow /\ ReadsExist' /\ OwnReads'
    BY <2>1, <2>2, <1>s, ReadStarts
  <2>4. Shape'
    BY <2>1, <2>2, <2>3 DEF Shape
  <2>5. LookedFor'
    BY <2>2 DEF LookedFor
  <2> QED BY <1>g, <2>1, <2>3, <2>4, <2>5
<1>2. CASE LeaveDashboard
  <2>1. /\ refreshes' = Away(refreshes) /\ creations' = Away(creations)
        /\ switcher' = [open |-> FALSE, due |-> FALSE, busy |-> FALSE]
        /\ UNCHANGED <<login, chosen, acting, owned, lists>>
    BY <1>2 DEF LeaveDashboard, CloseSwitcher
  <2>2. /\ refreshes' \subseteq ReadRow /\ \A x \in refreshes' : x.away
        /\ \A x \in refreshes' : \E r \in refreshes : x.of = r.of /\ x.seen = r.seen
    BY <2>1, AwayReads DEF Shape
  <2>3. KeptCreations(creations', creations)
    BY <2>1, AwayKeeps DEF Shape
  <2>4. switcher'.open = FALSE /\ switcher' \in [open : BOOLEAN, due : BOOLEAN, busy : BOOLEAN]
    BY <2>1
  <2>5. Shape'
    BY <2>1, <2>2, <2>3, <2>4 DEF Shape, KeptCreations
  <2>6. OwnReads' /\ LookedFor'
    BY <2>2, <2>4 DEF OwnReads, LookedFor, ListShown, Using
  <2> QED BY <1>g, <2>1, <2>2, <2>3, <2>5, <2>6, MadeStays, ReadsStay
<1>3. CASE Reread
  <2>1. Using /\ StartRead(NoOne) /\ UNCHANGED <<login, chosen, acting, owned, lists, switcher, creations>>
    BY <1>3 DEF Reread
  <2>2. login \in Logins /\ switcher'.open = TRUE
    BY <2>1, <1>s DEF Using, Shape
  <2>3. /\ refreshes' \subseteq ReadRow /\ ReadsExist' /\ OwnReads'
        /\ \A q : Sought(q) => Sought(q)'
    BY <2>1, <2>2, <1>s, ReadStarts
  <2>4. Shape'
    BY <2>1, <2>3 DEF Shape
  <2>5. LookedFor'
    BY <2>1, <2>3 DEF LookedFor, ListShown, Using
  <2> QED BY <1>g, <2>1, <2>3, <2>4, <2>5
<1>4. CASE CheckProfile
  <2>1. /\ switcher.open /\ switcher' = [switcher EXCEPT !.due = FALSE]
        /\ UNCHANGED <<login, chosen, acting, owned, lists, creations>>
    BY <1>4 DEF CheckProfile
  <2>2. switcher'.open = TRUE /\ switcher' \in [open : BOOLEAN, due : BOOLEAN, busy : BOOLEAN]
    BY <2>1 DEF Shape
  <2>3. CASE ListShown /\ chosen # NoOne /\ chosen \notin lists[login] \cup Refreshing
    <3>1. StartRead(chosen)
      BY <1>4, <2>3 DEF CheckProfile
    <3>2. login \in Logins /\ chosen \in Added \cup {NoOne}
      BY <2>3, <1>s DEF ListShown, Shape
    <3>3. refreshes' \subseteq ReadRow /\ ReadsExist' /\ OwnReads' /\ Sought(chosen)'
      BY <2>1, <2>2, <3>1, <3>2, ReadStarts
    <3>4. LookedFor'
      BY <2>1, <3>3 DEF LookedFor, Sought
    <3>5. Shape'
      BY <2>1, <2>2, <3>3 DEF Shape
    <3> QED BY <1>g, <2>1, <3>3, <3>4, <3>5
  <2>4. CASE ~(ListShown /\ chosen # NoOne /\ chosen \notin lists[login] \cup Refreshing)
    <3>1. UNCHANGED refreshes
      BY <1>4, <2>4 DEF CheckProfile
    <3>2. Shape'
      BY <2>1, <2>2, <3>1 DEF Shape
    <3>3. OwnReads' /\ ReadsExist'
      BY <2>1, <2>2, <3>1 DEF OwnReads, ReadsExist
    <3>4. LookedFor'
      BY <2>1, <2>2, <2>4, <3>1, SoughtIsRefreshing DEF LookedFor, ListShown, Using, Sought
    <3> QED BY <1>g, <2>1, <3>2, <3>3, <3>4
  <2> QED BY <2>3, <2>4
<1> QED BY <1>1, <1>2, <1>3, <1>4

\* What is read is what the login owns at that time.
LEMMA ListReadStep == ASSUME SwitchInv, NEW r \in refreshes, ListRead(r) PROVE SwitchInv'
<1> USE DEF SwitchInv
<1> DEFINE read == [r EXCEPT !.seen = owned[r.of]]
<1>1. /\ refreshes' = (refreshes \ {r}) \cup {read}
      /\ UNCHANGED <<login, chosen, acting, owned, lists, switcher, creations>>
  BY DEF ListRead
<1>2. r \in ReadRow /\ owned[r.of] \in SUBSET Added
  BY DEF Shape, ReadRow
<1>3. /\ read \in ReadRow /\ read.of = r.of /\ read.profile = r.profile /\ read.away = r.away
      /\ read.seen = owned[r.of]
  BY <1>2 DEF ReadRow
<1> HIDE DEF read
<1>4. Shape'
  BY <1>1, <1>3 DEF Shape
<1>5. ListsExist' /\ MadeExist' /\ ReadsExist'
  BY <1>1, <1>3 DEF ListsExist, MadeExist, ReadsExist
<1>6. OwnReads'
  BY <1>1, <1>3 DEF OwnReads
<1>7. LookedFor'
  BY <1>1, <1>3 DEF LookedFor, ListShown, Using, Sought
<1> QED BY <1>4, <1>5, <1>6, <1>7

\* A refresh that ends: the selection stays if the cached list has it.
LEMMA ConcludesStep ==
  ASSUME SwitchInv, NEW r \in refreshes, NEW list, Concludes(r, list), lists' = [lists EXCEPT ![r.of] = list],
         list = NoList \/ list \in SUBSET owned[r.of]
  PROVE  SwitchInv'
<1> USE DEF SwitchInv
<1> DEFINE kept == IF r.profile = NoOne \/ r.profile # chosen \/ (list # NoList /\ chosen \in list)
                   THEN chosen ELSE NoOne
           due == switcher.due \/ kept # chosen \/ list # lists[r.of]
<1>1. /\ chosen' = kept /\ creations' = Selected(kept, creations) /\ refreshes' = refreshes \ {r}
      /\ UNCHANGED <<login, acting, owned>>
      /\ switcher' = [Due(kept) EXCEPT !.due = @ \/ list # lists[r.of]]
  BY DEF Concludes
<1>2. r \in ReadRow /\ r.of \in Logins
  BY DEF Shape, ReadRow
<1>3. Due(kept) \in [open : BOOLEAN, due : BOOLEAN, busy : BOOLEAN] /\ Due(kept).open = switcher.open
      /\ (Due(kept).due <=> switcher.due \/ kept # chosen)
  BY DEF Due, Shape
<1>4. /\ switcher' \in [open : BOOLEAN, due : BOOLEAN, busy : BOOLEAN]
      /\ switcher'.open = switcher.open /\ (switcher'.due <=> due)
  BY <1>1, <1>3
<1>5. KeptCreations(creations', creations)
  BY <1>1, SelectedKeeps DEF Shape
<1>6. lists' \in [Logins -> (SUBSET Added) \cup {NoList}]
  BY <1>2 DEF Shape
<1>7. Shape'
  BY <1>1, <1>4, <1>5, <1>6 DEF Shape, KeptCreations
<1>8. Grows
  BY <1>1, OwnedGrows
<1>9. ListsExist' /\ MadeExist'
  BY <1>1, <1>2, <1>5, <1>8, MadeStays DEF Shape, ListsExist
<1>10. ReadsExist' /\ OwnReads'
  BY <1>1, <1>4 DEF ReadsExist, OwnReads
<1>11. LookedFor'
  <2> SUFFICES ASSUME ListShown', ~switcher'.due, chosen' # NoOne, chosen' \notin lists'[login']
               PROVE  Sought(chosen)'
    BY DEF LookedFor
  <2>1. kept = chosen /\ list = lists[r.of] /\ lists' = lists /\ ~switcher.due
    BY <1>2, <1>4 DEF Shape
  <2>2. ListShown /\ chosen # NoOne /\ chosen \notin lists[login] /\ login \in Logins
    BY <1>1, <1>4, <2>1 DEF ListShown, Using, Shape
  <2>3. PICK x \in refreshes : ~x.away /\ x.profile = chosen
    BY <2>1, <2>2 DEF LookedFor, Sought
  <2>4. x # r
    <3>1. x.of = login
      BY <2>2, <2>3 DEF OwnReads, ListShown, Using
    <3> QED BY <2>1, <2>2, <2>3, <3>1
  <2> QED BY <1>1, <2>1, <2>3, <2>4 DEF Sought
<1> QED BY <1>7, <1>9, <1>10, <1>11

LEMMA RefreshSteps ==
  ASSUME SwitchInv, NEW r \in refreshes, RefreshAnswered(r) \/ RefreshFails(r) PROVE SwitchInv'
<1> USE DEF SwitchInv
<1>1. r \in ReadRow /\ r.of \in Logins
  BY DEF Shape, ReadRow
<1>2. lists[r.of] = NoList \/ lists[r.of] \in SUBSET owned[r.of]
  BY <1>1 DEF ListsExist
<1>3. CASE RefreshFails(r)
  <2>1. lists' = [lists EXCEPT ![r.of] = lists[r.of]]
    BY <1>1, <1>3 DEF RefreshFails, Shape
  <2> QED BY <1>2, <1>3, <2>1, ConcludesStep DEF RefreshFails
<1>4. CASE RefreshAnswered(r)
  <2> DEFINE list == IF r.current THEN r.seen ELSE lists[r.of]
  <2>1. list = NoList \/ list \in SUBSET owned[r.of]
    BY <1>2 DEF ReadsExist
  <2>2. lists' = [lists EXCEPT ![r.of] = list] /\ Concludes(r, list)
    BY <1>4 DEF RefreshAnswered
  <2> HIDE DEF list
  <2> QED BY <2>1, <2>2, ConcludesStep
<1> QED BY <1>3, <1>4

\* The switcher, when the selection becomes p.
LEMMA DueSwitcher ==
  ASSUME Shape, NEW p
  PROVE  /\ Due(p) \in [open : BOOLEAN, due : BOOLEAN, busy : BOOLEAN] /\ Due(p).open = switcher.open
         /\ (Due(p).due <=> switcher.due \/ p # chosen)
BY DEF Due, Shape

LEMMA SelectionSteps ==
  ASSUME SwitchInv,
         \/ AccountGone
         \/ \E p \in Added \cup {NoOne} : ChooseProfile(p)
         \/ \E a \in SystemAccounts \cup {NoOne} : SelectAccount(a)
         \/ \E p \in Added : OtherTab(p)
  PROVE  SwitchInv'
<1> USE DEF SwitchInv
<1>1. CASE AccountGone
  <2>1. Shape'
    BY <1>1 DEF AccountGone, Shape
  <2>2. OwnReads' /\ LookedFor'
    BY <1>1 DEF AccountGone, OwnReads, LookedFor, ListShown, Using, Sought
  <2> QED BY <1>1, <2>1, <2>2, RowsStay DEF AccountGone
<1>2. ASSUME NEW p \in Added \cup {NoOne}, NEW a \in SystemAccounts \cup {NoOne}, Grows,
             UNCHANGED <<login, lists, refreshes>>, chosen' = p, acting' = a,
             creations' = Selected(p, creations), switcher' = Due(p),
             p = NoOne \/ p # chosen \/ owned' = owned
      PROVE  SwitchInv'
  <2>1. KeptCreations(creations', creations)
    BY <1>2, SelectedKeeps DEF Shape
  <2>2. /\ switcher' \in [open : BOOLEAN, due : BOOLEAN, busy : BOOLEAN]
        /\ switcher'.open = switcher.open /\ (switcher'.due <=> switcher.due \/ p # chosen)
    BY <1>2, DueSwitcher
  <2>3. Shape'
    BY <1>2, <2>1, <2>2 DEF Shape, KeptCreations, Grows
  <2>4. OwnReads' /\ LookedFor'
    BY <1>2, <2>2 DEF OwnReads, LookedFor, ListShown, Using, Sought
  <2> QED BY <1>2, <2>1, <2>3, <2>4, MadeStays, ReadsStay, ListsStay DEF Shape
<1>3. ASSUME NEW p \in Added \cup {NoOne}, ChooseProfile(p) PROVE SwitchInv'
  BY <1>2, <1>3, OwnedGrows DEF ChooseProfile, Shape
<1>4. ASSUME NEW a \in SystemAccounts \cup {NoOne}, SelectAccount(a) PROVE SwitchInv'
  BY <1>2, <1>4, OwnedGrows DEF SelectAccount
<1>5. ASSUME NEW p \in Added, OtherTab(p) PROVE SwitchInv'
  <2>1. Grows
    BY <1>5 DEF OtherTab, Grows, Shape
  <2> QED BY <1>2, <1>5, <2>1 DEF OtherTab, Shape
<1> QED BY <1>1, <1>3, <1>4, <1>5

LEMMA SubmitStep == ASSUME SwitchInv, SubmitProfile PROVE SwitchInv'
<1> USE DEF SwitchInv
<1> DEFINE new == [of |-> login, acting |-> acting, changed |-> "nothing", made |-> NoOne, away |-> FALSE]
<1>1. /\ creations' = creations \cup {new} /\ switcher' = [switcher EXCEPT !.busy = TRUE]
      /\ UNCHANGED <<login, chosen, acting, owned, lists, refreshes>>
  BY DEF SubmitProfile
<1>2. new \in CreationRow /\ new.made = NoOne
  BY DEF SubmitProfile, ListShown, Using, Shape, CreationRow
<1>3. /\ switcher' \in [open : BOOLEAN, due : BOOLEAN, busy : BOOLEAN]
      /\ switcher'.open = switcher.open /\ switcher'.due = switcher.due
  BY <1>1 DEF Shape
<1> HIDE DEF new
<1>4. Shape'
  BY <1>1, <1>2, <1>3 DEF Shape
<1>5. ListsExist' /\ ReadsExist' /\ MadeExist'
  BY <1>1, <1>2 DEF ListsExist, ReadsExist, MadeExist
<1>6. OwnReads' /\ LookedFor'
  BY <1>1, <1>3 DEF OwnReads, LookedFor, ListShown, Using, Sought
<1> QED BY <1>4, <1>5, <1>6

LEMMA MadeStep == ASSUME SwitchInv, NEW c \in creations, ProfileMade(c) PROVE SwitchInv'
<1> USE DEF SwitchInv
<1>1. PICK p \in Added : /\ owned' = [owned EXCEPT ![c.of] = @ \cup {p}]
                         /\ creations' = (creations \ {c}) \cup {[c EXCEPT !.made = p]}
  BY DEF ProfileMade
<1> DEFINE done == [c EXCEPT !.made = p]
<1>2. c \in CreationRow /\ c.of \in Logins
  BY DEF Shape, CreationRow
<1>3. done \in CreationRow /\ done.of = c.of /\ done.made = p
  BY <1>2 DEF CreationRow
<1>4. creations' = (creations \ {c}) \cup {done} /\ UNCHANGED <<login, chosen, acting, lists, switcher, refreshes>>
  BY <1>1 DEF ProfileMade
<1> HIDE DEF done
<1>5. Grows /\ p \in owned'[c.of]
  BY <1>1, <1>2 DEF Grows, Shape
<1>6. Shape'
  BY <1>3, <1>4, <1>5 DEF Shape, Grows
<1>7. MadeExist'
  BY <1>2, <1>3, <1>4, <1>5 DEF MadeExist, Grows, Shape, CreationRow
<1>8. OwnReads' /\ LookedFor'
  BY <1>4 DEF OwnReads, LookedFor, ListShown, Using, Sought
<1> QED BY <1>4, <1>5, <1>6, <1>7, <1>8, ReadsStay, ListsStay DEF Shape

\* The switcher that a creation lets go of.
LEMMA ReleasedSwitcher ==
  ASSUME Shape, NEW c \in creations
  PROVE  /\ Released(c) \in [open : BOOLEAN, due : BOOLEAN, busy : BOOLEAN]
         /\ Released(c).open = switcher.open /\ Released(c).due = switcher.due
<1>1. c \in CreationRow
  BY DEF Shape
<1>2. (switcher.busy /\ (c.away \/ c.changed = "session")) \in BOOLEAN
  BY <1>1 DEF Shape, CreationRow
<1> QED BY <1>2 DEF Released, Shape

LEMMA CreationEnds == ASSUME SwitchInv, NEW c \in creations, CreationFails(c) PROVE SwitchInv'
<1> USE DEF SwitchInv
<1>1. /\ creations' = creations \ {c} /\ switcher' = Released(c)
      /\ UNCHANGED <<login, chosen, acting, owned, lists, refreshes>>
  BY DEF CreationFails
<1>2. /\ switcher' \in [open : BOOLEAN, due : BOOLEAN, busy : BOOLEAN]
      /\ switcher'.open = switcher.open /\ switcher'.due = switcher.due
  BY <1>1, ReleasedSwitcher
<1>3. Shape'
  BY <1>1, <1>2 DEF Shape
<1>4. ListsExist' /\ ReadsExist' /\ MadeExist'
  BY <1>1 DEF ListsExist, ReadsExist, MadeExist
<1>5. OwnReads' /\ LookedFor'
  BY <1>1, <1>2 DEF OwnReads, LookedFor, ListShown, Using, Sought
<1> QED BY <1>3, <1>4, <1>5

LEMMA CreationStep == ASSUME SwitchInv, NEW c \in creations, CreationAnswered(c) PROVE SwitchInv'
<1> USE DEF SwitchInv
<1>1. c \in CreationRow /\ c.of \in Logins /\ c.made \in Added /\ c.made \in owned[c.of]
  BY DEF Shape, CreationRow, CreationAnswered, MadeExist
<1>g. Grows
  BY OwnedGrows DEF CreationAnswered
<1>2. CASE c.changed = "session"
  <2>1. creations' = creations \ {c} /\ UNCHANGED <<login, chosen, acting, owned, lists, refreshes, switcher>>
    BY <1>2 DEF CreationAnswered
  <2>2. Shape'
    BY <2>1 DEF Shape
  <2>3. ListsExist' /\ ReadsExist' /\ MadeExist'
    BY <2>1 DEF ListsExist, ReadsExist, MadeExist
  <2>4. OwnReads' /\ LookedFor'
    BY <2>1 DEF OwnReads, LookedFor, ListShown, Using, Sought
  <2> QED BY <2>2, <2>3, <2>4
<1>3. CASE c.changed # "session"
  <2> DEFINE next == IF c.changed = "nothing" /\ AccountKept(c) THEN c.made ELSE chosen
             list == WithNew(c)
             rest == creations \ {c}
  <2>1. /\ lists' = [lists EXCEPT ![c.of] = list] /\ refreshes' = Outdated(c.of)
        /\ chosen' = next /\ creations' = Selected(next, rest)
        /\ switcher' = [Released(c) EXCEPT !.due = TRUE]
        /\ UNCHANGED <<login, acting, owned>>
    BY <1>3 DEF CreationAnswered
  <2>2. next \in Added \cup {NoOne}
    BY <1>1 DEF Shape
  <2>3. list \in SUBSET Added /\ list \subseteq owned[c.of]
    BY <1>1 DEF WithNew, Shape, ListsExist
  <2> HIDE DEF next, list
  <2>4. AlikeReads(refreshes', refreshes)
    BY <2>1, OutdatedAlike
  <2>5. rest \in SUBSET CreationRow /\ KeptCreations(rest, creations)
    BY DEF Shape, KeptCreations
  <2> HIDE DEF rest
  <2>6. KeptCreations(creations', creations)
    <3>1. KeptCreations(creations', rest)
      BY <2>1, <2>5, SelectedKeeps
    <3> QED BY <2>5, <3>1, KeptTwice
  <2>7. /\ switcher' \in [open : BOOLEAN, due : BOOLEAN, busy : BOOLEAN]
        /\ switcher'.open = switcher.open /\ switcher'.due = TRUE
    BY <2>1, ReleasedSwitcher
  <2>8. lists' \in [Logins -> (SUBSET Added) \cup {NoList}]
    BY <1>1, <2>1, <2>3 DEF Shape
  <2>9. Shape'
    BY <2>1, <2>2, <2>4, <2>6, <2>7, <2>8 DEF Shape, AlikeReads, KeptCreations
  <2>10. ListsExist'
    BY <1>1, <2>1, <2>3 DEF Shape, ListsExist
  <2>11. ReadsExist' /\ MadeExist'
    BY <1>g, <2>4, <2>6, ReadsStay, MadeStays DEF AlikeReads, Alike
  <2>12. OwnReads' /\ LookedFor'
    BY <2>1, <2>4, <2>7 DEF AlikeReads, Alike, OwnReads, LookedFor
  <2> QED BY <2>9, <2>10, <2>11, <2>12
<1> QED BY <1>2, <1>3

LEMMA SwitchInvStep == SwitchInv /\ [SwitchNext]_switchVars => SwitchInv'
<1> SUFFICES ASSUME SwitchInv, [SwitchNext]_switchVars PROVE SwitchInv'
  OBVIOUS
<1>1. ASSUME UNCHANGED switchVars PROVE SwitchInv'
  <2>1. UNCHANGED <<login, chosen, acting, owned, lists, switcher, refreshes, creations>>
    BY <1>1 DEF switchVars
  <2>2. Shape'
    BY <2>1 DEF SwitchInv, Shape
  <2>3. OwnReads' /\ LookedFor'
    BY <2>1 DEF SwitchInv, OwnReads, LookedFor, ListShown, Using, Sought
  <2> QED BY <2>1, <2>2, <2>3, RowsStay DEF SwitchInv
<1> QED
  BY <1>1, SessionSteps, DashboardSteps, ListReadStep, RefreshSteps, SelectionSteps, SubmitStep, MadeStep,
     CreationEnds, CreationStep DEF SwitchNext

\* Once the account switcher has come to rest, the profile it shows is the one
\* that the backend makes of every request (AccountSwitcher.tsx, auth.ts).
THEOREM ShownIsActed == SwitchSpec => []ActsAsShown
<1>1. SwitchSpec => []SwitchInv
  BY SwitchInvInit, SwitchInvStep, PTL DEF SwitchSpec
<1> QED BY <1>1, RestAgrees, PTL

-----------------------------------------------------------------------------
Asked == [kind : {"fetch", "refetch", "save", "resume"}, current : BOOLEAN,
          how : {"load", "preserveForm", "form", "file", "headers"} \cup Stages]
Form == {"blank", "loaded", "edited"}
VideoRow == [loading : BOOLEAN, movie : Stages \cup {NoMovie}, form : Form,
             resuming : BOOLEAN, submitting : BOOLEAN]

\* A fetch whose answer is taken.
Awaited(q) == q.kind = "fetch" /\ q.current

\* One answer is waited for at most, and one that brings a form finds the page loading.
OneFetch == \A q, r \in asked : Awaited(q) /\ Awaited(r) => q = r
LoadsAreShown == \A q \in asked : Awaited(q) => q.how = "preserveForm" \/ video.loading
VideoInv == video \in VideoRow /\ stage \in Stages /\ asked \subseteq Asked /\ OneFetch /\ LoadsAreShown

\* The fetches of a page that is waiting are some of those it had.
Fewer(qs) == qs \subseteq Asked /\ \A q \in qs : Awaited(q) => q \in asked

LEMMA OutdateFewer ==
  ASSUME NEW kinds, NEW qs, qs \subseteq Asked, qs \subseteq asked
  PROVE  /\ Fewer(Outdate(kinds, qs))
         /\ "fetch" \in kinds => \A q \in Outdate(kinds, qs) : ~Awaited(q)
<1>1. \A q \in qs : [q EXCEPT !.current = FALSE] \in Asked
                    /\ [q EXCEPT !.current = FALSE].current = FALSE
                    /\ [q EXCEPT !.current = FALSE].kind = q.kind
  BY DEF Asked
<1> QED BY <1>1 DEF Outdate, Fewer, Awaited

LEMMA FewerKeeps ==
  ASSUME VideoInv, video' \in VideoRow, stage' \in Stages, Fewer(asked'),
         \A q \in asked' : Awaited(q) => q.how = "preserveForm" \/ video'.loading
  PROVE  VideoInv'
BY DEF VideoInv, Fewer, OneFetch, LoadsAreShown, Awaited

LEMMA SubsetFewer == ASSUME VideoInv, NEW qs, qs \subseteq asked PROVE Fewer(qs)
BY DEF VideoInv, Fewer

LEMMA OneNewFetch ==
  ASSUME VideoInv, video' \in VideoRow, stage' \in Stages, NEW how, NEW qs,
         qs \subseteq Asked, \A q \in qs : ~Awaited(q),
         how \in {"load", "preserveForm"},
         asked' = qs \cup {Ask("fetch", how)}, how = "preserveForm" \/ video'.loading
  PROVE  VideoInv'
<1>1. Ask("fetch", how) \in Asked /\ Ask("fetch", how).how = how
  BY DEF Ask, Asked
<1>2. asked' \subseteq Asked
  BY <1>1
<1> QED BY <1>1, <1>2 DEF VideoInv, OneFetch, LoadsAreShown, Awaited

\* Whose answer is not waited for any more, or was refused: nothing new is asked.
LEMMA LessAsked ==
  ASSUME VideoInv, NEW qs, qs \subseteq asked, video' \in VideoRow, stage' \in Stages,
         asked' = qs \/ (\E kinds : asked' = Outdate(kinds, qs)),
         \/ video'.loading = video.loading
         \/ \A q \in qs : ~Awaited(q)
  PROVE  VideoInv'
<1>1. qs \subseteq Asked
  BY DEF VideoInv
<1>2. Fewer(qs)
  BY SubsetFewer
<1>3. Fewer(asked')
  BY <1>1, <1>2, OutdateFewer
<1>4. \A q \in asked' : Awaited(q) => q \in qs
  <2>1. CASE asked' = qs
    BY <2>1
  <2>2. ASSUME NEW kinds, asked' = Outdate(kinds, qs) PROVE \A q \in asked' : Awaited(q) => q \in qs
    <3>1. \A q \in qs : ~[q EXCEPT !.current = FALSE].current
      BY <1>1 DEF Asked
    <3> QED BY <2>2, <3>1 DEF Outdate, Awaited
  <2> QED BY <2>1, <2>2
<1>5. \A q \in asked' : Awaited(q) => q.how = "preserveForm" \/ video'.loading
  BY <1>4 DEF VideoInv, LoadsAreShown
<1> QED BY <1>3, <1>5, FewerKeeps

\* The rest of what is asked, once the answer of an awaited fetch is there.
LEMMA NoneAwaited ==
  ASSUME VideoInv, NEW q \in asked, Awaited(q)
  PROVE  \A r \in asked \ {q} : ~Awaited(r)
BY DEF VideoInv, OneFetch

LEMMA FetchSteps ==
  ASSUME VideoInv, NEW q \in asked, MovieLoaded(q) \/ MovieNotLoaded(q)
  PROVE  VideoInv' /\ (video.form = "edited" /\ video'.form # "edited" => video.loading \/ video'.loading)
<1>1. CASE MovieLoaded(q) /\ q.current
  <2>1. Awaited(q)
    BY <1>1 DEF MovieLoaded, Awaited
  <2>2. video' = [video EXCEPT !.loading = FALSE, !.movie = stage,
                          !.form = IF q.how = "preserveForm" THEN @ ELSE "loaded"]
    BY <1>1 DEF MovieLoaded
  <2>3. video' \in VideoRow /\ stage' \in Stages
    BY <1>1, <2>2 DEF MovieLoaded, VideoInv, VideoRow, Form
  <2>4. asked' = asked \ {q} \/ asked' = Outdate({"refetch"}, asked \ {q})
    BY <1>1 DEF MovieLoaded, FollowFeed
  <2>5. VideoInv'
    BY <2>1, <2>3, <2>4, NoneAwaited, LessAsked
  <2>6. q.how # "preserveForm" => video.loading
    BY <2>1 DEF VideoInv, LoadsAreShown
  <2>7. q.how = "preserveForm" => video'.form = video.form
    BY <2>2 DEF VideoInv, VideoRow
  <2> QED BY <2>5, <2>6, <2>7
<1>2. CASE MovieLoaded(q) /\ ~q.current
  <2>1. video' = video /\ asked' = asked \ {q} /\ stage' = stage
    BY <1>2 DEF MovieLoaded
  <2> QED BY <2>1, LessAsked DEF VideoInv
<1>3. CASE MovieNotLoaded(q) /\ q.current
  <2>1. Awaited(q) /\ asked' = asked \ {q} /\ stage' = stage
    BY <1>3 DEF MovieNotLoaded, Awaited
  <2>2. video' \in VideoRow /\ video'.form = video.form
    BY <1>3 DEF MovieNotLoaded, VideoInv, VideoRow
  <2> QED BY <2>1, <2>2, NoneAwaited, LessAsked DEF VideoInv
<1>4. CASE MovieNotLoaded(q) /\ ~q.current
  <2>1. video' = video /\ asked' = asked \ {q} /\ stage' = stage
    BY <1>4 DEF MovieNotLoaded
  <2> QED BY <2>1, LessAsked DEF VideoInv
<1> QED BY <1>1, <1>2, <1>3, <1>4

\* Steps that ask for no page, and leave it where it is.
LEMMA OtherAnswers ==
  ASSUME VideoInv, NEW q \in asked,
         \/ VideoNotSaved(q) \/ ResumeFails(q) \/ RefetchAnswered(q) \/ RefetchRead(q)
         \/ RefetchFails(q)
  PROVE  VideoInv' /\ video'.form = video.form
<1>1. q \in Asked /\ video \in VideoRow /\ stage \in Stages /\ asked \subseteq Asked
  BY DEF VideoInv
<1>2. stage' = stage
  BY DEF VideoNotSaved, ResumeFails, RefetchAnswered, RefetchRead, RefetchFails
<1>3. video' \in VideoRow /\ video'.loading = video.loading /\ video'.form = video.form
  BY <1>1 DEF VideoNotSaved, ResumeFails, RefetchAnswered, RefetchRead, RefetchFails, VideoRow
<1>4. CASE asked' = asked \ {q} \/ asked' = Outdate({"refetch"}, asked \ {q})
  BY <1>1, <1>2, <1>3, <1>4, LessAsked
<1>5. CASE RefetchAnswered(q) /\ q.current
  <2> DEFINE r == [q EXCEPT !.how = stage]
  <2>1. r \in Asked /\ r.kind = "refetch" /\ asked' = (asked \ {q}) \cup {r}
    BY <1>1, <1>5 DEF RefetchAnswered, Asked
  <2> HIDE DEF r
  <2>2. Fewer(asked') /\ \A s \in asked' : Awaited(s) => s \in asked
    BY <1>1, <2>1 DEF Fewer, Awaited
  <2>3. \A s \in asked' : Awaited(s) => s.how = "preserveForm" \/ video'.loading
    BY <1>3, <2>2 DEF VideoInv, LoadsAreShown
  <2> QED BY <1>1, <1>2, <1>3, <2>2, <2>3, FewerKeeps
<1> QED
  BY <1>3, <1>4, <1>5 DEF VideoNotSaved, ResumeFails, RefetchAnswered, RefetchRead, RefetchFails, FollowFeed

LEMMA SavedSteps ==
  ASSUME VideoInv, NEW q \in asked, VideoSaved(q)
  PROVE  VideoInv' /\ (video'.form # video.form => video'.loading)
<1> USE DEF VideoInv
<1>1. stage' = stage
  BY DEF VideoSaved
<1>2. CASE video' = video /\ asked' = asked \ {q}
  BY <1>1, <1>2, LessAsked
<1>3. CASE /\ video' = FreshVideo
           /\ asked' = {Ask("fetch", "load")} \cup Outdate({"resume"}, {p \in asked : p.kind = "resume"})
  <2> DEFINE rest == Outdate({"resume"}, {p \in asked : p.kind = "resume"})
  <2>1. video' \in VideoRow /\ video'.loading
    BY <1>3 DEF FreshVideo, VideoRow, Form
  <2>2. Fewer(rest) /\ rest \subseteq Asked
    BY OutdateFewer DEF Fewer
  <2>3. \A p \in rest : ~Awaited(p)
    <3>1. \A p \in Asked : [p EXCEPT !.current = FALSE].kind = p.kind
      BY DEF Asked
    <3> QED BY <3>1 DEF Outdate, Awaited
  <2> HIDE DEF rest
  <2>4. asked' = rest \cup {Ask("fetch", "load")}
    BY <1>3 DEF rest
  <2> QED BY <1>1, <2>1, <2>2, <2>3, <2>4, OneNewFetch
<1> QED BY <1>2, <1>3 DEF VideoSaved

LEMMA ResumedStep ==
  ASSUME VideoInv, NEW q \in asked, VideoResumed(q)
  PROVE  VideoInv' /\ video'.form = video.form
<1> USE DEF VideoInv
<1>1. stage' \in Stages
  BY DEF VideoResumed, Stages
<1>2. CASE ~q.current
  BY <1>1, <1>2, LessAsked DEF VideoResumed
<1>3. CASE q.current
  <2>1. video' \in VideoRow /\ video'.form = video.form
    BY <1>3 DEF VideoResumed, VideoRow
  <2>2. /\ Outdate({"fetch"}, asked \ {q}) \subseteq Asked
        /\ \A p \in Outdate({"fetch"}, asked \ {q}) : ~Awaited(p)
    BY OutdateFewer DEF Fewer
  <2> QED BY <1>1, <1>3, <2>1, <2>2, OneNewFetch DEF VideoResumed
<1> QED BY <1>2, <1>3

\* Requests that are no fetch join what is asked.
LEMMA AskMore ==
  ASSUME VideoInv, NEW p \in Asked, p.kind # "fetch", asked' = asked \cup {p},
         video' \in VideoRow, video'.loading = video.loading, stage' = stage
  PROVE  VideoInv'
<1>1. Fewer(asked') /\ \A q \in asked' : Awaited(q) => q \in asked
  BY DEF VideoInv, Fewer, Awaited
<1> QED BY <1>1, FewerKeeps DEF VideoInv, LoadsAreShown

LEMMA PageSteps ==
  ASSUME VideoInv,
         EditVideo \/ SaveVideo \/ ResumeVideo \/ EncodeOver \/ FeedReportsEnd \/ FeedCloses
  PROVE  VideoInv' /\ (video'.form = "edited" \/ video'.form = video.form)
<1> USE DEF VideoInv
<1>1. /\ Ask("save", "form") \in Asked /\ Ask("save", "form").kind # "fetch"
      /\ Ask("resume", "file") \in Asked /\ Ask("resume", "file").kind # "fetch"
      /\ Ask("refetch", "headers") \in Asked /\ Ask("refetch", "headers").kind # "fetch"
  BY DEF Ask, Asked
<1>2. CASE EditVideo
  <2>1. video' \in VideoRow /\ video'.loading = video.loading /\ video'.form = "edited"
    BY <1>2 DEF EditVideo, VideoRow, Form
  <2> QED BY <1>2, <2>1, LessAsked DEF EditVideo
<1>3. CASE SaveVideo \/ ResumeVideo
  <2>1. video' \in VideoRow /\ video'.loading = video.loading /\ video'.form = video.form
    BY <1>3 DEF SaveVideo, ResumeVideo, VideoRow
  <2> QED BY <1>1, <1>3, <2>1, AskMore DEF SaveVideo, ResumeVideo
<1>4. CASE EncodeOver \/ FeedCloses
  <2>1. stage' \in Stages /\ video' = video /\ asked' = asked
    BY <1>4 DEF EncodeOver, FeedCloses, Stages
  <2> QED BY <2>1, LessAsked
<1>5. CASE FeedReportsEnd
  BY <1>1, <1>5, AskMore DEF FeedReportsEnd
<1> QED BY <1>2, <1>3, <1>4, <1>5

LEMMA SelectStep ==
  ASSUME VideoInv, NEW v \in Viewpoints, SelectViewpoint(v)
  PROVE  VideoInv' /\ video'.loading
<1> DEFINE kinds == {"fetch", "save", "refetch"}
<1>1. video' \in VideoRow /\ video'.loading /\ stage' \in Stages
  BY DEF SelectViewpoint, VideoInv, VideoRow
<1>2. /\ Fewer(Outdate(kinds, asked)) /\ Outdate(kinds, asked) \subseteq Asked
      /\ \A q \in Outdate(kinds, asked) : ~Awaited(q)
  BY OutdateFewer DEF VideoInv, Fewer
<1>3. CASE asked' = Outdate(kinds, asked)
  BY <1>1, <1>2, <1>3, FewerKeeps
<1>4. CASE asked' = Outdate(kinds, asked) \cup {Ask("fetch", "load")}
  <2> HIDE DEF kinds
  <2> QED BY <1>1, <1>2, <1>4, OneNewFetch
<1> QED BY <1>1, <1>3, <1>4 DEF SelectViewpoint

\* The next step keeps what is typed, or the page is loading.
LEMMA EditsStep ==
  ASSUME VideoInv, [VideoNext]_videoVars
  PROVE  VideoInv' /\ (video.form = "edited" /\ video'.form # "edited" => video.loading \/ video'.loading)
<1>1. CASE UNCHANGED videoVars
  BY <1>1, LessAsked DEF videoVars, VideoInv
<1> QED
  BY <1>1, FetchSteps, OtherAnswers, SavedSteps, ResumedStep, PageSteps, SelectStep DEF VideoNext

\* What the user has typed is replaced only by a page that loads: for another
\* selection, or because it was left (videos.$id.edit.tsx:159).
THEOREM TypedIsKept == VideoSpec => EditsKept
<1>1. VideoInit => VideoInv
  <2> SUFFICES ASSUME VideoInit PROVE VideoInv
    OBVIOUS
  <2>1. video \in VideoRow /\ video.loading /\ Ask("fetch", "load") \in Asked
    BY DEF VideoInit, FreshVideo, VideoRow, Form, Ask, Asked
  <2> QED BY <2>1 DEF VideoInit, VideoInv, OneFetch, LoadsAreShown
<1>2. VideoInv /\ [VideoNext]_videoVars =>
        VideoInv' /\ [video.form = "edited" /\ video'.form # "edited" => video.loading \/ video'.loading]_videoVars
  BY EditsStep
<1> QED BY <1>1, <1>2, PTL DEF VideoSpec, EditsKept

-----------------------------------------------------------------------------
\* Rows are listed, and deletions asked for, under the profile that owns them.
RowsOwned ==
  /\ \A k \in Keys : listed[k] # NoRows => listed[k].rows \subseteq ToSet(RowsOf[k.of])
  /\ dialog # NoRows => dialog.row \in ToSet(RowsOf[dialog.as])
  /\ listed \in [Keys -> {listed[k] : k \in Keys}]

LEMMA AnswersOwned == \A k \in Keys : Answer(k).rows \subseteq ToSet(RowsOf[k.of])
BY DEF Answer, OnPage, ToSet

LEMMA RowsOwnedStep ==
  RowsOwned /\ DeletesAsListed /\ [DashboardNext]_dashboardVars => RowsOwned' /\ DeletesAsListed'
<1> SUFFICES ASSUME RowsOwned, DeletesAsListed, [DashboardNext]_dashboardVars
             PROVE  RowsOwned' /\ DeletesAsListed'
  OBVIOUS
<1> USE DEF RowsOwned, DeletesAsListed
<1>1. ASSUME NEW k \in fetching, Fetched(k) PROVE RowsOwned' /\ DeletesAsListed'
  BY <1>1, AnswersOwned DEF Fetched
<1>2. ASSUME NEW r \in OnScreen, AskDelete(r) PROVE RowsOwned' /\ DeletesAsListed'
  <2>1. Key \in Keys /\ r \in listed[Key].rows /\ listed[Key] # NoRows /\ Key.of = owner
    BY <1>2 DEF OnScreen, Key
  <2>2. r \in ToSet(RowsOf[owner])
    BY <2>1
  <2>3. dialog'.row = r /\ dialog'.as = owner
    BY <1>2 DEF AskDelete
  <2> QED BY <1>2, <2>2, <2>3 DEF AskDelete
<1>3. CASE ConfirmDelete
  BY <1>3 DEF ConfirmDelete
<1>4. CASE UNCHANGED listed /\ dialog' \in {dialog, NoRows} /\ deletions' \subseteq deletions
  BY <1>4
<1> QED
  BY <1>1, <1>2, <1>3, <1>4 DEF DashboardNext, dashboardVars, NotFetched, Refetch, DeclineDelete,
     TurnPage, SelectOwner, Show, DeletedRow, NotDeleted

\* A deletion is sent under the profile its row was listed for, however long the
\* dialog was open and whatever is selected by then (videos.index.tsx:75, 88-91).
THEOREM DeletionsAreOwn == DashboardSpec => []DeletesAsListed
<1>1. DashboardInit => RowsOwned /\ DeletesAsListed
  BY DEF DashboardInit, RowsOwned, DeletesAsListed
<1> QED BY <1>1, RowsOwnedStep, PTL DEF DashboardSpec

-----------------------------------------------------------------------------
EditorShape ==
  /\ DOMAIN editor = DOMAIN Blank /\ DOMAIN entity = {"form", "list"}
  /\ \A c \in calls : DOMAIN c = DOMAIN NewCall("fetch")

Fetches(c) == c.kind = "fetch" /\ c.current
Pending(c) == Changes(c) /\ c.current

\* A form is asked for once, for the profile that is selected.
AskedOnce ==
  /\ \A c, d \in calls : Fetches(c) /\ Fetches(d) => c = d
  /\ \A c \in calls : Fetches(c) => editor.loading /\ c.as = choice.profile
\* One change of the list is on its way, of a page that is loaded.
ChangedOnce ==
  /\ \A c, d \in calls : Pending(c) /\ Pending(d) => c = d
  /\ \A c \in calls : Pending(c) => Loaded /\ editor.busy # "none" /\ editor.drag # "over"
  /\ editor.loading => editor.busy = "none" /\ editor.drag = "none"
  /\ editor.drag = "over" => Loaded /\ editor.busy = "none"
\* The page has not lost sight of any change, or says so.
InSight == ~astray => \A c \in calls : Changes(c) => c.current
\* What a change will make of the list it will make of what is shown.
Follows(c) ==
  /\ c.kind = "add" => editor.shown = entity.list
  /\ c.kind = "remove" => editor.shown = entity.list /\ c.list = entity.list
  /\ c.kind = "order" => editor.shown = c.list /\ c.rollback = entity.list
Mirrors ==
  Loaded /\ ~astray =>
    /\ \A c \in calls : Pending(c) => Follows(c)
    /\ editor.busy = "none" /\ editor.drag = "over" => editor.before = entity.list
    /\ editor.busy = "none" /\ editor.drag # "over" => editor.shown = entity.list

EditorInv == EditorShape /\ AskedOnce /\ FormIsOwn /\ ChangedOnce /\ InSight /\ Mirrors

\* What a request is that is sent now, or is not the page's any more.
LEMMA CallFields ==
  ASSUME NEW kind
  PROVE  LET c == NewCall(kind)
         IN  /\ DOMAIN c = DOMAIN NewCall("fetch")
             /\ c.kind = kind /\ c.current /\ c.as = choice.profile
BY DEF NewCall

LEMMA StaleCalls ==
  ASSUME NEW cs, \A c \in cs : DOMAIN c = DOMAIN NewCall("fetch")
  PROVE  \A c \in Stale(cs) :
           /\ DOMAIN c = DOMAIN NewCall("fetch") /\ ~c.current
           /\ \E d \in cs : c.kind = d.kind
<1>1. ASSUME NEW d \in cs
      PROVE  /\ DOMAIN [d EXCEPT !.current = FALSE] = DOMAIN NewCall("fetch")
             /\ ~[d EXCEPT !.current = FALSE].current
             /\ [d EXCEPT !.current = FALSE].kind = d.kind
  BY <1>1 DEF NewCall
<1> QED BY <1>1 DEF Stale

LEMMA BlankFields ==
  /\ Blank.loading /\ Blank.busy = "none" /\ Blank.drag = "none"
BY DEF Blank

\* The page starts anew.
LEMMA Anew ==
  ASSUME EditorInv, NEW cs, cs \subseteq calls, editor' = Blank, DOMAIN entity' = {"form", "list"},
         astray' = (\E c \in cs : Changes(c)),
         \/ calls' = Stale(cs)
         \/ \E f : /\ calls' = Stale(cs) \cup {f} /\ f.kind = "fetch" /\ f.as = choice'.profile
                   /\ DOMAIN f = DOMAIN NewCall("fetch")
  PROVE  EditorInv'
<1>1. \A c \in Stale(cs) : /\ DOMAIN c = DOMAIN NewCall("fetch") /\ ~c.current
                           /\ \E d \in cs : c.kind = d.kind
  BY StaleCalls DEF EditorInv, EditorShape
<1>2. DOMAIN NewCall("fetch") = DOMAIN NewCall("fetch")'
  BY DEF NewCall
<1>3. EditorShape'
  BY <1>1, <1>2 DEF EditorShape, Blank
<1>4. \A c \in calls' : ~Pending(c)
  BY <1>1 DEF Pending, Changes
<1>5. AskedOnce'
  BY <1>1, BlankFields DEF AskedOnce, Fetches
<1>6. FormIsOwn' /\ ChangedOnce' /\ Mirrors'
  <2>1. ~Loaded'
    BY BlankFields DEF Loaded
  <2> QED BY <1>4, <2>1, BlankFields DEF FormIsOwn, ChangedOnce, Mirrors, Pending, Changes
<1>7. InSight'
  BY <1>1 DEF InSight, Changes
<1> QED BY <1>3, <1>5, <1>6, <1>7 DEF EditorInv

\* Whether a request is awaited depends on nothing but itself.
LEMMA FetchStep ==
  ASSUME EditorInv, NEW c \in calls, FetchAnswered(c) \/ FetchFailed(c)
  PROVE  EditorInv'
<1> USE DEF EditorInv
<1>1. calls' = calls \ {c} /\ UNCHANGED <<choice, entity, astray>>
  BY DEF FetchAnswered, FetchFailed
<1>2. InSight'
  BY <1>1 DEF InSight, Changes
<1>3. DOMAIN NewCall("fetch") = DOMAIN NewCall("fetch")'
  BY DEF NewCall
<1>4. CASE ~c.current
  <2>1. editor' = editor
    BY <1>4 DEF FetchAnswered, FetchFailed
  <2> QED BY <1>1, <1>2, <1>3, <2>1 DEF EditorShape, AskedOnce, Fetches, ChangedOnce, Pending, Changes,
             Mirrors, Follows, FormIsOwn, Loaded
<1>5. CASE c.current
  <2>1. Fetches(c) /\ editor.loading /\ c.as = choice.profile /\ editor.busy = "none" /\ editor.drag = "none"
    BY <1>5 DEF FetchAnswered, FetchFailed, Fetches, AskedOnce, ChangedOnce
  <2>2. \A d \in calls : ~Pending(d)
    BY <2>1 DEF ChangedOnce, Loaded
  <2>3. \A d \in calls' : ~Fetches(d) /\ ~Pending(d)
    BY <1>1, <2>1, <2>2 DEF AskedOnce
  <2>4. /\ DOMAIN editor' = DOMAIN Blank /\ ~editor'.loading
        /\ editor'.busy = "none" /\ editor'.drag = "none"
        /\ editor'.failed \/ (editor'.formOf = c.as /\ editor'.shown = entity.list)
    BY <1>5, <2>1 DEF FetchAnswered, FetchFailed, EditorShape, Blank
  <2>5. EditorShape' /\ AskedOnce'
    BY <1>1, <1>3, <2>3, <2>4 DEF EditorShape, AskedOnce, Fetches
  <2>6. FormIsOwn' /\ ChangedOnce' /\ Mirrors'
    BY <1>1, <2>1, <2>3, <2>4 DEF FormIsOwn, ChangedOnce, Mirrors, Loaded, Pending, Changes
  <2> QED BY <1>2, <2>5, <2>6
<1> QED BY <1>4, <1>5

\* The requests and the list stay, and what is typed is of the same profile.
LEMMA PageStays ==
  ASSUME EditorInv, UNCHANGED <<choice, calls, entity, astray>>, DOMAIN editor' = DOMAIN Blank,
         editor'.loading = editor.loading, editor'.failed = editor.failed,
         editor'.formOf = editor.formOf, editor'.busy = editor.busy,
         \/ editor'.drag = editor.drag /\ editor'.shown = editor.shown /\ editor'.before = editor.before
         \/ editor.busy = "none" /\ Loaded /\ editor'.drag = "over"
            /\ editor'.before = IF editor.drag = "over" THEN editor.before ELSE editor.shown
  PROVE  EditorInv'
<1> USE DEF EditorInv
<1>1. DOMAIN NewCall("fetch") = DOMAIN NewCall("fetch")'
  BY DEF NewCall
<1>2. EditorShape' /\ AskedOnce' /\ InSight' /\ FormIsOwn'
  BY <1>1 DEF EditorShape, AskedOnce, Fetches, InSight, Changes, FormIsOwn, Loaded
<1>3. ChangedOnce'
  BY DEF ChangedOnce, Pending, Changes, Loaded
<1>4. Mirrors'
  BY DEF Mirrors, ChangedOnce, Pending, Changes, Loaded, Follows
<1> QED BY <1>2, <1>3, <1>4

LEMMA TypeSteps ==
  ASSUME EditorInv,
         \/ \E f \in EntryForms : TypeForm(f)
         \/ DragStart \/ \E i \in 1..Cardinality(Entries) : DragOver(i)
  PROVE  EditorInv'
<1>1. DOMAIN editor = DOMAIN Blank
  BY DEF EditorInv, EditorShape
<1>2. ASSUME NEW f \in EntryForms, TypeForm(f) PROVE EditorInv'
  BY <1>1, <1>2, PageStays DEF TypeForm, Blank
<1>3. CASE DragStart
  BY <1>1, <1>3, PageStays DEF DragStart, Idle, Open, Loaded, Blank
<1>4. ASSUME NEW i \in 1..Cardinality(Entries), DragOver(i) PROVE EditorInv'
  <2>1. Loaded /\ editor.busy = "none"
    BY <1>4 DEF DragOver, EditorInv, ChangedOnce
  <2> QED BY <1>1, <1>4, <2>1, PageStays DEF DragOver, Blank
<1> QED BY <1>2, <1>3, <1>4

\* A request is sent, by a page that is loaded.
LEMMA SendStep ==
  ASSUME EditorInv, NEW c, calls' = calls \cup {c}, c.current, ~Fetches(c),
         DOMAIN c = DOMAIN NewCall("fetch"), UNCHANGED <<choice, entity, astray>>,
         Loaded, DOMAIN editor' = DOMAIN Blank, editor'.formOf = editor.formOf, Loaded',
         \/ /\ ~Changes(c)
            /\ UNCHANGED <<editor.busy, editor.drag, editor.shown, editor.before>>
         \/ /\ Changes(c) /\ editor.busy = "none" /\ editor'.busy # "none" /\ editor'.drag # "over"
            /\ ~astray => Follows(c)'
  PROVE  EditorInv'
<1> USE DEF EditorInv
<1>1. DOMAIN NewCall("fetch") = DOMAIN NewCall("fetch")'
  BY DEF NewCall
<1>2. EditorShape' /\ AskedOnce' /\ InSight' /\ FormIsOwn'
  BY <1>1 DEF EditorShape, AskedOnce, Fetches, InSight, Changes, FormIsOwn, Loaded
<1>3. CASE ~Changes(c)
  <2>1. ChangedOnce'
    BY <1>3 DEF ChangedOnce, Pending, Changes, Loaded
  <2>2. Mirrors'
    BY <1>3 DEF Mirrors, Pending, Changes, Loaded, Follows
  <2> QED BY <1>2, <2>1, <2>2
<1>4. CASE Changes(c)
  <2>1. \A d \in calls : ~Pending(d)
    BY <1>4 DEF ChangedOnce
  <2>2. \A d \in calls' : Pending(d)' => d = c
    BY <2>1 DEF Pending, Changes
  <2>3. ChangedOnce'
    BY <1>4, <2>2 DEF ChangedOnce, Loaded
  <2>4. Mirrors'
    BY <1>4, <2>2 DEF Mirrors
  <2> QED BY <1>2, <2>3, <2>4
<1> QED BY <1>3, <1>4

LEMMA SendSteps ==
  ASSUME EditorInv,
         \/ SubmitForm \/ DragEnd
         \/ \E m \in Entries : AddMovie(m) \/ RemoveEntry(m)
         \/ \E i \in 1..Cardinality(Entries) : MoveEntry(i)
  PROVE  EditorInv'
<1>1. DOMAIN editor = DOMAIN Blank
  BY DEF EditorInv, EditorShape
<1>2. CASE SubmitForm
  <2> DEFINE c == [NewCall("submit") EXCEPT !.form = editor.form]
  <2>1. c.current /\ ~Fetches(c) /\ ~Changes(c) /\ DOMAIN c = DOMAIN NewCall("fetch")
    BY DEF NewCall, Fetches, Changes
  <2>2. calls' = calls \cup {c}
    BY <1>2 DEF SubmitForm, Sends
  <2> HIDE DEF c
  <2>3. /\ DOMAIN editor' = DOMAIN Blank
        /\ UNCHANGED <<editor.formOf, editor.busy, editor.drag, editor.shown, editor.before,
                       editor.loading, editor.failed>>
    BY <1>1, <1>2 DEF SubmitForm, Blank
  <2> QED BY <1>2, <2>1, <2>2, <2>3, SendStep DEF SubmitForm, Open, Loaded
<1>3. ASSUME NEW m \in Entries, AddMovie(m) PROVE EditorInv'
  <2> PICK c : c = [NewCall("add") EXCEPT !.movie = m]
    OBVIOUS
  <2>1. c.current /\ ~Fetches(c) /\ c.kind = "add" /\ DOMAIN c = DOMAIN NewCall("fetch")
    BY DEF NewCall, Fetches
  <2>2. calls' = calls \cup {c}
    BY <1>3 DEF AddMovie, Sends
  <2>3. /\ DOMAIN editor' = DOMAIN Blank /\ editor'.busy = "membership"
        /\ UNCHANGED <<editor.formOf, editor.drag, editor.shown, editor.before,
                       editor.loading, editor.failed>>
    BY <1>1, <1>3 DEF AddMovie, Blank
  <2>4. Loaded /\ editor.busy = "none" /\ editor.drag # "over"
    BY <1>3 DEF AddMovie, Idle, Open, Loaded
  <2>5. ~astray => Follows(c)'
    BY <1>3, <2>1, <2>3, <2>4 DEF EditorInv, Mirrors, Follows, AddMovie
  <2> QED BY <1>3, <2>1, <2>2, <2>3, <2>4, <2>5, SendStep DEF AddMovie, Loaded, Changes
<1>4. ASSUME NEW m \in Entries, RemoveEntry(m) PROVE EditorInv'
  <2> PICK c : c = [NewCall("remove") EXCEPT !.movie = m, !.list = editor.shown]
    OBVIOUS
  <2>1. /\ c.current /\ ~Fetches(c) /\ c.kind = "remove" /\ c.list = editor.shown
        /\ DOMAIN c = DOMAIN NewCall("fetch")
    BY DEF NewCall, Fetches
  <2>2. calls' = calls \cup {c}
    BY <1>4 DEF RemoveEntry, Sends
  <2>3. /\ DOMAIN editor' = DOMAIN Blank /\ editor'.busy = "membership"
        /\ UNCHANGED <<editor.formOf, editor.drag, editor.shown, editor.before,
                       editor.loading, editor.failed>>
    BY <1>1, <1>4 DEF RemoveEntry, Blank
  <2>4. Loaded /\ editor.busy = "none" /\ editor.drag # "over"
    BY <1>4 DEF RemoveEntry, Idle, Open, Loaded
  <2>5. ~astray => Follows(c)'
    BY <1>4, <2>1, <2>3, <2>4 DEF EditorInv, Mirrors, Follows, RemoveEntry
  <2> QED BY <1>4, <2>1, <2>2, <2>3, <2>4, <2>5, SendStep DEF RemoveEntry, Loaded, Changes
<1>5. ASSUME NEW list, NEW rollback, NEW next, SendOrder(list, rollback, next),
             DOMAIN next = DOMAIN Blank, next.drag # "over",
             next.formOf = editor.formOf, ~next.loading, ~next.failed,
             Loaded, editor.busy = "none", ~astray => rollback = entity.list,
             UNCHANGED <<choice, entity, astray>>
      PROVE  EditorInv'
  <2> PICK c : c = [NewCall("order") EXCEPT !.list = list, !.rollback = rollback]
    OBVIOUS
  <2>1. /\ c.current /\ ~Fetches(c) /\ c.kind = "order" /\ c.list = list /\ c.rollback = rollback
        /\ DOMAIN c = DOMAIN NewCall("fetch")
    BY DEF NewCall, Fetches
  <2>2. calls' = calls \cup {c}
    BY <1>5 DEF SendOrder, Sends
  <2>3. /\ DOMAIN editor' = DOMAIN Blank /\ editor'.busy = "ordering" /\ editor'.drag # "over"
        /\ editor'.shown = list /\ editor'.formOf = editor.formOf
        /\ ~editor'.loading /\ ~editor'.failed
    BY <1>5 DEF SendOrder, Blank
  <2>4. ~astray => Follows(c)'
    BY <1>5, <2>1, <2>3 DEF Follows
  <2> QED BY <1>5, <2>1, <2>2, <2>3, <2>4, SendStep DEF Loaded, Changes
<1>6. ASSUME NEW i \in 1..Cardinality(Entries), MoveEntry(i) PROVE EditorInv'
  <2>1. Loaded /\ editor.busy = "none" /\ editor.drag # "over"
    BY <1>6 DEF MoveEntry, Idle, Open, Loaded
  <2>2. ~astray => editor.shown = entity.list
    BY <2>1 DEF EditorInv, Mirrors
  <2> QED BY <1>1, <1>5, <1>6, <2>1, <2>2 DEF MoveEntry, Loaded
<1>7. CASE DragEnd
  <2>1. Loaded /\ editor.busy = "none" /\ editor.drag = "over"
    BY <1>7 DEF DragEnd, EditorInv, ChangedOnce
  <2>2. ~astray => editor.before = entity.list
    BY <2>1 DEF EditorInv, Mirrors
  <2>3. /\ DOMAIN [editor EXCEPT !.drag = "sent"] = DOMAIN Blank
        /\ [editor EXCEPT !.drag = "sent"].drag # "over"
        /\ [editor EXCEPT !.drag = "sent"].formOf = editor.formOf
        /\ [editor EXCEPT !.drag = "sent"].loading = editor.loading
        /\ [editor EXCEPT !.drag = "sent"].failed = editor.failed
    BY <1>1 DEF Blank
  <2> QED BY <1>5, <1>7, <2>1, <2>2, <2>3 DEF DragEnd, Loaded
<1> QED BY <1>2, <1>3, <1>4, <1>6, <1>7

LEMMA SubmittedStep ==
  ASSUME EditorInv, NEW c \in calls, SubmitAnswered(c)
  PROVE  EditorInv'
<1>1. DOMAIN editor = DOMAIN Blank /\ DOMAIN entity = {"form", "list"}
  BY DEF EditorInv, EditorShape
<1>2. DOMAIN entity' = {"form", "list"} /\ entity'.list = entity.list /\ choice' = choice
  BY <1>1 DEF SubmitAnswered, Edited
<1>3. CASE Remount(calls \ {c})
  BY <1>2, <1>3, CallFields, Anew DEF Remount
<1>4. CASE calls' = calls \ {c} /\ astray' = astray /\ editor' \in {editor, [editor EXCEPT !.submitting = FALSE]}
  <2>1. /\ DOMAIN editor' = DOMAIN Blank
        /\ UNCHANGED <<editor.formOf, editor.busy, editor.drag, editor.shown, editor.before,
                       editor.loading, editor.failed>>
    BY <1>1, <1>4 DEF Blank
  <2>2. DOMAIN NewCall("fetch") = DOMAIN NewCall("fetch")'
    BY DEF NewCall
  <2> QED BY <1>2, <1>4, <2>1, <2>2 DEF EditorInv, EditorShape, AskedOnce, Fetches, ChangedOnce, Pending, Changes,
             Mirrors, Follows, FormIsOwn, Loaded, InSight
<1> QED BY <1>3, <1>4 DEF SubmitAnswered

\* The answer to the change that is awaited, or the lack of one.
LEMMA ChangeStep ==
  ASSUME EditorInv, NEW c \in calls, ChangeAnswered(c) \/ ChangeFailed(c)
  PROVE  EditorInv'
<1>1. DOMAIN editor = DOMAIN Blank /\ DOMAIN entity = {"form", "list"}
  BY DEF EditorInv, EditorShape
<1>2. DOMAIN entity' = {"form", "list"} /\ calls' = calls \ {c} /\ choice' = choice /\ Changes(c)
  BY <1>1 DEF ChangeAnswered, ChangeFailed
<1>3. DOMAIN NewCall("fetch") = DOMAIN NewCall("fetch")'
  BY DEF NewCall
<1>4. \/ astray' = astray
      \/ astray'
  BY DEF ChangeAnswered, ChangeFailed
<1>5. CASE ~c.current
  <2>1. astray /\ astray' /\ editor' = editor
    BY <1>2, <1>4, <1>5 DEF ChangeAnswered, ChangeFailed, EditorInv, InSight
  <2> QED BY <1>2, <1>3, <2>1 DEF EditorInv, EditorShape, AskedOnce, Fetches, ChangedOnce, Pending, Changes,
             Mirrors, FormIsOwn, Loaded, InSight
<1>6. CASE c.current
  <2>1. Pending(c) /\ Loaded /\ editor.drag # "over" /\ \A d \in calls' : ~Pending(d)
    BY <1>2, <1>6 DEF Pending, EditorInv, ChangedOnce
  <2>2. /\ DOMAIN Rest(c) = DOMAIN Blank
        /\ Rest(c).busy = "none" /\ Rest(c).drag # "over" /\ Rest(c).shown = editor.shown
        /\ Rest(c).loading = editor.loading /\ Rest(c).failed = editor.failed
        /\ Rest(c).formOf = editor.formOf
    BY <1>1, <2>1 DEF Rest, Blank
  <2>3. \/ editor' = Rest(c)
        \/ \E list : editor' = [Rest(c) EXCEPT !.shown = list]
    BY <1>6 DEF ChangeAnswered, ChangeFailed
  <2>4. /\ DOMAIN editor' = DOMAIN Blank /\ editor'.busy = "none" /\ editor'.drag # "over"
        /\ editor'.formOf = editor.formOf /\ Loaded'
    BY <2>1, <2>2, <2>3 DEF Blank, Loaded
  <2>5. ~astray' => editor'.shown = entity'.list
    <3> SUFFICES ASSUME ~astray' PROVE editor'.shown = entity'.list
      OBVIOUS
    <3>1. ~astray /\ Follows(c)
      BY <1>4, <2>1 DEF ChangeAnswered, ChangeFailed, EditorInv, Mirrors
    <3>2. CASE ChangeAnswered(c)
      <4>1. editor'.shown = After(c) /\ entity'.list = Result(c)
        BY <1>1, <1>6, <2>2, <3>2 DEF ChangeAnswered, Blank
      <4>2. After(c) = Result(c)
        BY <1>2, <3>1 DEF After, Result, Follows, Changes
      <4> QED BY <4>1, <4>2
    <3>3. CASE ChangeFailed(c)
      <4>1. entity' = entity
        BY <3>3 DEF ChangeFailed
      <4>2. editor'.shown = IF c.kind = "order" THEN c.rollback ELSE editor.shown
        BY <1>6, <2>2, <3>3 DEF ChangeFailed, Blank
      <4> QED BY <1>2, <3>1, <4>1, <4>2 DEF Follows, Changes
    <3> QED BY <3>2, <3>3
  <2>6. EditorShape' /\ AskedOnce' /\ InSight' /\ FormIsOwn'
    <3>1. EditorShape'
      BY <1>2, <1>3, <2>4 DEF EditorInv, EditorShape
    <3>2. AskedOnce'
      BY <1>2, <2>1 DEF EditorInv, AskedOnce, Fetches, Loaded
    <3>3. InSight'
      BY <1>2, <1>4, <2>1 DEF EditorInv, InSight, Changes
    <3>4. FormIsOwn'
      BY <1>2, <2>1, <2>4 DEF EditorInv, FormIsOwn
    <3> QED BY <3>1, <3>2, <3>3, <3>4
  <2>7. ChangedOnce' /\ Mirrors'
    BY <2>1, <2>4, <2>5 DEF ChangedOnce, Mirrors, Loaded, Pending, Changes
  <2> QED BY <2>6, <2>7 DEF EditorInv
<1> QED BY <1>5, <1>6

LEMMA EditorInvStep == EditorInv /\ [EditorNext]_editorVars => EditorInv'
<1> SUFFICES ASSUME EditorInv, [EditorNext]_editorVars PROVE EditorInv'
  OBVIOUS
<1>1. CASE UNCHANGED editorVars
  <2>1. DOMAIN NewCall("fetch") = DOMAIN NewCall("fetch")'
    BY DEF NewCall
  <2> QED BY <1>1, <2>1 DEF editorVars, EditorInv, EditorShape, AskedOnce, Fetches, ChangedOnce, Pending, Changes,
             Mirrors, Follows, FormIsOwn, Loaded, InSight
<1>2. ASSUME NEW next \in [account : EditorAccounts, profile : EditorProfiles], Choose(next) PROVE EditorInv'
  <2>1. DOMAIN entity' = {"form", "list"} /\ editor' = Blank /\ choice' = next
        /\ astray' = \E c \in calls : Changes(c)
    BY <1>2 DEF Choose, EditorInv, EditorShape
  <2>2. CASE calls' = Stale(calls)
    BY <2>1, <2>2, Anew
  <2>3. CASE calls' = Stale(calls) \cup {[NewCall("fetch") EXCEPT !.as = next.profile]}
    <3> DEFINE f == [NewCall("fetch") EXCEPT !.as = next.profile]
    <3>1. f.kind = "fetch" /\ f.as = next.profile /\ DOMAIN f = DOMAIN NewCall("fetch")
      BY DEF NewCall
    <3> HIDE DEF f
    <3> QED BY <2>1, <2>3, <3>1, Anew DEF f
  <2> QED BY <1>2, <2>2, <2>3 DEF Choose
<1>3. CASE Reopen
  <2>1. DOMAIN entity' = {"form", "list"} /\ choice' = choice
    BY <1>3 DEF Reopen, EditorInv, EditorShape
  <2> QED BY <1>3, <2>1, CallFields, Anew DEF Reopen, Remount
<1> QED
  BY <1>1, <1>2, <1>3, FetchStep, TypeSteps, SendSteps, SubmittedStep, ChangeStep DEF EditorNext

LEMMA EditorInvInit == EditorInit => EditorInv
<1> SUFFICES ASSUME EditorInit PROVE EditorInv
  OBVIOUS
<1>1. EditorShape /\ AskedOnce
  BY CallFields, BlankFields DEF EditorInit, EditorShape, AskedOnce, Fetches
<1>2. ~Loaded
  BY BlankFields DEF EditorInit, Loaded
<1>3. \A c \in calls : ~Changes(c)
  BY CallFields DEF EditorInit, Changes
<1> QED
  BY <1>1, <1>2, <1>3, BlankFields DEF EditorInit, EditorInv, FormIsOwn, ChangedOnce, Pending, InSight, Mirrors

\* The form of an earlier selection is never shown for this one, nor saved
\* (series.$id.edit.tsx:74).
THEOREM FormsAreOwn == EditorSpec => []FormIsOwn
<1>1. EditorInv => FormIsOwn
  BY DEF EditorInv
<1> QED BY <1>1, EditorInvInit, EditorInvStep, PTL DEF EditorSpec

\* At rest the page lists what is stored, after whatever changes, failures and
\* reloads, unless an answer was lost (MovieManager.tsx:177, 232, 343).
THEOREM ListsAgree == EditorSpec => []ListIsStored
<1>1. EditorInv => ListIsStored
  BY DEF EditorInv, Mirrors, ListIsStored
<1> QED BY <1>1, EditorInvInit, EditorInvStep, PTL DEF EditorSpec
=============================================================================
