--------------------------- MODULE AccountSwitch ---------------------------
(***************************************************************************)
(* Which profile a browser acts as: the selection of the account switcher  *)
(* (components/Dashboard/AccountSwitcher.tsx), kept in the local storage   *)
(* and sent with every request, the list of profiles it is checked against *)
(* (useProfiles.ts), and the profile that the backend makes of it          *)
(* (middleware/auth.ts).                                                   *)
(*                                                                         *)
(* NoOne is the default profile of an account: it is in every list and     *)
(* stands for no selection.  Another tab may be open with the same login.  *)
(* A request or a refresh outlives the switcher that started it, whose     *)
(* refs then keep their last values.                                       *)
(***************************************************************************)
EXTENDS Naturals, FiniteSets

CONSTANTS
  Logins,          \* the logins that use the browser
  AdminLogins,     \* those that may act for system accounts
  Added,           \* bound: the additional profiles that are created
  SystemAccounts,
  MaxInFlight,     \* bound: the refreshes, and the creations, in flight
  NoOne, NoList

ASSUME SwitchAssumption ==
  /\ AdminLogins \subseteq Logins /\ MaxInFlight \in Nat \ {0}
  /\ NoOne \notin Logins \cup Added \cup SystemAccounts /\ \A l \in SUBSET Added : NoList # l

VARIABLES
  login,      \* the login, NoOne when there is none
  chosen,     \* selectedProfileId
  acting,     \* selectedAccountId
  owned,      \* the additional profiles of each login, in the database
  lists,      \* those in the cache of useProfiles
  switcher,   \* open; due: its profile check has to run; busy: isCreatingProfile
  refreshes,  \* the reads of the list in flight
  creations   \* the creations in flight

switchVars == <<login, chosen, acting, owned, lists, switcher, refreshes, creations>>

SwitchInit ==
  /\ login = NoOne /\ chosen \in Added \cup {NoOne} /\ acting = NoOne
  /\ owned = [i \in Logins |-> {}] /\ lists = [i \in Logins |-> NoList]
  /\ switcher = [open |-> FALSE, due |-> FALSE, busy |-> FALSE]
  /\ refreshes = {} /\ creations = {}

-----------------------------------------------------------------------------
\* The profile a request acts as (middleware/auth.ts), and the one that is shown.
ActiveProfile(i, requested) == IF requested \in owned[i] THEN requested ELSE NoOne
ShownProfile(i) == IF chosen \in lists[i] THEN chosen ELSE NoOne

Using == switcher.open /\ login # NoOne
ListShown == Using /\ lists[login] # NoList
Refreshing == {r.profile : r \in {x \in refreshes : ~x.away}}

\* What the refs of the open switcher have seen change since a creation started.
Noticed(calls, what) ==
  {IF c.away \/ c.changed = "session" THEN c ELSE [c EXCEPT !.changed = what] : c \in calls}
Selected(p, calls) == IF p = chosen THEN calls ELSE Noticed(calls, "selection")
Due(p) == [switcher EXCEPT !.due = @ \/ p # chosen]

\* A mutation of the cached list discards the answers to older reads of it.
Outdated(i) == {IF r.of = i THEN [r EXCEPT !.current = FALSE] ELSE r : r \in refreshes}
Read(i, p) == [of |-> i, profile |-> p, seen |-> NoList, current |-> TRUE, away |-> FALSE]
StartRead(p) ==
  /\ Cardinality(refreshes) < MaxInFlight
  /\ refreshes' = Outdated(login) \cup {Read(login, p)}

-----------------------------------------------------------------------------
\* A login, with a password or by SSO.
SignIn(i) ==
  /\ login = NoOne /\ ~switcher.open
  /\ login' = i /\ chosen' = NoOne /\ acting' = NoOne
  /\ UNCHANGED <<owned, lists, switcher, refreshes, creations>>

Away(calls) == {[c EXCEPT !.away = TRUE] : c \in calls}
CloseSwitcher(calls) ==
  /\ switcher' = [open |-> FALSE, due |-> FALSE, busy |-> FALSE]
  /\ refreshes' = Away(refreshes) /\ creations' = Away(calls)

\* The logout of AuthButton.tsx clears all caches and leaves the dashboard, before
\* or after the switcher has noticed.
SignOut ==
  /\ login # NoOne
  /\ login' = NoOne /\ chosen' = NoOne /\ acting' = NoOne
  /\ lists' = [i \in Logins |-> NoList]
  /\ switcher' = [open |-> FALSE, due |-> FALSE, busy |-> FALSE]
  /\ refreshes' = Away({[r EXCEPT !.current = FALSE] : r \in refreshes})
  /\ \E what \in {"selection", "session"} :
       creations' = Away(IF what = "session" THEN Noticed(creations, what) ELSE Selected(NoOne, creations))
 
  /\ UNCHANGED owned

\* The session ends by itself: the selection stays.
SessionExpires ==
  /\ login # NoOne
  /\ login' = NoOne /\ creations' = Noticed(creations, "session")
  /\ switcher' = [switcher EXCEPT !.due = TRUE, !.busy = FALSE]
  /\ UNCHANGED <<chosen, acting, owned, lists, refreshes>>

OpenDashboard ==
  /\ ~switcher.open /\ login # NoOne
  /\ switcher' = [open |-> TRUE, due |-> TRUE, busy |-> FALSE]
  /\ StartRead(NoOne)
  /\ UNCHANGED <<login, chosen, acting, owned, lists, creations>>

LeaveDashboard ==
  /\ switcher.open /\ CloseSwitcher(creations)
  /\ UNCHANGED <<login, chosen, acting, owned, lists>>

-----------------------------------------------------------------------------
\* useProfiles: the list is read again (a reconnect, a retry, the button).
Reread == Using /\ StartRead(NoOne)
          /\ UNCHANGED <<login, chosen, acting, owned, lists, switcher, creations>>

ListRead(r) ==
  /\ r.seen = NoList
  /\ refreshes' = (refreshes \ {r}) \cup {[r EXCEPT !.seen = owned[r.of]]}
  /\ UNCHANGED <<login, chosen, acting, owned, lists, switcher, creations>>

\* The first effect: a selection that is not in the list is looked for once more.
CheckProfile ==
  /\ switcher.open /\ switcher.due
  /\ switcher' = [switcher EXCEPT !.due = FALSE]
  /\ IF ListShown /\ chosen # NoOne /\ chosen \notin lists[login] \cup Refreshing
     THEN StartRead(chosen) ELSE UNCHANGED refreshes
  /\ UNCHANGED <<login, chosen, acting, owned, lists, creations>>

\* What a refresh leads to, given the list that is cached when it ends.
Concludes(r, list) ==
  LET kept == IF r.profile = NoOne \/ r.profile # chosen \/ (list # NoList /\ chosen \in list)
              THEN chosen ELSE NoOne
  IN  /\ chosen' = kept /\ creations' = Selected(kept, creations)
      /\ switcher' = [Due(kept) EXCEPT !.due = @ \/ list # lists[r.of]]
      /\ refreshes' = refreshes \ {r}
      /\ UNCHANGED <<login, acting, owned>>

\* Mutant: an unknown selection stays after the refresh.
RefreshKeeps(r) ==
  LET list == IF r.current THEN r.seen ELSE lists[r.of]
  IN  /\ r.seen # NoList /\ lists' = [lists EXCEPT ![r.of] = list]
      /\ switcher' = [switcher EXCEPT !.due = @ \/ (list # lists[r.of] /\ chosen \in list)]
      /\ refreshes' = refreshes \ {r}
      /\ UNCHANGED <<login, chosen, acting, owned, creations>>

RefreshAnswered(r) ==
  LET list == IF r.current THEN r.seen ELSE lists[r.of]
  IN  /\ r.seen # NoList /\ lists' = [lists EXCEPT ![r.of] = list]
      /\ Concludes(r, list)

\* swr keeps the failure to itself: the promise is resolved with the cached list.
RefreshFails(r) == Concludes(r, lists[r.of]) /\ UNCHANGED lists

-----------------------------------------------------------------------------
ChooseProfile(p) ==
  /\ ListShown /\ p \in lists[login] \cup {NoOne} /\ p # chosen
  /\ chosen' = p
  /\ creations' = Selected(p, creations) /\ switcher' = Due(p)
  /\ UNCHANGED <<login, acting, owned, lists, refreshes>>

\* An admin turns to a system account, or back: no profile is asked for by that.
SelectAccount(a) ==
  /\ Using /\ login \in AdminLogins /\ a # acting
  /\ acting' = a /\ chosen' = NoOne
  /\ creations' = Selected(NoOne, creations) /\ switcher' = Due(NoOne)
  /\ UNCHANGED <<login, owned, lists, refreshes>>

\* The second effect: the account has been deleted.
AccountGone ==
  /\ Using /\ acting # NoOne /\ acting' = NoOne
  /\ UNCHANGED <<login, chosen, owned, lists, switcher, refreshes, creations>>

\* Another tab creates a profile of the login, or has done so, and selects it.
OtherTab(p) ==
  /\ login # NoOne /\ p # chosen
  /\ \A i \in Logins \ {login} : p \notin owned[i]
  /\ owned' = [owned EXCEPT ![login] = @ \cup {p}]
  /\ chosen' = p
  /\ creations' = Selected(p, creations) /\ switcher' = Due(p)
  /\ UNCHANGED <<login, acting, lists, refreshes>>

-----------------------------------------------------------------------------
SubmitProfile ==
  /\ ListShown /\ ~switcher.busy /\ Cardinality(creations) < MaxInFlight
  /\ creations' = creations \cup
       {[of |-> login, acting |-> acting, changed |-> "nothing", made |-> NoOne, away |-> FALSE]}
  /\ switcher' = [switcher EXCEPT !.busy = TRUE]
  /\ UNCHANGED <<login, chosen, acting, owned, lists, refreshes>>

\* POST /users/profiles, whose transaction Accounts follows.
ProfileMade(c) ==
  /\ c.made = NoOne
  /\ \E p \in Added \ UNION {owned[i] : i \in Logins} :
       /\ owned' = [owned EXCEPT ![c.of] = @ \cup {p}]
       /\ creations' = (creations \ {c}) \cup {[c EXCEPT !.made = p]}
  /\ UNCHANGED <<login, chosen, acting, lists, switcher, refreshes>>

Released(c) == [switcher EXCEPT !.busy = @ /\ (c.away \/ c.changed = "session")]
WithNew(c) == (IF lists[c.of] = NoList THEN {} ELSE lists[c.of]) \cup {c.made}

\* The account as the creation's own switcher sees it.
AccountKept(c) == c.away \/ acting = c.acting

\* The new profile joins the list, and is selected unless something else was.
CreationAnswered(c) ==
  /\ c.made # NoOne
  /\ IF c.changed = "session"
     THEN UNCHANGED <<lists, refreshes, chosen, switcher>> /\ creations' = creations \ {c}
     ELSE LET next == IF c.changed = "nothing" /\ AccountKept(c) THEN c.made ELSE chosen
          IN  /\ lists' = [lists EXCEPT ![c.of] = WithNew(c)]
              /\ refreshes' = Outdated(c.of)
              /\ chosen' = next /\ creations' = Selected(next, creations \ {c})
              /\ switcher' = [Released(c) EXCEPT !.due = TRUE]
  /\ UNCHANGED <<login, acting, owned>>

CreationFails(c) ==
  /\ creations' = creations \ {c} /\ switcher' = Released(c)
  /\ UNCHANGED <<login, chosen, acting, owned, lists, refreshes>>

SwitchNext ==
  \/ \E i \in Logins : SignIn(i)
  \/ SignOut \/ SessionExpires \/ OpenDashboard \/ LeaveDashboard
  \/ Reread \/ CheckProfile \/ SubmitProfile \/ AccountGone
  \/ \E r \in refreshes : ListRead(r) \/ RefreshAnswered(r) \/ RefreshFails(r)
  \/ \E c \in creations : ProfileMade(c) \/ CreationAnswered(c) \/ CreationFails(c)
  \/ \E p \in Added \cup {NoOne} : ChooseProfile(p)
  \/ \E a \in SystemAccounts \cup {NoOne} : SelectAccount(a)
  \/ \E p \in Added : OtherTab(p)

SwitchSpec == SwitchInit /\ [][SwitchNext]_switchVars

-----------------------------------------------------------------------------
SwitchTypeOK ==
  /\ login \in Logins \cup {NoOne} /\ chosen \in Added \cup {NoOne}
  /\ acting \in SystemAccounts \cup {NoOne}
  /\ owned \in [Logins -> SUBSET Added]
  /\ \A i \in Logins : lists[i] = NoList \/ lists[i] \subseteq Added
  /\ switcher \in [open : BOOLEAN, due : BOOLEAN, busy : BOOLEAN]

Settled == ListShown /\ ~switcher.due /\ chosen \notin Refreshing

\* Once the switcher has come to rest, the profile it shows is the one the backend
\* makes of every request: a selection left by another login, by another tab or by
\* a creation that was answered late is found out (AccountSwitcher.tsx:62-90).
ActsAsShown == Settled => ActiveProfile(login, chosen) = ShownProfile(login)
=============================================================================
