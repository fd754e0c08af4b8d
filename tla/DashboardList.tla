--------------------------- MODULE DashboardList ---------------------------
(***************************************************************************)
(* The lists of one's own videos, series and playlists in the dashboard    *)
(* (_app.dashboard.{videos,series,playlists}.index.tsx, which page and     *)
(* delete alike) over SWR (useDashboard.ts): pages by selection, the       *)
(* dialog that confirms a deletion (FeedbackProvider.tsx), the DELETE.     *)
(*                                                                         *)
(* The cache of SWR is keyed by selection and page.  It fetches a key that *)
(* comes to be shown, unless it did so a moment ago, and again on mutate.  *)
(***************************************************************************)
EXTENDS Integers, FiniteSets, SequencesExt

CONSTANTS
  Owners,    \* the profiles that may be selected, each with its session
  RowsOf,    \* the rows each of them owns, the newest first
  PageRows,  \* DashboardPageSize
  LastPage,  \* bound: the pages that are cached
  NoRows     \* nothing is cached, nothing is asked

ASSUME DashboardAssumption ==
  /\ DOMAIN RowsOf = Owners
  /\ \A o, p \in Owners : o # p => ToSet(RowsOf[o]) \cap ToSet(RowsOf[p]) = {}
  /\ PageRows \in Nat \ {0} /\ LastPage \in Nat \ {0}

VARIABLES
  owner,      \* the profile that is selected
  pager,      \* the page state, with the selection it is for
  listed,     \* the cache
  fetching,   \* the keys that are being fetched
  dialog,     \* the deletion that waits for its confirmation
  deletions,  \* the DELETE requests in flight
  gone        \* the rows that are deleted

dashboardVars == <<owner, pager, listed, fetching, dialog, deletions, gone>>

\* paginationQuerySchema refuses what is no page.
Keys == [of : Owners, page : 1..LastPage]
PageOf(p, who) == IF p.of = who THEN p.page ELSE 1
Key == [of |-> owner, page |-> PageOf(pager, owner)]
Mine(o) == ToSet(RowsOf[o]) \ gone
\* The rows of a page, by their rank among those that are left.
Rank(o, i) == Cardinality({x \in 1..i : RowsOf[o][x] \notin gone})
OnPage(k) ==
  {i \in DOMAIN RowsOf[k.of] : Rank(k.of, i) \in ((k.page - 1) * PageRows + 1)..(k.page * PageRows)}
Answer(k) ==
  [rows |-> {RowsOf[k.of][i] : i \in OnPage(k)} \ gone,
   more |-> Cardinality(Mine(k.of)) > k.page * PageRows]
OnScreen == IF Key \in Keys /\ listed[Key] # NoRows THEN listed[Key].rows ELSE {}

DashboardInit ==
  /\ owner \in Owners
  /\ pager = [of |-> owner, page |-> 1]
  /\ listed = [k \in Keys |-> NoRows] /\ fetching = {Key}
  /\ dialog = NoRows /\ deletions = {} /\ gone = {}

\* The key that is shown next; SWR does without a fetch what it fetched before.
Show(who, p) ==
  LET k == [of |-> who, page |-> PageOf(p, who)]
  IN  /\ owner' = who /\ pager' = p
      /\ \/ fetching' = fetching \cup {k}
         \/ k \in Keys /\ listed[k] # NoRows /\ UNCHANGED fetching

Fetched(k) ==
  /\ k \in fetching \cap Keys
  /\ listed' = [listed EXCEPT ![k] = Answer(k)]
  /\ fetching' = fetching \ {k}
  /\ UNCHANGED <<owner, pager, dialog, deletions, gone>>

NotFetched(k) ==
  /\ k \in fetching /\ fetching' = fetching \ {k}
  /\ UNCHANGED <<owner, pager, listed, dialog, deletions, gone>>

\* The retry button; mutate.
Refetch ==
  /\ dialog = NoRows /\ fetching' = fetching \cup {Key}
  /\ UNCHANGED <<owner, pager, listed, dialog, deletions, gone>>

\* PaginationControls
TurnPage(d) ==
  /\ dialog = NoRows /\ Key \in Keys /\ listed[Key] # NoRows
  /\ IF d = 1 THEN listed[Key].more /\ Key.page < LastPage ELSE Key.page > 1
  /\ Show(owner, [of |-> owner, page |-> Key.page + d])
  /\ UNCHANGED <<listed, dialog, deletions, gone>>

\* Another selection, in a second tab as well, and so with the dialog open.
SelectOwner(o) ==
  /\ o # owner /\ Show(o, [of |-> o, page |-> 1])
  /\ UNCHANGED <<listed, dialog, deletions, gone>>

\* handleDelete, up to the dialog: what it uses later is of this render.
AskDelete(r) ==
  /\ dialog = NoRows /\ r \in OnScreen
  /\ dialog' = [row |-> r, as |-> owner, page |-> Key.page, only |-> OnScreen = {r}]
  /\ UNCHANGED <<owner, pager, listed, fetching, deletions, gone>>

\* Mutant: the profile is the one selected when the dialog is closed.
ConfirmAsSelected ==
  /\ dialog # NoRows
  /\ deletions' = deletions \cup {[dialog EXCEPT !.as = owner]}
  /\ dialog' = NoRows
  /\ UNCHANGED <<owner, pager, listed, fetching, gone>>

ConfirmDelete ==
  /\ dialog # NoRows
  /\ deletions' = deletions \cup {dialog}
  /\ dialog' = NoRows
  /\ UNCHANGED <<owner, pager, listed, fetching, gone>>

DeclineDelete ==
  /\ dialog # NoRows /\ dialog' = NoRows
  /\ UNCHANGED <<owner, pager, listed, fetching, deletions, gone>>

\* The last row of a later page: a page back, from where the pages are by then,
\* which may be the first; else the list that is shown is fetched again.
DeletedRow(d) ==
  /\ d \in deletions
  /\ d.row \in Mine(d.as) /\ gone' = gone \cup {d.row}
  /\ IF d.only /\ d.page > 1
     THEN Show(owner, [of |-> d.as, page |-> PageOf(pager, d.as) - 1])
     ELSE fetching' = fetching \cup {Key} /\ UNCHANGED <<owner, pager>>
  /\ deletions' = deletions \ {d}
  /\ UNCHANGED <<listed, dialog>>

\* A row that is gone already, a profile that may not delete it, a lost answer.
NotDeleted(d) ==
  /\ d \in deletions /\ deletions' = deletions \ {d}
  /\ gone' \in {gone, gone \cup (Mine(d.as) \cap {d.row})}
  /\ UNCHANGED <<owner, pager, listed, fetching, dialog>>

DashboardNext ==
  \/ \E k \in fetching : Fetched(k) \/ NotFetched(k)
  \/ Refetch \/ ConfirmDelete \/ DeclineDelete
  \/ \E d \in {-1, 1} : TurnPage(d)
  \/ \E o \in Owners : SelectOwner(o)
  \/ \E r \in OnScreen : AskDelete(r)
  \/ \E d \in deletions : DeletedRow(d) \/ NotDeleted(d)

DashboardSpec == DashboardInit /\ [][DashboardNext]_dashboardVars

-----------------------------------------------------------------------------
DashboardTypeOK ==
  /\ owner \in Owners /\ pager.of \in Owners /\ pager.page \in Int
  /\ \A k \in Keys : listed[k] # NoRows => listed[k].rows \subseteq ToSet(RowsOf[k.of])
  /\ gone \subseteq UNION {ToSet(RowsOf[o]) : o \in Owners}

\* A deletion is sent for a row under the profile that row was listed for, however
\* long the dialog was open and whatever is selected by then
\* (videos.index.tsx:75, 88-91).
DeletesAsListed == \A d \in deletions : d.row \in ToSet(RowsOf[d.as])
=============================================================================
