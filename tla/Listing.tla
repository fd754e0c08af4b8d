------------------------------ MODULE Listing ------------------------------
(***************************************************************************)
(* The endless lists (useMovies.ts, useSeriesListInfinite.ts, which are    *)
(* alike, with useInfiniteScrolling.ts) over the paged lists of the API    *)
(* (movies/index.ts, series/index.ts): the pages are read one after the    *)
(* other while rows come and go, requests fail and are made again.         *)
(*                                                                         *)
(* SWR is modelled as the hooks rely on it: it walks the keys from the     *)
(* first page on, reads again the first one, those that are missing and    *)
(* those that changed, or on mutate all of them, and keeps what it had     *)
(* when a request fails.                                                   *)
(***************************************************************************)
EXTENDS Naturals, Sequences, FiniteSetsExt, SequencesExt

CONSTANTS
  PageSize,    \* DEFAULT_PAGE_SIZE
  MaxRows,     \* bound: the rows there ever are; a later one is newer
  MaxChanges,  \* bound: the changes of the table
  Durationless \* the rows whose duration is 0, which the hook leaves out

ASSUME ListingAssumption ==
  /\ PageSize \in Nat \ {0} /\ MaxRows \in Nat /\ MaxChanges \in Nat
  /\ Durationless \subseteq 1..MaxRows

VARIABLES
  table,   \* the rows the requester may see, the newest first
  newest,  \* the last row made
  version, \* history: the changes of the table so far
  pages,   \* the data of the hook, page by page
  kept,    \* the pages in the cache of SWR
  size, failing,
  walk     \* the pages of the revalidation that runs, and whether it reads all

listingVars == <<table, newest, version, pages, kept, size, failing, walk>>

NoPage == [items |-> <<>>, next |-> FALSE, at |-> MaxChanges + 1]
Resting == [on |-> FALSE, all |-> FALSE, got |-> <<>>]
Walk(all) == [on |-> TRUE, all |-> all, got |-> <<>>]
Content(page) == <<page.items, page.next>>
PageIndices == 1..(MaxRows + 2)

ListingInit ==
  /\ newest \in 0..MaxRows
  /\ table = [i \in 1..newest |-> newest + 1 - i] /\ version = 0
  /\ pages = <<>> /\ kept = [i \in PageIndices |-> NoPage]
  /\ size = 1 /\ failing = FALSE /\ walk = Walk(FALSE)

\* Mutant: the last row does not make a page of its own.
ReadPageShort(i) ==
  [items |-> SubSeq(table, (i - 1) * PageSize + 1, Min({i * PageSize, Len(table)})),
   next |-> Len(table) > i * PageSize + 1, at |-> version]

\* GET /movies, GET /series: by page and offset, and whether more rows follow.
ReadPage(i) ==
  [items |-> SubSeq(table, (i - 1) * PageSize + 1, Min({i * PageSize, Len(table)})),
   next |-> Len(table) > i * PageSize, at |-> version]

\* lastPage: of as many pages as are wanted, which the walk may not have come to.
HasNext == ~failing /\ (size <= Len(pages) => pages[size].next)

\* getKey: no key after a page without a next one.
Index == Len(walk.got) + 1
WalkEnds == Index > size \/ (Index > 1 /\ ~walk.got[Index - 1].next)
Rereads(i) ==
  \/ walk.all \/ kept[i] = NoPage
  \/ i = 1 /\ pages # <<>>
  \/ i <= Len(pages) /\ Content(pages[i]) # Content(kept[i])

TakeKept ==
  /\ walk.on /\ ~WalkEnds /\ ~Rereads(Index)
  /\ walk' = [walk EXCEPT !.got = Append(@, kept[Index])]
  /\ UNCHANGED <<table, newest, version, pages, kept, size, failing>>

PageAnswers ==
  /\ walk.on /\ ~WalkEnds /\ Rereads(Index)
  /\ kept' = [kept EXCEPT ![Index] = ReadPage(Index)]
  /\ walk' = [walk EXCEPT !.got = Append(@, ReadPage(Index))]
  /\ UNCHANGED <<table, newest, version, pages, size, failing>>

PageFails ==
  /\ walk.on /\ ~WalkEnds /\ Rereads(Index)
  /\ failing' = TRUE /\ walk' = Resting
  /\ UNCHANGED <<table, newest, version, pages, kept, size>>

WalkDone ==
  /\ walk.on /\ WalkEnds
  /\ pages' = walk.got /\ failing' = FALSE /\ walk' = Resting
  /\ UNCHANGED <<table, newest, version, kept, size>>

\* useInfiniteScrolling: the end of the list is in view.
LoadMore ==
  /\ ~walk.on /\ HasNext /\ size < MaxRows + 1
  /\ size' = size + 1 /\ walk' = Walk(FALSE)
  /\ UNCHANGED <<table, newest, version, pages, kept, failing>>

\* The retry of the message; what SWR does of itself on focus or after an error.
Retry ==
  /\ ~walk.on /\ failing /\ walk' = Walk(TRUE)
  /\ UNCHANGED <<table, newest, version, pages, kept, size, failing>>

Revalidate ==
  /\ ~walk.on /\ walk' = Walk(FALSE)
  /\ UNCHANGED <<table, newest, version, pages, kept, size, failing>>

\* A movie becomes visible, or is deleted or hidden.
Publish ==
  /\ version < MaxChanges /\ newest < MaxRows
  /\ newest' = newest + 1 /\ table' = <<newest + 1>> \o table /\ version' = version + 1
  /\ UNCHANGED <<pages, kept, size, failing, walk>>

Withdraw(r) ==
  /\ version < MaxChanges
  /\ table' = SelectSeq(table, LAMBDA x : x # r) /\ version' = version + 1
  /\ UNCHANGED <<newest, pages, kept, size, failing, walk>>

ListingNext ==
  \/ TakeKept \/ PageAnswers \/ PageFails \/ WalkDone \/ LoadMore \/ Retry \/ Revalidate
  \/ Publish \/ \E r \in ToSet(table) : Withdraw(r)

ListingSpec == ListingInit /\ [][ListingNext]_listingVars

-----------------------------------------------------------------------------
\* What the page lists.
Shows ==
  SelectSeq(FlattenSeq([i \in DOMAIN pages |-> pages[i].items]), LAMBDA r : r \notin Durationless)

ListingTypeOK ==
  /\ ToSet(table) \subseteq 1..newest /\ newest \in 0..MaxRows /\ version \in 0..MaxChanges
  /\ size \in 1..(MaxRows + 1) /\ Len(pages) <= size
  /\ ToSet(Shows) \subseteq 1..newest

\* "No more data" is true: when the list says it is at its end and all of it was
\* read of the table as it is now, it shows every row once and in order, after
\* whatever failures, retries and earlier sizes (useMovies.ts:70-74).
CompleteAtEnd ==
  ~walk.on /\ ~HasNext /\ ~failing /\ (\A i \in DOMAIN pages : pages[i].at = version)
    => Shows = SelectSeq(table, LAMBDA r : r \notin Durationless)
=============================================================================
