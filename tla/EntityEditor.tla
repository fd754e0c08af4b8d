---------------------------- MODULE EntityEditor ----------------------------
(***************************************************************************)
(* The edit pages of series and playlists (series.$id.edit.tsx and         *)
(* playlists.$id.edit.tsx, which are alike) with the list of movies they   *)
(* edit (MovieManager.tsx), while the account and the profile are switched *)
(* (useProfileSelectionGeneration.ts, AccountSwitcher.tsx).                *)
(*                                                                         *)
(* A request takes effect when it is answered, or is lost, and then may    *)
(* have taken effect.  The session is part of the profile.  Nobody else    *)
(* edits the entity; which movies are on offer is left open.               *)
(***************************************************************************)
EXTENDS Naturals, Sequences, FiniteSets, SequencesExt

CONSTANTS
  EditorAccounts, EditorProfiles,  \* what the switcher offers
  Entries,      \* bound: the movies of the user
  EntryForms,   \* bound: the contents of the form
  MaxCalls,     \* bound: the requests in flight
  NoForm        \* the form is blank; a request without one

ASSUME EditorAssumption == MaxCalls \in Nat \ {0} /\ NoForm \notin EntryForms

VARIABLES
  choice,   \* the account and the profile that are selected
  editor,   \* the state and the refs of the page and of MovieManager
  calls,    \* the requests in flight
  entity,   \* what the backend has: the form and the list
  astray    \* history: what a change of the list did was not learned

editorVars == <<choice, editor, calls, entity, astray>>

Blank == [loading |-> TRUE, failed |-> FALSE, form |-> NoForm, formOf |-> NoForm, shown |-> <<>>,
          busy |-> "none", drag |-> "none", before |-> <<>>, submitting |-> FALSE]
NewCall(kind) ==
  [kind |-> kind, current |-> TRUE, as |-> choice.profile,
   form |-> NoForm, movie |-> NoForm, list |-> <<>>, rollback |-> <<>>]
\* The requests cs do not belong to the page any more; a change among them is
\* one whose outcome the page does not learn.
Stale(cs) == {[c EXCEPT !.current = FALSE] : c \in cs}
Changes(c) == c.kind \in {"add", "remove", "order"}

EditorInit ==
  /\ choice \in [account : EditorAccounts, profile : EditorProfiles]
  /\ editor = Blank /\ calls = {NewCall("fetch")}
  /\ entity \in [form : EntryForms, list : {<<>>}]
  /\ astray = FALSE

\* The page takes input: it is loaded, and no row is being dragged.
Open == ~editor.loading /\ ~editor.failed /\ editor.drag # "over"
\* orderingRef and membershipActionRef, and the disabled buttons that go with them.
Idle == Open /\ editor.busy = "none"

Sends(c) == Cardinality(calls) < MaxCalls /\ calls' = calls \cup {c}

-----------------------------------------------------------------------------
\* Mutant: a late answer is taken as well.
FetchAnsweredLate(c) ==
  /\ c.kind = "fetch"
  /\ editor' = [editor EXCEPT !.loading = FALSE, !.form = entity.form,
                              !.formOf = c.as, !.shown = entity.list]
  /\ calls' = calls \ {c}
  /\ UNCHANGED <<choice, entity, astray>>

\* fetchSeries, fetchPlaylist: the form and the list, if still asked for.
FetchAnswered(c) ==
  /\ c.kind = "fetch"
  /\ editor' = IF c.current
               THEN [editor EXCEPT !.loading = FALSE, !.form = entity.form,
                                   !.formOf = c.as, !.shown = entity.list]
               ELSE editor
  /\ calls' = calls \ {c}
  /\ UNCHANGED <<choice, entity, astray>>

FetchFailed(c) ==
  /\ c.kind = "fetch"
  /\ editor' = IF c.current THEN [editor EXCEPT !.loading = FALSE, !.failed = TRUE] ELSE editor
  /\ calls' = calls \ {c}
  /\ UNCHANGED <<choice, entity, astray>>

TypeForm(f) ==
  /\ Open /\ editor' = [editor EXCEPT !.form = f]
  /\ UNCHANGED <<choice, calls, entity, astray>>

\* The page, or its next mount, starts anew over the requests cs.
Remount(cs) ==
  /\ editor' = Blank
  /\ calls' = Stale(cs) \cup {NewCall("fetch")}
  /\ astray' = \E c \in cs : Changes(c)

\* handleSubmit; the page is left when it succeeds.
SubmitForm ==
  /\ Open /\ ~editor.submitting
  /\ Sends([NewCall("submit") EXCEPT !.form = editor.form])
  /\ editor' = [editor EXCEPT !.submitting = TRUE]
  /\ UNCHANGED <<choice, entity, astray>>

\* PATCH /series/:series, PATCH /playlists/:playlist: all fields of the form.
Edited(f) == [entity EXCEPT !.form = f]

SubmitAnswered(c) ==
  /\ c.kind = "submit"
  /\ \/ /\ entity' = Edited(c.form)
        /\ IF c.current
           THEN Remount(calls \ {c})
           ELSE calls' = calls \ {c} /\ UNCHANGED <<editor, astray>>
     \/ /\ entity' \in {entity, Edited(c.form)}
        /\ editor' = IF c.current THEN [editor EXCEPT !.submitting = FALSE] ELSE editor
        /\ calls' = calls \ {c}
        /\ UNCHANGED astray
  /\ UNCHANGED choice

-----------------------------------------------------------------------------
\* The list: one change at a time.
AddMovie(m) ==
  /\ Idle /\ m \notin ToSet(editor.shown)
  /\ Sends([NewCall("add") EXCEPT !.movie = m])
  /\ editor' = [editor EXCEPT !.busy = "membership"]
  /\ UNCHANGED <<choice, entity, astray>>

\* Mutant: membershipActionRef is not looked at, nor is the list of now.
RemoveUnguarded(m) ==
  /\ Open /\ editor.busy # "ordering" /\ m \in ToSet(editor.shown)
  /\ Sends([NewCall("remove") EXCEPT !.movie = m, !.list = editor.shown])
  /\ editor' = [editor EXCEPT !.busy = "membership"]
  /\ UNCHANGED <<choice, entity, astray>>

\* handleRemoveMovie: the list is the one of the render that was clicked.
RemoveEntry(m) ==
  /\ Idle /\ m \in ToSet(editor.shown)
  /\ Sends([NewCall("remove") EXCEPT !.movie = m, !.list = editor.shown])
  /\ editor' = [editor EXCEPT !.busy = "membership"]
  /\ UNCHANGED <<choice, entity, astray>>

\* updateServerOrder
SendOrder(list, rollback, page) ==
  /\ Sends([NewCall("order") EXCEPT !.list = list, !.rollback = rollback])
  /\ editor' = [page EXCEPT !.shown = list, !.busy = "ordering"]

Swapped(list, i) == [list EXCEPT ![i] = list[i + 1], ![i + 1] = list[i]]

\* handleMoveUp and handleMoveDown: a row and the next one change places.
MoveEntry(i) ==
  /\ Idle /\ i + 1 <= Len(editor.shown)
  /\ SendOrder(Swapped(editor.shown, i), editor.shown, editor)
  /\ UNCHANGED <<choice, entity, astray>>

DragStart ==
  /\ Idle /\ editor.shown # <<>>
  /\ editor' = [editor EXCEPT !.drag = "over", !.before = editor.shown]
  /\ UNCHANGED <<choice, calls, entity, astray>>

DragOver(i) ==
  /\ editor.drag = "over" /\ i + 1 <= Len(editor.shown)
  /\ editor' = [editor EXCEPT !.shown = Swapped(@, i)]
  /\ UNCHANGED <<choice, calls, entity, astray>>

\* handleDragEnd: draggedIndex is reset when the order has been answered.
DragEnd ==
  /\ editor.drag = "over"
  /\ SendOrder(editor.shown, editor.before, [editor EXCEPT !.drag = "sent"])
  /\ UNCHANGED <<choice, entity, astray>>

-----------------------------------------------------------------------------
\* What the backend makes of a change: an addition at the end, unless it is
\* there; the removal of what is there; an order of the movies it has.
Accepts(c) ==
  CASE c.kind = "add" -> c.movie \notin ToSet(entity.list)
    [] c.kind = "remove" -> c.movie \in ToSet(entity.list)
    [] c.kind = "order" -> ToSet(c.list) = ToSet(entity.list)
Omitting(m, list) == SelectSeq(list, LAMBDA x : x # m)
Result(c) ==
  CASE c.kind = "add" -> Append(entity.list, c.movie)
    [] c.kind = "remove" -> Omitting(c.movie, entity.list)
    [] c.kind = "order" -> c.list

\* What the page shows then.
After(c) ==
  CASE c.kind = "add" -> Append(editor.shown, c.movie)
    [] c.kind = "remove" -> Omitting(c.movie, c.list)
    [] c.kind = "order" -> editor.shown
Rest(c) ==
  [editor EXCEPT !.busy = "none", !.drag = IF c.kind = "order" THEN "none" ELSE @]

ChangeAnswered(c) ==
  /\ Changes(c) /\ Accepts(c)
  /\ entity' = [entity EXCEPT !.list = Result(c)]
  /\ editor' = IF c.current THEN [Rest(c) EXCEPT !.shown = After(c)] ELSE editor
  /\ calls' = calls \ {c}
  /\ UNCHANGED <<choice, astray>>

\* An error: an order is taken back, whatever became of it.
ChangeFailed(c) ==
  /\ Changes(c)
  /\ \/ UNCHANGED <<entity, astray>>
     \/ Accepts(c) /\ entity' = [entity EXCEPT !.list = Result(c)] /\ astray' = TRUE
  /\ editor' = IF ~c.current THEN editor
               ELSE IF c.kind = "order" THEN [Rest(c) EXCEPT !.shown = c.rollback]
               ELSE Rest(c)
  /\ calls' = calls \ {c}
  /\ UNCHANGED choice

-----------------------------------------------------------------------------
\* The layout effects of a new selection, then the effect that fetches: it
\* depends on the profile, and not on the account.
Choose(next) ==
  /\ next # choice /\ Cardinality(calls) < MaxCalls
  /\ choice' = next
  /\ editor' = Blank
  /\ calls' = Stale(calls) \cup
       IF next.profile = choice.profile THEN {} ELSE {[NewCall("fetch") EXCEPT !.as = next.profile]}
  /\ astray' = \E c \in calls : Changes(c)
  /\ UNCHANGED entity

\* The page is left and opened again.
Reopen ==
  /\ Cardinality(calls) < MaxCalls /\ Remount(calls)
  /\ UNCHANGED <<choice, entity>>

EditorNext ==
  \/ \E c \in calls : FetchAnswered(c) \/ FetchFailed(c) \/ SubmitAnswered(c) \/ ChangeAnswered(c) \/ ChangeFailed(c)
  \/ \E f \in EntryForms : TypeForm(f)
  \/ \E m \in Entries : AddMovie(m) \/ RemoveEntry(m)
  \/ \E i \in 1..Cardinality(Entries) : MoveEntry(i) \/ DragOver(i)
  \/ SubmitForm \/ DragStart \/ DragEnd \/ Reopen
  \/ \E next \in [account : EditorAccounts, profile : EditorProfiles] : Choose(next)

EditorSpec == EditorInit /\ [][EditorNext]_editorVars

-----------------------------------------------------------------------------
EditorTypeOK ==
  /\ choice \in [account : EditorAccounts, profile : EditorProfiles]
  /\ editor.form \in EntryForms \cup {NoForm} /\ ToSet(editor.shown) \subseteq Entries
  /\ editor.busy \in {"none", "membership", "ordering"} /\ editor.drag \in {"none", "over", "sent"}
  /\ Cardinality(calls) <= MaxCalls /\ ToSet(entity.list) \subseteq Entries

Loaded == ~editor.loading /\ ~editor.failed

\* A form on the page is what the profile that is selected now was shown, or was
\* edited from there: the answer to an earlier selection is never put in, and
\* the next PATCH never carries it to the entity (series.$id.edit.tsx:74).
FormIsOwn == Loaded => editor.formOf = choice.profile

\* At rest the page lists what is stored, in the order it is stored in: each
\* change starts from what the one before it has left, and a failed order is
\* taken back (MovieManager.tsx:177, 232, 343).  What a lost answer did is not
\* known until the page is loaded again.
ListIsStored ==
  Loaded /\ editor.busy = "none" /\ editor.drag = "none" /\ ~astray => editor.shown = entity.list
=============================================================================
