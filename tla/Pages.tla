------------------------------- MODULE Pages --------------------------------
(***************************************************************************)
(* Lists that are read page by page: links, clicks, accounts and the audit *)
(* log (ListLinks, ListClicks, ListUsers and ListAudit of internal/store,  *)
(* the cursors of internal/store/helpers.go), read by a console or by the  *)
(* deletion of an account (internal/server/api_me.go) while rows come, go  *)
(* and change.                                                             *)
(*                                                                         *)
(* A page is one query: the rows the filter lets through that lie behind   *)
(* the cursor, in the order of a column and then of the id, one row more   *)
(* than the page holds.  The cursor is the column and the id of the last   *)
(* row of the page; without a row to spare there is none, and the reader   *)
(* is done.  Times, counts and titles are numbers here, and so are ids.    *)
(***************************************************************************)
EXTENDS Integers, FiniteSets

CONSTANTS
  Rows,     \* ids
  Sortable, \* what the sort column may hold
  PageSize  \* rows of a page

ASSUME PagesAssumption ==
  /\ Rows \subseteq Int /\ IsFiniteSet(Rows)
  /\ Sortable \subseteq Int
  /\ PageSize \in Nat \ {0}

VARIABLES
  listed,     \* rows that the filter lets through
  value,      \* their sort column
  order,      \* ASC or DESC
  reading,    \* is the reader between two pages?
  pageCursor, \* the one it was given
  returned,   \* rows it has been given
  steady,     \* ghost: rows listed from the first page until they were returned
  moved,      \* ghost: rows whose column changed since the first page
  repeated    \* ghost: rows it was given twice

readerVars == <<order, reading, pageCursor, returned, repeated>>
pagesVars  == <<listed, value, readerVars, steady, moved>>

-----------------------------------------------------------------------------
Start == [at |-> "start"]
After(v, r) == [at |-> "row", value |-> v, id |-> r]
Cursor == {Start} \cup [at : {"row"}, value : Sortable, id : Rows]

PagesTypeOK ==
  /\ listed \in SUBSET Rows
  /\ value \in [Rows -> Sortable]
  /\ order \in {"ASC", "DESC"}
  /\ reading \in BOOLEAN
  /\ pageCursor \in Cursor
  /\ returned \in SUBSET Rows
  /\ steady \in SUBSET Rows
  /\ moved \in SUBSET Rows
  /\ repeated \in SUBSET Rows

PagesInit ==
  /\ listed \in SUBSET Rows
  /\ value \in [Rows -> Sortable]
  /\ order \in {"ASC", "DESC"}
  /\ reading = FALSE
  /\ pageCursor = Start
  /\ returned = {} /\ steady = {} /\ moved = {} /\ repeated = {}

-----------------------------------------------------------------------------
\* ORDER BY column, id.
Less(v, r, w, q) == v < w \/ (v = w /\ r < q)

Comes(v, r, w, q) ==
  IF order = "ASC" THEN Less(v, r, w, q) ELSE Less(w, q, v, r)

Precedes(r, q) == Comes(value[r], r, value[q], q)

\* As ListClicks once was: the value alone.
BehindCursor_ValueOnly(r) ==
  \/ pageCursor.at = "start"
  \/ /\ pageCursor.at = "row"
     /\ Comes(pageCursor.value, 0, value[r], 0)

\* The condition a cursor adds to the query.
BehindCursor(r) ==
  \/ pageCursor.at = "start"
  \/ /\ pageCursor.at = "row"
     /\ Comes(pageCursor.value, pageCursor.id, value[r], r)

Rest == {r \in listed : BehindCursor(r)}

\* LIMIT
Page == {r \in Rest : Cardinality({q \in Rest : Precedes(q, r)}) < PageSize}

\* The first page is asked for, from here on.
BeginReading ==
  /\ ~reading
  /\ reading' = TRUE
  /\ pageCursor' = Start
  /\ returned' = {} /\ repeated' = {}
  /\ steady' = listed /\ moved' = {}
  /\ UNCHANGED <<listed, value, order>>

Receive(page) ==
  /\ returned' = returned \cup page
  /\ repeated' = repeated \cup (returned \cap page)
  /\ UNCHANGED <<listed, value, order, steady, moved>>

\* A page, and the cursor of its last row.
ReadPage ==
  /\ reading
  /\ Page # Rest
  /\ \E last \in Page :
       /\ \A r \in Page : r = last \/ Precedes(r, last)
       /\ pageCursor' = After(value[last], last)
  /\ Receive(Page)
  /\ UNCHANGED reading

\* The last page has no cursor.
ReadLastPage ==
  /\ reading
  /\ Page = Rest
  /\ Receive(Page)
  /\ reading' = FALSE
  /\ UNCHANGED pageCursor

\* A row is inserted, restored, or edited so that the filter takes it.
Enter(r) ==
  /\ r \notin listed
  /\ listed' = listed \cup {r}
  /\ UNCHANGED <<value, readerVars, steady, moved>>

\* A row is deleted, by others or by the reader, or edited out of the filter.
Leave(r) ==
  /\ r \in listed
  /\ listed' = listed \ {r}
  /\ steady' = IF r \in returned THEN steady ELSE steady \ {r}
  /\ UNCHANGED <<value, readerVars, moved>>

\* Clicks are counted, a title is edited.
Change(r, v) ==
  /\ v # value[r]
  /\ value' = [value EXCEPT ![r] = v]
  /\ moved' = moved \cup {r}
  /\ UNCHANGED <<listed, readerVars, steady>>

PagesNext ==
  \/ BeginReading \/ ReadPage \/ ReadLastPage
  \/ \E r \in Rows :
       \/ Enter(r) \/ Leave(r)
       \/ \E v \in Sortable : Change(r, v)

PagesSpec == PagesInit /\ [][PagesNext]_pagesVars

-----------------------------------------------------------------------------
\* However rows come and go between two pages, also rows that share their
\* value with the last row of a page, and also when that last row is gone
\* before the next page is asked for: a reader who has come to the end was
\* given every row that was in the list when it began and stayed there
\* unchanged, and no reader is given a row twice that has not moved
\* (ListLinks, ListClicks, ListUsers, ListAudit).
EveryRowOnce ==
  /\ ~reading => steady \ moved \subseteq returned
  /\ repeated \subseteq moved

=============================================================================
