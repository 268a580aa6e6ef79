----------------------------- MODULE TableViews -----------------------------
(***************************************************************************)
(* The sort, the filters and the search of a page, remembered per account  *)
(* in localStorage (useTableView.ts, tableViewStorage.ts, ColumnHeader,    *)
(* ActiveFilters).  One table and its page; the route may change account   *)
(* under them without remounting them.  Another tab, on another account,   *)
(* writes the same storage.                                                *)
(***************************************************************************)
EXTENDS TableFilters

CONSTANTS
    Owner,          \* accounts
    Columns,        \* the columns: their type, and whether they sort
    Lines,          \* the lines of each account's table, in their own order
    Criteria,       \* criteria a panel may give to each column, once readable
    Searches,       \* texts of the search, the empty one included
    MaxSort         \* bound: keys of a sort

NoSearch == [type |-> "none"]

Sortable == {column \in DOMAIN Columns : Columns[column].sortable}

Readable(criterion) ==
    criterion.type = "terms" =>
        \A terms \in criterion.alternatives : \A term \in terms :
            term.op \in {"=", "!=", "<", "<=", ">", ">="} /\ term.low <= term.high

ASSUME TableAssumption ==
    /\ MaxSort \in Nat /\ NoSearch \in Searches
    /\ Searches = {criterion \in Searches : Readable(criterion)}
    /\ \A column \in DOMAIN Columns :
          Criteria[column] = {criterion \in Criteria[column] : Readable(criterion)}
    /\ \A owner \in Owner :
          /\ Lines[owner] \in Seq(ToSet(Lines[owner]))
          /\ \A i, j \in DOMAIN Lines[owner] : i # j => Lines[owner][i] # Lines[owner][j]
          /\ \A i \in DOMAIN Lines[owner], column \in DOMAIN Columns :
                LET values == Lines[owner][i][column] IN
                /\ Columns[column].type = "enum" => "-" \notin values
                /\ column \in Sortable => values \subseteq Int /\ \A m, n \in values : m = n

VARIABLES
    route,          \* the account of the page
    table,          \* the state of useTableView: its key and its view
    field,          \* the state of usePageSearch: its key, the text typed, the one applied
    timer,          \* the text the debounce will store, under its key
    storage,        \* localStorage: the view and the search of each account, or EmptyView, NoSearch
    asked           \* history: what was last asked of each account's table and search

viewVars == <<route, table, field, timer, storage, asked>>

Idle == [armed |-> FALSE]

\* readTableView: a key this version has no sortable column for is dropped, as is a
\* criterion that filters nothing.
ReadTableView(view) ==
    [sort |-> Filtering(view.sort, {i \in DOMAIN view.sort : view.sort[i].column \in Sortable}),
     criteria |-> [column \in {c \in DOMAIN view.criteria : c \in DOMAIN Columns /\ Filters(view.criteria[c])}
                      |-> view.criteria[column]]]

FieldOf(owner) == [key |-> owner, input |-> storage[owner].search, applied |-> storage[owner].search]

\* Mutant: the view is read after the render that brings the key.
HeldLate(owner) == [key |-> owner, view |-> table.view]

\* What useTableView and usePageSearch hold once the key is the account's.
HeldAt(owner) == [key |-> owner, view |-> ReadTableView(storage[owner].view)]

-----------------------------------------------------------------------------
\* update: the next view is written and shown at once.
Update(view) ==
    /\ table' = [table EXCEPT !.view = view]
    /\ storage' = [storage EXCEPT ![table.key].view = view]
    /\ asked' = [asked EXCEPT ![table.key].view = view]
    /\ UNCHANGED <<route, field, timer>>

\* A panel, or the bell of a box: only a criterion that can be read reaches the table.
SetCriterion(column) ==
    \E criterion \in Criteria[column] \cup {NoCriterion} :
        Update([table.view EXCEPT !.criteria =
            IF Filters(criterion) THEN WithColumn(@, column, criterion) ELSE WithoutColumn(@, column)])

\* The sort of a column's panel, alone or, with Shift, among the others; it offers to
\* reset the sort of a column that has one.
SetSort(column) ==
    \E dir \in {"asc", "desc", "none"}, additive \in BOOLEAN :
        /\ dir = "none" => \E i \in DOMAIN table.view.sort : table.view.sort[i].column = column
        /\ LET sort == ApplySort(table.view.sort, column, dir, additive) IN
           Len(sort) <= MaxSort /\ Update([table.view EXCEPT !.sort = sort])

\* A pill, or "clear all"; the search of the page stays.
ClearColumn(column) ==
    /\ column \in Pills(table.view)
    /\ Update([table.view EXCEPT !.criteria = WithoutColumn(@, column)])

ClearAll == Pills(table.view) # {} /\ Update(EmptyView)

-----------------------------------------------------------------------------
\* The effect of usePageSearch, at each render that changes what it depends on.
Armed(f) == IF f.input = f.applied THEN Idle ELSE [armed |-> TRUE, key |-> f.key, text |-> f.input]

TypeSearch ==
    /\ \E text \in Searches : field' = [field EXCEPT !.input = text]
    /\ timer' = Armed(field')
    /\ UNCHANGED <<route, table, storage, asked>>

\* PAGE_SEARCH_DEBOUNCE_MS after the last key.
Debounced ==
    /\ timer.armed
    /\ storage' = [storage EXCEPT ![timer.key].search = timer.text]
    /\ asked' = [asked EXCEPT ![field.key].search = field.input]
    /\ field' = IF field.key = timer.key THEN [field EXCEPT !.applied = field.input] ELSE field
    /\ timer' = Armed(field')
    /\ UNCHANGED <<route, table>>

\* The key of another account is read during the render that brings it; the effect
\* clears the timer of the former one.
Navigate(owner) ==
    /\ owner # route
    /\ route' = owner
    /\ table' = HeldAt(owner)
    /\ field' = FieldOf(owner)
    /\ timer' = Armed(field')
    /\ UNCHANGED <<storage, asked>>

\* Another tab asks something of the table of another account.
AskElsewhere(owner) ==
    /\ owner # route
    /\ \E column \in DOMAIN Columns : \E criterion \in Criteria[column] :
          LET view == [EmptyView EXCEPT !.criteria = [c \in {column} |-> criterion]] IN
          /\ storage' = [storage EXCEPT ![owner].view = view]
          /\ asked' = [asked EXCEPT ![owner].view = view]
    /\ UNCHANGED <<route, table, field, timer>>

\* clearTableViews: the account is deleted, from a page that shows none of its tables.
ClearTableViews(owner) ==
    /\ owner # route
    /\ storage' = [storage EXCEPT ![owner] = [view |-> EmptyView, search |-> NoSearch]]
    /\ asked' = [asked EXCEPT ![owner] = storage'[owner]]
    /\ UNCHANGED <<route, table, field, timer>>

ViewsInit ==
    /\ route \in Owner
    /\ storage = [owner \in Owner |-> [view |-> EmptyView, search |-> NoSearch]]
    /\ table = [key |-> route, view |-> EmptyView]
    /\ field = [key |-> route, input |-> NoSearch, applied |-> NoSearch]
    /\ timer = Idle /\ asked = storage

ViewsNext ==
    \/ \E column \in DOMAIN Columns :
          \/ SetCriterion(column) \/ ClearColumn(column)
          \/ column \in Sortable /\ SetSort(column)
    \/ ClearAll \/ TypeSearch \/ Debounced
    \/ \E owner \in Owner : Navigate(owner) \/ AskElsewhere(owner) \/ ClearTableViews(owner)

ViewsSpec == ViewsInit /\ [][ViewsNext]_viewVars

-----------------------------------------------------------------------------
\* What is kept under an account's key is what was last asked of that account's own table
\* and search, in whichever tab, and what the page shows is the view of the account it
\* names: leaving, coming back, typing or deleting another account never lends a filter.
ViewIsItsOwn ==
    /\ \A owner \in Owner : storage[owner] = asked[owner]
    /\ table.key = route /\ field.key = route
    /\ field.applied = storage[route].search
    /\ table.view = ReadTableView(storage[route].view)
    /\ timer.armed => timer.key = route /\ timer.text = field.input

\* The lines of the account and what the table shows of them.
Shown == ApplyView(Lines[route], table.view, field.applied)

\* A line is missing from the table only if a pill above it, or the search of the page,
\* says why; a facet's figure is what checking it alone would show; lines equal on every
\* key of the sort keep their own order.
NothingHiddenSilently ==
    LET lines == Lines[route]
        enums == {column \in DOMAIN Columns : Columns[column].type = "enum"}
        only(column, value) ==
            [sort |-> <<>>, criteria |-> [c \in {column} |-> [type |-> "enum", checked |-> {value}]]]
    IN  /\ \A i \in DOMAIN lines :
              \/ \E j \in DOMAIN Shown : Shown[j] = lines[i]
              \/ ~Keeps(field.applied, lines[i]["ticker"])
              \/ \E column \in Pills(table.view) : ~Keeps(table.view.criteria[column], lines[i][column])
        /\ \A column \in enums :
              LET facets == Facets(lines, column, {})
              IN  \A value \in DOMAIN facets : facets[value] = Len(ApplyView(lines, only(column, value), NoSearch))
        /\ \A i, j \in DOMAIN Shown : i < j => ~AheadOn(table.view.sort, Shown[j], Shown[i])

\* The page on screen shows its own account's table, whole but for what it says.
TableTellsItsOwn == ViewIsItsOwn /\ NothingHiddenSilently
=============================================================================
