---------------------------- MODULE TableFilters ----------------------------
(***************************************************************************)
(* What a table shows (apps/web/src/lib/tableView.ts, tableCriteria.ts):   *)
(* the criteria of its columns, the search of its page, its sort and the   *)
(* facets of its enum columns.  A text criterion is read already: a set of *)
(* alternatives, each a set of terms; the words of a text are what "it     *)
(* contains" tells apart.                                                  *)
(*                                                                         *)
(* A cell is the set of what it holds: of one value at most in a number or *)
(* a text column, of any number in an enum column; {} is "-".              *)
(***************************************************************************)
EXTENDS Integers, Sequences, FiniteSets, SequencesExt

\* A term of tableCriteria.ts: a period or a number is the interval from low to high.
\* "absent" is the dash.
IntervalTest(term, n) ==
    CASE term.op = "="  -> n \in term.low..term.high
      [] term.op = "!=" -> n \notin term.low..term.high
      [] term.op = "<"  -> n < term.low
      [] term.op = "<=" -> n <= term.high
      [] term.op = ">"  -> n > term.high
      [] term.op = ">=" -> n >= term.low

\* termPredicate: only the dash keeps an absent value, and negating it keeps the others.
TermPredicate(term, cell) ==
    IF term.absent THEN (cell = {}) = ((term.op # "!=") # term.negate)
    ELSE \E n \in cell : IntervalTest(term, n) # term.negate

\* parseCriterion: the alternatives of "|", the terms of a space.
Test(criterion, cell) ==
    \E terms \in criterion.alternatives : \A term \in terms : TermPredicate(term, cell)

\* criterionTest of an enum column: one of the values checked, or "-" on an empty cell.
TestEnum(criterion, cell) ==
    IF cell = {} THEN "-" \in criterion.checked ELSE cell \cap criterion.checked # {}

NoCriterion == [type |-> "none"]
EmptyView == [sort |-> <<>>, criteria |-> [column \in {} |-> NoCriterion]]

WithoutColumn(criteria, column) == [c \in DOMAIN criteria \ {column} |-> criteria[c]]
WithColumn(criteria, column, criterion) ==
    [c \in DOMAIN criteria \cup {column} |-> IF c = column THEN criterion ELSE criteria[c]]

\* criterionTest: a criterion that cannot be read filters nothing.
Filters(criterion) ==
    \/ criterion.type = "terms" /\ criterion.ok
    \/ criterion.type = "enum" /\ criterion.checked # {}

Keeps(criterion, cell) ==
    Filters(criterion) => IF criterion.type = "enum" THEN TestEnum(criterion, cell) ELSE Test(criterion, cell)

\* activeCriteria: the columns whose pill is above the table.
Pills(view) == {column \in DOMAIN view.criteria : Filters(view.criteria[column])}

\* compareValues: absent values sink to the bottom whatever the direction.
SortBefore(key, row, other) ==
    LET a == row[key.column]  b == other[key.column] IN
    CASE a = {} -> FALSE
      [] b = {} -> a # {}
      [] OTHER -> \E m \in a, n \in b : IF key.dir = "asc" THEN m < n ELSE m > n

\* Equal on the keys before k, and ahead on k.
AheadOn(sort, row, other) ==
    \E k \in DOMAIN sort :
        /\ SortBefore(sort[k], row, other)
        /\ \A j \in 1..(k - 1) : ~SortBefore(sort[j], row, other) /\ ~SortBefore(sort[j], other, row)

\* A row comes before another that it is ahead of, or that it equals and precedes.
ComesBefore(rows, sort, j, i) ==
    AheadOn(sort, rows[j], rows[i]) \/ (j < i /\ ~AheadOn(sort, rows[i], rows[j]))

\* The rows of these lines, each at its place: the rows that come before it.
SortedRows(rows, lines, sort) ==
    LET place(i) == Cardinality({j \in lines : ComesBefore(rows, sort, j, i)})
    IN  [p \in 1..Cardinality(lines) |-> rows[CHOOSE i \in lines : place(i) = p - 1]]

\* filter: the rows of these lines, in the order they have.
Filtering(rows, lines) == SortedRows(rows, lines, <<>>)

\* The lines the search of the page and the criteria let through.
KeptLines(rows, view, search) ==
    {i \in DOMAIN rows :
        /\ Keeps(search, rows[i]["ticker"])
        /\ \A column \in DOMAIN view.criteria : Keeps(view.criteria[column], rows[i][column])}

\* applyView: the search of the page, the criteria, then the sort.
ApplyView(rows, view, search) == SortedRows(rows, KeptLines(rows, view, search), view.sort)

\* facetValues: over every row of the box, whatever its criteria; a value checked keeps
\* its entry when no row has it any more.
Facets(rows, column, checked) ==
    LET cells == {rows[i][column] : i \in DOMAIN rows}
        values == UNION cells \cup (IF {} \in cells THEN {"-"} ELSE {}) \cup checked
        has(row, value) == IF value = "-" THEN row[column] = {} ELSE value \in row[column]
    IN  [value \in values |-> Cardinality({i \in DOMAIN rows : has(rows[i], value)})]

\* applySort: plain, the column alone; additive, among the others.
ApplySort(sort, column, dir, additive) ==
    LET others == Filtering(sort, {i \in DOMAIN sort : sort[i].column # column})
        key == [column |-> column, dir |-> dir]
        known == \E i \in DOMAIN sort : sort[i].column = column
    IN  IF ~additive THEN IF dir = "none" THEN <<>> ELSE <<key>>
        ELSE IF dir = "none" THEN others
        ELSE IF known THEN [i \in DOMAIN sort |-> IF sort[i].column = column THEN key ELSE sort[i]]
        ELSE Append(sort, key)
=============================================================================
