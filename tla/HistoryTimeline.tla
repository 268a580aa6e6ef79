--------------------------- MODULE HistoryTimeline ---------------------------
(***************************************************************************)
(* The timeline along the history table (lib/historyTimeline.ts,           *)
(* TimelineScrubber.tsx, HistoryTable.tsx): the months its rows fall in,   *)
(* and the jumps through them by key, by pointer and by wheel.  Rows are   *)
(* numbered from 0, newest first; a month is its serial number.            *)
(***************************************************************************)
EXTENDS Integers, Sequences, FiniteSets, FiniteSetsExt, SequencesExt

CONSTANTS
    Months,         \* months a row may fall in
    MaxTotal,       \* bound: rows of the table
    Visible,        \* rows the table shows at once
    LabelGap        \* rows under which two year labels would overlap

ASSUME TimelineAssumption ==
    /\ Months \subseteq Nat /\ {MaxTotal, LabelGap} \subseteq Nat /\ Visible \in Nat \ {0}

VARIABLES
    months,         \* the month of each row on screen
    firstVisible,   \* the first row in view
    pointerRow,     \* the row under the pointer on the bar, or -1
    dragging

timelineVars == <<months, firstVisible, pointerRow, dragging>>

MonthOf(row) == months[row + 1]
Larger(a, b) == IF a >= b THEN a ELSE b
Smaller(a, b) == IF a <= b THEN a ELSE b

\* The k-th of some numbers, counted from the smallest.
At(places, k) == CHOOSE i \in places : Cardinality({j \in places : j < i}) = k - 1

\* buildTimeline: a month is a run of adjacent rows.
MonthStarts(rows) == {i \in DOMAIN rows : i = 1 \/ rows[i - 1] # rows[i]}
BuildTimeline(rows) ==
    LET starts == MonthStarts(rows)
    IN  [k \in 1 .. Cardinality(starts) |->
            [month |-> rows[At(starts, k)], start |-> At(starts, k) - 1]]

\* Mutant: the bisection misses the first row of a month.
MonthIndexAfter(timeline, row) ==
    LET search[span \in (1 .. Len(timeline) + 1) \X (0 .. Len(timeline))] ==
            LET low == span[1]
                high == span[2]
                middle == (low + high) \div 2
            IN  IF low > high THEN high
                ELSE IF timeline[middle].start < row THEN search[<<middle + 1, high>>]
                     ELSE search[<<low, middle - 1>>]
    IN  search[<<1, Len(timeline)>>]

\* monthIndexAt, by bisection; 0 without any month.
MonthIndexAt(timeline, row) ==
    LET search[span \in (1 .. Len(timeline) + 1) \X (0 .. Len(timeline))] ==
            LET low == span[1]
                high == span[2]
                middle == (low + high) \div 2
            IN  IF low > high THEN high
                ELSE IF timeline[middle].start <= row THEN search[<<middle + 1, high>>]
                     ELSE search[<<low, middle - 1>>]
    IN  search[<<1, Len(timeline)>>]

\* stepTarget: the row a key lands on.
StepTarget(timeline, total, first, step) ==
    LET current == MonthIndexAt(timeline, first)
        here == timeline[current]
        older == {k \in current + 1 .. Len(timeline) : timeline[k].month <= here.month - 12}
        newer == {k \in 1 .. current - 1 : timeline[k].month >= here.month + 12}
    IN  IF current = 0 THEN 0
        ELSE CASE step = "first" -> 0
               [] step = "last" -> Larger(0, total - 1)
               [] step = "nextMonth" ->
                    IF current < Len(timeline) THEN timeline[current + 1].start ELSE first
               [] step = "previousMonth" ->
                    IF first > here.start THEN here.start
                    ELSE IF current > 1 THEN timeline[current - 1].start ELSE 0
               [] step = "nextYear" ->
                    timeline[IF older = {} THEN Len(timeline) ELSE Min(older)].start
               [] step = "previousYear" -> IF newer = {} THEN 0 ELSE timeline[Max(newer)].start

\* yearMarks: each year at its first month, unless too close under the label above.
YearMarks(timeline) ==
    LET read[k \in 0 .. Len(timeline)] ==
            IF k = 0 THEN [year |-> -1, marks |-> <<>>]
            ELSE LET year == timeline[k].month \div 12
                     marks == read[k - 1].marks
                     close == marks # <<>> /\ timeline[k].start - marks[Len(marks)].start < LabelGap
                 IN  IF year = read[k - 1].year THEN read[k - 1]
                     ELSE [year |-> year,
                           marks |-> IF close THEN marks
                                     ELSE Append(marks, [year |-> year, start |-> timeline[k].start])]
    IN  read[Len(timeline)].marks

-----------------------------------------------------------------------------
\* The scroll container stops where its last row is at its bottom.
Scrolled(row) == Larger(0, Smaller(row, Len(months) - Visible))

Seek(row) == firstVisible' = Scrolled(row)

Step ==
    /\ \E step \in {"first", "last", "nextMonth", "previousMonth", "nextYear", "previousYear"} :
          Seek(StepTarget(BuildTimeline(months), Len(months), firstVisible, step))
    /\ UNCHANGED <<months, pointerRow, dragging>>

\* rowAtFraction: any row of the table, 0 when it has none.
RowsAtFraction == 0 .. Larger(0, Len(months) - 1)

BarPressed ==
    /\ \E row \in RowsAtFraction : pointerRow' = row /\ Seek(row)
    /\ dragging' = TRUE
    /\ UNCHANGED months

BarMoved ==
    /\ \E row \in RowsAtFraction :
          /\ pointerRow' = row
          /\ IF dragging THEN Seek(row) ELSE UNCHANGED firstVisible
    /\ UNCHANGED <<months, dragging>>

BarReleased == dragging /\ dragging' = FALSE /\ UNCHANGED <<months, firstVisible, pointerRow>>

BarLeft ==
    /\ ~dragging /\ pointerRow' = -1
    /\ UNCHANGED <<months, firstVisible, dragging>>

\* The wheel, over the table itself.
Scroll ==
    /\ \E row \in {firstVisible - 1, firstVisible + 1} : Seek(Larger(0, row))
    /\ UNCHANGED <<months, pointerRow, dragging>>

\* A row arrives live, above the others; the offset of the scroll does not move.
RowArrives ==
    /\ Len(months) < MaxTotal
    /\ \E month \in Months :
          /\ months # <<>> => month >= Head(months)
          /\ months' = <<month>> \o months
    /\ UNCHANGED <<firstVisible, pointerRow, dragging>>

\* A criterion, a search: fewer rows, or all again; the table goes back to its top.
Refilter ==
    /\ \E keep \in SUBSET Months :
          LET kept == {i \in DOMAIN months : months[i] \in keep}
          IN  months' = [k \in 1 .. Cardinality(kept) |-> months[At(kept, k)]]
    /\ firstVisible' = 0
    /\ UNCHANGED <<pointerRow, dragging>>

TimelineInit == months = <<>> /\ firstVisible = 0 /\ pointerRow = -1 /\ dragging = FALSE

TimelineNext ==
    \/ Step \/ BarPressed \/ BarMoved \/ BarReleased \/ BarLeft
    \/ Scroll \/ RowArrives \/ Refilter

TimelineSpec == TimelineInit /\ [][TimelineNext]_timelineVars

-----------------------------------------------------------------------------
\* The first row of the newest, or of the oldest, of some months; none: the row said.
FirstOfNewest(which, otherwise) ==
    IF which = {} THEN otherwise
    ELSE Min({i \in DOMAIN months : months[i] = Max(which)}) - 1
FirstOfOldest(which, otherwise) ==
    IF which = {} THEN otherwise
    ELSE Min({i \in DOMAIN months : months[i] = Min(which)}) - 1

\* The keys walk the calendar of the rows on screen, whatever months are missing from it: a
\* month's key lands on the first row of the nearest month that has one, a year's key on that of
\* the nearest month at least a year away, and none ever goes the other way; a year goes
\* without its label only just under another label.
KeysWalkTheCalendar ==
    months # <<>> =>
        LET to(step) == StepTarget(BuildTimeline(months), Len(months), firstVisible, step)
            here == MonthOf(firstVisible)
            present == ToSet(months)
            marks == YearMarks(BuildTimeline(months))
        IN  /\ to("nextMonth") = FirstOfNewest({m \in present : m < here}, firstVisible)
            /\ to("previousMonth") =
                  LET start == FirstOfNewest({here}, 0)
                  IN  IF firstVisible > start THEN start ELSE FirstOfOldest({m \in present : m > here}, 0)
            /\ to("nextYear") = FirstOfNewest({m \in present : m <= here - 12}, FirstOfOldest(present, 0))
            /\ to("previousYear") = FirstOfOldest({m \in present : m >= here + 12}, 0)
            /\ \A i \in DOMAIN months :
                  \/ \E k \in DOMAIN marks : marks[k].year = months[i] \div 12
                  \/ LET start == Min({j \in DOMAIN months : months[j] \div 12 = months[i] \div 12}) - 1
                     IN  \E k \in DOMAIN marks : marks[k].start <= start /\ start - marks[k].start < LabelGap
=============================================================================
