--------------------------- MODULE RangeOwnership ---------------------------
(***************************************************************************)
(* packages/ledger: which source may write which days of an account's      *)
(* ledger.  Three sources report the same brokerage events and cannot      *)
(* recognise each other's rows, so nothing is compared by content: a       *)
(* source owns a range of days and writes all of it (import.ts).           *)
(*                                                                         *)
(* A row of the ledger is the source that wrote it and the event it        *)
(* reports; its key, externalId, is unique per source and event.  What     *)
(* time the source stamps on it is given by the constants below, which     *)
(* describe Interactive Brokers and are external to the program.           *)
(***************************************************************************)
EXTENDS Integers

CONSTANTS
    Event,          \* what happened on the brokerage account
    Executed,       \* the events TWS reports too: fills and assignments
    FileWhen,       \* [Event -> Instant]: the stamp of Flex and of statements
    AgentWhen,      \* [Event -> Instant]: the stamp TWS gives an execution
    KnownFrom,      \* [Event -> day]: the first day IB's reports carry it
    SundayIs        \* the weekday of day 0, counted from Sunday: 0..6

\* A New York wall-clock instant, read to what the rules tell apart: the civil
\* day, and whether the hour is before 04:00 (midnight stamps included).
Instant == [day : Nat, night : BOOLEAN]

ASSUME EventAssumption ==
    /\ Executed \subseteq Event
    /\ FileWhen \in [Event -> Instant]
    /\ AgentWhen \in [Event -> Instant]
    /\ KnownFrom \in [Event -> Nat]
    /\ SundayIs \in 0..6

\* One calendar day in advance of the reports at least: a response runs to the
\* previous close, and an event enters the reports on its own day or later.
ASSUME KnownAssumption == \A e \in Event : FileWhen[e].day <= KnownFrom[e]

RowSource == {"flex", "statement_html", "agent"}
LedgerRow == [source : RowSource, event : Event]

When(r) == IF r.source = "agent" THEN AgentWhen[r.event] ELSE FileWhen[r.event]

DayOf(w) == w.day

\* 0 is Sunday and 6 is Saturday, as Date.getUTCDay.
Weekday(d) == (d + SundayIs) % 7

BackToFriday(d) ==
    CASE Weekday(d) = 6 -> d - 1
      [] Weekday(d) = 0 -> d - 2
      [] OTHER          -> d

\* A night and a weekend belong to the session they follow.
MarketDayOf(w) == BackToFriday(IF w.night THEN w.day - 1 ELSE w.day)

RowDay(r) == DayOf(When(r))
RowMarketDay(r) == MarketDayOf(When(r))

RowsOf(rows, source) == {r \in rows : r.source = source}
RowsFor(source, events) == {[source |-> source, event |-> e] : e \in events}

Within(d, period) == period.start <= d /\ d <= period.end

\* The day is older than every Flex row: the region statements may write.
BeforeFlex(rows, d) == \A f \in RowsOf(rows, "flex") : d < RowDay(f)

\* The market day is later than every Flex row: what the agent may write.
AfterFlex(rows, r) == \A f \in RowsOf(rows, "flex") : RowDay(f) < RowMarketDay(r)

-----------------------------------------------------------------------------

\* Mutant: the night counts as its own civil day for every source.
CivilUpperDay(r) == RowDay(r)

\* The upper bound of Flex's range is read in market days for the agent only.
UpperDay(r) == IF r.source = "agent" THEN RowMarketDay(r) ELSE RowDay(r)

\* Mutant: a late adjustment, dated before the window, is written too.
FlexWritesAll(events, period) == RowsFor("flex", events)

\* Flex writes no day before the window the response declares.
FlexWrites(events, period) ==
    {r \in RowsFor("flex", events) : RowDay(r) >= period.start}

\* Mutant: the range Flex owns has no floor.
FlexRetiresThePast(existing, kept) ==
    {r \in existing : r.source # "flex" /\ \E k \in kept : UpperDay(r) <= RowDay(k)}

\* It retires the rows of the other sources from its oldest kept day to its
\* newest, both included.
FlexRetires(existing, kept) ==
    {r \in existing : /\ r.source # "flex"
                      /\ \E k \in kept : RowDay(k) <= RowDay(r)
                      /\ \E k \in kept : UpperDay(r) <= RowDay(k)}

PlanFlex(existing, events, period) ==
    LET kept == FlexWrites(events, period)
    IN  [delete |-> FlexRetires(existing, kept), upsert |-> kept]

\* Mutant: a statement adds to the rows of its period.
StatementReplacesNone(existing, kept, period) == {}

\* A statement replaces the statement rows of its period, where it may write.
StatementReplaces(existing, kept, period) ==
    {r \in RowsOf(existing, "statement_html") \ kept :
        Within(RowDay(r), period) /\ BeforeFlex(existing, RowDay(r))}

\* A statement writes whatever day is before Flex's oldest one.
PlanStatement(existing, events, period) ==
    LET kept == {r \in RowsFor("statement_html", events) :
                    BeforeFlex(existing, RowDay(r))}
    IN  [delete |-> StatementReplaces(existing, kept, period), upsert |-> kept]

\* The agent deletes nothing.
PlanAgent(existing, events) ==
    [delete |-> {}, upsert |-> {r \in RowsFor("agent", events) : AfterFlex(existing, r)}]

\* The batch's source picks the rule.  A batch of any other source is refused
\* before anything is planned.
PlanImport(existing, source, events, period) ==
    CASE source = "flex"           -> PlanFlex(existing, events, period)
      [] source = "statement_html" -> PlanStatement(existing, events, period)
      [] source = "agent"          -> PlanAgent(existing, events)
=============================================================================
