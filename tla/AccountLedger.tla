--------------------------- MODULE AccountLedger ---------------------------
(***************************************************************************)
(* One account's share of the browser database (apps/web/src/db) and the   *)
(* handlers that write it: a file import (importFile.ts), an agent pass    *)
(* (agent/sync.ts), a rebuild from the kept statements, with or without    *)
(* one of them (replayStatements.ts), and the purge (clearDerived.ts).     *)
(* Each handler ends in one IndexedDB transaction that reads what it       *)
(* plans against and writes everything, so each is one action; the import  *)
(* lock that orders the handlers of a tab is in ImportLock.tla.            *)
(*                                                                         *)
(* The user and Interactive Brokers are the environment.  A download made  *)
(* on some day may be imported on any later day, in any order and any      *)
(* number of times; TWS reports any part of its recent executions.         *)
(***************************************************************************)
EXTENDS RangeOwnership

CONSTANTS
    Kind,           \* [Event -> transaction kind]
    FlexFile,       \* the Flex responses the user may hold one day
    StatementFile,  \* the activity statements the user may hold one day
    Lookback,       \* how many days back TWS reports executions
    MaxDay          \* bound: the last day of the model

\* What a file declares and carries: its period, the day it was downloaded, and
\* whether it has an Open Positions and a Cash Report section.
File == [period : [start : Nat, end : Nat], taken : Nat,
         positions : BOOLEAN, cash : BOOLEAN]

ASSUME FileAssumption ==
    /\ FlexFile \subseteq File
    /\ StatementFile \subseteq File
    /\ \A f \in FlexFile \cup StatementFile :
            /\ 0 < f.period.start    \* day 0 stands for no document at all
            /\ f.period.start <= f.period.end /\ f.period.end < f.taken
    /\ Lookback \in Nat
    /\ MaxDay \in Nat

VARIABLES
    now,
    rows,           \* db.transactions
    statements,     \* db.statements: the files kept, one per declared period
    snapshot,       \* db.snapshots: the source and the day of the positions
    cash,           \* db.cashPoints of one currency: the start and end points
    window,         \* db.contracts of one alias: the days it was seen
    warned,         \* accounts.warnedDroppedKinds
    rebuilt         \* history: no purge since the last rebuild

vars == <<now, rows, statements, snapshot, cash, window, warned, rebuilt>>

None == [source |-> "none", asOf |-> 0]
Unseen == [first |-> 0, last |-> 0]

\* A Flex response carries what IB booked during its window, a late adjustment
\* with the date of what it corrects.
FlexEvents(f) == {e \in Event : Within(KnownFrom[e], f.period)}

\* A statement carries what is dated in its period, as known when it was made.
StatementEvents(f) ==
    {e \in Event : Within(FileWhen[e].day, f.period) /\ KnownFrom[e] < f.taken}

-----------------------------------------------------------------------------
\* The tables beside the ledger.

\* The agent's positions are live; a file's replace those of its day or older.
ShouldReplaceSnapshot(current, source, asOf) ==
    \/ current = None
    \/ source = "agent"
    \/ asOf >= current.asOf

\* Mutant: the start point follows the window forward.
MergeCashPointsForward(current, source, period) ==
    LET start == [source |-> source, asOf |-> period.start]
        end   == [source |-> source, asOf |-> period.end]
    IN  [start |-> IF current.start = None \/ start.asOf >= current.start.asOf
                     THEN start ELSE current.start,
         end   |-> IF current.end = None \/ end.asOf >= current.end.asOf
                     THEN end ELSE current.end]

\* The end point moves to a later or same-day file, the start point to an
\* earlier or same-day one.
MergeCashPoints(current, source, period) ==
    LET start == [source |-> source, asOf |-> period.start]
        end   == [source |-> source, asOf |-> period.end]
    IN  [start |-> IF current.start = None \/ start.asOf <= current.start.asOf
                     THEN start ELSE current.start,
         end   |-> IF current.end = None \/ end.asOf >= current.end.asOf
                     THEN end ELSE current.end]

\* Windows only ever widen.
MergeContract(current, start, end) ==
    [first |-> IF current = Unseen \/ start < current.first THEN start ELSE current.first,
     last  |-> IF current = Unseen \/ end > current.last THEN end ELSE current.last]

-----------------------------------------------------------------------------
\* What a rebuild lays down again.  The files are replayed by declared period;
\* these are the closed forms of that loop.

\* compareByPeriod; the files kept have distinct periods.
ReplayedAfter(g, f) ==
    \/ g.period.start > f.period.start
    \/ g.period.start = f.period.start /\ g.period.end > f.period.end

\* A row of a file stays unless a file replayed later covers its day without it.
RebuiltRows(files) ==
    LET stays(f, e) == \A g \in files :
            ReplayedAfter(g, f) /\ Within(FileWhen[e].day, g.period)
                => e \in StatementEvents(g)
    IN  UNION {RowsFor("statement_html",
                       {e \in StatementEvents(f) :
                            BeforeFlex(rows, FileWhen[e].day) /\ stays(f, e)}) :
                   f \in files}

\* The positions of the latest declared period, against those of another source.
RebuiltSnapshot(files) ==
    LET owned == snapshot.source \in {"none", "statement_html"}
        dated == {[source |-> "statement_html", asOf |-> f.period.end] :
                      f \in {g \in files : g.positions}}
        latest == {p \in dated : \A q \in dated : q.asOf <= p.asOf}
    IN  CASE \E p \in latest : owned \/ ShouldReplaceSnapshot(snapshot, p.source, p.asOf)
                -> CHOOSE p \in latest : TRUE
          [] latest = {} /\ owned -> None
          [] OTHER -> snapshot

\* The points of the other sources stand, those of the statements are laid again.
RebuiltCash(files) ==
    LET stands(p) == IF p.source = "statement_html" THEN None ELSE p
        start == stands(cash.start)
        end   == stands(cash.end)
        reports == {f \in files : f.cash}
        first == {f \in reports :
                    /\ \A g \in reports : f.period.start <= g.period.start
                    /\ start = None \/ f.period.start <= start.asOf}
        last  == {f \in reports :
                    /\ \A g \in reports : f.period.end >= g.period.end
                    /\ end = None \/ f.period.end >= end.asOf}
        laid(day) == [source |-> "statement_html", asOf |-> day]
    IN  [start |-> IF first = {} THEN start ELSE laid((CHOOSE f \in first : TRUE).period.start),
         end   |-> IF last = {} THEN end ELSE laid((CHOOSE f \in last : TRUE).period.end)]

\* Contracts are merged, never rebuilt: a bound moves outwards or stays.
RebuiltWindow(files) ==
    LET naming == {f \in files : StatementEvents(f) # {}}
        first == {f \in naming :
                    /\ \A g \in naming : f.period.start <= g.period.start
                    /\ window = Unseen \/ f.period.start < window.first}
        last  == {f \in naming :
                    /\ \A g \in naming : f.period.end >= g.period.end
                    /\ window = Unseen \/ f.period.end > window.last}
    IN  [first |-> IF first = {} THEN window.first
                   ELSE (CHOOSE f \in first : TRUE).period.start,
         last  |-> IF last = {} THEN window.last
                   ELSE (CHOOSE f \in last : TRUE).period.end]

-----------------------------------------------------------------------------
\* The rebuild as the code runs it: the loop over the files, in replay order.

\* What one file lays on what the files before it left: its plan, made against the
\* other sources' rows and theirs, its cash report and the days its contracts were seen.
Laid(base, f) ==
    LET plan == PlanImport(base.rows, "statement_html", StatementEvents(f), f.period)
    IN  [rows   |-> (base.rows \ plan.delete) \cup plan.upsert,
         cash   |-> IF f.cash THEN MergeCashPoints(base.cash, "statement_html", f.period)
                    ELSE base.cash,
         window |-> IF StatementEvents(f) = {} THEN base.window
                    ELSE MergeContract(base.window, f.period.start, f.period.end)]

\* The last of the files in replay order.
LastReplayed(files) == CHOOSE f \in files : \A g \in files \ {f} : ReplayedAfter(f, g)

\* What the loop starts on: the tables without what statements laid in them.
TornDown ==
    LET stands(p) == IF p.source = "statement_html" THEN None ELSE p
    IN  [rows   |-> {r \in rows : r.source # "statement_html"},
         cash   |-> [start |-> stands(cash.start), end |-> stands(cash.end)],
         window |-> window]

Replayed(files) ==
    LET upTo[F \in SUBSET files] ==
            IF F = {} THEN TornDown
            ELSE LET f == LastReplayed(F) IN Laid(upTo[F \ {f}], f)
    IN  upTo[files]

-----------------------------------------------------------------------------
\* The handlers.

\* writeFile: what an import writes besides the kept file.
Write(source, f, events) ==
    LET plan == PlanImport(rows, source, events, f.period)
    IN  /\ rows' = (rows \ plan.delete) \cup plan.upsert
        /\ snapshot' =
               IF f.positions /\ ShouldReplaceSnapshot(snapshot, source, f.period.end)
               THEN [source |-> source, asOf |-> f.period.end] ELSE snapshot
        /\ cash' = IF f.cash THEN MergeCashPoints(cash, source, f.period) ELSE cash
        /\ window' = IF events = {} THEN window
                     ELSE MergeContract(window, f.period.start, f.period.end)
        /\ warned' = IF source = "flex"
                     THEN warned \cup {Kind[r.event] : r \in plan.delete} ELSE warned

\* A Flex response is never kept: it is one proxy call away.
ImportFlex(f) ==
    /\ f.taken <= now
    /\ Write("flex", f, FlexEvents(f))
    /\ UNCHANGED <<now, statements, rebuilt>>

\* The file is stored under its declared period, over an earlier download.
ImportStatement(f) ==
    /\ f.taken <= now
    /\ Write("statement_html", f, StatementEvents(f))
    /\ statements' = {g \in statements : g.period # f.period} \cup {f}
    /\ UNCHANGED <<now, rebuilt>>

\* syncAgent: TWS answers on one day with part of its recent executions, and the
\* pass writes the same day or, having waited for the lock, the day after.
SyncAgent(day, events) ==
    /\ now - 1 <= day /\ day <= now
    /\ \A e \in events : day - Lookback <= AgentWhen[e].day /\ AgentWhen[e].day <= day
    /\ rows' = rows \cup PlanAgent(rows, events).upsert
    /\ snapshot' = IF ShouldReplaceSnapshot(snapshot, "agent", day)
                   THEN [source |-> "agent", asOf |-> day] ELSE snapshot
    /\ window' = IF events = {} THEN window ELSE MergeContract(window, day, day)
    /\ UNCHANGED <<now, statements, cash, warned, rebuilt>>

\* replayStatements over some of the kept files: the statement layer is torn down
\* and laid again, the rest of the ledger only read.
Rebuild(files) ==
    /\ rows' = {r \in rows : r.source # "statement_html"} \cup RebuiltRows(files)
    /\ statements' = files
    /\ snapshot' = RebuiltSnapshot(files)
    /\ cash' = RebuiltCash(files)
    /\ window' = RebuiltWindow(files)
    /\ rebuilt' = TRUE
    /\ UNCHANGED <<now, warned>>

Replay == Rebuild(statements)

DeleteStatement(f) == Rebuild(statements \ {f})

\* clearDerived: the files kept and the account survive.
ClearDerived ==
    /\ rows' = {}
    /\ snapshot' = None
    /\ cash' = [start |-> None, end |-> None]
    /\ window' = Unseen
    /\ rebuilt' = FALSE
    /\ UNCHANGED <<now, statements, warned>>

Tick ==
    /\ now < MaxDay
    /\ now' = now + 1
    /\ UNCHANGED <<rows, statements, snapshot, cash, window, warned, rebuilt>>

Init ==
    /\ now = 1
    /\ rows = {}
    /\ statements = {}
    /\ snapshot = None
    /\ cash = [start |-> None, end |-> None]
    /\ window = Unseen
    /\ warned = {}
    /\ rebuilt = TRUE

ImportStep ==
    \/ \E f \in FlexFile : ImportFlex(f)
    \/ \E f \in StatementFile : ImportStatement(f)
    \/ \E day \in 1..MaxDay, events \in SUBSET Executed : SyncAgent(day, events)

RebuildStep == Replay \/ \E f \in statements : DeleteStatement(f)

Next == Tick \/ ImportStep \/ RebuildStep \/ ClearDerived

Spec == Init /\ [][Next]_vars

-----------------------------------------------------------------------------
\* Properties.

Point == {None} \cup [source : RowSource, asOf : Nat]

\* Every table of the account holds only what its schema allows.
TypeOK ==
    /\ now \in Nat
    /\ rows \subseteq [source : RowSource, event : Event]
    /\ statements \subseteq StatementFile
    /\ snapshot \in Point
    /\ cash \in [start : Point, end : Point]
    /\ window \in [first : Nat, last : Nat]
    /\ warned \subseteq {Kind[e] : e \in Event}
    /\ rebuilt \in BOOLEAN

\* No day is written by Flex and by a statement both, whatever the order of the
\* imports, rebuilds and purges: planFlex retires what planStatement left.
FlexStatementDisjoint ==
    \A f \in RowsOf(rows, "flex"), r \in RowsOf(rows, "statement_html") :
        RowDay(f) # RowDay(r)

\* No agent row belongs to the market day of a Flex row: an assignment TWS stamps
\* in the night is kept out, or retired, by the Flex day it belongs to.
FlexAgentDisjoint ==
    \A f \in RowsOf(rows, "flex"), a \in RowsOf(rows, "agent") :
        RowDay(f) # RowMarketDay(a)

\* TWS stamps the execution inside the session the files date it of.
StampsAgree(e) == MarketDayOf(AgentWhen[e]) = FileWhen[e].day

\* An event Flex reports is counted once, whichever sources reported it first: no
\* other source keeps a row of it (planFlex, planStatement, planAgent).
CountedOnce ==
    \A f \in RowsOf(rows, "flex"), r \in rows :
        r.event = f.event /\ (r.source = "agent" => StampsAgree(r.event)) => r = f

\* An event IB reports the day it happens.
OnTime(e) == KnownFrom[e] = FileWhen[e].day

\* Between a rebuild and a purge, what the kept statements report of the days
\* before Flex is in the ledger: no import deletes what it does not lay down.
KeptFilesAreInTheLedger ==
    rebuilt => \A f \in statements : \A e \in StatementEvents(f) :
        OnTime(e) /\ BeforeFlex(rows, FileWhen[e].day)
            => [source |-> "statement_html", event |-> e] \in rows

\* Between a rebuild and a purge, the positions and the cash points are no older
\* than any kept statement says, and the contract's window covers them all.
KeptFilesAreReflected ==
    rebuilt => \A f \in statements :
        /\ f.positions => snapshot # None /\ snapshot.asOf >= f.period.end
        /\ f.cash => /\ cash.end # None /\ cash.end.asOf >= f.period.end
                     /\ cash.start # None /\ cash.start.asOf <= f.period.start
        /\ StatementEvents(f) # {} =>
               window # Unseen /\ window.first <= f.period.start
                               /\ window.last >= f.period.end

\* What a rebuild writes is what the loop over the files ends on, for the files kept, with
\* or without one of them: each day of the statements is as the last file to cover it says.
RebuildIsTheLoop ==
    \A files \in {statements} \cup {statements \ {f} : f \in statements} :
        Replayed(files) =
            [rows   |-> {r \in rows : r.source # "statement_html"} \cup RebuiltRows(files),
             cash   |-> RebuiltCash(files),
             window |-> RebuiltWindow(files)]

\* A row Flex once wrote only leaves the ledger by a purge: one that slid out of
\* the query's window is history Flex vouched for (planFlex).
FlexRowsStay ==
    [][RowsOf(rows, "flex") \subseteq RowsOf(rows', "flex") \/ rows' = {}]_vars

EventsOf(ledger) == {r.event : r \in ledger}

\* The agent row belongs to a night that follows a day older than Flex's window.
NightBefore(r, f) == r.source = "agent" /\ RowMarketDay(r) < f.period.start

Lost == {r \in rows : r.event \notin EventsOf(rows')}

\* No import, of any source, fresh or stale, makes the ledger forget an event IB
\* reported on time, save the executions of the night a Flex window opens in.
ImportLosesNothing ==
    [][\A r \in Lost :
        OnTime(r.event) /\ (r.source = "agent" => StampsAgree(r.event)) =>
            \/ ~ImportStep
            \/ \E f \in FlexFile : NightBefore(r, f) /\ ImportFlex(f)]_vars
=============================================================================
