------------------------------ MODULE Parsers ------------------------------
(***************************************************************************)
(* packages/ib-parsers: what is kept of a Flex response (flex.ts), of an   *)
(* activity statement (statement.ts) and of the agent's snapshot           *)
(* (agent.ts), when some of their cells are missing or unreadable.  A      *)
(* value the parser cannot read cancels the whole source; some are only    *)
(* worth a warning, and cost a row, a currency or the snapshot.            *)
(*                                                                         *)
(* The same trades are in the three sources, each under its own            *)
(* conventions.  A cell is what parseNumber and the dates tell apart; the  *)
(* other columns are read as they are.                                     *)
(***************************************************************************)
EXTENDS Integers, Sequences, FiniteSets

CONSTANTS
    Trades,         \* the trades a history may be made of: sequences of Execution
    MaxFlaws        \* bound: cells that are not what they should be

Execution == [option : BOOLEAN, side : {1, -1}, shares : Nat, price : Nat, fee : Nat]

ASSUME ParsersAssumption == Trades \subseteq Seq(Execution) /\ MaxFlaws \in Nat

VARIABLES
    sources,        \* what each source has written
    flaws,          \* how many cells were spoiled
    results         \* what the parsers called so far returned

parsersVars == <<sources, flaws, results>>

Source == {"flex", "statement", "agent"}

\* A cell, as its text reads; a number has a value.
Num(n) == [text |-> "number", n |-> n]
Flaw == [text : {"absent", "blank", "bad"}, n : {0}]
Fine == Num(0)
IsMissing(cell) == cell.text \in {"absent", "blank"}

\* What an error leaves: nothing of the source is written.
Cancelled == [error |-> TRUE, transactions |-> {}, snapshot |-> {}, balances |-> {}, warned |-> {}]

OptionMultiplier == 10
MultiplierOf(trade) == IF trade.option THEN OptionMultiplier ELSE 1

-----------------------------------------------------------------------------
(* External: the sources.  Sections are sequences of rows, a row a function *)
(* of its columns.                                                          *)

Rows(trades, row(_, _)) == [i \in DOMAIN trades |-> row(i, trades[i])]

FlexTrade(i, t) ==
    [id |-> Num(i), quantity |-> Num(t.side * t.shares), price |-> Num(t.price),
     proceeds |-> Num(-t.side * t.shares * t.price * MultiplierOf(t)),
     commission |-> Num(-t.fee), date |-> Fine]

FlexResponse(trades) ==
    [Header |-> <<[generated |-> Fine, fromDate |-> Fine, toDate |-> Fine]>>,
     Trades |-> Rows(trades, FlexTrade),
     Cash |-> <<[id |-> Num(1), amount |-> Num(1), date |-> Fine]>>,
     Actions |-> <<[id |-> Num(1), quantity |-> Num(1), proceeds |-> Num(1), pnl |-> Num(1), date |-> Fine]>>,
     Positions |-> <<[quantity |-> Num(1), figure |-> Fine, date |-> Fine],
                     [quantity |-> Num(2), figure |-> Fine, date |-> Fine]>>,
     CashReport |-> <<[starting |-> Num(1), ending |-> Num(2)], [starting |-> Num(1), ending |-> Num(2)]>>]

\* A row of a statement has as many cells as its header has columns.  It lists no
\* identifier; the option's contract is in its symbol.
StatementTrade(i, t) ==
    [cells |-> Fine, secType |-> Num(IF t.option THEN 1 ELSE 0), symbol |-> Fine, quantity |-> Num(t.side * t.shares),
     price |-> Num(t.price), proceeds |-> Num(-t.side * t.shares * t.price * MultiplierOf(t)),
     commission |-> Num(-t.fee), date |-> Fine]

ActivityStatement(trades) ==
    [Header |-> <<[period |-> Fine]>>,
     Trades |-> Rows(trades, StatementTrade),
     Cash |-> <<[cells |-> Fine, amount |-> Num(1), date |-> Fine]>>,
     Actions |-> <<[cells |-> Fine, quantity |-> Num(1), amount |-> Num(1), pnl |-> Num(1), date |-> Fine]>>,
     Positions |-> <<[cells |-> Fine, quantity |-> Num(1), figure |-> Fine],
                     [cells |-> Fine, quantity |-> Num(2), figure |-> Fine]>>,
     \* One row per point: the starting and the ending cash of each currency.
     CashReport |-> [point \in 1..4 |-> [cells |-> Fine, total |-> Num(point)]]]

\* TWS signs nothing: a side and a number of shares, a positive commission.
AgentTrade(i, t) ==
    [id |-> Num(i), side |-> Num(t.side), shares |-> Num(t.shares), price |-> Num(t.price),
     secType |-> Num(IF t.option THEN 1 ELSE 0),
     multiplier |-> IF t.option THEN Num(OptionMultiplier) ELSE [text |-> "blank", n |-> 0],
     commission |-> Num(t.fee), date |-> Fine]

AgentPayload(trades) ==
    [Header |-> <<[fetchedAt |-> Fine]>>,
     Trades |-> Rows(trades, AgentTrade),
     Positions |-> <<[secType |-> Num(1), quantity |-> Num(1), figure |-> Num(OptionMultiplier),
                      multiplier |-> Num(OptionMultiplier)],
                     [secType |-> Num(0), quantity |-> Num(2), figure |-> Num(1),
                      multiplier |-> [text |-> "blank", n |-> 0]]>>]

ParsersInit ==
    /\ \E trades \in Trades :
          sources = [flex |-> FlexResponse(trades), statement |-> ActivityStatement(trades),
                     agent |-> AgentPayload(trades)]
    /\ flaws = 0
    /\ results = [s \in {} |-> Cancelled]

Spoil(s, section) ==
    /\ flaws < MaxFlaws /\ s \notin DOMAIN results
    /\ flaws' = flaws + 1
    /\ \E i \in DOMAIN sources[s][section] :
       \E column \in DOMAIN sources[s][section][i] \ {"secType"}, flaw \in Flaw :
          /\ column = "id" => IsMissing(flaw)
          /\ sources' = [sources EXCEPT ![s][section][i][column] = flaw]
    /\ UNCHANGED results

\* A section the query, or the period, does not have.
Without(s, section) ==
    /\ flaws < MaxFlaws /\ s \notin DOMAIN results
    /\ flaws' = flaws + 1
    /\ sources' = [sources EXCEPT ![s][section] = <<>>]
    /\ UNCHANGED results

-----------------------------------------------------------------------------
(* common.ts.                                                              *)

\* parseNumber: unknown is never zero.
ParseNumber(cell) == IF cell.text = "number" THEN {cell.n} ELSE {}
NumberThrows(cell) == cell.text = "bad"

\* A day may be blank (flexDateToIsoDay), an instant may not.
DayThrows(cell) == cell.text = "bad"
InstantThrows(cell) == cell.text # "number"

Wide(row) == row.cells.text = "number"

AnyThrows(row, columns) == \E column \in columns : NumberThrows(row[column])
SomeRow(rows, throws(_)) == \E i \in DOMAIN rows : throws(rows[i])

\* What a parser returns: the transactions by their key, the positions of the snapshot,
\* the currencies with both points, and the sections it warned about.
Result(transactions, snapshot, balances, warned) ==
    [error |-> FALSE, transactions |-> transactions, snapshot |-> snapshot,
     balances |-> balances, warned |-> warned]

Transaction(section, key, quantity, amount, commission) ==
    [section |-> section, key |-> key, quantity |-> quantity, amount |-> amount, commission |-> commission]

\* A column absent from every row was left out of the query, or renamed.
ColumnMissing(rows, columns) ==
    rows # <<>> /\ \E column \in columns : \A i \in DOMAIN rows : rows[i][column].text = "absent"

Warned(section, condition) == IF condition THEN {section} ELSE {}

-----------------------------------------------------------------------------
(* flex.ts.                                                                *)

FlexTradeThrows(row) ==
    IsMissing(row.id) \/ AnyThrows(row, {"quantity", "price", "proceeds", "commission"}) \/ InstantThrows(row.date)
FlexCashThrows(row) == IsMissing(row.id) \/ NumberThrows(row.amount) \/ InstantThrows(row.date)
FlexActionThrows(row) ==
    IsMissing(row.id) \/ AnyThrows(row, {"quantity", "proceeds", "pnl"}) \/ InstantThrows(row.date)

FlexTransactions(flex) ==
    {Transaction("Trades", row.id.n, ParseNumber(row.quantity), ParseNumber(row.proceeds),
                 ParseNumber(row.commission)) : row \in {flex.Trades[i] : i \in DOMAIN flex.Trades}}
    \cup {Transaction("Cash", row.id.n, {}, ParseNumber(row.amount), {}) :
             row \in {flex.Cash[i] : i \in DOMAIN flex.Cash}}
    \cup {Transaction("Actions", row.id.n, ParseNumber(row.quantity), ParseNumber(row.proceeds), {}) :
             row \in {flex.Actions[i] : i \in DOMAIN flex.Actions}}

\* parseOpenPosition: a position without its quantity is unreadable too.
PositionThrows(row) == AnyThrows(row, {"quantity", "figure"}) \/ IsMissing(row.quantity)

\* One unreadable row drops the snapshot.
WholeSnapshot(rows, throws(_)) == IF SomeRow(rows, throws) THEN {} ELSE DOMAIN rows

ParseSnapshot(flex) == WholeSnapshot(flex.Positions, PositionThrows)

\* parseSnapshot: what comes after its own try reaches the file's.
SnapshotThrows(flex) ==
    /\ flex.Positions # <<>> /\ ~SomeRow(flex.Positions, PositionThrows)
    /\ \/ DayThrows(flex.Positions[1].date)
       \/ flex.CashReport # <<>> /\ NumberThrows(flex.CashReport[1].ending)

\* parseCashPoints: a currency keeps both of its points, or none.
PointsKept(row) == row.starting.text = "number" /\ row.ending.text = "number"

FlexBalances(flex) ==
    IF IsMissing(flex.Header[1].fromDate) \/ IsMissing(flex.Header[1].toDate) THEN {}
    ELSE {i \in DOMAIN flex.CashReport : PointsKept(flex.CashReport[i])}

FlexThrows(flex) ==
    \/ InstantThrows(flex.Header[1].generated)
    \/ DayThrows(flex.Header[1].fromDate) \/ DayThrows(flex.Header[1].toDate)
    \/ SomeRow(flex.Trades, FlexTradeThrows) \/ SomeRow(flex.Cash, FlexCashThrows)
    \/ SomeRow(flex.Actions, FlexActionThrows) \/ SnapshotThrows(flex)

FlexWarned(flex) ==
    Warned("Header", IsMissing(flex.Header[1].fromDate) \/ IsMissing(flex.Header[1].toDate))
    \cup Warned("Trades", flex.Trades = <<>> \/ ColumnMissing(flex.Trades, {"price", "proceeds", "commission"}))
    \cup Warned("Cash", flex.Cash = <<>>)
    \cup Warned("Positions", \/ flex.Positions = <<>> \/ SomeRow(flex.Positions, PositionThrows)
                             \/ ColumnMissing(flex.Positions, {"quantity", "figure"}))
    \cup Warned("CashReport",
            \/ flex.CashReport = <<>>
            \/ /\ Warned("Header", IsMissing(flex.Header[1].fromDate) \/ IsMissing(flex.Header[1].toDate)) = {}
               /\ FlexBalances(flex) # DOMAIN flex.CashReport)

ParseFlexXml(flex) ==
    IF FlexThrows(flex) THEN Cancelled
    ELSE Result(FlexTransactions(flex), ParseSnapshot(flex), FlexBalances(flex), FlexWarned(flex))

-----------------------------------------------------------------------------
(* statement.ts.                                                           *)

\* readSection: a row with another number of cells is skipped with a warning, or refused
\* where the section is required; a blank one is the border of a table.
ReadSection(rows) == [i \in {j \in DOMAIN rows : Wide(rows[j])} |-> rows[i]]
Skipped(rows) == \E i \in DOMAIN rows : ~Wide(rows[i])

StatementTradeThrows(row) ==
    \/ ~Wide(row) \/ AnyThrows(row, {"quantity", "price", "proceeds", "commission"})
    \/ InstantThrows(row.date)
StatementCashThrows(row) == Wide(row) /\ (NumberThrows(row.amount) \/ InstantThrows(row.date))
StatementActionThrows(row) ==
    Wide(row) /\ (AnyThrows(row, {"quantity", "amount", "pnl"}) \/ InstantThrows(row.date))
StatementPositionThrows(row) == ~Wide(row) \/ PositionThrows(row)

\* statementExternalId: a statement has no identifier, its key is a hash of the content.
ContentOf(row, figures) == [figure \in figures |-> ParseNumber(row[figure])]

\* Mutant: identical rows are one.
SuffixNoTwin(contents) == [i \in DOMAIN contents |-> <<contents[i], 1>>]

\* suffixTwins: identical rows are as many transactions.
SuffixTwins(contents) ==
    [i \in DOMAIN contents |->
        <<contents[i], Cardinality({j \in DOMAIN contents : j <= i /\ contents[j] = contents[i]})>>]

TradeFigures == {"secType", "symbol", "quantity", "price", "proceeds"}

StatementTransactions(statement) ==
    LET cash == ReadSection(statement.Cash)
        actions == ReadSection(statement.Actions)
        trades == statement.Trades
        keys == SuffixTwins([i \in DOMAIN trades |-> ContentOf(trades[i], TradeFigures)])
        cashKeys == SuffixTwins([i \in DOMAIN cash |-> ContentOf(cash[i], {"amount"})])
        actionKeys == SuffixTwins([i \in DOMAIN actions |-> ContentOf(actions[i], {"quantity", "amount"})])
    IN  {Transaction("Trades", keys[i], ParseNumber(trades[i].quantity), ParseNumber(trades[i].proceeds),
                     ParseNumber(trades[i].commission)) : i \in DOMAIN trades}
        \cup {Transaction("Cash", cashKeys[i], {}, ParseNumber(cash[i].amount), {}) : i \in DOMAIN cash}
        \cup {Transaction("Actions", actionKeys[i], ParseNumber(actions[i].quantity), ParseNumber(actions[i].amount), {}) :
                 i \in DOMAIN actions}

\* The two rows of a currency.
PointsOf(currency) == {2 * currency - 1, 2 * currency}

StatementBalances(statement) ==
    {currency \in 1..2 : \A point \in PointsOf(currency) :
        /\ point \in DOMAIN statement.CashReport
        /\ Wide(statement.CashReport[point]) /\ statement.CashReport[point].total.text = "number"}

StatementThrows(statement) ==
    \/ statement.Header[1].period.text # "number"
    \/ SomeRow(statement.Trades, StatementTradeThrows) \/ SomeRow(statement.Cash, StatementCashThrows)
    \/ SomeRow(statement.Actions, StatementActionThrows)

StatementWarned(statement) ==
    Warned("Trades", \/ statement.Trades = <<>>
                     \/ \E i \in DOMAIN statement.Trades : statement.Trades[i].secType.n = 1 /\ statement.Trades[i].symbol.text # "number"
                     \/ ColumnMissing(statement.Trades, (TradeFigures \ {"secType"}) \cup {"commission"}))
    \cup Warned("Cash", Skipped(statement.Cash)) \cup Warned("Actions", Skipped(statement.Actions))
    \cup Warned("Positions", \/ statement.Positions = <<>>
                             \/ SomeRow(statement.Positions, StatementPositionThrows)
                             \/ ColumnMissing(statement.Positions, {"quantity", "figure"}))
    \cup Warned("CashReport", statement.CashReport # <<>> /\ StatementBalances(statement) # 1..2)

ParseOpenPositions(statement) == WholeSnapshot(statement.Positions, StatementPositionThrows)

ParseActivityStatement(statement) ==
    IF StatementThrows(statement) THEN Cancelled
    ELSE Result(StatementTransactions(statement), ParseOpenPositions(statement),
                StatementBalances(statement), StatementWarned(statement))

-----------------------------------------------------------------------------
(* agent.ts.                                                               *)

\* JSON has its types: a blank is not a number, and null is one only where it is allowed.
AgentTradeThrows(row) ==
    \/ \E column \in {"id", "side", "shares", "price", "date"} : row[column].text # "number"
    \/ row.multiplier.text \in {"absent", "bad"} \/ NumberThrows(row.commission)

AgentPositionThrows(row) ==
    row.quantity.text # "number" \/ row.figure.text # "number" \/ row.multiplier.text \in {"absent", "bad"}

\* Mutant: an option without its multiplier counts for one.
MultiplierOrOne(row) == IF row.multiplier.text = "number" THEN {row.multiplier.n} ELSE {1}

\* optionMultiplier: never a silent fallback to 1.
MultiplierRead(row) == IF row.secType.n = 1 THEN ParseNumber(row.multiplier) ELSE {1}

\* readExecution, gross proceeds and signs as Flex gives them.
ReadExecution(row) ==
    LET quantity == row.side.n * row.shares.n IN
    Transaction("Trades", row.id.n, {quantity},
                {-quantity * row.price.n * multiplier : multiplier \in MultiplierRead(row)},
                {-fee : fee \in ParseNumber(row.commission)})

ParseAgentSnapshot(payload) ==
    IF \/ payload.Header[1].fetchedAt.text # "number"
       \/ SomeRow(payload.Trades, AgentTradeThrows) \/ SomeRow(payload.Positions, AgentPositionThrows)
    THEN Cancelled
    ELSE Result({ReadExecution(payload.Trades[i]) : i \in DOMAIN payload.Trades}, DOMAIN payload.Positions, {},
                UNION {Warned(section, \E i \in DOMAIN payload[section] :
                                 MultiplierRead(payload[section][i]) = {}) : section \in {"Trades", "Positions"}})

-----------------------------------------------------------------------------
Read(s) ==
    /\ s \notin DOMAIN results
    /\ LET read == CASE s = "flex" -> ParseFlexXml(sources[s])
                     [] s = "statement" -> ParseActivityStatement(sources[s])
                     [] OTHER -> ParseAgentSnapshot(sources[s])
       IN  results' = [t \in DOMAIN results \cup {s} |-> IF t = s THEN read ELSE results[t]]
    /\ UNCHANGED <<sources, flaws>>

ParsersNext ==
    \E s \in Source :
        \/ Read(s)
        \/ \E section \in DOMAIN sources[s] : Spoil(s, section)
        \/ \E section \in DOMAIN sources[s] \ {"Header"} : Without(s, section)

ParsersSpec == ParsersInit /\ [][ParsersNext]_parsersVars

-----------------------------------------------------------------------------
History == {"Trades", "Cash", "Actions"}
Written(s, section) == {t \in results[s].transactions : t.section = section}

\* Whatever is missing or unreadable, a source is refused whole, or all of it is written
\* but what a warning names: no row of the history is lost, nor two alike taken for one; a
\* snapshot never lacks a position; a currency never has one point only.
WholeOrAnnounced ==
    \A s \in DOMAIN results :
        LET read == results[s]
            source == sources[s]
        IN  \/ read = Cancelled
            \/ /\ \A section \in History \cap DOMAIN source :
                     \/ Cardinality(Written(s, section)) = Len(source[section])
                     \/ section \in read.warned
               /\ \/ read.snapshot = DOMAIN source.Positions
                  \/ read.snapshot = {} /\ "Positions" \in read.warned
               /\ s # "agent" => \/ read.balances = {1, 2} \/ source.CashReport = <<>>
                                 \/ read.warned \cap {"Header", "CashReport"} # {}

\* Two figures agree when they are the same, or one of them is not known.
Agree(known, other) == known = other \/ known = {} \/ other = {}

Matches(t, u) == /\ Agree(t.quantity, u.quantity) /\ Agree(t.amount, u.amount)
                 /\ Agree(t.commission, u.commission)

\* The three sources tell the same of a trade, sign and size, though each has conventions
\* of its own and may lack a figure: what one does not know, it leaves unknown.
SourcesAgree ==
    \A s, t \in DOMAIN results :
        results[t] # Cancelled /\ sources[t].Trades # <<>> =>
            \A trade \in Written(s, "Trades") : \E other \in Written(t, "Trades") : Matches(trade, other)

\* What flex.ts says of Open Positions and of the Cash Report: an unreadable value of
\* theirs never costs the file its history.
HistoryIsSpared ==
    \A s \in DOMAIN results \ {"agent"} :
        results[s] = Cancelled =>
            \E section \in DOMAIN sources[s] \ {"Positions", "CashReport"} :
                \E i \in DOMAIN sources[s][section] : \E column \in DOMAIN sources[s][section][i] :
                    sources[s][section][i][column].text # "number"
=============================================================================
