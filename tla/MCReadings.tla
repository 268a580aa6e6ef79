----------------------------- MODULE MCReadings -----------------------------
(***************************************************************************)
(* What the sources are read for - their rows (Parsers), the names of      *)
(* their contracts (Naming), the ledger they are imported into             *)
(* (AccountLedger) - and what the pages do with it: the filters of a table *)
(* (TableViews), the boxes of the positions (PositionBoxes), the timeline  *)
(* (HistoryTimeline), the cash of the account (CashBalances), the sector   *)
(* table (Sectors), and what the shell hands them of the account on screen *)
(* (AccountShell).  They share no variable; a behaviour is about one of    *)
(* them, the others stay in one fixed initial state.                       *)
(***************************************************************************)
EXTENDS Parsers, Naming, TableViews, PositionBoxes, HistoryTimeline, CashBalances, Sectors,
        AccountShell, AccountLedger

VARIABLE about

\* An option bought, beside its twin, a sale of the stock, or alone.
BoughtOption == [option |-> TRUE, side |-> 1, shares |-> 2, price |-> 3, fee |-> 1]
SoldStock == [option |-> FALSE, side |-> -1, shares |-> 1, price |-> 5, fee |-> 1]
TwoTrades == {<<BoughtOption, BoughtOption>>, <<BoughtOption, SoldStock>>}

\* A table of two accounts: a word of two, several strategies or none, an absent figure.
ThreeColumns ==
    [ticker |-> [type |-> "terms", sortable |-> TRUE],
     strategy |-> [type |-> "enum", sortable |-> FALSE],
     pnl |-> [type |-> "terms", sortable |-> TRUE]]
Line(word, strategies, pnl) == [ticker |-> {word}, strategy |-> strategies, pnl |-> pnl]
TwoTables == [a1 |-> <<Line(2, {"wheel", "leaps"}, {3}), Line(1, {}, {}), Line(2, {"wheel"}, {1})>>,
              a2 |-> <<Line(1, {"leaps"}, {3}), Line(2, {}, {1})>>]
Term(negate, op, low, high, absent) ==
    [negate |-> negate, op |-> op, low |-> low, high |-> high, absent |-> absent]
Terms(ok, alternatives) == [type |-> "terms", ok |-> ok, alternatives |-> alternatives]
Enum(checked) == [type |-> "enum", checked |-> checked]
\* A word; a strategy or none, nothing checked; neither above a period nor absent, unreadable.
SomeCriteria ==
    [ticker |-> {Terms(TRUE, {{Term(FALSE, "=", 2, 2, FALSE)}})},
     strategy |-> {Enum({"wheel", "-"}), Enum({})},
     pnl |-> {Terms(TRUE, {{Term(TRUE, ">", 1, 2, FALSE)}, {Term(FALSE, "=", 0, 0, TRUE)}}), Terms(FALSE, {})}]
\* Two boxes of options and shares, from three snapshots, or empty; more expiries than buttons.
Held(word, until, kind) == [ticker |-> {word}, position |-> {until}, kind |-> {kind}]
FourPortfolios ==
    {[b1 |-> <<Held(1, 1, "call"), Held(2, 2, "put")>>, b2 |-> <<Held(1, 0, "stock"), Held(2, 2, "call")>>],
     [b1 |-> <<Held(2, 3, "put"), Held(1, 4, "put")>>, b2 |-> <<Held(1, 0, "stock")>>],
     [b1 |-> <<>>, b2 |-> <<Held(2, 2, "call"), Held(1, 3, "put")>>], [b1 |-> <<>>, b2 |-> <<>>]}
SomeTyped == [position |-> {Label(1), Label(2)}, kind |-> {Enum({"put"})}]
SomeSearches == {NoSearch, Terms(TRUE, {{Term(FALSE, "=", 1, 1, FALSE)}})}

\* Rows of two currencies and conversions between them, with figures that cannot be read.
CashRow(currency, amount, commission, unread) ==
    [pair |-> FALSE, currency |-> currency, base |-> "", amount |-> amount, quantity |-> 0,
     commission |-> commission, unread |-> unread]
Conversion(unread) ==
    [pair |-> TRUE, currency |-> "USD", base |-> "EUR", amount |-> -6, quantity |-> 4,
     commission |-> -1, unread |-> unread]
CashRows ==
    {CashRow("USD", 5, -1, {}), CashRow("EUR", 7, -2, {"amount"}), CashRow("USD", 12, -1, {"commission"}),
     Conversion({}), Conversion({"quantity"})}
TwoOpenings == [USD |-> 3, EUR |-> 8]

\* A share named by its identity beside one of its options; its position alone.
Seen(secType, says) ==
    [ticker |-> "A", secType |-> secType, says |-> says, dead |-> FALSE, quantity |-> 1]
TwoSources ==
    {[identities |-> <<Seen("STK", "A"), Seen("STK", "n")>>, trades |-> <<Seen("OPT", "")>>, positions |-> <<>>],
     [identities |-> <<>>, trades |-> <<>>, positions |-> <<Seen("STK", "n")>>]}
\* The names of one ticker twice, its scores, a score that cannot be read.
Row(name, score) == [ticker |-> "A", fields |-> [name |-> name, score |-> score]]
ThreeFiles ==
    {[columns |-> {"name"}, rows |-> <<Row("n", ""), Row("", "")>>],
     [columns |-> {"score"}, rows |-> <<Row("", "n")>>],
     [columns |-> {"score"}, rows |-> <<Row("", "?")>>]}

\* One week of the ledger of an account: day 1 is a Thursday and day 3 a Saturday, so a
\* night, a weekend and the Monday after it are all inside.
OnDay(d) == [day |-> d, night |-> FALSE]
InNight(d) == [day |-> d, night |-> TRUE]

\* The assignments of a Thursday and of a Friday expiry, which TWS stamps in the
\* night that follows; a dividend of Thursday, stamped midnight, that IB corrects
\* on Monday; a Monday trade.
MCEvent == {"early", "assign", "adjust", "fill"}
MCExecuted == {"early", "assign", "fill"}
MCFileWhen == [early |-> OnDay(1), assign |-> OnDay(2), adjust |-> InNight(1), fill |-> OnDay(5)]
MCAgentWhen == [early |-> InNight(2), assign |-> InNight(3), adjust |-> OnDay(1), fill |-> OnDay(5)]
MCKnownFrom == [early |-> 1, assign |-> 2, adjust |-> 5, fill |-> 5]
MCKind == [early |-> "trade", assign |-> "trade", adjust |-> "dividend", fill |-> "trade"]
MCSundayIs == 3

Download(s, e, t, pos, c) == [period |-> [start |-> s, end |-> e], taken |-> t,
                              positions |-> pos, cash |-> c]

\* Two sliding windows and the window of a query that opens on the Saturday.
MCFlexFile == {Download(1, 2, 3, TRUE, TRUE), Download(2, 5, 6, TRUE, TRUE),
               Download(3, 5, 6, FALSE, TRUE)}

\* A short statement in two downloads, before and after the correction, a longer
\* one made before it with neither positions nor cash, a long one made after it,
\* and one of the last day.
MCStatementFile == {Download(1, 2, 3, TRUE, TRUE), Download(1, 2, 6, FALSE, TRUE),
                    Download(1, 5, 6, TRUE, TRUE), Download(1, 4, 5, FALSE, FALSE),
                    Download(5, 5, 6, TRUE, TRUE)}

MCInit ==
    /\ about \in {"rows", "names", "filters", "boxes", "timeline", "cash", "sectors", "shell", "ledger"}
    /\ ParsersInit /\ (about # "rows" => Len(sources.flex.Trades) = 2 /\ sources.flex.Trades[2].price = Num(3))
    /\ NamingInit /\ (about # "names" => expiry = 2 /\ wears[2] = Unlisted)
    /\ ViewsInit /\ (about # "filters" => route = "a1")
    /\ BoxesInit /\ (about # "boxes" => boxLines["b2"] = <<>>)
    /\ TimelineInit /\ CashInit
    /\ SectorsInit /\ (about # "sectors" => cell.field = "name")
    /\ ShellInit /\ Init

\* The readings of files, of the pages, and of the account.
fileVars == <<parsersVars, namingVars, vars>>
pageVars == <<viewVars, boxVars, timelineVars, sectorVars>>
accountVars == <<cashVars, shellVars>>

MCNext ==
    \/ about = "rows" /\ ParsersNext /\ UNCHANGED <<about, namingVars, vars, pageVars, accountVars>>
    \/ about = "names" /\ NamingNext /\ UNCHANGED <<about, parsersVars, vars, pageVars, accountVars>>
    \/ about = "ledger" /\ Next /\ UNCHANGED <<about, parsersVars, namingVars, pageVars, accountVars>>
    \/ about = "filters" /\ ViewsNext
       /\ UNCHANGED <<about, fileVars, boxVars, timelineVars, sectorVars, accountVars>>
    \/ about = "boxes" /\ BoxesNext
       /\ UNCHANGED <<about, fileVars, viewVars, timelineVars, sectorVars, accountVars>>
    \/ about = "timeline" /\ TimelineNext
       /\ UNCHANGED <<about, fileVars, viewVars, boxVars, sectorVars, accountVars>>
    \/ about = "sectors" /\ SectorsNext
       /\ UNCHANGED <<about, fileVars, viewVars, boxVars, timelineVars, accountVars>>
    \/ about = "cash" /\ CashNext /\ UNCHANGED <<about, fileVars, pageVars, shellVars>>
    \/ about = "shell" /\ ShellNext /\ UNCHANGED <<about, fileVars, pageVars, cashVars>>

MCSpec == MCInit /\ [][MCNext]_<<about, fileVars, pageVars, accountVars>>
=============================================================================
