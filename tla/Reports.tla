-------------------------------- MODULE Reports --------------------------------
(***************************************************************************)
(* What is read from the journals once the ledger is replayed: the rows    *)
(* still open and the condors' composite rows, the monthly statistics, the *)
(* capital tied up, what a day realized, the Wheel's holdings and the      *)
(* levels of a chart.  All are functions of the rows; none keeps state.    *)
(*                                                                         *)
(* Commissions are left out, so a row's net is its total; a figure is      *)
(* always known, so no row is incomplete.                                  *)
(***************************************************************************)
EXTENDS Journals

CONSTANT MonthLength            \* instants of a month

ASSUME MonthAssumption ==
    MonthLength \in Nat \ {0} /\ MonthLength % DayLength = 0

StillOpen == [when |-> 0, amount |-> 0, ids |-> {}, event |-> "open"]
IsOpenRow(row) == row.endWhen = 0
CondorContract(ticker, expiry) == Option(ticker, "IC", 0, expiry)

KindOf(row) ==
    CASE row.contract.right = "IC" -> "condor"
      [] row.contract.right = "cash" -> "settlement"
      [] IsStock(row.contract) -> IF row.quantity > 0 THEN "shares" ELSE "short_shares"
      [] row.contract.right = "C" -> IF row.quantity > 0 THEN "long_call" ELSE "short_call"
      [] row.contract.right = "P" -> IF row.quantity > 0 THEN "long_put" ELSE "short_put"

SumOf(seq, value(_)) == FoldLeft(LAMBDA n, x : n + value(x), 0, seq)

(***************************************************************************)
(* The rows of the report                                                  *)
(***************************************************************************)
\* The four leg rows of a group of condor units, each with its part of its exit.
LegRows(c, p, group) ==
    LET leg(k) == CHOOSE lot \in ToSet(c.book) :
                    lot.parent = p /\ lot.contract = c.composites[p].legs[k]
        exit(k) == LET entry == c.exitLog[group.exits[k]]
                   IN  IF group.exits[k] = 0 THEN StillOpen
                       ELSE [entry.exit EXCEPT !.amount = Share(@, group.units, entry.quantity)]
    IN  [k \in 1 .. 4 |-> BuildRow(leg(k), group.units, exit(k))]

\* The composite row: what its legs opened and, once all are out, closed for.
CompositeRow(legs, group) ==
    [strategy |-> "condors",
     contract |-> CondorContract(legs[2].contract.ticker, legs[2].contract.expiry),
     quantity |-> -group.units, openPrice |-> 0,
     openTotal |-> SumOf(legs, LAMBDA r : r.openTotal),
     closeTotal |-> IF group.event = "open" THEN 0 ELSE SumOf(legs, LAMBDA r : r.closeTotal),
     event |-> group.event, startWhen |-> legs[2].startWhen,
     endWhen |-> IF group.event = "open" THEN 0 ELSE Max({legs[k].endWhen : k \in 1 .. 4}),
     openIds |-> UNION {legs[k].openIds : k \in 1 .. 4},
     closeIds |-> IF group.event = "open" THEN {} ELSE UNION {legs[k].closeIds : k \in 1 .. 4},
     orphan |-> FALSE, legs |-> legs]

SettlementRow(x) ==
    [strategy |-> "others", contract |-> [x.contract EXCEPT !.right = "cash"], quantity |-> 0,
     openPrice |-> 0, openTotal |-> x.amount, closeTotal |-> 0, event |-> "settlement",
     startWhen |-> x.when, endWhen |-> x.when, openIds |-> {<<x.when, "trade">>}, closeIds |-> {},
     orphan |-> TRUE]

\* The elements of a set, in some order.
Listed(S) == FoldSet(LAMBDA x, seq : Append(seq, x), <<>>, S)

\* finalize: what closed, what is open, the condors, the cash nothing claimed.
AllRows(c) ==
    LET open == SelectSeq(c.book, LAMBDA lot : IsOpen(lot) /\ lot.parent = 0)
        groups == Listed(UNION {{p} \X CondorRows(c, p) : p \in DOMAIN c.composites})
    IN  c.rows
        \o [k \in DOMAIN open |-> BuildRow(open[k], Mag(open[k].remaining), StillOpen)]
        \o [k \in DOMAIN groups |->
                CompositeRow(LegRows(c, groups[k][1], groups[k][2]), groups[k][2])]
        \o [k \in DOMAIN c.settlements |-> SettlementRow(c.settlements[k])]

\* A condor is read on its legs.
Flatten(rows) ==
    FlattenSeq([k \in DOMAIN rows |->
                    IF KindOf(rows[k]) = "condor" THEN rows[k].legs ELSE <<rows[k]>>])

(***************************************************************************)
(* Statistics                                                              *)
(***************************************************************************)
DayOf(when) == when \div DayLength
MonthOf(when) == when \div MonthLength

Pnl(row) == row.openTotal + row.closeTotal

\* Mutant of Contribution: everything belongs to the month a line opened in.
ContributionAtOpen(row, month) ==
    IF MonthOf(row.startWhen) = month THEN Pnl(row) ELSE 0

\* What a row brings to a month: shares and bought options only once out, as a
\* whole; a sold option and a condor at each of their two ends.
Contribution(row, month) ==
    LET closesThen == ~IsOpenRow(row) /\ MonthOf(row.endWhen) = month
    IN  IF KindOf(row) \in {"shares", "short_shares", "long_call", "long_put"}
        THEN IF closesThen THEN Pnl(row) ELSE 0
        ELSE (IF MonthOf(row.startWhen) = month THEN row.openTotal ELSE 0)
                + (IF closesThen THEN row.closeTotal ELSE 0)

MonthlyPnl(rows, strategy, month) ==
    SumOf(SelectSeq(rows, LAMBDA r : r.strategy = strategy), LAMBDA r : Contribution(r, month))

\* Every strategy, whatever closed the line; a condor once, with its last leg.
RealizedOnDay(rows, day) ==
    SumOf(SelectSeq(rows, LAMBDA r : ~IsOpenRow(r) /\ DayOf(r.endWhen) = day), Pnl)

(***************************************************************************)
(* Capital                                                                 *)
(***************************************************************************)
WorstWing(row) ==
    LET strike(k) == row.legs[k].contract.strike
    IN  Most(strike(2) - strike(1), strike(4) - strike(3))

\* What a line ties up, at the price it entered its strategy at.
TiedUp(row) ==
    LET kind == <<row.strategy, KindOf(row)>>
    IN  CASE kind = <<"wheel", "short_put">> -> row.contract.strike * PerContract * Mag(row.quantity)
          [] kind \in {<<"wheel", "shares">>, <<"leaps", "shares">>} -> row.openPrice * row.quantity
          [] kind = <<"leaps", "long_call">> -> row.openPrice * PerContract * row.quantity
          [] kind = <<"condors", "condor">> -> WorstWing(row) * PerContract * Mag(row.quantity)
          [] OTHER -> 0

OpenAt(row, instant) == row.startWhen < instant /\ (IsOpenRow(row) \/ row.endWhen >= instant)
HoldingAt(row, instant) == row.startWhen <= instant /\ (IsOpenRow(row) \/ row.endWhen > instant)

TiedUpBy(rows, strategy, Holds(_)) ==
    SumOf(SelectSeq(rows, LAMBDA r : r.strategy = strategy /\ Holds(r)), TiedUp)

\* The money of a strategy at the end of a month.
Allocated(rows, strategy, month) ==
    TiedUpBy(rows, strategy, LAMBDA r : OpenAt(r, (month + 1) * MonthLength))

\* The most money tied up at once during a month: at its first instant or when a
\* line opens.
PeakDuring(rows, strategy, month) ==
    LET first == month * MonthLength
        opens == {rows[k].startWhen : k \in DOMAIN rows} \cap (first + 1) .. first + MonthLength - 1
    IN  Max({TiedUpBy(rows, strategy, LAMBDA r : HoldingAt(r, at)) : at \in opens \cup {first}})

(***************************************************************************)
(* Holdings of the Wheel, levels of its chart                              *)
(***************************************************************************)
WheelRows(rows, ticker, kind) ==
    SelectSeq(rows, LAMBDA r : /\ IsOpenRow(r) /\ r.strategy = "wheel"
                               /\ r.contract.ticker = ticker /\ KindOf(r) = kind)

WheelHolding(rows, ticker) ==
    LET shares == SumOf(WheelRows(rows, ticker, "shares"), LAMBDA r : r.quantity)
        calls == SumOf(WheelRows(rows, ticker, "short_call"), LAMBDA r : Mag(r.quantity))
    IN  [quantity |-> shares,
         assignedTotal |-> SumOf(WheelRows(rows, ticker, "shares"), LAMBDA r : r.openPrice * r.quantity),
         openCallContracts |-> calls, coveredShares |-> Least(shares, calls * PerContract)]

\* The lots of the Wheel, merged by the price they entered it at.
SharesLevels(rows, ticker) ==
    LET held == WheelRows(rows, ticker, "shares")
    IN  {[price |-> p,
          quantity |-> SumOf(SelectSeq(held, LAMBDA r : r.openPrice = p), LAMBDA r : r.quantity)] :
            p \in {held[k].openPrice : k \in DOMAIN held}}

\* The options sold, merged by strike.
OptionLevels(rows, ticker, kind) ==
    LET sold == SelectSeq(rows, LAMBDA r : /\ IsOpenRow(r) /\ r.contract.ticker = ticker
                                           /\ KindOf(r) = kind)
    IN  {[price |-> s,
          quantity |-> SumOf(SelectSeq(sold, LAMBDA r : r.contract.strike = s), LAMBDA r : r.quantity),
          expiries |-> {sold[k].contract.expiry : k \in {j \in DOMAIN sold : sold[j].contract.strike = s}}] :
            s \in {sold[k].contract.strike : k \in DOMAIN sold}}

\* A LEAPS bought is a level of its day; a condor, one from its opening to its expiry.
LeapsBuyLevels(rows, ticker) ==
    LET bought == SelectSeq(rows, LAMBDA r : /\ IsOpenRow(r) /\ r.strategy = "leaps"
                                             /\ r.contract.ticker = ticker /\ KindOf(r) = "long_call")
    IN  [k \in DOMAIN bought |-> [when |-> DayOf(bought[k].startWhen), quantity |-> bought[k].quantity]]

CondorLevels(rows, ticker) ==
    LET open == SelectSeq(rows, LAMBDA r : /\ IsOpenRow(r) /\ KindOf(r) = "condor"
                                           /\ r.contract.ticker = ticker)
        strike(r, k) == r.legs[k].contract.strike
    IN  [k \in DOMAIN open |->
            [from |-> DayOf(open[k].startWhen), to |-> open[k].contract.expiry,
             putStrikes |-> {strike(open[k], 1), strike(open[k], 2)},
             callStrikes |-> {strike(open[k], 3), strike(open[k], 4)},
             quantity |-> open[k].quantity]]

\* Mutant of StrategiesOf: a condor is read whole, not on its legs.
StrategiesOfLines(rows, when) ==
    {r.strategy : r \in {x \in ToSet(rows) :
        \/ \E id \in x.openIds : id \in {<<when, "trade">>, <<when, "delivery">>}
        \/ x.event # "integrated" /\ when \in x.closeIds}}

\* The strategies a transaction served: those of the rows it opened or closed,
\* but a takeover's close, which is the covered call's operation.
StrategiesOf(rows, when) ==
    {r.strategy : r \in {x \in ToSet(rows) \cup ToSet(Flatten(rows)) :
        \/ \E id \in x.openIds : id \in {<<when, "trade">>, <<when, "delivery">>}
        \/ x.event # "integrated" /\ when \in x.closeIds}}
================================================================================
