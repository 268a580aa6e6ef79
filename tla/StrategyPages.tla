------------------------------ MODULE StrategyPages ------------------------------
(***************************************************************************)
(* The positions pages of the strategies, computed from the journals and   *)
(* from the coverage of the broker's positions: each strategy's line of a  *)
(* contract, what leaves a strategy for the page Others because nothing of *)
(* its own covers it, the boxes that cut a line in a free and a covered    *)
(* part, the condors with the legs the broker sees naked.                  *)
(*                                                                         *)
(* The snapshot holds what the ledger says is held: its positions are the  *)
(* book's, priced at one of the quotes.  Values and the share of the day's *)
(* move are left out.                                                      *)
(***************************************************************************)
EXTENDS Buybacks, Coverage

CONSTANTS Quote,        \* prices an option may be read at, in hundredths
          ReadAt        \* instants a snapshot may be taken at

ASSUME QuoteAssumption == Quote \subseteq Nat /\ ReadAt \subseteq Nat

Strategies == {"wheel", "leaps", "condors", "others"}
CoveredStrategies == <<"wheel", "leaps", "condors">>

Portfolio(book) ==
    LET held == {c \in {lot.contract : lot \in ToSet(book)} : Position(book, c) # 0}
    IN  [c \in held |-> Position(book, c)]

OwnCoverSources(strategy) ==
    CASE strategy = "wheel" -> {"cash", "stock"} [] strategy = "leaps" -> {"leaps"}
      [] strategy = "condors" -> {"spread"}

\* Others owns the covers of the strategies the account does not keep.
StrategyCoverSources(strategy, active) ==
    IF strategy # "others" THEN OwnCoverSources(strategy)
    ELSE UNION {OwnCoverSources(s) : s \in Range(CoveredStrategies) \ active}

(***************************************************************************)
(* What each strategy holds, and what migrates to Others                   *)
(***************************************************************************)
\* What a page is computed from: the rows, those open with the condors read on
\* their legs, the cover of the positions, the strategies the account keeps.
ViewOf(c) ==
    LET rows == AllRows(c)
    IN  [rows |-> rows, open |-> SelectSeq(Flatten(rows), IsOpenRow),
         coverage |-> ComputeCoverage(Portfolio(c.book)), active |-> c.active]

\* The quantity a strategy holds open on a contract.
Held(view, strategy, contract) ==
    SumOf(view.open, LAMBDA r : IF r.strategy = strategy /\ r.contract = contract
                                THEN r.quantity ELSE 0)

Sold(view, strategy, contract) == Most(0, -Held(view, strategy, contract))

\* Mutant of Migrated: no cap by what the engine calls naked.
MigratedFreely(view, contract) ==
    LET own(s) == CoveredBy(view.coverage, contract, StrategyCoverSources(s, view.active))
    IN  [s \in Strategies |-> IF s \in view.active THEN Most(0, Sold(view, s, contract) - own(s))
                                                   ELSE 0]

\* The contracts each strategy loses: what its own sources do not cover, served
\* in order, never more than the engine calls naked beyond Others' own.
Migrated(view, contract) ==
    LET own(s) == CoveredBy(view.coverage, contract, StrategyCoverSources(s, view.active))
        naked(s) == Most(0, Sold(view, s, contract) - own(s))
        migrable == Most(0, UncoveredQuantity(view.coverage, contract) - naked("others"))
        lost == [s \in Strategies |-> IF s \in view.active THEN naked(s) ELSE 0]
    IN  Pour(CoveredStrategies, lost, migrable)

Lost(view, contract) ==
    IF IsStock(contract) THEN [s \in Strategies |-> 0] ELSE Migrated(view, contract)

\* The quantity of a strategy's line: less what migrates, and for Others what
\* comes in.
LineOf(view, strategy, contract, lost) ==
    Held(view, strategy, contract)
        + (IF strategy = "others" THEN -Total(lost) ELSE lost[strategy])
LineQuantity(view, strategy, contract) == LineOf(view, strategy, contract, Lost(view, contract))

\* What Others takes over, at the average price and instant of each strategy.
TakenIn(view, contract, lost) ==
    LET own(s) == Contributions(SelectSeq(view.open, LAMBDA r : r.strategy = s /\ r.contract = contract))
        from == SelectSeq(CoveredStrategies, LAMBDA s : lost[s] > 0)
    IN  [k \in DOMAIN from |->
            [quantity |-> lost[from[k]], price |-> WeightedPrice(own(from[k])),
             when |-> AverageSaleInstant(own(from[k]))]]

\* What makes the line of a strategy on an option sold.
LineContributions(view, strategy, contract, lost) ==
    Contributions(SelectSeq(view.open, LAMBDA r : r.strategy = strategy /\ r.contract = contract))
        \o (IF strategy = "others" THEN TakenIn(view, contract, lost) ELSE <<>>)

\* What the decision of a line rests on.
LineBasis(view, strategy, contract, lost) ==
    LET parts == LineContributions(view, strategy, contract, lost)
    IN  [strategy |-> strategy, quantity |-> Mag(LineOf(view, strategy, contract, lost)),
         price |-> WeightedPrice(parts), soldAt |-> AverageSaleInstant(parts)]

\* A strategy's own cover, cut down to the contracts its line shows.
CappedCoverage(view, strategy, contract) ==
    Least(Mag(LineQuantity(view, strategy, contract)),
          CoveredBy(view.coverage, contract, StrategyCoverSources(strategy, view.active)))

(***************************************************************************)
(* The shares of the Wheel and the lines of the LEAPS, cut in two          *)
(***************************************************************************)
\* The calls that still have shares behind them.
CoveredCalls(view, ticker) ==
    LET calls == {c \in DOMAIN view.coverage.need : Kind(c, -1) = "short_call" /\ c.ticker = ticker}
    IN  MapThenSumSet(LAMBDA c :
            Most(0, -LineQuantity(view, "wheel", c)), calls)

SplitWheelShares(view, ticker) ==
    LET held == WheelHolding(view.rows, ticker).quantity
        covered == Least(held, CoveredCalls(view, ticker) * PerContract)
    IN  [uncovered |-> held - covered, covered |-> covered]

\* A bought call: what the cover of a sold call uses, and the rest.
SplitLeaps(view, contract) ==
    LET held == Mag(LineQuantity(view, "leaps", contract))
        used == Least(held, UsedQuantity(view.coverage, contract))
    IN  [uncovered |-> held - used, covered |-> used]

(***************************************************************************)
(* The page of the condors                                                 *)
(***************************************************************************)
\* The open sold legs of the condors, those whose wing is closed first, then in
\* the order the condors opened.
SoldLegs(rows) ==
    LET open == SelectSeq(rows, LAMBDA r : KindOf(r) = "condor" /\ IsOpenRow(r))
        wingClosed(row, leg) ==
            \E k \in 1 .. 4 : /\ row.legs[k].quantity > 0 /\ ~IsOpenRow(row.legs[k])
                              /\ row.legs[k].contract.right = leg.contract.right
        legs == {[row |-> k, leg |-> j] : k \in DOMAIN open, j \in 2 .. 3}
        sold == {x \in legs : IsOpenRow(open[x.row].legs[x.leg])}
        rank(x) == <<IF wingClosed(open[x.row], open[x.row].legs[x.leg]) THEN 0 ELSE 1,
                     open[x.row].startWhen, x.row, x.leg>>
        before(a, b) == \E n \in 1 .. 4 : /\ \A m \in 1 .. n - 1 : rank(a)[m] = rank(b)[m]
                                          /\ rank(a)[n] < rank(b)[n]
        order == SortSeq(Listed(sold), before)
    IN  [k \in DOMAIN order |-> open[order[k].row].legs[order[k].leg]]

\* The naked contracts of one contract, handed to its legs in that order.
SpreadNaked(view, contract) ==
    LET legs == SoldLegs(view.rows)
        cap == [k \in DOMAIN legs |->
                    IF legs[k].contract = contract THEN Mag(legs[k].quantity) ELSE 0]
    IN  Pour([k \in DOMAIN legs |-> k], cap, Migrated(view, contract)["condors"])

(***************************************************************************)
(* Properties                                                              *)
(***************************************************************************)
NeverUsedTwice(portfolio, coverage) ==
    \A c \in DOMAIN portfolio :
        IF portfolio[c] > 0 THEN UsedQuantity(coverage, c) <= portfolio[c]
        ELSE ~IsStock(c) => CoveredBy(coverage, c, {"cash", "stock", "leaps", "spread"})
                                + UncoveredQuantity(coverage, c) = -portfolio[c]

\* The engine never uses a cover twice: what every option sold is given and what
\* it lacks make its quantity, and nothing long gives more than is held.
CoverNeverUsedTwice == NeverUsedTwice(Portfolio(ctx.book), ComputeCoverage(Portfolio(ctx.book)))

\* The lines of a contract add up to its position.
LinesShow(view, c, position) ==
    LET migrated == Lost(view, c)
        line(s) == LineOf(view, s, c, migrated)
        nakedOthers == Most(0, Sold(view, "others", c)
                                 - CoveredBy(view.coverage, c, StrategyCoverSources("others", view.active)))
    IN  /\ MapThenSumSet(line, Strategies) = position
        /\ (position < 0 /\ ~IsStock(c)) =>
            /\ line("others") <= -UncoveredQuantity(view.coverage, c)
            /\ Total(migrated) > 0 =>
                    nakedOthers + Total(migrated) = UncoveredQuantity(view.coverage, c)
            /\ Total(SpreadNaked(view, c)) = migrated["condors"]

\* The cut of the Wheel's shares, and the levels of the chart.
TickerShows(rows, cut, t) ==
    LET levels == SharesLevels(rows, t)
        sold(right) == SumOver(ctx.book,
                            LAMBDA lot : /\ lot.contract.ticker = t /\ lot.contract.right = right
                                         /\ lot.parent = 0 /\ lot.quantity < 0,
                            LAMBDA lot : lot.remaining)
        longCalls == SumOver(ctx.book,
                            LAMBDA lot : /\ lot.contract.ticker = t /\ lot.contract.right = "C"
                                         /\ lot.strategy = "leaps" /\ lot.quantity > 0,
                            LAMBDA lot : lot.remaining)
        units(p) == Max({Mag(lot.remaining) : lot \in {l \in ToSet(ctx.book) : l.parent = p}})
        condors == {p \in DOMAIN ctx.composites : ctx.composites[p].legs[1].ticker = t}
    IN  /\ cut.uncovered >= 0 /\ cut.uncovered + cut.covered = WheelShares(ctx.book, t)
        /\ MapThenSumSet(LAMBDA l : l.quantity, levels) = WheelShares(ctx.book, t)
        /\ MapThenSumSet(LAMBDA l : l.price * l.quantity, levels) = WheelHolding(rows, t).assignedTotal
        /\ \A kind \in {<<"P", "short_put">>, <<"C", "short_call">>} :
            MapThenSumSet(LAMBDA l : l.quantity, OptionLevels(rows, t, kind[2])) = sold(kind[1])
        /\ SumOf(LeapsBuyLevels(rows, t), LAMBDA l : l.quantity) = longCalls
        /\ SumOf(CondorLevels(rows, t), LAMBDA l : -l.quantity) = MapThenSumSet(units, condors)

\* The cash the report asks for a condor alone on its ticker is the capital it ties up.
CondorCostsTheSame(view, t) ==
    LET open == SelectSeq(view.rows, LAMBDA r : IsOpenRow(r) /\ r.contract.ticker = t)
        own == [view.coverage EXCEPT !.structures = {x \in @ : x.symbol = t},
                                     !.allocations = {a \in @ : a.short.ticker = t}]
    IN  (Len(open) = 1 /\ KindOf(open[1]) = "condor" /\ \A k \in 1 .. 4 : IsOpenRow(open[1].legs[k]))
            => CashRequired(own) = TiedUp(open[1])

\* The lines of an option sold rest on the premium and the instants of its sales;
\* what one strategy alone sold is decided alike on every page, wherever the cover
\* sends it; and once kept at a price it stays kept.
DecisionsStand(view, c) ==
    LET sales == Contributions(OpenSales(view.rows, c))
        position == PositionBasis(view.rows, c)
        lost == Migrated(view, c)
        lines == {LineBasis(view, s, c, lost) : s \in {x \in Strategies : LineOf(view, x, c, lost) # 0}}
        shown(value(_)) ==
            LET whole == FoldSet(LAMBDA l, d : d * value(l)[2], 1, lines)
            IN  <<MapThenSumSet(LAMBDA l : l.quantity * value(l)[1] * (whole \div value(l)[2]), lines), whole>>
        alone == \E s \in Strategies : Held(view, s, c) = SumOf(sales, LAMBDA x : -x.quantity)
    IN  /\ Same(shown(LAMBDA l : l.price), Summed(sales, LAMBDA x : x.price))
        /\ Same(shown(LAMBDA l : l.soldAt), Summed(sales, LAMBDA x : x.when))
        /\ \A q \in Quote :
            LET kept == {at \in ReadAt : Decision(position, c, q, at) = "keep"}
            IN  /\ alone => \A l \in lines, at \in ReadAt : (Decision(l, c, q, at) = "keep") <=> at \in kept
                /\ \A at \in kept, later \in ReadAt : at < later => later \in kept

\* A condor is decided upon as long as it is whole, and once kept at a price it
\* stays kept.
CondorsStand(view) ==
    \A row \in {r \in ToSet(view.rows) : KindOf(r) = "condor" /\ IsOpenRow(r)} :
        LET whole == \A k \in 1 .. 4 : IsOpenRow(row.legs[k])
        IN  \A sold, bought \in Quote, at, later \in ReadAt :
                LET quotes == [sold |-> sold, bought |-> bought]
                    kept(when) == CondorDecision(row, quotes, when) = "keep"
                IN  IF whole THEN at < later /\ kept(at) => kept(later) ELSE ~kept(at)

PagesShow(view, portfolio) ==
    /\ \A c \in DOMAIN portfolio :
        /\ LinesShow(view, c, portfolio[c])
        /\ (portfolio[c] < 0 /\ ~IsStock(c) /\ \A k \in DOMAIN view.open :
                view.open[k].contract = c => view.open[k].quantity < 0) => DecisionsStand(view, c)
    /\ \A t \in Tickers : TickerShows(view.rows, SplitWheelShares(view, t), t) /\ CondorCostsTheSame(view, t)
    /\ CondorsStand(view)

\* The pages show the account and never contradict the title bar: on every
\* contract the lines of the four strategies add up to the position; Others
\* holds at least what the engine calls naked, and takes in exactly that when it
\* takes anything in; the Condors page badges exactly the legs Others takes from
\* it; neither the cut lines nor the levels of the chart lose anything; a condor
\* alone costs the report what it ties up in the statistics; and the decisions to
\* buy back rest on the sales themselves, alike on every page, and do not waver.
PagesShowTheAccount == PagesShow(ViewOf(ctx), Portfolio(ctx.book))

\* No trade is lost from view: every instant replayed is named by a line of the
\* journals, so the transactions page files it under a strategy - a sale spread
\* over lots, a delivery, a leg of a condor still open, a call that took shares
\* over.
EveryTradeIsFiled ==
    LET rows == AllRows(ctx)
    IN  \A i \in ToSet(played) : i.txs # <<>> => StrategiesOf(rows, i.when) # {}

\* What is over is settled: nothing a later instant brings rewrites the profit of
\* a past month or of a past day, nor - but for a merger, which rescales what its
\* lots cost - the capital a past month tied up.
PastIsSettled ==
    [][played' # played =>
        LET now == Head(tape).when
            before == AllRows(ctx)
            after == AllRows(ctx')
        IN  /\ \A s \in Strategies, m \in 0 .. MonthOf(now) - 1 :
                /\ MonthlyPnl(after, s, m) = MonthlyPnl(before, s, m)
                /\ Head(tape).event.kind # "merger" =>
                    /\ Allocated(after, s, m) = Allocated(before, s, m)
                    /\ PeakDuring(after, s, m) = PeakDuring(before, s, m)
            /\ \A d \in 0 .. DayOf(now) - 1 :
                RealizedOnDay(after, d) = RealizedOnDay(before, d)]_vars
================================================================================
