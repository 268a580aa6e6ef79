-------------------------------- MODULE Coverage --------------------------------
(***************************************************************************)
(* The coverage engine: what stands behind every option sold.  Three       *)
(* passes, each consuming what it uses: structures of one underlying and   *)
(* one expiry, whose loss is capped; for the calls left, shares, then      *)
(* longer-dated calls; for the puts left, cash.                            *)
(*                                                                         *)
(* A portfolio is a function from contracts to signed quantities.  free is *)
(* what each long position still has to give, need what each short option  *)
(* still lacks.  Left out: the prices, hence the credits and the notes on  *)
(* a strike below its cover.                                               *)
(***************************************************************************)
EXTENDS LotBook

Kind(contract, quantity) ==
    CASE IsStock(contract) -> IF quantity > 0 THEN "long_stock"
                              ELSE IF quantity < 0 THEN "short_stock" ELSE "other"
      [] contract.right = "C" -> IF quantity < 0 THEN "short_call" ELSE "long_call"
      [] contract.right = "P" -> IF quantity < 0 THEN "short_put" ELSE "long_put"

OfKind(portfolio, kind) == {c \in DOMAIN portfolio : Kind(c, portfolio[c]) = kind}

Ready(portfolio) ==
    [free |-> [c \in DOMAIN portfolio |-> Most(0, portfolio[c])],
     need |-> [c \in DOMAIN portfolio |-> IF IsStock(c) THEN 0 ELSE Most(0, -portfolio[c])],
     allocations |-> {}, structures |-> {}]

\* How far the underlying may go against a short leg before its long leg takes over.
StrikeWidth(short, long) ==
    IF short.right = "C" THEN Most(0, long.strike - short.strike)
    ELSE Most(0, short.strike - long.strike)

\* The least risk first; among equals, the leg closest to the short strike.
ByPairCost(short, longs) ==
    LET nearness(l) == IF short.right = "C" THEN -l.strike ELSE l.strike
    IN  Ranked(longs, LAMBDA a, b :
            LET wa == StrikeWidth(short, a)
                wb == StrikeWidth(short, b)
            IN  \/ wa < wb
                \/ wa = wb /\ nearness(a) < nearness(b)
                \/ wa = wb /\ nearness(a) = nearness(b) /\ a.expiry < b.expiry)

\* Mutant of Draw: what covers is not used up.
DrawUnspent(state, short, order, source, wanted, ratio) ==
    LET take == Pour(order, state.free, wanted * ratio)
    IN  [state EXCEPT
            !.need[short] = @ - wanted,
            !.allocations = @ \cup {[short |-> short, source |-> source, from |-> c, quantity |-> take[c]] :
                                        c \in {x \in DOMAIN take : take[x] > 0}}]

\* Draws what a short leg lacks along order, each unit of cover taking ratio of a pool.
Draw(state, short, order, source, wanted, ratio) ==
    LET take == Pour(order, state.free, wanted * ratio)
    IN  [state EXCEPT
            !.free = [c \in DOMAIN @ |-> @[c] - take[c]],
            !.need[short] = @ - wanted,
            !.allocations = @ \cup {[short |-> short, source |-> source, from |-> c, quantity |-> take[c]] :
                                        c \in {x \in DOMAIN take : take[x] > 0}}]

Available(state, pool) == Total([c \in pool |-> state.free[c]])

(***************************************************************************)
(* Pass 1: structures                                                      *)
(***************************************************************************)
\* The shorts from the strike closest to the money outwards.
ClosestFirst(shorts) ==
    Ranked(shorts, LAMBDA a, b :
        IF a.right = "C" THEN a.strike < b.strike ELSE a.strike > b.strike)

PairLegs(state, shorts, longs) ==
    FoldLeft(LAMBDA s, short :
                Draw(s, short, ByPairCost(short, {l \in longs : s.free[l] > 0}), "spread",
                     Least(s.need[short], Available(s, longs)), 1),
             state, ClosestFirst(shorts))

\* What the spreads of one side may lose.
RiskOf(allocations) ==
    MapThenSumSet(LAMBDA a : StrikeWidth(a.short, a.from) * PerContract * a.quantity, allocations)

BuildStructure(portfolio, state, ticker, expiry) ==
    LET of(kind) == {c \in OfKind(portfolio, kind) : c.ticker = ticker /\ c.expiry = expiry}
        calls == PairLegs(state, of("short_call"), of("long_call"))
        both == PairLegs(calls, of("short_put"), of("long_put"))
        spreads(right) == {a \in both.allocations :
                            /\ a.source = "spread" /\ a.short.right = right
                            /\ a.short.ticker = ticker /\ a.short.expiry = expiry}
        kind == CASE spreads("C") # {} /\ spreads("P") # {} -> "iron condor"
                  [] spreads("C") # {} -> "call spread"
                  [] OTHER -> "put spread"
    IN  IF spreads("C") \cup spreads("P") = {} THEN both
        ELSE [both EXCEPT !.structures = @ \cup
                {[symbol |-> ticker, expiry |-> expiry, kind |-> kind,
                  callRisk |-> RiskOf(spreads("C")), putRisk |-> RiskOf(spreads("P"))]}]

(***************************************************************************)
(* Pass 2: calls on shares, then on longer calls.  Pass 3: puts on cash.   *)
(***************************************************************************)
CoverShortCall(portfolio, state, short) ==
    LET shares == OfKind(portfolio, "long_stock")
        byShares == Least(state.need[short], Available(state, shares) \div PerContract)
        stocked == Draw(state, short, SetToSeq(shares), "stock", byShares, PerContract)
        longer == {l \in OfKind(portfolio, "long_call") :
                        stocked.free[l] > 0 /\ l.expiry > short.expiry}
    IN  Draw(stocked, short, ByPairCost(short, longer), "leaps",
             Least(stocked.need[short], Available(stocked, longer)), 1)

SecureShortPut(state, short) ==
    IF state.need[short] = 0 THEN state
    ELSE [state EXCEPT
            !.need[short] = 0,
            !.allocations = @ \cup {[short |-> short, source |-> "cash", from |-> short,
                                     quantity |-> state.need[short]]}]

SoonestFirst(shorts) ==
    Ranked(shorts, LAMBDA a, b : \/ a.expiry < b.expiry
                                 \/ a.expiry = b.expiry /\ a.strike < b.strike)

CoverSymbol(whole, state, ticker) ==
    LET portfolio == [c \in {x \in DOMAIN whole : x.ticker = ticker} |-> whole[c]]
        shorts(kind) == OfKind(portfolio, kind)
        expiries == {c.expiry : c \in shorts("short_call") \cup shorts("short_put")}
        paired == FoldLeft(LAMBDA s, e : BuildStructure(portfolio, s, ticker, e), state,
                           Ranked(expiries, LAMBDA a, b : a < b))
        called == FoldLeft(LAMBDA s, short : CoverShortCall(portfolio, s, short), paired,
                           SoonestFirst(shorts("short_call")))
    IN  FoldLeft(SecureShortPut, called, SetToSeq(shorts("short_put")))

ComputeCoverage(portfolio) ==
    FoldLeft(LAMBDA s, ticker : CoverSymbol(portfolio, s, ticker), Ready(portfolio),
             SetToSeq({c.ticker : c \in DOMAIN portfolio}))

(***************************************************************************)
(* The report                                                              *)
(***************************************************************************)
Quantity(allocations) == Total([a \in allocations |-> a.quantity])
AllocationsOf(coverage, short, sources) ==
    {a \in coverage.allocations : a.short = short /\ a.source \in sources}

\* A share allocation counts shares; every other counts contracts.
CoveredBy(coverage, short, sources) ==
    Quantity(AllocationsOf(coverage, short, sources \ {"stock"}))
        + Quantity(AllocationsOf(coverage, short, sources \cap {"stock"})) \div PerContract

UncoveredQuantity(coverage, short) == coverage.need[short]
UsedQuantity(coverage, long) ==
    Quantity({a \in coverage.allocations : a.from = long /\ a.short # long})

PutCashRequired(coverage) ==
    MapThenSumSet(LAMBDA a : a.short.strike * PerContract * a.quantity,
                  {a \in coverage.allocations : a.source = "cash"})

\* The worst side of each condor: the two sides never add up.
CondorCashRequired(coverage) ==
    MapThenSumSet(LAMBDA s : Most(s.callRisk, s.putRisk),
                  {s \in coverage.structures : s.kind = "iron condor"})

CashRequired(coverage) == PutCashRequired(coverage) + CondorCashRequired(coverage)
================================================================================
