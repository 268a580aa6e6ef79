-------------------------------- MODULE Buybacks --------------------------------
(***************************************************************************)
(* The Decision column: whether what was sold is worth buying back, from   *)
(* the premium, the price read and the part of its life that is left.      *)
(*                                                                         *)
(* An average is a fraction <<n, d>>, d > 0; a quote is in hundredths, as  *)
(* the commission of a leg is one.  Instants are those of the journals;  *)
(* an expiry is that of its close.  Left out: the rounding of an average   *)
(* to the millisecond, the reading of dates, the threshold shown.          *)
(***************************************************************************)
EXTENDS Reports

\* The sum and the average of parts, each a quantity and a fraction.
Summed(parts, value(_)) ==
    LET whole == FoldLeft(LAMBDA d, x : d * value(x)[2], 1, parts)
    IN  <<SumOf(parts, LAMBDA x : x.quantity * value(x)[1] * (whole \div value(x)[2])), whole>>

Average(parts, value(_)) ==
    LET total == Summed(parts, value)
    IN  <<total[1], total[2] * SumOf(parts, LAMBDA x : x.quantity)>>

\* The same number.
Same(a, b) == a[1] * b[2] = b[1] * a[2]

WeightedPrice(parts) == Average(parts, LAMBDA x : x.price)
AverageSaleInstant(parts) == Average(parts, LAMBDA x : x.when)

\* What a journal row brings to a line.
ToContribution(row) ==
    [quantity |-> Mag(row.quantity), price |-> <<row.openPrice, 1>>, when |-> <<row.startWhen, 1>>]
Contributions(rows) == [k \in DOMAIN rows |-> ToContribution(rows[k])]

(***************************************************************************)
(* The rule                                                                *)
(***************************************************************************)
\* A sale at or after the expiry, or a price read before the sale, says nothing.
LifeKnown(timing) ==
    /\ timing.expiry * timing.soldAt[2] > timing.soldAt[1]
    /\ timing.asOf * timing.soldAt[2] >= timing.soldAt[1]

\* At most two fifths of the premium.
UnderCap(sale, current) == 5 * current * sale[2] <= 200 * sale[1]

\* What the premium's pace would earn in a part of the life, less a sixth and the
\* commissions; like the price it is compared with, times the common denominator.
Scale(sale, timing) ==
    6 * sale[2] * (timing.expiry * timing.soldAt[2] - timing.soldAt[1])
Pace(sale, timing, legs) ==
    500 * sale[1] * (timing.expiry - timing.asOf) * timing.soldAt[2] - legs * Scale(sale, timing)

EvaluateBuyback(sale, current, timing, legs) ==
    IF /\ sale[1] > 0 /\ UnderCap(sale, current)
       /\ LifeKnown(timing) =>
            /\ timing.asOf < timing.expiry
            /\ Pace(sale, timing, legs) > 0
            /\ current * Scale(sale, timing) <= Pace(sale, timing, legs)
    THEN "buy back" ELSE "keep"

(***************************************************************************)
(* The positions page                                                      *)
(***************************************************************************)
SoldKinds == {"short_put", "short_call"}

\* The open sales of a contract, every strategy together; a condor on its legs.
OpenSales(rows, contract) ==
    SelectSeq(Flatten(rows), LAMBDA r : /\ IsOpenRow(r) /\ r.contract = contract
                                        /\ r.quantity < 0 /\ KindOf(r) \in SoldKinds)

TimingOf(contract, soldAt, asOf) ==
    [soldAt |-> soldAt, expiry |-> contract.expiry, asOf |-> asOf]

\* The average price the broker gives a position, that of its sales, and their
\* average instant.
PositionBasis(rows, contract) ==
    LET sales == Contributions(OpenSales(rows, contract))
    IN  [price |-> WeightedPrice(sales), soldAt |-> AverageSaleInstant(sales)]

\* What a page says of an option sold, of the basis it has.
Decision(basis, contract, quote, asOf) ==
    EvaluateBuyback(basis.price, quote, TimingOf(contract, basis.soldAt, asOf), 1)

(***************************************************************************)
(* The condors                                                             *)
(***************************************************************************)
\* What closing a condor costs when its sold legs quote one price and its bought
\* legs another; and what opening it brought.
ClosingCost(row, quotes) ==
    SumOf(row.legs, LAMBDA l : -Sgn(l.quantity) * (IF l.quantity < 0 THEN quotes.sold ELSE quotes.bought))
Credit(row) == SumOf(row.legs, LAMBDA l : -Sgn(l.quantity) * l.openPrice)

\* Only a whole condor is decided upon; one the market would pay to close always is.
CondorDecision(row, quotes, asOf) ==
    IF \E k \in DOMAIN row.legs : ~IsOpenRow(row.legs[k]) THEN "none"
    ELSE IF ClosingCost(row, quotes) <= 0 THEN "buy back"
    ELSE EvaluateBuyback(<<Mag(Credit(row)), 1>>, ClosingCost(row, quotes),
                         TimingOf(row.contract, <<row.startWhen, 1>>, asOf), Len(row.legs))
==================================================================================
