------------------------------- MODULE LotBook -------------------------------
(***************************************************************************)
(* The lots of an account and the order in which its shares leave: the     *)
(* book, the first-in-first-out closes, the rules R1 (what a call of a     *)
(* strike hands over), R3 (free shares first, covered shares last) and the *)
(* takeover of shares by the Wheel when a covered call is sold.            *)
(*                                                                         *)
(* A plan - what the code holds as a list of (lot, quantity) - is here a   *)
(* function from the positions of the book to unsigned quantities, so that *)
(* two passes over one lot are a sum.  Lots are never removed: a closed    *)
(* lot stays with nothing remaining, as in the code.                       *)
(*                                                                         *)
(* Abstracted: the currency (one), prices that are unknown, commissions,   *)
(* and the ratio of an adjusted delivery (one contract is PerContract      *)
(* shares).                                                                *)
(***************************************************************************)
EXTENDS Integers, Sequences, SequencesExt

CONSTANT PerContract            \* shares of one contract

ASSUME PerContractAssumption == PerContract \in Nat \ {0}

Sgn(n) == CASE n > 0 -> 1 [] n < 0 -> -1 [] OTHER -> 0
Mag(n) == IF n < 0 THEN -n ELSE n
Least(a, b) == IF a <= b THEN a ELSE b
Most(a, b) == IF a >= b THEN a ELSE b

\* Mutant of Share: a partial close carries the whole figure.
ShareUndivided(value, part, whole) == value

\* part / whole of a figure; the instances keep it exact.
Share(value, part, whole) ==
    IF part = whole THEN value ELSE (value * part) \div whole

(***************************************************************************)
(* Contracts and lots                                                      *)
(***************************************************************************)
Stock(ticker) == [ticker |-> ticker, right |-> "", strike |-> 0, expiry |-> 0]
Option(ticker, right, strike, expiry) ==
    [ticker |-> ticker, right |-> right, strike |-> strike, expiry |-> expiry]
IsStock(contract) == contract.right = ""
IsContract(c) ==
    /\ c = Option(c.ticker, c.right, c.strike, c.expiry)
    /\ c.right \in {"", "C", "P"} /\ c.strike \in Int /\ c.expiry \in Int

NewLot(contract, strategy, quantity, price, amount, when) ==
    [contract |-> contract, strategy |-> strategy, quantity |-> quantity,
     remaining |-> quantity, price |-> price, amount |-> amount,
     openWhen |-> when, rankWhen |-> when, openIds |-> {<<when, "trade">>},
     cover |-> "none", orphan |-> FALSE, parent |-> 0, delivered |-> {}]

IsOpen(lot) == lot.remaining # 0
IsShares(lot, ticker) ==
    lot.contract = Stock(ticker) /\ lot.quantity > 0 /\ lot.remaining > 0
IsWheelShares(lot, ticker) == IsShares(lot, ticker) /\ lot.strategy = "wheel"
IsShortCall(lot, ticker) ==
    /\ lot.contract.right = "C" /\ lot.contract.ticker = ticker
    /\ lot.quantity < 0 /\ IsOpen(lot)
IsWheelCoveredCall(lot) ==
    /\ lot.contract.right = "C" /\ lot.quantity < 0
    /\ lot.strategy = "wheel" /\ lot.cover = "shares"

(***************************************************************************)
(* Plans                                                                   *)
(***************************************************************************)
Total(plan) == FoldFunction(+, 0, plan)
Nothing(book) == [i \in DOMAIN book |-> 0]
Both(plan, other) == [i \in DOMAIN plan |-> plan[i] + other[i]]

\* The members of S by the number of those before them in a total order.
Ranked(S, before(_, _)) ==
    LET rank == [x \in S |-> Cardinality({y \in S : before(y, x)})]
    IN  [p \in 1 .. Cardinality(S) |-> CHOOSE x \in S : rank[x] = p - 1]

\* The positions of S by rising key; equal keys keep the order of the book.
SortedOn(S, keys) ==
    Ranked(S, LAMBDA i, j : keys[i] < keys[j] \/ (keys[i] = keys[j] /\ i < j))
SortedBy(S, key(_)) == SortedOn(S, [i \in S |-> key(i)])

\* The elements of a sequence at some of its positions, in their order.
Picked(seq, S) ==
    LET at == SortedBy(S, LAMBDA i : i) IN [p \in DOMAIN at |-> seq[at[p]]]

\* Takes up to n along order, each lot giving at most its cap.
Pour(order, cap, n) ==
    LET before[k \in 0 .. Len(order)] ==
            IF k = 0 THEN 0 ELSE before[k - 1] + cap[order[k]]
        takenAt(k) == Most(0, Least(cap[order[k]], n - before[k - 1]))
    IN  [i \in DOMAIN cap |->
            IF \E k \in DOMAIN order : order[k] = i
            THEN takenAt(CHOOSE k \in DOMAIN order : order[k] = i)
            ELSE 0]

\* LotBook.close: the lots of the opposite side, oldest first.
FifoPlan(book, contract, quantity) ==
    LET cap == [i \in DOMAIN book |->
                    IF /\ book[i].contract = contract
                       /\ Sgn(book[i].remaining) = -Sgn(quantity)
                    THEN Mag(book[i].remaining) ELSE 0]
    IN  Pour(SortedBy({i \in DOMAIN book : cap[i] > 0}, LAMBDA i : i),
             cap, Mag(quantity))

Closed(book, plan) ==
    [i \in DOMAIN book |->
        IF IsOpen(book[i]) THEN [book[i] EXCEPT !.remaining = @ - Sgn(@) * plan[i]]
        ELSE book[i]]

Position(book, contract) ==
    FoldLeft(LAMBDA sum, lot :
                IF lot.contract = contract THEN sum + lot.remaining ELSE sum,
             0, book)

(***************************************************************************)
(* R1: the dearest Wheel lot at or below the strike, otherwise the         *)
(* cheapest, up to so many shares.                                         *)
(***************************************************************************)
StrikePlan(book, ticker, strike, reserved, shares) ==
    LET cap == [i \in DOMAIN book |->
                    IF IsWheelShares(book[i], ticker)
                    THEN book[i].remaining - reserved[i] ELSE 0]
        key(i) == IF book[i].price <= strike THEN strike - book[i].price
                  ELSE strike + book[i].price
    IN  Pour(SortedBy({i \in DOMAIN book : cap[i] > 0}, key),
             cap, shares)

\* The Wheel shares that back the covered calls open now, the calls served by
\* rising strike.
CoverAttribution(book, ticker) ==
    LET calls == {i \in DOMAIN book :
                    IsShortCall(book[i], ticker) /\ IsWheelCoveredCall(book[i])}
    IN  FoldLeft(LAMBDA covered, i :
                    Both(covered,
                         StrikePlan(book, ticker, book[i].contract.strike,
                                    covered, Mag(book[i].remaining) * PerContract)),
                 Nothing(book),
                 SortedBy(calls, LAMBDA i : book[i].contract.strike))

SaleRank(strategy) ==
    CASE strategy = "others" -> 1 [] strategy = "leaps" -> 2
      [] strategy = "wheel" -> 3 [] OTHER -> 4

\* R3: free shares Others, LEAPS, Wheel, the cheapest first within each; the
\* covered ones last, the cheapest first.
SalePlan(book, ticker, shares) ==
    LET covered == CoverAttribution(book, ticker)
        long == {i \in DOMAIN book : IsShares(book[i], ticker)}
        free == [i \in DOMAIN book |->
                    IF i \in long THEN book[i].remaining - covered[i] ELSE 0]
        byStrategy == FoldLeft(LAMBDA seq, r :
                            seq \o SortedBy({i \in long : SaleRank(book[i].strategy) = r},
                                            LAMBDA i : book[i].price),
                         <<>>, <<1, 2, 3, 4>>)
        first == Pour(byStrategy, free, shares)
    IN  Both(first, Pour(SortedBy(long, LAMBDA i : book[i].price),
                         covered, shares - Total(first)))

(***************************************************************************)
(* What one underlying can cover                                           *)
(***************************************************************************)
SumOver(book, Test(_), value(_)) ==
    FoldLeft(LAMBDA sum, lot : IF Test(lot) THEN sum + value(lot) ELSE sum, 0, book)

SharesHeld(book, ticker) ==
    SumOver(book, LAMBDA lot : IsShares(lot, ticker), LAMBDA lot : lot.remaining)
WheelShares(book, ticker) ==
    SumOver(book, LAMBDA lot : IsWheelShares(lot, ticker), LAMBDA lot : lot.remaining)
CallsCoveredBy(book, ticker, cover) ==
    SumOver(book, LAMBDA lot : IsShortCall(lot, ticker) /\ lot.cover = cover,
            LAMBDA lot : Mag(lot.remaining))

WheelCapacity(book, ticker) ==
    Most(0, SharesHeld(book, ticker) \div PerContract
              - CallsCoveredBy(book, ticker, "shares"))

LeapsCapacity(book, ticker) ==
    Most(0, SumOver(book, LAMBDA lot :
                        /\ lot.contract.right = "C" /\ lot.contract.ticker = ticker
                        /\ lot.quantity > 0 /\ lot.strategy = "leaps",
                    LAMBDA lot : lot.remaining)
              - CallsCoveredBy(book, ticker, "leaps"))

\* strike >= the average price of the shares, cross-multiplied.
StrikeReachesAverage(book, ticker, strike) ==
    LET cost == SumOver(book, LAMBDA lot : IsShares(lot, ticker),
                        LAMBDA lot : lot.price * lot.remaining)
        held == SharesHeld(book, ticker)
    IN  held > 0 /\ strike * held >= cost

\* How n calls sold split between the Wheel cover, the LEAPS cover and nothing,
\* in the order the parts are opened.
SplitShortCall(n, aw, lw, wheelFirst) ==
    LET wheel(k) == [strategy |-> "wheel", cover |-> "shares", n |-> k]
        leaps(k) == [strategy |-> "leaps", cover |-> "leaps", n |-> k]
        naked(k) == [strategy |-> "others", cover |-> "none", n |-> k]
    IN  IF n >= aw + lw THEN <<wheel(aw), leaps(lw), naked(n - aw - lw)>>
        ELSE IF n = aw THEN <<wheel(n)>>
        ELSE IF n = lw THEN <<leaps(n)>>
        ELSE IF wheelFirst THEN <<wheel(Least(n, aw)), leaps(n - Least(n, aw))>>
        ELSE <<leaps(Least(n, lw)), wheel(n - Least(n, lw))>>

(***************************************************************************)
(* Takeover: only the contracts the Wheel lacks, from the lots outside it  *)
(* in book order; each is closed in its own strategy, and the part taken   *)
(* reopens in the Wheel at the strike, right behind it, ahead of the rest. *)
(***************************************************************************)
\* Mutant of TakeoverPlan: counts the Wheel's shares twice, for the calls open
\* and for the calls sold.
TakeoverPlanUncounted(book, ticker, contracts, alreadyCovered) ==
    LET cap == [i \in DOMAIN book |->
                    IF IsShares(book[i], ticker) /\ book[i].strategy # "wheel"
                    THEN book[i].remaining ELSE 0]
    IN  Pour(SortedBy({i \in DOMAIN book : cap[i] > 0}, LAMBDA i : i), cap,
             contracts * PerContract - WheelShares(book, ticker))

TakeoverPlan(book, ticker, contracts, alreadyCovered) ==
    LET lacking == contracts * PerContract
                     - Most(0, WheelShares(book, ticker) - alreadyCovered * PerContract)
        cap == [i \in DOMAIN book |->
                    IF IsShares(book[i], ticker) /\ book[i].strategy # "wheel"
                    THEN book[i].remaining ELSE 0]
    IN  Pour(SortedBy({i \in DOMAIN book : cap[i] > 0}, LAMBDA i : i), cap, lacking)

\* Mutant of TakeOverLot: the part taken forgets the option that delivered it.
TakeOverLotForgetting(lot, shares, strike, when) ==
    LET rest == lot.remaining - shares
    IN  <<[lot EXCEPT !.remaining = 0],
          [NewLot(lot.contract, "wheel", shares, strike, -strike * shares, when)
            EXCEPT !.rankWhen = lot.rankWhen, !.openIds = lot.openIds]>>
            \o (IF rest = 0 THEN <<>>
                ELSE <<[lot EXCEPT !.quantity = rest, !.remaining = rest,
                                   !.amount = Share(lot.amount, rest, Mag(lot.quantity))]>>)

TakeOverLot(lot, shares, strike, when) ==
    LET taken == [NewLot(lot.contract, "wheel", shares, strike, -strike * shares, when)
                    EXCEPT !.rankWhen = lot.rankWhen, !.openIds = lot.openIds,
                           !.delivered = lot.delivered]
        rest == lot.remaining - shares
        left == [lot EXCEPT !.quantity = rest, !.remaining = rest,
                            !.amount = Share(lot.amount, rest, Mag(lot.quantity))]
    IN  <<[lot EXCEPT !.remaining = 0], taken>>
            \o (IF rest > 0 THEN <<left>> ELSE <<>>)

TakenOver(book, plan, strike, when) ==
    LET pieces(i) == IF plan[i] > 0 THEN TakeOverLot(book[i], plan[i], strike, when)
                     ELSE <<book[i]>>
    IN  FoldLeft(LAMBDA seq, i : seq \o pieces(i), <<>>, [i \in DOMAIN book |-> i])

(***************************************************************************)
(* LotBook.move: the open lots of one contract join another, scaled, each  *)
(* at the rank of its purchase among the open lots already there.          *)
(***************************************************************************)
\* Mutant of InsertByRank: a converted lot goes last.
InsertByRankLast(book, lot) == Append(book, lot)

InsertByRank(book, lot) ==
    LET after == {i \in DOMAIN book : /\ book[i].contract = lot.contract
                                      /\ IsOpen(book[i])
                                      /\ book[i].rankWhen > lot.rankWhen}
    IN  IF after = {} THEN Append(book, lot)
        ELSE InsertAt(book, Min(after), lot)

Scaled(lot, to, out, in) ==
    [lot EXCEPT !.contract = to, !.quantity = (@ * in) \div out,
                !.remaining = (@ * in) \div out, !.price = (@ * out) \div in]

Converted(book, from, to, out, in) ==
    LET leaving == {i \in DOMAIN book : book[i].contract = from /\ IsOpen(book[i])}
    IN  FoldLeft(LAMBDA b, lot : InsertByRank(b, Scaled(lot, to, out, in)),
                 Picked(book, DOMAIN book \ leaving), Picked(book, leaving))
==============================================================================
