------------------------------- MODULE Journals -------------------------------
(***************************************************************************)
(* The replay of a ledger into journals: one instant at a time, the        *)
(* corporate actions of the instant first, then its option closes with the *)
(* deliveries they settle, its option openings filed by strategy, and its  *)
(* share trades.                                                           *)
(*                                                                         *)
(* The replay is a function of the whole ledger and looks ahead in it: a   *)
(* share sale knows the call buybacks of the minute that follows.  tape    *)
(* holds the instants known and not yet replayed; Read lengthens it with   *)
(* any instant of the scene, Replay consumes its head, so that every       *)
(* ledger of up to MaxInstants instants is replayed.                       *)
(***************************************************************************)
EXTENDS LotBook

CONSTANTS
    Scene,          \* a scene: the instants a ledger is drawn from
    Instants(_),    \* the instants of a scene: records [event, txs]
    Gaps(_),        \* the times that may separate two instants of a scene
    Active(_),      \* the strategies the account of a scene keeps
    MaxInstants,    \* length of a ledger
    Lookahead,      \* instants known ahead of the one replayed
    BuybackWindow,  \* WHEEL_BUYBACK_WINDOW_MS
    LeapsMin,       \* LEAPS_MIN_MONTHS
    DayLength,      \* instants of a day
    Boundary        \* the instant of the snapshot

IsTrade(tx) == IsContract(tx.contract) /\ tx.q \in Int /\ tx.price \in Int
IsEvent(e) ==
    \/ e.kind = "none"
    \/ e.kind = "conversion" /\ {e.out, e.in} \subseteq Nat \ {0}
    \/ e.kind = "merger" /\ e.in \in Nat \ {0} /\ {e.cash, e.realizedPnl} \subseteq Int

ASSUME JournalsAssumption ==
    /\ {MaxInstants, Lookahead, BuybackWindow, LeapsMin, Boundary} \subseteq Nat
    /\ DayLength \in Nat \ {0} /\ Lookahead > 0
    /\ \A s \in Scene :       \* instants come in order, and their trades are a sequence
            /\ Gaps(s) \subseteq Nat
            /\ \A i \in Instants(s) :
                    /\ Len(i.txs) \in Nat /\ DOMAIN i.txs = 1 .. Len(i.txs)
                    /\ \A k \in 1 .. Len(i.txs) : IsTrade(i.txs[k])
                    /\ IsEvent(i.event)

VARIABLES
    scene,          \* the scene this ledger is drawn from
    tape,           \* instants known, in order, not yet replayed
    played,         \* instants replayed
    ctx,            \* ReplayContext
    atBoundary      \* the positions captured for the reconciliation, or Unseen

vars == <<scene, tape, played, ctx, atBoundary>>

Unseen == [captured |-> FALSE, positions |-> {}]
NoEvent == [kind |-> "none"]

\* Cash effect of a trade: what is bought is paid for.
Amount(tx) == -tx.q * tx.price

NewContext(active) ==
    [book |-> <<>>, rows |-> <<>>, exitLog |-> <<>>, composites |-> <<>>,
     settlements |-> <<>>, budget |-> <<>>, closed |-> <<>>, active |-> active]

(***************************************************************************)
(* Rows                                                                    *)
(***************************************************************************)
\* The journal row of a quantity of a lot, left by an exit.
BuildRow(lot, n, exit) ==
    [strategy |-> lot.strategy, contract |-> lot.contract,
     quantity |-> Sgn(lot.quantity) * n, openPrice |-> lot.price,
     openTotal |-> Share(lot.amount, n, Mag(lot.quantity)),
     closeTotal |-> exit.amount, event |-> exit.event,
     startWhen |-> lot.openWhen, endWhen |-> exit.when,
     openIds |-> lot.openIds, closeIds |-> exit.ids, orphan |-> lot.orphan]

\* Emits the row of a close, or logs it on a condor's leg.
CloseLot(c, lot, n, exit) ==
    IF lot.parent # 0
    THEN [c EXCEPT !.exitLog = Append(@, [parent |-> lot.parent, contract |-> lot.contract,
                                          quantity |-> n, exit |-> exit])]
    ELSE [c EXCEPT !.rows = Append(@, BuildRow(lot, n, exit))]

\* The positions of a book a plan draws on, in its order.
Drawn(lots, plan) == SortedBy({i \in DOMAIN lots : plan[i] > 0}, LAMBDA i : i)

CloseLots(c, lots, plan, exits) ==
    FoldLeft(LAMBDA acc, i : CloseLot(acc, lots[i], plan[i], exits[i]), c, Drawn(lots, plan))

\* Closes a plan on the book, each portion with its share of the amount.
CloseShares(c, plan, amount, whole, when, ids) ==
    CloseLots([c EXCEPT !.book = Closed(@, plan)], c.book, plan,
              [i \in DOMAIN c.book |->
                  [when |-> when, amount |-> Share(amount, plan[i], whole), ids |-> ids,
                   event |-> IF c.book[i].quantity > 0 THEN "sold" ELSE "buyback"]])

(***************************************************************************)
(* Settlements: which option closes claim which share deliveries           *)
(***************************************************************************)
IsOption(tx) == ~IsStock(tx.contract)
IsSettlementShape(tx) == tx.price = 0 /\ ~tx.fee
TradesOf(g, Test(_)) == SortedBy({k \in DOMAIN g.txs : Test(g.txs[k])}, LAMBDA k : k)
Options(g) == TradesOf(g, LAMBDA tx : IsOption(tx) /\ tx.q # 0)
Stocks(g) == TradesOf(g, LAMBDA tx : ~IsOption(tx))

DeliverySign(right, side) == (IF right = "P" THEN -1 ELSE 1) * side

\* What an option trade claims, after those before it have closed theirs.
Claim(book, g, acc, k) ==
    LET tx == g.txs[k]
        pos == FoldLeft(LAMBDA n, cl :
                            IF g.txs[cl.tx].contract = tx.contract
                            THEN n - cl.side * cl.contracts ELSE n,
                        Position(book, tx.contract), acc)
    IN  IF IsSettlementShape(tx) /\ Sgn(pos) = -Sgn(tx.q)
        THEN Append(acc, [tx |-> k, contracts |-> Least(Mag(tx.q), Mag(pos)),
                          side |-> Sgn(pos),
                          key |-> <<tx.contract.ticker, tx.contract.strike,
                                    DeliverySign(tx.contract.right, Sgn(pos))>>])
        ELSE acc

\* The settlement-shaped closes that may claim a delivery, in order: what each
\* closes, and the side of the position it closes.
Claims(book, g) == FoldLeft(LAMBDA acc, k : Claim(book, g, acc, k), <<>>, Options(g))

\* The uncharged share legs at one strike, in one direction.
Pool(g, key) ==
    {k \in DOMAIN g.txs : /\ ~IsOption(g.txs[k]) /\ ~g.txs[k].fee
                          /\ <<g.txs[k].contract.ticker, g.txs[k].price, Sgn(g.txs[k].q)>> = key}

\* Assignments are served before exercises; the first claim takes the pool.
Served(claims, cl) ==
    LET order(x) == (IF claims[x].side < 0 THEN 0 ELSE Len(claims)) + x
        rivals == {x \in DOMAIN claims : claims[x].key = claims[cl].key}
    IN  \A x \in rivals : order(cl) <= order(x)

\* The shares an option close receives or hands over; none when it claims nothing.
DeliveryOf(g, claims, k) ==
    LET mine == {x \in DOMAIN claims : claims[x].tx = k /\ Served(claims, x)}
        of(x) == LET pool == Pool(g, claims[x].key)
                 IN  [shares |-> Total([p \in pool |-> Mag(g.txs[p].q)]),
                      sign |-> claims[x].key[3], contracts |-> claims[x].contracts]
    IN  IF mine = {} THEN [shares |-> 0, sign |-> 1, contracts |-> 1]
        ELSE of(CHOOSE x \in mine : TRUE)

\* Mutant of Consumed: the shares an option claimed are traded once more.
ConsumedByNone(g, claims, k) == FALSE

Consumed(g, claims, k) == \E x \in DOMAIN claims : k \in Pool(g, claims[x].key)

\* The cash of an index option settled in cash, reported on the same day.
Settlement(c, contract, when) ==
    {x \in DOMAIN c.settlements :
        /\ c.settlements[x].contract = contract
        /\ c.settlements[x].when \div DayLength = when \div DayLength}

(***************************************************************************)
(* Share sales: R2 against the buybacks of the minute, then R3             *)
(***************************************************************************)
IsCallBuyback(tx) == tx.contract.right = "C" /\ tx.q > 0 /\ tx.fee

\* The buybacks paired with a sale, the nearest first; at equal distances, in
\* the order of the ledger.
PairedBuybacks(g, ticker) ==
    LET known == played \o tape
        gap(x) == Mag(known[x].when - g.when)
        found(x) == {k \in DOMAIN known[x].txs :
                        /\ IsCallBuyback(known[x].txs[k])
                        /\ known[x].txs[k].contract.ticker = ticker}
        near == UNION {{<<x, k>> : k \in found(x)} :
                       x \in {y \in DOMAIN known : gap(y) <= BuybackWindow}}
        order == Ranked(near, LAMBDA a, b :
                    \/ gap(a[1]) < gap(b[1])
                    \/ gap(a[1]) = gap(b[1]) /\ (a[1] < b[1] \/ (a[1] = b[1] /\ a[2] < b[2])))
        buyback(at) == [when |-> known[at[1]].when, contract |-> known[at[1]].txs[at[2]].contract,
                        quantity |-> known[at[1]].txs[at[2]].q]
    IN  [p \in DOMAIN order |-> buyback(order[p])]

KeyOf(b) == <<b.when, b.contract>>
Mapped(map, key, value) ==
    [k \in DOMAIN map \cup {key} |-> IF k = key THEN value ELSE map[k]]

\* The Wheel covered contracts a buyback will close, walked ahead of time.
WheelContractsClosedBy(book, b) ==
    LET plan == FifoPlan(book, b.contract, b.quantity)
    IN  Total([i \in DOMAIN book |-> IF IsWheelCoveredCall(book[i]) THEN plan[i] ELSE 0])

\* The shares a buyback may still hand to R2, set at its first use.
BudgetOf(c, b) ==
    LET contracts == IF KeyOf(b) \in DOMAIN c.closed THEN c.closed[KeyOf(b)]
                     ELSE WheelContractsClosedBy(c.book, b)
    IN  IF KeyOf(b) \in DOMAIN c.budget THEN c.budget[KeyOf(b)]
        ELSE [announced |-> contracts, left |-> contracts * PerContract]

\* R2, one buyback after the other: acc holds the context, the plan, what is left.
SellBeside(acc, b, ticker) ==
    LET budget == BudgetOf(acc.ctx, b)
        plan == StrikePlan(Closed(acc.ctx.book, acc.plan), ticker, b.contract.strike,
                           Nothing(acc.ctx.book), Least(budget.left, acc.left))
    IN  IF acc.left = 0 THEN acc
        ELSE [ctx |-> [acc.ctx EXCEPT
                        !.budget = Mapped(@, KeyOf(b), [budget EXCEPT !.left = @ - Total(plan)])],
              plan |-> Both(acc.plan, plan), left |-> acc.left - Total(plan)]

\* A long-share sale: the context with its budgets, and the plan.
SellShares(c, g, ticker, quantity) ==
    LET beside == FoldLeft(LAMBDA acc, b : SellBeside(acc, b, ticker),
                           [ctx |-> c, plan |-> Nothing(c.book), left |-> quantity],
                           PairedBuybacks(g, ticker))
        rest == SalePlan(Closed(c.book, beside.plan), ticker, beside.left)
    IN  [ctx |-> beside.ctx, plan |-> Both(beside.plan, rest)]

(***************************************************************************)
(* Option closes and what they deliver                                     *)
(***************************************************************************)
DeliverPlan(book, lot, sign, shares) ==
    LET ticker == lot.contract.ticker
        first == IF IsWheelCoveredCall(lot)
                 THEN StrikePlan(book, ticker, lot.contract.strike, Nothing(book), shares)
                 ELSE Nothing(book)
    IN  IF sign > 0 THEN FifoPlan(book, Stock(ticker), shares)
        ELSE Both(first, SalePlan(Closed(book, first), ticker, shares - Total(first)))

\* Sells or closes what is held; the rest opens, in the option's own journal
\* when shares come in, and keeps its row ongoing until it is sold.
DeliverShares(c, lot, sign, shares, when) ==
    LET plan == DeliverPlan(c.book, lot, sign, shares)
        after == CloseShares(c, plan, -sign * shares * lot.contract.strike, shares, when, {when})
        rest == shares - Total(plan)
        inherited == sign > 0 /\ lot.parent = 0 /\ ~lot.orphan
        opened == [NewLot(Stock(lot.contract.ticker),
                          IF inherited THEN lot.strategy ELSE "others",
                          sign * rest, lot.contract.strike,
                          -sign * rest * lot.contract.strike, when)
                    EXCEPT !.openIds = {<<when, "delivery">>},
                           !.delivered = IF lot.parent = 0 THEN {Len(c.rows)} ELSE {}]
    IN  IF rest = 0 THEN after ELSE [after EXCEPT !.book = Append(@, opened)]

CloseEventOf(tx, settled) ==
    IF ~IsSettlementShape(tx) THEN (IF tx.q > 0 THEN "buyback" ELSE "sold")
    ELSE IF ~settled THEN "expired"
    ELSE IF tx.q > 0 THEN "assigned" ELSE "exercised"

\* n contracts of a lot closed, with what they deliver.
ClosePortion(c, lot, n, exit, delivery) ==
    LET row == CloseLot(c, lot, n, exit)
    IN  IF delivery.shares > 0
        THEN DeliverShares(row, lot, delivery.sign,
                           (delivery.shares * n) \div delivery.contracts, exit.when)
        ELSE row

CloseOptions(c, g, tx, plan, delivery) ==
    LET closed == Total(plan)
        cash == IF IsSettlementShape(tx) THEN Settlement(c, tx.contract, g.when) ELSE {}
        exits == [i \in DOMAIN c.book |->
                    [when |-> g.when,
                     event |-> CloseEventOf(tx, delivery.shares > 0 \/ cash # {}),
                     amount |-> IF cash # {}
                                THEN Share(c.settlements[Min(cash)].amount, plan[i], closed)
                                ELSE Share(Amount(tx), plan[i], Mag(tx.q)),
                     ids |-> {g.when}]]
    IN  FoldLeft(LAMBDA acc, i : ClosePortion(acc, c.book[i], plan[i], exits[i], delivery),
                 [c EXCEPT !.book = Closed(@, plan),
                           !.settlements = IF cash = {} THEN @ ELSE RemoveAt(@, Min(cash))],
                 Drawn(c.book, plan))

\* What a buyback closed of the Wheel, for the sales beside it.
Noted(c, when, tx, wheel) ==
    IF IsSettlementShape(tx) \/ tx.q < 0 THEN c
    ELSE [c EXCEPT !.closed = Mapped(@, <<when, tx.contract>>, wheel)]

\* One option trade: its closes, and what is left to open.
ReplayOption(acc, g, k, claims) ==
    LET tx == g.txs[k]
        plan == FifoPlan(acc.ctx.book, tx.contract, tx.q)
        closed == Total(plan)
        wheel == Total([i \in DOMAIN plan |->
                            IF IsWheelCoveredCall(acc.ctx.book[i]) THEN plan[i] ELSE 0])
        rest == tx.q - Sgn(tx.q) * closed
    IN  [ctx |-> Noted(IF closed = 0 THEN acc.ctx
                       ELSE CloseOptions(acc.ctx, g, tx, plan, DeliveryOf(g, claims, k)),
                       g.when, tx, wheel),
         openings |-> IF rest = 0 THEN acc.openings
                      ELSE Append(acc.openings,
                                  [tx |-> tx, quantity |-> rest,
                                   orphan |-> closed = 0 /\ IsSettlementShape(tx)])]

(***************************************************************************)
(* Openings                                                                *)
(***************************************************************************)
OpenLot(c, o, strategy, cover, quantity, when) ==
    [c EXCEPT !.book = Append(@,
        [NewLot(o.tx.contract, IF o.orphan THEN "others" ELSE strategy, quantity, o.tx.price,
                Share(Amount(o.tx), Mag(quantity), Mag(o.tx.q)), when)
            EXCEPT !.cover = cover, !.orphan = o.orphan])]

\* The openings of a group, each a lot of a strategy.
OpenEach(c, group, strategy, when) ==
    FoldLeft(LAMBDA acc, o : OpenLot(acc, o, strategy, "none", o.quantity, when), c, group)

\* Each portion taken over is closed at the strike, then cut out of its lot.
TakeOverShares(c, call, contracts, covered, when) ==
    LET plan == TakeoverPlan(c.book, call.ticker, contracts, covered)
        integrated == [i \in DOMAIN c.book |->
                        [when |-> when, amount |-> call.strike * plan[i], event |-> "integrated",
                         ids |-> {when}]]
    IN  [CloseLots(c, c.book, plan, integrated)
            EXCEPT !.book = TakenOver(@, plan, call.strike, when)]

\* A part of a call sold; the one the Wheel covers takes over the shares it lacks first.
OpenPart(c, o, part, covered, when) ==
    LET ready == IF part.cover = "shares"
                 THEN TakeOverShares(c, o.tx.contract, part.n, covered, when) ELSE c
    IN  IF part.n = 0 THEN c
        ELSE OpenLot(ready, o, part.strategy, part.cover, -part.n, when)

OpenShortCall(c, o, when) ==
    LET ticker == o.tx.contract.ticker
        covered == CallsCoveredBy(c.book, ticker, "shares")
        parts == SplitShortCall(Mag(o.quantity),
                    IF "wheel" \in c.active THEN WheelCapacity(c.book, ticker) ELSE 0,
                    IF "leaps" \in c.active THEN LeapsCapacity(c.book, ticker) ELSE 0,
                    StrikeReachesAverage(c.book, ticker, o.tx.contract.strike))
    IN  FoldLeft(LAMBDA acc, p : OpenPart(acc, o, p, covered, when), c, parts)

OpenSingle(c, o, when) ==
    LET strategy ==
            CASE o.tx.contract.right = "P" ->
                    IF o.quantity < 0 /\ "wheel" \in c.active THEN "wheel" ELSE "others"
              [] OTHER ->
                    IF "leaps" \in c.active /\ o.tx.contract.expiry >= when + LeapsMin
                    THEN "leaps" ELSE "others"
    IN  IF o.tx.contract.right = "C" /\ o.quantity < 0 /\ ~o.orphan
        THEN OpenShortCall(c, o, when)
        ELSE OpenLot(c, o, strategy, "none", o.quantity, when)

\* Long put < short put < short call < long call, one expiry, equal quantities.
IsCondor(group) ==
    LET leg(right, side) == {o \in ToSet(group) : /\ o.tx.contract.right = right
                                                  /\ Sgn(o.quantity) = side}
        strike(right, side) == (CHOOSE o \in leg(right, side) : TRUE).tx.contract.strike
    IN  /\ Len(group) = 4
        /\ \A o \in ToSet(group) : /\ ~o.orphan
                                   /\ Mag(o.quantity) = Mag(group[1].quantity)
        /\ \A right \in {"P", "C"}, side \in {-1, 1} : leg(right, side) # {}
        /\ strike("P", 1) < strike("P", -1)
        /\ strike("P", -1) < strike("C", -1)
        /\ strike("C", -1) < strike("C", 1)

OpenCondor(c, group, when) ==
    LET byStrike == SortedBy(DOMAIN group, LAMBDA k : group[k].tx.contract.strike)
        legs == [p \in DOMAIN byStrike |-> group[byStrike[p]]]
        n == Len(c.composites) + 1
        opened == OpenEach(c, legs, "condors", when)
    IN  [opened EXCEPT
            !.book = [i \in DOMAIN @ |-> IF i > Len(c.book) THEN [@[i] EXCEPT !.parent = n] ELSE @[i]],
            !.composites = Append(@, [quantity |-> Mag(legs[1].quantity),
                                      legs |-> [k \in 1 .. 4 |-> legs[k].tx.contract]])]

\* The openings of one underlying and expiry are a combination when they name
\* two contracts.
FileGroup(c, group, when) ==
    IF Cardinality({o.tx.contract : o \in ToSet(group)}) < 2
    THEN FoldLeft(LAMBDA acc, o : OpenSingle(acc, o, when), c, group)
    ELSE IF "condors" \in c.active /\ IsCondor(group)
    THEN OpenCondor(c, group, when)
    ELSE OpenEach(c, group, "others", when)

GroupKey(o) == <<o.tx.contract.ticker, o.tx.contract.expiry>>
GroupAt(openings, k) ==
    Picked(openings, {j \in DOMAIN openings : GroupKey(openings[j]) = GroupKey(openings[k])})

\* Group by group; those that only buy calls open their cover first.
ClassifyOpenings(c, openings, when) ==
    LET heads == {k \in DOMAIN openings :
                    \A j \in 1 .. k - 1 : GroupKey(openings[j]) # GroupKey(openings[k])}
        coverOnly(k) == \A o \in ToSet(GroupAt(openings, k)) :
                            ~o.orphan /\ o.tx.contract.right = "C" /\ o.quantity > 0
    IN  FoldLeft(LAMBDA acc, k : FileGroup(acc, GroupAt(openings, k), when), c,
                 SortedBy(heads, LAMBDA k : IF coverOnly(k) THEN 0 ELSE 1))

(***************************************************************************)
(* Share trades                                                            *)
(***************************************************************************)
IsUnclaimedDelivery(g, tx) ==
    /\ ~tx.fee
    /\ \E k \in DOMAIN g.txs : LET o == g.txs[k]
                               IN  /\ IsOption(o) /\ IsSettlementShape(o)
                                   /\ o.contract.strike = tx.price
                                   /\ o.contract.ticker = tx.contract.ticker

\* What a share trade closes, and the context its plan was made in.
SaleOf(c, g, tx) ==
    IF tx.q < 0 THEN SellShares(c, g, tx.contract.ticker, -tx.q)
    ELSE [ctx |-> c, plan |-> FifoPlan(c.book, tx.contract, tx.q)]

\* Closes what is planned, and opens the rest.
Booked(sale, g, tx) ==
    LET after == CloseShares(sale.ctx, sale.plan, Amount(tx), Mag(tx.q), g.when, {g.when})
        rest == tx.q - Sgn(tx.q) * Total(sale.plan)
    IN  IF rest = 0 THEN after
        ELSE [after EXCEPT !.book = Append(@,
                [NewLot(tx.contract, "others", rest, tx.price, -rest * tx.price, g.when)
                    EXCEPT !.orphan = IsUnclaimedDelivery(g, tx)])]

ReplayStock(c, g, k, claims) ==
    IF Consumed(g, claims, k) THEN c ELSE Booked(SaleOf(c, g, g.txs[k]), g, g.txs[k])

(***************************************************************************)
(* Corporate actions                                                       *)
(***************************************************************************)
\* What the open lots of a contract cost.
BasisOf(lot) == -lot.amount

\* A cash-and-stock merger closes the lots for the fraction of their basis the
\* cash paid, and opens the rest on the new contract.
ApplyMixedMerger(c, e, when) ==
    LET open == {i \in DOMAIN c.book : c.book[i].contract = Stock(e.from) /\ IsOpen(c.book[i])}
        basis == Total([i \in open |-> BasisOf(c.book[i])])
        paid == e.cash - e.realizedPnl      \* f = paid / basis
        scaled(lot) == [lot EXCEPT !.amount = (@ * paid) \div basis,
                                   !.price = (@ * paid) \div basis]
        whole == [i \in DOMAIN c.book |-> IF i \in open THEN Mag(c.book[i].remaining) ELSE 0]
        exits == [i \in DOMAIN c.book |->
                    [when |-> when, amount |-> Share(e.cash, BasisOf(c.book[i]), basis),
                     event |-> "corporate_action", ids |-> {when}]]
        closed == [CloseLots(c, [i \in DOMAIN c.book |-> scaled(c.book[i])], whole, exits)
                    EXCEPT !.book = [i \in DOMAIN @ |->
                        IF i \in open THEN [scaled(@[i]) EXCEPT !.remaining = 0] ELSE @[i]]]
        arrived == NewLot(Stock(e.to), c.book[Min(open)].strategy, e.in,
                          (basis - paid) \div e.in, -(basis - paid), when)
    IN  IF open = {} \/ basis <= 0 \/ paid < 0 \/ paid > basis THEN c
        ELSE [closed EXCEPT !.book = Append(@, arrived)]

ApplyEvent(c, e, when) ==
    CASE e.kind = "none" -> c
      [] e.kind = "conversion" ->
            [c EXCEPT !.book = Converted(@, Stock(e.from), Stock(e.to), e.out, e.in)]
      [] e.kind = "merger" -> ApplyMixedMerger(c, e, when)

(***************************************************************************)
(* The machine                                                             *)
(***************************************************************************)
OptionsReplayed(c, g, claims) ==
    FoldLeft(LAMBDA acc, k : ReplayOption(acc, g, k, claims),
             [ctx |-> c, openings |-> <<>>], Options(g))

StocksReplayed(c, g, claims) == FoldLeft(LAMBDA acc, k : ReplayStock(acc, g, k, claims), c, Stocks(g))

PositionsOf(book) ==
    {p \in {[contract |-> lot.contract, quantity |-> Position(book, lot.contract)] :
                lot \in ToSet(book)} : p.quantity # 0}

Init ==
    /\ scene \in Scene
    /\ tape = <<>> /\ played = <<>>
    /\ ctx = NewContext(Active(scene))
    /\ atBoundary = Unseen

\* The ledger holds one instant more; its cash settlements wait from the start.
Read ==
    /\ Len(tape) < Lookahead /\ Len(played) + Len(tape) < MaxInstants
    /\ \E i \in Instants(scene), gap \in Gaps(scene) :
        LET known == played \o tape
            when == IF known = <<>> THEN gap ELSE Last(known).when + gap
            cash == SelectSeq(i.txs, LAMBDA tx : tx.q = 0)
        IN  /\ tape' = Append(tape, [when |-> when, event |-> i.event, txs |-> i.txs])
            /\ ctx' = [ctx EXCEPT !.settlements = @ \o
                        [k \in DOMAIN cash |-> [contract |-> cash[k].contract, when |-> when,
                                                amount |-> cash[k].price]]]
    /\ UNCHANGED <<scene, played, atBoundary>>

Replay ==
    /\ tape # <<>>
    /\ Len(tape) = Lookahead \/ Len(played) + Len(tape) = MaxInstants
    /\ \E g \in {Head(tape)} :
           /\ \E c \in {ApplyEvent(ctx, g.event, g.when)} :
              \E claims \in {Claims(c.book, g)} :
              \E options \in {OptionsReplayed(c, g, claims)} :
              \E opened \in {ClassifyOpenings(options.ctx, options.openings, g.when)} :
                 ctx' = StocksReplayed(opened, g, claims)
           /\ atBoundary' = IF g.when > Boundary /\ ~atBoundary.captured
                            THEN [captured |-> TRUE, positions |-> PositionsOf(ctx.book)]
                            ELSE atBoundary
           /\ played' = Append(played, g)
    /\ tape' = Tail(tape)
    /\ UNCHANGED scene

Next == Read \/ Replay

Spec == Init /\ [][Next]_vars

(***************************************************************************)
(* What the journals report                                                *)
(***************************************************************************)
\* The line of a delivering option stays ongoing while its shares are held.
Ongoing(row) == \E lot \in ToSet(ctx.book) : IsOpen(lot) /\ row \in lot.delivered

\* The exit of a condor's leg that covers a unit; 0 while that unit is open.
ExitOfUnit(c, parent, contract, unit) ==
    LET of(x) == c.exitLog[x].parent = parent /\ c.exitLog[x].contract = contract
        upTo(x) == MapThenSumSet(LAMBDA y : c.exitLog[y].quantity,
                                 {y \in 1 .. x : of(y)})
        covering == {x \in DOMAIN c.exitLog : of(x) /\ unit <= upTo(x)}
    IN  IF covering = {} THEN 0 ELSE Min(covering)

\* One row per group of units that share their exits on every leg.
CondorRows(c, parent) ==
    LET composite == c.composites[parent]
        exits(unit) == [k \in 1 .. 4 |-> ExitOfUnit(c, parent, composite.legs[k], unit)]
        groups == {exits(unit) : unit \in 1 .. composite.quantity}
        event(e) == LET events == {c.exitLog[e[k]].exit.event : k \in 1 .. 4}
                    IN  IF events \cap {"assigned", "exercised"} # {} THEN "assigned"
                        ELSE IF events = {"expired"} THEN "expired" ELSE "buyback"
    IN  {[units |-> Cardinality({u \in 1 .. composite.quantity : exits(u) = e}),
          exits |-> e,
          event |-> IF \E k \in 1 .. 4 : e[k] = 0 THEN "open" ELSE event(e)] : e \in groups}

(***************************************************************************)
(* Properties                                                              *)
(***************************************************************************)
\* What the ledger itself says is held, event by event and trade by trade.
LedgerPositions(items) ==
    LET contracts == {Stock(t) : t \in {tx.contract.ticker : tx \in UNION {ToSet(i.txs) : i \in ToSet(items)}}}
                     \cup {tx.contract : tx \in UNION {ToSet(i.txs) : i \in ToSet(items)}}
                     \cup UNION {{Stock(i.event.from), Stock(i.event.to)} :
                                 i \in {x \in ToSet(items) : x.event.kind # "none"}}
        event(pos, e) ==
            CASE e.kind = "none" -> pos
              [] e.kind = "conversion" ->
                    LET moved == (pos[Stock(e.from)] * e.in) \div e.out
                    IN  [[pos EXCEPT ![Stock(e.from)] = 0] EXCEPT ![Stock(e.to)] = @ + moved]
              [] e.kind = "merger" ->
                    IF pos[Stock(e.from)] = 0 THEN pos
                    ELSE [[pos EXCEPT ![Stock(e.from)] = 0] EXCEPT ![Stock(e.to)] = @ + e.in]
        trade(pos, tx) == [pos EXCEPT ![tx.contract] = @ + tx.q]
    IN  FoldLeft(LAMBDA pos, i : FoldLeft(trade, event(pos, i.event), i.txs),
                 [c \in contracts |-> 0], items)

\* The lots open on a contract always add up to what the ledger's trades, its
\* deliveries and its corporate actions leave of it: no close, split, takeover,
\* delivery or conversion loses or invents a share or a contract; and the
\* positions captured for the reconciliation are those of the boundary.
PositionKept ==
    LET ledger == LedgerPositions(played)
        upTo == LedgerPositions(SelectSeq(played, LAMBDA i : i.when <= Boundary))
    IN  /\ \A c \in DOMAIN ledger : Position(ctx.book, c) = ledger[c]
        /\ \A lot \in ToSet(ctx.book) : IsOpen(lot) => lot.contract \in DOMAIN ledger
        /\ atBoundary.captured =>
                atBoundary.positions = {p \in {[contract |-> c, quantity |-> upTo[c]] :
                                                  c \in DOMAIN upTo} : p.quantity # 0}

Replayed(merger) ==
    \E r \in ToSet(ctx.rows) : r.event = "corporate_action" /\ r.endWhen = merger.when
CashOf(items) ==
    FoldLeft(LAMBDA sum, i :
        sum + (IF i.event.kind = "merger" /\ Replayed(i) THEN i.event.cash ELSE 0)
            + FoldLeft(LAMBDA n, tx : n + (IF tx.q = 0 THEN tx.price ELSE Amount(tx)), 0, i.txs),
        0, items)

\* The journals neither create nor lose money: what every closed row, every
\* open lot and every leg account for is the cash of the ledger replayed,
\* takeovers at the strike, partial closes, deliveries, cash settlements and
\* mergers included.
MoneyKept ==
    LET rows == FoldLeft(LAMBDA n, r : n + r.openTotal + r.closeTotal, 0, ctx.rows)
        open == FoldLeft(LAMBDA n, lot :
                    n + Share(lot.amount, Mag(lot.remaining), Most(1, Mag(lot.quantity))),
                    0, ctx.book)
        legs == FoldLeft(LAMBDA n, x : n + x.exit.amount, 0, ctx.exitLog)
        legBasis == FoldLeft(LAMBDA n, lot :
                        IF lot.parent = 0 THEN n
                        ELSE n + Share(lot.amount, Mag(lot.quantity) - Mag(lot.remaining),
                                       Mag(lot.quantity)),
                        0, ctx.book)
        waiting == FoldLeft(LAMBDA n, x : n + x.amount, 0, ctx.settlements)
        unread == FoldLeft(LAMBDA n, i :
                    n + FoldLeft(LAMBDA m, tx : IF tx.q = 0 THEN m + tx.price ELSE m, 0, i.txs),
                    0, tape)
    IN  rows + open + legs + legBasis + waiting - unread = CashOf(played)

\* Lots of a contract stay in the order of their purchase, whatever takeover
\* cut them and whatever conversion brought them among others: it is the order
\* the next corporate action and the next FIFO close rely on.
OldestFirst ==
    \A i, j \in DOMAIN ctx.book :
        (/\ i < j /\ IsOpen(ctx.book[i]) /\ IsOpen(ctx.book[j])
         /\ ctx.book[i].contract = ctx.book[j].contract)
            => ctx.book[i].rankWhen <= ctx.book[j].rankWhen

Settled(event) == event \in {"assigned", "exercised"}

\* A put assigned, or a call exercised, stays ongoing exactly while shares it
\* delivered are held - in whatever strategy, cut by a takeover or renamed by
\* a corporate action since; only a condor's leg delivers without a line of
\* its own.
OngoingWhileHeld ==
    LET held(when) == \E lot \in ToSet(ctx.book) :
                            IsOpen(lot) /\ <<when, "delivery">> \in lot.openIds
        ofLeg(when) == \E x \in DOMAIN ctx.exitLog :
                            /\ Settled(ctx.exitLog[x].exit.event)
                            /\ ctx.exitLog[x].exit.when = when
    IN  /\ \A r \in DOMAIN ctx.rows : Ongoing(r) => held(ctx.rows[r].endWhen)
        /\ \A i \in ToSet(played) :
                held(i.when) => \/ ofLeg(i.when)
                                \/ \E r \in DOMAIN ctx.rows :
                                        /\ Ongoing(r) /\ Settled(ctx.rows[r].event)
                                        /\ ctx.rows[r].endWhen = i.when

Tickers == {lot.contract.ticker : lot \in ToSet(ctx.book)}
Uncovered(book, ticker) ==
    Most(0, CallsCoveredBy(book, ticker, "shares") * PerContract - WheelShares(book, ticker))

\* A covered call sold is covered by the Wheel's own shares from then on: an
\* instant in which no share leaves never leaves more Wheel calls uncovered
\* than before, since the takeover brings in what the Wheel lacks.
CallsAreBacked ==
    [][(/\ played' # played /\ Head(tape).event.kind = "none"
        /\ \A tx \in ToSet(Head(tape).txs) : IsStock(tx.contract) => tx.q > 0)
        => \A t \in Tickers : Uncovered(ctx'.book, t) <= Uncovered(ctx.book, t)]_vars

\* The rows a mixed merger closes realize the P/L IB printed for it.
MergerRealizesItsPnl ==
    \A i \in ToSet(played) :
        LET rows == SelectSeq(ctx.rows, LAMBDA r : r.event = "corporate_action" /\ r.endWhen = i.when)
        IN  (i.event.kind = "merger" /\ rows # <<>>) =>
                FoldLeft(LAMBDA n, r : n + r.openTotal + r.closeTotal, 0, rows) = i.event.realizedPnl
==============================================================================
