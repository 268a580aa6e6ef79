----------------------------- MODULE CashBalances -----------------------------
(***************************************************************************)
(* The cash of an account: the running balances of its ledger, anchored on *)
(* the Cash Reports of its files (cash.ts), as the History, the Positions  *)
(* page and the Consistency page show them.                                *)
(*                                                                         *)
(* Beside the ledger stands the account itself, as IB keeps it: every row, *)
(* the ones the ledger never got included, each with figures the ledger    *)
(* may not have read.  A report states the account's own balances.         *)
(***************************************************************************)
EXTENDS Integers, Sequences

CONSTANTS
    Currencies,     \* BALANCE_CURRENCIES
    Opening,        \* the balance of each currency before the first row
    RowKinds,       \* rows: [pair, currency, base, amount, quantity, commission, unread]
    LastDay,        \* bound: days
    MaxRows         \* bound: rows of the account

NoPoint == [asOf |-> 0, amount |-> 0]

ASSUME CashAssumption ==
    /\ {LastDay, MaxRows} \subseteq Nat
    /\ RowKinds = {row \in RowKinds :
            row.pair \in BOOLEAN /\ {row.amount, row.quantity, row.commission} \subseteq Int}
    /\ Opening \in [Currencies -> Int]

VARIABLES
    today,          \* the current day
    account,        \* the account: its rows in the order of their instants, each with its day
    ledger,         \* the rows the ledger holds, by their place in the account
    points          \* cashPoints: for each currency the start and end points, or NoPoint

cashVars == <<today, account, ledger, points>>

Figure(row, field) == IF field \in row.unread THEN 0 ELSE row[field]

\* What a row moved in a currency, in truth: the commission of a conversion is in its base.
TrueImpact(row, currency) ==
    IF row.pair THEN (IF row.currency = currency THEN row.amount ELSE 0)
                     + (IF row.base = currency THEN row.quantity + row.commission ELSE 0)
    ELSE IF row.currency = currency THEN row.amount + row.commission ELSE 0

\* Mutant: the commission of a conversion is charged in the currency it quotes.
CashImpactWithCommission(row) ==
    IF "amount" \in row.unread THEN 0 ELSE row.amount + Figure(row, "commission")

\* cashImpact: a row without a readable amount moves nothing, its commission included.
CashImpact(row) ==
    IF "amount" \in row.unread THEN 0
    ELSE IF row.pair THEN row.amount ELSE row.amount + Figure(row, "commission")

\* What runningBalances adds for one row.
Counted(row, currency) ==
    (IF row.currency = currency THEN CashImpact(row) ELSE 0)
    + (IF row.pair /\ row.base = currency THEN Figure(row, "quantity") + Figure(row, "commission") ELSE 0)

\* The running total of the rows, in their order.
Total(moves) ==
    LET upTo[n \in 0..Len(moves)] == IF n = 0 THEN 0 ELSE upTo[n - 1] + moves[n]
    IN  upTo[Len(moves)]

\* The raw balance over the rows held of these days.
RawBalance(currency, days) ==
    Total([i \in DOMAIN account |->
              IF i \in ledger /\ account[i].day \in days THEN Counted(account[i].row, currency) ELSE 0])

\* Mutant: the rows of the end point's own day come after it.
OffsetBefore(currency) ==
    LET end == points[currency].end
    IN  IF end = NoPoint THEN 0 ELSE end.amount - RawBalance(currency, 1..(end.asOf - 1))

\* anchoredBalances: the balance at the close of the end point's day is its Ending Cash.
Offset(currency) ==
    LET end == points[currency].end
    IN  IF end = NoPoint THEN 0 ELSE end.amount - RawBalance(currency, 1..end.asOf)

\* At the close of the day before the start point, against its Starting Cash.
Gap(currency) ==
    LET start == points[currency].start
    IN  RawBalance(currency, 1..(start.asOf - 1)) + Offset(currency) - start.amount

\* currentCashBalances, of a currency some Cash Report anchors: on an empty ledger, the Ending Cash.
CurrentCash(currency) == RawBalance(currency, 1..today) + Offset(currency)

-----------------------------------------------------------------------------
TrueBalance(currency, days) ==
    Opening[currency]
    + Total([i \in DOMAIN account |-> IF account[i].day \in days THEN TrueImpact(account[i].row, currency) ELSE 0])

\* A row happens today; the ledger gets it at once - the agent's execution - or not.
Happen ==
    /\ Len(account) < MaxRows
    /\ \E kind \in RowKinds : account' = Append(account, [row |-> kind, day |-> today])
    /\ ledger' \in {ledger, ledger \cup {Len(account')}}
    /\ UNCHANGED <<today, points>>

\* A file brings a row it had missed.
Recover(i) == i \notin ledger /\ ledger' = ledger \cup {i} /\ UNCHANGED <<today, account, points>>

Midnight == today < LastDay /\ today' = today + 1 /\ UNCHANGED <<account, ledger, points>>

\* The Cash Report of a period over: mergeCashPoints keeps the oldest start, the latest end.
Report(from, to, listed) ==
    /\ from <= to /\ to < today
    /\ points' = [currency \in Currencies |->
          LET old == points[currency]
              start == [asOf |-> from, amount |-> TrueBalance(currency, 1..(from - 1))]
              end == [asOf |-> to, amount |-> TrueBalance(currency, 1..to)]
          IN  IF currency \notin listed THEN old
              ELSE [start |-> IF old.start = NoPoint \/ from <= old.start.asOf THEN start ELSE old.start,
                    end |-> IF old.end = NoPoint \/ to >= old.end.asOf THEN end ELSE old.end]]
    /\ UNCHANGED <<today, account, ledger>>

CashInit ==
    /\ today = 1 /\ account = <<>> /\ ledger = {}
    /\ points = [currency \in Currencies |-> [start |-> NoPoint, end |-> NoPoint]]

CashNext ==
    \/ Happen \/ Midnight
    \/ \E i \in DOMAIN account : Recover(i)
    \/ \E from, to \in 1 .. LastDay, listed \in (SUBSET Currencies \ {{}}) : Report(from, to, listed)

CashSpec == CashInit /\ [][CashNext]_cashVars

-----------------------------------------------------------------------------
\* What a row held leaves out: the figures that could not be read, and with an amount the
\* commission beside it.
LeftOut(row, currency) ==
    LET lost(field) == IF field \in row.unread THEN row[field] ELSE 0
    IN  IF row.pair THEN (IF row.currency = currency THEN lost("amount") ELSE 0)
                         + (IF row.base = currency THEN lost("quantity") + lost("commission") ELSE 0)
        ELSE IF row.currency # currency THEN 0
        ELSE IF "amount" \in row.unread THEN row.amount + row.commission ELSE lost("commission")

\* What the ledger has wrong of a currency over some days: the rows it lacks, and the figures
\* left out of those it holds.
Wrong(currency, days) ==
    Total([i \in DOMAIN account |->
              IF account[i].day \notin days THEN 0
              ELSE IF i \in ledger THEN LeftOut(account[i].row, currency) ELSE TrueImpact(account[i].row, currency)])

\* The gap shown is exactly what the history has wrong from the Starting Cash to the Ending
\* Cash, and the balance shown is the account's but for what it has wrong since: a row missing
\* before the first report or a commission in the other currency never shows as either.
CashIsAccountedFor ==
    \A currency \in Currencies : LET start == points[currency].start
                                     end == points[currency].end IN
        end # NoPoint =>
            /\ Gap(currency) = Wrong(currency, start.asOf..end.asOf)
            /\ CurrentCash(currency) =
                  TrueBalance(currency, 1..today) - Wrong(currency, (end.asOf + 1)..today)
=============================================================================
