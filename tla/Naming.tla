------------------------------- MODULE Naming -------------------------------
(***************************************************************************)
(* The names of Identities at work: what happens to a few contracts, the   *)
(* statements that report it, imported in any order, and the replay that   *)
(* must give back what is held of each contract (journals/replay.ts,       *)
(* journals/corporate.ts, db/contracts.ts).                                *)
(*                                                                         *)
(* External, from the comments of identities.ts: stock i may be converted  *)
(* into stock i + 1, which takes its ticker over or has its own; the       *)
(* option follows, keeping its terms, unless the acquirer's own option has *)
(* them already; a stock may change its ticker without an event.  A        *)
(* statement lists every spelling of its period, but those before an       *)
(* action of an option it renamed, and the one an action gave a stock that *)
(* has changed it since.  One thing happens per day.                       *)
(***************************************************************************)
EXTENDS Identities

CONSTANTS
    Stocks,         \* bound: how many stocks a chain of actions goes through
    Days,           \* bound: days with an event or a trade
    MaxTrades,      \* bound: rows of the ledger
    MaxHeld,        \* bound: quantity of a stock
    MaxFiles        \* bound: statements

ASSUME NamingAssumption == /\ Stocks \in Nat \ {0} /\ Days \in Nat
                           /\ MaxTrades \in Nat /\ MaxHeld \in Nat /\ MaxFiles \in Nat

Stock == 1..Stocks
Option == Stocks + 1
Rival == Stocks + 2                 \* the option of stock 2 at the same terms, if any
Contract == 1..(Stocks + 2)
Unlisted == [root |-> 0, mark |-> "", expiry |-> 0]   \* not listed: no root is 0

VARIABLES
    day,
    expiry,         \* of both options
    wears,          \* the name of each contract
    under,          \* the stock the option is written on
    held,           \* what the account holds
    adjusted,       \* the option's terms are no longer the standard ones
    strangers,      \* an unrelated stock was listed under a ticker once worn
    trades,         \* the rows of the ledger, with no contract but its name
    events,         \* the corporate actions, both legs paired
    spelled,        \* what the statement of the open period will list of each contract
    seen,           \* the contracts it will list
    files,          \* the statements not imported yet
    written,        \* how many were
    records         \* db.contracts: the aliases of each conid, in order

namingVars == <<day, expiry, wears, under, held, adjusted, strangers, trades, events,
                spelled, seen, files, written, records>>
market == <<expiry, wears, under, adjusted, strangers, events>>
store == <<files, written, records>>

Ticker(root) == [root |-> root, mark |-> "", expiry |-> 0]
Names == [root : Root, mark : {"", "OLD", "1"}, expiry : {0, expiry}]
UsedRoots == {wears[c].root : c \in {d \in Contract : wears[d] # Unlisted}}
             \cup {t.ticker.root : t \in trades}
             \cup {e.from.ticker.root : e \in Range(events)}
             \cup {e.to.ticker.root : e \in Range(events)}
             \cup UNION {{name.root : name \in Range(spelled[c])} : c \in Contract}
FreshRoots == LET free == {root \in Root : \A used \in UsedRoots : root > used} IN
              {root \in free : \A other \in free : root <= other}

NamingInit ==
    /\ day = 0 /\ expiry \in {2, Days + 1}
    /\ wears \in {[c \in Contract |->
                     CASE c = 1 -> Ticker(1)
                       [] c = Option -> [Ticker(1) EXCEPT !.expiry = expiry]
                       [] c = 2 /\ second -> Ticker(2)
                       [] c = Rival /\ rival -> [Ticker(2) EXCEPT !.expiry = expiry]
                       [] OTHER -> Unlisted] :
                   second \in BOOLEAN, rival \in BOOLEAN}
    /\ wears[Rival] # Unlisted => wears[2] # Unlisted
    /\ under = 1 /\ adjusted = FALSE /\ strangers = FALSE
    /\ held = [c \in Contract |-> 0]
    /\ trades = {} /\ events = <<>>
    /\ spelled = [c \in Contract |-> IF wears[c] = Unlisted THEN <<>> ELSE <<wears[c]>>]
    /\ seen = {} /\ files = {} /\ written = 0
    /\ records = [c \in Contract |-> <<>>]

-----------------------------------------------------------------------------
(* The market and the account.                                             *)

NextDay == day < Days /\ day' = day + 1

SecType(c) == IF c \in Stock THEN "STK" ELSE "OPT"

\* A stock that was converted is no longer traded, nor an option that has expired.
Traded(c) == /\ wears[c] # Unlisted
             /\ c \in Stock => wears[c].mark # "OLD"
             /\ c \notin Stock => day < expiry

\* Bound: one contract of an option, bought or sold.
Trade(c, quantity) ==
    /\ NextDay /\ Traded(c) /\ Cardinality(trades) < MaxTrades
    /\ held[c] + quantity \in IF c \in Stock THEN 0..MaxHeld ELSE -1..1
    /\ held' = [held EXCEPT ![c] = @ + quantity]
    /\ trades' = trades \cup {[ticker |-> wears[c], secType |-> SecType(c), when |-> day',
                               quantity |-> quantity]}
    /\ seen' = seen \cup {c}
    /\ UNCHANGED <<market, spelled, store>>

Spelling(names, name) == IF name \in Range(names) THEN names ELSE Append(names, name)

\* A ticker changes with no event: the options on it change with it.
Rename(i) ==
    /\ NextDay /\ Traded(i) /\ i = under
    /\ \E root \in FreshRoots, brief \in BOOLEAN :
         LET name == Ticker(root)
             option == RespellPackedOption(wears[Option], name)
             follows == ~adjusted /\ day < expiry
             changed == {i} \cup (IF follows THEN {Option} ELSE {})
         IN  /\ brief => \E e \in Range(events) : e.to.ticker = wears[i] /\ e.to.isin = i
             /\ wears' = [wears EXCEPT ![i] = name, ![Option] = IF follows THEN option ELSE @]
             /\ spelled' = [spelled EXCEPT
                  ![i] = IF brief THEN <<name>> ELSE Spelling(@, name),
                  ![Option] = IF follows THEN Spelling(@, option) ELSE @]
             /\ seen' = seen \cup {c \in changed : held[c] # 0}
    /\ wears[Rival] = Unlisted
    /\ UNCHANGED <<expiry, under, held, adjusted, strangers, trades, events, store>>

\* An unrelated stock is listed under a ticker that another wore.
Reissue(i) ==
    /\ i + 1 \in Stock /\ wears[i + 1] = Unlisted /\ under = i /\ ~strangers
    /\ \E t \in trades :
          /\ t.secType = "STK" /\ \A c \in Stock : wears[c] # t.ticker
          /\ wears' = [wears EXCEPT ![i + 1] = t.ticker]
          /\ spelled' = [spelled EXCEPT ![i + 1] = <<t.ticker>>]
    /\ strangers' = TRUE
    /\ UNCHANGED <<day, expiry, under, held, adjusted, trades, events, seen, store>>

\* Stock i becomes stock i + 1.  Bound: a chain of actions has no rival option.
Convert(i, ratio, cash) ==
    /\ NextDay /\ Traded(i) /\ i + 1 \in Stock /\ i = under /\ ~strangers
    /\ i > 1 => wears[Rival] = Unlisted
    /\ held[i] > 0 /\ held[i + 1] + ratio * held[i] <= MaxHeld
    /\ \E name \in (IF wears[i + 1] # Unlisted THEN {wears[i + 1]}
                    ELSE {wears[i]} \cup {Ticker(root) : root \in FreshRoots}),
          brief \in BOOLEAN :
         LET alive == day < expiry
             standard == ratio = 1 /\ ~cash /\ wears[Rival] = Unlisted /\ ~adjusted
             option == [RespellPackedOption(wears[Option], name) EXCEPT !.mark = IF standard THEN "" ELSE "1"]
             old == [wears[i] EXCEPT !.mark = "OLD"]
         IN  /\ wears' = [wears EXCEPT ![i] = old, ![i + 1] = name, ![Option] = IF alive THEN option ELSE @]
             /\ spelled' = [spelled EXCEPT
                  ![i] = Spelling(@, old),
                  ![i + 1] = Spelling(@, name),
                  ![Option] = IF ~alive THEN @ ELSE IF brief THEN <<option>> ELSE Spelling(@, option)]
             /\ adjusted' = (adjusted \/ (alive /\ ~standard))
             /\ events' = Append(events,
                  [when |-> day', cash |-> cash,
                   from |-> [ticker |-> old, isin |-> i, quantity |-> -held[i]],
                   to |-> [ticker |-> name, isin |-> i + 1, quantity |-> ratio * held[i]]])
    /\ under' = i + 1
    /\ held' = [held EXCEPT ![i] = 0, ![i + 1] = @ + ratio * held[i]]
    /\ seen' = seen \cup {i, i + 1} \cup (IF held[Option] # 0 THEN {Option} ELSE {})
    /\ UNCHANGED <<expiry, strangers, trades, store>>

-----------------------------------------------------------------------------
(* The statements.                                                         *)

\* Contract Information lists what was traded, moved or held.
Cut ==
    /\ written < MaxFiles /\ seen # {}
    /\ files' = files \cup {[end |-> day, info |->
          [c \in Contract |-> IF c \in seen \/ held[c] # 0 THEN spelled[c] ELSE <<>>]]}
    /\ written' = written + 1
    /\ spelled' = [c \in Contract |-> IF wears[c] = Unlisted THEN <<>> ELSE <<wears[c]>>]
    /\ seen' = {}
    /\ UNCHANGED <<day, market, held, trades, records>>

\* One spelling of a file: the window of an alias only widens.
\* Mutant: the last file imported sets it.
WidenedLast(aliases, ticker, end) ==
    IF \E i \in DOMAIN aliases : aliases[i].ticker = ticker
    THEN [i \in DOMAIN aliases |->
            IF aliases[i].ticker = ticker THEN [aliases[i] EXCEPT !.lastSeen = end] ELSE aliases[i]]
    ELSE Append(aliases, [ticker |-> ticker, lastSeen |-> end, grafted |-> FALSE])

Widened(aliases, ticker, end) ==
    IF \E i \in DOMAIN aliases : aliases[i].ticker = ticker
    THEN [i \in DOMAIN aliases |->
            IF aliases[i].ticker = ticker /\ end > aliases[i].lastSeen
            THEN [aliases[i] EXCEPT !.lastSeen = end] ELSE aliases[i]]
    ELSE Append(aliases, [ticker |-> ticker, lastSeen |-> end, grafted |-> FALSE])

\* mergeContractRecords.
Import(file) ==
    /\ files' = files \ {file}
    /\ records' = [c \in Contract |->
          FoldLeft(LAMBDA aliases, ticker : Widened(aliases, ticker, file.end), records[c], file.info[c])]
    /\ UNCHANGED <<day, market, held, trades, spelled, seen, written>>

NamingNext ==
    \/ \E c \in Contract, quantity \in {-1, 1} : Trade(c, quantity)
    \/ \E i \in Stock : Rename(i) \/ Reissue(i)
    \/ \E i \in Stock, ratio \in {1, 2}, cash \in BOOLEAN : Convert(i, ratio, cash)
    \/ Cut
    \/ \E file \in files : Import(file)

-----------------------------------------------------------------------------
(* The replay, for quantities.                                             *)

\* readIdentityInputs: TWS and the options have no ISIN.
Inputs == [c \in Contract |-> [conid |-> c, secType |-> SecType(c),
                               isin |-> IF c \in Stock THEN c ELSE NoIsin, aliases |-> records[c]]]

Contracts == BuildIdentities(Inputs, events)

\* canonicalize: only the root of an option may change.
Renamed(contracts, trade) ==
    LET name == Canonical(contracts, events, trade.ticker, trade.when) IN
    IF trade.secType = "OPT" /\ name.expiry # trade.ticker.expiry THEN trade.ticker ELSE name

\* resolveLegs: the outgoing leg as it was called just before.
Outgoing(contracts, event) ==
    WithoutOldSuffix(Canonical(contracts, events, event.from.ticker, event.when - 1))
Incoming(contracts, event) == Canonical(contracts, events, event.to.ticker, event.when)

\* applyConversion scales what the book holds, applyMixedMerger replaces it.
ReplayedEvent(contracts, book, event) ==
    LET from == Outgoing(contracts, event)
        to == Incoming(contracts, event)
        arriving == IF event.cash THEN event.to.quantity
                    ELSE (book[from] * event.to.quantity) \div (-event.from.quantity)
    IN  IF book[from] = 0 THEN book
        ELSE [[book EXCEPT ![from] = 0] EXCEPT ![to] = @ + arriving]

ReplayedTrade(contracts, book, trade) ==
    [book EXCEPT ![Renamed(contracts, trade)] = @ + trade.quantity]

Book(contracts) ==
    LET none == [name \in Names |-> 0]
        happening(d) == {e \in Range(events) : e.when = d} \cup {t \in trades : t.when = d}
        replayed(book, d) ==
            IF happening(d) = {} THEN book
            ELSE LET h == CHOOSE x \in happening(d) : TRUE IN
                 IF "ticker" \in DOMAIN h THEN ReplayedTrade(contracts, book, h)
                 ELSE ReplayedEvent(contracts, book, h)
    IN  FoldLeft(replayed, none, [d \in 1..day |-> d])

-----------------------------------------------------------------------------
AllRead == seen = {} /\ files = {}

\* The name of a contract today, and whether another listed contract answers to it.
NameOf(contracts, c) == Canonical(contracts, events, wears[c], day)
Alone(contracts, c) == \A other \in Contract \ {c} :
    wears[other] # Unlisted => NameOf(contracts, other) # NameOf(contracts, c)

\* A contract one of whose names is reported as ambiguous, or that was converted from one.
Reported(contracts, c) ==
    \E b \in Contract, ticker \in Unresolved(contracts, events) :
        /\ b \in Claimants(contracts, ticker)
        /\ b = c \/ (b < c /\ \A i \in (b + 1)..c : \E e \in Range(events) : e.to.isin = i)

\* Whatever the tickers did, and in whatever order the statements were imported, the
\* journals hold of each contract what the account holds: two contracts are never taken
\* for one, nor one for two, unless the ticker is reported, or the option was adjusted.
\* What is still held goes by the name it bears today, which TWS and the quotes know.
PositionsFollowTheNames ==
    AllRead =>
        LET contracts == Contracts
            book == Book(contracts)
        IN  \A c \in Contract :
              wears[c] # Unlisted /\ ~Reported(contracts, c) /\ ~(c = Option /\ adjusted)
              /\ (held[c] # 0 \/ Alone(contracts, c))
                 => /\ book[NameOf(contracts, c)] = held[c]
                    /\ held[c] # 0 => NameOf(contracts, c) = wears[c]

NamingSpec == NamingInit /\ [][NamingNext]_namingVars
=============================================================================
