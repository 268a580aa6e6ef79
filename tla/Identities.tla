----------------------------- MODULE Identities -----------------------------
(***************************************************************************)
(* packages/ledger, journals/identities.ts: the one name the journals use  *)
(* for a contract, from the spellings its sources listed (Contract         *)
(* Information, keyed by IB's conid) and from the corporate actions.       *)
(*                                                                         *)
(* A name is a root, the mark IB may add to it, and the expiry of a packed *)
(* option symbol, which stands for all its terms; 0 for a stock.  Instants *)
(* are days: nothing here looks closer.                                    *)
(***************************************************************************)
EXTENDS Integers, Sequences, FiniteSets, SequencesExt

CONSTANT Root

Name == [root : Root, mark : {"", "OLD", "1"}, expiry : Nat]

IsPackedOptionSymbol(name) == name.expiry # 0
TickerOf(name) == [name EXCEPT !.expiry = 0]
IsOld(name) == name.mark = "OLD"
WithoutOldSuffix(name) == IF IsOld(name) THEN [name EXCEPT !.mark = ""] ELSE name
RespellPackedOption(name, root) == [root EXCEPT !.expiry = name.expiry]

\* What TWS gives for an ISIN, and an option has.
NoIsin == 0

\* A contract is [conid, secType, isin, aliases], an alias [ticker, lastSeen, grafted].
Spells(contract, ticker) == \E i \in DOMAIN contract.aliases : contract.aliases[i].ticker = ticker

-----------------------------------------------------------------------------
(* The canonical name of a contract.                                       *)

\* A spelling a source wrote, then IB's own .OLD, then one no source wrote.
\* Mutant: a graft is a spelling like another.
TierByName(alias) == IF IsOld(alias.ticker) THEN 1 ELSE 0

TierOf(alias) == IF alias.grafted THEN 2 ELSE IF IsOld(alias.ticker) THEN 1 ELSE 0

\* The latest sighting first within a tier; the last one listed on a tie.
RanksBefore(aliases, i, j) ==
    LET a == aliases[i]
        b == aliases[j]
    IN  \/ TierOf(a) < TierOf(b)
        \/ TierOf(a) = TierOf(b) /\ a.lastSeen > b.lastSeen
        \/ TierOf(a) = TierOf(b) /\ a.lastSeen = b.lastSeen /\ i > j

CanonicalOf(aliases) ==
    aliases[CHOOSE i \in DOMAIN aliases :
               \A j \in DOMAIN aliases \ {i} : RanksBefore(aliases, i, j)].ticker

-----------------------------------------------------------------------------
(* Rules 7 and 8: the spellings that name a contract.                      *)

\* A stock's every alias; of an option's, the packed ones only: TWS and the statements
\* call an option by its underlying.
Named(contract) ==
    CASE contract.secType = "STK" -> contract
      [] contract.secType = "OPT" ->
            [contract EXCEPT !.aliases = SelectSeq(@, LAMBDA alias : IsPackedOptionSymbol(alias.ticker))]
      [] OTHER -> [contract EXCEPT !.aliases = <<>>]

NamedContracts(inputs) ==
    SelectSeq([i \in DOMAIN inputs |-> Named(inputs[i])], LAMBDA contract : contract.aliases # <<>>)

Graft(contract, ticker, day) ==
    [contract EXCEPT !.aliases = Append(@, [ticker |-> ticker, lastSeen |-> day, grafted |-> TRUE])]

GraftLeg(contract, leg, day) ==
    IF leg.isin # NoIsin /\ contract.isin = leg.isin /\ ~Spells(contract, leg.ticker)
    THEN Graft(contract, leg.ticker, day) ELSE contract

\* The spelling an action gave a leg belongs to the contract of that leg's ISIN.
GraftActionAliases(inputs, events) ==
    [i \in DOMAIN inputs |->
        FoldLeft(LAMBDA contract, event :
                    GraftLeg(GraftLeg(contract, event.from, event.when), event.to, event.when),
                 inputs[i], events)]

-----------------------------------------------------------------------------
(* Rules 1 to 6.                                                           *)

Claimants(contracts, ticker) ==
    {contract.conid : contract \in {c \in Range(contracts) : Spells(c, ticker)}}

CanonicalByConid(contracts, conid) ==
    CanonicalOf((CHOOSE c \in Range(contracts) : c.conid = conid).aliases)

\* The other leg of an action on this ticker, when it names one contract only.
OtherLeg(contracts, event, ticker) ==
    Claimants(contracts, IF event.from.ticker = ticker THEN event.to.ticker ELSE event.from.ticker)

\* Exactly one leg bears the ticker; the other one tells which contract it is of.
Links(contracts, event, ticker) ==
    /\ (event.from.ticker = ticker) # (event.to.ticker = ticker)
    /\ Cardinality(OtherLeg(contracts, event, ticker)) = 1
    /\ OtherLeg(contracts, event, ticker) \subseteq Claimants(contracts, ticker)

\* The actions that separate the contracts of an ambiguous ticker: one is needed, and one
\* only.
\* Mutant: the first one of several will do.
DateAmbiguousByFirst(contracts, events, ticker) ==
    LET links == {event \in Range(events) : Links(contracts, event, ticker)} IN
    {event \in links : \A other \in links : event.when <= other.when}

DateAmbiguous(contracts, events, ticker) ==
    LET links == {event \in Range(events) : Links(contracts, event, ticker)} IN
    IF Cardinality(Claimants(contracts, ticker)) = 2 /\ Cardinality(links) = 1 THEN links ELSE {}

\* The contract a ticker means at an instant of the action that dates it: `from` is the
\* one before it, `to` the one from its own instant on.
\* Mutant: the instant of the action is still before it.
DatedConidLate(contracts, event, ticker, when) ==
    LET other == CHOOSE conid \in OtherLeg(contracts, event, ticker) : TRUE
        mine == CHOOSE conid \in Claimants(contracts, ticker) : conid # other
    IN  IF (when <= event.when) = (event.from.ticker = ticker) THEN mine ELSE other

DatedConid(contracts, event, ticker, when) ==
    LET other == CHOOSE conid \in OtherLeg(contracts, event, ticker) : TRUE
        mine == CHOOSE conid \in Claimants(contracts, ticker) : conid # other
    IN  IF (when < event.when) = (event.from.ticker = ticker) THEN mine ELSE other

Canonical(contracts, events, ticker, when) ==
    LET owners == Claimants(contracts, ticker)
        dating == DateAmbiguous(contracts, events, ticker)
    IN  CASE Cardinality(owners) = 1 -> CanonicalByConid(contracts, CHOOSE conid \in owners : TRUE)
          [] Cardinality(owners) > 1 /\ dating # {} ->
                CanonicalByConid(contracts,
                    DatedConid(contracts, CHOOSE event \in dating : TRUE, ticker, when))
          [] OTHER -> ticker

Tickers(contracts) ==
    UNION {{c.aliases[i].ticker : i \in DOMAIN c.aliases} : c \in Range(contracts)}

\* Rule 6: the tickers left alone, and reported.
Unresolved(contracts, events) ==
    {ticker \in Tickers(contracts) :
        Cardinality(Claimants(contracts, ticker)) > 1 /\ DateAmbiguous(contracts, events, ticker) = {}}

-----------------------------------------------------------------------------
(* Rule 9: an option follows the conversion, one for one, of its stock.    *)

OptionsSpelling(contracts, ticker) ==
    {c \in Range(contracts) : c.secType = "OPT" /\ Spells(c, ticker)}

\* Another option has these terms under the arrival's root and a digit: that one is the
\* renamed option, and this one the acquirer's own.
\* Mutant: nobody looks.
HasNoSibling(contracts, name, conid) == FALSE

HasSuffixedSibling(contracts, name, conid) ==
    \E c \in Range(contracts) :
        c.secType = "OPT" /\ c.conid # conid /\ Spells(c, [name EXCEPT !.mark = "1"])

RenamesOptions(event) ==
    ~event.cash /\ event.from.quantity < 0 /\ event.to.quantity = -event.from.quantity

Arrivals(contracts, events, event) ==
    {event.to.ticker, Canonical(contracts, events, event.to.ticker, event.when)}

\* The names the underlying wore before: what the trades of that time are filed under.
Departures(working, arrivals, event) ==
    ({WithoutOldSuffix(event.from.ticker)} \cup
       {ticker \in Tickers(SelectSeq(working, LAMBDA c : Spells(c, event.from.ticker))) : ~IsOld(ticker)})
    \ arrivals

\* The aliases of an option that prove it bears the arrival's name after the action.
Arrived(contracts, contract, arrivals, day) ==
    {contract.aliases[i].ticker : i \in
       {k \in DOMAIN contract.aliases :
          LET name == contract.aliases[k].ticker IN
          /\ contract.secType = "OPT" /\ IsPackedOptionSymbol(name)
          /\ TickerOf(name) \in arrivals
          /\ Cardinality(OptionsSpelling(contracts, name)) <= 1
          /\ name.expiry >= day
          /\ ~HasSuffixedSibling(contracts, name, contract.conid)}}

\* What one action grafts: a spelling some contract claims stays its own, and two options
\* that could take the same one are served in order.
FollowEvent(contracts, events, working, event) ==
    LET arrivals == Arrivals(contracts, events, event)
        departures == Departures(working, arrivals, event)
        spellings == [i \in DOMAIN working |->
            {RespellPackedOption(name, departure) :
                name \in Arrived(contracts, working[i], arrivals, event.when), departure \in departures}
            \ Tickers(working)]
        served(i) == spellings[i] \ UNION {spellings[j] : j \in 1..(i - 1)}
    IN  IF ~RenamesOptions(event) THEN working
        ELSE [i \in DOMAIN working |->
                FoldLeft(LAMBDA contract, spelling : Graft(contract, spelling, event.when),
                         working[i], SetToSeq(served(i)))]

\* Newest first: a ticker renamed twice grafts the middle name, then the first.
FollowUnderlyingRenames(contracts, events) ==
    FoldLeft(LAMBDA working, event : FollowEvent(contracts, events, working, event),
             contracts, Reverse(events))

BuildIdentities(inputs, events) ==
    FollowUnderlyingRenames(NamedContracts(GraftActionAliases(inputs, events)), events)
=============================================================================
