------------------------------ MODULE MCJournals ------------------------------
(***************************************************************************)
(* Small ledgers for the journals, drawn scene by scene: what one account  *)
(* does with puts, shares and covered calls; with a LEAPS beside them;     *)
(* with condors; across a split, a change of ticker and a merger; with     *)
(* shares sold beside the buyback of their call.  Beside them, the         *)
(* versions of the code that draws them (Updates): the two share no        *)
(* variable; a behaviour is about one of them, the other stays in one      *)
(* fixed initial state.                                                    *)
(*                                                                         *)
(* A contract is two shares, so that a lot may hold half a contract.       *)
(* Expiries are instants: "near" ones are short of LeapsMin.               *)
(***************************************************************************)
EXTENDS StrategyPages, Updates

VARIABLE about

S == Stock("X")
Y == Stock("Y")
Put == Option("X", "P", 4, 9)
Call == Option("X", "C", 6, 9)
LowCall == Option("X", "C", 2, 9)
Leaps == Option("X", "C", 4, 99)
Wing(right, strike) == Option("X", right, strike, 9)

Trade(contract, q, price) == [contract |-> contract, q |-> q, price |-> price, fee |-> TRUE]
Settle(contract, q) == [contract |-> contract, q |-> q, price |-> 0, fee |-> FALSE]
Deliver(q, strike) == [contract |-> S, q |-> q, price |-> strike, fee |-> FALSE]
Cash(contract, amount) == [contract |-> contract, q |-> 0, price |-> amount, fee |-> FALSE]
Just(txs) == [event |-> NoEvent, txs |-> txs]
Action(e, txs) == [event |-> e, txs |-> txs]

WheelInstants == {
    Just(<<Trade(S, 2, 2)>>), Just(<<Trade(S, 3, 6)>>), Just(<<Trade(S, -2, 4)>>),
    Just(<<Trade(Put, -1, 1)>>), Just(<<Settle(Put, 1), Deliver(2, 4)>>),
    Just(<<Trade(Call, -1, 1)>>), Just(<<Trade(LowCall, -2, 2)>>),
    Just(<<Settle(Call, 1), Deliver(-2, 6)>>), Just(<<Settle(Call, 1)>>),
    Just(<<Trade(LowCall, 1, 1), Trade(S, -1, 4)>>)}

LeapsInstants == {
    Just(<<Trade(S, 2, 2)>>), Just(<<Trade(S, -2, 6)>>),
    Just(<<Trade(Leaps, 1, 2), Trade(Call, -1, 1)>>), Just(<<Trade(Leaps, 2, 2)>>),
    Just(<<Trade(Call, -2, 1)>>), Just(<<Settle(Leaps, -1), Deliver(2, 4)>>),
    Just(<<Settle(Put, 1), Settle(Leaps, -1), Deliver(2, 4)>>),
    Just(<<Trade(Put, -1, 1)>>), Just(<<Trade(Leaps, -1, 3)>>)}

Condor(n) == Just(<<Trade(Wing("P", 2), n, 1), Trade(Wing("P", 4), -n, 2),
                    Trade(Wing("C", 6), -n, 2), Trade(Wing("C", 8), n, 1)>>)
\* Its put wing is the wider, and its legs come in no order.
WideCondor == Just(<<Trade(Wing("C", 8), 1, 1), Trade(Wing("P", 4), -1, 2),
                     Trade(Wing("P", 1), 1, 1), Trade(Wing("C", 6), -1, 2)>>)
CondorInstants == {
    Condor(1), Condor(2), WideCondor, Just(<<Trade(Wing("C", 8), -1, 1)>>),
    Just(<<Trade(Wing("P", 2), -1, 2), Trade(Wing("C", 6), 2, 1), Trade(Wing("P", 4), 1, 1)>>),
    Just(<<Settle(Wing("P", 2), -2), Settle(Wing("P", 4), 2), Settle(Wing("C", 6), 2),
           Settle(Wing("C", 8), -2)>>),
    Just(<<Settle(Wing("C", 6), 1), Cash(Wing("C", 6), -3)>>),
    Just(<<Settle(Wing("C", 6), 1), Deliver(-2, 6)>>), Just(<<Trade(S, 2, 2)>>)}

Rename == [kind |-> "conversion", from |-> "X", to |-> "Y", out |-> 2, in |-> 2]
Split == [kind |-> "conversion", from |-> "X", to |-> "X", out |-> 1, in |-> 2]
Merger(cash, pnl) ==
    [kind |-> "merger", from |-> "X", to |-> "Y", out |-> 2, in |-> 1,
     cash |-> cash, realizedPnl |-> pnl]

\* Prices that keep the figures exact through three splits.
HighCall == Option("X", "C", 16, 9)
HighLeaps == Option("X", "C", 16, 99)
CorporateInstants == {
    Just(<<Trade(S, 2, 16)>>), Just(<<Trade(S, -1, 16)>>), Just(<<Trade(Y, 2, 8)>>),
    Action(Rename, <<>>), Action(Split, <<Trade(S, -1, 8)>>),
    Just(<<Trade(HighCall, -1, 1)>>), Just(<<Trade(HighLeaps, 1, 2)>>),
    Just(<<Settle(HighLeaps, -1), Deliver(2, 16)>>)}

\* Prices that keep the split of the basis exact for up to four lots.
HighPut == Option("X", "P", 12, 9)
MergerInstants == {
    Just(<<Trade(S, 2, 12)>>), Just(<<Trade(HighPut, -1, 1)>>), Just(<<Trade(Y, 2, 4)>>),
    Just(<<Settle(HighPut, 1), Deliver(2, 12)>>), Action(Merger(24, 12), <<>>),
    Just(<<Trade(Y, -1, 4)>>)}

BuybackInstants == {
    Just(<<Trade(S, 4, 2)>>), Just(<<Trade(S, 2, 6)>>), Just(<<Trade(S, -2, 4)>>),
    Just(<<Trade(LowCall, -1, 2)>>), Just(<<Trade(LowCall, 1, 1)>>),
    Just(<<Trade(Call, -1, 1)>>)}

MCScene == {"wheel", "leaps", "condor", "corporate", "merger", "buyback"}
MCInstants(s) ==
    CASE s = "wheel" -> WheelInstants [] s = "leaps" -> LeapsInstants
      [] s = "condor" -> CondorInstants [] s = "corporate" -> CorporateInstants
      [] s = "merger" -> MergerInstants [] s = "buyback" -> BuybackInstants
      [] s = "sold" -> MergerInstants \cup {Just(<<Trade(S, -1, 14)>>)}
MCGaps(s) == IF s = "buyback" THEN {1, 3} ELSE {2}
MCActive(s) == IF s = "condor" THEN {"wheel", "condors"} ELSE {"wheel", "leaps", "condors"}

SoldScene == {"sold"}

MCInit ==
    /\ about \in {"journals", "updates"}
    /\ Init /\ (about = "updates" => scene = CHOOSE s \in Scene : TRUE)
    /\ UpdatesInit

MCNext ==
    \/ about = "journals" /\ Next /\ UNCHANGED <<about, updateVars>>
    \/ about = "updates" /\ UpdatesNext /\ UNCHANGED <<about, vars>>

MCSpec == MCInit /\ [][MCNext]_<<about, vars, updateVars>> /\ UpdatesFairness
==============================================================================
