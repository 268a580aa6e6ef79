------------------------------ MODULE FifoLock ------------------------------
(***************************************************************************)
(* What the import lock promises: one line of jobs per account, first come *)
(* first served, whose head holds the lock.  Two accounts share nothing.   *)
(* ImportLock.tla implements it.                                           *)
(***************************************************************************)
EXTENDS Sequences

CONSTANTS Account, Job, AccountOf

VARIABLE line       \* [Account -> Seq(Job)]

Waits(j) == \E i \in DOMAIN line[AccountOf[j]] : line[AccountOf[j]][i] = j

Init == line = [a \in Account |-> <<>>]

Join(j) ==
    /\ ~Waits(j)
    /\ line' = [line EXCEPT ![AccountOf[j]] = Append(@, j)]

Leave(a) ==
    /\ line[a] # <<>>
    /\ line' = [line EXCEPT ![a] = Tail(@)]

Next == (\E j \in Job : Join(j)) \/ (\E a \in Account : Leave(a))

Spec == Init /\ [][Next]_line
=============================================================================
