----------------------------- MODULE ImportLock -----------------------------
(***************************************************************************)
(* apps/web/src/db/importLock.ts: one import at a time per account of a    *)
(* tab, whatever its origin.  A lane is a queue of closures and a running  *)
(* flag; the closure under way is the one drain shifted last, and it calls *)
(* drain itself once its promise has settled, resolved or rejected.        *)
(*                                                                         *)
(* A job is a call of withImportLock and what it runs is left open here:   *)
(* AccountWriters.tla gives the jobs of an account their bodies.           *)
(***************************************************************************)
EXTENDS Sequences

CONSTANTS
    Account,
    Job,
    AccountOf,      \* [Job -> Account]: the lane the job asks for
    NoJob           \* no closure is under way

ASSUME LockAssumption ==
    /\ AccountOf \in [Job -> Account]
    /\ NoJob \notin Job

VARIABLES
    queue,          \* lane.queue, the closures waiting
    running,        \* lane.running
    task,           \* the closure drain shifted last, while it is under way
    settled         \* the lanes whose closure has settled and not yet drained

lockVars == <<queue, running, task, settled>>

InLine(j) ==
    \/ task[AccountOf[j]] = j
    \/ \E i \in DOMAIN queue[AccountOf[j]] : queue[AccountOf[j]][i] = j

\* The closure of the job runs: what it does now is under the lock.
Holds(j) == task[AccountOf[j]] = j /\ AccountOf[j] \notin settled

LockInit ==
    /\ queue = [a \in Account |-> <<>>]
    /\ running = [a \in Account |-> FALSE]
    /\ task = [a \in Account |-> NoJob]
    /\ settled = {}

\* drain: the next closure starts at once, or the lane falls idle.
Drain(a, waiting) ==
    /\ queue' = [queue EXCEPT ![a] = IF waiting = <<>> THEN <<>> ELSE Tail(waiting)]
    /\ running' = [running EXCEPT ![a] = waiting # <<>>]
    /\ task' = [task EXCEPT ![a] = IF waiting = <<>> THEN NoJob ELSE Head(waiting)]
    /\ settled' = settled \ {a}

\* Mutant: a contended call jumps the queue.
RequestFirst(j) ==
    LET a == AccountOf[j]
    IN  /\ ~InLine(j)
        /\ IF running[a] THEN /\ queue' = [queue EXCEPT ![a] = <<j>> \o @]
                              /\ UNCHANGED <<running, task, settled>>
           ELSE Drain(a, Append(queue[a], j))

\* withImportLock: a free lane starts the call synchronously.
Request(j) ==
    LET a == AccountOf[j]
    IN  /\ ~InLine(j)
        /\ IF running[a] THEN /\ queue' = [queue EXCEPT ![a] = Append(@, j)]
                              /\ UNCHANGED <<running, task, settled>>
           ELSE Drain(a, Append(queue[a], j))

\* The promise of the closure under way resolves or rejects.
Settle(a) ==
    /\ task[a] # NoJob
    /\ a \notin settled
    /\ settled' = settled \cup {a}
    /\ UNCHANGED <<queue, running, task>>

\* The finally of the closure.
HandOver(a) == a \in settled /\ Drain(a, queue[a])

LockNext ==
    \/ \E j \in Job : Request(j)
    \/ \E a \in Account : Settle(a) \/ HandOver(a)

LockSpec == LockInit /\ [][LockNext]_lockVars

-----------------------------------------------------------------------------
\* Properties.

\* The types of a lane and of what stands for its closures.
LockTypeOK ==
    /\ queue \in [Account -> Seq(Job)]
    /\ running \in [Account -> BOOLEAN]
    /\ task \in [Account -> Job \cup {NoJob}]
    /\ settled \subseteq Account

\* The running flag tells the truth: a lane marked running has a closure under
\* way, whose end will drain it, and an idle one has nobody waiting.  A call can
\* neither be forgotten in the queue nor find a lane busy for ever.
LaneNeverWedged ==
    \A a \in Account :
        /\ running[a] <=> task[a] # NoJob
        /\ ~running[a] => queue[a] = <<>> /\ a \notin settled

\* The lanes implement a line per account, first come first served: its head is
\* the closure under way, and the rest waits in the queue.
Fifo == INSTANCE FifoLock WITH
    line <- [a \in Account |-> IF task[a] = NoJob THEN queue[a] ELSE <<task[a]>> \o queue[a]]

FirstComeFirstServed == Fifo!Spec
=============================================================================
