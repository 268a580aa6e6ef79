------------------------ MODULE AccountWritersProofs ------------------------
(***************************************************************************)
(* What the import lock is for: with any number of statements, files per   *)
(* batch and waiting calls, the writers of one account never sweep away,   *)
(* forget or announce twice what another one wrote.  The argument is that  *)
(* a list of kept files read under the lock is still the list when the     *)
(* rebuild writes, because whoever changes it holds the lock.              *)
(***************************************************************************)
EXTENDS AccountWriters, TLAPS

-----------------------------------------------------------------------------
(* The import lock, for any accounts and jobs: a lane's flag tells the     *)
(* truth, and the lanes implement the line FifoLock.tla promises.  The     *)
(* writers only ever touch the lanes through the lock, so both hold of     *)
(* their composition too.                                                  *)

LaneInv == LockTypeOK /\ LaneNeverWedged

\* The line an account's lane stands for.
Line(a) == IF task[a] = NoJob THEN queue[a] ELSE <<task[a]>> \o queue[a]

LEMMA DrainedLane ==
    ASSUME LaneInv, NEW a \in Account, NEW waiting \in Seq(Job), Drain(a, waiting)
    PROVE  LaneInv'
  <1> USE LockAssumption
  <1>1. waiting # <<>> => Head(waiting) \in Job /\ Tail(waiting) \in Seq(Job)
    OBVIOUS
  <1>2. /\ queue' \in [Account -> Seq(Job)]
        /\ running' \in [Account -> BOOLEAN]
        /\ task' \in [Account -> Job \cup {NoJob}]
        /\ settled' \subseteq Account
    BY <1>1 DEF LaneInv, LockTypeOK, Drain
  <1>3. LaneNeverWedged'
    BY <1>1 DEF LaneInv, LockTypeOK, LaneNeverWedged, Drain
  <1>4. QED
    BY <1>2, <1>3 DEF LaneInv, LockTypeOK

LEMMA LaneInvKept == LaneInv /\ [LockNext]_lockVars => LaneInv'
  <1> USE LockAssumption
  <1> SUFFICES ASSUME LaneInv, [LockNext]_lockVars PROVE LaneInv'
    OBVIOUS
  <1>1. ASSUME NEW j \in Job, Request(j) PROVE LaneInv'
    <2>1. AccountOf[j] \in Account /\ Append(queue[AccountOf[j]], j) \in Seq(Job)
      BY DEF LaneInv, LockTypeOK
    <2>2. CASE ~running[AccountOf[j]]
      BY <1>1, <2>1, <2>2, DrainedLane DEF Request
    <2>3. CASE running[AccountOf[j]]
      BY <1>1, <2>1, <2>3, ZenonT(30) DEF Request, LaneInv, LockTypeOK, LaneNeverWedged
    <2>4. QED
      BY <2>2, <2>3
  <1>2. ASSUME NEW a \in Account, Settle(a) PROVE LaneInv'
    BY <1>2 DEF Settle, LaneInv, LockTypeOK, LaneNeverWedged
  <1>3. ASSUME NEW a \in Account, HandOver(a) PROVE LaneInv'
    BY <1>3, DrainedLane DEF HandOver, LaneInv, LockTypeOK
  <1>4. CASE UNCHANGED lockVars
    BY <1>4 DEF lockVars, LaneInv, LockTypeOK, LaneNeverWedged
  <1>5. QED
    BY <1>1, <1>2, <1>3, <1>4 DEF LockNext

LEMMA LockTypeSafe == LockSpec => []LaneInv
  <1>1. LockInit => LaneInv
    BY LockAssumption DEF LockInit, LaneInv, LockTypeOK, LaneNeverWedged
  <1>2. QED
    BY <1>1, LaneInvKept, PTL DEF LockSpec

\* A step of a lane is a step of the line, or changes nothing of it.
LEMMA LineStep == LaneInv /\ LaneInv' /\ [LockNext]_lockVars
                    => [Fifo!Next]_[a \in Account |-> Line(a)]
  <1> USE LockAssumption
  <1> DEFINE line == [a \in Account |-> Line(a)]
  <1> SUFFICES ASSUME LaneInv, LaneInv', [LockNext]_lockVars
               PROVE  Fifo!Next \/ line' = line
    OBVIOUS
  <1>1. ASSUME NEW j \in Job, Request(j) PROVE Fifo!Join(j)
    <2> DEFINE b == AccountOf[j]
    <2>1. b \in Account /\ queue[b] \in Seq(Job) /\ task[b] \in Job \cup {NoJob}
      BY DEF LaneInv, LockTypeOK
    <2>2. ~Fifo!Waits(j)
      BY <1>1, <2>1 DEF Request, InLine, Fifo!Waits
    <2>3. Line(b)' = Append(Line(b), j)
      <3>1. CASE running[b]
        <4>1. task[b] \in Job /\ task[b] # NoJob /\ task'[b] = task[b]
          BY <1>1, <2>1, <3>1 DEF Request, LaneInv, LaneNeverWedged
        <4>2. queue'[b] = Append(queue[b], j)
          BY <1>1, <2>1, <3>1 DEF Request, LaneInv, LockTypeOK
        <4>3. <<task[b]>> \o Append(queue[b], j) = Append(<<task[b]>> \o queue[b], j)
          BY <2>1, <4>1
        <4>4. QED
          BY <4>1, <4>2, <4>3 DEF Line
      <3>2. CASE ~running[b]
        <4>1. queue[b] = <<>> /\ task[b] = NoJob
          BY <2>1, <3>2 DEF LaneInv, LaneNeverWedged
        <4>2. Append(queue[b], j) = <<j>> /\ Head(<<j>>) = j /\ Tail(<<j>>) = <<>>
          BY <4>1
        <4>3. task'[b] = j /\ queue'[b] = <<>>
          BY <1>1, <2>1, <3>2, <4>2 DEF Request, Drain, LaneInv, LockTypeOK
        <4>4. QED
          BY <4>1, <4>2, <4>3 DEF Line
      <3>3. QED
        BY <3>1, <3>2
    <2>4. \A a \in Account \ {b} : Line(a)' = Line(a)
      BY <1>1, <2>1 DEF Request, Drain, Line, LaneInv, LockTypeOK
    <2>5. QED
      BY <2>1, <2>2, <2>3, <2>4 DEF Fifo!Join, Line
  <1>2. ASSUME NEW a \in Account, Settle(a) PROVE line' = line
    BY <1>2 DEF Settle, Line
  <1>3. ASSUME NEW a \in Account, HandOver(a) PROVE Fifo!Leave(a)
    <2>1. queue[a] \in Seq(Job) /\ task[a] \in Job /\ task[a] # NoJob
      BY <1>3 DEF HandOver, LaneInv, LockTypeOK, LaneNeverWedged
    <2>2. Line(a) = <<task[a]>> \o queue[a] /\ Line(a) # <<>> /\ Tail(Line(a)) = queue[a]
      BY <2>1 DEF Line
    <2>3. Line(a)' = queue[a]
      <3>1. CASE queue[a] = <<>>
        BY <1>3, <2>1, <3>1 DEF HandOver, Drain, Line, LaneInv, LockTypeOK
      <3>2. CASE queue[a] # <<>>
        <4>1. /\ task'[a] = Head(queue[a]) /\ queue'[a] = Tail(queue[a])
              /\ Head(queue[a]) \in Job /\ Head(queue[a]) # NoJob
          BY <1>3, <2>1, <3>2 DEF HandOver, Drain, LaneInv, LockTypeOK
        <4>2. <<Head(queue[a])>> \o Tail(queue[a]) = queue[a]
          BY <2>1, <3>2
        <4>3. QED
          BY <4>1, <4>2 DEF Line
      <3>3. QED
        BY <3>1, <3>2
    <2>4. \A b \in Account \ {a} : Line(b)' = Line(b)
      BY <1>3 DEF HandOver, Drain, Line, LaneInv, LockTypeOK
    <2>5. QED
      BY <2>2, <2>3, <2>4 DEF Fifo!Leave, Line
  <1>4. CASE UNCHANGED lockVars
    BY <1>4 DEF lockVars, Line
  <1>5. QED
    BY <1>1, <1>2, <1>3, <1>4 DEF LockNext, Fifo!Next

-----------------------------------------------------------------------------
\* The writers.

\* No handler of the account, nor the page, nor another account's, touches a lane
\* but through withImportLock and the closures it starts.
LEMMA NextUsesTheLock == [Next]_vars => [LockNext]_lockVars
  <1> USE WriterAssumption
  <1> SUFFICES ASSUME [Next]_vars PROVE LockNext \/ UNCHANGED lockVars
    OBVIOUS
  <1>1. MyJob \subseteq Job /\ Mine \in Account
    OBVIOUS
  <1>2. ASSUME User PROVE LockNext \/ UNCHANGED lockVars
    BY <1>1, <1>2 DEF User, PickFiles, AskRebuild, ForgetStatement, DeleteAccount,
       CreateAccount, FlexStart, AgentStart, Call, LockNext, MyJob, PageJob
  <1>3. ASSUME Batch PROVE LockNext \/ UNCHANGED lockVars
    BY <1>1, <1>3 DEF Batch, WriteFile, EndBatch, LockNext
  <1>4. ASSUME NEW job \in {"replay", "forget"}, Replaying(job)
        PROVE  LockNext \/ UNCHANGED lockVars
    BY <1>1, <1>4 DEF Replaying, ReadStored, Rebuild, LockNext
  <1>5. ASSUME Purge \/ FlexWrite \/ AgentWrite PROVE LockNext \/ UNCHANGED lockVars
    BY <1>1, <1>5 DEF Purge, FlexWrite, AgentWrite, LockNext
  <1>6. ASSUME FlexFetched \/ AgentFetched PROVE LockNext \/ UNCHANGED lockVars
    BY <1>1, <1>6 DEF FlexFetched, AgentFetched, Call, LockNext, MyJob
  <1>7. ASSUME Handed \/ Elsewhere PROVE LockNext \/ UNCHANGED lockVars
    BY <1>1, <1>7 DEF Handed, Elsewhere, LockNext
  <1>8. CASE UNCHANGED vars
    BY <1>8 DEF vars
  <1>9. QED
    BY <1>2, <1>3, <1>4, <1>5, <1>6, <1>7, <1>8 DEF Next

LEMMA WritersUseTheLock == Spec => LockSpec
  <1>1. Init => LockInit
    BY DEF Init
  <1>2. QED
    BY <1>1, NextUsesTheLock, PTL DEF Spec, LockSpec

\* Whatever the account's writers do, and however many calls wait, a lane marked
\* running has a closure that will drain it and an idle one has nobody waiting.
THEOREM LaneNeverWedgedSafe == Spec => []LaneNeverWedged
  <1>1. LaneInv => LaneNeverWedged
    BY DEF LaneInv
  <1>2. QED
    BY <1>1, WritersUseTheLock, LockTypeSafe, PTL

\* Every account's calls are served in the order they were made, one at a time.
THEOREM FirstComeFirstServedSafe == Spec => FirstComeFirstServed
  <1>1. LockInit => Fifo!Init
    BY DEF LockInit, Fifo!Init
  <1>2. LockSpec => Fifo!Spec
    <2>1. LaneInv /\ LaneInv' /\ [LockNext]_lockVars
            => [Fifo!Next]_[a \in Account |->
                  IF task[a] = NoJob THEN queue[a] ELSE <<task[a]>> \o queue[a]]
      BY LineStep DEF Line
    <2>2. QED
      BY <1>1, <2>1, LockTypeSafe, PTL DEF LockSpec, Fifo!Spec
  <1>3. QED
    BY <1>2, WritersUseTheLock, PTL DEF FirstComeFirstServed

-----------------------------------------------------------------------------
(* The writers of one account.                                             *)

\* A list read by replayStatements is read under the lock and never stale.
ListFresh ==
    /\ stored["replay"] # Unread =>
           Holds("replay") /\ (~outlived => stored["replay"] = kept)
    /\ stored["forget"] # Unread =>
           Holds("forget") /\ (~outlived => stored["forget"] = kept \ {drop})

\* Nothing runs for an account that is gone, or a job outlived it.
NothingOutlives ==
    ~outlived /\ ~account.exists =>
        flex = "idle" /\ agent = "idle" /\ \A j \in MyJob : ~InLine(j)

\* What was announced is recorded in the account, while there is one.
Announced ==
    ~outlived => /\ told = 0 \/ (told = 1 /\ Agent \in account.warned)
                 /\ ~account.exists => account.warned = {}

WriterInv ==
    /\ LaneInv /\ TypeOK
    /\ ListFresh /\ NothingOutlives /\ Announced /\ LedgerMatchesFiles

-----------------------------------------------------------------------------
\* What a step of the lock does to who holds it.

LEMMA MyJobs == MyJob \subseteq Job /\ Mine \in Account /\ \A j \in MyJob : AccountOf[j] = Mine
  BY WriterAssumption

LEMMA RequestFrame ==
    ASSUME LaneInv, NEW j \in Job, Request(j), NEW k \in MyJob
    PROVE  /\ Holds(k) => Holds(k)'
           /\ k # j /\ InLine(k)' => InLine(k)
  <1> USE MyJobs, LockAssumption
  <1> DEFINE b == AccountOf[j]
  <1>1. b \in Account /\ queue[b] \in Seq(Job) /\ AccountOf[k] = Mine
    BY DEF LaneInv, LockTypeOK
  <1>2. CASE running[b]
    <2>1. /\ queue' = [queue EXCEPT ![b] = Append(queue[b], j)]
          /\ task' = task /\ settled' = settled
      BY <1>2 DEF Request
    <2>2. \A i \in DOMAIN Append(queue[b], j) :
              Append(queue[b], j)[i] # j => i \in DOMAIN queue[b]
                                            /\ Append(queue[b], j)[i] = queue[b][i]
      BY <1>1
    <2>3. k # j /\ InLine(k)' => InLine(k)
      BY <1>1, <2>1, <2>2 DEF InLine, LaneInv, LockTypeOK
    <2>4. QED
      BY <2>1, <2>3 DEF Holds
  <1>3. CASE ~running[b]
    <2>1. queue[b] = <<>> /\ task[b] = NoJob
      BY <1>1, <1>3 DEF LaneInv, LaneNeverWedged
    <2>2. Append(queue[b], j) = <<j>> /\ Head(<<j>>) = j /\ Tail(<<j>>) = <<>>
      BY <2>1
    <2>3. task' = [task EXCEPT ![b] = j] /\ queue' = [queue EXCEPT ![b] = <<>>]
          /\ settled' = settled \ {b}
      BY <1>3, <2>2 DEF Request, Drain
    <2>4. QED
      BY <1>1, <2>1, <2>3 DEF Holds, InLine, LaneInv, LockTypeOK
  <1>4. QED
    BY <1>2, <1>3

LEMMA EndFrame ==
    ASSUME LaneInv, NEW a \in Account, Settle(a) \/ HandOver(a), NEW k \in MyJob
    PROVE  /\ InLine(k)' => InLine(k)
           /\ a # Mine => (Holds(k)' <=> Holds(k))
           /\ HandOver(Mine) => ~Holds(k)
  <1> USE MyJobs, LockAssumption
  <1>1. CASE Settle(a)
    BY <1>1 DEF Settle, HandOver, Holds, InLine, LaneInv, LockTypeOK
  <1>2. CASE HandOver(a)
    <2>1. queue[a] \in Seq(Job) /\ AccountOf[k] = Mine
      BY DEF LaneInv, LockTypeOK
    <2>2. queue[a] # <<>> => /\ Head(queue[a]) = queue[a][1]
                             /\ \A i \in DOMAIN Tail(queue[a]) :
                                    /\ i + 1 \in DOMAIN queue[a]
                                    /\ Tail(queue[a])[i] = queue[a][i + 1]
                             /\ 1 \in DOMAIN queue[a]
      BY <2>1
    <2>3. InLine(k)' => InLine(k)
      <3>1. CASE queue[a] = <<>>
        BY <1>2, <2>1, <3>1 DEF HandOver, Drain, InLine, LaneInv, LockTypeOK
      <3>2. CASE queue[a] # <<>>
        BY <1>2, <2>1, <2>2, <3>2 DEF HandOver, Drain, InLine, LaneInv, LockTypeOK
      <3>3. QED
        BY <3>1, <3>2
    <2>4. a # Mine => (Holds(k)' <=> Holds(k))
      BY <1>2, <2>1 DEF HandOver, Drain, Holds, LaneInv, LockTypeOK
    <2>5. HandOver(Mine) => ~Holds(k)
      BY <2>1 DEF HandOver, Holds
    <2>6. QED
      BY <2>3, <2>4, <2>5
  <1>3. QED
    BY <1>1, <1>2

\* One closure at a time.
LEMMA OneHolder == \A j, k \in MyJob : Holds(j) /\ Holds(k) => j = k
  BY MyJobs DEF Holds

\* A closure that settles frees the lane of every job.
LEMMA SettledHoldsNot ==
    ASSUME Settle(Mine), NEW k \in MyJob
    PROVE  ~Holds(k)' /\ (InLine(k)' => InLine(k))
  BY MyJobs DEF Settle, Holds, InLine

LEMMA HolderInLine == \A k \in MyJob : Holds(k) => InLine(k)
  BY DEF Holds, InLine

-----------------------------------------------------------------------------
\* The transactions.

LEMMA ImportTyped ==
    ASSUME TypeOK, NEW f \in File, Import(f) \/ RolledBack
    PROVE  /\ account' \in [exists : BOOLEAN, warned : SUBSET {Agent}]
           /\ rows' \subseteq Statement \cup {Agent}
           /\ kept' \subseteq Statement /\ owed' \subseteq Statement
           /\ told' \in Nat /\ outlived' \in BOOLEAN
  <1>1. CASE Import(f)
    BY <1>1 DEF Import, TypeOK
  <1>2. CASE RolledBack
    BY <1>2 DEF RolledBack, db, TypeOK
  <1>3. QED
    BY <1>1, <1>2

LEMMA ImportSafe ==
    ASSUME WriterInv, NEW f \in File, Import(f) \/ RolledBack,
           NEW j \in MyJob, InLine(j)
    PROVE  LedgerMatchesFiles' /\ Announced' /\ outlived' = outlived
           /\ (~outlived => account.exists /\ account'.exists)
  <1> USE WriterAssumption
  <1>1. CASE Import(f)
    <2>1. outlived' = outlived
      BY <1>1 DEF Import
    <2>2. ~outlived => account.exists /\ account'.exists
      BY <1>1 DEF Import, WriterInv, NothingOutlives, TypeOK
    <2>3. LedgerMatchesFiles'
      BY <1>1 DEF Import, WriterInv, LedgerMatchesFiles, TypeOK, File
    <2>4. Announced'
      <3> SUFFICES ASSUME ~outlived PROVE told' = 0 \/ (told' = 1 /\ Agent \in account'.warned)
        BY <2>1, <2>2 DEF Announced
      <3> DEFINE retired == IF f = Flex THEN rows \cap {Agent} ELSE {}
                 newly == retired \ account.warned
      <3>1. account.exists /\ account.warned \subseteq {Agent} /\ told \in Nat
        BY <2>2 DEF WriterInv, TypeOK
      <3>2. account'.warned = account.warned \cup newly
        BY <1>1, <3>1 DEF Import, WriterInv, TypeOK
      <3>3. told = 0 \/ (told = 1 /\ Agent \in account.warned)
        BY DEF WriterInv, Announced
      <3>4. CASE newly = {}
        BY <1>1, <3>2, <3>3, <3>4 DEF Import
      <3>5. CASE newly # {}
        <4>1. Agent \in newly /\ Agent \notin account.warned
          BY <3>5
        <4>2. told = 0 /\ told' = told + 1
          BY <1>1, <3>3, <3>5, <4>1 DEF Import
        <4>3. QED
          BY <3>2, <4>1, <4>2
      <3>6. QED
        BY <3>4, <3>5
    <2>5. QED
      BY <2>1, <2>2, <2>3, <2>4
  <1>2. CASE RolledBack
    BY <1>2 DEF RolledBack, db, WriterInv, LedgerMatchesFiles, Announced, NothingOutlives, TypeOK
  <1>3. QED
    BY <1>1, <1>2

-----------------------------------------------------------------------------
\* One lemma for the steps that change neither a lane nor a table, one per kind
\* of the others.

LEMMA InitSafe == Init => WriterInv
  <1> USE WriterAssumption, LockAssumption, MyJobs
  <1> SUFFICES ASSUME Init PROVE WriterInv
    OBVIOUS
  <1>1. LaneInv
    BY DEF Init, LockInit, LaneInv, LockTypeOK, LaneNeverWedged
  <1>2. stored \in [{"replay", "forget"} -> (SUBSET Statement) \cup {Unread}]
    BY DEF Init
  <1>3. TypeOK
    BY <1>1, <1>2 DEF Init, LaneInv, TypeOK
  <1>4. ListFresh /\ NothingOutlives /\ Announced /\ LedgerMatchesFiles
    BY DEF Init, ListFresh, NothingOutlives, Announced, LedgerMatchesFiles
  <1>5. QED
    BY <1>1, <1>3, <1>4 DEF WriterInv

\* A call of the account's writers that leaves the tables alone.
LEMMA CallSafe ==
    ASSUME WriterInv, LaneInv', NEW j \in MyJob, Request(j), UNCHANGED db,
           account.exists,
           j # "forget" => UNCHANGED <<stored, drop>>,
           j = "forget" => /\ stored' = [stored EXCEPT !["forget"] = Unread]
                           /\ drop' \in Statement,
           batch' \subseteq File,
           flex' \in {"idle", "fetching", "ready"},
           agent' \in {"idle", "fetching", "ready"}
    PROVE  WriterInv'
  <1> USE WriterAssumption, MyJobs
  <1>1. TypeOK'
    <2>1. /\ drop' \in Statement \cup {Unread}
          /\ stored' \in [{"replay", "forget"} -> (SUBSET Statement) \cup {Unread}]
      BY DEF WriterInv, TypeOK
    <2>2. LockTypeOK' /\ UNCHANGED <<account, rows, kept, owed, told, outlived>>
      BY DEF LaneInv, db
    <2>3. QED
      BY <2>1, <2>2 DEF WriterInv, TypeOK
  <1>2. ListFresh'
    <2>1. j \in Job
      OBVIOUS
    <2>2. Holds("replay") => Holds("replay")'
      BY <2>1, RequestFrame DEF WriterInv, MyJob, PageJob
    <2>3. Holds("forget") => Holds("forget")'
      BY <2>1, RequestFrame DEF WriterInv, MyJob, PageJob
    <2>4. QED
      BY <2>2, <2>3 DEF WriterInv, TypeOK, ListFresh, db
  <1>3. NothingOutlives' /\ Announced' /\ LedgerMatchesFiles'
    BY DEF WriterInv, NothingOutlives, Announced, LedgerMatchesFiles, db
  <1>4. QED
    BY <1>1, <1>2, <1>3 DEF WriterInv

\* A step that changes only the lanes, not at the holder's expense.
LEMMA LaneSafe ==
    ASSUME WriterInv, LaneInv', UNCHANGED <<db, page, flex, agent>>,
           \A k \in MyJob : InLine(k)' => InLine(k),
           \A k \in {"replay", "forget"} : stored[k] # Unread /\ Holds(k) => Holds(k)'
    PROVE  WriterInv'
  <1>1. TypeOK'
    BY DEF WriterInv, TypeOK, db, page, LaneInv
  <1>2. ListFresh'
    BY DEF WriterInv, ListFresh, db, page
  <1>3. NothingOutlives' /\ Announced' /\ LedgerMatchesFiles'
    BY DEF WriterInv, NothingOutlives, Announced, LedgerMatchesFiles, db
  <1>4. QED
    BY <1>1, <1>2, <1>3 DEF WriterInv

\* The closure of a job that is not a rebuild writes and settles.
LEMMA WriteSafe ==
    ASSUME WriterInv, LaneInv', NEW j \in MyJob \ {"replay", "forget"}, Holds(j),
           TypeOK', LedgerMatchesFiles', Announced', outlived' = outlived,
           UNCHANGED <<drop, stored>>,
           Settle(Mine) \/ UNCHANGED lockVars,
           ~outlived => account.exists /\ account'.exists
    PROVE  WriterInv'
  <1> USE MyJobs
  <1>1. stored["replay"] = Unread /\ stored["forget"] = Unread
    BY OneHolder DEF WriterInv, ListFresh, MyJob, PageJob
  <1>2. ListFresh'
    BY <1>1 DEF ListFresh
  <1>3. NothingOutlives'
    BY DEF NothingOutlives
  <1>4. QED
    BY <1>2, <1>3 DEF WriterInv

\* A rebuild writes the list it read, which is still the list of the files kept.
LEMMA RebuildSafe ==
    ASSUME WriterInv, LaneInv', NEW job \in {"replay", "forget"}, Rebuild(job)
    PROVE  WriterInv'
  <1> USE WriterAssumption, MyJobs
  <1> DEFINE other == IF job = "replay" THEN "forget" ELSE "replay"
  <1>1. job \in MyJob /\ other \in MyJob /\ Holds(job) /\ InLine(job)
    BY HolderInLine DEF Rebuild, MyJob, PageJob
  <1>2. stored[other] = Unread
    BY <1>1, OneHolder DEF WriterInv, ListFresh
  <1>3. stored'["replay"] = Unread /\ stored'["forget"] = Unread
    BY <1>2 DEF Rebuild, WriterInv, TypeOK
  <1>4. stored[job] \in SUBSET Statement /\ outlived' = outlived /\ account' = account
    BY DEF Rebuild, Rebuilt, RolledBack, db, WriterInv, TypeOK
  <1>5. CASE Rebuilt(job)
    <2>1. kept' \subseteq Statement /\ rows' \subseteq Statement \cup {Agent}
          /\ owed' \subseteq Statement /\ told' = told
      BY <1>4, <1>5 DEF Rebuilt, WriterInv, TypeOK
    <2>2. TypeOK'
      BY <1>4, <2>1 DEF Rebuild, WriterInv, LaneInv, TypeOK
    <2>3. ~outlived => kept' = stored[job]
      BY <1>5 DEF Rebuild, Rebuilt, WriterInv, ListFresh
    <2>4. LedgerMatchesFiles'
      BY <1>4, <1>5, <2>3 DEF Rebuilt, LedgerMatchesFiles, WriterInv, TypeOK
    <2>5. Announced'
      BY <1>4, <2>1 DEF Announced, WriterInv
    <2>6. ~outlived => account.exists
      BY <1>1 DEF WriterInv, NothingOutlives
    <2>7. QED
      BY <1>3, <1>4, <2>2, <2>4, <2>5, <2>6 DEF WriterInv, ListFresh, NothingOutlives
  <1>6. CASE RolledBack
    <2>1. TypeOK'
      BY <1>6 DEF RolledBack, db, Rebuild, WriterInv, LaneInv, TypeOK
    <2>2. LedgerMatchesFiles' /\ Announced' /\ (~outlived => account.exists)
      BY <1>1, <1>6 DEF RolledBack, db, WriterInv, LedgerMatchesFiles, Announced, NothingOutlives
    <2>3. QED
      BY <1>3, <1>4, <2>1, <2>2 DEF WriterInv, ListFresh, NothingOutlives
  <1>7. QED
    BY <1>5, <1>6 DEF Rebuild

LEMMA ReadSafe ==
    ASSUME WriterInv, LaneInv', NEW job \in {"replay", "forget"}, ReadStored(job)
    PROVE  WriterInv'
  <1> USE WriterAssumption, MyJobs
  <1>1. TypeOK'
    BY DEF ReadStored, lockVars, db, WriterInv, LaneInv, TypeOK
  <1>2. ListFresh'
    BY DEF ReadStored, lockVars, db, WriterInv, ListFresh, TypeOK, Holds
  <1>3. NothingOutlives' /\ Announced' /\ LedgerMatchesFiles'
    BY DEF ReadStored, lockVars, db, WriterInv, NothingOutlives, Announced,
           LedgerMatchesFiles, InLine
  <1>4. QED
    BY <1>1, <1>2, <1>3 DEF WriterInv

\* The deletion and the creation of the account.
LEMMA AccountSafe ==
    ASSUME WriterInv, LaneInv', DeleteAccount \/ CreateAccount
    PROVE  WriterInv'
  <1> USE WriterAssumption, MyJobs
  <1>1. CASE DeleteAccount
    <2>1. TypeOK'
      <3>1. outlived' \in BOOLEAN
        BY <1>1 DEF DeleteAccount, WriterInv, TypeOK
      <3>2. QED
        BY <1>1, <3>1 DEF DeleteAccount, page, WriterInv, LaneInv, TypeOK
    <2>2. ~outlived' => flex = "idle" /\ agent = "idle" /\ \A j \in MyJob : ~InLine(j)
      BY <1>1 DEF DeleteAccount
    <2>3. ListFresh'
      <3>1. Holds("replay")' = Holds("replay") /\ Holds("forget")' = Holds("forget")
        BY <1>1 DEF DeleteAccount, lockVars, Holds
      <3>2. ~outlived' => ~Holds("replay") /\ ~Holds("forget")
        BY <2>2, HolderInLine DEF MyJob, PageJob
      <3>3. stored' = stored
        BY <1>1 DEF DeleteAccount, page
      <3>4. QED
        BY <3>1, <3>2, <3>3 DEF WriterInv, ListFresh
    <2>4. NothingOutlives' /\ Announced' /\ LedgerMatchesFiles'
      BY <1>1, <2>2 DEF DeleteAccount, lockVars, NothingOutlives, Announced,
         LedgerMatchesFiles, InLine
    <2>5. QED
      BY <2>1, <2>3, <2>4 DEF WriterInv
  <1>2. CASE CreateAccount
    <2>1. TypeOK' /\ NothingOutlives' /\ LedgerMatchesFiles'
      BY <1>2 DEF CreateAccount, page, WriterInv, LaneInv, TypeOK, NothingOutlives,
         LedgerMatchesFiles
    <2>2. ListFresh'
      BY <1>2 DEF CreateAccount, lockVars, page, WriterInv, ListFresh, Holds
    <2>3. Announced'
      BY <1>2 DEF CreateAccount, WriterInv, Announced
    <2>4. QED
      BY <2>1, <2>2, <2>3 DEF WriterInv
  <1>3. QED
    BY <1>1, <1>2

\* A step that starts a fetch, gives one up, or picks files: no lane, no table.
LEMMA QuietSafe ==
    ASSUME WriterInv, LaneInv', UNCHANGED <<lockVars, db, page>>,
           flex' \in {"idle", "fetching", "ready"},
           agent' \in {"idle", "fetching", "ready"},
           account.exists \/ (flex' \in {flex, "idle"} /\ agent' \in {agent, "idle"})
    PROVE  WriterInv'
  <1>1. TypeOK'
    BY DEF WriterInv, TypeOK, db, page, LaneInv
  <1>2. ListFresh'
    BY DEF WriterInv, ListFresh, Holds, lockVars, db, page
  <1>3. NothingOutlives'
    BY DEF WriterInv, NothingOutlives, InLine, lockVars, db
  <1>4. Announced' /\ LedgerMatchesFiles'
    BY DEF WriterInv, Announced, LedgerMatchesFiles, db
  <1>5. QED
    BY <1>1, <1>2, <1>3, <1>4 DEF WriterInv

\* A fetched pass calls the lock only for an account that is there, or one whose
\* deletion it has outlived.
LEMMA FetchSafe ==
    ASSUME WriterInv, LaneInv', NEW j \in {"flex", "agent"}, Request(j),
           UNCHANGED <<db, page>>, flex # "idle" \/ agent # "idle",
           flex' \in {"idle", "fetching", "ready"},
           agent' \in {"idle", "fetching", "ready"}
    PROVE  WriterInv'
  <1> USE WriterAssumption, MyJobs
  <1>1. TypeOK'
    BY DEF WriterInv, TypeOK, db, page, LaneInv
  <1>2. ListFresh'
    <2>1. j \in Job /\ "replay" \in MyJob /\ "forget" \in MyJob
      BY DEF MyJob, PageJob
    <2>2. (Holds("replay") => Holds("replay")') /\ (Holds("forget") => Holds("forget")')
      BY <2>1, RequestFrame DEF WriterInv
    <2>3. QED
      BY <2>2 DEF WriterInv, ListFresh, db, page
  <1>3. NothingOutlives' /\ Announced' /\ LedgerMatchesFiles'
    BY DEF WriterInv, NothingOutlives, Announced, LedgerMatchesFiles, db
  <1>4. QED
    BY <1>1, <1>2, <1>3 DEF WriterInv

LEMMA BatchSafe == WriterInv /\ LaneInv' /\ Batch => WriterInv'
  <1> USE WriterAssumption, MyJobs
  <1> SUFFICES ASSUME WriterInv, LaneInv', Batch PROVE WriterInv'
    OBVIOUS
  <1>1. "files" \in MyJob \ {"replay", "forget"}
    BY DEF MyJob, PageJob
  <1>2. ASSUME NEW f \in File, WriteFile(f) PROVE WriterInv'
    <2>1. Holds("files") /\ InLine("files") /\ (Import(f) \/ RolledBack)
      BY <1>1, <1>2, HolderInLine DEF WriteFile
    <2>2. LedgerMatchesFiles' /\ Announced' /\ outlived' = outlived
          /\ (~outlived => account.exists /\ account'.exists)
      BY <1>1, <2>1, ImportSafe
    <2>3. TypeOK'
      BY <1>2, <2>1, ImportTyped DEF WriteFile, WriterInv, LaneInv, TypeOK
    <2>4. QED
      BY <1>1, <1>2, <2>1, <2>2, <2>3, WriteSafe DEF WriteFile
  <1>3. ASSUME EndBatch PROVE WriterInv'
    <2>1. \A k \in MyJob : InLine(k)' => InLine(k)
      BY <1>3, SettledHoldsNot DEF EndBatch
    <2>2. stored["replay"] = Unread /\ stored["forget"] = Unread
      BY <1>1, <1>3, OneHolder DEF EndBatch, WriterInv, ListFresh, MyJob, PageJob
    <2>3. QED
      BY <1>3, <2>1, <2>2, LaneSafe DEF EndBatch
  <1>4. QED
    BY <1>2, <1>3 DEF Batch

LEMMA BackgroundSafe == WriterInv /\ LaneInv' /\ (FlexWrite \/ AgentWrite \/ Purge) => WriterInv'
  <1> USE WriterAssumption, MyJobs
  <1> SUFFICES ASSUME WriterInv, LaneInv', FlexWrite \/ AgentWrite \/ Purge PROVE WriterInv'
    OBVIOUS
  <1>1. {"flex", "agent", "purge"} \subseteq MyJob \ {"replay", "forget"}
    BY DEF MyJob, PageJob
  <1>2. CASE FlexWrite
    <2>1. Holds("flex") /\ InLine("flex") /\ Flex \in File /\ (Import(Flex) \/ RolledBack)
      BY <1>1, <1>2, HolderInLine DEF FlexWrite, File
    <2>2. LedgerMatchesFiles' /\ Announced' /\ outlived' = outlived
          /\ (~outlived => account.exists /\ account'.exists)
      BY <1>1, <2>1, ImportSafe
    <2>3. TypeOK'
      BY <1>2, <2>1, ImportTyped DEF FlexWrite, page, WriterInv, LaneInv, TypeOK
    <2>4. QED
      BY <1>1, <1>2, <2>1, <2>2, <2>3, WriteSafe DEF FlexWrite, page
  <1>3. CASE AgentWrite
    <2>1. Holds("agent") /\ InLine("agent") /\ (AgentRows \/ RolledBack)
      BY <1>1, <1>3, HolderInLine DEF AgentWrite
    <2>2. outlived' = outlived /\ account' = account /\ kept' = kept /\ owed' = owed
          /\ told' = told /\ (rows' = rows \/ rows' = rows \cup {Agent})
      BY <2>1 DEF AgentRows, RolledBack, db
    <2>3. ~outlived => account.exists
      BY <1>1, <2>1 DEF WriterInv, NothingOutlives
    <2>4. LedgerMatchesFiles' /\ Announced'
      BY <2>2 DEF LedgerMatchesFiles, Announced, WriterInv
    <2>5. TypeOK'
      BY <1>3, <2>2 DEF AgentWrite, page, WriterInv, LaneInv, TypeOK
    <2>6. QED
      BY <1>1, <1>3, <2>1, <2>2, <2>3, <2>4, <2>5, WriteSafe DEF AgentWrite, page
  <1>4. CASE Purge
    <2>1. Holds("purge") /\ InLine("purge")
      BY <1>1, <1>4, HolderInLine DEF Purge
    <2>2. outlived' = outlived /\ account' = account /\ kept' = kept /\ told' = told
          /\ ((rows' = {} /\ owed' = {}) \/ (rows' = rows /\ owed' = owed))
      BY <1>4 DEF Purge, RolledBack, db
    <2>3. ~outlived => account.exists
      BY <1>1, <2>1 DEF WriterInv, NothingOutlives
    <2>4. LedgerMatchesFiles' /\ Announced'
      BY <2>2 DEF LedgerMatchesFiles, Announced, WriterInv
    <2>5. TypeOK'
      BY <1>4, <2>2 DEF Purge, page, WriterInv, LaneInv, TypeOK
    <2>6. QED
      BY <1>1, <1>4, <2>1, <2>2, <2>3, <2>4, <2>5, WriteSafe DEF Purge, page
  <1>5. QED
    BY <1>2, <1>3, <1>4

LEMMA LanesSafe == WriterInv /\ LaneInv' /\ (Handed \/ Elsewhere) => WriterInv'
  <1> USE WriterAssumption, MyJobs
  <1> SUFFICES ASSUME WriterInv, LaneInv', Handed \/ Elsewhere PROVE WriterInv'
    OBVIOUS
  <1>1. {"replay", "forget"} \subseteq MyJob
    BY DEF MyJob, PageJob
  <1>2. CASE Handed
    <2>1. \A k \in MyJob : (InLine(k)' => InLine(k)) /\ ~Holds(k)
      BY <1>2, EndFrame DEF Handed, WriterInv
    <2>2. QED
      BY <1>1, <1>2, <2>1, LaneSafe DEF Handed
  <1>3. ASSUME NEW j \in Job \ MyJob, Request(j), UNCHANGED <<db, page, flex, agent>>
        PROVE  WriterInv'
    <2>1. \A k \in MyJob : (InLine(k)' => InLine(k)) /\ (Holds(k) => Holds(k)')
      BY <1>3, RequestFrame DEF WriterInv
    <2>2. QED
      BY <1>1, <1>3, <2>1, LaneSafe
  <1>4. ASSUME NEW a \in Account \ {Mine}, Settle(a) \/ HandOver(a),
               UNCHANGED <<db, page, flex, agent>>
        PROVE  WriterInv'
    <2>1. \A k \in MyJob : (InLine(k)' => InLine(k)) /\ (Holds(k) => Holds(k)')
      BY <1>4, EndFrame DEF WriterInv
    <2>2. QED
      BY <1>1, <1>4, <2>1, LaneSafe
  <1>5. QED
    BY <1>2, <1>3, <1>4 DEF Elsewhere

LEMMA UserSafe == WriterInv /\ LaneInv' /\ User => WriterInv'
  <1> USE WriterAssumption, MyJobs
  <1> SUFFICES ASSUME WriterInv, LaneInv', User PROVE WriterInv'
    OBVIOUS
  <1>1. PageJob \subseteq MyJob /\ flex \in {"idle", "fetching", "ready"}
        /\ agent \in {"idle", "fetching", "ready"} /\ batch \subseteq File
    BY DEF MyJob, WriterInv, TypeOK
  <1>2. ASSUME NEW files \in Picks, PickFiles(files) PROVE WriterInv'
    BY <1>1, <1>2, CallSafe DEF PickFiles, Call, PageJob, File
  <1>3. ASSUME NEW job \in {"replay", "purge"}, AskRebuild(job) PROVE WriterInv'
    BY <1>1, <1>3, CallSafe DEF AskRebuild, Call, PageJob, page
  <1>4. ASSUME NEW s \in Statement, ForgetStatement(s) PROVE WriterInv'
    BY <1>1, <1>4, CallSafe DEF ForgetStatement, Call, PageJob
  <1>5. CASE DeleteAccount \/ CreateAccount
    BY <1>5, AccountSafe
  <1>6. CASE FlexStart \/ AgentStart
    BY <1>1, <1>6, QuietSafe DEF FlexStart, AgentStart
  <1>7. QED
    BY <1>2, <1>3, <1>4, <1>5, <1>6 DEF User

LEMMA FetchedSafe == WriterInv /\ LaneInv' /\ (FlexFetched \/ AgentFetched) => WriterInv'
  <1> SUFFICES ASSUME WriterInv, LaneInv', FlexFetched \/ AgentFetched PROVE WriterInv'
    OBVIOUS
  <1>1. flex \in {"idle", "fetching", "ready"} /\ agent \in {"idle", "fetching", "ready"}
    BY DEF WriterInv, TypeOK
  <1>2. CASE FlexFetched
    BY <1>1, <1>2, FetchSafe, QuietSafe DEF FlexFetched, Call
  <1>3. CASE AgentFetched
    BY <1>1, <1>3, FetchSafe, QuietSafe DEF AgentFetched, Call
  <1>4. QED
    BY <1>2, <1>3

LEMMA WriterInvKept == WriterInv /\ [Next]_vars => WriterInv'
  <1> SUFFICES ASSUME WriterInv, [Next]_vars PROVE WriterInv'
    OBVIOUS
  <1>1. LaneInv'
    BY NextUsesTheLock, LaneInvKept DEF WriterInv
  <1>2. CASE UNCHANGED vars
    BY <1>1, <1>2, QuietSafe DEF vars, WriterInv, TypeOK
  <1>3. QED
    BY <1>1, <1>2, UserSafe, BatchSafe, BackgroundSafe, LanesSafe, RebuildSafe, ReadSafe,
       FetchedSafe DEF Next, Replaying

-----------------------------------------------------------------------------
\* The theorems.

LEMMA WriterInvSafe == Spec => []WriterInv
  BY InitSafe, WriterInvKept, PTL DEF Spec

\* The tables and the lanes only ever hold what their types allow.
THEOREM WritersTypeSafe == Spec => []TypeOK
  <1>1. WriterInv => TypeOK
    BY DEF WriterInv
  <1>2. QED
    BY <1>1, WriterInvSafe, PTL

\* No rebuild sweeps away the rows of a file imported beside it, and none brings
\* back those of a file forgotten beside it.
THEOREM LedgerMatchesFilesSafe == Spec => []LedgerMatchesFiles
  <1>1. WriterInv => LedgerMatchesFiles
    BY DEF WriterInv
  <1>2. QED
    BY <1>1, WriterInvSafe, PTL

\* The agent's kind of rows is announced dropped in one report at most.
THEOREM AnnouncedOnceSafe == Spec => []AnnouncedOnce
  <1>1. WriterInv => AnnouncedOnce
    BY DEF WriterInv, Announced, AnnouncedOnce
  <1>2. QED
    BY <1>1, WriterInvSafe, PTL

\* Who writes the tables: nobody but a closure that holds the lock, and the
\* deletion of the account.
LEMMA WhoWrites ==
    ASSUME Next, <<rows, kept>>' # <<rows, kept>>
    PROVE  \/ DeleteAccount
           \/ \E f \in File : WriteFile(f)
           \/ \E job \in {"replay", "forget"} : Rebuild(job)
           \/ Purge \/ FlexWrite \/ AgentWrite
  <1>1. CASE User
    BY <1>1 DEF User, PickFiles, AskRebuild, ForgetStatement, CreateAccount, FlexStart,
       AgentStart, db
  <1>2. CASE Batch
    BY <1>2 DEF Batch, EndBatch, db
  <1>3. ASSUME NEW job \in {"replay", "forget"}, Replaying(job)
        PROVE  Rebuild(job)
    BY <1>3 DEF Replaying, ReadStored, db
  <1>4. CASE Handed \/ Elsewhere \/ FlexFetched \/ AgentFetched
    BY <1>4 DEF Handed, Elsewhere, FlexFetched, AgentFetched, db
  <1>5. QED
    BY <1>1, <1>2, <1>3, <1>4 DEF Next

\* No sync and no agent pass slips in between two files of a batch.
THEOREM BatchUninterruptedSafe == Spec => BatchUninterrupted
  <1> DEFINE Step == Holds("files") /\ <<rows, kept>>' # <<rows, kept>> =>
                         batch' # batch \/ DeleteAccount
  <1>1. WriterInv /\ [Next]_vars => Step
    <2> USE MyJobs
    <2> SUFFICES ASSUME WriterInv, Next, Holds("files"), <<rows, kept>>' # <<rows, kept>>
                 PROVE  batch' # batch \/ DeleteAccount
      BY DEF vars, db
    <2>1. \A j \in MyJob : Holds(j) => j = "files"
      BY OneHolder DEF MyJob, PageJob
    <2>2. ASSUME NEW f \in File, WriteFile(f) PROVE batch' # batch
      BY <2>2 DEF WriteFile
    <2>3. ~Purge /\ ~FlexWrite /\ ~AgentWrite
      BY <2>1 DEF Purge, FlexWrite, AgentWrite, MyJob, PageJob
    <2>4. \A job \in {"replay", "forget"} : ~Rebuild(job)
      BY <2>1 DEF Rebuild, MyJob, PageJob
    <2>5. QED
      BY <2>2, <2>3, <2>4, WhoWrites
  <1>2. QED
    BY <1>1, WriterInvSafe, PTL DEF Spec, BatchUninterrupted

\* A statement's file is only ever forgotten by the deletion asked for it.
THEOREM ForgottenOnlyOnDemandSafe == Spec => ForgottenOnlyOnDemand
  <1> DEFINE Step == \A s \in kept \ kept' :
                         \/ DeleteAccount
                         \/ Holds("forget") /\ (outlived \/ s = drop)
  <1>1. WriterInv /\ [Next]_vars => [Step]_vars
    <2> USE MyJobs
    <2> SUFFICES ASSUME WriterInv, [Next]_vars, NEW s \in kept \ kept'
                 PROVE  DeleteAccount \/ (Holds("forget") /\ (outlived \/ s = drop))
      OBVIOUS
    <2>1. Next /\ <<rows, kept>>' # <<rows, kept>>
      BY DEF vars, db
    <2>2. \A f \in File : ~WriteFile(f)
      BY DEF WriteFile, Import, RolledBack, db
    <2>3. ~Purge /\ ~FlexWrite /\ ~AgentWrite
      BY DEF Purge, FlexWrite, AgentWrite, Import, AgentRows, RolledBack, db
    <2>4. ASSUME NEW job \in {"replay", "forget"}, Rebuild(job)
          PROVE  Holds("forget") /\ (outlived \/ s = drop)
      <3>1. Rebuilt(job) /\ job = "forget"
        BY <2>4 DEF Rebuild, Rebuilt, RolledBack, db
      <3>2. kept' = stored["forget"] /\ stored["forget"] # Unread /\ Holds("forget")
        BY <2>4, <3>1 DEF Rebuild, Rebuilt
      <3>3. QED
        BY <3>2 DEF WriterInv, ListFresh
    <2>5. QED
      BY <2>1, <2>2, <2>3, <2>4, WhoWrites
  <1>2. QED
    BY <1>1, WriterInvSafe, PTL DEF Spec, ForgottenOnlyOnDemand
=============================================================================
