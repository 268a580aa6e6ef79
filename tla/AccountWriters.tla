--------------------------- MODULE AccountWriters ---------------------------
(***************************************************************************)
(* Who writes one account's tables in a tab, and when: the Sources page    *)
(* (SourcesPage.tsx), the Flex sync (flex/sync.ts, useFlexAutoSync.ts),    *)
(* the agent pass (agent/sync.ts, useAgentSync.ts) and the deletion and    *)
(* creation of the account (db/accounts.ts).  Every handler is cut at its  *)
(* awaits.  What an import or a rebuild writes is AccountLedger.tla; here  *)
(* a file stands for the rows it lays down, a Flex response retires the    *)
(* agent's rows and the statements cover the days before Flex.             *)
(***************************************************************************)
EXTENDS ImportLock, Naturals

CONSTANTS
    Mine,           \* the account under study
    Statement,      \* its activity statements, one per period
    Flex, Agent,    \* a Flex response; the rows of an agent pass
    Picks,          \* bound: the batches of files the user may pick
    Unread,         \* no list of kept files has been read
    MaxLine         \* bound: the calls of the account in the lane at once

PageJob == {"files", "replay", "forget", "purge"}
MyJob == PageJob \cup {"flex", "agent"}

ASSUME WriterAssumption ==
    /\ Mine \in Account
    /\ {j \in Job : AccountOf[j] = Mine} = MyJob
    /\ Picks \subseteq SUBSET (Statement \cup {Flex})
    /\ MaxLine \in Nat \ {0}
    /\ Flex \notin Statement /\ Agent \notin Statement /\ Flex # Agent

File == Statement \cup {Flex}

VARIABLES
    account,        \* db.accounts: the record exists, the kinds it was warned of
    rows,           \* db.transactions, those of Flex left out
    kept,           \* db.statements
    batch,          \* importFiles: the parsed files still to be written
    drop,           \* the statement deleteStatement forgets
    stored,         \* the kept files replayStatements read
    flex, agent,    \* the pass of each background writer
    owed,           \* history: files whose rows must be there
    told,           \* history: how often the agent's kind was announced dropped
    outlived        \* history: a job was under way when the account was deleted

\* A writer of the account calls withImportLock.
Call(j) == Len(queue[Mine]) + 1 < MaxLine /\ Request(j)

db == <<account, rows, kept, owed, told, outlived>>
page == <<batch, drop, stored>>
vars == <<lockVars, db, page, flex, agent>>

-----------------------------------------------------------------------------
\* The transactions.

\* writeFile: a missing account does not stop it; the update of its record does
\* nothing then.
Import(f) ==
    LET retired == IF f = Flex THEN rows \cap {Agent} ELSE {}
        newly   == retired \ account.warned
    IN  /\ rows' = (rows \ retired) \cup ({f} \cap Statement)
        /\ kept' = IF f \in Statement THEN kept \cup {f} ELSE kept
        /\ told' = IF newly # {} /\ ~outlived THEN told + 1 ELSE told
        /\ account' = IF account.exists
                      THEN [account EXCEPT !.warned = @ \cup newly] ELSE account
        /\ owed' = IF f \in Statement /\ ~outlived THEN owed \cup {f} ELSE owed
        /\ UNCHANGED outlived

\* A transaction that fails rolls everything back.
RolledBack == UNCHANGED db

-----------------------------------------------------------------------------
\* The Sources page.  Its controls are off while a handler of the page runs, but
\* that flag dies with the page: the user who leaves it and comes back finds them
\* on, the handler still running.  So no guard is taken from them.  The counts two
\* handlers await before they ask the user for a confirmation change nothing.

\* importFiles parses every file before it writes any: these are those that pass.
PickFiles(files) ==
    /\ account.exists
    /\ Call("files")
    /\ batch' = files
    /\ UNCHANGED <<db, drop, stored, flex, agent>>

\* Each file has a transaction of its own; one that fails leaves the others.
WriteFile(f) ==
    /\ Holds("files") /\ f \in batch
    /\ Import(f) \/ RolledBack
    /\ batch' = batch \ {f}
    /\ UNCHANGED <<lockVars, drop, stored, flex, agent>>

EndBatch ==
    /\ Holds("files") /\ batch = {}
    /\ Settle(Mine)
    /\ UNCHANGED <<db, page, flex, agent>>

\* Mutant: the files to replay are listed before the lock is asked for.
AskRebuildEarly(job) ==
    /\ account.exists
    /\ Call(job)
    /\ stored' = IF job = "replay" THEN [stored EXCEPT ![job] = kept] ELSE stored
    /\ UNCHANGED <<db, batch, drop, flex, agent>>

\* handleReplay and handlePurge, once the user has confirmed.
AskRebuild(job) ==
    /\ account.exists
    /\ Call(job)
    /\ UNCHANGED <<db, page, flex, agent>>

ForgetStatement(s) ==
    /\ account.exists /\ s \in kept
    /\ Call("forget")
    /\ drop' = s
    /\ stored' = [stored EXCEPT !["forget"] = Unread]
    /\ UNCHANGED <<db, batch, flex, agent>>

\* replayStatements reads the kept files and parses them before its transaction.
ReadStored(job) ==
    /\ Holds(job) /\ stored[job] = Unread
    /\ stored' = [stored EXCEPT ![job] = IF job = "forget" THEN kept \ {drop} ELSE kept]
    /\ UNCHANGED <<lockVars, db, batch, drop, flex, agent>>

\* The files are rewritten only when the rebuild drops one.
Rebuilt(job) ==
    /\ rows' = (rows \ Statement) \cup stored[job]
    /\ kept' = IF job = "forget" THEN stored[job] ELSE kept
    /\ owed' = IF outlived THEN {} ELSE kept'
    /\ UNCHANGED <<account, told, outlived>>

\* A file that no longer parses, or a failed transaction, leaves all as it was.
Rebuild(job) ==
    /\ Holds(job) /\ stored[job] # Unread
    /\ Rebuilt(job) \/ RolledBack
    /\ Settle(Mine)
    /\ stored' = [stored EXCEPT ![job] = Unread]
    /\ drop' = IF job = "forget" THEN Unread ELSE drop
    /\ UNCHANGED <<batch, flex, agent>>

Purge ==
    /\ Holds("purge")
    /\ \/ /\ rows' = {}
          /\ owed' = {}
          /\ UNCHANGED <<account, kept, told, outlived>>
       \/ RolledBack
    /\ Settle(Mine)
    /\ UNCHANGED <<page, flex, agent>>

\* The delete button is never off, and deleteAccount takes no lock.
DeleteAccount ==
    /\ account.exists
    /\ account' = [exists |-> FALSE, warned |-> {}]
    /\ rows' = {} /\ kept' = {} /\ owed' = {}
    /\ told' = 0
    /\ outlived' = (outlived \/ flex # "idle" \/ agent # "idle" \/ \E j \in MyJob : InLine(j))
    /\ UNCHANGED <<lockVars, page, flex, agent>>

\* createAccount, under the same label: the id is the label's slug.  Bound: not
\* after a deletion that a job outlived, whose rows the new account would inherit.
CreateAccount ==
    /\ ~account.exists /\ ~outlived
    /\ account' = [exists |-> TRUE, warned |-> {}]
    /\ UNCHANGED <<lockVars, rows, kept, owed, told, outlived, page, flex, agent>>

-----------------------------------------------------------------------------
\* The background writers.  Each has at most one pass of the account in the tab
\* (runningAccounts), which reads the account, fetches, and then takes the lock.

FlexStart ==
    /\ flex = "idle" /\ account.exists
    /\ flex' = "fetching"
    /\ UNCHANGED <<lockVars, db, page, agent>>

\* IB answers, or the pass gives up.
FlexFetched ==
    /\ flex = "fetching"
    /\ \/ Call("flex") /\ flex' = "ready"
       \/ UNCHANGED lockVars /\ flex' = "idle"
    /\ UNCHANGED <<db, page, agent>>

\* Mutant: the lane is drained by an import that resolves only.
FlexWriteWedges ==
    /\ Holds("flex") /\ flex = "ready"
    /\ \/ Import(Flex) /\ Settle(Mine)
       \/ RolledBack /\ UNCHANGED lockVars
    /\ flex' = "idle"
    /\ UNCHANGED <<page, agent>>

FlexWrite ==
    /\ Holds("flex") /\ flex = "ready"
    /\ Import(Flex) \/ RolledBack
    /\ Settle(Mine)
    /\ flex' = "idle"
    /\ UNCHANGED <<page, agent>>

AgentStart ==
    /\ agent = "idle" /\ account.exists
    /\ agent' = "fetching"
    /\ UNCHANGED <<lockVars, db, page, flex>>

AgentFetched ==
    /\ agent = "fetching"
    /\ \/ Call("agent") /\ agent' = "ready"
       \/ UNCHANGED lockVars /\ agent' = "idle"
    /\ UNCHANGED <<db, page, flex>>

\* The agent's transaction only adds, and updates the account's status.
AgentRows ==
    /\ rows' = rows \cup {Agent}
    /\ UNCHANGED <<account, kept, owed, told, outlived>>

AgentWrite ==
    /\ Holds("agent") /\ agent = "ready"
    /\ AgentRows \/ RolledBack
    /\ Settle(Mine)
    /\ agent' = "idle"
    /\ UNCHANGED <<page, flex>>

-----------------------------------------------------------------------------
\* The jobs of the other accounts, of which only the lane is seen.

Elsewhere ==
    /\ \/ \E j \in Job \ MyJob : Request(j)
       \/ \E a \in Account \ {Mine} : Settle(a) \/ HandOver(a)
    /\ UNCHANGED <<db, page, flex, agent>>

Handed == HandOver(Mine) /\ UNCHANGED <<db, page, flex, agent>>

Init ==
    /\ LockInit
    /\ account = [exists |-> TRUE, warned |-> {}]
    /\ rows = {} /\ kept = {} /\ owed = {}
    /\ told = 0
    /\ outlived = FALSE
    /\ batch = {}
    /\ drop = Unread
    /\ stored = [job \in {"replay", "forget"} |-> Unread]
    /\ flex = "idle" /\ agent = "idle"

User ==
    \/ \E files \in Picks : PickFiles(files)
    \/ AskRebuild("replay") \/ AskRebuild("purge")
    \/ \E s \in Statement : ForgetStatement(s)
    \/ DeleteAccount \/ CreateAccount
    \/ FlexStart \/ AgentStart

Batch == (\E f \in File : WriteFile(f)) \/ EndBatch
Replaying(job) == ReadStored(job) \/ Rebuild(job)

Next ==
    \/ User \/ Batch \/ Purge \/ Handed \/ Elsewhere
    \/ \E job \in {"replay", "forget"} : Replaying(job)
    \/ FlexFetched \/ FlexWrite \/ AgentFetched \/ AgentWrite

\* What the code has started goes on: a parse, a transaction, a fetch with its
\* timeout, and the callback of a settled promise all complete.  Nothing is
\* assumed of the user, and nothing of the other accounts.
Fairness ==
    /\ WF_vars(Batch) /\ WF_vars(Purge) /\ WF_vars(Handed)
    /\ \A job \in {"replay", "forget"} : WF_vars(Replaying(job))
    /\ WF_vars(FlexFetched) /\ WF_vars(FlexWrite)
    /\ WF_vars(AgentFetched) /\ WF_vars(AgentWrite)

Spec == Init /\ [][Next]_vars /\ Fairness

-----------------------------------------------------------------------------
\* Properties.

\* The types, in which no table ever holds a Flex response: writeFile keeps the
\* statements only, and a rebuild writes back no more than it read.
TypeOK ==
    /\ LockTypeOK
    /\ account \in [exists : BOOLEAN, warned : SUBSET {Agent}]
    /\ rows \subseteq Statement \cup {Agent}
    /\ kept \subseteq Statement /\ owed \subseteq Statement
    /\ told \in Nat /\ outlived \in BOOLEAN
    /\ batch \subseteq File
    /\ drop \in Statement \cup {Unread}
    /\ stored \in [{"replay", "forget"} -> (SUBSET Statement) \cup {Unread}]
    /\ flex \in {"idle", "fetching", "ready"}
    /\ agent \in {"idle", "fetching", "ready"}

\* Whatever runs at the same time, the statement rows are those of files kept,
\* and a file imported or replayed since the last purge has its rows: a rebuild
\* that read the files before its transaction sweeps no import away.
LedgerMatchesFiles ==
    ~outlived => rows \cap Statement \subseteq kept /\ owed \subseteq rows

\* A kept file is only forgotten by the deletion the user confirmed for it.
ForgottenOnlyOnDemand ==
    [][\A s \in kept \ kept' :
        \/ DeleteAccount
        \/ Holds("forget") /\ (outlived \/ s = drop)]_vars

\* No Flex sync and no agent pass writes between two files of one batch.
BatchUninterrupted ==
    [][Holds("files") /\ <<rows, kept>>' # <<rows, kept>> =>
        \/ batch' # batch
        \/ DeleteAccount]_vars

\* The user is told in at most one report that Flex drops the agent's kind of rows,
\* whichever of the page and the background sync drops it first.
AnnouncedOnce == ~outlived => told <= 1

\* Every call of the lock ends, whatever fails before it and whatever hangs in
\* another account's lane.
EveryJobEnds == \A j \in MyJob : InLine(j) ~> ~InLine(j)

\* The page asks before it deletes the account "and all its data on this device"
\* (i18n/en.json, sources.delete.confirm): nothing of it is left.
DeletedMeansGone == ~account.exists => rows = {} /\ kept = {}
=============================================================================
