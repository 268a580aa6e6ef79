---------------------------- MODULE AccountShell ----------------------------
(***************************************************************************)
(* The shell of the account on screen (routes/AppLayout.tsx,               *)
(* db/AccountDataProvider.tsx, db/hooks.ts, alerts/useAlertEngine.ts,      *)
(* agent/useUnderlyingQuotes.ts, agent/quotes.ts).  Live queries read the  *)
(* tables of one account, each on its own; from their answers a render     *)
(* derives the journals, the risk report and the alerts; its effects queue *)
(* an evaluation pass and ask the agent for quotes.  The provider is not   *)
(* remounted when the user switches to another account: a live query keeps *)
(* its last answer until the new query answers.                            *)
(*                                                                         *)
(* A row is [of, edition]: the account it belongs to and how many times    *)
(* that table of that account was written; edition Gone is what a query    *)
(* finds of a deleted account.  What a pass writes is in Alerts.           *)
(***************************************************************************)
EXTENDS Naturals, Sequences

CONSTANTS
    Scope,          \* the accounts of the base
    Part,           \* the tables of an account the shell reads
    Nowhere,        \* no account on screen
    Loading,        \* undefined: no answer yet
    Nil,            \* no pass, no inputs, no answer
    MaxEdition,     \* bound: writes of one table of one account
    MaxHappenings,  \* bound: what the user, the other writers and the agent do, all told
    Batches,        \* batches of QUOTES_MAX_SYMBOLS tickers in a refresh
    MaxRefreshes    \* bound: refreshes under way at once

\* What a query finds in a table of an account, and what a pass is given.
TableRow(a) == [of : {a}, edition : Nat]
JournalParts == Part \cap {"account", "ledger", "snapshot", "contracts"}
InputsAbout(a) == [account : {a}, journals : [JournalParts -> TableRow(a)], margins : TableRow(a),
              prices : (TableRow(a) \X Nat) \cup {Loading}]

\* undefined and null are neither an account, nor a row, nor an answer, nor inputs.
ASSUME ShellAssumption ==
    /\ {"account", "snapshot"} \subseteq Part
    /\ Part \subseteq {"account", "ledger", "snapshot", "contracts", "alerts", "states"}
    /\ Nowhere \notin Scope /\ Batches \in Nat \ {0} /\ MaxEdition \in Nat
    /\ \A a \in Scope :
         /\ Loading \notin TableRow(a) /\ Nil \notin [scope : {a}, row : TableRow(a)] /\ Nil \notin InputsAbout(a)

VARIABLES
    tables,         \* the base: the edition of each table of each account
    existing,       \* db.accounts
    address,          \* the account of the URL, if any
    listed,         \* what useAccounts last answered
    following,      \* the account the live queries are subscribed for
    answers,        \* per table: the last answer, [scope, row]
    frame,          \* what the last render derived its views from
    effectsDue,     \* the effects of that render have not run yet
    passInputs,     \* latest.current
    scheduled,      \* queue.current.scheduled
    passing,        \* the inputs of the pass under way
    farewells,      \* passes of unmounted providers, under way or queued
    lastPass,       \* history: the inputs of this provider's last pass
    reachable,      \* useAgentPresence is "present"
    quotes,         \* the quotes of the tab: batches merged so far
    quoted,         \* the dependencies of the last quoting effect
    refreshes,      \* refreshes under way, in their order before the lock
    happened          \* what came from outside so far

stored == <<tables, existing>>
subscription == <<following, answers>>
engine == <<passInputs, scheduled, passing, farewells, lastPass>>
quoting == <<quotes, quoted, refreshes>>
shellVars == <<stored, address, listed, subscription, frame, effectsDue, engine, reachable, quoting, happened>>

Gone == MaxEdition + 1

-----------------------------------------------------------------------------
\* The views a render derives.

\* Mutant: the last answer, whichever account it was of.
LastAnswer(p, a) == IF answers[p] = Nil THEN Loading ELSE answers[p].row

\* useScopedLiveQuery: an answer for another account is no answer.
Answered(p, a) ==
    IF answers[p] # Nil /\ answers[p].scope = a THEN answers[p].row ELSE Loading

\* AppLayout: an account the list does not have is not entered.
OnDisplay == IF listed # Loading /\ address \in listed THEN address ELSE Nowhere

NoFrame == [account |-> Nowhere, rows |-> [p \in Part |-> Loading], present |-> FALSE, quotes |-> 0]

\* AccountDataProvider is rendered only for an account on screen.
Rendered ==
    IF OnDisplay = Nowhere THEN NoFrame
    ELSE [account |-> OnDisplay,
          rows |-> [p \in Part |-> Answered(p, OnDisplay)],
          present |-> reachable, quotes |-> quotes]

\* useJournals, with the active strategies of the account.
Journals(f) ==
    IF \E p \in JournalParts : f.rows[p] = Loading THEN Loading
    ELSE [p \in JournalParts |-> f.rows[p]]

\* useRiskReport: from the snapshot, timed by the sale instants once the journals are there.
RiskReport(f) ==
    IF f.rows["snapshot"] = Loading THEN Loading
    ELSE [positions |-> f.rows["snapshot"], soldAt |-> Journals(f)]

\* A deleted account has no margins, and the snapshot is checked a second time.
EngineReady(f) ==
    /\ \A p \in Part : f.rows[p] # Loading
    /\ f.rows["account"].edition # Gone
    /\ f.rows["snapshot"].of = f.account

\* PassInputs: without the agent, no price.
InputsOf(f) ==
    [account |-> f.account, journals |-> Journals(f), margins |-> f.rows["account"],
     prices |-> IF f.present THEN <<f.rows["snapshot"], f.quotes>> ELSE Loading]

\* useUnderlyingQuotes: the port, the tickers of the report, those of the manual alerts once loaded.
NoRequest == [port |-> Loading, held |-> Loading, alerts |-> FALSE]
RequestOf(f) ==
    IF ~f.present \/ f.rows["account"] \in {Loading, [of |-> f.account, edition |-> Gone]} THEN NoRequest
    ELSE [port |-> f.rows["account"], held |-> f.rows["snapshot"], alerts |-> EngineReady(f)]

-----------------------------------------------------------------------------
\* The live queries.

ListAnswers ==
    /\ listed # existing
    /\ listed' = existing
    /\ UNCHANGED <<stored, address, subscription, frame, effectsDue, engine, reachable, quoting, happened>>

\* A query reads its table and answers; a write has it read again.
QueryAnswers(p) ==
    LET a == following
        found == [scope |-> a, row |-> [of |-> a, edition |-> tables[a][p]]]
    IN
    /\ a # Nowhere /\ answers[p] # found
    /\ answers' = [answers EXCEPT ![p] = found]
    /\ UNCHANGED <<stored, address, listed, following, frame, effectsDue, engine, reachable, quoting, happened>>

-----------------------------------------------------------------------------
\* A render, and its effects.  React runs the effects of a render before the next one.

\* Unmounted, the provider forgets its queries and its references; its queue runs on.
Unmounts ==
    /\ following' = Nowhere /\ answers' = [p \in Part |-> Nil]
    /\ farewells' = (farewells \cup {passing, IF scheduled THEN passInputs ELSE Nil}) \ {Nil}
    /\ passInputs' = Nil /\ scheduled' = FALSE /\ passing' = Nil /\ lastPass' = Nil
    /\ quoted' = NoRequest
    /\ UNCHANGED <<quotes, refreshes>>

Renders ==
    /\ ~effectsDue /\ frame # Rendered
    /\ frame' = Rendered
    /\ IF Rendered = NoFrame THEN effectsDue' = FALSE /\ Unmounts
       ELSE effectsDue' = TRUE /\ UNCHANGED <<subscription, engine, quoting>>
    /\ UNCHANGED <<stored, address, listed, reachable, happened>>

Subscribes == following' = frame.account /\ UNCHANGED answers

\* One pass is queued at a time; until it starts, the last inputs win.
SchedulesPass ==
    /\ IF EngineReady(frame) THEN passInputs' = InputsOf(frame) /\ scheduled' = TRUE
       ELSE passInputs' = Nil /\ UNCHANGED scheduled
    /\ UNCHANGED <<passing, farewells, lastPass>>

\* A request for nothing is not sent; one for what was just asked neither.
AsksForQuotes ==
    /\ quoted' = RequestOf(frame)
    /\ IF quoted'.held = Loading \/ quoted' = quoted
       THEN UNCHANGED refreshes
       ELSE /\ Len(refreshes) < MaxRefreshes
            /\ refreshes' = Append(refreshes, [asked |-> quoted', left |-> Batches])
    /\ UNCHANGED quotes

EffectsRun ==
    /\ effectsDue /\ effectsDue' = FALSE
    /\ Subscribes /\ SchedulesPass /\ AsksForQuotes
    /\ UNCHANGED <<stored, address, listed, frame, reachable, happened>>

-----------------------------------------------------------------------------
\* The queue of the passes, and the quotes.

\* Its turn come, a pass takes the inputs of the moment, if there are any.
PassStarts ==
    /\ scheduled /\ passing = Nil
    /\ passing' = passInputs /\ scheduled' = FALSE
    /\ UNCHANGED <<stored, address, listed, subscription, frame, effectsDue, reachable, quoting,
                   passInputs, farewells, lastPass, happened>>

\* Done or thrown: the queue goes on.
PassSettles ==
    /\ passing # Nil
    /\ lastPass' = passing /\ passing' = Nil
    /\ UNCHANGED <<stored, address, listed, subscription, frame, effectsDue, reachable, quoting,
                   passInputs, scheduled, farewells, happened>>

FarewellPass(i) ==
    /\ farewells' = farewells \ {i}
    /\ UNCHANGED <<stored, address, listed, subscription, frame, effectsDue, reachable, quoting,
                   passInputs, scheduled, passing, lastPass, happened>>

\* refreshQuotes: a batch answered or failed, the next one goes to the end of the queue.
BatchEnds(merged) ==
    /\ refreshes # <<>> /\ (merged => happened < MaxHappenings)
    /\ quotes' = IF merged THEN quotes + 1 ELSE quotes
    /\ refreshes' = IF Head(refreshes).left = 1 THEN Tail(refreshes)
                    ELSE Append(Tail(refreshes), [Head(refreshes) EXCEPT !.left = @ - 1])
    /\ happened' = IF merged THEN happened + 1 ELSE happened
    /\ UNCHANGED <<stored, address, listed, subscription, frame, effectsDue, engine, reachable, quoted>>

-----------------------------------------------------------------------------
\* The user, the other writers of the base, and the agent.

Happens == happened < MaxHappenings /\ happened' = happened + 1

Goes(a) ==
    /\ Happens /\ address # a /\ address' = a
    /\ UNCHANGED <<stored, listed, subscription, frame, effectsDue, engine, reachable, quoting>>

\* An import, a sync, an agent pass, an alert created, marked seen or triggered.
Writes(a, p) ==
    /\ Happens /\ tables[a][p] < MaxEdition
    /\ tables' = [tables EXCEPT ![a][p] = @ + 1]
    /\ UNCHANGED <<existing, address, listed, subscription, frame, effectsDue, engine, reachable, quoting>>

Deletes(a) ==
    /\ Happens /\ a \in existing
    /\ existing' = existing \ {a}
    /\ tables' = [tables EXCEPT ![a] = [p \in Part |-> Gone]]
    /\ UNCHANGED <<address, listed, subscription, frame, effectsDue, engine, reachable, quoting>>

PresenceTurns ==
    /\ Happens /\ reachable' = ~reachable
    /\ UNCHANGED <<stored, address, listed, subscription, frame, effectsDue, engine, quoting>>

ShellInit ==
    /\ tables = [a \in Scope |-> [p \in Part |-> 0]] /\ existing = Scope
    /\ address = Nowhere /\ listed = Loading
    /\ following = Nowhere /\ answers = [p \in Part |-> Nil]
    /\ frame = NoFrame /\ effectsDue = FALSE
    /\ passInputs = Nil /\ scheduled = FALSE /\ passing = Nil /\ farewells = {} /\ lastPass = Nil
    /\ reachable = FALSE
    /\ quotes = 0 /\ quoted = NoRequest /\ refreshes = <<>> /\ happened = 0

ShellNext ==
    \/ ListAnswers \/ Renders \/ EffectsRun \/ PassStarts \/ PassSettles \/ PresenceTurns
    \/ \E p \in Part : QueryAnswers(p)
    \/ \E i \in farewells : FarewellPass(i)
    \/ \E merged \in BOOLEAN : BatchEnds(merged)
    \/ \E a \in Scope \cup {Nowhere} : Goes(a)
    \/ \E a \in Scope, p \in Part : Writes(a, p)
    \/ \E a \in Scope : Deletes(a)

ShellSpec == ShellInit /\ [][ShellNext]_shellVars

-----------------------------------------------------------------------------

OfOne(a, row) == row = Loading \/ row.of = a

\* Every pass, and every request to the agent, works on the rows of one account.
PassesOwnRows ==
    \A i \in {passInputs, passing} \cup farewells : i # Nil =>
        /\ i.margins.of = i.account
        /\ \A p \in JournalParts : i.journals[p].of = i.account

RequestsAreOfOne ==
    \A i \in 1..Len(refreshes) :
        refreshes[i].asked.held.of = refreshes[i].asked.port.of

\* What is handed to the sidebar, the title bar and the pages is of the account on screen.
ShowsOwnRows == \A p \in Part : OfOne(frame.account, frame.rows[p])

\* Nothing is left to do: every query has answered, and the queue is empty.
AtRest ==
    /\ ~effectsDue /\ frame = Rendered /\ frame.account # Nowhere
    /\ \A p \in Part : answers[p] # Nil /\ answers[p].row.edition = tables[frame.account][p]
    /\ following = frame.account /\ ~scheduled /\ passing = Nil

\* The last entry wins: at rest, the last pass was of what the base holds.
LastEntryWins == AtRest /\ EngineReady(frame) => lastPass = InputsOf(frame)

\* A switch of account leaves the live queries with the rows of the previous one until they
\* answer again: none of them reaches a view, a pass (which purges states by the journals it is
\* given) or a request (db/hooks.ts, useScopedLiveQuery); and a change made while a pass runs is
\* evaluated by a later one (useAlertEngine, the queue).
ShellServesItsAccount == PassesOwnRows /\ RequestsAreOfOne /\ ShowsOwnRows /\ LastEntryWins
=============================================================================
