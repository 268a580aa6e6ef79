# TLA+ verification of IB Options Analyzer

This directory holds TLA+ models of IB Options Analyzer, TLC configurations that check
them on small instances, and TLAPS proofs of safety properties for every value of the
constants. Every definition is translated from the code; `PROJECT.json` gives, under
`map`, the lines each one stands for.

The program is a browser application that keeps the books of an Interactive Brokers
options account in IndexedDB. It reads three kinds of reports (Flex queries through a
relay, HTML statements the user downloads, executions from a local TWS agent), computes
journals, coverage, statistics and alerts from them, and can deposit an encrypted copy of
its base on a small Django server. There is no database server to serialise its writers:
React components, timers and background hooks write the same tables between their
`await`s, and live queries show each of them its own moment of the base.

    tlc -workers 2 -config Backup.cfg MCBackup
    tlapm AccountLedgerProofs.tla

## 1. Inventory

Paths are under `src/`; `web` stands for `apps/web/src`.

| component | code | state it keeps | operations | module |
|---|---|---|---|---|
| Range ownership | `packages/ledger/src/import.ts`, `filter.ts` | none | `planImport` of a Flex, statement or agent batch | RangeOwnership |
| Ledger of an account | `web/db/importFile.ts`, `replayStatements.ts`, `clearDerived.ts`, `snapshot.ts`, `cashPoints.ts`, `contracts.ts` | rows, kept statements, snapshot, cash points, contract windows | imports, rebuild, forgetting a file, purge | AccountLedger |
| Import lock | `web/db/importLock.ts` | a queue and a running flag per account, in the tab | request, settle, hand over | FifoLock, ImportLock |
| Writers of an account | `web/pages/SourcesPage.tsx`, `flex/sync.ts`, `agent/sync.ts`, `db/accounts.ts` | what each handler read before it waited | batch, replay, deletion of a file, purge, Flex sync, agent pass, creation and deletion of the account | AccountWriters |
| Encrypted backup | `web/db/backup/*`, `components/settings/BackupCard.tsx`, `api/backup.ts`; `apps/api/core` | record (on, key, envelope), timer, mute counter, the card's form and handlers; one row per user | enable, disable, change of passphrase, deposit, restore, adoption, deletion | Backup |
| Session of the server | `web/api/session.tsx`, `allauth.ts`, `pages/SettingsPage.tsx`, `LoginPage.tsx` | cookie, second factor, recovery codes; what the pages tell of them | sign in, code, invitation, sign out, refresh, cards | ServerAccount |
| Invitations | `apps/api/core/api.py`, `models.py` | the invitation's row, the users | check, accept under the row's lock | Invitations |
| Flex sync | `web/flex/sync.ts`, `proxy.ts`; `apps/api/ib/*` | attempts, waits, the throttle's windows | send request, poll, wait, give up | FlexRelay |
| Its automatic trigger | `web/flex/useFlexAutoSync.ts`, `relay.ts`, `stale.ts` | last attempt per account, instances of the hook | examination, attempt, record | FlexTrigger |
| TWS agent | `apps/tws-agent`, `web/agent/client.ts` | a lock across tabs, connections to TWS | snapshot, quotes, bars | TwsAgent |
| Alerts | `packages/alerts/src/*`, `web/alerts/*`, `db/alerts.ts` | one record per alert, manual definitions, each engine's captures | passes of the shell and of the watcher, S₀, "Vu", override, manual alerts | Alerts |
| Election of the watcher | `web/alerts/watcher.ts` | a lock across tabs, timer, pending pass | elect, pass, arm | WatcherElection |
| Gestures on a chart | `web/components/charts/AlertOverlay.tsx`, `PositionChartRow.tsx` | drag, press, editor | pointers, long press, editor | ChartAlerts |
| Journals | `packages/ledger/src/journals/*` | lot book, rows, pending exits | replay of one instant of the ledger | LotBook, Journals |
| Names of contracts | `packages/ledger/src/journals/identities.ts`, `web/db/contracts.ts` | windows of the aliases | canonical name, renaming before the replay | Identities, Naming |
| Figures of the journals | `packages/ledger/src/journals/stats.ts`, `capital.ts`, `levels.ts`, ... | none | monthly P/L, capital, holdings, levels, strategies of a trade | Reports |
| Coverage | `packages/coverage/src/coverage.ts`, `report.ts` | none | what covers each option sold | Coverage |
| Positions pages of the strategies | `packages/coverage/src/strategy.ts`, `strategyBoxes.ts` | none | lines of a page, what migrates to Others, cut lines | StrategyPages |
| Decisions to buy back | `packages/coverage/src/buyback.ts`, `condors.ts` | none | advice on an option sold, on a condor | Buybacks |
| Parsers | `packages/ib-parsers/src/*` | none | Flex XML, statement HTML, agent JSON to rows | Parsers |
| Cash of the account | `packages/ledger/src/cash.ts` | none | impacts, running balances anchored on points | CashBalances |
| Tables | `web/lib/tableView.ts`, `tableCriteria.ts`, `hooks/useTableView.ts` | sort, criteria and search, in memory and storage | filter, sort, facets; a change of account | TableFilters, TableViews |
| Boxes of a positions page | `web/lib/tableBoxes.ts`, `expiryFilter.ts`, `pages/StrategyPositionsPage.tsx` | search, expiry and filters of each box | filter, choose an expiry, clear | PositionBoxes |
| Timeline of the history | `web/lib/historyTimeline.ts`, `components/history/*` | first visible row, drag | keys, rail, year marks | HistoryTimeline |
| Sector table | `web/db/sectors.ts`, `components/sectors/*` | one row per ticker, the draft of a cell | cells, CSV, rows created by imports | Sectors |
| Shell of the account on screen | `web/db/hooks.ts`, `db/AccountDataProvider.tsx`, `alerts/useAlertEngine.ts`, `agent/useUnderlyingQuotes.ts` | what each live query answered last, the pass queued | render, effects, passes, quotes | AccountShell |
| Versions of the base | `web/pwa/updates.ts`, `main.tsx`, `db/schema.ts`, `reloadOnVersionChange.ts` | versions published, served, open | update, raise the base, reload | Updates |
| Export, demonstration, translations, drawing | `web/export`, `demo`, `i18n`, `components` | none another part depends on | | not modelled |

**How they interact.** Every import goes through `withImportLock(account, task)`: one task
at a time per account and per tab, in order of request. Inside the task a Dexie transaction
reads the ledger, asks `planImport` for the rows to write and retire, and updates the
snapshot, the cash points and the contract windows beside it. Flex rows are durable;
statement rows can be thrown away and laid again from the kept files (`replayStatements`);
agent rows are a stop-gap until a file covers them. A Dexie hook sees every write and arms
the backup's timer unless the section that writes is muted. Live queries read the tables of
the account on screen, each on its own; the journals are computed from their answers - the
trades first given their canonical names - and feed the statistics, the coverage engine,
the positions pages and two alert engines which share one table of states: the shell, in
the page of the account shown, and the watcher, in the tab that leads. Charts and the page
of alerts edit the manual ones. Calls to TWS queue behind one browser lock; Flex calls share
the server's throttle.

**What is hard, and what makes each part correct.** The full list with its lines is
`hazards` in `PROJECT.json`; in short:

* *Ranges.* The same execution comes under three ids and two dates. Correct: nothing is
  counted twice, nothing reported on time is lost, in any order of imports and rebuilds.
* *Tables beside the ledger.* Each is merged by its own rule on import and rebuilt by
  another on replay. Correct: none goes back in time, and a rebuild ends where imports would.
* *Lock and writers.* A task that throws or hangs, a hand-over in a later micro-task.
  Correct: first come first served, never wedged, what is read under it still true when used.
* *Backup.* A key nobody can recover, one copy on the server, a timer and a card that both
  deposit; what keeps the card's handlers apart goes away with its page. Correct: what is on the server opens with what the browser or its user holds.
* *Session.* Answers lost or late while the page moves on. Correct: the page does not tell a
  session open, a factor on or a set of codes valid against the server.
* *Alerts.* Two engines act on captures of different ages, in one of several tabs. Correct:
  one notification per arming, nothing missed that lasts, a deleted alert stays deleted.
* *Agents and relays.* Deadlines on both sides, one client id, a shared throttle. Correct:
  the deadlines compose, a sync never refuses itself, the trigger neither loops nor forgets.
* *Journals.* Lots cut, moved and reordered by closes, deliveries, takeovers, condors and
  corporate actions. Correct: quantities and money are those of the ledger, covered calls
  keep their shares, the past stays settled.
* *Reading.* Names reused and changed, cells unreadable. Correct: a position is that of its
  contract, and a source gives all its history or says what it leaves out.
* *Pages.* Filters, boxes, accounts and answers that change under one another. Correct: a
  page shows its own account and tells what it hides.
* *Versions.* Tabs of different ages on one base. Correct: none is left on a base that has
  outrun it.

## 2. Modules

`<-` is EXTENDS.

    RangeOwnership <- AccountLedger <- AccountLedgerProofs
    FifoLock  <=refines=  ImportLock <- AccountWriters <- MCAccountWriters, AccountWritersProofs
    Backup, ServerAccount <- MCBackup, ServerProofs
    LotBook <- Journals <- Reports <- Buybacks;   LotBook <- Coverage
    Buybacks, Coverage <- StrategyPages <- JournalsProofs;   StrategyPages, Updates <- MCJournals
    Invitations, ChartAlerts, TwsAgent, FlexTrigger, FlexRelay, Alerts <- DeskProofs
    FlexRelay, FlexTrigger, TwsAgent, WatcherElection, Invitations, ChartAlerts, Alerts <- MCDesks
    Identities <- Naming;   TableFilters <- TableViews, PositionBoxes
    Parsers, Naming, TableViews, PositionBoxes, HistoryTimeline, CashBalances, Sectors,
        AccountShell, AccountLedger <- MCReadings
    AccountShell, Sectors, TableViews, PositionBoxes, CashBalances, Parsers,
        HistoryTimeline <- ReadingProofs
    DataLemmas <- AccountLedgerProofs, DeskProofs, ReadingProofs, JournalsProofs
    Folding: instantiated by JournalsProofs, once for each kind of loop

Four MC modules compose parts that share no variable. A behaviour chooses one at the start
(`about`, `desk`) and the others stay in one fixed initial state: the state spaces add up
instead of multiplying, and a liveness property is only promised at its own desk. Which parts
share a module is a matter of how long the runs take.

Every module defines a few operators marked *Mutant*: forms of a definition beside them that
a plausible bug would give. They are used by nothing here; substituted for the definition
they deform, each one makes TLC find the property that `mutants` names violated, which is
how we know that the property says something of the code.

### The base of an account

**RangeOwnership.** Constants describe events: the session the files date each of
(`FileWhen`), what TWS stamps (`AgentWhen`), the day IB first reports it (`KnownFrom`).
`MarketDayOf` is `filter.ts`: a night stamp goes back a day, a week-end day goes back to
Friday; the integer calendar has `SundayIs` for its only anchor. `PlanFlex`,
`PlanStatement`, `PlanAgent` are the three branches of `planImport`: Flex retires the other
sources from its oldest day on, a statement keeps below the Flex floor and replaces
statement rows of its period, the agent writes only past every Flex row.

**AccountLedger.** The tables of one account: `rows`, `statements` (the kept files), `snapshot`,
`cash`, `window` (of one contract), `warned`, with `now` and `rebuilt` (history: no purge
since the kept files were last reflected). Each action is a transaction of `importFile.ts`,
`agent/sync.ts`, `replayStatements.ts` or `clearDerived.ts` with every table it writes. A file
may be imported any time after it was taken, an old one after a new one; an agent pass may write
with a capture of the day before. `RebuiltRows`, `RebuiltCash` and `RebuiltWindow` state in
closed form what the loop of `replayStatements` ends on; `RebuildIsTheLoop` compares the three
with the loop itself (`Replayed`). Two hypotheses bound the claims, both about IB's reports:
`OnTime(e)` (IB reports it the day it happens) and `StampsAgree(e)` (TWS stamps it inside the
session the files date it of). `NightBefore` exempts one documented case, an execution of the
night in which a Flex window opens, which that window retires without a row of its own.

**FifoLock, ImportLock, AccountWriters.** `FifoLock` is what a lock promises; `ImportLock`
is `importLock.ts`, with the task that runs and the lanes whose promise has `settled` while
the `finally` that drains the queue has not run; it implements `FifoLock` under the mapping
"the task that runs, then the queue". `AccountWriters` puts behind it the six callers of an
account, cut at their awaits; each step may fail, and a transaction that fails leaves the
tables as they were. `DeleteAccount` takes no lock, as in `accounts.ts`. The ledger is
abstracted to which files have rows, are kept, and are `owed` rows (history). A second
account's lane runs beside, where a call may hang.

**Updates.** A published version, its Service Worker (active, waiting), the base's schema,
and each tab: the code it runs, whether its base is closed, opening, open, refused or being
raised, and what its inline script does. The browser delivers `controllerchange` and
`versionchange` in its own time; a reload lands on what the Service Worker serves then, one
that goes round it on what the server publishes.

### The server

**Backup.** `record` is the IndexedDB record; `server` the one row of the user; `armed` the
thirty-second timer; `suppressed` the mute counter. `push` has a deposit per slot, the timer's
or a card's, each walking through `pushBackup` at its awaits, failing at each, and landing
after its tab was closed (`stray`, `Straggle`). `card` has one handler of `BackupCard.tsx` per
place: `Shown` is the card on screen, with its open form (`form`); the other places are cards
left behind. `busy` and `form` are state of the component, so that they keep apart the handlers
of one card only: `Leave` takes the page away with its handler under way, and the page shown
again has a card at rest, whose buttons act on what the base says by then. A form acts when it
is submitted, on a record that may no longer be the one its button looked at. Every handler
that reads the record before a derivation, a restore or a deposit puts what it read.
Encryption is what it does: a blob has the key it was sealed with and the phrase its
envelope opens with. `Reload` closes the tab anywhere; `Elsewhere` is a second device. History:
`owed` (a write no deposit has read), `consented`, `overwritten` (a handler that had found no
record put one over another's), `promised` (the last change of a phrase of `Watched`).

**ServerAccount.** The server's cookie, factor and set of codes; what the tab tells of them
(`signed`, `loginForm`, two cards); and the `calls` under way: each is served or lost, then
answered, and its answer is read later by whoever is still there. `excused` (history) marks
what two overlapping calls of one kind, or the expiry of the session, make unsayable.

**Invitations.** Requests made with one link: read, check of the password, second read under
the row's lock and transaction, then the session; an administrator may create or delete the
user in between.

### The desks

**FlexRelay** has time in half-seconds: the calls of a sync (send, twelve polls, four waits
after a 429) against a relay that remembers the ages of the calls in its two windows. Syncs
start whenever they like, so that one may find in the windows what another left; a throttle
records the call that the other one refuses, as the code does.
**FlexTrigger** has the pages mounted, the examination each effect starts, the attempt at
each of its awaits, and what the hook remembers of it. **TwsAgent** has time in seconds: the
browser's lock, its fifteen seconds, and the agent's connections with their own deadlines; a
call given up on, or whose tab is closed, leaves its connection behind. **WatcherElection**
has which window leads and whether a pass is starting, running, asked for again or armed.
**Alerts** has each alert's record, the two engines over what each captured, S₀, and the
user's gestures; a price is its place relative to the threshold. **ChartAlerts** has the
pointers, the line held, the long press and the editor, over what the last render drew.

### The journals and what is read from them

**LotBook** has the lots, the order in which shares leave (free ones first, covered ones
last, by the strike of the call), and the takeover of shares by the Wheel. A plan is a
function from the positions of the book to quantities; a closed lot stays with nothing.
**Journals** replays one instant: corporate actions, option closes with their deliveries,
openings by strategy, condors, share trades with the buybacks of the next minute. `tape`
holds the instants known ahead. **Reports**, **Coverage**, **Buybacks** and
**StrategyPages** are pure functions of what Journals holds, evaluated in every state.
Averages are fractions, so that what Others takes in at the average of another strategy can
be compared exactly with the sales it comes from.

**Parsers** reads the same trades in the three sources, each in its own conventions, with
some cells missing or unreadable. **Identities** is `identities.ts`, rule by rule;
**Naming** puts it at work: a chain of stocks that take one another's tickers, an option that
follows, statements imported in any order, and the replay of the renamed trades.

### The pages

**TableFilters** (criteria, sort, facets) is used by **TableViews** (a table remembered per
account, a text whose pause is running, another tab on another account, a route that changes
under them) and by **PositionBoxes** (search, expiry, filters of each box, a snapshot that
arrives). **HistoryTimeline** has the months of the rows, the keys, the rail and its marks.
**CashBalances** has an account's true rows, what the ledger holds of them, and the points
that anchor it. **Sectors** has the table, accounts' imports that add companies, the CSV, and
one cell with its commits under way; `meant` and `typed` are history. **AccountShell** has
the tables of two accounts as editions, what each live query last answered, the frame
rendered, its effects, the queue of passes and the requests of quotes.

## 3. Runs

| Run | Instance | Distinct states | Properties | Result |
|---|---|---|---|---|
| `account_writers` | 6 writers, 2 statements, a second account, lanes of 3 | 270,855 | 3 | pass |
| `backup` | 1 own key and a foreign one, 2 handlers of the card and a deposit of the timer; 2 calls, 2 sets of codes | 1,180,148 | 4 | pass |
| `desks` | eight desks, one per actor of the browser, server or agent | 931,582 | 9 | pass |
| `journals` | six scenes, 4 instants; 2 tabs, 2 versions | 227,738 | 10 | pass |
| `readings` | nine subjects; for the ledger 4 events, 3 Flex and 5 statement files, 6 days | 1,524,438 | 14 | pass |
| `deleted_account` | as `account_writers` | - | 1 | violation |
| `first_key` | as `backup`, 2 own keys | - | 1 | violation |
| `passphrase_change` | as `backup`, 2 phrases, one handler at a time | - | 1 | violation |
| `rings_twice` | the alerts alone | - | 1 | violation |
| `merger_pnl` | as `journals` | - | 1 | violation |
| `unreadable_cash` | as `readings` | - | 1 | violation |
| `under_typing` | the sectors alone | - | 1 | violation |

**account_writers.** `FirstComeFirstServed`: the refinement of FifoLock. `EveryJobEnds`: a
failure never blocks the lane, a hang elsewhere never blocks this one. `LedgerMatchesFiles`:
no rebuild works from a stale list. *Bounds.* `MaxLine` = 3: one that runs and two behind it
is the least where order matters among waiters. `outlived` marks an account deleted while a
call of it was under way; of what such a call does after, only `DeletedMeansGone` speaks.
One tab: the lanes live in a tab, and the code claims nothing across tabs.

**backup.** `OwnBlobOpens`, `ArmedByConsentOnly`, and the liveness `WriteIsDeposited`, with two
handlers of the card under way at once, one on screen and one left behind, beside a deposit of
the timer and the requests of closed tabs. `OwnBlobOpens` exempts what `overwritten` marks, and
so says that two handlers which both found no record are the only way to lose the key of an own
blob; `first_key` shows that way. *Bounds.* Any other overlap takes two handlers: one that
holds what it read and one that writes meanwhile. One own key and one it can only receive tell
an adoption from a fresh draw; which phrase is which concerns no property of this run. The mute
of an agent's pass is run with one handler at a time: its only variable, the counter, is a sum.
`AccountIsTold`: signed in is signed in, a card tells the factor the server has, and the codes
shown are those that work. *Bounds.* Two calls at once, two showings of the cards, two sets of
codes, three gestures: enough for a late answer to meet a newer one.

**desks.** `RingsOnce` (one notification per arming), `NeverMissed` (liveness),
`DeletedAlertStays`, `OneTwsConnection` (a call given up on leaves a connection behind only if
it was for bars: the deadlines of the two sides compose), `EveryPortIsWatched` (liveness),
`LoneSyncNeverRefused` (the first time a sync meets a 429, another sync has calls in the relay's
windows: it never hurries itself into one), `NoAutomaticLoop`, `EntryIsServed` (liveness),
`InvitationServesOnce`. *Bounds.* Alerts do not read each other's records, so one of each kind
is enough to see all that two engines can do to one; two syncs share a throttle with nothing
else and start within a second and a half (`Patience` = 3); two tabs and one orphan for the
agent; two windows and two ports for the watcher; three requests for one invitation. Latency 0
is the hardest for the throttle: a slower answer only spaces the calls.

**journals.** Every ledger of up to four instants of six scenes (puts, shares and calls; LEAPS;
condors; splits and renamings; a merger; sales beside buybacks). `PositionKept`, `MoneyKept`:
the lots and rows add up to the ledger. `OldestFirst`: each close walks lots in the order of
their purchase. `OngoingWhileHeld`: an option that delivered shares is ongoing exactly while some
of them are held; a leg of a condor, which has no line of its own, may deliver without one.
`CallsAreBacked`: an instant in which no share leaves, and without a corporate action, bares no
call of the Wheel; what a sale of shares may bare is not stated. `EveryTradeIsFiled`: the trades
of each instant are in a row of a strategy; two trades of one instant are not told apart.
`PastIsSettled`: a later instant never rewrites a past month.
`CoverNeverUsedTwice`, `PagesShowTheAccount`: no share, call or leg covers twice, and each
contract is on the pages once, with Others telling what the title bar tells; the lines of an
option sold rest on the premium and the instants of its sales, so that what one strategy sold is
decided alike on the Positions page and wherever its contracts went, and an option kept at a
price is kept at that price for ever. The decisions are taken at two quotes (under and at the
two fifths of a premium of 1) and three instants, one before the expiry by a single instant.
*Bounds.* A contract is two shares, so that a lot may hold half of one; four instants let a lot
be opened, cut, taken over and closed. The scenes are apart because together they only multiply.
`NobodyIsLeftBehind` (liveness, Updates): with two tabs and one publication, every tab at work
that a raised base outruns comes to the new version by itself, and no upgrade waits for ever. A
tab whose script could not reach the server, and a tab that was closed, are excepted, and so is
a tab still opening its base when another raises it.

**readings.** `WholeOrAnnounced`, `SourcesAgree` (two trades, up to two cells wrong);
`PositionsFollowTheNames` (three stocks taking tickers in turn, an option, two statements in
any order); `TableTellsItsOwn`; `PageTellsWhatItHides`; `KeysWalkTheCalendar` (five rows over
six months, two of them after a gap of a year: the row a key aims at, before the list is
clipped to its end); `CashIsAccountedFor` (two currencies, rows
lost and rows unreadable); `TypedStands` (two importing accounts, one company, two fields);
`ShellServesItsAccount` (two accounts, two tables, four happenings). Of the ledger,
`CountedOnce`; `ImportLosesNothing`; `KeptFilesAreInTheLedger`, `KeptFilesAreReflected`: between
a rebuild and a purge every kept file is in the rows, the snapshot, the cash points and the
window; `RebuildIsTheLoop`. *Bounds.* The week holds the cases the bounds of `planImport` turn
on: the night after a session, the night of a Friday stamped on Saturday, a week-end, a
correction reported four days later, sliding Flex windows, one opening on a Saturday, two
downloads of the same period, nested periods, files without positions or cash. One contract's
window stands for all.

### Fairness

* AccountWriters: parses, transactions, fetches (all with time-outs) and the callbacks of
  settled promises complete. Nothing is assumed of the user or of the other account.
* Updates: each tab's own events are delivered and its loads land. Nothing of the user.
* Backup: a deposit under way goes on; the timer elapses, which supposes that the writes pause
  for thirty seconds: it is a debounce. Nothing is asked of the card's handlers, of a pass or of
  the user. A write owed is forgiven by turning the backup off or closing the tab, where the
  timer is lost (`BackupSync.tsx`).
* Alerts: only the watcher's steps are fair: its timer is armed again in a `finally`, its
  requests have time limits. `NeverMissed` also supposes the agent and TWS to answer for good
  from some point on.
* WatcherElection: the lock is granted, timers fire, passes end; strong fairness of the read
  of the accounts: a read retried for ever does not fail for ever.
* FlexTrigger: reads of the base, pings (time-limited) and syncs end. Nothing of the user.
* The other parts are checked for safety only and assume none.

### Findings

1. `deleted_account` (`DeletedMeansGone`): a sync, a pass or a queued batch that outlives the
   deletion of its account writes rows back for it.
2. `first_key` (`NothingStranded`): the settings page is left while `enableBackup` derives its
   envelope and shown again at rest; the backup is enabled again, and both calls find no record.
   What is deposited between their puts is under the first key, and the record keeps the second:
   the browser holds no key for its own blob, which its passphrase alone still opens, until its
   next deposit replaces it. `adoptBackupKey` beside an enabling does the same.
3. `passphrase_change` (`ChangeHolds`): a deposit begun before a change of passphrase lands
   after the one that confirmed it, with the old envelope.
4. `rings_twice` (`NeverRingsTwice`): the watcher purges by rows it read before an await; a
   position imported meanwhile loses its state and rings again. `RingsOnce` exempts the alerts
   that were `purged`, and says that this is the only way.
5. `merger_pnl` (`MergerRealizesItsPnl`): the basis of a cash-and-stock merger counts the whole
   of a lot sold in part, its row only what remains: the rows do not realize IB's P/L.
6. `unreadable_cash` (`HistoryIsSpared`): an unreadable date of the first position or an
   unreadable ending cash cancels the trades of the whole Flex file.
7. `under_typing` (`NeverUnderTyping`): the end of a cell's commit clears its `dirty` mark
   although the user has typed on; the stored value then replaces the typing.

### Observations

Things met while modelling that no run states as a violation: each is reachable in the
models, or excluded by a bound or an exemption named there.

* *Ledger.* A Flex window that opens after a night retires the agent rows of that night though
  nothing it writes replaces them. A rebuild may drop rows that `countOrphanRows` did not
  count. A cash-and-stock merger rescales `openPrice` and so rewrites the capital of past months.
* *Backup.* A deposit under way when the backup is turned off is still posted, and the note it
  takes (`recordBackup`) of a record read before puts the backup on again. A change of phrase
  whose deposit finds the backup turned off meanwhile, from the page shown again, ends without a
  deposit nor a word.
* *Flex.* Two syncs whose statements are slow can exhaust the four waits of one of them,
  although `flex/sync.ts:39-45` holds four to be enough for a whole window.
* *TWS.* Bars have no deadline of the agent (the library's is sixty seconds against the
  browser's fifteen), and a closed tab frees the lock while its connection lives: the next
  call is turned away, against "one after the other" of `client.ts:45-49`.
* *Watcher.* A port added between a new leader's first read and the first answer of its live
  query waits for the timer.
* *Session.* A late refresh may overwrite a login or a logout; a logout that was not served
  still tells anonymous; a late first read of the recovery codes overwrites a set just generated,
  which is shown only once; any 404 of the codes reads as "never generated".
* *Versions.* A tab still opening its base when another raises it is refused and told nothing
  before it is reloaded; a tab of the very first installation passes its first change even if a
  newer version came.
* *Shell.* The live queries answer one by one, so a frame may mix editions of one account for a
  moment; bars for S₀ are asked once per account, ticker and presence of the agent, even if
  that failed.
* *Charts.* Reactivating in the editor an alert deleted meanwhile writes a state without an
  alert; saving only the note of an alert moved elsewhere writes its old price back; any
  pointer's release ends another pointer's drag.
* *Sectors.* The draft of the row being added is erased by what follows its await.
* *Boxes.* With an expiry chosen, a box emptied by its own filter goes away with its pills,
  where `tableBoxes.ts:49-54` keeps it without one.
* *Parsers.* A statement without a Cash Report gives no warning; of several lines of a currency
  Flex keeps a readable one.

## 4. Proofs

| module | theorems |
|---|---|
| `AccountLedgerProofs` | `TypeSafe`, `FlexStatementSafe`, `FlexAgentSafe`, `CountedOnceSafe`, `FlexRowsStaySafe`, `KeptFilesSafe`, `ImportLosesNothingSafe`, `KeptFilesReflectedSafe`, `RebuildIsTheLoopSafe` |
| `AccountWritersProofs` | `LaneNeverWedgedSafe`, `FirstComeFirstServedSafe`, `WritersTypeSafe`, `LedgerMatchesFilesSafe`, `AnnouncedOnceSafe`, `BatchUninterruptedSafe`, `ForgottenOnlyOnDemandSafe` |
| `ServerProofs` | `BackupTypeSafe`, `OwnBlobOpensSafe`, `ArmedByConsentSafe`, `LoneChangeSafe`; `AccountInvHolds`, `AccountIsToldSafe` |
| `DeskProofs` | `InvitationServesOnceSafe`; `AlertsTypeSafe`, `RingsOnceSafe`, `BadgeHasRungSafe`, `NoGhostSafe`, `AnchorKeptSafe`; `GestureIsHeldSafe`, `DeletedAlertStaysSafe`; `TwsInvHolds`, `TwsTypeSafe`, `OneTwsConnectionSafe`; `TriggerInvHolds`, `TriggerTypeSafe`, `MemoryIsTheVisitsSafe`, `NoAutomaticLoopSafe`; `LoneSyncSafe` |
| `ReadingProofs` | `ShellInvHolds`, `ShellServesItsAccountSafe`; `SectorsInvHolds`, `TypedStandsSafe`, `ImportsNeverCollideSafe`; `PageTellsWhatItHidesSafe`; `TableTellsItsOwnSafe`; `CashInvHolds`, `CashIsAccountedForSafe`; `WholeOrAnnouncedSafe`, `SourcesAgreeSafe`; `TimelineInvHolds`, `KeysWalkTheCalendarSafe` |
| `JournalsProofs` | `JournalsStayFine`, `LotsStayOldestFirst`, `DeliveriesStayOngoing`; `PortfolioCoveredOnce`, `CoverIsNeverUsedTwice`; `CallsStayBacked` |
| `Folding` | `FoldKeeps`: what one round of a loop keeps, the whole loop keeps |
| `DataLemmas` | lemmas only: the least number with a property (`FirstOf`), the last (`LastOf`), totals and places along a sequence (`SomethingRuns`, `PlacesAreTaken`, ...) |

All hold for every value of the constants that satisfies the assumptions beside their
declaration: `EventAssumption`, `KnownAssumption` (IB reports nothing before it happens),
`FileAssumption` (a file is downloaded after its period ends), `LockAssumption`,
`WriterAssumption`, `BackupAssumption`, `AlertsAssumption`, `TwsAssumption`,
`TriggerAssumption`, `ChartAssumption`, `RelayAssumption`, `ShellAssumption`,
`SectorsAssumption`, `NoRowAssumption`, `TableAssumption`, `BoxesAssumption`, `CashAssumption`,
`ParsersAssumption`, `TimelineAssumption`, `PerContractAssumption`, `MonthAssumption`,
`QuoteAssumption`, `JournalsAssumption` (typing and distinctness of names; a contract is of a
positive whole number of shares; a column that sorts holds one number per line; no instant of a
scene comes before the one it follows, its trades have figures, and its corporate action has
one leg that leaves and one that arrives, as `corporate.ts` pairs them). TLC evaluates each of them.

* **Ledger.** The inductive invariant is `IInv`: the types with the two disjointness
  properties. Each source has one lemma (`FlexStep`, `StatementStep`, `AgentStep`,
  `RebuildRows`) saying which rows an import adds and which it may remove; both
  properties are then about the days of those rows alone. `CountedOnce` follows, because an
  event has one session. `KeptFilesInductive` is the one that needs `OnTime`: a file on its
  period declares every event on time in it (`OnTimeIsEverywhere`), so that a later download
  of a period cannot declare fewer.
* **What stands beside it.** `KeptFilesAreReflected` is inductive with `KeptWereTaken`, no kept
  file is from the future: an import only moves each table the way its merge rule does
  (`SnapshotAdvances`, `CashWidens`, `WindowWidens`), and a rebuild covers every file it keeps.
* **The rebuild's loop.** The rows, cash points and window are given in closed form; one more
  file moves each closed form as the loop's body does (`RowsLaid`, `CashLaid`,
  `WindowLaid`), so the closed forms satisfy the recursion that defines the loop. Were they
  not what it computes, they would not be for some set of files, fewest of all. Two kept files
  never have one period (`KeptApart`), so that one of them is always the last.
* **Lock.** `LaneInv` (types and "a lane in which someone waits has one who runs") and the
  line `Line(a)`: every step leaves it, appends to it or takes its head (`LineStep`), which is
  FifoLock's next-state relation. `NextUsesTheLock` carries both to AccountWriters.
* **Writers.** `WriterInv` adds what makes the properties inductive: `ListFresh`, the list a
  rebuild read is the list of kept files as long as it holds the lock; `NothingOutlives`,
  calls in line belong to an account that exists unless it was deleted under them;
  `Announced`, a kind told once is recorded as warned.
* **Backup.** `KeyInv`: every copy of a key that a deposit, a handler or a request of a closed
  tab holds across an await is the record's (`SameKey`), until `overwritten`; nobody holds a
  record where there is none; the mute counter is the number of handlers that restore, on screen
  or left behind, plus the pass that writes. Nothing in it counts handlers: it holds for any
  finite number of them. `PhraseInv`: if a change of phrase was the last thing under way when the
  envelope was rewritten (`LastUnderWay`: no deposit, no handler of any card, no request of a
  closed tab), every copy has the new phrase from then on, and so has what the server holds of
  this browser once the change is reported done; any later put of another phrase forgets the
  promise. `ChangeHolds`, without that condition, is the run `passphrase_change`.
* **Alerts.** `Deed(a)` lists the seven things a step may do to one alert's record and its
  bell together; `StepDeed` shows that every action of either engine and of the user does one
  of them. The rest is about deeds: `RungOnce` strengthens `RingsOnce` (a bell that has rung
  belongs to a record still triggered).
* **TWS.** `LockInv`: the call sent is the only one that waits, and it has exactly one
  connection. `ClockInv`: a handler is within its deadline, and what the browser has waited is
  what its connection has spent - at most the five seconds of connecting plus its work. For a
  pass or quotes these sum to less than fifteen seconds (`Deadlines`), so the browser cannot
  reach its own limit first; nothing bounds the bars.
* **Trigger.** `MountInv`: the instances of the hook, and their examinations, are those of the
  account shown. With it an attempt is recorded exactly while its account is visited, and
  forgotten when it is left, which is `MemoryIsTheVisits`: the code's memory is the history of
  the visit. `SyncBeginsByItsPing` shows that only a ping's answer begins a sync, and that one
  has compared the memory.
* **Flex.** `Spaced`: the calls of a sync that has waited for nobody are `PollWait` = 14
  half-seconds apart, all but its first. A window of 120 therefore has eight of them at most,
  one per slot of 14 (`NineCallsAtMost`), and the first: nine calls, under the ten allowed. A
  sync refused for the first time thus meets a call of another.
* **Session.** `AccountIsTold` is about a tab at rest; `SessionInv`, `FactorInv` and `CodesInv`
  say what the calls under way may still bring: one call of the session at a time, whose answer
  is about the session there is; no read of the factor beside a card that does not tell the
  change it will miss; never a read of the codes beside a form that makes new ones.
* **Desks.** An invitation is marked exactly when one request is served (`ServedInv`): the
  second read under the lock is what makes it inductive. `HeldInv` adds to `GestureIsHeld` the
  types of what the pointers hold. `KeptStep`: every write to a manual alert creates one never
  given, changes one that is there, or removes one.
* **Shell.** An answer carries the account it was asked for, so what a frame reads
  of it is of the account on screen; `QueueInv`: once the effects of a frame have run, its
  inputs wait in the queue, are worked on, or were the last worked on - never dropped between
  two passes.
* **Sectors.** `RowStands`, field by field: a row says what was last given for it or, where
  nothing was, what an import or a file made of it; `ImportInv`: an import that has read the
  known tickers holds the table and the table is as it read it, so that no two imports add the
  same row and none writes over a cell.
* **Tables, boxes.** A line on screen is known by its place in the unsorted list. Keys compared
  in turn and then places make a total order of the lines (`KeysRank`), whose ranks are 1 to n,
  each taken once (`PlacesAreTaken`): the list sorted has each line kept once, in order
  (`SortedPlaces`). Facets and pills are counts of places.
* **Cash.** `CashInv`: each point is the opening balance plus the true impacts of the days before
  it. Totals add term by term and split by days (`TotalsAdd`, `MovedSplits`), for there is no
  first place where they stop doing so.
* **Parsers.** `ParsersInv`: every cell is as written or spoiled, and what a parser returned is
  what the source still says. One row gives one transaction under a key of its own
  (`OneTransactionEach`, twins told apart by `TwinsDiffer`), so that a section read whole has
  as many as the history; what each source retells of a trade is its own figures, where they
  can be read, so that two that retell the same trades match (`TellersMatch`).
* **Timeline.** `TimelineInv`: the rows stay newest first, the window on them. Each month starts
  at the first place that has it, and places decrease as months go by, so that the bisection
  lands between the right two (`BisectionFinds`); the year marks are right because the least
  year label that was not would follow a right one (`MarksOfTheYears`).
* **Journals.** `JournalsInv`: the instants known come in order, those replayed before those of
  the tape, and the context is `Fine` at the last one replayed: each lot is in the order of its
  purchase among those of its contract, none is bought later than now, and what it says of its
  delivery is `Told` by the rows and the journal of exits, the only places a delivery is written.
  Neither property is inductive without the other half: an open lot moved to the front is in
  order only because it keeps its rank, and an ongoing row is closed only because the lots it
  delivered name it. Each loop of the replay is a fold, and what one round keeps the whole loop
  keeps (`FoldKeeps` of Folding, instantiated once per loop by the step and by what it keeps);
  rows and exits are only added (`Grown`), so that what was told stays told. Folding takes the
  well-ordering of the naturals as a hypothesis, `LeastNatural` of DataLemmas, so that its
  instances do not copy every lemma.
* **Coverage.** `Accounted`, kept by every fill of every phase of the engine: what is free of a
  long contract and what its allocations use make what is held, and what an option sold is
  covered by and what it lacks make its quantity. `NeverUsedTwice` is what is left of it when
  nothing free is negative; the phases, from naked shares to diagonals, only choose who draws.
  `Fine` also measures the lots (whole quantities, of contracts), so that the positions of any
  replayed context are a portfolio to which this applies.
* **Calls.** `LeavesBacked` relates the book before an instant to the book after it, and each
  phase of the replay keeps it: closing an option can only free shares (`OptionsBacked`), a
  purchase or a delivery can only bring some (`StocksBacked`). Opening is the delicate phase: a
  call sold in a book of S shares, W of them in the Wheel, with C calls resting on shares, is
  given at most the contracts the S shares still cover beside the C (`WheelCapacity`), and
  the takeover moves into the Wheel what it lacks for all of them, or all that is left outside
  (`TakeoverTakes`, `TakenOverSums`). As S bounds both, what the Wheel lacks never grows
  (`TakeoverCovers`). The rest of the call rests on a LEAPS or on nothing, and counts no share.

The definitions a proof reaches are loops written as recursive functions. No induction theorem
can be used here, but their existence follows by extending a shorter one (`SomethingRuns`), and
what they compute by looking at the first place where it would be wrong (`FirstOf`).

**Only model-checked:** the liveness properties (liveness and ENABLED are beyond this prover);
the figures of the journals (`PositionKept`, `MoneyKept`), which rest on every division of a
price or of a lot being exact: so are the figures of the run by choice, the code's are not, and
no general form is claimed; what is read from them (`PastIsSettled`, `PagesShowTheAccount`,
`EveryTradeIsFiled`), which compare whole replays or sum over a whole ledger;
`PositionsFollowTheNames`, true of the chains of names and windows of the run, of which no
general form is claimed.

Some of what is proved is checked by no run (`FlexRowsStay`, `BatchUninterrupted`,
`LoneChangeHolds`, `NoGhost`, `AnchorKept`, `GestureIsHeld`,
`LaneNeverWedged`, `ImportsNeverCollide`): each follows from a guard and the types once the
invariant is known, or was kept as a theorem when a deeper property took its place in the run.

## 5. What is left out, and why

* *Ledger:* the imports journal and the status fields of the account are written by no rule
  that depends on another table. Statements of re-keyed ids are not modelled. The
  documentation states three limits which are not claimed otherwise here: a statement and the
  agent both reporting a day without Flex, week-day holidays, and the last day of a Flex
  window being complete.
* *Writers:* two tabs have no lock between them, so that a rebuild in a second tab may work from
  files read before an import of the first.
* *Backup:* dates, sizes and errors of the record. Two tabs of one browser, whose cards and
  timers share the record. A click and the request it sends are one step, as are the confirmation
  of a restore and its answer. Another device never deletes. `buildPayload` reads its tables outside a
  transaction; a write between two reads arms the timer, and the next deposit replaces the torn
  blob. Two devices: the last deposit wins. A tab closed within the thirty seconds never
  makes the deposit until another write.
* *Server:* the framework's own sessions, the change of password, the administration.
* *Alerts:* which price becomes S₀. A notification goes with the transaction that triggers it;
  a tab closed between the two tells nobody. A position closed and sold again before any pass
  inherits the state of the former one: the model does so too.
* *Flex:* the messages recorded, and two syncs sharing the four waits (see the observations).
* *Journals:* several currencies, unknown prices (so that a merger always has its realized P/L,
  where `corporate.ts:220` does without), commissions (any trade that sells shares is a
  sale, where `buybacks.ts:5` leaves out one that paid none), the ratio of an adjusted
  delivery, and which legs of a corporate action belong together, read from its text. Two
  buybacks equally near a sale are taken in the order of the ledger, where `buybacks.ts:27`
  compares their ids. Prices are small integers chosen so that every share of a figure is exact.
  Transactions are known by their instants, so that the strategies of the trades of an instant
  are one set.
* *Names:* what Contract Information lists is external, taken from the comments of
  `identities.ts`. A ticker silently reused is bounded by `strangers`; an option adjusted by an
  action keeps its trades of the old name apart; a rival option within a chain is excluded.
* *Coverage and pages:* market values, the day's share, notes on a strike. The broker's average
  price is taken to be that of the sales. Averages are not rounded. Two tabs on one account: the
  last whole view of a table wins.
* *Parsers:* the texts themselves (dates, option symbols, HTML layout), the kinds of cash rows.
  A statement's key holds the symbol and the date (`statement.ts:308`); here the kind of asset
  stands for the symbol, and every row has the same date.
* *Cash:* the day of the point still under way, the tolerance of the check and the rounding to
  cents (`cash.ts:109` and `:134`): amounts are integers, points are closes.
* *Timeline:* rows arrive at the top. Rows inserted or retired further down are left out, as is
  the return to the top on a new search, criterion or sort (`HistoryTable.tsx:66-74`), and the
  clipping of the view to the end of the list.
* *Sectors:* a write that rejects (`EditableCell.tsx:40`), and the rows of an import that are not
  trades (`sectors.ts:190`).
* *Shell:* the queries of one account are two answers, of its account and of its snapshot, where
  `AccountDataProvider.tsx:31-48` has one per table; each is scoped in the same way. The bars of
  the charts.
* *Versions:* what each version of the schema rewrites in the rows. More than one publication
  at a time.
* *Export, demonstration, translations, drawing:* presentation.

## 6. Plan

Done: the base of an account with its lock, writers and versions; the backup and the session;
the alerts, their election and the charts; Flex, its trigger and the TWS agent; the journals
with their figures, coverage and pages; parsers and names; the tables and the shell. Each with
its mutants. Proved: every safety invariant of the runs but those of the names and, of the
journals, the figures and the pages read from them.

Next, in this order:

1. To prove: `EveryTradeIsFiled`, from an invariant that says of each trade replayed which lot,
   row or exit cites it; then `PagesShowTheAccount`.
2. To compose: AccountShell with Alerts, so that the states a pass purges are those of the
   frame; Naming with Journals, so that a renamed trade closes the lots of its former name.
3. To model: several currencies in the journals; the change of password and what it closes.
