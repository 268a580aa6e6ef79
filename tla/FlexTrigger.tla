---------------------------- MODULE FlexTrigger ----------------------------
(***************************************************************************)
(* When a Flex sync starts and who carries it (flex/useFlexAutoSync.ts,    *)
(* flex/relay.ts, flex/stale.ts, api/session.tsx, agent/useAgentSync.ts).  *)
(*                                                                         *)
(* The layout of an account and its Sources page each hold an instance of  *)
(* the hook.  An instance examines its account when it is mounted, when    *)
(* the session settles and when the presence of the agent changes; the     *)
(* examination reads the account, and a later one cancels it only before   *)
(* that read.  An attempt then reads the account again, pings the agent,   *)
(* chooses a relay and syncs, at most one at a time per account.           *)
(*                                                                         *)
(* What the sync says to its relay is FlexRelay; here it ends well or not. *)
(* A day makes a sync stale: nothing but an examination notices.           *)
(***************************************************************************)
EXTENDS Naturals, FiniteSets

CONSTANTS
    Account,
    Nobody,         \* no account shown, no record, no relay
    Days            \* bound: the last sync of an account is numbered up to Days

ASSUME TriggerAssumption == Nobody \notin Account /\ Days \in Nat

View == {"layout", "sources"}
Session == {"loading", "anonymous", "authenticated", "unreachable"}
Key == [relay : {"agent", "server"}, last : 0..Days]

VARIABLES
    accounts,       \* db.accounts: Flex credentials, relay mode, last sync, whether it is stale
    session,        \* session.status
    agentUp,        \* the local agent answers /health
    presence,       \* the tab's agent presence
    shown,          \* the account whose pages are open
    unread,         \* history: no examination has read it during this visit
    examining,      \* the views whose examination has not read the account yet
    mounted,        \* instances of the hook per account
    attempts,       \* relay and last sync of the last attempt, per account
    attempt,        \* the attempt under way per account: its step and what it knows
    synced          \* history: the same, of the last sync begun during this visit

outside == <<session, agentUp>>
place == <<shown, unread>>
triggerVars == <<accounts, session, agentUp, presence, shown, unread, examining, mounted,
                 attempts, attempt, synced>>

NoAttempt == [step |-> "none", auto |-> FALSE, last |-> 0, mode |-> "agent"]

TriggerInit ==
    /\ accounts \in [Account -> [flex : {TRUE}, mode : {"agent", "agent-and-server"},
                                 last : {0}, stale : {TRUE}]]
    /\ session = "loading" /\ agentUp \in BOOLEAN /\ presence = "unknown"
    /\ shown = Nobody /\ unread = FALSE /\ examining = {}
    /\ mounted = [a \in Account |-> 0]
    /\ attempts = [a \in Account |-> Nobody]
    /\ attempt = [a \in Account |-> NoAttempt]
    /\ synced = [a \in Account |-> Nobody]

-----------------------------------------------------------------------------
(* Pages.                                                                  *)

Views == IF shown = Nobody THEN {} ELSE IF mounted[shown] = 2 THEN View ELSE {"layout"}

\* An effect whose dependencies change starts over, in every mounted instance; it does
\* nothing while the session is loading.
Examine(views, status) == IF status = "loading" THEN {} ELSE views

Enter(a) ==
    /\ shown = Nobody
    /\ shown' = a /\ unread' = TRUE
    /\ mounted' = [mounted EXCEPT ![a] = @ + 1]
    /\ examining' = Examine({"layout"}, session)
    /\ UNCHANGED <<accounts, outside, presence, attempts, attempt, synced>>

OpenSources ==
    /\ Views = {"layout"}
    /\ mounted' = [mounted EXCEPT ![shown] = @ + 1]
    /\ examining' = examining \cup Examine({"sources"}, session)
    /\ UNCHANGED <<accounts, outside, presence, place, attempts, attempt, synced>>

\* The last instance to leave an account forgets its last attempt.
Unmounted(a, n) ==
    /\ mounted' = [mounted EXCEPT ![a] = @ - n]
    /\ attempts' = IF mounted[a] > n THEN attempts ELSE [attempts EXCEPT ![a] = Nobody]

CloseSources ==
    /\ Views = View
    /\ Unmounted(shown, 1)
    /\ examining' = examining \ {"sources"}
    /\ UNCHANGED <<accounts, outside, presence, place, attempt, synced>>

Leave ==
    /\ shown # Nobody
    /\ Unmounted(shown, Cardinality(Views))
    /\ shown' = Nobody /\ unread' = FALSE
    /\ examining' = {}
    /\ synced' = [synced EXCEPT ![shown] = Nobody]
    /\ UNCHANGED <<accounts, outside, presence, attempt>>

-----------------------------------------------------------------------------
(* The session, the agent and time.                                        *)

\* Mutant: the session settling does not start the examination over.
SettlesUnseen(status) == examining' = Examine(examining, status)

Settles(status) == examining' = Examine(Views, status)

\* fetchSession, login and logout: the session never loads again.
SessionSettles ==
    /\ \E status \in Session \ {"loading", session} : session' = status /\ Settles(status)
    /\ UNCHANGED <<accounts, agentUp, presence, place, mounted, attempts, attempt, synced>>

AgentComesOrGoes ==
    /\ agentUp' = ~agentUp
    /\ UNCHANGED <<accounts, session, presence, place, examining, mounted, attempts, attempt, synced>>

\* refreshPresence: the tab's presence is what the ping found, and a change of it starts
\* the examinations over.
Pinged ==
    LET found == IF agentUp THEN "present" ELSE "absent" IN
    /\ presence' = found
    /\ examining' = IF found = presence THEN examining ELSE Examine(Views, session)

\* The watcher, or a page, pings on its own.
WatcherPings ==
    /\ Pinged
    /\ UNCHANGED <<accounts, outside, place, mounted, attempts, attempt, synced>>

\* Twelve hours have passed since the last sync.
GrowsStale(a) ==
    /\ ~accounts[a].stale
    /\ accounts' = [accounts EXCEPT ![a].stale = TRUE]
    /\ UNCHANGED <<outside, presence, place, examining, mounted, attempts, attempt, synced>>

\* The form of the credentials: a blank field leaves what is stored, so that saving adds
\* what was missing and never erases.
SaveCredentials(a) ==
    \E flex \in {accounts[a].flex, TRUE} : accounts' = [accounts EXCEPT ![a].flex = flex]

ClearCredentials(a) == accounts' = [accounts EXCEPT ![a].flex = FALSE]

\* The radio buttons of the relay, saved on their own the moment they change.
SetFlexRelay(a) ==
    \E mode \in {"agent", "agent-and-server"} : accounts' = [accounts EXCEPT ![a].mode = mode]

\* The Flex card of the Sources page.
EditAccount(a) ==
    /\ shown = a /\ Views = View
    /\ SaveCredentials(a) \/ ClearCredentials(a) \/ SetFlexRelay(a)
    /\ UNCHANGED <<outside, presence, place, examining, mounted, attempts, attempt, synced>>

-----------------------------------------------------------------------------
(* An attempt.                                                             *)

\* Check and add, in one go: two instances never both pass.
Begun(a, auto) ==
    attempt' = IF attempt[a].step # "none" THEN attempt
               ELSE [attempt EXCEPT ![a] = [NoAttempt EXCEPT !.step = "reading", !.auto = auto]]

\* The account an examination reads: it attempts when the credentials are there and the
\* last sync is stale.
Examined(view) ==
    /\ view \in examining
    /\ examining' = examining \ {view}
    /\ IF accounts[shown].flex /\ accounts[shown].stale
       THEN Begun(shown, TRUE) ELSE UNCHANGED attempt
    /\ unread' = FALSE
    /\ UNCHANGED <<accounts, outside, presence, shown, mounted, attempts, synced>>

\* The button of the Sources page.
Click ==
    /\ Views = View
    /\ Begun(shown, FALSE)
    /\ UNCHANGED <<accounts, outside, presence, place, examining, mounted, attempts, synced>>

Ended(a) == attempt' = [attempt EXCEPT ![a] = NoAttempt]

ReadAccount(a) ==
    /\ attempt[a].step = "reading"
    /\ IF accounts[a].flex
       THEN attempt' = [attempt EXCEPT ![a].step = "pinging", ![a].last = accounts[a].last,
                                       ![a].mode = accounts[a].mode]
       ELSE Ended(a)
    /\ UNCHANGED <<accounts, outside, presence, place, examining, mounted, attempts, synced>>

\* relay.ts: the agent first; the server only for an account that allows it, and with a
\* session.
PickRelay(mode, present, status) ==
    IF present THEN "agent"
    ELSE IF mode = "agent-and-server" /\ status = "authenticated" THEN "server" ELSE Nobody

\* The attempt is recorded, unless the account was left meanwhile.
AttemptRecorded(a, key) == IF mounted[a] > 0 THEN [attempts EXCEPT ![a] = key] ELSE attempts

\* An automatic attempt does not repeat the last one.
\* Mutant: it does.
RepeatsNothing(a, key) == FALSE

Repeats(a, key) == attempt[a].auto /\ attempts[a] = key

PingAnswered(a) ==
    /\ attempt[a].step = "pinging"
    /\ Pinged
    /\ LET relay == PickRelay(attempt[a].mode, agentUp, session)
           key == [relay |-> relay, last |-> attempt[a].last]
       IN  IF relay = Nobody \/ Repeats(a, key)
           THEN Ended(a) /\ UNCHANGED <<attempts, synced>>
           ELSE /\ attempt' = [attempt EXCEPT ![a].step = "syncing"]
                /\ attempts' = AttemptRecorded(a, key)
                /\ synced' = IF shown = a THEN [synced EXCEPT ![a] = key] ELSE synced
    /\ UNCHANGED <<accounts, outside, place, mounted>>

\* A success moves the last sync; a failure leaves it.  Bound: Days successes.
SyncEnds(a) ==
    /\ attempt[a].step = "syncing"
    /\ Ended(a)
    /\ \/ UNCHANGED accounts
       \/ /\ accounts[a].last < Days
          /\ accounts' = [accounts EXCEPT ![a].last = @ + 1, ![a].stale = FALSE]
    /\ UNCHANGED <<outside, presence, place, examining, mounted, attempts, synced>>

-----------------------------------------------------------------------------
Visits ==
    \/ \E a \in Account : Enter(a)
    \/ OpenSources \/ CloseSources \/ Leave \/ Click
    \/ \E a \in Account : EditAccount(a)

World == SessionSettles \/ AgentComesOrGoes \/ WatcherPings \/ \E a \in Account : GrowsStale(a)

Progress ==
    \/ \E view \in View : Examined(view)
    \/ \E a \in Account : ReadAccount(a) \/ PingAnswered(a) \/ SyncEnds(a)

TriggerNext == Visits \/ World \/ Progress

\* The base answers, a ping has a time limit, a sync ends (FlexRelay) and the session
\* settles: its request is answered or fails.
TriggerFairness ==
    /\ \A view \in View : WF_triggerVars(Examined(view))
    /\ \A a \in Account : /\ WF_triggerVars(ReadAccount(a))
                          /\ WF_triggerVars(PingAnswered(a))
                          /\ WF_triggerVars(SyncEnds(a))

TriggerSpec == TriggerInit /\ [][TriggerNext]_triggerVars /\ TriggerFairness

-----------------------------------------------------------------------------
\* Every variable of the trigger has its type, and the instances of the hook are those
\* of the account shown.
TriggerTypeOK ==
    /\ accounts \in [Account -> [flex : BOOLEAN, mode : {"agent", "agent-and-server"},
                                 last : 0..Days, stale : BOOLEAN]]
    /\ session \in Session /\ agentUp \in BOOLEAN
    /\ presence \in {"unknown", "absent", "present"}
    /\ shown \in Account \cup {Nobody} /\ unread \in BOOLEAN /\ examining \subseteq View
    /\ mounted \in [Account -> 0..2]
    /\ attempts \in [Account -> Key \cup {Nobody}]
    /\ synced \in [Account -> Key \cup {Nobody}]
    /\ attempt \in [Account -> [step : {"none", "reading", "pinging", "syncing"}, auto : BOOLEAN,
                                last : 0..Days, mode : {"agent", "agent-and-server"}]]

\* What the automatic trigger remembers is exactly the last sync begun during the visit
\* under way: nothing outlives a visit, though an attempt spans several awaits, and the
\* Sources page coming and going loses nothing.
MemoryIsTheVisits == \A a \in Account : attempts[a] = synced[a]

\* The trigger does not loop: within a visit, an automatic sync is never the one made
\* just before, through the same relay after the same last success - though the ping of
\* each attempt may start the examinations over.
NoAutomaticLoop ==
    [][\A a \in Account :
         attempt[a].auto /\ attempt[a].step = "pinging" /\ attempt'[a].step = "syncing"
            => synced'[a] # synced[a] \/ shown # a]_triggerVars

\* Whether an account wants a sync that some relay can carry.
Wanting(a) ==
    /\ shown = a /\ session # "loading" /\ synced[a] = Nobody
    /\ accounts[a].flex /\ accounts[a].stale
    /\ PickRelay(accounts[a].mode, agentUp, session) # Nobody

\* The relay mode was edited between the read of an attempt and its ping.
Overtaken(a) == attempt[a].step = "pinging" /\ attempt[a].mode # accounts[a].mode

\* An account that is entered, wants a sync and has a relay gets one during the visit: the
\* session settling late, the agent found late, the account edited, its Sources page
\* opened and closed, must not lose it.
EntryIsServed ==
    \A a \in Account :
        (Wanting(a) /\ unread /\ attempt[a].step = "none") ~> (~Wanting(a) \/ Overtaken(a))
=============================================================================
