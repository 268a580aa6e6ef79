----------------------------- MODULE TwsAgent ------------------------------
(***************************************************************************)
(* The local agent and its calls to TWS (agent/client.ts, agent/quotes.ts, *)
(* agent/useAgentSync.ts, apps/tws-agent/ib_tws_agent/main.py).  The agent *)
(* opens one connection to TWS per call, always as client 0, and TWS       *)
(* refuses a second one while the first lives; so the tabs take a lock of  *)
(* the browser, one call at a time, first come first served.  The browser  *)
(* gives up on a call after fifteen seconds and frees the lock, or loses   *)
(* it with the tab; the agent, which does not know, goes on to its own     *)
(* deadlines.                                                              *)
(*                                                                         *)
(* Time is in seconds.  The daily bars of a chart wait for TWS with no     *)
(* deadline of the agent: BarsTimeout is the library's (external).         *)
(***************************************************************************)
EXTENDS Integers, Sequences, FiniteSets

CONSTANTS
    Tab,
    BarsTimeout,    \* external: how long the library waits for bars
    MaxOrphans      \* bound: connections of closed tabs alive at once

ASSUME TwsAssumption == BarsTimeout \in Nat \ {0} /\ MaxOrphans \in Nat

Kind == {"snapshot", "quotes", "bars"}

ConnectTimeout == 5
PnlTimeout == 5
QuotesTimeout == 8
FetchTimeout == 15

\* What a handler waits for once it is connected, at most.
WorkTimeout == [kind \in Kind |->
    IF kind = "snapshot" THEN PnlTimeout ELSE IF kind = "quotes" THEN QuotesTimeout ELSE BarsTimeout]

VARIABLES
    queue,          \* the lock ib2:tws: the call granted, if any, then those waiting
    sent,           \* whether the granted call has been sent
    fetchAge,       \* seconds since it was
    connections     \* what the agent has open or is opening

twsVars == <<queue, sent, fetchAge, connections>>

Call == [tab : Tab, kind : Kind]

\* A connection knows its phase and for how long; `browser` tells whether the call that
\* asked for it still waits, gave up, or was lost with its tab.
Connection == [kind : Kind, phase : {"connecting", "working"}, since : Nat,
               browser : {"waits", "gave up", "closed"}]

TwsInit ==
    /\ queue = <<>> /\ sent = FALSE /\ fetchAge = 0
    /\ connections = {}

-----------------------------------------------------------------------------
(* The tabs.                                                               *)

\* exclusiveTws, for an agent pass, a batch of refreshQuotes or the bars of a chart.
\* Bound: a tab asks for one call at a time - which for two passes of an account is the
\* code's own rule (runningAccounts).
Ask(tab, kind) ==
    /\ \A i \in DOMAIN queue : queue[i].tab # tab
    /\ queue' = Append(queue, [tab |-> tab, kind |-> kind])
    /\ UNCHANGED <<sent, fetchAge, connections>>

\* A connection outlives the call that asked for it: nothing tells the agent.
Orphaned(how) ==
    connections' = {IF c.browser = "waits" THEN [c EXCEPT !.browser = how] ELSE c : c \in connections}

\* The tab is closed, or reloaded: its request, if any, leaves the lock.
Withdrawn(tab) ==
    \/ /\ \A i \in DOMAIN queue : queue[i].tab # tab
       /\ UNCHANGED queue
    \/ \E i \in DOMAIN queue :
          /\ queue[i].tab = tab
          /\ queue' = SubSeq(queue, 1, i - 1) \o SubSeq(queue, i + 1, Len(queue))

CloseTab(tab) ==
    /\ Cardinality({c \in connections : c.browser = "closed"}) < MaxOrphans
    /\ Withdrawn(tab)
    /\ IF sent /\ Head(queue).tab = tab
       THEN sent' = FALSE /\ fetchAge' = 0 /\ Orphaned("closed")
       ELSE UNCHANGED <<sent, fetchAge, connections>>

-----------------------------------------------------------------------------
(* The call that holds the lock.                                           *)

\* getAgentJson: sent on its turn, its own fifteen seconds start.
Send ==
    /\ queue # <<>> /\ ~sent
    /\ sent' = TRUE /\ fetchAge' = 0
    /\ connections' = connections \cup
          {[kind |-> Head(queue).kind, phase |-> "connecting", since |-> 0, browser |-> "waits"]}
    /\ UNCHANGED queue

\* The fetch is settled, well or not: the lock goes to the next.
Settle == queue' = Tail(queue) /\ sent' = FALSE /\ fetchAge' = 0

\* AbortSignal.timeout.
GivesUp ==
    /\ sent /\ fetchAge = FetchTimeout
    /\ Settle
    /\ Orphaned("gave up")

-----------------------------------------------------------------------------
(* The agent.                                                              *)

\* connectAsync: TWS refuses client 0 while it has one.
Connected(c) ==
    /\ c.phase = "connecting" /\ \A other \in connections : other.phase = "connecting"
    /\ connections' = (connections \ {c}) \cup {[c EXCEPT !.phase = "working", !.since = 0]}
    /\ UNCHANGED <<queue, sent, fetchAge>>

\* Refused, TWS absent, or five seconds without an answer: 503.  Otherwise everything
\* has arrived, or the deadline.  Disconnected whatever happens, and answered to the
\* call, if it waits.
Closes(c) ==
    /\ connections' = connections \ {c}
    /\ IF c.browser = "waits" THEN Settle ELSE UNCHANGED <<queue, sent, fetchAge>>

\* Mutant: the deadline of the agent starts over with each message of TWS.
LeftUnlessFed(c) ==
    IF c.phase = "connecting" THEN ConnectTimeout - c.since ELSE FetchTimeout + 1

\* How long a handler may still stay in its phase.
Left(c) == (IF c.phase = "connecting" THEN ConnectTimeout ELSE WorkTimeout[c.kind]) - c.since

\* No handler outlives its deadline.
Second ==
    /\ \A c \in connections : Left(c) > 0
    /\ sent \/ connections # {}
    /\ sent => fetchAge < FetchTimeout
    /\ fetchAge' = IF sent THEN fetchAge + 1 ELSE 0
    /\ connections' = {[c EXCEPT !.since = @ + 1] : c \in connections}
    /\ UNCHANGED <<queue, sent>>

-----------------------------------------------------------------------------
AgentWorks == \E c \in connections : Connected(c) \/ Closes(c)

TwsNext ==
    \/ \E tab \in Tab : CloseTab(tab) \/ \E kind \in Kind : Ask(tab, kind)
    \/ Send \/ GivesUp \/ AgentWorks \/ Second

TwsSpec == TwsInit /\ [][TwsNext]_twsVars

-----------------------------------------------------------------------------
\* Every variable has its type, and only the call at the head of the lock is sent.
TwsTypeOK ==
    /\ queue \in Seq(Call) /\ sent \in BOOLEAN /\ fetchAge \in 0..FetchTimeout
    /\ connections \subseteq Connection
    /\ sent => queue # <<>>

\* TWS never turns a call away because of one this browser gave up on, unless that one
\* asked for bars: a pass and a request of quotes are over, in the agent, before the lock
\* passes to the next call, whatever TWS does.
OneTwsConnection ==
    \A c \in connections : c.browser = "gave up" => c.kind = "bars"
=============================================================================
