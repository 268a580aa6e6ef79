------------------------------- MODULE Alerts -------------------------------
(***************************************************************************)
(* The price alerts of one account (packages/alerts, apps/web/src/alerts,  *)
(* db/alerts.ts).  Two engines evaluate them against the same two tables:  *)
(* the shell, which works from its last render, and the watcher, which     *)
(* reads the journals, waits for quotes and only then passes.  What each   *)
(* captured may be out of date when its transaction starts; the states and *)
(* the manual alerts are read inside it.  Automatic alerts come from the   *)
(* positions the journals hold open.                                       *)
(*                                                                         *)
(* A price is where the market stands beside the alert's threshold.  The   *)
(* wings of a condor are folded into one side.  A notification goes with   *)
(* the transaction that triggered its alert.                               *)
(***************************************************************************)
EXTENDS Naturals, FiniteSets

CONSTANTS
    Automatic,      \* automatic alerts: one per open condor or covered call
    Wheel,          \* those that have no threshold before S0 is observed
    Manual,         \* manual alerts
    Price,          \* prices S0 may be observed at
    None            \* no record, no price, no definition

Alert == Automatic \cup Manual
Direction == {"above", "below"}

\* Where the market may stand: exactly on the threshold matters to a manual alert,
\* whose direction is drawn from it.
Places(a) == IF a \in Automatic THEN {"below", "above"} ELSE {"below", "on", "above"}

AlertState == [triggered : BOOLEAN, seen : BOOLEAN, disabled : BOOLEAN,
               armed : BOOLEAN, anchor : Price \cup {None}]
Initial == [triggered |-> FALSE, seen |-> FALSE, disabled |-> FALSE,
            armed |-> TRUE, anchor |-> None]

ASSUME AlertsAssumption ==
    /\ Wheel \subseteq Automatic /\ Automatic \cap Manual = {}
    /\ None \notin Price \cup {"below", "on", "above"} \cup AlertState

VARIABLES
    open,           \* the automatic alerts the journals in the base give
    defs,           \* db.alerts: the direction of each manual alert, or None
    states,         \* db.alertStates
    market,         \* where the market stands beside each threshold
    up,             \* the agent: "absent", present but "unsynced", or "fresh"
    shell,          \* useAlertEngine: what the last render captured
    watch,          \* evaluateAccountAlerts: the step under way and its captures
    rung,           \* history: notifications since the alert was last armed
    purged          \* history: open alerts whose state a pass has deleted

base == <<open, defs, states>>
world == <<market, up>>
vars == <<base, world, shell, watch, rung, purged>>

StateOf(a) == IF states[a] = None THEN Initial ELSE states[a]

\* evaluate.ts, alertStatus.
Triggered(state) == state.triggered /\ ~state.seen

\* manual.ts, directionFor.
DirectionFor(place) == IF place = "above" THEN "below" ELSE "above"

Beyond(a) == IF a \in Manual /\ defs[a] = "below" THEN {"below", "on"} ELSE {"on", "above"}

Defined == {m \in Manual : defs[m] # None}

\* mergeState: the patch over what is stored, or over INITIAL_STATE.
Merge(a, state) == states' = [states EXCEPT ![a] = state]

-----------------------------------------------------------------------------
\* A pass (pass.ts, runPass): one transaction over the two tables.

Stale(rows) == {a \in Automatic \ rows : states[a] # None}

Evaluated(rows, priceOf) ==
    {a \in rows \cup Defined : priceOf[a] # None /\ ~(a \in Wheel /\ StateOf(a).anchor = None)}

\* evaluateAlerts: the two transitions.

\* Mutant: an alert that rang rings at every pass.
RingsAgain(rows, priceOf) ==
    {a \in Evaluated(rows, priceOf) :
        /\ IF a \in Manual THEN ~StateOf(a).disabled ELSE StateOf(a).armed
        /\ priceOf[a] \in Beyond(a)}

Rings(rows, priceOf) ==
    {a \in Evaluated(rows, priceOf) :
        /\ ~StateOf(a).triggered
        /\ IF a \in Manual THEN ~StateOf(a).disabled ELSE StateOf(a).armed
        /\ priceOf[a] \in Beyond(a)}

\* Mutant: nothing rearms an alert.
RearmsNever(rows, priceOf) == {}

Rearms(rows, priceOf) ==
    {a \in Evaluated(rows, priceOf) \ Manual :
        ~StateOf(a).armed /\ priceOf[a] \notin Beyond(a)}

Ringing(state) == [state EXCEPT !.triggered = TRUE]

Rearmed(state) == [state EXCEPT !.armed = TRUE, !.triggered = FALSE, !.seen = FALSE]

\* Bound: notifications are counted up to two.
Rung(n) == IF n = 2 THEN 2 ELSE n + 1

RunPass(rows, priceOf) ==
    LET stale == Stale(rows)  rings == Rings(rows, priceOf)  rearms == Rearms(rows, priceOf) IN
    /\ states' = [a \in Alert |->
          IF a \in stale THEN None
          ELSE IF a \in rings THEN Ringing(StateOf(a))
          ELSE IF a \in rearms THEN Rearmed(StateOf(a)) ELSE states[a]]
    /\ rung' = [a \in Alert |->
          IF a \in rings THEN Rung(rung[a])
          ELSE IF a \in rearms \cup (stale \ open) THEN 0 ELSE rung[a]]
    /\ purged' = (purged \cup stale) \ (stale \ open)

\* setAlertAnchor: S0 is written once.
Anchored(state, price) == [state EXCEPT !.anchor = price]

\* Mutant: S0 is written by whoever comes.
SetAnchorAnew(a, price) == Merge(a, Anchored(StateOf(a), price))

SetAnchor(a, price) ==
    Merge(a, IF StateOf(a).anchor # None THEN states[a] ELSE Anchored(StateOf(a), price))

\* anchors.ts: the alerts anchorPending is given without S0.
Unanchored(rows) == {a \in rows \cap Wheel : StateOf(a).anchor = None}

\* What alertPriceOf may answer: the table of quotes keeps what it was last given.
Remembered(a) == {None} \cup Places(a)
NoPrice == [a \in Alert |-> None]

-----------------------------------------------------------------------------
\* Positions, the market and the agent.  A contract closed and sold again before any
\* pass is the same alert: its state is still there.

Open(a) ==
    /\ a \notin open
    /\ open' = open \cup {a}
    /\ UNCHANGED <<defs, states, world, shell, watch, rung, purged>>

Close(a) ==
    /\ a \in open
    /\ open' = open \ {a}
    /\ rung' = IF states[a] = None THEN [rung EXCEPT ![a] = 0] ELSE rung
    /\ purged' = IF states[a] = None THEN purged \ {a} ELSE purged
    /\ UNCHANGED <<defs, states, world, shell, watch>>

Market(a) ==
    /\ \E place \in Places(a) : market' = [market EXCEPT ![a] = place]
    /\ UNCHANGED <<base, up, shell, watch, rung, purged>>

Agent ==
    /\ up' \in {"absent", "unsynced", "fresh"}
    /\ UNCHANGED <<base, market, shell, watch, rung, purged>>

-----------------------------------------------------------------------------
\* The shell (useAlertEngine.ts, AlertsPage.tsx, PositionChartRow.tsx).

Blank == [ready |-> FALSE, rows |-> {}, pending |-> {}, shown |-> {}]

\* The live queries have answered: rows, and the alerts as the page shows them.
Render ==
    /\ shell' = [ready |-> TRUE, rows |-> open, pending |-> Unanchored(open),
                 shown |-> {a \in open \cup Defined : Triggered(StateOf(a))}]
    /\ UNCHANGED <<base, world, watch, rung, purged>>

\* A price, a state or an alert has changed: with the agent present, at the prices
\* of the last snapshot and of the table of quotes; else the pass only purges.
ShellPass ==
    /\ shell.ready
    /\ \E priceOf \in {f \in [Alert -> {None} \cup UNION {Places(a) : a \in Alert}] :
                          \A a \in Alert : f[a] \in Remembered(a)} :
          /\ up = "absent" => priceOf = NoPrice
          /\ RunPass(shell.rows, priceOf)
    /\ UNCHANGED <<open, defs, world, shell, watch>>

\* The live price at the render, or a bar that arrives later.
ShellAnchor(a) ==
    /\ a \in shell.pending
    /\ \E price \in Price : SetAnchor(a, price)
    /\ shell' = [shell EXCEPT !.pending = @ \ {a}]
    /\ UNCHANGED <<open, defs, world, watch, rung, purged>>

\* evaluate.ts, acknowledge: a manual alert goes out, an automatic one is disarmed.
Acknowledged(a, state) ==
    IF a \in Manual THEN [state EXCEPT !.seen = TRUE, !.disabled = TRUE]
                    ELSE [state EXCEPT !.seen = TRUE, !.armed = FALSE]

\* evaluate.ts, reactivate.
Reactivated(state) == [Rearmed(state) EXCEPT !.disabled = FALSE]

\* "Vu", clicked on a row of the last render.
Acknowledge(a) ==
    /\ a \in shell.shown
    /\ Merge(a, Acknowledged(a, StateOf(a)))
    /\ UNCHANGED <<open, defs, world, shell, watch, rung, purged>>

\* setAlertOverride: the threshold moves, the rest of the state stays.
Override(a) ==
    /\ a \in shell.rows
    /\ Merge(a, StateOf(a))
    /\ \E place \in Places(a) : market' = [market EXCEPT ![a] = place]
    /\ UNCHANGED <<open, defs, up, shell, watch, rung, purged>>

\* A new alert has an identifier of its own: nothing is left of the former one.
Create(m) ==
    /\ m \notin Defined /\ states[m] = None /\ m \notin shell.shown \cup watch.alerts
    /\ \E place, known \in Places(m) :
          /\ defs' = [defs EXCEPT ![m] = DirectionFor(known)]
          /\ market' = [market EXCEPT ![m] = place]
    /\ UNCHANGED <<open, states, up, shell, watch, rung, purged>>

\* updateManualAlert: moved on the chart; its state is left as it is.
Move(m) ==
    /\ m \in Defined
    /\ \E place, known \in Places(m) :
          /\ defs' = [defs EXCEPT ![m] = DirectionFor(known)]
          /\ market' = [market EXCEPT ![m] = place]
    /\ UNCHANGED <<open, states, up, shell, watch, rung, purged>>

\* Mutant: the state stays behind.
DeleteDefinition(m) ==
    /\ m \in Defined
    /\ defs' = [defs EXCEPT ![m] = None]
    /\ UNCHANGED <<open, states, world, shell, watch, rung, purged>>

Delete(m) ==
    /\ m \in Defined
    /\ defs' = [defs EXCEPT ![m] = None]
    /\ Merge(m, None)
    /\ rung' = [rung EXCEPT ![m] = 0]
    /\ UNCHANGED <<open, world, shell, watch, purged>>

\* reactivateManualAlert: without a price the direction stays.
Reactivate(m) ==
    /\ m \in Defined /\ StateOf(m).disabled
    /\ Merge(m, Reactivated(StateOf(m)))
    /\ \E place \in Remembered(m) :
          defs' = IF place = None THEN defs ELSE [defs EXCEPT ![m] = DirectionFor(place)]
    /\ rung' = [rung EXCEPT ![m] = 0]
    /\ UNCHANGED <<open, world, shell, watch, purged>>

-----------------------------------------------------------------------------
\* The watcher (watcher.ts, evaluateAccount.ts), one account at a time.

Resting == [at |-> "idle", alerts |-> {}, pending |-> {}, fresh |-> FALSE]

\* The agent pass has ended; the journals, then the alerts, are read.
WatchLoad ==
    /\ watch.at = "idle" /\ up # "absent"
    /\ watch' = [at |-> "loaded", alerts |-> open \cup Defined, pending |-> Unanchored(open),
                 fresh |-> up = "fresh"]
    /\ UNCHANGED <<base, world, shell, rung, purged>>

\* The quotes of what was read have arrived; a request that failed leaves the table
\* as it was.  A failed agent pass asks for none: the pass only purges.
WatchPass ==
    /\ watch.at = "loaded"
    /\ \E priceOf \in {f \in [Alert -> {None} \cup UNION {Places(a) : a \in Alert}] :
                          \A a \in Alert : f[a] \in IF up = "fresh" /\ a \in watch.alerts
                                                    THEN {market[a]} ELSE Remembered(a)} :
          RunPass(watch.alerts \cap Automatic, IF watch.fresh THEN priceOf ELSE NoPrice)
    /\ watch' = IF watch.fresh THEN [watch EXCEPT !.at = "passed"] ELSE Resting
    /\ UNCHANGED <<open, defs, world, shell>>

WatchAnchor(a) ==
    /\ watch.at = "passed" /\ a \in watch.pending
    /\ \E price \in Price : SetAnchor(a, price)
    /\ watch' = [watch EXCEPT !.pending = @ \ {a}]
    /\ UNCHANGED <<open, defs, world, shell, rung, purged>>

\* The other anchors found no price; the timer is armed again.
WatchDone ==
    /\ watch.at = "passed"
    /\ watch' = Resting
    /\ UNCHANGED <<base, world, shell, rung, purged>>

\* The tab is closed or reloaded, and another leads: no agent is known to it yet.
Reload ==
    /\ watch' = Resting /\ shell' = Blank /\ up' = "absent"
    /\ UNCHANGED <<base, market, rung, purged>>

-----------------------------------------------------------------------------
Init ==
    /\ open = {} /\ defs = [m \in Manual |-> None] /\ states = [a \in Alert |-> None]
    /\ market \in [Alert -> {"below", "above"}] /\ up = "absent"
    /\ shell = Blank /\ watch = Resting
    /\ rung = [a \in Alert |-> 0] /\ purged = {}

Next ==
    \/ \E a \in Automatic : Open(a) \/ Close(a) \/ Override(a)
    \/ \E a \in Alert : Market(a) \/ Acknowledge(a)
    \/ \E a \in Wheel : ShellAnchor(a) \/ WatchAnchor(a)
    \/ \E m \in Manual : Create(m) \/ Move(m) \/ Delete(m) \/ Reactivate(m)
    \/ Agent \/ Reload \/ Render \/ ShellPass \/ WatchLoad \/ WatchPass \/ WatchDone

\* The timer of the watcher is armed again at the end of every pass, whatever its
\* outcome; its requests have time limits.  Nobody has to open the account's page.
Fairness == WF_vars(WatchLoad) /\ WF_vars(WatchPass) /\ WF_vars(WatchDone)

Spec == Init /\ [][Next]_vars /\ Fairness

-----------------------------------------------------------------------------
\* Each kind of alert keeps to its own: only a manual alert is switched off, only an
\* automatic one disarmed, only a Wheel one has S0.
OfItsKind(a, state) ==
    /\ state.disabled => a \in Manual
    /\ ~state.armed => a \in Automatic
    /\ state.anchor # None => a \in Wheel

RecordsOK ==
    /\ states \in [Alert -> AlertState \cup {None}]
    /\ \A a \in Alert : states[a] # None => OfItsKind(a, states[a])
    /\ rung \in [Alert -> 0..2]

SourcesOK ==
    /\ open \subseteq Automatic /\ purged \subseteq Automatic
    /\ defs \in [Manual -> Direction \cup {None}]
    /\ market \in [Alert -> {"below", "on", "above"}]
    /\ \A a \in Alert : market[a] \in Places(a)
    /\ up \in {"absent", "unsynced", "fresh"}

EnginesOK ==
    /\ shell \in [ready : BOOLEAN, rows : SUBSET Automatic, pending : SUBSET Wheel, shown : SUBSET Alert]
    /\ watch \in [at : {"idle", "loaded", "passed"}, alerts : SUBSET Alert,
                  pending : SUBSET Wheel, fresh : BOOLEAN]

\* Every table, capture and counter has its fields, and the fields of a record are those
\* its kind of alert may have: "Vu", a rearming and S0 write what that kind reads.
TypeOK == RecordsOK /\ SourcesOK /\ EnginesOK

\* One notification each time an alert is armed, whichever engine sees the crossing
\* first, how often each passes and however old what it captured - as long as no pass
\* has deleted the state of a position still open.
RingsOnce == \A a \in Alert \ purged : rung[a] <= 1

\* The same with no exception: a transition is written and notified only once.
NeverRingsTwice == \A a \in Alert : rung[a] <= 1

\* An alert the pages show as triggered has been notified: the badge never comes on
\* silently, by a rearming or a reactivation that clears half of the state.
BadgeHasRung == \A a \in Alert : Triggered(StateOf(a)) => rung[a] >= 1

\* No triggered state outlives its manual alert: nothing would ever purge it.
NoGhost == \A m \in Manual : Triggered(StateOf(m)) => m \in Defined

\* S0 is an observation: once written it does not change as long as its record lives,
\* though the shell and the watcher both go on observing prices for it.
AnchorKept ==
    [][\A a \in Wheel : states[a] # None /\ states'[a] # None /\ states[a].anchor # None
                           => states'[a].anchor = states[a].anchor]_vars

\* What the next evaluation owes an alert: a notification, or its rearming.
Owed(a) ==
    /\ a \in open \cup Defined
    /\ a \in Wheel => StateOf(a).anchor # None
    /\ \/ /\ market[a] \in Beyond(a) /\ ~StateOf(a).triggered
          /\ ~StateOf(a).disabled /\ StateOf(a).armed
       \/ a \in Automatic /\ market[a] \notin Beyond(a) /\ ~StateOf(a).armed

\* With the agent and TWS answering for good, a crossing that lasts is notified and a
\* price that comes back for good rearms its alert, whatever page is open.
NeverMissed == <>[](up = "fresh") => \A a \in Alert : Owed(a) ~> ~Owed(a)
=============================================================================
