-------------------------- MODULE WatcherElection --------------------------
(***************************************************************************)
(* Who watches the alerts, and when (alerts/watcher.ts).  Every window     *)
(* starts a watcher; a lock of the browser elects one, which makes passes: *)
(* at once, after each pass when its timer fires, and when an account      *)
(* gains a port of TWS.  Passes never overlap: one asked for during        *)
(* another is made right after.  A window may be closed at any moment, and *)
(* the lock then elects another.  What a pass does to the alerts is        *)
(* Alerts; here it reads the accounts it will pass over.                   *)
(***************************************************************************)
EXTENDS FiniteSets

CONSTANTS
    Window,
    Port            \* accounts with a port of TWS

ASSUME ElectionAssumption == "unseen" \notin Port

Unseen == {"unseen"}    \* no accounts observed yet

VARIABLES
    ports,          \* db.accounts: those with a port
    watcher,        \* per window: "waits" for the lock, "leads" or is "closed"
    seen,           \* per window: what its live query last showed
    pass,           \* per window: "none", "starts", "runs"
    again,          \* per window: another pass was asked for
    armed,          \* per window: the timer of the next pass
    watched         \* history: ports a pass has read since they were gained

electionVars == <<ports, watcher, seen, pass, again, armed, watched>>

ElectionInit ==
    /\ ports = {} /\ watched = {}
    /\ watcher = [w \in Window |-> "waits"]
    /\ seen = [w \in Window |-> Unseen]
    /\ pass = [w \in Window |-> "none"]
    /\ again = [w \in Window |-> FALSE]
    /\ armed = [w \in Window |-> FALSE]

\* request: a pass starts, or follows the one that runs.
Requested(w) ==
    IF pass[w] = "none"
    THEN /\ pass' = [pass EXCEPT ![w] = "starts"]
         /\ again' = [again EXCEPT ![w] = FALSE]
         /\ armed' = [armed EXCEPT ![w] = FALSE]
    ELSE again' = [again EXCEPT ![w] = TRUE] /\ UNCHANGED <<pass, armed>>

\* lead.
Elected(w) ==
    /\ watcher[w] = "waits" /\ \A v \in Window : watcher[v] # "leads"
    /\ watcher' = [watcher EXCEPT ![w] = "leads"]
    /\ Requested(w)
    /\ UNCHANGED <<ports, seen, watched>>

TimerFires(w) ==
    /\ armed[w]
    /\ Requested(w)
    /\ UNCHANGED <<ports, watcher, seen, watched>>

\* The live query: the first answer only takes note; a port gained asks for a pass, in
\* the window that leads.
Observes(w) ==
    /\ watcher[w] # "closed" /\ seen[w] # ports
    /\ seen' = [seen EXCEPT ![w] = ports]
    /\ IF seen[w] # Unseen /\ ~ports \subseteq seen[w] /\ watcher[w] = "leads"
       THEN Requested(w) ELSE UNCHANGED <<pass, again, armed>>
    /\ UNCHANGED <<ports, watcher, watched>>

Reads(w) ==
    /\ pass[w] = "starts"
    /\ pass' = [pass EXCEPT ![w] = "runs"]
    /\ watched' = watched \cup ports
    /\ UNCHANGED <<ports, watcher, seen, again, armed>>

\* The loop of request ends: the next pass is armed, whether this one ended or threw.
\* Mutant: a pass that throws arms nothing.
OverUnlessThrown(w, threw) ==
    /\ pass' = [pass EXCEPT ![w] = "none"]
    /\ armed' = [armed EXCEPT ![w] = ~threw]
    /\ UNCHANGED again

Over(w, threw) ==
    /\ pass' = [pass EXCEPT ![w] = "none"]
    /\ armed' = [armed EXCEPT ![w] = TRUE]
    /\ UNCHANGED again

PassEnds(w) ==
    /\ pass[w] = "runs"
    /\ IF again[w]
       THEN /\ pass' = [pass EXCEPT ![w] = "starts"]
            /\ again' = [again EXCEPT ![w] = FALSE]
            /\ UNCHANGED armed
       ELSE Over(w, FALSE)
    /\ UNCHANGED <<ports, watcher, seen, watched>>

\* The read of the accounts fails.
PassThrows(w) ==
    /\ pass[w] = "starts"
    /\ Over(w, TRUE)
    /\ UNCHANGED <<ports, watcher, seen, watched>>

\* The window is closed: its lock goes to another.
Closed(w) ==
    /\ watcher[w] # "closed"
    /\ watcher' = [watcher EXCEPT ![w] = "closed"]
    /\ pass' = [pass EXCEPT ![w] = "none"]
    /\ again' = [again EXCEPT ![w] = FALSE]
    /\ armed' = [armed EXCEPT ![w] = FALSE]
    /\ UNCHANGED <<ports, seen, watched>>

\* A port is typed or erased, in whatever window.
PortChanges(p) ==
    /\ ports' = IF p \in ports THEN ports \ {p} ELSE ports \cup {p}
    /\ watched' = watched \ {p}
    /\ UNCHANGED <<watcher, seen, pass, again, armed>>

ElectionNext ==
    \/ \E w \in Window : Elected(w) \/ TimerFires(w) \/ Observes(w) \/ Reads(w)
                         \/ PassEnds(w) \/ PassThrows(w) \/ Closed(w)
    \/ \E p \in Port : PortChanges(p)

\* The lock is granted, timers fire, and a read of the base that is retried for ever
\* does not fail for ever.
ElectionFairness ==
    \A w \in Window : /\ WF_electionVars(Elected(w) \/ TimerFires(w) \/ PassEnds(w))
                      /\ SF_electionVars(Reads(w))

ElectionSpec == ElectionInit /\ [][ElectionNext]_electionVars /\ ElectionFairness

-----------------------------------------------------------------------------
\* A port of TWS is watched as soon as a window stays open: whoever led and was closed,
\* whatever pass was under way when it was typed, and even after a pass that threw, a
\* later pass reads it.
EveryPortIsWatched ==
    \A p \in Port :
       (p \in ports \ watched) ~> (p \in watched \/ p \notin ports
                                   \/ \A w \in Window : watcher[w] = "closed")
=============================================================================
