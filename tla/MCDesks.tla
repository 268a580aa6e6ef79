------------------------------ MODULE MCDesks ------------------------------
(***************************************************************************)
(* Seven parts of the application that watch, draw, or speak to a server   *)
(* or to the agent, and share no variable.  A behaviour works at one desk: *)
(* the other parts stay in one fixed initial state, so that the run adds   *)
(* the state spaces up instead of multiplying them.  The alerts have two   *)
(* desks, for the automatic and the manual ones: the two share no record.  *)
(***************************************************************************)
EXTENDS FlexRelay, FlexTrigger, TwsAgent, WatcherElection, Invitations, ChartAlerts, Alerts

CONSTANT Desk   \* the desks this run is about

VARIABLE desk

elsewhere == <<twsVars, electionVars, invitationVars, chartVars>>
deskVars == <<desk, flexVars, triggerVars, elsewhere, vars>>

\* The alerts a desk is about.
AlertsAt(d) == IF d = "automatic" THEN Automatic ELSE IF d = "manual" THEN Manual ELSE {}

MCInit ==
    /\ desk \in Desk
    /\ FlexInit /\ TriggerInit /\ TwsInit /\ ElectionInit /\ InvitationInit /\ ChartInit /\ Init
    /\ desk # "sync" => relay = [s \in Sync |-> "server"] /\ mood = [s \in Sync |-> {"generating"}]
    /\ desk # "trigger" => ~agentUp /\ \A a \in Account : accounts[a].mode = "agent"
    /\ \A a \in Alert \ AlertsAt(desk) : market[a] = "below"

AtSync == desk = "sync" /\ FlexNext /\ UNCHANGED <<desk, triggerVars, elsewhere, vars>>
AtTrigger == desk = "trigger" /\ TriggerNext /\ UNCHANGED <<desk, flexVars, elsewhere, vars>>
AtTws == desk = "tws" /\ TwsNext
         /\ UNCHANGED <<desk, flexVars, triggerVars, electionVars, invitationVars, chartVars, vars>>
AtWatch == desk = "watch" /\ ElectionNext
           /\ UNCHANGED <<desk, flexVars, triggerVars, twsVars, invitationVars, chartVars, vars>>
AtInvitation == desk = "invitation" /\ InvitationNext
                /\ UNCHANGED <<desk, flexVars, triggerVars, twsVars, electionVars, chartVars, vars>>
AtChart == desk = "chart" /\ ChartNext
           /\ UNCHANGED <<desk, flexVars, triggerVars, twsVars, electionVars, invitationVars, vars>>
AtAutomatic == desk = "automatic" /\ Next /\ defs' = defs
               /\ (\A m \in Manual : market'[m] = market[m])
               /\ UNCHANGED <<desk, flexVars, triggerVars, elsewhere>>
AtManual == desk = "manual" /\ Next /\ open' = open
            /\ (\A a \in Automatic : market'[a] = market[a])
            /\ UNCHANGED <<desk, flexVars, triggerVars, elsewhere>>

MCNext ==
    AtSync \/ AtTrigger \/ AtTws \/ AtWatch \/ AtInvitation \/ AtChart \/ AtAutomatic \/ AtManual

AtAlerts == desk \in {"automatic", "manual"}

\* The fairness of each part, at its own desk.
MCFairness ==
    /\ \A view \in View : WF_triggerVars(desk = "trigger" /\ Examined(view))
    /\ \A a \in Account :
          /\ WF_triggerVars(desk = "trigger" /\ ReadAccount(a))
          /\ WF_triggerVars(desk = "trigger" /\ PingAnswered(a))
          /\ WF_triggerVars(desk = "trigger" /\ SyncEnds(a))
    /\ \A w \in Window :
          /\ WF_electionVars(desk = "watch" /\ (Elected(w) \/ TimerFires(w) \/ PassEnds(w)))
          /\ SF_electionVars(desk = "watch" /\ Reads(w))
    /\ WF_vars(AtAlerts /\ WatchLoad) /\ WF_vars(AtAlerts /\ WatchPass) /\ WF_vars(AtAlerts /\ WatchDone)

MCSpec == MCInit /\ [][MCNext]_deskVars /\ MCFairness
=============================================================================
