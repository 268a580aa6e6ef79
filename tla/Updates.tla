------------------------------ MODULE Updates ------------------------------
(***************************************************************************)
(* The versions of the application: the Service Worker that serves one and *)
(* keeps the next one waiting, the tabs that run one (pwa/updates.ts,      *)
(* UpdateBanner, the inline script of index.html), and the base whose      *)
(* schema each version raises (db/schema.ts, db/reloadOnVersionChange.ts). *)
(* The browser delivers its events to each tab in its own time; a reload   *)
(* takes the tab to what the Service Worker serves when it lands, and one  *)
(* that goes round the Service Worker to what the server publishes.        *)
(***************************************************************************)
EXTENDS Naturals, FiniteSets

CONSTANTS
    PwaTab,         \* the tabs
    MaxVersion,     \* bound: the versions published
    MaxLoads,       \* bound: the loads the user asks for
    MaxCuts         \* bound: the times the server is out of reach

VARIABLES
    published,      \* the version the server publishes
    active,         \* the version of the active Service Worker, 0 when there is none
    waiting,        \* the version that waits its turn, 0 when none does
    schema,         \* the version of the base, as the version of the code that wrote it
    pwa,            \* the tabs
    loads, cuts     \* what the user and the server have spent of their bounds

updateVars == <<published, active, waiting, schema, pwa, loads, cuts>>

\* script: the inline script is "checking" for a version, or waits for it "once";
\* missed, a history: it could not look for one.
Shut == [code |-> 0, armed |-> FALSE, asked |-> FALSE, changes |-> 0, script |-> "none",
         leaving |-> FALSE, base |-> "closed", updating |-> FALSE, missed |-> FALSE]

Up == {t \in PwaTab : pwa[t].code > 0}
Here(t) == t \in Up /\ ~pwa[t].leaving

UpdatesInit ==
    /\ published = 1 /\ active = 0 /\ waiting = 0 /\ schema = 0
    /\ pwa = [t \in PwaTab |-> Shut] /\ loads = 0 /\ cuts = 0

-----------------------------------------------------------------------------
\* Loads.  A tab under control is served the version of the Service Worker, any other
\* what is published.  main.tsx: reloadOnControllerChange, which asks for the
\* registration when nothing controls the tab; then the base is opened.
LoadedTab(controlled, reloaded) ==
    [Shut EXCEPT !.code = IF controlled THEN active ELSE published,
                 !.armed = controlled, !.asked = ~controlled,
                 !.script = IF reloaded /\ active > 0 THEN "checking" ELSE "none",
                 !.base = "opening"]

UserLoads(t) ==
    /\ loads < MaxLoads /\ loads' = loads + 1
    /\ \/ t \notin Up /\ pwa' = [pwa EXCEPT ![t] = LoadedTab(active > 0, FALSE)]
       \/ Here(t) /\ \E roundIt \in BOOLEAN :
              pwa' = [pwa EXCEPT ![t] = LoadedTab(active > 0 /\ ~roundIt, TRUE)]
    /\ UNCHANGED <<published, active, waiting, schema, cuts>>

\* window.location.reload(), once asked for, takes the tab away.
Lands(t) ==
    /\ pwa[t].leaving
    /\ pwa' = [pwa EXCEPT ![t] = LoadedTab(active > 0, TRUE)]
    /\ UNCHANGED <<published, active, waiting, schema, loads, cuts>>

\* The last tab that closes lets the waiting version become the active one.
TabCloses(t) ==
    /\ t \in Up /\ pwa' = [pwa EXCEPT ![t] = Shut]
    /\ IF Up = {t} /\ waiting > 0 THEN active' = waiting /\ waiting' = 0 ELSE UNCHANGED <<active, waiting>>
    /\ UNCHANGED <<published, schema, loads, cuts>>

-----------------------------------------------------------------------------
\* The Service Worker.  skipWaiting, and the clientsClaim of every version: every tab
\* changes hands.
Claimed(tabs) == [t \in PwaTab |-> IF t \in Up THEN [tabs[t] EXCEPT !.changes = @ + 1] ELSE tabs[t]]

SkipsWaiting(version, tabs) ==
    /\ active' = version /\ waiting' = 0
    /\ pwa' = Claimed(tabs)

\* useRegisterSW: the first version installed is active at once; the next ones wait,
\* found at a load or by the check of every hour.
Registers(t) ==
    /\ Here(t) /\ active = 0
    /\ SkipsWaiting(published, pwa)
    /\ UNCHANGED <<published, schema, loads, cuts>>

FindsUpdate(t) ==
    /\ Here(t) /\ active > 0 /\ published > active /\ published > waiting
    /\ waiting' = published
    /\ UNCHANGED <<published, active, schema, pwa, loads, cuts>>

Publishes ==
    /\ published < MaxVersion /\ published' = published + 1
    /\ UNCHANGED <<active, waiting, schema, pwa, loads, cuts>>

\* The banner: the click takes the waiting version; ten seconds later the tab reloads by
\* itself if nothing came of it.
ClicksReload(t) ==
    /\ Here(t) /\ waiting > 0 /\ ~pwa[t].updating
    /\ SkipsWaiting(waiting, [pwa EXCEPT ![t].updating = TRUE])
    /\ UNCHANGED <<published, schema, loads, cuts>>

FallsBack(t) ==
    /\ Here(t) /\ pwa[t].updating
    /\ pwa' = [pwa EXCEPT ![t].leaving = TRUE]
    /\ UNCHANGED <<published, active, waiting, schema, loads, cuts>>

\* The inline script of a reload: the version that waits, or the one update() finds; the
\* change of hands that follows reloads the tab.
Script(t) ==
    /\ Here(t) /\ pwa[t].script = "checking"
    /\ \/ /\ waiting > 0 \/ published > active
          /\ SkipsWaiting(IF published > active THEN published ELSE waiting,
                          [pwa EXCEPT ![t].script = "once"])
          /\ UNCHANGED cuts
       \/ /\ waiting = 0 /\ published = active
          /\ pwa' = [pwa EXCEPT ![t].script = "none"]
          /\ UNCHANGED <<active, waiting, cuts>>
       \/ /\ waiting = 0 /\ cuts < MaxCuts /\ cuts' = cuts + 1     \* update() fails
          /\ pwa' = [pwa EXCEPT ![t].script = "none", ![t].missed = TRUE]
          /\ UNCHANGED <<active, waiting>>
    /\ UNCHANGED <<published, schema, loads>>

-----------------------------------------------------------------------------
\* The tab.  The registration it asked for has an active version: its next change of
\* hands is an update, and not the first installation.
RegistrationAnswers(t) ==
    /\ Here(t) /\ pwa[t].asked
    /\ pwa' = [pwa EXCEPT ![t].asked = FALSE, ![t].armed = @ \/ active > 0]
    /\ UNCHANGED <<published, active, waiting, schema, loads, cuts>>

\* controllerchange: the listener of updates.ts, and the script's.
ChangesHands(t) ==
    /\ Here(t) /\ pwa[t].changes > 0
    /\ pwa' = [pwa EXCEPT ![t].changes = @ - 1, ![t].armed = TRUE,
                          ![t].leaving = pwa[t].armed \/ pwa[t].script = "once"]
    /\ UNCHANGED <<published, active, waiting, schema, loads, cuts>>

\* The base: a connection of the same version opens, an older one is refused, a newer one
\* asks for the upgrade, which waits for the others to close.
Upgrading == {t \in Up : pwa[t].base = "upgrading"}
AtWork == {t \in Up : pwa[t].base = "open"}

ReachesBase(t) ==
    /\ Here(t) /\ pwa[t].base = "opening" /\ Upgrading = {}
    /\ pwa' = [pwa EXCEPT ![t].base = IF pwa[t].code = schema THEN "open"
                                      ELSE IF pwa[t].code < schema THEN "refused" ELSE "upgrading"]
    /\ UNCHANGED <<published, active, waiting, schema, loads, cuts>>

\* Mutant: the connection is closed, the tab stays as it is.
OnVersionChangeStaying(t) == [pwa EXCEPT ![t].base = "closed"]

\* reloadOnVersionChange.
OnVersionChange(t) == [pwa EXCEPT ![t].base = "closed", ![t].leaving = TRUE]

VersionChanges(t) ==
    /\ t \in AtWork /\ Upgrading # {}
    /\ pwa' = OnVersionChange(t)
    /\ UNCHANGED <<published, active, waiting, schema, loads, cuts>>

Upgrades(t) ==
    /\ t \in Upgrading /\ AtWork = {}
    /\ schema' = pwa[t].code
    /\ pwa' = [pwa EXCEPT ![t].base = "open"]
    /\ UNCHANGED <<published, active, waiting, loads, cuts>>

TabGoesOn(t) ==
    \/ Lands(t) \/ Script(t) \/ RegistrationAnswers(t) \/ ChangesHands(t)
    \/ ReachesBase(t) \/ VersionChanges(t) \/ Upgrades(t)

UpdatesNext ==
    \/ Publishes
    \/ \E t \in PwaTab :
          \/ UserLoads(t) \/ TabCloses(t) \/ Registers(t) \/ FindsUpdate(t)
          \/ ClicksReload(t) \/ FallsBack(t) \/ TabGoesOn(t)

\* The browser delivers its events, runs the script and opens the base; nothing says that
\* the user reloads, closes or clicks, nor that a version is published or found.
UpdatesFairness == \A t \in PwaTab : WF_updateVars(TabGoesOn(t))

UpdatesSpec == UpdatesInit /\ [][UpdatesNext]_updateVars /\ UpdatesFairness

-----------------------------------------------------------------------------
UpdatesTypeOK ==
    /\ published \in 1..MaxVersion /\ active \in 0..MaxVersion /\ waiting \in 0..MaxVersion
    /\ schema \in 0..MaxVersion /\ loads \in 0..MaxLoads /\ cuts \in 0..MaxCuts
    /\ \A t \in PwaTab :
          /\ pwa[t].code \in 0..MaxVersion /\ pwa[t].changes \in Nat
          /\ pwa[t].script \in {"none", "checking", "once"}
          /\ pwa[t].base \in {"closed", "opening", "open", "refused", "upgrading"}

\* A tab at work when another one raises the base, and the one that raises it; a tab that
\* works on the base of its own version.
Outrun(t) == t \in AtWork /\ Upgrading # {}
UpToDate(t) == t \in AtWork /\ Upgrading = {}

\* Nobody is left behind: when a newer version raises the base - after the banner, or in a
\* tab that went round the Service Worker, which still serves the old one - every tab at
\* work comes by itself to that version, and the upgrade waits for nobody for ever; but
\* for a tab that is closed, or whose script could not ask the server.
NobodyIsLeftBehind ==
    \A t \in PwaTab :
        /\ Outrun(t) ~> UpToDate(t) \/ t \notin Up \/ pwa[t].missed
        /\ t \in Upgrading ~> t \notin Upgrading
=============================================================================
