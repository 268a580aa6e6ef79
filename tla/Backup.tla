------------------------------- MODULE Backup -------------------------------
(***************************************************************************)
(* The encrypted backup of a browser (apps/web/src/db/backup/, the backup  *)
(* card of the settings page) and the one blob the server keeps for the    *)
(* user (apps/api/core/api.py), which other devices deposit and restore    *)
(* too.  The tables are abstracted to whether they hold something no       *)
(* deposit has read; a key wrapped by a passphrase is opened by that       *)
(* phrase and no other.  Every handler is cut at its awaits: deposits, the *)
(* three-second key derivations and the read-then-puts of the state record *)
(* overlap as they may in the tab, those of the card on screen with those  *)
(* of a card left behind: what keeps the handlers of one card apart (busy, *)
(* form) is its component's state, and goes away with the page.            *)
(***************************************************************************)
EXTENDS Integers, FiniteSets

CONSTANTS
    Timer,          \* bound: the deposits of the debounce timer under way at once
    Card,           \* bound: the handlers of the card under way at once, one per place
    Shown,          \* the place of the card on screen; the others are of cards left behind
    Phrase,         \* passphrases
    Watched,        \* bound: the passphrases whose changes the history keeps
    OwnKey,         \* keys generateBackupKey may draw in this browser
    Theirs,         \* the key of another device of the user
    None            \* no record, no blob, no phrase

Slot == Timer \cup Card

Key == OwnKey \cup {Theirs}
BackupState == [on : BOOLEAN, key : Key, phrase : Phrase]
Blob == [key : Key, phrase : Phrase, own : BOOLEAN]

ASSUME BackupAssumption ==
    /\ IsFiniteSet(Card) /\ Shown \in Card /\ Timer \cap Card = {}
    /\ Watched \subseteq Phrase
    /\ OwnKey # {} /\ Theirs \notin OwnKey
    /\ None \notin Phrase \cup Key \cup BackupState \cup Blob

VARIABLES
    record,         \* db.backup: BackupStateRecord, or None
    armed,          \* BackupSync: the debounce timer is running
    suppressed,     \* trigger.ts: how many muted sections are open
    agent,          \* an agent pass is writing, muted
    push,           \* pushBackup, in each slot
    card,           \* the handler of each card under way
    form,           \* the form open on the card on screen
    stray,          \* what requests of tabs since closed may still bring
    server,         \* the user's Backup row, or None
    owed,           \* history: an unmuted write no deposit has yet tried to read
    consented,      \* history: the user enabled the backup here, or a restore succeeded
    overwritten,    \* history: a handler that found no record put one over another's
    promised        \* history: the last change of phrase, whether it is reported done

tab == <<armed, suppressed, agent>>
settings == <<card, form>>
browser == <<record, tab, push, settings, stray>>
history == <<owed, consented, overwritten, promised>>
vars == <<browser, server, history>>

Enabled == record # None /\ record.on

Idle == [at |-> "idle", key |-> None, phrase |-> None, seen |-> None]
Answered == [Idle EXCEPT !.at = "answered"]
AtRest == [at |-> "idle", phrase |-> None, seen |-> None, blob |-> None]
Unpromised == [phrase |-> None, done |-> FALSE, alone |-> FALSE]

\* Nothing is owed to the server once the backup is off.
Forgive(state) == owed' = (owed /\ state.on)

\* The put of a whole record: what was read stands for the fields left alone.
Put(state) == record' = state /\ Forgive(state)

\* A handler that found no record puts one, whatever was put since.
PutFirst(state) == Put(state) /\ overwritten' = (overwritten \/ record # None)

\* A handler begins on the card on screen, goes on to its next await, or ends.  One that
\* was submitted from a form and succeeds closes it, if its page is still there.
Takes(handler) == card[Shown].at = "idle" /\ card' = [card EXCEPT ![Shown] = handler]
Ends(c) ==
    /\ card' = [card EXCEPT ![c] = AtRest]
    /\ form' = IF c = Shown THEN "none" ELSE form
Awaits(c, at) == card' = [card EXCEPT ![c].at = at]

-----------------------------------------------------------------------------
\* A deposit (pushBackup): the state is read once, then the tables, then the
\* blob travels; its outcome is written in a record read anew.

\* readBackupState, with the backup enabled.
Start(s) ==
    push' = [push EXCEPT ![s] = [at |-> "building", key |-> record.key,
                                 phrase |-> record.phrase, seen |-> None]]

\* buildPayload reads the tables, then gzip and encryption.  What another write
\* adds between two of its tables arms the timer again.
Build(s) ==
    /\ push[s].at = "building"
    /\ push' = [push EXCEPT ![s].at = "sending"]
    /\ owed' = FALSE
    /\ UNCHANGED <<record, tab, settings, stray, server, consented, overwritten, promised>>

\* The pipeline throws before anything is sent: the card will say so.
Break(s) ==
    /\ push[s].at = "building"
    /\ push' = [push EXCEPT ![s] = Answered]
    /\ owed' = FALSE
    /\ UNCHANGED <<record, tab, settings, stray, server, consented, overwritten, promised>>

\* put_backup: update_or_create replaces the row, whoever deposited it.
Stored(request) == server' = [key |-> request.key, phrase |-> request.phrase, own |-> TRUE]

\* The deposit that follows a change of passphrase, unless the phrase was changed again.
Confirms(s) == s \in Card /\ card[s].phrase # None /\ card[s].phrase = promised.phrase

Land(s) ==
    /\ push[s].at = "sending"
    /\ Stored(push[s])
    /\ push' = [push EXCEPT ![s] = Answered]
    /\ promised' = [promised EXCEPT !.done = @ \/ Confirms(s)]
    /\ UNCHANGED <<record, tab, settings, stray, owed, consented, overwritten>>

\* The server refuses it, it never arrives, or its answer does not.
Refuse(s) ==
    /\ push[s].at = "sending"
    /\ Stored(push[s]) \/ UNCHANGED server
    /\ push' = [push EXCEPT ![s] = Answered]
    /\ UNCHANGED <<record, tab, settings, stray, history>>

\* The requests of tabs since closed, one or several with the same content.
Straggle ==
    \E request \in stray :
        /\ Stored(request) \/ UNCHANGED server
        /\ stray' \in {stray, stray \ {request}}
        /\ UNCHANGED <<record, tab, push, settings, history>>

\* recordBackup and recordBackupFailure: a read...
NoteRead(s) ==
    /\ push[s].at = "answered"
    /\ push' = [push EXCEPT ![s].at = "noting", ![s].seen = record]
    /\ UNCHANGED <<record, tab, settings, stray, server, history>>

\* ...then a put of the record read, its date or its failure apart.  The handler of a
\* card ends with its deposit.
NotePut(s) ==
    /\ push[s].at = "noting"
    /\ IF push[s].seen = None THEN UNCHANGED <<record, owed>> ELSE Put(push[s].seen)
    /\ IF s \in Card THEN Ends(s) ELSE UNCHANGED <<card, form>>
    /\ push' = [push EXCEPT ![s] = Idle]
    /\ UNCHANGED <<tab, stray, server, consented, overwritten, promised>>

-----------------------------------------------------------------------------
\* The writes of the tables, and the timer they arm (trigger.ts, BackupSync.tsx).

\* The write of an import, an edit, a sync, and the restore of a local file, which is
\* not muted (importFromFile): the hook of the table fires.  A write inside the muted
\* section of somebody else is left to a later deposit, and so is one made while the
\* backup is off.
Write ==
    /\ armed' = (armed \/ suppressed = 0)
    /\ owed' = (owed \/ (Enabled /\ agent = "idle" /\ \A c \in Card : card[c].at # "restoring"))
    /\ UNCHANGED <<record, suppressed, agent, push, settings, stray, server, consented, overwritten, promised>>

AgentOpens ==
    /\ agent = "idle"
    /\ agent' = "writing"
    /\ suppressed' = suppressed + 1
    /\ UNCHANGED <<record, armed, push, settings, stray, server, history>>

AgentCloses ==
    /\ agent = "writing"
    /\ agent' = "idle"
    /\ suppressed' = suppressed - 1
    /\ UNCHANGED <<record, armed, push, settings, stray, server, history>>

\* The timer elapses: a deposit, or nothing when the backup is off.
Fire ==
    /\ armed
    /\ armed' = FALSE
    /\ \E s \in Timer :
          /\ push[s].at = "idle"
          /\ IF Enabled THEN Start(s) ELSE UNCHANGED push
    /\ UNCHANGED <<record, suppressed, agent, settings, stray, server, owed, consented, overwritten, promised>>

-----------------------------------------------------------------------------
\* The card on screen: its buttons act while it is at rest without a form, a form is
\* submitted while it is at rest.  What a button looked at may no longer be so when the
\* form it opened is submitted.
Freed == card[Shown].at = "idle" /\ form = "none"

OpenForm ==
    /\ Freed
    /\ \/ ~Enabled /\ form' = "enable"
       \/ Enabled /\ form' = "change"
       \/ record = None /\ form' = "restore"        \* handleRestore, without a key
    /\ UNCHANGED <<record, tab, push, card, stray, server, history>>

\* Cancelled, or the page is left with nothing under way.
CloseForm ==
    /\ card[Shown].at = "idle"
    /\ form' = "none"
    /\ UNCHANGED <<record, tab, push, card, stray, server, history>>

\* The page is left while its handler goes on; shown again, it has a card at rest.
Leave ==
    /\ card[Shown].at # "idle"
    /\ \E c \in Card :
          /\ card[c].at = "idle"
          /\ card' = [card EXCEPT ![c] = card[Shown], ![Shown] = AtRest]
          /\ push' = [push EXCEPT ![c] = push[Shown], ![Shown] = Idle]
    /\ form' = "none"
    /\ UNCHANGED <<record, tab, stray, server, history>>

\* enableBackup: read, wrap, put.
EnableRead(p) ==
    /\ form = "enable"
    /\ Takes([AtRest EXCEPT !.at = "enabling", !.phrase = p, !.seen = record])
    /\ UNCHANGED <<record, tab, push, form, stray, server, history>>

\* Mutant: enabling again draws a new key.
EnablePutFresh(c) ==
    /\ card[c].at = "enabling"
    /\ \E key \in OwnKey :
          LET state == [on |-> TRUE, key |-> key, phrase |-> card[c].phrase] IN
          IF card[c].seen = None THEN PutFirst(state) ELSE Put(state) /\ UNCHANGED overwritten
    /\ Ends(c)
    /\ consented' = TRUE
    /\ promised' = Unpromised
    /\ UNCHANGED <<tab, push, stray, server>>

\* Enabling twice keeps the first key.
EnablePut(c) ==
    /\ card[c].at = "enabling"
    /\ IF card[c].seen = None
       THEN \E key \in OwnKey : PutFirst([on |-> TRUE, key |-> key, phrase |-> card[c].phrase])
       ELSE Put([on |-> TRUE, key |-> card[c].seen.key, phrase |-> card[c].phrase]) /\ UNCHANGED overwritten
    /\ Ends(c)
    /\ consented' = TRUE
    /\ promised' = Unpromised
    /\ UNCHANGED <<tab, push, stray, server>>

\* disableBackup keeps the key.
DisableRead ==
    /\ Freed /\ Enabled
    /\ Takes([AtRest EXCEPT !.at = "disabling", !.seen = record])
    /\ UNCHANGED <<record, tab, push, form, stray, server, history>>

DisablePut(c) ==
    /\ card[c].at = "disabling"
    /\ Put([card[c].seen EXCEPT !.on = FALSE])
    /\ Ends(c)
    /\ UNCHANGED <<tab, push, stray, server, consented, overwritten, promised>>

\* changePassphrase: rewrapBackupKey, then a deposit.
ChangeRead(p) ==
    /\ form = "change"
    /\ Takes([AtRest EXCEPT !.at = "changing", !.phrase = p, !.seen = record])
    /\ UNCHANGED <<record, tab, push, form, stray, server, history>>

\* No other handler, no deposit and no stray request is under way.
LastUnderWay(c) ==
    /\ stray = {}
    /\ \A s \in Slot : push[s].at = "idle"
    /\ \A d \in Card \ {c} : card[d].at = "idle"

ChangePut(c) ==
    /\ card[c].at = "changing"
    /\ Put([card[c].seen EXCEPT !.phrase = card[c].phrase])
    /\ Awaits(c, "changed")
    /\ promised' = IF card[c].phrase \notin Watched THEN Unpromised
                   ELSE [phrase |-> card[c].phrase, done |-> FALSE, alone |-> LastUnderWay(c)]
    /\ UNCHANGED <<tab, push, form, stray, server, consented, overwritten>>

\* The deposit that a change of passphrase ends with.
Deposit(c) ==
    /\ card[c].at = "changed"
    /\ IF Enabled
       THEN Start(c) /\ card' = [card EXCEPT ![c].at = "depositing", ![c].seen = None] /\ UNCHANGED form
       ELSE Ends(c) /\ UNCHANGED push
    /\ UNCHANGED <<record, tab, stray, server, history>>

\* handleBackupNow.
BackupNow ==
    /\ Freed /\ Enabled
    /\ Start(Shown)
    /\ Takes([AtRest EXCEPT !.at = "depositing"])
    /\ UNCHANGED <<record, tab, form, stray, server, history>>

\* handleRestore, runRestore, pullBackup: once the user has confirmed, the blob is
\* fetched and opened, with the key of the record or, where the button found none, with
\* the phrase typed.  One that does not open ends the handler there.
PullByKey ==
    /\ Freed /\ record # None /\ server # None /\ record.key = server.key
    /\ Takes([AtRest EXCEPT !.at = "opening"])
    /\ UNCHANGED <<record, tab, push, form, stray, server, history>>

PullByPhrase ==
    /\ form = "restore" /\ server # None
    /\ Takes([AtRest EXCEPT !.at = "opening", !.blob = server])
    /\ UNCHANGED <<record, tab, push, form, stray, server, history>>

\* Mutant: the key the phrase opened is adopted before the restore.
AdoptFirst(c) ==
    /\ card[c].at = "opening"
    /\ IF card[c].blob = None THEN UNCHANGED record
       ELSE record' = [on |-> TRUE, key |-> card[c].blob.key, phrase |-> card[c].blob.phrase]
    /\ Awaits(c, "restoring")
    /\ suppressed' = suppressed + 1
    /\ UNCHANGED <<armed, agent, push, form, stray, server, history>>

\* The tables are about to be replaced, muted.
Open(c) ==
    /\ card[c].at = "opening"
    /\ Awaits(c, "restoring")
    /\ suppressed' = suppressed + 1
    /\ UNCHANGED <<record, armed, agent, push, form, stray, server, history>>

\* Mutant: a restore that fails leaves its section muted.
RestoreLeaks(c) ==
    /\ card[c].at = "restoring"
    /\ \/ /\ IF card[c].blob # None THEN Awaits(c, "adopting") /\ UNCHANGED form ELSE Ends(c)
          /\ consented' = TRUE
          /\ suppressed' = suppressed - 1
       \/ card' = [card EXCEPT ![c] = AtRest] /\ UNCHANGED <<form, consented, suppressed>>
    /\ UNCHANGED <<record, armed, agent, push, stray, server, owed, overwritten, promised>>

\* restorePayload, in one transaction: all the tables or none.  The phrase path alone
\* goes on to adopt the key and the envelope.
Restore(c) ==
    /\ card[c].at = "restoring"
    /\ suppressed' = suppressed - 1
    /\ \/ /\ IF card[c].blob # None THEN Awaits(c, "adopting") /\ UNCHANGED form ELSE Ends(c)
          /\ consented' = TRUE
       \/ card' = [card EXCEPT ![c] = AtRest] /\ UNCHANGED <<form, consented>>
    /\ UNCHANGED <<record, armed, agent, push, stray, server, owed, overwritten, promised>>

\* adoptBackupKey.
Adopt(c) ==
    /\ card[c].at = "adopting"
    /\ PutFirst([on |-> TRUE, key |-> card[c].blob.key, phrase |-> card[c].blob.phrase])
    /\ Ends(c)
    /\ promised' = Unpromised
    /\ UNCHANGED <<tab, push, stray, server, consented>>

\* handleDelete: the server's row, then the date this browser shows (clearBackupRecord).
Delete ==
    /\ Freed
    /\ server' = None
    /\ Takes([AtRest EXCEPT !.at = "deleting"])
    /\ UNCHANGED <<record, tab, push, form, stray, history>>

ClearRead(c) ==
    /\ card[c].at = "deleting"
    /\ card' = [card EXCEPT ![c] = [AtRest EXCEPT !.at = "clearing", !.seen = record]]
    /\ UNCHANGED <<record, tab, push, form, stray, server, history>>

ClearPut(c) ==
    /\ card[c].at = "clearing"
    /\ IF card[c].seen = None THEN UNCHANGED <<record, owed>> ELSE Put(card[c].seen)
    /\ Ends(c)
    /\ UNCHANGED <<tab, push, stray, server, consented, overwritten, promised>>

\* A derivation, a read or a put throws, an answer is lost, the blob cannot be read: the
\* card shows why, and the form that asked for it stays open.
Fails(c) ==
    /\ card[c].at \in {"enabling", "disabling", "changing", "opening", "adopting", "deleting", "clearing"}
    /\ card' = [card EXCEPT ![c] = AtRest]
    /\ UNCHANGED <<record, tab, push, form, stray, server, history>>

-----------------------------------------------------------------------------

\* The tab is closed and opened again: its timer, its handlers and its mute are gone,
\* a request under way may still reach the server.
Reload ==
    /\ armed' = FALSE /\ suppressed' = 0 /\ agent' = "idle"
    /\ card' = [c \in Card |-> AtRest] /\ form' = "none"
    /\ push' = [s \in Slot |-> Idle]
    /\ stray' = stray \cup {[key |-> push[s].key, phrase |-> push[s].phrase] :
                               s \in {s \in Slot : push[s].at = "sending"}}
    /\ owed' = FALSE
    /\ UNCHANGED <<record, server, consented, overwritten, promised>>

\* Another device deposits, under its key or under the one it restored.  Bound: it
\* never deletes.
Elsewhere(p) ==
    /\ \E key \in {Theirs} \cup (IF server = None THEN {} ELSE {server.key}) :
           server' = [key |-> key, phrase |-> p, own |-> FALSE]
    /\ UNCHANGED <<browser, history>>

Init ==
    /\ record = None /\ server = None
    /\ armed = FALSE /\ suppressed = 0 /\ agent = "idle"
    /\ push = [s \in Slot |-> Idle]
    /\ card = [c \in Card |-> AtRest] /\ form = "none"
    /\ stray = {}
    /\ owed = FALSE /\ consented = FALSE /\ overwritten = FALSE
    /\ promised = Unpromised

Deposits(s) == Build(s) \/ Break(s) \/ Land(s) \/ Refuse(s) \/ NoteRead(s) \/ NotePut(s)

Asks ==
    \/ OpenForm \/ CloseForm \/ Leave
    \/ \E p \in Phrase : EnableRead(p) \/ ChangeRead(p)
    \/ DisableRead \/ BackupNow \/ PullByKey \/ PullByPhrase \/ Delete

Proceeds(c) ==
    \/ EnablePut(c) \/ DisablePut(c) \/ ChangePut(c) \/ Deposit(c)
    \/ Open(c) \/ Restore(c) \/ Adopt(c) \/ ClearRead(c) \/ ClearPut(c)
    \/ Fails(c)

Next ==
    \/ \E s \in Slot : Deposits(s)
    \/ Write \/ AgentOpens \/ AgentCloses \/ Fire
    \/ Asks \/ \E c \in Card : Proceeds(c)
    \/ Reload \/ Straggle
    \/ \E p \in Phrase : Elsewhere(p)

\* A deposit under way goes on; the timer elapses, which supposes that the writes pause
\* for its thirty seconds.  Of the card, of a pass and of the user nothing is asked.
Fairness == WF_vars(\E s \in Slot : Deposits(s)) /\ WF_vars(Fire)

Spec == Init /\ [][Next]_vars /\ Fairness

-----------------------------------------------------------------------------
\* Properties.

\* The types; the muted sections are those under way, never less than none.
TypeOK ==
    /\ record \in BackupState \cup {None}
    /\ server \in Blob \cup {None}
    /\ armed \in BOOLEAN /\ suppressed \in Nat
    /\ agent \in {"idle", "writing"}
    /\ push \in [Slot -> [at : {"idle", "building", "sending", "answered", "noting"},
                          key : Key \cup {None}, phrase : Phrase \cup {None},
                          seen : BackupState \cup {None}]]
    /\ card \in [Card -> [at : {"idle", "enabling", "disabling", "changing", "changed", "depositing",
                                "opening", "restoring", "adopting", "deleting", "clearing"},
                          phrase : Phrase \cup {None}, seen : BackupState \cup {None},
                          blob : Blob \cup {None}]]
    /\ form \in {"none", "enable", "change", "restore"}
    /\ stray \in SUBSET [key : Key, phrase : Phrase]
    /\ owed \in BOOLEAN /\ consented \in BOOLEAN /\ overwritten \in BOOLEAN
    /\ promised \in [phrase : Phrase \cup {None}, done : BOOLEAN, alone : BOOLEAN]

\* A blob this browser deposited, and any it is depositing, opens with the key it
\* holds, whatever was enabled, changed, restored, deleted or reloaded in between, by
\* whichever handlers overlap.  The one way to lose it (state.ts:19-32 and :44-60 read
\* nothing again after a derivation or a restore): two handlers that both found no
\* record, the second putting its key over the first's.
OwnBlobOpens ==
    ~overwritten =>
        /\ server # None /\ server.own => record # None /\ server.key = record.key
        /\ \A s \in Slot : push[s].at = "sending" => record # None /\ push[s].key = record.key
        /\ \A request \in stray : record # None /\ request.key = record.key

\* A browser deposits under a key only once its user has enabled the backup there, or
\* once a restore has succeeded there: a key that a failed restore opened never gets
\* to overwrite the one copy of the server with the tables of a browser without it.
ArmedByConsentOnly ==
    record # None \/ stray # {} \/ (\E s \in Slot : push[s].at # "idle") => consented

\* A change of passphrase that the card reports done, nothing else being under way when
\* the envelope was rewritten - no deposit, no handler of a card left behind, no request
\* of a closed tab - has reached the server for good: whatever begins from then on, the
\* old phrase opens no blob this browser deposits.
LoneChangeHolds ==
    promised.done /\ promised.alone /\ server # None /\ server.own => server.phrase = promised.phrase

\* A write that counts is read by a deposit, unless the backup is turned off or the
\* tab closed: no failure of a restore, a pass or a deposit stops the trigger.
WriteIsDeposited == owed ~> ~owed

\* Until the deposit lands the old passphrase still opens the backup (state.ts:68), and
\* once it is reported done the new one does.
ChangeHolds == promised.done /\ server # None /\ server.own => server.phrase = promised.phrase

\* Enabling twice keeps the first key, since drawing another would strand the blob already
\* deposited (state.ts:15-16): two enablings under way at once, too, leave a key that opens
\* what was deposited between them.
NothingStranded == server # None /\ server.own => record # None /\ server.key = record.key
=============================================================================
