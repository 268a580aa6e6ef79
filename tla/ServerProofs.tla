---------------------------- MODULE ServerProofs ----------------------------
(***************************************************************************)
(* Proofs about what a browser keeps on the server: its encrypted backup   *)
(* (Backup.tla), for any passphrases, any keys and any number of handlers  *)
(* and deposits under way at once, and the account it is signed in to      *)
(* (ServerAccount.tla), for any number of calls, showings of the cards,    *)
(* sets of codes and gestures.                                             *)
(***************************************************************************)
EXTENDS Backup, ServerAccount, FiniteSetTheorems, TLAPS

(***************************************************************************)
(* OwnBlobOpens is not inductive: a deposit under way carries the key read *)
(* when it started, a request of a closed tab that of its time, and a      *)
(* handler of any card or recordBackup puts back a whole record read       *)
(* before.  KeyInv says that each of those copies holds the key of the     *)
(* record, as long as no handler that found no record has put one over     *)
(* another's.                                                              *)
(***************************************************************************)
\* What a copy of the record holds, against the record itself.
SameKey(state) == record # None /\ (overwritten \/ state.key = record.key)

Carries(s) == push[s].at \in {"building", "sending"}

RecordInv == record # None => consented

ServerInv == server # None /\ server.own => SameKey(server)

PushInv ==
    \A s \in Slot :
        /\ push[s].at # "idle" => record # None
        /\ Carries(s) => SameKey(push[s]) /\ push[s].key # None /\ push[s].phrase # None
        /\ push[s].at = "noting" => push[s].seen # None /\ SameKey(push[s].seen)

StrayInv == \A request \in stray : SameKey(request)

CardInv ==
    \A c \in Card :
        /\ card[c].at \in {"enabling", "changing", "changed"} => card[c].phrase # None
        /\ card[c].at \in {"enabling", "clearing"} /\ card[c].seen # None => SameKey(card[c].seen)
        /\ card[c].at \in {"disabling", "changing"} => card[c].seen # None /\ SameKey(card[c].seen)
        /\ card[c].at = "adopting" => card[c].blob # None /\ consented

\* The form that changes the phrase opens on a record, and no record ever goes away.
FormInv == form = "change" => record # None

\* A deposit in the place of a card is that of its handler.
SlotInv == \A c \in Card : card[c].at # "depositing" => push[c].at = "idle"

\* The counter of muted sections counts those under way.
Restoring == {c \in Card : card[c].at = "restoring"}
MuteInv == suppressed = (IF agent = "writing" THEN 1 ELSE 0) + Cardinality(Restoring)

\* The parts of TypeOK.
Flags == armed \in BOOLEAN /\ owed \in BOOLEAN /\ consented \in BOOLEAN /\ overwritten \in BOOLEAN

PushType ==
    push \in [Slot -> [at : {"idle", "building", "sending", "answered", "noting"},
                       key : Key \cup {None}, phrase : Phrase \cup {None},
                       seen : BackupState \cup {None}]]

CardType ==
    card \in [Card -> [at : {"idle", "enabling", "disabling", "changing", "changed", "depositing",
                             "opening", "restoring", "adopting", "deleting", "clearing"},
                       phrase : Phrase \cup {None}, seen : BackupState \cup {None},
                       blob : Blob \cup {None}]]

RestType ==
    /\ record \in BackupState \cup {None}
    /\ server \in Blob \cup {None}
    /\ suppressed \in Nat
    /\ agent \in {"idle", "writing"}
    /\ form \in {"none", "enable", "change", "restore"}
    /\ stray \in SUBSET [key : Key, phrase : Phrase]
    /\ promised \in [phrase : Phrase \cup {None}, done : BOOLEAN, alone : BOOLEAN]

Typed == PushType /\ CardType /\ RestType

Kept == RecordInv /\ ServerInv /\ StrayInv /\ FormInv

KeyInv == Flags /\ Typed /\ MuteInv /\ Kept /\ PushInv /\ CardInv /\ SlotInv

\* Once a phrase was changed with nothing else under way, every copy of the record that
\* may still be put or deposited has it.
Agreed(state) == state.phrase = promised.phrase

Aligned ==
    /\ record # None /\ Agreed(record)
    /\ \A s \in Slot :
          /\ Carries(s) => Agreed(push[s])
          /\ push[s].at = "noting" => Agreed(push[s].seen)
    /\ \A request \in stray : Agreed(request)
    /\ \A c \in Card :
          card[c].at \in {"disabling", "clearing"} /\ card[c].seen # None => Agreed(card[c].seen)

PhraseInv ==
    promised.alone =>
        /\ Aligned
        /\ promised.done /\ server # None /\ server.own => Agreed(server)

-----------------------------------------------------------------------------
\* The initial state: nothing enabled, nothing on the server, nothing under way.
LEMMA KeyInit == Init => KeyInv
<1> SUFFICES ASSUME Init PROVE KeyInv
  OBVIOUS
<1>1. Flags
  BY DEF Init, Flags
<1>2. Typed
  BY BackupAssumption DEF Init, Typed, PushType, CardType, RestType, Idle, AtRest, Unpromised
<1>3. MuteInv
  <2>1. Restoring = {}
    BY DEF Init, Restoring, AtRest
  <2>2. QED
    BY <2>1, FS_EmptySet DEF Init, MuteInv
<1>4. Kept /\ PushInv /\ CardInv /\ SlotInv
  BY BackupAssumption DEF Init, Kept, RecordInv, ServerInv, StrayInv, FormInv, PushInv, CardInv,
     SlotInv, SameKey, Carries, Idle, AtRest, Slot
<1>5. QED
  BY <1>1, <1>2, <1>3, <1>4 DEF KeyInv

\* A step that leaves alone the pass and the restores under way leaves the counter right.
LEMMA MuteStays ==
    MuteInv /\ UNCHANGED <<suppressed, agent>> /\ Restoring' = Restoring => MuteInv'
BY DEF MuteInv

LEMMA RestoringCounted == IsFiniteSet(Restoring) /\ Cardinality(Restoring) \in Nat
<1>1. Restoring \subseteq Card /\ IsFiniteSet(Card)
  BY BackupAssumption DEF Restoring
<1>2. QED
  BY <1>1, FS_Subset, FS_CardinalityType

\* Every step of the browser, of the server and of the other device preserves KeyInv.
LEMMA KeyStep == KeyInv /\ [Next]_vars => KeyInv'
<1> SUFFICES ASSUME KeyInv, [Next]_vars PROVE KeyInv'
  OBVIOUS
<1> USE BackupAssumption DEF KeyInv, Typed, Idle, Answered, AtRest, Unpromised, Enabled, Slot, Key,
        BackupState, Blob, tab, settings, browser, history
<1>1. ASSUME NEW s \in Slot, Build(s) PROVE KeyInv'
  <2>1. Flags'
    BY <1>1, Zenon DEF Flags, Build
  <2>2. PushType'
    BY <1>1 DEF PushType, RestType, Build
  <2>3. CardType'
    BY <1>1 DEF CardType, RestType, Build
  <2>4. RestType'
    BY <1>1 DEF PushType, CardType, RestType, PushInv, CardInv, Build
  <2>5. MuteInv'
    <3>1. Restoring' = Restoring
      BY <1>1 DEF CardType, Restoring, Build
    <3>2. QED
      BY <1>1, <3>1, MuteStays DEF Build
  <2>6. Kept'
    BY <1>1 DEF PushType, CardType, RestType, Kept, RecordInv, ServerInv, StrayInv, FormInv,
       PushInv, CardInv, SameKey, Carries, Build
  <2>7. PushInv'
    BY <1>1 DEF PushType, CardType, RestType, PushInv, CardInv, SameKey, Carries, Build
  <2>8. CardInv'
    BY <1>1 DEF CardType, RestType, CardInv, FormInv, Kept, SameKey, Build
  <2>9. SlotInv'
    BY <1>1 DEF PushType, CardType, SlotInv, Build
  <2>10. QED
    BY <2>1, <2>2, <2>3, <2>4, <2>5, <2>6, <2>7, <2>8, <2>9
<1>2. ASSUME NEW s \in Slot, Break(s) PROVE KeyInv'
  <2>1. Flags'
    BY <1>2, Zenon DEF Flags, Break
  <2>2. PushType'
    BY <1>2 DEF PushType, RestType, Break
  <2>3. CardType'
    BY <1>2 DEF CardType, RestType, Break
  <2>4. RestType'
    BY <1>2 DEF PushType, CardType, RestType, PushInv, CardInv, Break
  <2>5. MuteInv'
    <3>1. Restoring' = Restoring
      BY <1>2 DEF CardType, Restoring, Break
    <3>2. QED
      BY <1>2, <3>1, MuteStays DEF Break
  <2>6. Kept'
    BY <1>2 DEF PushType, CardType, RestType, Kept, RecordInv, ServerInv, StrayInv, FormInv,
       PushInv, CardInv, SameKey, Carries, Break
  <2>7. PushInv'
    BY <1>2 DEF PushType, CardType, RestType, PushInv, CardInv, SameKey, Carries, Break
  <2>8. CardInv'
    BY <1>2 DEF CardType, RestType, CardInv, FormInv, Kept, SameKey, Break
  <2>9. SlotInv'
    BY <1>2 DEF PushType, CardType, SlotInv, Break
  <2>10. QED
    BY <2>1, <2>2, <2>3, <2>4, <2>5, <2>6, <2>7, <2>8, <2>9
<1>3. ASSUME NEW s \in Slot, Land(s) PROVE KeyInv'
  <2>1. Flags'
    BY <1>3, Zenon DEF Flags, Land, Stored
  <2>2. PushType'
    BY <1>3 DEF PushType, RestType, Land, Stored
  <2>3. CardType'
    BY <1>3 DEF CardType, RestType, Land, Stored
  <2>4. RestType'
    <3>1. push[s].key \in Key /\ push[s].phrase \in Phrase
      BY <1>3 DEF PushType, PushInv, Carries, Land
    <3>2. ASSUME Stored(push[s]) PROVE server' \in Blob
      BY <3>1, <3>2 DEF Stored
    <3>3. server' \in Blob \cup {None}
      BY <1>3, <3>2 DEF RestType, Land
    <3>4. QED
      BY <1>3, <3>3 DEF RestType, Land
  <2>5. MuteInv'
    <3>1. Restoring' = Restoring
      BY <1>3 DEF CardType, Restoring, Land, Stored
    <3>2. QED
      BY <1>3, <3>1, MuteStays DEF Land, Stored
  <2>6. Kept'
    BY <1>3 DEF PushType, CardType, RestType, Kept, RecordInv, ServerInv, StrayInv, FormInv,
       PushInv, CardInv, SameKey, Carries, Land, Stored
  <2>7. PushInv'
    BY <1>3 DEF PushType, CardType, RestType, PushInv, CardInv, SameKey, Carries, Land, Stored
  <2>8. CardInv'
    BY <1>3 DEF CardType, RestType, CardInv, FormInv, Kept, SameKey, Land, Stored
  <2>9. SlotInv'
    BY <1>3 DEF PushType, CardType, SlotInv, Land, Stored
  <2>10. QED
    BY <2>1, <2>2, <2>3, <2>4, <2>5, <2>6, <2>7, <2>8, <2>9
<1>4. ASSUME NEW s \in Slot, Refuse(s) PROVE KeyInv'
  <2>1. Flags'
    BY <1>4, Zenon DEF Flags, Refuse, Stored
  <2>2. PushType'
    BY <1>4 DEF PushType, RestType, Refuse, Stored
  <2>3. CardType'
    BY <1>4 DEF CardType, RestType, Refuse, Stored
  <2>4. RestType'
    <3>1. push[s].key \in Key /\ push[s].phrase \in Phrase
      BY <1>4 DEF PushType, PushInv, Carries, Refuse
    <3>2. ASSUME Stored(push[s]) PROVE server' \in Blob
      BY <3>1, <3>2 DEF Stored
    <3>3. server' \in Blob \cup {None}
      BY <1>4, <3>2 DEF RestType, Refuse
    <3>4. QED
      BY <1>4, <3>3 DEF RestType, Refuse
  <2>5. MuteInv'
    <3>1. Restoring' = Restoring
      BY <1>4 DEF CardType, Restoring, Refuse, Stored
    <3>2. QED
      BY <1>4, <3>1, MuteStays DEF Refuse, Stored
  <2>6. Kept'
    BY <1>4 DEF PushType, CardType, RestType, Kept, RecordInv, ServerInv, StrayInv, FormInv,
       PushInv, CardInv, SameKey, Carries, Refuse, Stored
  <2>7. PushInv'
    BY <1>4 DEF PushType, CardType, RestType, PushInv, CardInv, SameKey, Carries, Refuse, Stored
  <2>8. CardInv'
    BY <1>4 DEF CardType, RestType, CardInv, FormInv, Kept, SameKey, Refuse, Stored
  <2>9. SlotInv'
    BY <1>4 DEF PushType, CardType, SlotInv, Refuse, Stored
  <2>10. QED
    BY <2>1, <2>2, <2>3, <2>4, <2>5, <2>6, <2>7, <2>8, <2>9
<1>5. ASSUME NEW s \in Slot, NoteRead(s) PROVE KeyInv'
  <2>1. Flags'
    BY <1>5, Zenon DEF Flags, NoteRead
  <2>2. PushType'
    BY <1>5 DEF PushType, RestType, NoteRead
  <2>3. CardType'
    BY <1>5 DEF CardType, RestType, NoteRead
  <2>4. RestType'
    BY <1>5 DEF PushType, CardType, RestType, PushInv, CardInv, NoteRead
  <2>5. MuteInv'
    <3>1. Restoring' = Restoring
      BY <1>5 DEF CardType, Restoring, NoteRead
    <3>2. QED
      BY <1>5, <3>1, MuteStays DEF NoteRead
  <2>6. Kept'
    BY <1>5 DEF PushType, CardType, RestType, Kept, RecordInv, ServerInv, StrayInv, FormInv,
       PushInv, CardInv, SameKey, Carries, NoteRead
  <2>7. PushInv'
    BY <1>5 DEF PushType, CardType, RestType, PushInv, CardInv, SameKey, Carries, NoteRead
  <2>8. CardInv'
    BY <1>5 DEF CardType, RestType, CardInv, FormInv, Kept, SameKey, NoteRead
  <2>9. SlotInv'
    BY <1>5 DEF PushType, CardType, SlotInv, NoteRead
  <2>10. QED
    BY <2>1, <2>2, <2>3, <2>4, <2>5, <2>6, <2>7, <2>8, <2>9
<1>6. ASSUME NEW s \in Slot, NotePut(s) PROVE KeyInv'
  <2>1. Flags'
    BY <1>6, Zenon DEF Flags, NotePut, Put, Ends, Forgive
  <2>2. PushType'
    BY <1>6 DEF PushType, RestType, NotePut, Put, Ends
  <2>3. CardType'
    BY <1>6 DEF CardType, RestType, NotePut, Put, Ends
  <2>4. RestType'
    BY <1>6 DEF PushType, CardType, RestType, PushInv, CardInv, NotePut, Put, Ends
  <2>5. MuteInv'
    <3>1. s \in Card => card[s].at = "depositing"
      BY <1>6 DEF SlotInv, NotePut
    <3>2. Restoring' = Restoring
      BY <1>6, <3>1 DEF CardType, Restoring, NotePut, Ends
    <3>3. QED
      BY <1>6, <3>2, MuteStays DEF NotePut
  <2>6. Kept'
    BY <1>6 DEF PushType, CardType, RestType, Kept, RecordInv, ServerInv, StrayInv, FormInv,
       PushInv, CardInv, SameKey, Carries, NotePut, Put, Ends
  <2>7. PushInv'
    BY <1>6 DEF PushType, CardType, RestType, PushInv, CardInv, SameKey, Carries, NotePut, Put, Ends
  <2>8. CardInv'
    <3>1. record # None => record' # None /\ (overwritten \/ record'.key = record.key)
      BY <1>6 DEF PushType, RestType, PushInv, SameKey, NotePut, Put
    <3>2. \A d \in Card : card'[d] \in {card[d], AtRest}
      BY <1>6 DEF CardType, NotePut, Ends
    <3>3. UNCHANGED <<overwritten, consented>>
      BY <1>6 DEF NotePut
    <3>4. QED
      BY <3>1, <3>2, <3>3 DEF CardType, CardInv, SameKey
  <2>9. SlotInv'
    BY <1>6 DEF PushType, CardType, SlotInv, NotePut, Put, Ends
  <2>10. QED
    BY <2>1, <2>2, <2>3, <2>4, <2>5, <2>6, <2>7, <2>8, <2>9
<1>7. CASE Write
  <2>1. Flags'
    BY <1>7, Zenon DEF Flags, Write
  <2>2. PushType'
    BY <1>7 DEF PushType, RestType, Write
  <2>3. CardType'
    BY <1>7 DEF CardType, RestType, Write
  <2>4. RestType'
    BY <1>7 DEF PushType, CardType, RestType, PushInv, CardInv, Write
  <2>5. MuteInv'
    <3>1. Restoring' = Restoring
      BY <1>7 DEF CardType, Restoring, Write
    <3>2. QED
      BY <1>7, <3>1, MuteStays DEF Write
  <2>6. Kept'
    BY <1>7 DEF PushType, CardType, RestType, Kept, RecordInv, ServerInv, StrayInv, FormInv,
       PushInv, CardInv, SameKey, Carries, Write
  <2>7. PushInv'
    BY <1>7 DEF PushType, CardType, RestType, PushInv, CardInv, SameKey, Carries, Write
  <2>8. CardInv'
    BY <1>7 DEF CardType, RestType, CardInv, FormInv, Kept, SameKey, Write
  <2>9. SlotInv'
    BY <1>7 DEF PushType, CardType, SlotInv, Write
  <2>10. QED
    BY <2>1, <2>2, <2>3, <2>4, <2>5, <2>6, <2>7, <2>8, <2>9
<1>8. CASE AgentOpens
  <2>1. Flags'
    BY <1>8, Zenon DEF Flags, AgentOpens
  <2>2. PushType'
    BY <1>8 DEF PushType, RestType, AgentOpens
  <2>3. CardType'
    BY <1>8 DEF CardType, RestType, AgentOpens
  <2>4. RestType'
    BY <1>8 DEF PushType, CardType, RestType, PushInv, CardInv, AgentOpens
  <2>5. MuteInv'
    <3>1. Restoring' = Restoring
      BY <1>8 DEF Restoring, AgentOpens
    <3>2. QED
      BY <1>8, <3>1, RestoringCounted DEF MuteInv, AgentOpens
  <2>6. Kept'
    BY <1>8 DEF PushType, CardType, RestType, Kept, RecordInv, ServerInv, StrayInv, FormInv,
       PushInv, CardInv, SameKey, Carries, AgentOpens
  <2>7. PushInv'
    BY <1>8 DEF PushType, CardType, RestType, PushInv, CardInv, SameKey, Carries, AgentOpens
  <2>8. CardInv'
    BY <1>8 DEF CardType, RestType, CardInv, FormInv, Kept, SameKey, AgentOpens
  <2>9. SlotInv'
    BY <1>8 DEF PushType, CardType, SlotInv, AgentOpens
  <2>10. QED
    BY <2>1, <2>2, <2>3, <2>4, <2>5, <2>6, <2>7, <2>8, <2>9
<1>9. CASE AgentCloses
  <2>1. Flags'
    BY <1>9, Zenon DEF Flags, AgentCloses
  <2>2. PushType'
    BY <1>9 DEF PushType, RestType, AgentCloses
  <2>3. CardType'
    BY <1>9 DEF CardType, RestType, AgentCloses
  <2>4. RestType'
    <3>1. suppressed \in Nat \ {0}
      BY <1>9, RestoringCounted DEF MuteInv, AgentCloses
    <3>2. QED
      BY <1>9, <3>1 DEF RestType, AgentCloses
  <2>5. MuteInv'
    <3>1. Restoring' = Restoring
      BY <1>9 DEF Restoring, AgentCloses
    <3>2. QED
      BY <1>9, <3>1, RestoringCounted DEF MuteInv, AgentCloses
  <2>6. Kept'
    BY <1>9 DEF PushType, CardType, RestType, Kept, RecordInv, ServerInv, StrayInv, FormInv,
       PushInv, CardInv, SameKey, Carries, AgentCloses
  <2>7. PushInv'
    BY <1>9 DEF PushType, CardType, RestType, PushInv, CardInv, SameKey, Carries, AgentCloses
  <2>8. CardInv'
    BY <1>9 DEF CardType, RestType, CardInv, FormInv, Kept, SameKey, AgentCloses
  <2>9. SlotInv'
    BY <1>9 DEF PushType, CardType, SlotInv, AgentCloses
  <2>10. QED
    BY <2>1, <2>2, <2>3, <2>4, <2>5, <2>6, <2>7, <2>8, <2>9
<1>10. CASE Fire
  <2>1. Flags'
    BY <1>10, Zenon DEF Flags, Fire, Start
  <2>2. PushType'
    BY <1>10 DEF PushType, RestType, Fire, Start
  <2>3. CardType'
    BY <1>10 DEF CardType, RestType, Fire, Start
  <2>4. RestType'
    BY <1>10 DEF PushType, CardType, RestType, PushInv, CardInv, Fire, Start
  <2>5. MuteInv'
    <3>1. Restoring' = Restoring
      BY <1>10 DEF CardType, Restoring, Fire, Start
    <3>2. QED
      BY <1>10, <3>1, MuteStays DEF Fire, Start
  <2>6. Kept'
    BY <1>10 DEF PushType, CardType, RestType, Kept, RecordInv, ServerInv, StrayInv, FormInv,
       PushInv, CardInv, SameKey, Carries, Fire, Start
  <2>7. PushInv'
    BY <1>10 DEF PushType, CardType, RestType, PushInv, CardInv, SameKey, Carries, Fire, Start
  <2>8. CardInv'
    BY <1>10 DEF CardType, RestType, CardInv, FormInv, Kept, SameKey, Fire, Start
  <2>9. SlotInv'
    BY <1>10 DEF PushType, CardType, SlotInv, Fire, Start
  <2>10. QED
    BY <2>1, <2>2, <2>3, <2>4, <2>5, <2>6, <2>7, <2>8, <2>9
<1>11. CASE OpenForm
  <2>1. Flags'
    BY <1>11, Zenon DEF Flags, OpenForm, Freed
  <2>2. PushType'
    BY <1>11 DEF PushType, RestType, OpenForm, Freed
  <2>3. CardType'
    BY <1>11 DEF CardType, RestType, OpenForm, Freed
  <2>4. RestType'
    BY <1>11 DEF PushType, CardType, RestType, PushInv, CardInv, OpenForm, Freed
  <2>5. MuteInv'
    <3>1. Restoring' = Restoring
      BY <1>11 DEF CardType, Restoring, OpenForm, Freed
    <3>2. QED
      BY <1>11, <3>1, MuteStays DEF OpenForm, Freed
  <2>6. Kept'
    BY <1>11 DEF PushType, CardType, RestType, Kept, RecordInv, ServerInv, StrayInv, FormInv,
       PushInv, CardInv, SameKey, Carries, OpenForm, Freed
  <2>7. PushInv'
    BY <1>11 DEF PushType, CardType, RestType, PushInv, CardInv, SameKey, Carries, OpenForm, Freed
  <2>8. CardInv'
    BY <1>11 DEF CardType, RestType, CardInv, FormInv, Kept, SameKey, OpenForm, Freed
  <2>9. SlotInv'
    BY <1>11 DEF PushType, CardType, SlotInv, OpenForm, Freed
  <2>10. QED
    BY <2>1, <2>2, <2>3, <2>4, <2>5, <2>6, <2>7, <2>8, <2>9
<1>12. CASE CloseForm
  <2>1. Flags'
    BY <1>12, Zenon DEF Flags, CloseForm
  <2>2. PushType'
    BY <1>12 DEF PushType, RestType, CloseForm
  <2>3. CardType'
    BY <1>12 DEF CardType, RestType, CloseForm
  <2>4. RestType'
    BY <1>12 DEF PushType, CardType, RestType, PushInv, CardInv, CloseForm
  <2>5. MuteInv'
    <3>1. Restoring' = Restoring
      BY <1>12 DEF CardType, Restoring, CloseForm
    <3>2. QED
      BY <1>12, <3>1, MuteStays DEF CloseForm
  <2>6. Kept'
    BY <1>12 DEF PushType, CardType, RestType, Kept, RecordInv, ServerInv, StrayInv, FormInv,
       PushInv, CardInv, SameKey, Carries, CloseForm
  <2>7. PushInv'
    BY <1>12 DEF PushType, CardType, RestType, PushInv, CardInv, SameKey, Carries, CloseForm
  <2>8. CardInv'
    BY <1>12 DEF CardType, RestType, CardInv, FormInv, Kept, SameKey, CloseForm
  <2>9. SlotInv'
    BY <1>12 DEF PushType, CardType, SlotInv, CloseForm
  <2>10. QED
    BY <2>1, <2>2, <2>3, <2>4, <2>5, <2>6, <2>7, <2>8, <2>9
<1>13. CASE Leave
  <2>1. Flags'
    BY <1>13, Zenon DEF Flags, Leave
  <2>2. PushType'
    BY <1>13 DEF PushType, RestType, Leave
  <2>3. CardType'
    BY <1>13 DEF CardType, RestType, Leave
  <2>4. RestType'
    BY <1>13 DEF PushType, CardType, RestType, PushInv, CardInv, Leave
  <2>5. MuteInv'
    <3>1. PICK c \in Card : /\ card[c].at = "idle" /\ card[Shown].at # "idle"
                            /\ card' = [card EXCEPT ![c] = card[Shown], ![Shown] = AtRest]
      BY <1>13 DEF Leave
    <3>2. CASE card[Shown].at = "restoring"
      <4>1. Restoring' = (Restoring \ {Shown}) \cup {c} /\ Shown \in Restoring /\ c \notin Restoring
        BY <3>1, <3>2 DEF CardType, Restoring
      <4>2. /\ Cardinality(Restoring \ {Shown}) = Cardinality(Restoring) - 1
            /\ IsFiniteSet(Restoring \ {Shown})
        BY <4>1, RestoringCounted, FS_RemoveElement
      <4>3. Cardinality(Restoring') = Cardinality(Restoring) - 1 + 1
        BY <4>1, <4>2, FS_AddElement
      <4>4. QED
        BY <1>13, <4>3, RestoringCounted DEF MuteInv, Leave
    <3>3. CASE card[Shown].at # "restoring"
      <4>1. Restoring' = Restoring
        BY <3>1, <3>3 DEF CardType, Restoring
      <4>2. QED
        BY <1>13, <4>1, MuteStays DEF Leave
    <3>4. QED
      BY <3>2, <3>3
  <2>6. Kept'
    BY <1>13 DEF PushType, CardType, RestType, Kept, RecordInv, ServerInv, StrayInv, FormInv,
       PushInv, CardInv, SameKey, Carries, Leave
  <2>7. PushInv'
    BY <1>13 DEF PushType, CardType, RestType, PushInv, CardInv, SameKey, Carries, Leave
  <2>8. CardInv'
    BY <1>13 DEF CardType, RestType, CardInv, FormInv, Kept, SameKey, Leave
  <2>9. SlotInv'
    BY <1>13 DEF PushType, CardType, SlotInv, Leave
  <2>10. QED
    BY <2>1, <2>2, <2>3, <2>4, <2>5, <2>6, <2>7, <2>8, <2>9
<1>14. ASSUME NEW p \in Phrase, EnableRead(p) PROVE KeyInv'
  <2>1. Flags'
    BY <1>14, Zenon DEF Flags, EnableRead, Takes
  <2>2. PushType'
    BY <1>14 DEF PushType, RestType, EnableRead, Takes
  <2>3. CardType'
    BY <1>14 DEF CardType, RestType, EnableRead, Takes
  <2>4. RestType'
    BY <1>14 DEF PushType, CardType, RestType, PushInv, CardInv, EnableRead, Takes
  <2>5. MuteInv'
    <3>1. Restoring' = Restoring
      BY <1>14 DEF CardType, Restoring, EnableRead, Takes
    <3>2. QED
      BY <1>14, <3>1, MuteStays DEF EnableRead, Takes
  <2>6. Kept'
    BY <1>14 DEF PushType, CardType, RestType, Kept, RecordInv, ServerInv, StrayInv, FormInv,
       PushInv, CardInv, SameKey, Carries, EnableRead, Takes
  <2>7. PushInv'
    BY <1>14 DEF PushType, CardType, RestType, PushInv, CardInv, SameKey, Carries, EnableRead, Takes
  <2>8. CardInv'
    BY <1>14 DEF CardType, RestType, CardInv, FormInv, Kept, SameKey, EnableRead, Takes
  <2>9. SlotInv'
    BY <1>14 DEF PushType, CardType, SlotInv, EnableRead, Takes
  <2>10. QED
    BY <2>1, <2>2, <2>3, <2>4, <2>5, <2>6, <2>7, <2>8, <2>9
<1>15. ASSUME NEW p \in Phrase, ChangeRead(p) PROVE KeyInv'
  <2>1. Flags'
    BY <1>15, Zenon DEF Flags, ChangeRead, Takes
  <2>2. PushType'
    BY <1>15 DEF PushType, RestType, ChangeRead, Takes
  <2>3. CardType'
    BY <1>15 DEF CardType, RestType, ChangeRead, Takes
  <2>4. RestType'
    BY <1>15 DEF PushType, CardType, RestType, PushInv, CardInv, ChangeRead, Takes
  <2>5. MuteInv'
    <3>1. Restoring' = Restoring
      BY <1>15 DEF CardType, Restoring, ChangeRead, Takes
    <3>2. QED
      BY <1>15, <3>1, MuteStays DEF ChangeRead, Takes
  <2>6. Kept'
    BY <1>15 DEF PushType, CardType, RestType, Kept, RecordInv, ServerInv, StrayInv, FormInv,
       PushInv, CardInv, SameKey, Carries, ChangeRead, Takes
  <2>7. PushInv'
    BY <1>15 DEF PushType, CardType, RestType, PushInv, CardInv, SameKey, Carries, ChangeRead, Takes
  <2>8. CardInv'
    BY <1>15 DEF CardType, RestType, CardInv, FormInv, Kept, SameKey, ChangeRead, Takes
  <2>9. SlotInv'
    BY <1>15 DEF PushType, CardType, SlotInv, ChangeRead, Takes
  <2>10. QED
    BY <2>1, <2>2, <2>3, <2>4, <2>5, <2>6, <2>7, <2>8, <2>9
<1>16. CASE DisableRead
  <2>1. Flags'
    BY <1>16, Zenon DEF Flags, DisableRead, Freed, Takes
  <2>2. PushType'
    BY <1>16 DEF PushType, RestType, DisableRead, Freed, Takes
  <2>3. CardType'
    BY <1>16 DEF CardType, RestType, DisableRead, Freed, Takes
  <2>4. RestType'
    BY <1>16 DEF PushType, CardType, RestType, PushInv, CardInv, DisableRead, Freed, Takes
  <2>5. MuteInv'
    <3>1. Restoring' = Restoring
      BY <1>16 DEF CardType, Restoring, DisableRead, Freed, Takes
    <3>2. QED
      BY <1>16, <3>1, MuteStays DEF DisableRead, Freed, Takes
  <2>6. Kept'
    BY <1>16 DEF PushType, CardType, RestType, Kept, RecordInv, ServerInv, StrayInv, FormInv,
       PushInv, CardInv, SameKey, Carries, DisableRead, Freed, Takes
  <2>7. PushInv'
    BY <1>16 DEF PushType, CardType, RestType, PushInv, CardInv, SameKey, Carries, DisableRead,
       Freed, Takes
  <2>8. CardInv'
    BY <1>16 DEF CardType, RestType, CardInv, FormInv, Kept, SameKey, DisableRead, Freed, Takes
  <2>9. SlotInv'
    BY <1>16 DEF PushType, CardType, SlotInv, DisableRead, Freed, Takes
  <2>10. QED
    BY <2>1, <2>2, <2>3, <2>4, <2>5, <2>6, <2>7, <2>8, <2>9
<1>17. CASE BackupNow
  <2>1. Flags'
    BY <1>17, Zenon DEF Flags, BackupNow, Freed, Takes, Start
  <2>2. PushType'
    BY <1>17 DEF PushType, RestType, BackupNow, Freed, Takes, Start
  <2>3. CardType'
    BY <1>17 DEF CardType, RestType, BackupNow, Freed, Takes, Start
  <2>4. RestType'
    BY <1>17 DEF PushType, CardType, RestType, PushInv, CardInv, BackupNow, Freed, Takes, Start
  <2>5. MuteInv'
    <3>1. Restoring' = Restoring
      BY <1>17 DEF CardType, Restoring, BackupNow, Freed, Takes, Start
    <3>2. QED
      BY <1>17, <3>1, MuteStays DEF BackupNow, Freed, Takes, Start
  <2>6. Kept'
    BY <1>17 DEF PushType, CardType, RestType, Kept, RecordInv, ServerInv, StrayInv, FormInv,
       PushInv, CardInv, SameKey, Carries, BackupNow, Freed, Takes, Start
  <2>7. PushInv'
    BY <1>17 DEF PushType, CardType, RestType, PushInv, CardInv, SameKey, Carries, BackupNow, Freed,
       Takes, Start
  <2>8. CardInv'
    BY <1>17 DEF CardType, RestType, CardInv, FormInv, Kept, SameKey, BackupNow, Freed, Takes, Start
  <2>9. SlotInv'
    BY <1>17 DEF PushType, CardType, SlotInv, BackupNow, Freed, Takes, Start
  <2>10. QED
    BY <2>1, <2>2, <2>3, <2>4, <2>5, <2>6, <2>7, <2>8, <2>9
<1>18. CASE PullByKey
  <2>1. Flags'
    BY <1>18, Zenon DEF Flags, PullByKey, Freed, Takes
  <2>2. PushType'
    BY <1>18 DEF PushType, RestType, PullByKey, Freed, Takes
  <2>3. CardType'
    BY <1>18 DEF CardType, RestType, PullByKey, Freed, Takes
  <2>4. RestType'
    BY <1>18 DEF PushType, CardType, RestType, PushInv, CardInv, PullByKey, Freed, Takes
  <2>5. MuteInv'
    <3>1. Restoring' = Restoring
      BY <1>18 DEF CardType, Restoring, PullByKey, Freed, Takes
    <3>2. QED
      BY <1>18, <3>1, MuteStays DEF PullByKey, Freed, Takes
  <2>6. Kept'
    BY <1>18 DEF PushType, CardType, RestType, Kept, RecordInv, ServerInv, StrayInv, FormInv,
       PushInv, CardInv, SameKey, Carries, PullByKey, Freed, Takes
  <2>7. PushInv'
    BY <1>18 DEF PushType, CardType, RestType, PushInv, CardInv, SameKey, Carries, PullByKey, Freed,
       Takes
  <2>8. CardInv'
    BY <1>18 DEF CardType, RestType, CardInv, FormInv, Kept, SameKey, PullByKey, Freed, Takes
  <2>9. SlotInv'
    BY <1>18 DEF PushType, CardType, SlotInv, PullByKey, Freed, Takes
  <2>10. QED
    BY <2>1, <2>2, <2>3, <2>4, <2>5, <2>6, <2>7, <2>8, <2>9
<1>19. CASE PullByPhrase
  <2>1. Flags'
    BY <1>19, Zenon DEF Flags, PullByPhrase, Takes
  <2>2. PushType'
    BY <1>19 DEF PushType, RestType, PullByPhrase, Takes
  <2>3. CardType'
    BY <1>19 DEF CardType, RestType, PullByPhrase, Takes
  <2>4. RestType'
    BY <1>19 DEF PushType, CardType, RestType, PushInv, CardInv, PullByPhrase, Takes
  <2>5. MuteInv'
    <3>1. Restoring' = Restoring
      BY <1>19 DEF CardType, Restoring, PullByPhrase, Takes
    <3>2. QED
      BY <1>19, <3>1, MuteStays DEF PullByPhrase, Takes
  <2>6. Kept'
    BY <1>19 DEF PushType, CardType, RestType, Kept, RecordInv, ServerInv, StrayInv, FormInv,
       PushInv, CardInv, SameKey, Carries, PullByPhrase, Takes
  <2>7. PushInv'
    BY <1>19 DEF PushType, CardType, RestType, PushInv, CardInv, SameKey, Carries, PullByPhrase,
       Takes
  <2>8. CardInv'
    BY <1>19 DEF CardType, RestType, CardInv, FormInv, Kept, SameKey, PullByPhrase, Takes
  <2>9. SlotInv'
    BY <1>19 DEF PushType, CardType, SlotInv, PullByPhrase, Takes
  <2>10. QED
    BY <2>1, <2>2, <2>3, <2>4, <2>5, <2>6, <2>7, <2>8, <2>9
<1>20. CASE Delete
  <2>1. Flags'
    BY <1>20, Zenon DEF Flags, Delete, Freed, Takes
  <2>2. PushType'
    BY <1>20 DEF PushType, RestType, Delete, Freed, Takes
  <2>3. CardType'
    BY <1>20 DEF CardType, RestType, Delete, Freed, Takes
  <2>4. RestType'
    BY <1>20 DEF PushType, CardType, RestType, PushInv, CardInv, Delete, Freed, Takes
  <2>5. MuteInv'
    <3>1. Restoring' = Restoring
      BY <1>20 DEF CardType, Restoring, Delete, Freed, Takes
    <3>2. QED
      BY <1>20, <3>1, MuteStays DEF Delete, Freed, Takes
  <2>6. Kept'
    BY <1>20 DEF PushType, CardType, RestType, Kept, RecordInv, ServerInv, StrayInv, FormInv,
       PushInv, CardInv, SameKey, Carries, Delete, Freed, Takes
  <2>7. PushInv'
    BY <1>20 DEF PushType, CardType, RestType, PushInv, CardInv, SameKey, Carries, Delete, Freed,
       Takes
  <2>8. CardInv'
    BY <1>20 DEF CardType, RestType, CardInv, FormInv, Kept, SameKey, Delete, Freed, Takes
  <2>9. SlotInv'
    BY <1>20 DEF PushType, CardType, SlotInv, Delete, Freed, Takes
  <2>10. QED
    BY <2>1, <2>2, <2>3, <2>4, <2>5, <2>6, <2>7, <2>8, <2>9
<1>21. ASSUME NEW c \in Card, EnablePut(c) PROVE KeyInv'
  <2>0. /\ record' \in BackupState /\ record' # None /\ consented'
        /\ overwritten => overwritten'
        /\ record # None => overwritten' \/ record'.key = record.key
        /\ card' = [card EXCEPT ![c] = AtRest] /\ form' \in {"none", form}
        /\ promised' = Unpromised /\ UNCHANGED <<push, stray, server, suppressed, agent>>
    <3>1. card[c].phrase \in Phrase
      BY <1>21 DEF CardType, CardInv, EnablePut
    <3>2. CASE card[c].seen = None
      <4>1. PICK key \in OwnKey : /\ record' = [on |-> TRUE, key |-> key, phrase |-> card[c].phrase]
                                 /\ overwritten' = (overwritten \/ record # None)
        BY <1>21, <3>2, Zenon DEF EnablePut, PutFirst, Put
      <4>2. record' \in BackupState
        BY <3>1, <4>1
      <4>3. QED
        BY <1>21, <4>1, <4>2 DEF RestType, EnablePut, Ends
    <3>3. CASE card[c].seen # None
      <4>1. /\ record' = [on |-> TRUE, key |-> card[c].seen.key, phrase |-> card[c].phrase]
            /\ overwritten' = overwritten
        BY <1>21, <3>3, Zenon DEF EnablePut, Put
      <4>2. card[c].seen \in BackupState /\ SameKey(card[c].seen)
        BY <1>21, <3>3 DEF CardType, CardInv, EnablePut
      <4>3. record' \in BackupState
        BY <3>1, <4>1, <4>2
      <4>4. record # None => overwritten' \/ record'.key = record.key
        BY <4>1, <4>2 DEF SameKey
      <4>5. QED
        BY <1>21, <4>1, <4>3, <4>4 DEF RestType, EnablePut, Ends
    <3>4. QED
      BY <3>2, <3>3
  <2>1. Flags'
    BY <1>21, Zenon DEF Flags, EnablePut, PutFirst, Put, Ends, Forgive
  <2>2. PushType'
    BY <2>0 DEF PushType
  <2>3. CardType'
    BY <2>0 DEF CardType
  <2>4. RestType'
    BY <2>0 DEF RestType
  <2>5. MuteInv'
    <3>1. Restoring' = Restoring
      BY <1>21 DEF CardType, Restoring, EnablePut, PutFirst, Put, Ends
    <3>2. QED
      BY <1>21, <3>1, MuteStays DEF EnablePut, PutFirst, Put, Ends
  <2>6. Kept'
    BY <2>0 DEF RestType, Kept, RecordInv, ServerInv, StrayInv, FormInv, SameKey
  <2>7. PushInv'
    BY <2>0 DEF PushType, PushInv, SameKey, Carries
  <2>8. CardInv'
    BY <2>0 DEF CardType, CardInv, SameKey
  <2>9. SlotInv'
    BY <1>21 DEF PushType, CardType, SlotInv, EnablePut, PutFirst, Put, Ends
  <2>10. QED
    BY <2>1, <2>2, <2>3, <2>4, <2>5, <2>6, <2>7, <2>8, <2>9
<1>22. ASSUME NEW c \in Card, DisablePut(c) PROVE KeyInv'
  <2>1. Flags'
    BY <1>22, Zenon DEF Flags, DisablePut, Put, Ends, Forgive
  <2>2. PushType'
    BY <1>22 DEF PushType, RestType, DisablePut, Put, Ends
  <2>3. CardType'
    BY <1>22 DEF CardType, RestType, DisablePut, Put, Ends
  <2>4. RestType'
    BY <1>22 DEF PushType, CardType, RestType, PushInv, CardInv, DisablePut, Put, Ends
  <2>5. MuteInv'
    <3>1. Restoring' = Restoring
      BY <1>22 DEF CardType, Restoring, DisablePut, Put, Ends
    <3>2. QED
      BY <1>22, <3>1, MuteStays DEF DisablePut, Put, Ends
  <2>6. Kept'
    BY <1>22 DEF PushType, CardType, RestType, Kept, RecordInv, ServerInv, StrayInv, FormInv,
       PushInv, CardInv, SameKey, Carries, DisablePut, Put, Ends
  <2>7. PushInv'
    BY <1>22 DEF PushType, CardType, RestType, PushInv, CardInv, SameKey, Carries, DisablePut, Put,
       Ends
  <2>8. CardInv'
    BY <1>22 DEF CardType, RestType, CardInv, FormInv, Kept, SameKey, DisablePut, Put, Ends
  <2>9. SlotInv'
    BY <1>22 DEF PushType, CardType, SlotInv, DisablePut, Put, Ends
  <2>10. QED
    BY <2>1, <2>2, <2>3, <2>4, <2>5, <2>6, <2>7, <2>8, <2>9
<1>23. ASSUME NEW c \in Card, ChangePut(c) PROVE KeyInv'
  <2>1. Flags'
    BY <1>23, Zenon DEF Flags, ChangePut, Put, Awaits, Forgive
  <2>2. PushType'
    BY <1>23 DEF PushType, RestType, ChangePut, Put, Awaits
  <2>3. CardType'
    BY <1>23 DEF CardType, RestType, ChangePut, Put, Awaits
  <2>4. RestType'
    <3>1. record' \in BackupState
      BY <1>23 DEF CardType, CardInv, ChangePut, Put
    <3>2. promised' \in [phrase : Phrase \cup {None}, done : BOOLEAN, alone : BOOLEAN]
      <4>1. LastUnderWay(c) \in BOOLEAN
        BY DEF LastUnderWay
      <4>2. QED
        BY <1>23, <4>1 DEF CardType, ChangePut
    <3>3. QED
      BY <1>23, <3>1, <3>2 DEF RestType, ChangePut
  <2>5. MuteInv'
    <3>1. Restoring' = Restoring
      BY <1>23 DEF CardType, Restoring, ChangePut, Put, Awaits
    <3>2. QED
      BY <1>23, <3>1, MuteStays DEF ChangePut, Put, Awaits
  <2>6. Kept'
    BY <1>23 DEF PushType, CardType, RestType, Kept, RecordInv, ServerInv, StrayInv, FormInv,
       PushInv, CardInv, SameKey, Carries, ChangePut, Put, Awaits
  <2>7. PushInv'
    BY <1>23 DEF PushType, CardType, RestType, PushInv, CardInv, SameKey, Carries, ChangePut, Put,
       Awaits
  <2>8. CardInv'
    BY <1>23 DEF CardType, RestType, CardInv, FormInv, Kept, SameKey, ChangePut, Put, Awaits
  <2>9. SlotInv'
    BY <1>23 DEF PushType, CardType, SlotInv, ChangePut, Put, Awaits
  <2>10. QED
    BY <2>1, <2>2, <2>3, <2>4, <2>5, <2>6, <2>7, <2>8, <2>9
<1>24. ASSUME NEW c \in Card, Deposit(c) PROVE KeyInv'
  <2>1. Flags'
    BY <1>24, Zenon DEF Flags, Deposit, Start, Ends
  <2>2. PushType'
    BY <1>24 DEF PushType, RestType, Deposit, Start, Ends
  <2>3. CardType'
    BY <1>24 DEF CardType, RestType, Deposit, Start, Ends
  <2>4. RestType'
    BY <1>24 DEF PushType, CardType, RestType, PushInv, CardInv, Deposit, Start, Ends
  <2>5. MuteInv'
    <3>1. Restoring' = Restoring
      BY <1>24 DEF CardType, Restoring, Deposit, Start, Ends
    <3>2. QED
      BY <1>24, <3>1, MuteStays DEF Deposit, Start, Ends
  <2>6. Kept'
    BY <1>24 DEF PushType, CardType, RestType, Kept, RecordInv, ServerInv, StrayInv, FormInv,
       PushInv, CardInv, SameKey, Carries, Deposit, Start, Ends
  <2>7. PushInv'
    BY <1>24 DEF PushType, CardType, RestType, PushInv, CardInv, SameKey, Carries, Deposit, Start,
       Ends
  <2>8. CardInv'
    BY <1>24 DEF CardType, RestType, CardInv, FormInv, Kept, SameKey, Deposit, Start, Ends
  <2>9. SlotInv'
    BY <1>24 DEF PushType, CardType, SlotInv, Deposit, Start, Ends
  <2>10. QED
    BY <2>1, <2>2, <2>3, <2>4, <2>5, <2>6, <2>7, <2>8, <2>9
<1>25. ASSUME NEW c \in Card, Open(c) PROVE KeyInv'
  <2>1. Flags'
    BY <1>25, Zenon DEF Flags, Open, Awaits
  <2>2. PushType'
    BY <1>25 DEF PushType, RestType, Open, Awaits
  <2>3. CardType'
    BY <1>25 DEF CardType, RestType, Open, Awaits
  <2>4. RestType'
    BY <1>25 DEF PushType, CardType, RestType, PushInv, CardInv, Open, Awaits
  <2>5. MuteInv'
    <3>1. Restoring' = Restoring \cup {c} /\ c \notin Restoring
      BY <1>25 DEF CardType, Restoring, Open, Awaits
    <3>2. Cardinality(Restoring') = Cardinality(Restoring) + 1
      BY <3>1, RestoringCounted, FS_AddElement
    <3>3. QED
      BY <1>25, <3>2, RestoringCounted DEF MuteInv, Open
  <2>6. Kept'
    BY <1>25 DEF PushType, CardType, RestType, Kept, RecordInv, ServerInv, StrayInv, FormInv,
       PushInv, CardInv, SameKey, Carries, Open, Awaits
  <2>7. PushInv'
    BY <1>25 DEF PushType, CardType, RestType, PushInv, CardInv, SameKey, Carries, Open, Awaits
  <2>8. CardInv'
    BY <1>25 DEF CardType, RestType, CardInv, FormInv, Kept, SameKey, Open, Awaits
  <2>9. SlotInv'
    BY <1>25 DEF PushType, CardType, SlotInv, Open, Awaits
  <2>10. QED
    BY <2>1, <2>2, <2>3, <2>4, <2>5, <2>6, <2>7, <2>8, <2>9
<1>26. ASSUME NEW c \in Card, Restore(c) PROVE KeyInv'
  <2>1. Flags'
    BY <1>26, Zenon DEF Flags, Restore, Awaits, Ends
  <2>2. PushType'
    BY <1>26 DEF PushType, RestType, Restore, Awaits, Ends
  <2>3. CardType'
    BY <1>26 DEF CardType, RestType, Restore, Awaits, Ends
  <2>4. RestType'
    <3>1. c \in Restoring
      BY <1>26 DEF Restoring, Restore
    <3>2. suppressed \in Nat \ {0}
      BY <3>1, RestoringCounted, FS_EmptySet DEF MuteInv
    <3>3. QED
      BY <1>26, <3>2 DEF RestType, Restore, Awaits, Ends
  <2>5. MuteInv'
    <3>1. Restoring' = Restoring \ {c} /\ c \in Restoring
      BY <1>26 DEF CardType, Restoring, Restore, Awaits, Ends
    <3>2. Cardinality(Restoring') = Cardinality(Restoring) - 1
      BY <3>1, RestoringCounted, FS_RemoveElement
    <3>3. QED
      BY <1>26, <3>2, RestoringCounted DEF MuteInv, Restore
  <2>6. Kept'
    BY <1>26 DEF PushType, CardType, RestType, Kept, RecordInv, ServerInv, StrayInv, FormInv,
       PushInv, CardInv, SameKey, Carries, Restore, Awaits, Ends
  <2>7. PushInv'
    BY <1>26 DEF PushType, CardType, RestType, PushInv, CardInv, SameKey, Carries, Restore, Awaits,
       Ends
  <2>8. CardInv'
    BY <1>26 DEF CardType, RestType, CardInv, FormInv, Kept, SameKey, Restore, Awaits, Ends
  <2>9. SlotInv'
    BY <1>26 DEF PushType, CardType, SlotInv, Restore, Awaits, Ends
  <2>10. QED
    BY <2>1, <2>2, <2>3, <2>4, <2>5, <2>6, <2>7, <2>8, <2>9
<1>27. ASSUME NEW c \in Card, Adopt(c) PROVE KeyInv'
  <2>0. /\ record' \in BackupState /\ record' # None /\ consented'
        /\ overwritten => overwritten'
        /\ record # None => overwritten' \/ record'.key = record.key
        /\ card' = [card EXCEPT ![c] = AtRest] /\ form' \in {"none", form}
        /\ promised' = Unpromised /\ UNCHANGED <<push, stray, server, suppressed, agent>>
    <3>1. card[c].blob \in Blob /\ consented
      BY <1>27 DEF CardType, CardInv, Adopt
    <3>2. /\ record' = [on |-> TRUE, key |-> card[c].blob.key, phrase |-> card[c].blob.phrase]
          /\ overwritten' = (overwritten \/ record # None)
      BY <1>27, Zenon DEF Adopt, PutFirst, Put
    <3>3. record' \in BackupState
      BY <3>1, <3>2
    <3>4. QED
      BY <1>27, <3>1, <3>2, <3>3 DEF RestType, Adopt, Ends
  <2>1. Flags'
    BY <1>27, Zenon DEF Flags, Adopt, PutFirst, Put, Ends, Forgive
  <2>2. PushType'
    BY <2>0 DEF PushType
  <2>3. CardType'
    BY <2>0 DEF CardType
  <2>4. RestType'
    BY <2>0 DEF RestType
  <2>5. MuteInv'
    <3>1. Restoring' = Restoring
      BY <1>27 DEF CardType, Restoring, Adopt, PutFirst, Put, Ends
    <3>2. QED
      BY <1>27, <3>1, MuteStays DEF Adopt, PutFirst, Put, Ends
  <2>6. Kept'
    BY <2>0 DEF RestType, Kept, RecordInv, ServerInv, StrayInv, FormInv, SameKey
  <2>7. PushInv'
    BY <2>0 DEF PushType, PushInv, SameKey, Carries
  <2>8. CardInv'
    BY <2>0 DEF CardType, CardInv, SameKey
  <2>9. SlotInv'
    BY <1>27 DEF PushType, CardType, SlotInv, Adopt, PutFirst, Put, Ends
  <2>10. QED
    BY <2>1, <2>2, <2>3, <2>4, <2>5, <2>6, <2>7, <2>8, <2>9
<1>28. ASSUME NEW c \in Card, ClearRead(c) PROVE KeyInv'
  <2>1. Flags'
    BY <1>28, Zenon DEF Flags, ClearRead
  <2>2. PushType'
    BY <1>28 DEF PushType, RestType, ClearRead
  <2>3. CardType'
    BY <1>28 DEF CardType, RestType, ClearRead
  <2>4. RestType'
    BY <1>28 DEF PushType, CardType, RestType, PushInv, CardInv, ClearRead
  <2>5. MuteInv'
    <3>1. Restoring' = Restoring
      BY <1>28 DEF CardType, Restoring, ClearRead
    <3>2. QED
      BY <1>28, <3>1, MuteStays DEF ClearRead
  <2>6. Kept'
    BY <1>28 DEF PushType, CardType, RestType, Kept, RecordInv, ServerInv, StrayInv, FormInv,
       PushInv, CardInv, SameKey, Carries, ClearRead
  <2>7. PushInv'
    BY <1>28 DEF PushType, CardType, RestType, PushInv, CardInv, SameKey, Carries, ClearRead
  <2>8. CardInv'
    BY <1>28 DEF CardType, RestType, CardInv, FormInv, Kept, SameKey, ClearRead
  <2>9. SlotInv'
    BY <1>28 DEF PushType, CardType, SlotInv, ClearRead
  <2>10. QED
    BY <2>1, <2>2, <2>3, <2>4, <2>5, <2>6, <2>7, <2>8, <2>9
<1>29. ASSUME NEW c \in Card, ClearPut(c) PROVE KeyInv'
  <2>1. Flags'
    BY <1>29, Zenon DEF Flags, ClearPut, Put, Ends, Forgive
  <2>2. PushType'
    BY <1>29 DEF PushType, RestType, ClearPut, Put, Ends
  <2>3. CardType'
    BY <1>29 DEF CardType, RestType, ClearPut, Put, Ends
  <2>4. RestType'
    BY <1>29 DEF PushType, CardType, RestType, PushInv, CardInv, ClearPut, Put, Ends
  <2>5. MuteInv'
    <3>1. Restoring' = Restoring
      BY <1>29 DEF CardType, Restoring, ClearPut, Put, Ends
    <3>2. QED
      BY <1>29, <3>1, MuteStays DEF ClearPut, Put, Ends
  <2>6. Kept'
    BY <1>29 DEF PushType, CardType, RestType, Kept, RecordInv, ServerInv, StrayInv, FormInv,
       PushInv, CardInv, SameKey, Carries, ClearPut, Put, Ends
  <2>7. PushInv'
    BY <1>29 DEF PushType, CardType, RestType, PushInv, CardInv, SameKey, Carries, ClearPut, Put,
       Ends
  <2>8. CardInv'
    BY <1>29 DEF CardType, RestType, CardInv, FormInv, Kept, SameKey, ClearPut, Put, Ends
  <2>9. SlotInv'
    BY <1>29 DEF PushType, CardType, SlotInv, ClearPut, Put, Ends
  <2>10. QED
    BY <2>1, <2>2, <2>3, <2>4, <2>5, <2>6, <2>7, <2>8, <2>9
<1>30. ASSUME NEW c \in Card, Fails(c) PROVE KeyInv'
  <2>1. Flags'
    BY <1>30, Zenon DEF Flags, Fails
  <2>2. PushType'
    BY <1>30 DEF PushType, RestType, Fails
  <2>3. CardType'
    BY <1>30 DEF CardType, RestType, Fails
  <2>4. RestType'
    BY <1>30 DEF PushType, CardType, RestType, PushInv, CardInv, Fails
  <2>5. MuteInv'
    <3>1. Restoring' = Restoring
      BY <1>30 DEF CardType, Restoring, Fails
    <3>2. QED
      BY <1>30, <3>1, MuteStays DEF Fails
  <2>6. Kept'
    BY <1>30 DEF PushType, CardType, RestType, Kept, RecordInv, ServerInv, StrayInv, FormInv,
       PushInv, CardInv, SameKey, Carries, Fails
  <2>7. PushInv'
    BY <1>30 DEF PushType, CardType, RestType, PushInv, CardInv, SameKey, Carries, Fails
  <2>8. CardInv'
    BY <1>30 DEF CardType, RestType, CardInv, FormInv, Kept, SameKey, Fails
  <2>9. SlotInv'
    BY <1>30 DEF PushType, CardType, SlotInv, Fails
  <2>10. QED
    BY <2>1, <2>2, <2>3, <2>4, <2>5, <2>6, <2>7, <2>8, <2>9
<1>31. CASE Reload
  <2>1. Flags'
    BY <1>31, Zenon DEF Flags, Reload
  <2>2. PushType'
    BY <1>31 DEF PushType, RestType, Reload
  <2>3. CardType'
    BY <1>31 DEF CardType, RestType, Reload
  <2>4. RestType'
    <3>1. stray' \subseteq [key : Key, phrase : Phrase]
      <4>1. ASSUME NEW s \in Slot, push[s].at = "sending"
            PROVE push[s].key \in Key /\ push[s].phrase \in Phrase
        BY <4>1 DEF PushType, PushInv, Carries
      <4>2. QED
        BY <1>31, <4>1 DEF RestType, Reload
    <3>2. QED
      BY <1>31, <3>1 DEF RestType, Reload
  <2>5. MuteInv'
    <3>1. Restoring' = {}
      BY <1>31 DEF Restoring, Reload
    <3>2. QED
      BY <1>31, <3>1, FS_EmptySet DEF MuteInv, Reload
  <2>6. Kept'
    BY <1>31 DEF PushType, CardType, RestType, Kept, RecordInv, ServerInv, StrayInv, FormInv,
       PushInv, CardInv, SameKey, Carries, Reload
  <2>7. PushInv'
    BY <1>31 DEF PushType, CardType, RestType, PushInv, CardInv, SameKey, Carries, Reload
  <2>8. CardInv'
    BY <1>31 DEF CardType, RestType, CardInv, FormInv, Kept, SameKey, Reload
  <2>9. SlotInv'
    BY <1>31 DEF PushType, CardType, SlotInv, Reload
  <2>10. QED
    BY <2>1, <2>2, <2>3, <2>4, <2>5, <2>6, <2>7, <2>8, <2>9
<1>32. CASE Straggle
  <2>1. Flags'
    BY <1>32, Zenon DEF Flags, Straggle, Stored
  <2>2. PushType'
    BY <1>32 DEF PushType, RestType, Straggle, Stored
  <2>3. CardType'
    BY <1>32 DEF CardType, RestType, Straggle, Stored
  <2>4. RestType'
    <3>1. PICK request \in stray : /\ Stored(request) \/ UNCHANGED server
                                   /\ stray' \in {stray, stray \ {request}}
      BY <1>32 DEF Straggle
    <3>2. request \in [key : Key, phrase : Phrase]
      BY DEF RestType
    <3>3. ASSUME Stored(request) PROVE server' \in Blob
      BY <3>2, <3>3 DEF Stored, Blob
    <3>4. server' \in Blob \cup {None}
      BY <3>1, <3>3 DEF RestType
    <3>5. stray' \in SUBSET [key : Key, phrase : Phrase]
      BY <3>1 DEF RestType
    <3>6. QED
      BY <1>32, <3>4, <3>5 DEF RestType, Straggle
  <2>5. MuteInv'
    <3>1. Restoring' = Restoring
      BY <1>32 DEF CardType, Restoring, Straggle, Stored
    <3>2. QED
      BY <1>32, <3>1, MuteStays DEF Straggle, Stored
  <2>6. Kept'
    BY <1>32 DEF PushType, CardType, RestType, Kept, RecordInv, ServerInv, StrayInv, FormInv,
       PushInv, CardInv, SameKey, Carries, Straggle, Stored
  <2>7. PushInv'
    BY <1>32 DEF PushType, CardType, RestType, PushInv, CardInv, SameKey, Carries, Straggle, Stored
  <2>8. CardInv'
    BY <1>32 DEF CardType, RestType, CardInv, FormInv, Kept, SameKey, Straggle, Stored
  <2>9. SlotInv'
    BY <1>32 DEF PushType, CardType, SlotInv, Straggle, Stored
  <2>10. QED
    BY <2>1, <2>2, <2>3, <2>4, <2>5, <2>6, <2>7, <2>8, <2>9
<1>33. ASSUME NEW p \in Phrase, Elsewhere(p) PROVE KeyInv'
  <2>1. Flags'
    BY <1>33, Zenon DEF Flags, Elsewhere
  <2>2. PushType'
    BY <1>33 DEF PushType, RestType, Elsewhere
  <2>3. CardType'
    BY <1>33 DEF CardType, RestType, Elsewhere
  <2>4. RestType'
    BY <1>33 DEF PushType, CardType, RestType, PushInv, CardInv, Elsewhere
  <2>5. MuteInv'
    <3>1. Restoring' = Restoring
      BY <1>33 DEF CardType, Restoring, Elsewhere
    <3>2. QED
      BY <1>33, <3>1, MuteStays DEF Elsewhere
  <2>6. Kept'
    BY <1>33 DEF PushType, CardType, RestType, Kept, RecordInv, ServerInv, StrayInv, FormInv,
       PushInv, CardInv, SameKey, Carries, Elsewhere
  <2>7. PushInv'
    BY <1>33 DEF PushType, CardType, RestType, PushInv, CardInv, SameKey, Carries, Elsewhere
  <2>8. CardInv'
    BY <1>33 DEF CardType, RestType, CardInv, FormInv, Kept, SameKey, Elsewhere
  <2>9. SlotInv'
    BY <1>33 DEF PushType, CardType, SlotInv, Elsewhere
  <2>10. QED
    BY <2>1, <2>2, <2>3, <2>4, <2>5, <2>6, <2>7, <2>8, <2>9
<1>34. CASE UNCHANGED vars
  BY <1>34 DEF vars, Flags, PushType, CardType, RestType, MuteInv, Restoring, Kept, RecordInv,
     ServerInv, StrayInv, FormInv, PushInv, CardInv, SlotInv, SameKey, Carries
<1>35. QED
  BY <1>1, <1>2, <1>3, <1>4, <1>5, <1>6, <1>7, <1>8, <1>9, <1>10, <1>11, <1>12, <1>13, <1>14, <1>15,
     <1>16, <1>17, <1>18, <1>19, <1>20, <1>21, <1>22, <1>23, <1>24, <1>25, <1>26, <1>27, <1>28,
     <1>29, <1>30, <1>31, <1>32, <1>33, <1>34, Zenon DEF Next, Deposits, Asks, Proceeds

\* PhraseInv is preserved, KeyInv holding before and after.
LEMMA PhraseStep == KeyInv /\ KeyInv' /\ PhraseInv /\ [Next]_vars => PhraseInv'
<1> SUFFICES ASSUME KeyInv, KeyInv', PhraseInv, [Next]_vars, promised'.alone
             PROVE  /\ Aligned'
                    /\ (promised.done /\ server # None /\ server.own => Agreed(server))'
  BY DEF PhraseInv
<1> USE BackupAssumption DEF KeyInv, Typed, Idle, Answered, AtRest, Unpromised, Enabled, Slot, Key,
        BackupState, Blob, tab, settings, browser, history
<1> DEFINE Goal == Aligned' /\ (promised.done /\ server # None /\ server.own => Agreed(server))'
<1>1. ASSUME NEW s \in Slot, Build(s) PROVE Goal
  BY <1>1 DEF PushType, CardType, RestType, PushInv, SlotInv, PhraseInv, Aligned, Agreed, SameKey,
     Carries, Build
<1>2. ASSUME NEW s \in Slot, Break(s) PROVE Goal
  BY <1>2 DEF PushType, CardType, RestType, PushInv, SlotInv, PhraseInv, Aligned, Agreed, SameKey,
     Carries, Break
<1>3. ASSUME NEW s \in Slot, Land(s) PROVE Goal
  BY <1>3 DEF PushType, CardType, RestType, PushInv, SlotInv, PhraseInv, Aligned, Agreed, SameKey,
     Carries, Land, Stored
<1>4. ASSUME NEW s \in Slot, Refuse(s) PROVE Goal
  BY <1>4 DEF PushType, CardType, RestType, PushInv, SlotInv, PhraseInv, Aligned, Agreed, SameKey,
     Carries, Refuse, Stored
<1>5. ASSUME NEW s \in Slot, NoteRead(s) PROVE Goal
  BY <1>5 DEF PushType, CardType, RestType, PushInv, SlotInv, PhraseInv, Aligned, Agreed, SameKey,
     Carries, NoteRead
<1>6. ASSUME NEW s \in Slot, NotePut(s) PROVE Goal
  BY <1>6 DEF PushType, CardType, RestType, PushInv, SlotInv, PhraseInv, Aligned, Agreed, SameKey,
     Carries, NotePut, Put, Ends
<1>7. ASSUME Write PROVE Goal
  BY <1>7 DEF PushType, CardType, RestType, PushInv, SlotInv, PhraseInv, Aligned, Agreed, SameKey,
     Carries, Write
<1>8. ASSUME AgentOpens PROVE Goal
  BY <1>8 DEF PushType, CardType, RestType, PushInv, SlotInv, PhraseInv, Aligned, Agreed, SameKey,
     Carries, AgentOpens
<1>9. ASSUME AgentCloses PROVE Goal
  BY <1>9 DEF PushType, CardType, RestType, PushInv, SlotInv, PhraseInv, Aligned, Agreed, SameKey,
     Carries, AgentCloses
<1>10. ASSUME Fire PROVE Goal
  BY <1>10 DEF PushType, CardType, RestType, PushInv, SlotInv, PhraseInv, Aligned, Agreed, SameKey,
     Carries, Fire, Start
<1>11. ASSUME OpenForm PROVE Goal
  BY <1>11 DEF PushType, CardType, RestType, PushInv, SlotInv, PhraseInv, Aligned, Agreed, SameKey,
     Carries, OpenForm, Freed
<1>12. ASSUME CloseForm PROVE Goal
  BY <1>12 DEF PushType, CardType, RestType, PushInv, SlotInv, PhraseInv, Aligned, Agreed, SameKey,
     Carries, CloseForm
<1>13. ASSUME Leave PROVE Goal
  <2>1. PICK c \in Card : /\ card[c].at = "idle" /\ card[Shown].at # "idle"
                          /\ card' = [card EXCEPT ![c] = card[Shown], ![Shown] = AtRest]
                          /\ push' = [push EXCEPT ![c] = push[Shown], ![Shown] = Idle]
    BY <1>13 DEF Leave
  <2>2. \A d \in Card : card'[d] = AtRest \/ \E e \in Card : card'[d] = card[e]
    BY <2>1 DEF CardType
  <2>3. \A s \in Slot : push'[s] = Idle \/ \E e \in Slot : push'[s] = push[e]
    BY <2>1 DEF PushType
  <2>4. UNCHANGED <<record, stray, server, promised>>
    BY <1>13 DEF Leave
  <2>5. QED
    BY <2>2, <2>3, <2>4 DEF PhraseInv, Aligned, Agreed, Carries
<1>14. ASSUME NEW p \in Phrase, EnableRead(p) PROVE Goal
  BY <1>14 DEF PushType, CardType, RestType, PushInv, SlotInv, PhraseInv, Aligned, Agreed, SameKey,
     Carries, EnableRead, Takes
<1>15. ASSUME NEW p \in Phrase, ChangeRead(p) PROVE Goal
  BY <1>15 DEF PushType, CardType, RestType, PushInv, SlotInv, PhraseInv, Aligned, Agreed, SameKey,
     Carries, ChangeRead, Takes
<1>16. ASSUME DisableRead PROVE Goal
  BY <1>16 DEF PushType, CardType, RestType, PushInv, SlotInv, PhraseInv, Aligned, Agreed, SameKey,
     Carries, DisableRead, Freed, Takes
<1>17. ASSUME BackupNow PROVE Goal
  BY <1>17 DEF PushType, CardType, RestType, PushInv, SlotInv, PhraseInv, Aligned, Agreed, SameKey,
     Carries, BackupNow, Freed, Takes, Start
<1>18. ASSUME PullByKey PROVE Goal
  BY <1>18 DEF PushType, CardType, RestType, PushInv, SlotInv, PhraseInv, Aligned, Agreed, SameKey,
     Carries, PullByKey, Freed, Takes
<1>19. ASSUME PullByPhrase PROVE Goal
  BY <1>19 DEF PushType, CardType, RestType, PushInv, SlotInv, PhraseInv, Aligned, Agreed, SameKey,
     Carries, PullByPhrase, Takes
<1>20. ASSUME Delete PROVE Goal
  BY <1>20 DEF PushType, CardType, RestType, PushInv, SlotInv, PhraseInv, Aligned, Agreed, SameKey,
     Carries, Delete, Freed, Takes
<1>21. ASSUME NEW c \in Card, EnablePut(c) PROVE Goal
  BY <1>21 DEF EnablePut
<1>22. ASSUME NEW c \in Card, DisablePut(c) PROVE Goal
  <2>1. card[c].at = "disabling" /\ card' = [card EXCEPT ![c] = AtRest] /\ UNCHANGED <<push, stray, server, promised>>
    BY <1>22 DEF DisablePut, Ends
  <2>2. record'.phrase = card[c].seen.phrase /\ record' # None /\ card[c].seen # None
    BY <1>22 DEF CardType, CardInv, DisablePut, Put
  <2>3. QED
    BY <2>1, <2>2 DEF CardType, PhraseInv, Aligned, Agreed, Carries
<1>23. ASSUME NEW c \in Card, ChangePut(c) PROVE Goal
  <2>1. /\ promised' = [phrase |-> card[c].phrase, done |-> FALSE, alone |-> LastUnderWay(c)]
        /\ LastUnderWay(c)
    BY <1>23 DEF ChangePut
  <2>2. /\ record' # None /\ record'.phrase = card[c].phrase
        /\ card' = [card EXCEPT ![c].at = "changed"] /\ UNCHANGED <<push, stray>>
    BY <1>23 DEF CardType, CardInv, ChangePut, Put, Awaits
  <2>3. QED
    BY <2>1, <2>2 DEF PushType, CardType, LastUnderWay, Aligned, Agreed, Carries
<1>24. ASSUME NEW c \in Card, Deposit(c) PROVE Goal
  <2>1. CASE Enabled
    <3>1. /\ card[c].at = "changed" /\ card' = [card EXCEPT ![c].at = "depositing", ![c].seen = None]
          /\ push' = [push EXCEPT ![c] = [at |-> "building", key |-> record.key,
                                         phrase |-> record.phrase, seen |-> None]]
          /\ UNCHANGED <<record, stray, server, promised>>
      BY <1>24, <2>1, Zenon DEF Deposit, Start
    <3>2. \A d \in Card : /\ card'[d] = card[d] \/ card'[d].at = "depositing"
      BY <3>1 DEF CardType
    <3>3. \A s \in Slot : push'[s] = IF s = c THEN [at |-> "building", key |-> record.key,
                                                     phrase |-> record.phrase, seen |-> None]
                                     ELSE push[s]
      BY <3>1 DEF PushType
    <3>4. ASSUME Aligned PROVE Aligned'
      <4>1. record' # None /\ Agreed(record)' /\ \A request \in stray' : Agreed(request)'
        BY <3>1, <3>4 DEF Aligned, Agreed
      <4>2. ASSUME NEW s \in Slot
            PROVE /\ Carries(s)' => Agreed(push[s])'
                  /\ push'[s].at = "noting" => Agreed(push[s].seen)'
        BY <3>1, <3>3, <3>4, <4>2 DEF Aligned, Agreed, Carries
      <4>3. ASSUME NEW d \in Card, card'[d].at \in {"disabling", "clearing"}, card'[d].seen # None
            PROVE Agreed(card[d].seen)'
        BY <3>1, <3>2, <3>4, <4>3 DEF Aligned, Agreed
      <4>4. QED
        BY <4>1, <4>2, <4>3 DEF Aligned
    <3>5. QED
      BY <3>1, <3>4 DEF PhraseInv, Agreed
  <2>2. CASE ~Enabled
    <3>1. card' = [card EXCEPT ![c] = AtRest] /\ UNCHANGED <<record, push, stray, server, promised>>
      BY <1>24, <2>2, Zenon DEF Deposit, Ends
    <3>2. QED
      BY <3>1 DEF CardType, PhraseInv, Aligned, Agreed, Carries
  <2>3. QED
    BY <2>1, <2>2
<1>25. ASSUME NEW c \in Card, Open(c) PROVE Goal
  BY <1>25 DEF PushType, CardType, RestType, PushInv, SlotInv, PhraseInv, Aligned, Agreed, SameKey,
     Carries, Open, Awaits
<1>26. ASSUME NEW c \in Card, Restore(c) PROVE Goal
  BY <1>26 DEF PushType, CardType, RestType, PushInv, SlotInv, PhraseInv, Aligned, Agreed, SameKey,
     Carries, Restore, Awaits, Ends
<1>27. ASSUME NEW c \in Card, Adopt(c) PROVE Goal
  BY <1>27 DEF Adopt
<1>28. ASSUME NEW c \in Card, ClearRead(c) PROVE Goal
  BY <1>28 DEF PushType, CardType, RestType, PushInv, SlotInv, PhraseInv, Aligned, Agreed, SameKey,
     Carries, ClearRead
<1>29. ASSUME NEW c \in Card, ClearPut(c) PROVE Goal
  BY <1>29 DEF PushType, CardType, RestType, PushInv, SlotInv, PhraseInv, Aligned, Agreed, SameKey,
     Carries, ClearPut, Put, Ends
<1>30. ASSUME NEW c \in Card, Fails(c) PROVE Goal
  BY <1>30 DEF PushType, CardType, RestType, PushInv, SlotInv, PhraseInv, Aligned, Agreed, SameKey,
     Carries, Fails
<1>31. ASSUME Reload PROVE Goal
  BY <1>31 DEF PushType, CardType, RestType, PushInv, SlotInv, PhraseInv, Aligned, Agreed, SameKey,
     Carries, Reload
<1>32. ASSUME Straggle PROVE Goal
  BY <1>32 DEF PushType, CardType, RestType, PushInv, SlotInv, PhraseInv, Aligned, Agreed, SameKey,
     Carries, Straggle, Stored
<1>33. ASSUME NEW p \in Phrase, Elsewhere(p) PROVE Goal
  BY <1>33 DEF PushType, CardType, RestType, PushInv, SlotInv, PhraseInv, Aligned, Agreed, SameKey,
     Carries, Elsewhere
<1>34. ASSUME UNCHANGED vars PROVE Goal
  BY <1>34 DEF vars, PhraseInv, Aligned, Agreed, Carries
<1>35. QED
  BY <1>1, <1>2, <1>3, <1>4, <1>5, <1>6, <1>7, <1>8, <1>9, <1>10, <1>11, <1>12, <1>13, <1>14, <1>15,
     <1>16, <1>17, <1>18, <1>19, <1>20, <1>21, <1>22, <1>23, <1>24, <1>25, <1>26, <1>27, <1>28,
     <1>29, <1>30, <1>31, <1>32, <1>33, <1>34, Zenon DEF Next, Deposits, Asks, Proceeds

-----------------------------------------------------------------------------
\* KeyInv and PhraseInv hold of every behaviour.
LEMMA BackupInvariant == Spec => [](KeyInv /\ PhraseInv)
<1>1. Init => KeyInv /\ PhraseInv
  <2>1. Init => PhraseInv
    BY DEF Init, PhraseInv, Unpromised
  <2>2. QED
    BY KeyInit, <2>1
<1>2. KeyInv /\ PhraseInv /\ [Next]_vars => (KeyInv /\ PhraseInv)'
  BY KeyStep, PhraseStep
<1>3. QED
  BY <1>1, <1>2, PTL DEF Spec

\* The variables keep their types, and the mute counter never goes below zero.
THEOREM BackupTypeSafe == Spec => []TypeOK
<1>1. KeyInv => TypeOK
  BY DEF KeyInv, Flags, Typed, PushType, CardType, RestType, TypeOK
<1>2. QED
  BY <1>1, BackupInvariant, PTL

\* A blob this browser deposited, is depositing or may still deposit for a closed tab opens
\* with the key it holds, however the handlers of the card overlap, unless two of them
\* found no record and the second put its own over the first's.
THEOREM OwnBlobOpensSafe == Spec => []OwnBlobOpens
<1>1. KeyInv => OwnBlobOpens
  BY DEF KeyInv, Kept, ServerInv, StrayInv, PushInv, SameKey, Carries, OwnBlobOpens
<1>2. QED
  BY <1>1, BackupInvariant, PTL

\* No deposit and no key without the user's consent or a restore that succeeded.
THEOREM ArmedByConsentSafe == Spec => []ArmedByConsentOnly
<1>1. KeyInv => ArmedByConsentOnly
  BY DEF KeyInv, Kept, RecordInv, StrayInv, PushInv, SameKey, ArmedByConsentOnly
<1>2. QED
  BY <1>1, BackupInvariant, PTL

\* A change of passphrase reported done, nothing else being under way when the envelope was
\* rewritten, is undone by no deposit, handler or closed tab of this browser.
THEOREM LoneChangeSafe == Spec => []LoneChangeHolds
<1>1. PhraseInv => LoneChangeHolds
  BY DEF PhraseInv, Agreed, LoneChangeHolds
<1>2. QED
  BY <1>1, BackupInvariant, PTL

(***************************************************************************)
(* AccountIsTold is about a tab at rest.  SessionInv, FactorInv and        *)
(* CodesInv say what the calls still under way may bring: of the session,  *)
(* one call at a time, and an answer is about the session there is; of the *)
(* second factor, a form that can still turn it was sent by a card that    *)
(* tells the truth, and a read under way means a card that does not tell   *)
(* the change; of the codes, never a read beside a form.                   *)
(***************************************************************************)
Form == {"activate", "deactivate"}
Kind == {"none", "lost", "refused", "ok", "absent", "misrouted", "pending"}
Caller == SessionCallers \cup {"factor", "factorForm", "codes", "codesForm"}
Request == Reads \cup Form \cup {"login", "second", "accept", "logout", "generate"}
Call == [by : Caller, asks : Request, visit : Nat, answer : [kind : Kind, set : Nat]]

\* Who asks what, and for which showing of the cards.
WellAsked(c) ==
    /\ c.by = "logout" <=> c.asks = "logout"
    /\ c.by \in SessionCallers <=> c.asks \in {"login", "session", "refresh", "second", "accept", "logout"}
    /\ c.by = "factor" <=> c.asks = "totp"
    /\ c.by = "factorForm" <=> c.asks \in Form
    /\ c.by = "codes" <=> c.asks = "codes"
    /\ c.by = "codesForm" <=> c.asks = "generate"
    /\ c.visit <= visit

TabInv ==
    /\ factorOn \in BOOLEAN /\ codeSet \in Nat /\ visit \in Nat /\ onSettings \in BOOLEAN
    /\ factorCard \in [told : {"loading", "on", "off", "unreachable"}, error : BOOLEAN]
    /\ codesCard \in [told : {"loading", "generated", "never", "unreachable"}, set : Nat, error : BOOLEAN]
    /\ \A c \in calls : c \in Call /\ WellAsked(c)

SessionInv ==
    "session" \notin excused =>
        /\ \A c, d \in calls : c.by \in SessionCallers /\ d.by \in SessionCallers => c = d
        /\ \A c \in calls : c.asks \in {"session", "refresh"} /\ c.answer.kind = "ok" => cookie = "user"
        /\ signed = "authenticated" /\ cookie # "user" => \E c \in calls : c.by = "logout"

FactorRead(c) == c.by = "factor" /\ c.visit = visit
TellsTruth == factorCard.told = (IF factorOn THEN "on" ELSE "off")
TellsOpposite == factorCard.told = (IF factorOn THEN "off" ELSE "on")

FactorFormOK(c) ==
    /\ c.visit = visit /\ \A d \in calls : d.by = "factorForm" => d = c
    /\ c.answer = Unanswered /\ (factorOn <=> c.asks = "deactivate") =>
           TellsTruth /\ \A d \in calls : ~FactorRead(d)
    /\ c.answer.kind = "ok" => TellsOpposite /\ \A d \in calls : ~FactorRead(d)

FactorReadOK(c) ==
    /\ \A d \in calls : FactorRead(d) => d = c
    /\ c.answer.kind = "ok" => factorOn
    /\ c.answer.kind = "absent" => ~factorOn
    /\ ~TellsTruth

FactorInv ==
    HasCards /\ "factor" \notin excused =>
        \A c \in calls : (c.by = "factorForm" => FactorFormOK(c)) /\ (FactorRead(c) => FactorReadOK(c))

CodesInv ==
    HasCards /\ "codes" \notin excused =>
        \A c \in calls :
            /\ c.by = "codesForm" =>
                  /\ c.visit = visit /\ c.answer.set \in {0, codeSet}
                  /\ \A d \in calls : d.by # "codes" /\ (d.by = "codesForm" => d = c)
            /\ c.by = "codes" /\ c.visit = visit => c.answer.set \in {0, codeSet}

AccountInv == TabInv /\ SessionInv /\ FactorInv /\ CodesInv /\ FactorIsTold /\ CodesShownWork

-----------------------------------------------------------------------------
(* A call that is answered, or lost, stays the same call.                  *)

Reply(c, kind, set) == [c EXCEPT !.answer = [kind |-> kind, set |-> set]]

LEMMA AskedIsACall ==
    \A by \in Caller, asks \in Request, shown \in Nat :
        /\ Asked(by, asks, shown) \in Call
        /\ Asked(by, asks, shown).by = by /\ Asked(by, asks, shown).asks = asks
        /\ Asked(by, asks, shown).visit = shown
        /\ Asked(by, asks, shown).answer = Unanswered
        /\ Asked(by, asks, shown).answer.kind = "none" /\ Asked(by, asks, shown).answer.set = 0
BY DEF Asked, Call, Unanswered, Kind

\* What the server says to a call, and what it changes by it.
LEMMA ServedReply ==
    ASSUME AccountInv, NEW c \in calls, Serves(c)
    PROVE  \E kind \in Kind, set \in Nat :
             /\ calls' = (calls \ {c}) \cup {Reply(c, kind, set)}
             /\ UNCHANGED <<signed, loginForm, accountCards, excused, gestures>>
             /\ factorOn' \in BOOLEAN /\ codeSet' \in Nat
             /\ c.asks \in Reads => UNCHANGED accountServer
             /\ c.asks \in {"session", "refresh"} /\ kind = "ok" => cookie = "user"
             /\ c.asks \in {"second", "accept", "login"} => cookie' = "user" \/ cookie' = cookie \/ cookie # "user"
             /\ c.asks \notin {"second", "accept", "login", "logout"} => cookie' = cookie
             /\ c.asks = "totp" => (kind = "ok" => factorOn) /\ (kind = "absent" => ~factorOn)
             /\ c.asks \notin Form => factorOn' = factorOn
             /\ c.asks \in Form /\ factorOn' # factorOn => kind = "ok"
             /\ c.asks \in Form /\ kind = "ok" => (factorOn <=> c.asks = "deactivate") /\ factorOn' = ~factorOn
             /\ c.asks = "codes" => set \in {0, codeSet}
             /\ c.asks # "generate" => codeSet' = codeSet
             /\ c.asks = "generate" => set \in {0, codeSet'}
<1>1. factorOn \in BOOLEAN /\ codeSet \in Nat
  BY DEF AccountInv, TabInv
<1>2. CASE ServesRead(c)
  BY <1>1, <1>2 DEF Serves, ServesRead, Replies, Reply, Kind, Reads, Form, accountServer
<1>3. CASE ServesWrite(c)
  <2>1. ASSUME c.asks = "login", cookie # "user", UNCHANGED <<factorOn, codeSet>>,
               Replies(c, IF factorOn THEN "pending" ELSE "ok", 0)
        PROVE  \E kind \in {"pending", "ok"} : calls' = (calls \ {c}) \cup {Reply(c, kind, 0)}
    BY <2>1 DEF Replies, Reply
  <2>2. CASE c.asks = "login"
    BY <1>1, <1>3, <2>1, <2>2 DEF Serves, ServesWrite, Replies, Reply, Kind, Reads, Form, accountServer
  <2>3. CASE c.asks \in {"second", "accept", "logout"}
    BY <1>1, <1>3, <2>3 DEF Serves, ServesWrite, Replies, Reply, Kind, Reads, Form, accountServer
  <2>4. CASE c.asks \in Form
    BY <1>1, <1>3, <2>4 DEF Serves, ServesWrite, Replies, Reply, Kind, Reads, Form, accountServer
  <2>5. CASE c.asks = "generate"
    BY <1>1, <1>3, <2>5 DEF Serves, ServesWrite, Replies, Reply, Kind, Reads, Form, accountServer
  <2>6. CASE c.asks \notin {"login", "second", "accept", "logout", "generate"} \cup Form
    BY <1>1, <1>3, <2>6 DEF Serves, ServesWrite, Replies, Reply, Kind, Reads, Form, accountServer
  <2>. QED  BY <2>2, <2>3, <2>4, <2>5, <2>6
<1>. QED  BY <1>2, <1>3 DEF Serves

LEMMA TabReply ==
    ASSUME TabInv, NEW c \in calls, NEW kind \in Kind, NEW set \in Nat,
           calls' = (calls \ {c}) \cup {Reply(c, kind, set)},
           UNCHANGED <<accountCards>>, factorOn' \in BOOLEAN, codeSet' \in Nat
    PROVE  TabInv'
<1>1. c \in Call /\ WellAsked(c)
  BY DEF TabInv
<1>2. Reply(c, kind, set) \in Call /\ WellAsked(Reply(c, kind, set))
  <2>1. /\ Reply(c, kind, set) \in Call
        /\ Reply(c, kind, set).by = c.by /\ Reply(c, kind, set).asks = c.asks
        /\ Reply(c, kind, set).visit = c.visit
    BY <1>1 DEF Reply, Call
  <2>. QED  BY <1>1, <2>1 DEF WellAsked
<1>. QED  BY <1>2 DEF TabInv, WellAsked, accountCards

\* An answer of the server, or its loss, leaves the calls under way about what there is.
LEMMA ServesKeeps == ASSUME AccountInv, NEW c \in calls, Serves(c) PROVE AccountInv'
<1>1. PICK kind \in Kind, set \in Nat :
             /\ calls' = (calls \ {c}) \cup {Reply(c, kind, set)}
             /\ UNCHANGED <<signed, loginForm, accountCards, excused, gestures>>
             /\ factorOn' \in BOOLEAN /\ codeSet' \in Nat
             /\ c.asks \in Reads => UNCHANGED accountServer
             /\ c.asks \in {"session", "refresh"} /\ kind = "ok" => cookie = "user"
             /\ c.asks \in {"second", "accept", "login"} => cookie' = "user" \/ cookie' = cookie \/ cookie # "user"
             /\ c.asks \notin {"second", "accept", "login", "logout"} => cookie' = cookie
             /\ c.asks = "totp" => (kind = "ok" => factorOn) /\ (kind = "absent" => ~factorOn)
             /\ c.asks \notin Form => factorOn' = factorOn
             /\ c.asks \in Form /\ factorOn' # factorOn => kind = "ok"
             /\ c.asks \in Form /\ kind = "ok" => (factorOn <=> c.asks = "deactivate") /\ factorOn' = ~factorOn
             /\ c.asks = "codes" => set \in {0, codeSet}
             /\ c.asks # "generate" => codeSet' = codeSet
             /\ c.asks = "generate" => set \in {0, codeSet'}
  BY ServedReply
<1>. DEFINE e == Reply(c, kind, set)
<1>2. /\ c \in Call /\ WellAsked(c) /\ e \in Call
      /\ e.by = c.by /\ e.asks = c.asks /\ e.visit = c.visit
      /\ e.answer.kind = kind /\ e.answer.set = set
  <2>1. c \in Call /\ WellAsked(c)
    BY DEF AccountInv, TabInv
  <2>. QED  BY <2>1 DEF Reply, Call
<1>3. calls' = (calls \ {c}) \cup {e}
  BY <1>1
<1>4. UNCHANGED <<signed, onSettings, visit, factorCard, codesCard, excused>> /\ HasCards' = HasCards
  BY <1>1 DEF accountCards, HasCards
<1>5. c.answer = Unanswered /\ c.answer.kind = "none" /\ c.answer.set = 0
  BY DEF Serves, Unanswered
<1>. HIDE DEF e
<1>6. TabInv'
  BY <1>1, TabReply DEF AccountInv
<1>7. SessionInv'
  <2>. SUFFICES ASSUME "session" \notin excused
       PROVE  /\ \A d, f \in calls' : d.by \in SessionCallers /\ f.by \in SessionCallers => d = f
              /\ \A d \in calls' : d.asks \in {"session", "refresh"} /\ d.answer.kind = "ok" => cookie' = "user"
              /\ signed' = "authenticated" /\ cookie' # "user" => \E d \in calls' : d.by = "logout"
    BY <1>4 DEF SessionInv
  <2>1. /\ \A d, f \in calls : d.by \in SessionCallers /\ f.by \in SessionCallers => d = f
        /\ \A d \in calls : d.asks \in {"session", "refresh"} /\ d.answer.kind = "ok" => cookie = "user"
        /\ signed = "authenticated" /\ cookie # "user" => \E d \in calls : d.by = "logout"
        /\ \A d \in calls : WellAsked(d)
    BY DEF AccountInv, SessionInv, TabInv
  <2>2. \A d, f \in calls' : d.by \in SessionCallers /\ f.by \in SessionCallers => d = f
    BY <1>2, <1>3, <2>1
  <2>3. c.by \in SessionCallers \/ cookie' = cookie
    BY <1>1, <1>2 DEF WellAsked
  <2>4. ASSUME NEW d \in calls', d.asks \in {"session", "refresh"}, d.answer.kind = "ok" PROVE cookie' = "user"
    <3>1. CASE d = e
      BY <1>1, <1>2, <2>4, <3>1 DEF Reads, accountServer
    <3>2. CASE d \in calls /\ d # c
      <4>1. d.by \in SessionCallers
        BY <2>1, <2>4, <3>2 DEF WellAsked
      <4>. QED  BY <2>1, <2>3, <2>4, <3>2, <4>1
    <3>. QED  BY <1>3, <3>1, <3>2
  <2>5. ASSUME signed' = "authenticated", cookie' # "user" PROVE \E d \in calls' : d.by = "logout"
    <3>1. CASE cookie # "user"
      BY <1>2, <1>3, <1>4, <2>1, <2>5, <3>1
    <3>2. CASE cookie = "user"
      <4>1. c.by = "logout"
        BY <1>1, <1>2, <2>5, <3>2 DEF WellAsked
      <4>. QED  BY <1>2, <1>3, <4>1
    <3>. QED  BY <3>1, <3>2
  <2>. QED  BY <2>2, <2>4, <2>5
<1>8. FactorInv' /\ FactorIsTold'
  <2>. SUFFICES ASSUME HasCards, "factor" \notin excused
       PROVE  /\ \A d \in calls' : (d.by = "factorForm" => FactorFormOK(d)') /\ (FactorRead(d)' => FactorReadOK(d)')
              /\ FactorIsTold'
    BY <1>4 DEF FactorInv, FactorIsTold
  <2>1. \A d \in calls : (d.by = "factorForm" => FactorFormOK(d)) /\ (FactorRead(d) => FactorReadOK(d))
    BY DEF AccountInv, FactorInv
  <2>2. \A d : FactorRead(d)' <=> FactorRead(d)
    BY <1>4 DEF FactorRead
  <2>3. FactorRead(e) <=> FactorRead(c)
    BY <1>2 DEF FactorRead
  <2>4. c.by = "factorForm" \/ factorOn' = factorOn
    BY <1>1, <1>2 DEF WellAsked
  <2>5. factorOn \in BOOLEAN /\ factorCard.told \in {"loading", "on", "off", "unreachable"}
    BY DEF AccountInv, TabInv
  <2>6. CASE c.by = "factorForm"
    <3>1. FactorFormOK(c) /\ \A d \in calls' : d.by = "factorForm" => d = e
      BY <1>3, <2>1, <2>6 DEF FactorFormOK
    <3>2. e.visit = visit
      BY <1>2, <3>1 DEF FactorFormOK
    <3>3. c.asks \in Form
      BY <1>2, <2>6 DEF WellAsked
    <3>4. CASE kind = "ok"
      <4>1. TellsTruth /\ (\A d \in calls : ~FactorRead(d)) /\ factorOn' = ~factorOn
        BY <1>1, <1>5, <3>1, <3>3, <3>4 DEF FactorFormOK
      <4>2. TellsOpposite' /\ \A d \in calls' : ~FactorRead(d)'
        BY <1>2, <1>3, <1>4, <2>2, <2>3, <2>5, <2>6, <4>1 DEF TellsTruth, TellsOpposite, FactorRead
      <4>3. e.answer # Unanswered
        BY <1>2, <3>4 DEF Unanswered
      <4>4. FactorFormOK(e)'
        BY <1>4, <3>1, <3>2, <4>2, <4>3 DEF FactorFormOK
      <4>5. FactorIsTold'
        BY <1>2, <1>3, <1>4, <2>6, <3>2 DEF FactorIsTold, QuietFor, UnderWay
      <4>. QED  BY <3>1, <4>2, <4>4, <4>5
    <3>5. CASE kind # "ok"
      <4>1. factorOn' = factorOn
        BY <1>1, <3>3, <3>5
      <4>2. FactorFormOK(e)'
        BY <1>2, <1>3, <1>4, <1>5, <2>2, <2>3, <3>1, <3>2, <3>5, <4>1 DEF FactorFormOK, TellsTruth
      <4>3. ASSUME NEW d \in calls', FactorRead(d) PROVE FactorReadOK(d)'
        <5>1. d \in calls /\ d # e /\ FactorReadOK(d)
          BY <1>2, <1>3, <2>1, <2>6, <4>3 DEF FactorRead
        <5>. QED  BY <1>3, <1>4, <2>2, <2>3, <2>6, <4>1, <5>1 DEF FactorReadOK, TellsTruth, FactorRead
      <4>4. FactorIsTold'
        BY <1>2, <1>3, <1>4, <2>6, <3>2 DEF FactorIsTold, QuietFor, UnderWay
      <4>. QED  BY <2>2, <3>1, <4>2, <4>3, <4>4
    <3>. QED  BY <3>4, <3>5
  <2>7. CASE c.by # "factorForm"
    <3>1. factorOn' = factorOn
      BY <2>4, <2>7
    <3>2. ASSUME NEW d \in calls', d.by = "factorForm" PROVE FactorFormOK(d)'
      <4>1. d \in calls /\ FactorFormOK(d)
        BY <1>2, <1>3, <2>1, <2>7, <3>2
      <4>. QED  BY <1>2, <1>3, <1>4, <2>2, <2>3, <2>7, <3>1, <4>1 DEF FactorFormOK, TellsTruth, TellsOpposite
    <3>3. ASSUME NEW d \in calls', FactorRead(d) PROVE FactorReadOK(d)'
      <4>1. CASE d = e
        <5>1. FactorRead(c) /\ FactorReadOK(c) /\ c.asks = "totp"
          BY <1>2, <2>1, <2>3, <3>3, <4>1 DEF FactorRead, WellAsked
        <5>. QED  BY <1>1, <1>2, <1>3, <1>4, <2>2, <3>1, <4>1, <5>1 DEF FactorReadOK, TellsTruth
      <4>2. CASE d \in calls /\ d # c
        <5>1. FactorReadOK(d) /\ ~FactorRead(c)
          BY <2>1, <3>3, <4>2 DEF FactorReadOK
        <5>. QED  BY <1>3, <1>4, <2>2, <2>3, <3>1, <4>2, <5>1 DEF FactorReadOK, TellsTruth
      <4>. QED  BY <1>3, <4>1, <4>2
    <3>4. FactorIsTold'
      <4>1. QuietFor({"factor", "factorForm"})' => QuietFor({"factor", "factorForm"})
        BY <1>2, <1>3, <1>4 DEF QuietFor, UnderWay
      <4>. QED  BY <1>4, <3>1, <4>1 DEF FactorIsTold, AccountInv
    <3>. QED  BY <2>2, <3>2, <3>3, <3>4
  <2>. QED  BY <2>6, <2>7
<1>9. CodesInv' /\ CodesShownWork'
  <2>. SUFFICES ASSUME HasCards, "codes" \notin excused
       PROVE  /\ \A d \in calls' :
                   /\ d.by = "codesForm" =>
                        /\ d.visit = visit /\ d.answer.set \in {0, codeSet'}
                        /\ \A f \in calls' : f.by # "codes" /\ (f.by = "codesForm" => f = d)
                   /\ d.by = "codes" /\ d.visit = visit => d.answer.set \in {0, codeSet'}
              /\ CodesShownWork'
    BY <1>4 DEF CodesInv, CodesShownWork
  <2>1. \A d \in calls :
           /\ d.by = "codesForm" =>
                /\ d.visit = visit /\ d.answer.set \in {0, codeSet}
                /\ \A f \in calls : f.by # "codes" /\ (f.by = "codesForm" => f = d)
           /\ d.by = "codes" /\ d.visit = visit => d.answer.set \in {0, codeSet}
    BY DEF AccountInv, CodesInv
  <2>2. c.by = "codesForm" \/ codeSet' = codeSet
    BY <1>1, <1>2 DEF WellAsked
  <2>3. c.by = "codes" => set \in {0, codeSet}
    BY <1>1, <1>2 DEF WellAsked
  <2>4. CASE c.by = "codesForm"
    <3>1. set \in {0, codeSet'}
      BY <1>1, <1>2, <2>4 DEF WellAsked
    <3>2. CodesShownWork'
      BY <1>2, <1>3, <1>4, <2>1, <2>4 DEF CodesShownWork, QuietFor, UnderWay
    <3>. QED  BY <1>2, <1>3, <2>1, <2>4, <3>1, <3>2
  <2>5. CASE c.by # "codesForm"
    <3>1. codeSet' = codeSet
      BY <2>2, <2>5
    <3>2. QuietFor({"codes", "codesForm"})' => QuietFor({"codes", "codesForm"})
      BY <1>2, <1>3, <1>4 DEF QuietFor, UnderWay
    <3>3. CodesShownWork'
      BY <1>4, <3>1, <3>2 DEF CodesShownWork, AccountInv
    <3>. QED  BY <1>2, <1>3, <2>1, <2>3, <2>5, <3>1, <3>3
  <2>. QED  BY <2>4, <2>5
<1>. QED  BY <1>6, <1>7, <1>8, <1>9 DEF AccountInv

\* A loss is neither a success nor an absence.
LEMMA LosesKeeps == ASSUME AccountInv, NEW c \in calls, Loses(c) PROVE AccountInv'
<1>1. PICK kind \in {"lost", "misrouted"} : calls' = (calls \ {c}) \cup {Reply(c, kind, 0)}
  BY DEF Loses, Replies, Reply
<1>. DEFINE e == Reply(c, kind, 0)
<1>2. /\ c \in Call /\ WellAsked(c) /\ e \in Call
      /\ e.by = c.by /\ e.asks = c.asks /\ e.visit = c.visit
      /\ e.answer.kind = kind /\ e.answer.set = 0 /\ e.answer # Unanswered
  <2>1. c \in Call /\ WellAsked(c)
    BY DEF AccountInv, TabInv
  <2>. QED  BY <2>1 DEF Reply, Call, Kind, Unanswered
<1>3. calls' = (calls \ {c}) \cup {e} /\ kind \in Kind
  BY <1>1 DEF Kind
<1>4. UNCHANGED <<accountServer, signed, accountCards, excused>> /\ HasCards' = HasCards
  BY DEF Loses, accountCards, HasCards
<1>5. UNCHANGED <<cookie, factorOn, codeSet, onSettings, visit, factorCard, codesCard>>
  BY <1>4 DEF accountServer, accountCards
<1>6. TabInv'
  BY <1>1, <1>3, <1>4, <1>5, TabReply DEF AccountInv, TabInv
<1>. HIDE DEF e
<1>7. SessionInv'
  BY <1>1, <1>2, <1>3, <1>4, <1>5 DEF AccountInv, SessionInv
<1>8. FactorInv'
  <2>. SUFFICES ASSUME HasCards, "factor" \notin excused, NEW d \in calls'
       PROVE  (d.by = "factorForm" => FactorFormOK(d)') /\ (FactorRead(d)' => FactorReadOK(d)')
    BY <1>4 DEF FactorInv
  <2>1. \A f \in calls : (f.by = "factorForm" => FactorFormOK(f)) /\ (FactorRead(f) => FactorReadOK(f))
    BY DEF AccountInv, FactorInv
  <2>2. (FactorRead(e)' <=> FactorRead(c)) /\ \A f : FactorRead(f)' <=> FactorRead(f)
    BY <1>2, <1>5 DEF FactorRead
  <2>3. TellsTruth' = TellsTruth /\ TellsOpposite' = TellsOpposite
    BY <1>5 DEF TellsTruth, TellsOpposite
  <2>4. ASSUME d.by = "factorForm" PROVE FactorFormOK(d)'
    BY <1>1, <1>2, <1>3, <1>5, <2>1, <2>2, <2>3, <2>4 DEF FactorFormOK
  <2>5. ASSUME FactorRead(d)' PROVE FactorReadOK(d)'
    BY <1>1, <1>2, <1>3, <1>5, <2>1, <2>2, <2>3, <2>5 DEF FactorReadOK
  <2>. QED  BY <2>4, <2>5
<1>9. CodesInv'
  BY <1>2, <1>3, <1>4, <1>5 DEF AccountInv, CodesInv
<1>10. FactorIsTold' /\ CodesShownWork'
  <2>1. \A callers : QuietFor(callers)' => QuietFor(callers)
    BY <1>2, <1>3, <1>5 DEF QuietFor, UnderWay
  <2>. QED  BY <1>4, <1>5, <2>1 DEF FactorIsTold, CodesShownWork, AccountInv
<1>. QED  BY <1>6, <1>7, <1>8, <1>9, <1>10 DEF AccountInv

-----------------------------------------------------------------------------
(* What leaves the session, or the cards, as they are.                     *)

LEMMA CallsTyped ==
    ASSUME TabInv, visit' \in Nat, visit <= visit',
           \A c \in calls' : c \in calls \/ (c \in Call /\ WellAsked(c)')
    PROVE  \A c \in calls' : c \in Call /\ WellAsked(c)'
BY DEF TabInv, WellAsked, Call

LEMMA SessionUntouched ==
    ASSUME AccountInv, TabInv', UNCHANGED <<cookie, signed>>, excused \subseteq excused',
           \A c : c.by \in SessionCallers => (c \in calls' <=> c \in calls)
    PROVE  SessionInv'
<1>. SUFFICES ASSUME "session" \notin excused' PROVE SessionInv'
  BY DEF SessionInv
<1>1. /\ \A c, d \in calls : c.by \in SessionCallers /\ d.by \in SessionCallers => c = d
      /\ \A c \in calls : c.asks \in {"session", "refresh"} /\ c.answer.kind = "ok" => cookie = "user"
      /\ signed = "authenticated" /\ cookie # "user" => \E c \in calls : c.by = "logout"
  BY DEF AccountInv, SessionInv
<1>2. \A c \in calls' : c.asks \in {"session", "refresh"} => c.by \in SessionCallers
  BY DEF TabInv, WellAsked
<1>3. "logout" \in SessionCallers
  BY DEF SessionCallers
<1>. QED  BY <1>1, <1>2, <1>3 DEF SessionInv

\* The cards that stay, and their calls, know nothing of the rest.
LEMMA CardsUntouched ==
    ASSUME AccountInv, UNCHANGED <<factorOn, codeSet, visit>>, HasCards' => HasCards,
           HasCards' => UNCHANGED <<factorCard, codesCard>>, excused \subseteq excused',
           \A c : c.by \notin SessionCallers => (c \in calls' <=> c \in calls)
    PROVE  FactorInv' /\ FactorIsTold' /\ CodesInv' /\ CodesShownWork'
<1>. SUFFICES ASSUME HasCards' PROVE FactorInv' /\ FactorIsTold' /\ CodesInv' /\ CodesShownWork'
  BY DEF FactorInv, FactorIsTold, CodesInv, CodesShownWork
<1>1. HasCards /\ UNCHANGED <<factorCard, codesCard>> /\ "factorForm" \notin SessionCallers
      /\ "factor" \notin SessionCallers /\ "codes" \notin SessionCallers /\ "codesForm" \notin SessionCallers
  BY DEF SessionCallers
<1>2. \A c : FactorRead(c)' <=> FactorRead(c)
  BY DEF FactorRead
<1>3. TellsTruth' = TellsTruth /\ TellsOpposite' = TellsOpposite
  BY <1>1 DEF TellsTruth, TellsOpposite
<1>4. ASSUME "factor" \notin excused', NEW c \in calls'
      PROVE  (c.by = "factorForm" => FactorFormOK(c)') /\ (FactorRead(c)' => FactorReadOK(c)')
  <2>1. \A f \in calls : (f.by = "factorForm" => FactorFormOK(f)) /\ (FactorRead(f) => FactorReadOK(f))
    BY <1>1, <1>4 DEF AccountInv, FactorInv
  <2>2. \A f \in calls' : FactorRead(f) \/ f.by = "factorForm" => f \in calls
    BY <1>1 DEF FactorRead
  <2>3. c.by = "factorForm" => FactorFormOK(c)'
    BY <1>2, <1>3, <1>4, <2>1, <2>2 DEF FactorFormOK
  <2>4. FactorRead(c)' => FactorReadOK(c)'
    BY <1>2, <1>3, <1>4, <2>1, <2>2 DEF FactorReadOK
  <2>. QED  BY <2>3, <2>4
<1>5. FactorInv'
  BY <1>4 DEF FactorInv
<1>6. CodesInv'
  BY <1>1 DEF CodesInv, AccountInv
<1>7. QuietFor({"factor", "factorForm"})' => QuietFor({"factor", "factorForm"})
  BY <1>1 DEF QuietFor, UnderWay
<1>8. QuietFor({"codes", "codesForm"})' => QuietFor({"codes", "codesForm"})
  BY <1>1 DEF QuietFor, UnderWay
<1>. QED  BY <1>1, <1>5, <1>6, <1>7, <1>8 DEF FactorIsTold, CodesShownWork, AccountInv

\* Cards that are shown anew have asked, and know of no form left under way.
LEMMA MountKeepsCards ==
    ASSUME AccountInv, UNCHANGED <<factorOn, codeSet>>, visit' = visit + 1, NEW rest \in SUBSET calls,
           \A c \in calls : c.by \notin SessionCallers => c \in rest,
           calls' = rest \cup {Asked("factor", "totp", visit + 1), Asked("codes", "codes", visit + 1)},
           excused' = AtMount, factorCard' = BlankFactor, codesCard' = BlankCodes
    PROVE  FactorInv' /\ FactorIsTold' /\ CodesInv' /\ CodesShownWork'
<1>. DEFINE r == Asked("factor", "totp", visit + 1)
            k == Asked("codes", "codes", visit + 1)
<1>1. /\ r.by = "factor" /\ r.visit = visit' /\ r.answer.kind = "none" /\ r.answer.set = 0
      /\ k.by = "codes" /\ k.visit = visit' /\ k.answer.kind = "none" /\ k.answer.set = 0
  BY DEF Asked, Unanswered
<1>2. calls' = rest \cup {r, k} /\ r \in calls' /\ k \in calls'
  OBVIOUS
<1>. HIDE DEF r, k
<1>3. \A c \in rest : c.visit # visit'
  <2>1. \A c \in calls : c.visit \in Nat /\ c.visit <= visit /\ visit \in Nat
    BY DEF AccountInv, TabInv, WellAsked, Call
  <2>. QED  BY <2>1
<1>4. "factor" \notin excused' => \A c \in rest : c.by # "factorForm"
  BY DEF AtMount, UnderWay
<1>5. "codes" \notin excused' => \A c \in rest : c.by # "codesForm"
  BY DEF AtMount, UnderWay
<1>6. ~TellsTruth'
  BY DEF TellsTruth, BlankFactor
<1>7. FactorInv'
  BY <1>1, <1>2, <1>3, <1>4, <1>6 DEF FactorInv, FactorRead, FactorReadOK
<1>8. CodesInv'
  BY <1>1, <1>2, <1>3, <1>5 DEF CodesInv
<1>9. ~QuietFor({"factor", "factorForm"})' /\ ~QuietFor({"codes", "codesForm"})'
  BY <1>1, <1>2 DEF QuietFor, UnderWay
<1>. QED  BY <1>7, <1>8, <1>9 DEF FactorIsTold, CodesShownWork

\* Whatever the state of the session becomes, the cards that are shown ask, or stay.
LEMMA ShowsKeepsCards ==
    ASSUME AccountInv, UNCHANGED accountServer, NEW onPage \in BOOLEAN, NEW state, NEW rest \in SUBSET calls,
           \A c \in calls : c.by \notin SessionCallers => c \in rest, ShowsAccount(onPage, state, rest)
    PROVE  /\ TabInv' /\ FactorInv' /\ FactorIsTold' /\ CodesInv' /\ CodesShownWork'
           /\ signed' = state /\ excused \subseteq excused'
           /\ \A c : c.by \in SessionCallers => (c \in calls' <=> c \in rest)
<1>1. /\ HasCards' = CardsFor(onPage, state) /\ UNCHANGED <<cookie, factorOn, codeSet>> /\ signed' = state
      /\ onSettings' = onPage
  BY DEF ShowsAccount, HasCards, CardsFor, accountServer
<1>2. CASE /\ CardsFor(onPage, state) /\ ~HasCards
           /\ visit' = visit + 1
           /\ calls' = rest \cup {Asked("factor", "totp", visit + 1), Asked("codes", "codes", visit + 1)}
           /\ excused' = AtMount
           /\ factorCard' = BlankFactor /\ codesCard' = BlankCodes
  <2>1. visit \in Nat /\ visit' \in Nat /\ visit <= visit'
    BY <1>2 DEF AccountInv, TabInv
  <2>2. PICK r : r = Asked("factor", "totp", visit + 1)
    OBVIOUS
  <2>3. PICK k : k = Asked("codes", "codes", visit + 1)
    OBVIOUS
  <2>4. r \in Call /\ WellAsked(r)'
    <3>1. r \in Call /\ r.by = "factor" /\ r.asks = "totp" /\ r.visit = visit'
      BY <1>2, <2>1, <2>2, <2>3 DEF Asked, Call, Unanswered, Kind, Reads, Caller, Request
    <3>. QED  BY <2>1, <3>1 DEF WellAsked, SessionCallers, Form
  <2>5. k \in Call /\ WellAsked(k)'
    <3>1. k \in Call /\ k.by = "codes" /\ k.asks = "codes" /\ k.visit = visit'
      BY <1>2, <2>1, <2>2, <2>3 DEF Asked, Call, Unanswered, Kind, Reads, Caller, Request
    <3>. QED  BY <2>1, <3>1 DEF WellAsked, SessionCallers, Form
  <2>6. \A c \in calls' : c \in Call /\ WellAsked(c)'
    <3>1. calls' = rest \cup {r, k}
      BY <1>2, <2>2, <2>3
    <3>2. \A c \in calls' : c \in calls \/ (c \in Call /\ WellAsked(c)')
      BY <2>4, <2>5, <3>1
    <3>. QED  BY <2>1, <3>2, CallsTyped DEF AccountInv
  <2>7. TabInv'
    BY <1>1, <1>2, <2>1, <2>6 DEF AccountInv, TabInv, BlankFactor, BlankCodes
  <2>8. /\ Asked("factor", "totp", visit + 1).by \notin SessionCallers
        /\ Asked("codes", "codes", visit + 1).by \notin SessionCallers
    BY DEF Asked, SessionCallers
  <2>9. FactorInv' /\ FactorIsTold' /\ CodesInv' /\ CodesShownWork'
    BY <1>1, <1>2, MountKeepsCards
  <2>. QED  BY <1>1, <1>2, <2>7, <2>8, <2>9 DEF AtMount
<1>3. CASE /\ CardsFor(onPage, state) => HasCards
           /\ calls' = rest /\ UNCHANGED <<visit, excused>>
           /\ factorCard' = IF CardsFor(onPage, state) THEN factorCard ELSE BlankFactor
           /\ codesCard' = IF CardsFor(onPage, state) THEN codesCard ELSE BlankCodes
  <2>1. FactorInv' /\ FactorIsTold' /\ CodesInv' /\ CodesShownWork'
    BY <1>1, <1>3, CardsUntouched
  <2>2. \A c \in calls' : c \in Call /\ WellAsked(c)'
    BY <1>3, CallsTyped DEF AccountInv, TabInv
  <2>3. TabInv'
    BY <1>1, <1>3, <2>2 DEF AccountInv, TabInv, BlankFactor, BlankCodes
  <2>. QED  BY <1>1, <1>3, <2>1, <2>3
<1>. QED  BY <1>2, <1>3 DEF ShowsAccount

-----------------------------------------------------------------------------
(* The calls of the session.                                               *)

\* A call of the session that is sent, or goes on, is asked for no card.
LEMMA SessionCallOK ==
    ASSUME TabInv, visit' = visit, NEW c, NEW by \in SessionCallers \ {"logout"},
           NEW asks \in {"login", "session", "refresh", "second", "accept"}, c = Asked(by, asks, 0)
    PROVE  c \in Call /\ WellAsked(c)' /\ c.by = by /\ c.asks = asks /\ c.answer.kind = "none"
<1>1. /\ c \in Call /\ c.by = by /\ c.asks = asks /\ c.visit = 0 /\ c.answer.kind = "none"
  BY DEF Asked, Call, Unanswered, Kind, Reads, Caller, Request
<1>2. 0 <= visit'
  BY DEF TabInv
<1>. QED  BY <1>1, <1>2 DEF WellAsked, SessionCallers, Form

LEMMA LogoutCallOK ==
    ASSUME TabInv, visit' = visit, NEW c, c = Asked("logout", "logout", 0)
    PROVE  c \in Call /\ WellAsked(c)' /\ c.by = "logout" /\ c.asks = "logout" /\ c.answer.kind = "none"
<1>1. /\ c \in Call /\ c.by = "logout" /\ c.asks = "logout" /\ c.visit = 0 /\ c.answer.kind = "none"
  BY DEF Asked, Call, Unanswered, Kind, SessionCallers, Caller, Request
<1>2. 0 <= visit'
  BY DEF TabInv
<1>. QED  BY <1>1, <1>2 DEF WellAsked, SessionCallers, Form

\* A call sent beside another one of the session is excused; a lone one is the only one.
LEMMA SendsKeeps ==
    ASSUME AccountInv, SubmitsCredentials \/ SubmitsCode \/ AcceptsInvitation \/ SignsOut
    PROVE  AccountInv'
<1>1. PICK by, asks : /\ Sends(by, asks)
                      /\ <<by, asks>> \in {<<"login", "login">>, <<"code", "second">>, <<"invitation", "accept">>,
                                           <<"logout", "logout">>}
  BY DEF SubmitsCredentials, SubmitsCode, AcceptsInvitation, SignsOut
<1>2. PICK c : c = Asked(by, asks, 0)
  OBVIOUS
<1>3. /\ calls' = calls \cup {c} /\ UNCHANGED <<accountServer, signed, accountCards>>
      /\ excused \subseteq excused' /\ (UnderWay(SessionCallers) # {} => "session" \in excused')
  BY <1>1, <1>2 DEF Sends
<1>4. UNCHANGED <<cookie, factorOn, codeSet, onSettings, visit, factorCard, codesCard>> /\ HasCards' = HasCards
  BY <1>3 DEF accountServer, accountCards, HasCards
<1>5. c \in Call /\ WellAsked(c)' /\ c.by \in SessionCallers /\ c.answer.kind = "none"
  <2>1. CASE by = "logout"
    BY <1>1, <1>2, <1>4, <2>1, LogoutCallOK DEF AccountInv, SessionCallers
  <2>2. CASE by # "logout"
    <3>1. by \in SessionCallers \ {"logout"} /\ asks \in {"login", "session", "refresh", "second", "accept"}
      BY <1>1, <2>2 DEF SessionCallers
    <3>. QED  BY <1>2, <1>4, <3>1, SessionCallOK DEF AccountInv
  <2>. QED  BY <2>1, <2>2
<1>6. TabInv'
  <2>1. \A d \in calls' : d \in Call /\ WellAsked(d)'
    BY <1>3, <1>4, <1>5, CallsTyped DEF AccountInv, TabInv
  <2>. QED  BY <1>4, <2>1 DEF AccountInv, TabInv
<1>7. FactorInv' /\ FactorIsTold' /\ CodesInv' /\ CodesShownWork'
  BY <1>3, <1>4, <1>5, CardsUntouched
<1>8. SessionInv'
  <2>. SUFFICES ASSUME "session" \notin excused' PROVE SessionInv'
    BY DEF SessionInv
  <2>1. \A d \in calls : d.by \notin SessionCallers
    BY <1>3 DEF UnderWay
  <2>2. \A d \in calls' : d.by \in SessionCallers \/ d.asks \in {"session", "refresh"} => d = c
    BY <1>3, <2>1 DEF AccountInv, TabInv, WellAsked
  <2>3. ~(signed = "authenticated" /\ cookie # "user")
    BY <1>3, <2>1 DEF AccountInv, SessionInv, SessionCallers
  <2>. QED  BY <1>3, <1>4, <1>5, <2>2, <2>3 DEF SessionInv
<1>. QED  BY <1>6, <1>7, <1>8 DEF AccountInv

\* A call that goes on takes the place of the one that was answered.
LEMMA GoesOnKeeps ==
    ASSUME AccountInv, NEW c \in calls, c.by \in SessionCallers, c.by # "logout",
           NEW asks \in {"session", "refresh"}, GoesOn(c, asks), UNCHANGED accountServer
    PROVE  AccountInv'
<1>1. PICK e : e = Asked(c.by, asks, 0)
  OBVIOUS
<1>2. /\ calls' = (calls \ {c}) \cup {e} /\ UNCHANGED <<signed, accountCards, excused>>
      /\ UNCHANGED <<cookie, factorOn, codeSet, onSettings, visit, factorCard, codesCard>> /\ HasCards' = HasCards
  BY <1>1 DEF GoesOn, accountServer, accountCards, HasCards
<1>3. e \in Call /\ WellAsked(e)' /\ e.by = c.by /\ e.answer.kind = "none"
  BY <1>1, <1>2, SessionCallOK DEF AccountInv
<1>4. TabInv'
  <2>1. \A d \in calls' : d \in Call /\ WellAsked(d)'
    BY <1>2, <1>3, CallsTyped DEF AccountInv, TabInv
  <2>. QED  BY <1>2, <2>1 DEF AccountInv, TabInv
<1>5. FactorInv' /\ FactorIsTold' /\ CodesInv' /\ CodesShownWork'
  BY <1>2, <1>3, CardsUntouched
<1>6. SessionInv'
  <2>. SUFFICES ASSUME "session" \notin excused' PROVE SessionInv'
    BY DEF SessionInv
  <2>1. \A d \in calls : d.by \in SessionCallers => d = c
    BY <1>2 DEF AccountInv, SessionInv
  <2>2. \A d \in calls' : d.by \in SessionCallers \/ d.asks \in {"session", "refresh"} => d = e
    BY <1>2, <2>1 DEF AccountInv, TabInv, WellAsked
  <2>3. ~(signed = "authenticated" /\ cookie # "user")
    BY <1>2, <2>1 DEF AccountInv, SessionInv, SessionCallers
  <2>. QED  BY <1>2, <1>3, <2>2, <2>3 DEF SessionInv
<1>. QED  BY <1>4, <1>5, <1>6 DEF AccountInv

\* Only the answer to a read of the session signs in.
LEMMA SetsStateKeeps ==
    ASSUME AccountInv, NEW c \in calls, c.by \in SessionCallers, NEW result, SetsState(c, result),
           result = "ok" => c.asks \in {"session", "refresh"} /\ c.answer.kind = "ok", UNCHANGED accountServer
    PROVE  AccountInv'
<1>1. calls \ {c} \in SUBSET calls /\ \A d \in calls : d.by \notin SessionCallers => d \in calls \ {c}
  OBVIOUS
<1>2. ShowsAccount(onSettings, ToState(result), calls \ {c}) /\ onSettings \in BOOLEAN
  BY DEF SetsState, AccountInv, TabInv
<1>3. /\ TabInv' /\ FactorInv' /\ FactorIsTold' /\ CodesInv' /\ CodesShownWork'
      /\ signed' = ToState(result) /\ excused \subseteq excused'
      /\ \A d : d.by \in SessionCallers => (d \in calls' <=> d \in calls \ {c})
  BY <1>1, <1>2, ShowsKeepsCards
<1>4. SessionInv'
  <2>. SUFFICES ASSUME "session" \notin excused' PROVE SessionInv'
    BY DEF SessionInv
  <2>1. \A d \in calls : d.by \in SessionCallers => d = c
    BY <1>3 DEF AccountInv, SessionInv
  <2>2. \A d \in calls' : d.by \notin SessionCallers /\ d.asks \notin {"session", "refresh"}
    BY <1>3, <2>1 DEF TabInv, WellAsked
  <2>3. signed' = "authenticated" => cookie' = "user"
    BY <1>3 DEF ToState, AccountInv, SessionInv, accountServer
  <2>. QED  BY <2>2, <2>3 DEF SessionInv
<1>. QED  BY <1>3, <1>4 DEF AccountInv

\* A refusal is an error of the page: the session is told as it was.
LEMMA RefusedKeeps ==
    ASSUME AccountInv, NEW c \in calls, c.by \in SessionCallers, c.by # "logout",
           calls' = calls \ {c}, UNCHANGED <<accountServer, signed, accountCards, excused>>
    PROVE  AccountInv'
<1>1. UNCHANGED <<cookie, factorOn, codeSet, onSettings, visit, factorCard, codesCard>> /\ HasCards' = HasCards
  BY DEF accountServer, accountCards, HasCards
<1>2. TabInv'
  BY <1>1 DEF AccountInv, TabInv, WellAsked
<1>3. FactorInv' /\ FactorIsTold' /\ CodesInv' /\ CodesShownWork'
  BY <1>1, CardsUntouched
<1>4. SessionInv'
  BY <1>1 DEF AccountInv, SessionInv
<1>. QED  BY <1>2, <1>3, <1>4 DEF AccountInv

LEMMA SessionAnswersKeep ==
    ASSUME AccountInv, NEW c \in calls, UNCHANGED accountServer,
           LoginAnswers(c) \/ CodeAnswers(c) \/ RefreshAnswers(c) \/ LogoutAnswers(c)
    PROVE  AccountInv'
<1>1. c.by \in SessionCallers /\ (c.asks = "refresh" => c.by # "logout")
  BY DEF LoginAnswers, CodeAnswers, RefreshAnswers, LogoutAnswers, SessionCallers, AccountInv, TabInv, WellAsked
<1>2. FetchSession(c.answer) = "ok" => c.answer.kind = "ok"
  BY DEF FetchSession
<1>3. CASE LoginAnswers(c)
  <2>1. c.by # "logout"
    BY <1>3 DEF LoginAnswers
  <2>2. LoginRefusal(c.answer) # "ok"
    BY DEF LoginRefusal
  <2>3. \/ GoesOn(c, "session") \/ SetsState(c, LoginRefusal(c.answer))
        \/ c.asks = "session" /\ SetsState(c, FetchSession(c.answer))
    BY <1>3 DEF LoginAnswers
  <2>4. CASE GoesOn(c, "session")
    BY <1>1, <2>1, <2>4, GoesOnKeeps
  <2>5. CASE SetsState(c, LoginRefusal(c.answer))
    BY <1>1, <2>2, <2>5, SetsStateKeeps
  <2>6. CASE c.asks = "session" /\ SetsState(c, FetchSession(c.answer))
    BY <1>1, <1>2, <2>6, SetsStateKeeps
  <2>. QED  BY <2>3, <2>4, <2>5, <2>6
<1>4. CASE CodeAnswers(c)
  <2>1. c.by # "logout"
    BY <1>4 DEF CodeAnswers
  <2>2. \/ GoesOn(c, "session") \/ GoesOn(c, "refresh")
        \/ calls' = calls \ {c} /\ UNCHANGED <<signed, accountCards, excused>>
    BY <1>4 DEF CodeAnswers
  <2>. QED  BY <1>1, <2>1, <2>2, GoesOnKeeps, RefusedKeeps
<1>5. CASE RefreshAnswers(c)
  BY <1>1, <1>2, <1>5, SetsStateKeeps DEF RefreshAnswers
<1>6. CASE LogoutAnswers(c)
  BY <1>1, <1>6, SetsStateKeeps DEF LogoutAnswers
<1>. QED  BY <1>3, <1>4, <1>5, <1>6

LEMMA NavigatesKeeps == ASSUME AccountInv, Navigates \/ Expires PROVE AccountInv'
<1>1. CASE Navigates
  <2>1. /\ ShowsAccount(~onSettings, signed, calls) /\ (~onSettings) \in BOOLEAN /\ UNCHANGED accountServer
        /\ calls \in SUBSET calls
    <3>1. ShowsAccount(~onSettings, signed, calls) /\ UNCHANGED accountServer
      BY <1>1 DEF Navigates
    <3>. QED  BY <3>1
  <2>2. /\ TabInv' /\ FactorInv' /\ FactorIsTold' /\ CodesInv' /\ CodesShownWork'
        /\ signed' = signed /\ excused \subseteq excused'
        /\ \A c : c.by \in SessionCallers => (c \in calls' <=> c \in calls)
    BY <2>1, ShowsKeepsCards
  <2>3. SessionInv'
    BY <2>1, <2>2, SessionUntouched DEF accountServer
  <2>. QED  BY <2>2, <2>3 DEF AccountInv
<1>2. CASE Expires
  <2>1. /\ UNCHANGED <<factorOn, codeSet, signed, onSettings, visit, factorCard, codesCard, calls>>
        /\ excused' = excused \cup {"session"} /\ HasCards' = HasCards
    BY <1>2 DEF Expires, accountCards, HasCards
  <2>2. FactorInv' /\ FactorIsTold' /\ CodesInv' /\ CodesShownWork'
    BY <2>1, CardsUntouched
  <2>3. TabInv' /\ SessionInv'
    BY <2>1 DEF AccountInv, TabInv, WellAsked, SessionInv
  <2>. QED  BY <2>2, <2>3 DEF AccountInv
<1>. QED  BY <1>1, <1>2

-----------------------------------------------------------------------------
(* The cards.                                                              *)

\* A form is sent by a card that tells what it would change.
LEMMA SubmitsFactorKeeps == ASSUME AccountInv, SubmitsFactor PROVE AccountInv'
<1>1. PICK asks \in Form :
        /\ factorCard.told = (IF asks = "activate" THEN "off" ELSE "on")
        /\ SubmitsCard("factorForm", asks)
  BY DEF SubmitsFactor, Form
<1>2. PICK c : c = Asked("factorForm", asks, visit)
  OBVIOUS
<1>3. /\ calls' = calls \cup {c} /\ HasCards /\ \A d \in calls : d.by = "factorForm" => d.visit # visit
      /\ UNCHANGED <<cookie, factorOn, codeSet, signed, onSettings, visit, codesCard, excused>>
      /\ HasCards' = HasCards /\ factorCard' = [factorCard EXCEPT !.error = FALSE]
      /\ factorCard'.told = factorCard.told
  BY <1>1, <1>2 DEF SubmitsFactor, SubmitsCard, UnderWay, accountServer, HasCards, AccountInv, TabInv
<1>4. c \in Call /\ WellAsked(c)' /\ c.by = "factorForm" /\ c.asks = asks /\ c.visit = visit /\ c.answer.kind = "none"
  <2>1. /\ c \in Call /\ c.by = "factorForm" /\ c.asks = asks /\ c.visit = visit /\ c.answer.kind = "none"
    BY <1>2 DEF Asked, Call, Unanswered, Kind, Form, Caller, Request, AccountInv, TabInv
  <2>. QED  BY <1>3, <2>1 DEF WellAsked, SessionCallers, Form, AccountInv, TabInv
<1>5. TabInv'
  <2>1. \A d \in calls' : d \in Call /\ WellAsked(d)'
    BY <1>3, <1>4, CallsTyped DEF AccountInv, TabInv
  <2>. QED  BY <1>3, <2>1 DEF AccountInv, TabInv
<1>6. c.by \notin SessionCallers
  BY <1>4 DEF SessionCallers
<1>7. SessionInv'
  BY <1>3, <1>5, <1>6, SessionUntouched
<1>8. CodesInv' /\ CodesShownWork'
  BY <1>3, <1>4 DEF AccountInv, CodesInv, CodesShownWork, QuietFor, UnderWay
<1>9. FactorIsTold'
  BY <1>3, <1>4 DEF FactorIsTold, QuietFor, UnderWay
<1>10. FactorInv'
  <2>. SUFFICES ASSUME "factor" \notin excused, NEW d \in calls'
       PROVE  (d.by = "factorForm" => FactorFormOK(d)') /\ (FactorRead(d)' => FactorReadOK(d)')
    BY <1>3 DEF FactorInv
  <2>1. \A f \in calls : (f.by = "factorForm" => FactorFormOK(f)) /\ (FactorRead(f) => FactorReadOK(f))
    BY <1>3 DEF AccountInv, FactorInv
  <2>2. \A f \in calls : f.by # "factorForm"
    BY <1>3, <2>1 DEF FactorFormOK
  <2>3. TellsTruth' = TellsTruth /\ \A f : FactorRead(f)' <=> FactorRead(f)
    BY <1>3 DEF TellsTruth, FactorRead
  <2>4. d.by = "factorForm" => FactorFormOK(d)'
    <3>1. ASSUME d = c, factorOn <=> c.asks = "deactivate" PROVE TellsTruth' /\ \A f \in calls' : ~FactorRead(f)'
      <4>1. TellsTruth
        BY <1>1, <1>4, <3>1 DEF TellsTruth, Form
      <4>. QED  BY <1>3, <1>4, <2>1, <2>3, <4>1 DEF FactorRead, FactorReadOK
    <3>. QED  BY <1>3, <1>4, <2>2, <3>1 DEF FactorFormOK
  <2>5. FactorRead(d)' => FactorReadOK(d)'
    BY <1>3, <1>4, <2>1, <2>3 DEF FactorReadOK, FactorRead
  <2>. QED  BY <2>4, <2>5
<1>. QED  BY <1>5, <1>7, <1>8, <1>9, <1>10 DEF AccountInv

LEMMA GeneratesCodesKeeps == ASSUME AccountInv, GeneratesCodes PROVE AccountInv'
<1>1. PICK c : c = Asked("codesForm", "generate", visit)
  OBVIOUS
<1>2. /\ calls' = calls \cup {c} /\ HasCards /\ \A d \in calls : d.by = "codesForm" => d.visit # visit
      /\ UNCHANGED <<cookie, factorOn, codeSet, signed, onSettings, visit, factorCard>>
      /\ excused \subseteq excused' /\ ("codes" \notin excused' => \A d \in calls : d.by # "codes")
      /\ HasCards' = HasCards /\ codesCard' = [codesCard EXCEPT !.error = FALSE]
      /\ ("factor" \in excused' <=> "factor" \in excused)
  BY <1>1 DEF GeneratesCodes, SubmitsCard, UnderWay, accountServer, HasCards
<1>3. /\ c \in Call /\ WellAsked(c)' /\ c.by = "codesForm" /\ c.visit = visit
      /\ c.answer.kind = "none" /\ c.answer.set = 0
  <2>1. /\ c \in Call /\ c.by = "codesForm" /\ c.asks = "generate" /\ c.visit = visit
        /\ c.answer.kind = "none" /\ c.answer.set = 0
    BY <1>1 DEF Asked, Call, Unanswered, Kind, Caller, Request, AccountInv, TabInv
  <2>. QED  BY <1>2, <2>1 DEF WellAsked, SessionCallers, Form, AccountInv, TabInv
<1>4. TabInv'
  <2>1. \A d \in calls' : d \in Call /\ WellAsked(d)'
    BY <1>2, <1>3, CallsTyped DEF AccountInv, TabInv
  <2>. QED  BY <1>2, <2>1 DEF AccountInv, TabInv
<1>5. c.by \notin SessionCallers
  BY <1>3 DEF SessionCallers
<1>6. SessionInv'
  BY <1>2, <1>4, <1>5, SessionUntouched
<1>7. FactorInv' /\ FactorIsTold'
  <2>1. TellsTruth' = TellsTruth /\ TellsOpposite' = TellsOpposite /\ \A f : FactorRead(f)' <=> FactorRead(f)
    BY <1>2 DEF TellsTruth, TellsOpposite, FactorRead
  <2>2. FactorInv'
    <3>. SUFFICES ASSUME "factor" \notin excused, NEW d \in calls'
         PROVE  (d.by = "factorForm" => FactorFormOK(d)') /\ (FactorRead(d)' => FactorReadOK(d)')
      BY <1>2 DEF FactorInv
    <3>1. \A f \in calls : (f.by = "factorForm" => FactorFormOK(f)) /\ (FactorRead(f) => FactorReadOK(f))
      BY <1>2 DEF AccountInv, FactorInv
    <3>2. ~FactorRead(c) /\ c.by # "factorForm"
      BY <1>3 DEF FactorRead
    <3>3. d.by = "factorForm" => FactorFormOK(d)'
      BY <1>2, <2>1, <3>1, <3>2 DEF FactorFormOK
    <3>4. FactorRead(d)' => FactorReadOK(d)'
      BY <1>2, <2>1, <3>1, <3>2 DEF FactorReadOK
    <3>. QED  BY <3>3, <3>4
  <2>3. QuietFor({"factor", "factorForm"})' => QuietFor({"factor", "factorForm"})
    BY <1>2 DEF QuietFor, UnderWay
  <2>. QED  BY <1>2, <2>2, <2>3 DEF FactorIsTold, AccountInv
<1>8. CodesInv' /\ CodesShownWork'
  BY <1>2, <1>3 DEF AccountInv, CodesInv, CodesShownWork, QuietFor, UnderWay
<1>. QED  BY <1>4, <1>6, <1>7, <1>8 DEF AccountInv

\* An answer to cards that are gone is read by nobody.
LEMMA ForgottenKeeps ==
    ASSUME AccountInv, NEW c \in calls, c.by \notin SessionCallers, ~(HasCards /\ c.visit = visit),
           calls' = calls \ {c}, UNCHANGED <<accountServer, signed, accountCards, excused>>
    PROVE  AccountInv'
<1>1. UNCHANGED <<cookie, factorOn, codeSet, onSettings, visit, factorCard, codesCard>> /\ HasCards' = HasCards
  BY DEF accountServer, accountCards, HasCards
<1>2. TabInv'
  BY <1>1 DEF AccountInv, TabInv, WellAsked
<1>3. SessionInv'
  BY <1>1, <1>2, SessionUntouched
<1>4. TellsTruth' = TellsTruth /\ TellsOpposite' = TellsOpposite /\ \A f : FactorRead(f)' <=> FactorRead(f)
  BY <1>1 DEF TellsTruth, TellsOpposite, FactorRead
<1>5. FactorInv'
  <2>. SUFFICES ASSUME HasCards, "factor" \notin excused, NEW d \in calls'
       PROVE  (d.by = "factorForm" => FactorFormOK(d)') /\ (FactorRead(d)' => FactorReadOK(d)')
    BY <1>1 DEF FactorInv
  <2>1. \A f \in calls : (f.by = "factorForm" => FactorFormOK(f)) /\ (FactorRead(f) => FactorReadOK(f))
    BY DEF AccountInv, FactorInv
  <2>2. d.by = "factorForm" => FactorFormOK(d)'
    BY <1>1, <1>4, <2>1 DEF FactorFormOK
  <2>3. FactorRead(d)' => FactorReadOK(d)'
    BY <1>1, <1>4, <2>1 DEF FactorReadOK
  <2>. QED  BY <2>2, <2>3
<1>6. CodesInv'
  BY <1>1 DEF AccountInv, CodesInv
<1>7. HasCards => \A callers : QuietFor(callers)' => QuietFor(callers)
  BY <1>1 DEF QuietFor, UnderWay
<1>. QED  BY <1>1, <1>2, <1>3, <1>5, <1>6, <1>7 DEF AccountInv, FactorIsTold, CodesShownWork

\* The answer to a read is told; an accepted change is read back; a refusal is shown.
LEMMA FactorAnswersKeep ==
    ASSUME AccountInv, NEW c \in calls, HasCards, c.visit = visit, FactorAnswers(c),
           UNCHANGED <<accountServer, signed, onSettings, visit, excused>>
    PROVE  AccountInv'
<1>1. UNCHANGED <<cookie, factorOn, codeSet, codesCard>> /\ HasCards' = HasCards
  BY DEF FactorAnswers, accountServer, HasCards
<1>2. PICK e : e = Asked("factor", "totp", visit)
  OBVIOUS
<1>3. e \in Call /\ WellAsked(e)' /\ e.by = "factor" /\ e.visit = visit /\ e.answer.kind = "none"
  <2>1. e \in Call /\ e.by = "factor" /\ e.asks = "totp" /\ e.visit = visit /\ e.answer.kind = "none"
    BY <1>2 DEF Asked, Call, Unanswered, Kind, Reads, Caller, Request, AccountInv, TabInv
  <2>. QED  BY <1>1, <2>1 DEF WellAsked, SessionCallers, Form, AccountInv, TabInv
<1>4. /\ calls' = calls \ {c} \/ calls' = (calls \ {c}) \cup {e}
      /\ c.by \in {"factor", "factorForm"}
      /\ factorCard' \in [told : {"loading", "on", "off", "unreachable"}, error : BOOLEAN]
  BY <1>2 DEF FactorAnswers, TotpTold, AccountInv, TabInv
<1>5. TabInv'
  <2>1. \A d \in calls' : d \in Call /\ WellAsked(d)'
    BY <1>3, <1>4, CallsTyped DEF AccountInv, TabInv
  <2>. QED  BY <1>1, <1>4, <2>1 DEF AccountInv, TabInv
<1>6. SessionInv'
  BY <1>1, <1>3, <1>4, <1>5, SessionUntouched DEF SessionCallers
<1>7. CodesInv' /\ CodesShownWork'
  <2>1. QuietFor({"codes", "codesForm"})' => QuietFor({"codes", "codesForm"})
    BY <1>1, <1>4 DEF QuietFor, UnderWay
  <2>. QED  BY <1>1, <1>3, <1>4, <2>1 DEF AccountInv, CodesInv, CodesShownWork
<1>8. FactorInv' /\ FactorIsTold'
  <2>. SUFFICES ASSUME "factor" \notin excused PROVE FactorInv' /\ FactorIsTold'
    BY DEF FactorInv, FactorIsTold
  <2>1. \A f \in calls : (f.by = "factorForm" => FactorFormOK(f)) /\ (FactorRead(f) => FactorReadOK(f))
    BY DEF AccountInv, FactorInv
  <2>2. \A f : FactorRead(f)' <=> FactorRead(f)
    BY DEF FactorRead
  <2>3. CASE c.by = "factor"
    <3>1. FactorReadOK(c) /\ FactorRead(c) /\ calls' = calls \ {c}
          /\ factorCard' = [factorCard EXCEPT !.told = TotpTold(c.answer)]
      BY <2>1, <2>3 DEF FactorAnswers, FactorRead
    <3>2. \A d \in calls' : ~FactorRead(d)'
      BY <2>2, <3>1 DEF FactorReadOK
    <3>3. \A d \in calls' : d.by = "factorForm" => FactorFormOK(d)'
      BY <1>1, <2>1, <3>1 DEF FactorFormOK
    <3>4. factorCard'.told = TotpTold(c.answer)
      BY <3>1 DEF AccountInv, TabInv
    <3>5. (factorCard'.told = "on" => factorOn) /\ (factorCard'.told = "off" => ~factorOn)
      BY <3>1, <3>4 DEF TotpTold, FactorReadOK
    <3>. QED  BY <1>1, <3>2, <3>3, <3>5 DEF FactorInv, FactorIsTold
  <2>4. CASE c.by = "factorForm" /\ c.answer.kind = "ok"
    <3>1. calls' = (calls \ {c}) \cup {e} /\ factorCard' = factorCard
      BY <1>2, <2>4 DEF FactorAnswers
    <3>2. TellsOpposite /\ (\A d \in calls : ~FactorRead(d)) /\ \A d \in calls : d.by = "factorForm" => d = c
      BY <2>1, <2>4 DEF FactorFormOK
    <3>3. \A d \in calls' : d.by # "factorForm" /\ (FactorRead(d)' => d = e)
      BY <1>3, <2>2, <3>1, <3>2
    <3>4. ~TellsTruth' /\ FactorRead(e)'
      BY <1>1, <1>3, <2>2, <3>1, <3>2 DEF TellsTruth, TellsOpposite, FactorRead
    <3>5. FactorInv'
      BY <1>3, <3>3, <3>4 DEF FactorInv, FactorReadOK
    <3>6. ~QuietFor({"factor", "factorForm"})'
      BY <1>3, <3>1 DEF QuietFor, UnderWay
    <3>. QED  BY <3>5, <3>6 DEF FactorIsTold
  <2>5. CASE c.by = "factorForm" /\ c.answer.kind # "ok"
    <3>1. calls' = calls \ {c} /\ factorCard' = [factorCard EXCEPT !.error = TRUE]
      BY <2>5 DEF FactorAnswers
    <3>2. factorCard'.error /\ factorCard'.told = factorCard.told
      BY <3>1 DEF AccountInv, TabInv
    <3>3. \A d \in calls' : d.by # "factorForm"
      BY <2>1, <2>5, <3>1 DEF FactorFormOK
    <3>4. \A d \in calls' : FactorRead(d)' => FactorReadOK(d)'
      BY <1>1, <2>1, <2>2, <3>1, <3>2 DEF FactorReadOK, TellsTruth
    <3>. QED  BY <3>2, <3>3, <3>4 DEF FactorInv, FactorIsTold
  <2>. QED  BY <1>4, <2>3, <2>4, <2>5
<1>. QED  BY <1>5, <1>6, <1>7, <1>8 DEF AccountInv

LEMMA CodesAnswersKeep ==
    ASSUME AccountInv, NEW c \in calls, HasCards, c.visit = visit, CodesAnswers(c),
           UNCHANGED <<accountServer, signed, onSettings, visit, excused>>
    PROVE  AccountInv'
<1>1. /\ UNCHANGED <<cookie, factorOn, codeSet, factorCard>> /\ HasCards' = HasCards
      /\ calls' = calls \ {c} /\ c.by \in {"codes", "codesForm"}
  BY DEF CodesAnswers, accountServer, HasCards
<1>2. c.answer.set \in Nat
  BY DEF AccountInv, TabInv, Call
<1>3. /\ codesCard' \in [told : {"loading", "generated", "never", "unreachable"}, set : Nat, error : BOOLEAN]
      /\ codesCard'.error \/ codesCard'.set = c.answer.set
  BY <1>2 DEF CodesAnswers, CodesTold, AccountInv, TabInv
<1>4. TabInv'
  BY <1>1, <1>3 DEF AccountInv, TabInv, WellAsked
<1>5. SessionInv'
  BY <1>1, <1>4, SessionUntouched DEF SessionCallers
<1>6. FactorInv' /\ FactorIsTold'
  <2>1. TellsTruth' = TellsTruth /\ TellsOpposite' = TellsOpposite /\ \A f : FactorRead(f)' <=> FactorRead(f)
    BY <1>1 DEF TellsTruth, TellsOpposite, FactorRead
  <2>2. FactorInv'
    <3>. SUFFICES ASSUME "factor" \notin excused, NEW d \in calls'
         PROVE  (d.by = "factorForm" => FactorFormOK(d)') /\ (FactorRead(d)' => FactorReadOK(d)')
      BY <1>1 DEF FactorInv
    <3>1. \A f \in calls : (f.by = "factorForm" => FactorFormOK(f)) /\ (FactorRead(f) => FactorReadOK(f))
      BY DEF AccountInv, FactorInv
    <3>2. d.by = "factorForm" => FactorFormOK(d)'
      BY <1>1, <2>1, <3>1 DEF FactorFormOK
    <3>3. FactorRead(d)' => FactorReadOK(d)'
      BY <1>1, <2>1, <3>1 DEF FactorReadOK
    <3>. QED  BY <3>2, <3>3
  <2>3. QuietFor({"factor", "factorForm"})' => QuietFor({"factor", "factorForm"})
    BY <1>1 DEF QuietFor, UnderWay
  <2>. QED  BY <1>1, <2>2, <2>3 DEF FactorIsTold, AccountInv
<1>7. CodesInv'
  BY <1>1 DEF AccountInv, CodesInv
<1>8. CodesShownWork'
  BY <1>1, <1>3 DEF AccountInv, CodesInv, CodesShownWork
<1>. QED  BY <1>4, <1>5, <1>6, <1>7, <1>8 DEF AccountInv

LEMMA AnswersKeeps == ASSUME AccountInv, NEW c \in calls, Answers(c) PROVE AccountInv'
<1>1. CASE CardAnswers(c)
  <2>1. c.by \notin SessionCallers /\ UNCHANGED <<accountServer, signed, onSettings, visit, excused>>
    BY <1>1 DEF CardAnswers, Answers
  <2>2. CASE HasCards /\ c.visit = visit /\ FactorAnswers(c)
    BY <2>1, <2>2, FactorAnswersKeep
  <2>3. CASE HasCards /\ c.visit = visit /\ CodesAnswers(c)
    BY <2>1, <2>3, CodesAnswersKeep
  <2>4. CASE ~(HasCards /\ c.visit = visit) /\ calls' = calls \ {c} /\ UNCHANGED <<factorCard, codesCard>>
    BY <2>1, <2>4, ForgottenKeeps DEF accountCards
  <2>. QED  BY <1>1, <2>2, <2>3, <2>4 DEF CardAnswers
<1>2. CASE LoginAnswers(c) \/ CodeAnswers(c) \/ RefreshAnswers(c) \/ LogoutAnswers(c)
  BY <1>2, SessionAnswersKeep DEF Answers
<1>. QED  BY <1>1, <1>2 DEF Answers

-----------------------------------------------------------------------------
(* Every behaviour.                                                        *)

LEMMA InitAccount == ServerAccountInit => AccountInv
<1>. SUFFICES ASSUME ServerAccountInit PROVE AccountInv
  OBVIOUS
<1>1. PICK c : c = Asked("boot", "refresh", 0)
  OBVIOUS
<1>2. /\ c \in Call /\ c.by = "boot" /\ c.asks = "refresh" /\ c.visit = 0 /\ c.answer.kind = "none"
  BY <1>1 DEF Asked, Call, Unanswered, Kind, Reads, SessionCallers, Caller, Request
<1>3. calls = {c} /\ visit = 0 /\ ~HasCards
  BY <1>1 DEF ServerAccountInit, HasCards, CardsFor
<1>4. TabInv
  BY <1>2, <1>3 DEF ServerAccountInit, TabInv, WellAsked, SessionCallers, Form, BlankFactor, BlankCodes
<1>5. SessionInv
  BY <1>2, <1>3 DEF ServerAccountInit, SessionInv
<1>. QED  BY <1>3, <1>4, <1>5 DEF AccountInv, FactorInv, CodesInv, FactorIsTold, CodesShownWork

LEMMA AccountStep == AccountInv /\ [ServerAccountNext]_serverAccountVars => AccountInv'
<1>. SUFFICES ASSUME AccountInv, [ServerAccountNext]_serverAccountVars PROVE AccountInv'
  OBVIOUS
<1>1. CASE UNCHANGED serverAccountVars
  <2>1. /\ UNCHANGED <<cookie, factorOn, codeSet, signed, onSettings, visit, factorCard, codesCard, calls, excused>>
        /\ HasCards' = HasCards
    BY <1>1 DEF serverAccountVars, accountServer, accountCards, HasCards
  <2>2. FactorInv' /\ FactorIsTold' /\ CodesInv' /\ CodesShownWork'
    BY <2>1, CardsUntouched
  <2>3. TabInv' /\ SessionInv'
    BY <2>1 DEF AccountInv, TabInv, WellAsked, SessionInv
  <2>. QED  BY <2>2, <2>3 DEF AccountInv
<1>2. CASE ServerAccountNext
  BY <1>2, ServesKeeps, LosesKeeps, AnswersKeeps, SendsKeeps, NavigatesKeeps, SubmitsFactorKeeps,
     GeneratesCodesKeeps DEF ServerAccountNext
<1>. QED  BY <1>1, <1>2

\* The calls under way, what their answers would show, and the cards stay in step with the
\* server (api/session.tsx, SettingsPage).
THEOREM AccountInvHolds == ServerAccountSpec => []AccountInv
BY InitAccount, AccountStep, PTL DEF ServerAccountSpec

\* Whatever the calls under way are answered, lose, or leave to a later showing of the cards:
\* at rest the tab is signed in only on an open session, its card tells the second factor the
\* server has, and the codes it shows are those that work (api/session.tsx, LoginPage, SettingsPage).
THEOREM AccountIsToldSafe == ServerAccountSpec => []AccountIsTold
<1>1. AccountInv => AccountIsTold
  <2>. SUFFICES ASSUME AccountInv PROVE SignedInIsOpen
    BY DEF AccountInv, AccountIsTold
  <2>1. "logout" \in SessionCallers
    BY DEF SessionCallers
  <2>. QED  BY <2>1 DEF AccountInv, SessionInv, SignedInIsOpen, UnderWay
<1>. QED  BY <1>1, AccountInvHolds, PTL
=============================================================================
