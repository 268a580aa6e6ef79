----------------------------- MODULE DeskProofs -----------------------------
(***************************************************************************)
(* Proofs about small parts: the acceptance of an invitation               *)
(* (Invitations.tla), for any number of requests; the gestures on a chart  *)
(* (ChartAlerts.tla), for any alerts, pointers, scale and heights; the     *)
(* local agent (TwsAgent.tla), for any tabs, any patience of the library   *)
(* that draws the bars and any number of closed tabs; the automatic Flex   *)
(* sync (FlexTrigger.tla), for any accounts and any number of syncs; its   *)
(* calls to the relay (FlexRelay.tla), for any number of syncs of a user,  *)
(* any latency and any answers of Interactive Brokers; the alerts of the   *)
(* positions (Alerts.tla), for any alerts and any prices of S0.            *)
(***************************************************************************)
EXTENDS Invitations, ChartAlerts, TwsAgent, FlexTrigger, FlexRelay, Alerts, DataLemmas

-----------------------------------------------------------------------------
(* One link makes one account.                                             *)

\* An invitation is marked exactly when it has made one account.
ServedInv ==
    /\ accepted \in BOOLEAN
    /\ accepted => \E c \in Request : served = {c}
    /\ ~accepted => served = {}

LEMMA ServedStep == ServedInv /\ [InvitationNext]_invitationVars => ServedInv'
<1>. SUFFICES ASSUME ServedInv, [InvitationNext]_invitationVars PROVE ServedInv'
  OBVIOUS
<1>1. ASSUME NEW c \in Request, Accepts(c) PROVE ServedInv'
  <2>1. CASE UNCHANGED <<accepted, served>>
    BY <2>1 DEF ServedInv
  <2>2. CASE IsUsable /\ accepted' = TRUE /\ served' = served \cup {c}
    <3>1. served = {}
      BY <2>2 DEF IsUsable, ServedInv
    <3>. QED  BY <2>2, <3>1 DEF ServedInv
  <2>. QED  BY <1>1, <2>1, <2>2 DEF Accepts, UsableUnderLock
<1>2. ASSUME NEW c \in Request, Checks(c) \/ OpensSession(c) PROVE ServedInv'
  BY <1>2 DEF Checks, OpensSession, ServedInv
<1>3. CASE Expires \/ UserComesOrGoes \/ UNCHANGED invitationVars
  BY <1>3 DEF Expires, UserComesOrGoes, invitationVars, ServedInv
<1>. QED  BY <1>1, <1>2, <1>3 DEF InvitationNext

\* Whoever clicks, and whatever the administration does between two reads, an invitation
\* creates one user, and is spent only by creating one.
THEOREM InvitationServesOnceSafe == InvitationSpec => []InvitationServesOnce
<1>1. InvitationInit => ServedInv
  BY DEF InvitationInit, ServedInv
<1>2. ServedInv => InvitationServesOnce
  <2>. SUFFICES ASSUME ServedInv PROVE InvitationServesOnce
    OBVIOUS
  <2>1. CASE accepted
    <3>1. PICK c \in Request : served = {c}
      BY <2>1 DEF ServedInv
    <3>2. Cardinality(served) = 1
      BY <3>1, FS_Singleton
    <3>. QED  BY <2>1, <3>1, <3>2 DEF InvitationServesOnce
  <2>2. CASE ~accepted
    <3>1. Cardinality(served) = 0
      BY <2>2, FS_EmptySet DEF ServedInv
    <3>. QED  BY <2>2, <3>1 DEF ServedInv, InvitationServesOnce
  <2>. QED  BY <2>1, <2>2
<1>. QED  BY <1>1, <1>2, ServedStep, PTL DEF InvitationSpec

-----------------------------------------------------------------------------
(* What a gesture leaves behind it.                                        *)

HeldInv == PointersOK /\ GestureIsHeld

\* What is absent is neither a height nor a gesture.
LEMMA NothingIsNothing ==
    /\ Nothing \notin Height /\ Nothing \notin Drag /\ Nothing \notin Press
    /\ \A y \in Height : y \in Int /\ Apart(y, y) = 0
    /\ PressSlop \in Nat
BY ChartAssumption DEF Height, Apart

LEMMA InitHeld == ChartInit => HeldInv
BY DEF ChartInit, HeldInv, PointersOK, GestureIsHeld

\* A gesture that ends leaves no line held, and the chart scrolls.
LEMMA EndsHeld ==
    ASSUME HeldInv, NEW commit \in BOOLEAN, EndDrag(commit)
    PROVE  drag' = Nothing /\ scrolls' = TRUE
BY DEF EndDrag, ReleaseScroll, HeldInv, GestureIsHeld

LEMMA PointerDownHeld == ASSUME HeldInv, NEW p \in Pointer, PointerDown(p) PROVE HeldInv'
<1>1. PICK y \in Height, spot \in {"pane", "bells"} :
        /\ at' = [at EXCEPT ![p] = y]
        /\ IF ~overlay \/ (spot = "bells" /\ Near(y) # {}) THEN UNCHANGED gesture
           ELSE IF HitAlert(y) # {}
           THEN /\ \E id \in HitAlert(y) : drag' = [id |-> id, pointer |-> p, y |-> y]
                /\ scrolls' = FALSE
                /\ UNCHANGED press
           ELSE /\ press' = IF p \in Touch THEN [pointer |-> p, y |-> y] ELSE press
                /\ UNCHANGED <<drag, scrolls>>
  BY DEF PointerDown
<1>2. /\ at \in [Pointer -> Height \cup {Nothing}] /\ at' \in [Pointer -> Height \cup {Nothing}]
      /\ at[p] = Nothing /\ overlay' = overlay /\ overlay \in BOOLEAN
      /\ at'[p] = y /\ \A q \in Pointer \ {p} : at'[q] = at[q]
  BY <1>1 DEF PointerDown, HeldInv, PointersOK
<1>3. drag # Nothing => drag \in Drag /\ drag.pointer # p /\ overlay /\ at'[drag.pointer] = drag.y
  BY <1>2, NothingIsNothing DEF HeldInv, PointersOK, GestureIsHeld, Drag
<1>4. press # Nothing => press \in Press /\ overlay /\ press.pointer # p
                         /\ at'[press.pointer] = at[press.pointer] /\ at[press.pointer] # Nothing
                         /\ Apart(at[press.pointer], press.y) <= PressSlop
  BY <1>2 DEF HeldInv, PointersOK, GestureIsHeld, Press
<1>5. CASE UNCHANGED gesture
  BY <1>2, <1>3, <1>4, <1>5 DEF gesture, HeldInv, PointersOK, GestureIsHeld
<1>6. CASE /\ overlay /\ scrolls' = FALSE /\ UNCHANGED press
           /\ \E id \in HitAlert(y) : drag' = [id |-> id, pointer |-> p, y |-> y]
  <2>1. PICK id \in Uuid : drag' = [id |-> id, pointer |-> p, y |-> y]
    BY <1>6 DEF HitAlert, Near
  <2>2. drag' \in Drag /\ drag' # Nothing /\ drag'.pointer = p /\ drag'.y = y
    BY <2>1, NothingIsNothing DEF Drag
  <2>. QED  BY <1>2, <1>4, <1>6, <2>2 DEF HeldInv, PointersOK, GestureIsHeld
<1>7. CASE /\ overlay /\ UNCHANGED <<drag, scrolls>>
           /\ press' = IF p \in Touch THEN [pointer |-> p, y |-> y] ELSE press
  <2>1. CASE p \in Touch
    <3>1. press' \in Press /\ press'.pointer = p /\ press'.y = y
      BY <1>7, <2>1 DEF Press
    <3>2. y # Nothing /\ Apart(y, y) <= PressSlop
      BY NothingIsNothing
    <3>. QED  BY <1>2, <1>3, <1>7, <3>1, <3>2 DEF HeldInv, PointersOK, GestureIsHeld
  <2>2. CASE p \notin Touch
    BY <1>2, <1>3, <1>4, <1>7, <2>2 DEF HeldInv, PointersOK, GestureIsHeld
  <2>. QED  BY <2>1, <2>2
<1>. QED  BY <1>1, <1>5, <1>6, <1>7

LEMMA PointerDownAsideHeld ==
    ASSUME HeldInv, NEW p \in Pointer, PointerDownAside(p) PROVE HeldInv'
<1>1. PICK y \in Height : at' = [at EXCEPT ![p] = y]
  BY DEF PointerDownAside
<1>2. /\ at' \in [Pointer -> Height \cup {Nothing}] /\ at[p] = Nothing
      /\ \A q \in Pointer \ {p} : at'[q] = at[q]
  BY <1>1 DEF PointerDownAside, HeldInv, PointersOK
<1>3. drag # Nothing => drag \in Drag /\ drag.pointer # p
  BY <1>2, NothingIsNothing DEF HeldInv, PointersOK, GestureIsHeld, Drag
<1>4. press # Nothing => press \in Press /\ press.pointer # p
  BY <1>2 DEF HeldInv, PointersOK, GestureIsHeld
<1>5. UNCHANGED <<drag, press, scrolls, overlay>>
  BY DEF PointerDownAside, gesture
<1>. QED  BY <1>2, <1>3, <1>4, <1>5 DEF HeldInv, PointersOK, GestureIsHeld, Drag, Press

\* A pointer moves: the line it holds follows, and a press whose place it leaves is over.
LEMMA PointerMoveHeld == ASSUME HeldInv, NEW p \in Pointer, PointerMove(p) PROVE HeldInv'
<1>1. PICK y \in Height :
        /\ at' = [at EXCEPT ![p] = y]
        /\ drag' = IF drag # Nothing /\ drag.pointer = p THEN [drag EXCEPT !.y = y] ELSE drag
        /\ press' = PressAfter(y)
  BY DEF PointerMove
<1>2. /\ at' \in [Pointer -> Height \cup {Nothing}] /\ at'[p] = y /\ y # Nothing
      /\ \A q \in Pointer \ {p} : at'[q] = at[q]
      /\ scrolls' = scrolls /\ overlay' = overlay
  BY <1>1, NothingIsNothing DEF PointerMove, HeldInv, PointersOK
<1>3. /\ drag' \in Drag \cup {Nothing} /\ (drag' = Nothing <=> drag = Nothing)
      /\ drag' # Nothing => overlay /\ at'[drag'.pointer] = drag'.y
  <2>1. CASE drag # Nothing /\ drag.pointer = p
    <3>1. drag' \in Drag /\ drag'.pointer = p /\ drag'.y = y
      BY <1>1, <2>1 DEF HeldInv, PointersOK, Drag
    <3>. QED  BY <1>2, <2>1, <3>1, NothingIsNothing DEF HeldInv, GestureIsHeld
  <2>2. CASE ~(drag # Nothing /\ drag.pointer = p)
    BY <1>1, <1>2, <2>2 DEF HeldInv, PointersOK, GestureIsHeld, Drag
  <2>. QED  BY <2>1, <2>2
<1>4. /\ press' \in Press \cup {Nothing}
      /\ press' # Nothing => overlay /\ at'[press'.pointer] # Nothing
                            /\ Apart(at'[press'.pointer], press'.y) <= PressSlop
  <2>1. CASE press' = Nothing
    BY <2>1
  <2>2. CASE press' # Nothing
    <3>1. press' = press /\ press \in Press /\ ~(Apart(y, press.y) > PressSlop)
      BY <1>1, <2>2 DEF PressAfter, HeldInv, PointersOK
    <3>2. press.y \in Int /\ y \in Int /\ PressSlop \in Int
      BY <3>1, NothingIsNothing DEF Press
    <3>3. Apart(y, press.y) <= PressSlop
      BY <3>1, <3>2 DEF Apart
    <3>4. press.pointer \in Pointer
      BY <3>1 DEF Press
    <3>5. CASE press.pointer = p
      BY <1>2, <2>2, <3>1, <3>3, <3>5 DEF HeldInv, GestureIsHeld
    <3>6. CASE press.pointer # p
      BY <1>2, <2>2, <3>1, <3>4, <3>6 DEF HeldInv, GestureIsHeld
    <3>. QED  BY <3>5, <3>6
  <2>. QED  BY <2>1, <2>2
<1>5. PointersOK'
  BY <1>2, <1>3, <1>4 DEF HeldInv, PointersOK
<1>6. scrolls' = (drag' = Nothing)
  BY <1>2, <1>3 DEF HeldInv, PointersOK, GestureIsHeld
<1>. QED  BY <1>2, <1>3, <1>4, <1>5, <1>6 DEF HeldInv, GestureIsHeld

\* A gesture that ends, whichever pointer ended it.
LEMMA PointerEndsHeld == ASSUME HeldInv, NEW p \in Pointer, PointerEnds(p) PROVE HeldInv'
<1>1. drag' = Nothing /\ scrolls' = TRUE
  BY EndsHeld DEF PointerEnds
<1>. QED  BY <1>1 DEF PointerEnds, HeldInv, PointersOK, GestureIsHeld

LEMMA LostCaptureHeld == ASSUME HeldInv, LostCapture PROVE HeldInv'
<1>1. drag' = Nothing /\ scrolls' = TRUE
  BY EndsHeld DEF LostCapture
<1>. QED  BY <1>1 DEF LostCapture, HeldInv, PointersOK, GestureIsHeld

LEMMA OthersHeld ==
    ASSUME HeldInv,
           \/ LongPress \/ Unmount \/ Mount
           \/ UNCHANGED <<at, gesture, overlay>>
    PROVE  HeldInv'
<1>1. CASE LongPress
  BY <1>1 DEF LongPress, HeldInv, PointersOK, GestureIsHeld
<1>2. CASE Unmount
  BY <1>2 DEF Unmount, HeldInv, PointersOK, GestureIsHeld
<1>3. CASE Mount
  BY <1>3 DEF Mount, gesture, HeldInv, PointersOK, GestureIsHeld
<1>4. CASE UNCHANGED <<at, gesture, overlay>>
  BY <1>4 DEF gesture, HeldInv, PointersOK, GestureIsHeld
<1>. QED  BY <1>1, <1>2, <1>3, <1>4

LEMMA HeldStep == HeldInv /\ [ChartNext]_chartVars => HeldInv'
<1>. SUFFICES ASSUME HeldInv, [ChartNext]_chartVars PROVE HeldInv'
  OBVIOUS
<1>1. ASSUME NEW p \in Pointer, PointerDown(p) \/ PointerDownAside(p) \/ PointerMove(p) \/ PointerEnds(p)
      PROVE  HeldInv'
  BY <1>1, PointerDownHeld, PointerDownAsideHeld, PointerMoveHeld, PointerEndsHeld
<1>2. CASE LostCapture
  BY <1>2, LostCaptureHeld
<1>3. CASE LongPress \/ Unmount \/ Mount
  BY <1>3, OthersHeld
<1>4. CASE \/ \E id \in Uuid : OpenEditor(id) \/ DeleteElsewhere(id)
           \/ CreateByClick \/ SaveEditor \/ DeleteInEditor \/ CloseEditor
           \/ RenderChart \/ ScaleMoves \/ UNCHANGED chartVars
  <2>1. UNCHANGED <<at, gesture, overlay>>
    BY <1>4 DEF OpenEditor, DeleteElsewhere, CreateByClick, SaveEditor, DeleteInEditor, CloseEditor,
                RenderChart, ScaleMoves, chartVars, gesture
  <2>. QED  BY <2>1, OthersHeld
<1>. QED  BY <1>1, <1>2, <1>3, <1>4 DEF ChartNext

\* However its gesture ends, the chart scrolls again, and a long press dies with its finger.
THEOREM GestureIsHeldSafe == ChartSpec => []GestureIsHeld
<1>1. HeldInv => GestureIsHeld
  BY DEF HeldInv
<1>. QED  BY InitHeld, HeldStep, <1>1, PTL DEF ChartSpec

-----------------------------------------------------------------------------
(* A deleted alert.                                                        *)

\* What a step may do to the prices: create an alert never given, give a new price to one
\* there is, or remove one.
Kept == \A id \in given : prices[id] = Nothing => prices'[id] = Nothing

PricesInv == prices = [id \in Uuid |-> prices[id]] /\ given \subseteq Uuid

\* A price is only written to an alert that is there.
LEMMA UpdateKeeps ==
    ASSUME PricesInv, NEW id, NEW price, UpdateManualAlert(id, price) \/ UNCHANGED prices, UNCHANGED given
    PROVE  PricesInv' /\ Kept
BY DEF UpdateManualAlert, PricesInv, Kept

LEMMA CreateKeeps ==
    ASSUME PricesInv, NEW price, CreateManualAlert(price)
    PROVE  PricesInv' /\ Kept
<1>1. PICK id \in Uuid \ given : prices' = [prices EXCEPT ![id] = price] /\ given' = given \cup {id}
  BY DEF CreateManualAlert
<1>. QED  BY <1>1 DEF PricesInv, Kept

LEMMA DeleteKeeps ==
    ASSUME PricesInv, NEW id, prices' = [prices EXCEPT ![id] = Nothing], UNCHANGED given
    PROVE  PricesInv' /\ Kept
BY DEF PricesInv, Kept

LEMMA EndDragKeeps ==
    ASSUME PricesInv, NEW commit \in BOOLEAN, EndDrag(commit), UNCHANGED given
    PROVE  PricesInv' /\ Kept
<1>1. UpdateManualAlert(drag.id, PriceAtY(drag.y)) \/ UNCHANGED prices
  BY DEF EndDrag
<1>. QED  BY <1>1, UpdateKeeps

LEMMA KeptStep == PricesInv /\ [ChartNext]_chartVars => PricesInv' /\ Kept
<1>. SUFFICES ASSUME PricesInv, [ChartNext]_chartVars PROVE PricesInv' /\ Kept
  OBVIOUS
<1>1. CASE UNCHANGED <<prices, given>>
  BY <1>1 DEF PricesInv, Kept
<1>2. ASSUME NEW p \in Pointer, PointerDown(p) \/ PointerDownAside(p) \/ PointerMove(p)
      PROVE  UNCHANGED <<prices, given>>
  BY <1>2 DEF PointerDown, PointerDownAside, PointerMove
<1>3. ASSUME NEW p \in Pointer, PointerEnds(p) PROVE PricesInv' /\ Kept
  BY <1>3, EndDragKeeps DEF PointerEnds
<1>4. CASE LostCapture
  BY <1>4, EndDragKeeps DEF LostCapture
<1>5. CASE LongPress \/ CreateByClick
  BY <1>5, CreateKeeps DEF LongPress, CreateByClick
<1>6. CASE SaveEditor
  <2>1. PICK price \in ScalePrice : OnEditAlert(editing.id, price)
    BY <1>6 DEF SaveEditor
  <2>. QED  BY <1>6, <2>1, UpdateKeeps DEF SaveEditor, OnEditAlert
<1>7. CASE DeleteInEditor
  BY <1>7, DeleteKeeps DEF DeleteInEditor
<1>8. ASSUME NEW id \in Uuid, DeleteElsewhere(id) PROVE PricesInv' /\ Kept
  BY <1>8, DeleteKeeps DEF DeleteElsewhere
<1>9. ASSUME NEW id \in Uuid, OpenEditor(id) PROVE UNCHANGED <<prices, given>>
  BY <1>9 DEF OpenEditor
<1>10. CASE CloseEditor \/ RenderChart \/ ScaleMoves \/ Unmount \/ Mount \/ UNCHANGED chartVars
  BY <1>1, <1>10 DEF CloseEditor, RenderChart, ScaleMoves, Unmount, Mount, chartVars
<1>. QED  BY <1>1, <1>2, <1>3, <1>4, <1>5, <1>6, <1>7, <1>8, <1>9, <1>10 DEF ChartNext

\* No gesture, however late it ends, brings back an alert deleted meanwhile.
THEOREM DeletedAlertStaysSafe == ChartSpec => DeletedAlertStays
<1>1. ChartInit => PricesInv
  BY DEF ChartInit, PricesInv
<1>2. PricesInv /\ [ChartNext]_chartVars =>
        [\A id \in given : prices[id] = Nothing => prices'[id] = Nothing]_chartVars
  BY KeptStep DEF Kept
<1>. QED  BY <1>1, <1>2, KeptStep, PTL DEF ChartSpec, DeletedAlertStays

-----------------------------------------------------------------------------
(* The tabs of the local agent.  OneTwsConnection rests on the clocks: the *)
(* call that holds the lock has one connection, at most five seconds old   *)
(* while it connects and at most five more than its work while it works;   *)
(* so a call that is not for bars is over before the browser would give up *)
(* on it.                                                                  *)

\* The calls, without the sequence they wait in.
Typed ==
    /\ queue \in Seq(Call) /\ sent \in BOOLEAN /\ fetchAge \in 0..FetchTimeout
    /\ connections \subseteq Connection
    /\ sent => queue # <<>>

Waiting(c) == c.browser = "waits"

\* The call sent is the only one that waits, and it has one connection.
LockInv ==
    /\ sent => \E c \in connections : Waiting(c)
    /\ \A c \in connections : Waiting(c) => sent
    /\ \A c, d \in connections : Waiting(c) /\ Waiting(d) => c = d

\* A handler is within its deadline, and what the browser has waited is what it spent.
ClockInv ==
    \A c \in connections :
        /\ Left(c) >= 0
        /\ Waiting(c) /\ c.phase = "connecting" => fetchAge = c.since
        /\ Waiting(c) /\ c.phase = "working" => fetchAge <= ConnectTimeout + c.since

TwsInv == Typed /\ LockInv /\ ClockInv /\ OneTwsConnection

\* The deadlines of the agent are numbers of seconds.
LEMMA Deadlines ==
    /\ \A kind \in Kind : WorkTimeout[kind] \in Nat
    /\ \A kind \in Kind : kind # "bars" => ConnectTimeout + WorkTimeout[kind] < FetchTimeout
<1>1. \A kind \in Kind : WorkTimeout[kind] =
        IF kind = "snapshot" THEN PnlTimeout ELSE IF kind = "quotes" THEN QuotesTimeout ELSE BarsTimeout
  BY DEF WorkTimeout
<1>. QED  BY <1>1, TwsAssumption DEF Kind, PnlTimeout, QuotesTimeout, ConnectTimeout, FetchTimeout

\* What a handler has left is a number.
LEMMA LeftIsANumber ==
    ASSUME NEW c \in Connection
    PROVE  Left(c) \in Int /\ c.since \in Nat /\ c.kind \in Kind
<1>1. c.since \in Nat /\ c.kind \in Kind
  BY DEF Connection
<1>2. WorkTimeout[c.kind] \in Nat
  BY <1>1, Deadlines
<1>. QED  BY <1>1, <1>2 DEF Left, ConnectTimeout

\* A call just sent, or none at all, has waited no time.
LEMMA NoWait == 0 \in 0..FetchTimeout
BY DEF FetchTimeout

LEMMA InitInv == TwsInit => TwsInv
<1>. SUFFICES ASSUME TwsInit PROVE TwsInv
  OBVIOUS
<1>1. Typed
  <2>1. <<>> \in Seq(Call)
    OBVIOUS
  <2>2. queue \in Seq(Call)
    BY <2>1 DEF TwsInit
  <2>3. fetchAge \in 0..FetchTimeout
    BY DEF TwsInit, FetchTimeout
  <2>. QED  BY <2>2, <2>3 DEF TwsInit, Typed
<1>2. LockInv /\ ClockInv /\ OneTwsConnection
  BY DEF TwsInit, LockInv, ClockInv, OneTwsConnection
<1>. QED  BY <1>1, <1>2 DEF TwsInv

\* A call joins the lock.
LEMMA AskInv ==
    ASSUME TwsInv, NEW tab \in Tab, NEW kind \in Kind, Ask(tab, kind)
    PROVE  TwsInv'
<1>1. [tab |-> tab, kind |-> kind] \in Call
  BY DEF Call
<1>2. queue' \in Seq(Call) /\ queue' # <<>>
  BY <1>1 DEF TwsInv, Typed, Ask
<1>. QED
  BY <1>2 DEF TwsInv, Typed, LockInv, ClockInv, OneTwsConnection, Ask, Left, Waiting

\* The connection of the call given up, or lost with its tab, is nobody's.
LEMMA OrphanInv ==
    ASSUME TwsInv, NEW how \in {"gave up", "closed"}, Orphaned(how), sent' = FALSE, fetchAge' = 0,
           queue' \in Seq(Call),
           how = "gave up" => \A c \in connections : Waiting(c) => c.kind = "bars"
    PROVE  TwsInv'
<1>1. connections' \subseteq Connection
  BY DEF TwsInv, Typed, Orphaned, Connection
<1>2. \A c \in connections' : ~Waiting(c)
  BY DEF TwsInv, Typed, Orphaned, Connection, Waiting
<1>3. \A c \in connections' : Left(c) >= 0
  <2>1. \A c \in connections : Left([c EXCEPT !.browser = how]) = Left(c)
    BY DEF TwsInv, Typed, Left, Connection
  <2>. QED  BY <2>1 DEF TwsInv, ClockInv, Orphaned
<1>4. OneTwsConnection'
  BY DEF TwsInv, Typed, OneTwsConnection, Orphaned, Connection, Waiting
<1>5. Typed'
  <2>1. fetchAge' \in 0..FetchTimeout
    BY NoWait, Zenon
  <2>. QED  BY <1>1, <2>1 DEF Typed
<1>6. LockInv'
  BY <1>2 DEF LockInv, Waiting
<1>7. ClockInv'
  BY <1>2, <1>3 DEF ClockInv, Waiting, Left
<1>. QED  BY <1>4, <1>5, <1>6, <1>7 DEF TwsInv

\* The calls of the other tabs keep waiting, and the one sent stays at the head.
LEMMA WithdrawnQueue ==
    ASSUME NEW tab \in Tab, queue \in Seq(Call), Withdrawn(tab)
    PROVE  /\ queue' \in Seq(Call)
           /\ queue # <<>> /\ Head(queue).tab # tab => queue' # <<>>
<1>1. CASE UNCHANGED queue
  BY <1>1
<1>2. ASSUME NEW i \in DOMAIN queue, queue[i].tab = tab,
             queue' = SubSeq(queue, 1, i - 1) \o SubSeq(queue, i + 1, Len(queue))
      PROVE  /\ queue' \in Seq(Call)
             /\ Head(queue).tab # tab => queue' # <<>>
  <2>1. i \in 1..Len(queue)
    OBVIOUS
  <2>2. SubSeq(queue, 1, i - 1) \in Seq(Call) /\ SubSeq(queue, i + 1, Len(queue)) \in Seq(Call)
    BY <2>1
  <2>3. i # 1 => Len(SubSeq(queue, 1, i - 1)) > 0
    BY <2>1
  <2>4. queue' \in Seq(Call) /\ Len(queue') = Len(SubSeq(queue, 1, i - 1)) + Len(SubSeq(queue, i + 1, Len(queue)))
    BY <1>2, <2>2
  <2>5. i = 1 => Head(queue).tab = tab
    BY <1>2, <2>1
  <2>. QED  BY <2>2, <2>3, <2>4, <2>5
<1>. QED  BY <1>1, <1>2 DEF Withdrawn

LEMMA CloseInv ==
    ASSUME TwsInv, NEW tab \in Tab, CloseTab(tab)
    PROVE  TwsInv'
<1>1. queue' \in Seq(Call)
  BY WithdrawnQueue DEF TwsInv, Typed, CloseTab
<1>2. CASE sent /\ Head(queue).tab = tab
  BY <1>1, <1>2, OrphanInv DEF CloseTab
<1>3. CASE ~(sent /\ Head(queue).tab = tab)
  <2>1. sent => queue' # <<>>
    BY <1>3, WithdrawnQueue DEF TwsInv, Typed, CloseTab
  <2>. QED
    BY <1>1, <1>3, <2>1 DEF TwsInv, Typed, LockInv, ClockInv, OneTwsConnection, CloseTab, Left, Waiting
<1>. QED  BY <1>2, <1>3

\* The call at the head is sent, with a connection of its own.
LEMMA SendInv ==
    ASSUME TwsInv, Send
    PROVE  TwsInv'
<1>. DEFINE new == [kind |-> Head(queue).kind, phase |-> "connecting", since |-> 0, browser |-> "waits"]
<1>1. Head(queue) \in Call /\ new \in Connection
  <2>1. Head(queue) \in Call
    BY DEF TwsInv, Typed, Send
  <2>. QED  BY <2>1 DEF Call, Connection
<1>2. Waiting(new) /\ Left(new) >= 0 /\ new.phase = "connecting" /\ new.since = 0
  BY DEF Waiting, Left, ConnectTimeout
<1>3. \A c \in connections : ~Waiting(c)
  BY DEF TwsInv, LockInv, Send
<1>4. connections' = connections \cup {new} /\ sent' = TRUE /\ fetchAge' = 0 /\ queue' = queue /\ queue # <<>>
  BY DEF Send
<1>. HIDE DEF new
<1>5. Typed'
  BY <1>1, <1>4 DEF TwsInv, Typed, FetchTimeout
<1>6. LockInv'
  BY <1>2, <1>3, <1>4 DEF LockInv, Waiting
<1>7. ClockInv'
  BY <1>2, <1>3, <1>4 DEF TwsInv, ClockInv, Waiting, Left
<1>8. OneTwsConnection'
  BY <1>2, <1>4 DEF TwsInv, OneTwsConnection, Waiting
<1>. QED  BY <1>5, <1>6, <1>7, <1>8 DEF TwsInv

\* What remains once the call at the head is settled.
LEMMA SettledQueue ==
    ASSUME TwsInv, Settle, sent
    PROVE  queue' \in Seq(Call) /\ sent' = FALSE /\ fetchAge' = 0
BY DEF TwsInv, Typed, Settle

\* Fifteen seconds without an answer: the connection was asked for bars.
LEMMA GivesUpInv ==
    ASSUME TwsInv, GivesUp
    PROVE  TwsInv'
<1>1. \A c \in connections : Waiting(c) => c.kind = "bars"
  <2>. SUFFICES ASSUME NEW c \in connections, Waiting(c), c.kind # "bars"
                PROVE  FALSE
    OBVIOUS
  <2>1. c \in Connection
    BY DEF TwsInv, Typed
  <2>2. Left(c) >= 0 /\ fetchAge = FetchTimeout
    BY DEF TwsInv, ClockInv, GivesUp
  <2>3. WorkTimeout[c.kind] \in Nat /\ ConnectTimeout + WorkTimeout[c.kind] < FetchTimeout /\ c.since \in Nat
    BY <2>1, Deadlines, LeftIsANumber
  <2>4. CASE c.phase = "connecting"
    BY <2>2, <2>3, <2>4 DEF TwsInv, ClockInv, Left, ConnectTimeout, FetchTimeout
  <2>5. CASE c.phase = "working"
    BY <2>2, <2>3, <2>5 DEF TwsInv, ClockInv, Left, ConnectTimeout, FetchTimeout
  <2>. QED  BY <2>1, <2>4, <2>5 DEF Connection
<1>2. queue' \in Seq(Call) /\ sent' = FALSE /\ fetchAge' = 0
  BY SettledQueue DEF GivesUp
<1>. QED  BY <1>1, <1>2, OrphanInv DEF GivesUp

\* TWS lets the handler in.
LEMMA ConnectedInv ==
    ASSUME TwsInv, NEW c \in connections, Connected(c)
    PROVE  TwsInv'
<1>. DEFINE new == [c EXCEPT !.phase = "working", !.since = 0]
<1>1. c \in Connection /\ c.phase = "connecting"
  BY DEF TwsInv, Typed, Connected
<1>2. /\ new \in Connection /\ new.browser = c.browser /\ new.kind = c.kind
      /\ new.phase = "working" /\ new.since = 0
  BY <1>1 DEF Connection
<1>3. connections' = (connections \ {c}) \cup {new} /\ UNCHANGED <<queue, sent, fetchAge>>
  BY DEF Connected
<1>4. Left(new) >= 0
  <2>1. WorkTimeout[new.kind] \in Nat
    BY <1>1, <1>2, LeftIsANumber, Deadlines
  <2>. QED  BY <1>2, <2>1 DEF Left
<1>5. Waiting(c) => fetchAge <= ConnectTimeout
  <2>1. Left(c) = ConnectTimeout - c.since
    BY <1>1 DEF Left
  <2>. QED  BY <1>1, <2>1, LeftIsANumber DEF TwsInv, ClockInv, ConnectTimeout
<1>. HIDE DEF new
<1>6. Typed'
  BY <1>2, <1>3 DEF TwsInv, Typed
<1>7. LockInv'
  BY <1>2, <1>3 DEF TwsInv, LockInv, Waiting
<1>8. ClockInv'
  BY <1>2, <1>3, <1>4, <1>5 DEF TwsInv, ClockInv, Waiting, Left, ConnectTimeout
<1>9. OneTwsConnection'
  BY <1>2, <1>3 DEF TwsInv, OneTwsConnection
<1>. QED  BY <1>6, <1>7, <1>8, <1>9 DEF TwsInv

\* The handler is over, and its call with it.
LEMMA ClosesInv ==
    ASSUME TwsInv, NEW c \in connections, Closes(c)
    PROVE  TwsInv'
<1>1. CASE Waiting(c)
  <2>1. Settle /\ sent /\ connections' = connections \ {c}
    BY <1>1 DEF Closes, Waiting, TwsInv, LockInv
  <2>2. queue' \in Seq(Call) /\ sent' = FALSE /\ fetchAge' = 0
    BY <2>1, SettledQueue
  <2>3. \A d \in connections' : ~Waiting(d)
    BY <1>1, <2>1 DEF TwsInv, LockInv
  <2>4. Typed'
    <3>1. fetchAge' \in 0..FetchTimeout
      BY <2>2 DEF FetchTimeout
    <3>. QED  BY <2>1, <2>2, <3>1 DEF TwsInv, Typed
  <2>5. LockInv'
    BY <2>2, <2>3 DEF LockInv, Waiting
  <2>6. ClockInv' /\ OneTwsConnection'
    BY <2>1, <2>3 DEF TwsInv, ClockInv, OneTwsConnection, Waiting, Left
  <2>. QED  BY <2>4, <2>5, <2>6 DEF TwsInv
<1>2. CASE ~Waiting(c)
  <2>1. UNCHANGED <<queue, sent, fetchAge>> /\ connections' = connections \ {c}
    BY <1>2 DEF Closes, Waiting
  <2>. QED
    BY <1>2, <2>1 DEF TwsInv, Typed, LockInv, ClockInv, OneTwsConnection, Waiting, Left
<1>. QED  BY <1>1, <1>2

\* A second passes, when no deadline has come.
LEMMA SecondInv ==
    ASSUME TwsInv, Second
    PROVE  TwsInv'
<1>. DEFINE Older(c) == [c EXCEPT !.since = @ + 1]
<1>1. \A c \in connections :
        /\ c \in Connection /\ Older(c) \in Connection /\ Older(c).since = c.since + 1
        /\ Older(c).kind = c.kind /\ Older(c).phase = c.phase /\ Older(c).browser = c.browser
  <2>1. \A c \in Connection : c.since + 1 \in Nat
    BY LeftIsANumber
  <2>. QED  BY <2>1 DEF TwsInv, Typed, Connection
<1>2. \A c \in connections : Left(Older(c)) = Left(c) - 1 /\ Left(c) \in Int /\ Left(c) > 0 /\ c.since \in Nat
  <2>1. \A c \in connections : Left(c) \in Int /\ c.since \in Nat /\ Left(c) > 0 /\ c.kind \in Kind
    BY <1>1, LeftIsANumber DEF Second
  <2>2. \A c \in connections : WorkTimeout[c.kind] \in Nat
    BY <2>1, Deadlines
  <2>. QED  BY <1>1, <2>1, <2>2 DEF Left, ConnectTimeout
<1>3. connections' = {Older(c) : c \in connections} /\ queue' = queue /\ sent' = sent
  BY DEF Second
<1>. HIDE DEF Older
<1>4. sent => fetchAge' = fetchAge + 1 /\ fetchAge' <= FetchTimeout
  BY DEF Second, TwsInv, Typed, FetchTimeout
<1>5. ~sent => fetchAge' = 0
  BY DEF Second
<1>6. Typed'
  BY <1>1, <1>3, <1>4, <1>5 DEF TwsInv, Typed, FetchTimeout
<1>7. LockInv'
  BY <1>1, <1>3 DEF TwsInv, LockInv, Waiting
<1>8. ClockInv'
  <2>1. \A c \in connections : Left(Older(c)) >= 0
    BY <1>2
  <2>2. \A c \in connections : Waiting(Older(c)) => Waiting(c) /\ sent /\ fetchAge' = fetchAge + 1
    BY <1>1, <1>4 DEF TwsInv, LockInv, Waiting
  <2>3. fetchAge \in Nat
    BY DEF TwsInv, Typed
  <2>4. \A c \in connections :
          /\ Waiting(Older(c)) /\ Older(c).phase = "connecting" => fetchAge' = Older(c).since
          /\ Waiting(Older(c)) /\ Older(c).phase = "working" => fetchAge' <= ConnectTimeout + Older(c).since
    BY <1>1, <1>2, <2>2, <2>3 DEF TwsInv, ClockInv, ConnectTimeout
  <2>. QED  BY <1>3, <2>1, <2>4 DEF ClockInv, Waiting, Left
<1>9. OneTwsConnection'
  <2>1. \A c \in connections : Older(c).browser = "gave up" => Older(c).kind = "bars"
    BY <1>1 DEF TwsInv, OneTwsConnection
  <2>. QED  BY <1>3, <2>1 DEF OneTwsConnection
<1>. QED  BY <1>6, <1>7, <1>8, <1>9 DEF TwsInv

\* The types, the lock and the clocks hold in every state, whatever TWS does.
THEOREM TwsInvHolds == TwsSpec => []TwsInv
<1>1. TwsInv /\ [TwsNext]_twsVars => TwsInv'
  <2>. SUFFICES ASSUME TwsInv, [TwsNext]_twsVars PROVE TwsInv'
    OBVIOUS
  <2>1. CASE UNCHANGED twsVars
    BY <2>1 DEF twsVars, TwsInv, Typed, LockInv, ClockInv, OneTwsConnection, Waiting, Left
  <2>2. ASSUME NEW tab \in Tab, CloseTab(tab) PROVE TwsInv'
    BY <2>2, CloseInv
  <2>3. ASSUME NEW tab \in Tab, NEW kind \in Kind, Ask(tab, kind) PROVE TwsInv'
    BY <2>3, AskInv
  <2>4. CASE Send
    BY <2>4, SendInv
  <2>5. CASE GivesUp
    BY <2>5, GivesUpInv
  <2>6. ASSUME NEW c \in connections, Connected(c) \/ Closes(c) PROVE TwsInv'
    BY <2>6, ConnectedInv, ClosesInv
  <2>7. CASE Second
    BY <2>7, SecondInv
  <2>. QED  BY <2>1, <2>2, <2>3, <2>4, <2>5, <2>6, <2>7 DEF TwsNext, AgentWorks
<1>. QED  BY InitInv, <1>1, PTL DEF TwsSpec

\* Every variable keeps its type, and only the call at the head of the lock is sent.
THEOREM TwsTypeSafe == TwsSpec => []TwsTypeOK
<1>1. TwsInv => TwsTypeOK
  BY DEF TwsInv, Typed, TwsTypeOK
<1>. QED  BY TwsInvHolds, <1>1, PTL

\* TWS never turns a call away because of a pass or of quotes this browser gave up on.
THEOREM OneTwsConnectionSafe == TwsSpec => []OneTwsConnection
<1>1. TwsInv => OneTwsConnection
  BY DEF TwsInv
<1>. QED  BY TwsInvHolds, <1>1, PTL

-----------------------------------------------------------------------------
(* The automatic Flex sync.  NoAutomaticLoop rests on MemoryIsTheVisits: the *)
(* last attempt the code remembers is the last sync begun during the visit.  *)
(* That one needs to know that the instances of the hook are those of the    *)
(* account shown, so that an attempt is recorded exactly while its account   *)
(* is visited.                                                               *)

Attempt == [step : {"none", "reading", "pinging", "syncing"}, auto : BOOLEAN,
            last : 0..Days, mode : {"agent", "agent-and-server"}]
Settings == [flex : BOOLEAN, mode : {"agent", "agent-and-server"}, last : 0..Days, stale : BOOLEAN]

\* The instances of the hook, and their examinations, are those of the account shown.
MountInv ==
    /\ \A a \in Account : mounted[a] > 0 <=> shown = a
    /\ shown = Nobody => examining = {}

TriggerInv == TriggerTypeOK /\ MountInv /\ MemoryIsTheVisits

\* The views of the account shown are as many as its instances.
LEMMA ViewsAreInstances ==
    ASSUME TriggerTypeOK, MountInv, shown # Nobody
    PROVE  /\ shown \in Account /\ mounted[shown] \in 1..2
           /\ Cardinality(Views) = mounted[shown]
           /\ Views = View <=> mounted[shown] = 2
           /\ Views = {"layout"} <=> mounted[shown] = 1
<1>1. shown \in Account /\ mounted[shown] \in 1..2
  BY DEF TriggerTypeOK, MountInv
<1>2. View # {"layout"}
  BY DEF View
<1>3. CASE mounted[shown] = 2
  <2>1. Views = {"layout"} \cup {"sources"}
    BY <1>3 DEF Views, View
  <2>2. IsFiniteSet({"layout"}) /\ Cardinality({"layout"}) = 1
    BY FS_Singleton
  <2>3. Cardinality({"layout"} \cup {"sources"}) = 2
    BY <2>2, FS_AddElement
  <2>. QED  BY <1>1, <1>2, <1>3, <2>1, <2>3 DEF Views
<1>4. CASE mounted[shown] = 1
  <2>1. Cardinality({"layout"}) = 1
    BY FS_Singleton
  <2>. QED  BY <1>1, <1>2, <1>4, <2>1 DEF Views
<1>. QED  BY <1>1, <1>3, <1>4

\* Views are views, examined or not.
LEMMA ExaminedViews ==
    ASSUME NEW views \in SUBSET View, NEW status
    PROVE  /\ Views \subseteq View /\ Examine(views, status) \subseteq View
           /\ shown = Nobody => Views = {}
           /\ views = {} => Examine(views, status) = {}
BY DEF Views, View, Examine

LEMMA InitTrigger == TriggerInit => TriggerInv
<1>. SUFFICES ASSUME TriggerInit PROVE TriggerInv
  OBVIOUS
<1>1. 0 \in 0..Days /\ 0 \in 0..2
  BY TriggerAssumption
<1>2. NoAttempt \in Attempt
  BY <1>1 DEF NoAttempt, Attempt
<1>3. TriggerTypeOK
  <2>1. accounts \in [Account -> Settings]
    BY <1>1 DEF TriggerInit, Settings
  <2>2. attempt \in [Account -> Attempt] /\ mounted \in [Account -> 0..2]
    BY <1>1, <1>2 DEF TriggerInit
  <2>3. session \in Session /\ presence \in {"unknown", "absent", "present"}
    BY DEF TriggerInit, Session
  <2>. QED  BY <2>1, <2>2, <2>3 DEF TriggerInit, TriggerTypeOK, Settings, Attempt
<1>4. MountInv /\ MemoryIsTheVisits
  BY TriggerAssumption DEF TriggerInit, MountInv, MemoryIsTheVisits
<1>. QED  BY <1>3, <1>4 DEF TriggerInv

-----------------------------------------------------------------------------
(* The pages of the account.                                               *)

\* An account is entered.
LEMMA EnterInv == ASSUME TriggerInv, NEW a \in Account, Enter(a) PROVE TriggerInv'
<1>1. mounted[a] = 0
  BY TriggerAssumption DEF TriggerInv, TriggerTypeOK, MountInv, Enter
<1>2. mounted' \in [Account -> 0..2] /\ mounted'[a] = 1
  BY <1>1 DEF TriggerInv, TriggerTypeOK, Enter
<1>3. examining' \subseteq View
  BY ExaminedViews DEF Enter, View
<1>4. TriggerTypeOK'
  BY <1>2, <1>3 DEF TriggerInv, TriggerTypeOK, Enter, outside
<1>5. MountInv'
  BY <1>2, TriggerAssumption DEF TriggerInv, TriggerTypeOK, MountInv, Enter
<1>. QED  BY <1>4, <1>5 DEF TriggerInv, MemoryIsTheVisits, Enter

\* Its Sources page is opened.
LEMMA OpenSourcesInv == ASSUME TriggerInv, OpenSources PROVE TriggerInv'
<1>1. shown # Nobody
  BY DEF OpenSources, Views
<1>2. shown \in Account /\ mounted[shown] = 1
  BY <1>1, ViewsAreInstances DEF TriggerInv, OpenSources
<1>3. mounted' \in [Account -> 0..2] /\ mounted'[shown] = 2
  BY <1>2 DEF TriggerInv, TriggerTypeOK, OpenSources
<1>4. examining' \subseteq View
  <2>1. Examine({"sources"}, session) \subseteq View
    BY ExaminedViews DEF View
  <2>. QED  BY <2>1 DEF TriggerInv, TriggerTypeOK, OpenSources
<1>5. TriggerTypeOK'
  BY <1>3, <1>4 DEF TriggerInv, TriggerTypeOK, OpenSources, outside, place
<1>6. MountInv'
  BY <1>1, <1>2, <1>3 DEF TriggerInv, TriggerTypeOK, MountInv, OpenSources, place
<1>. QED  BY <1>5, <1>6 DEF TriggerInv, MemoryIsTheVisits, OpenSources

\* It is closed.
LEMMA CloseSourcesInv == ASSUME TriggerInv, CloseSources PROVE TriggerInv'
<1>1. shown # Nobody
  BY DEF CloseSources, Views, View
<1>2. shown \in Account /\ mounted[shown] = 2
  BY <1>1, ViewsAreInstances DEF TriggerInv, CloseSources
<1>3. mounted' \in [Account -> 0..2] /\ mounted'[shown] = 1
  BY <1>2 DEF TriggerInv, TriggerTypeOK, CloseSources, Unmounted
<1>4. attempts' = attempts
  BY <1>2 DEF CloseSources, Unmounted
<1>5. TriggerTypeOK'
  BY <1>3, <1>4 DEF TriggerInv, TriggerTypeOK, CloseSources, outside, place
<1>6. MountInv'
  BY <1>2, <1>3 DEF TriggerInv, TriggerTypeOK, MountInv, CloseSources, Unmounted, place
<1>. QED  BY <1>4, <1>5, <1>6 DEF TriggerInv, MemoryIsTheVisits, CloseSources

\* The account is left: its last instance forgets the last attempt.
LEMMA LeaveInv == ASSUME TriggerInv, Leave PROVE TriggerInv'
<1>1. /\ shown \in Account /\ mounted[shown] \in 1..2
      /\ Cardinality(Views) = mounted[shown]
  BY ViewsAreInstances DEF TriggerInv, Leave
<1>2. mounted' \in [Account -> 0..2] /\ mounted'[shown] = 0
  BY <1>1 DEF TriggerInv, TriggerTypeOK, Leave, Unmounted
<1>3. attempts' = [attempts EXCEPT ![shown] = Nobody]
  BY <1>1 DEF Leave, Unmounted
<1>4. attempts' \in [Account -> Key \cup {Nobody}] /\ synced' \in [Account -> Key \cup {Nobody}]
  BY <1>3 DEF TriggerInv, TriggerTypeOK, Leave
<1>5. TriggerTypeOK'
  BY <1>2, <1>4 DEF TriggerInv, TriggerTypeOK, Leave, outside
<1>6. MountInv'
  BY <1>1, <1>2, TriggerAssumption DEF TriggerInv, TriggerTypeOK, MountInv, Leave, Unmounted
<1>7. MemoryIsTheVisits'
  BY <1>1, <1>3 DEF TriggerInv, TriggerTypeOK, MemoryIsTheVisits, Leave
<1>. QED  BY <1>5, <1>6, <1>7 DEF TriggerInv

-----------------------------------------------------------------------------
(* The world around the page, and the steps that leave the attempts alone. *)

\* Nothing of the visit, of its attempts or of their memory.
Memory == <<shown, mounted, attempts, synced>>

\* What leaves the memory alone only has its types to keep.
LEMMA SameMemory ==
    ASSUME TriggerInv, TriggerTypeOK', UNCHANGED Memory, shown = Nobody => examining' = {}
    PROVE  TriggerInv'
BY DEF TriggerInv, MountInv, MemoryIsTheVisits, Memory

\* The session settles, or changes.
LEMMA SessionSettlesInv == ASSUME TriggerInv, SessionSettles PROVE TriggerInv'
<1>1. PICK status \in Session \ {"loading", session} : session' = status /\ Settles(status)
  BY DEF SessionSettles
<1>2. examining' \subseteq View /\ (shown = Nobody => examining' = {})
  BY <1>1, ExaminedViews DEF Settles
<1>3. TriggerTypeOK'
  BY <1>1, <1>2 DEF TriggerInv, TriggerTypeOK, SessionSettles, place
<1>. QED  BY <1>2, <1>3, SameMemory DEF SessionSettles, Memory, place

\* A ping finds the agent or not.
LEMMA PingedTypes ==
    ASSUME TriggerInv, Pinged
    PROVE  /\ presence' \in {"unknown", "absent", "present"} /\ examining' \subseteq View
           /\ shown = Nobody => examining' = {}
<1>1. Examine(Views, session) \subseteq View /\ (shown = Nobody => Examine(Views, session) = {})
  BY ExaminedViews
<1>. QED  BY <1>1 DEF Pinged, TriggerInv, TriggerTypeOK, MountInv

LEMMA WatcherPingsInv == ASSUME TriggerInv, WatcherPings PROVE TriggerInv'
<1>1. TriggerTypeOK'
  BY PingedTypes DEF WatcherPings, TriggerInv, TriggerTypeOK, outside, place
<1>. QED  BY <1>1, PingedTypes, SameMemory DEF WatcherPings, Memory, place

LEMMA AgentComesOrGoesInv == ASSUME TriggerInv, AgentComesOrGoes PROVE TriggerInv'
<1>1. TriggerTypeOK'
  BY DEF AgentComesOrGoes, TriggerInv, TriggerTypeOK, place
<1>. QED  BY <1>1, SameMemory DEF AgentComesOrGoes, Memory, place, TriggerInv, MountInv

LEMMA GrowsStaleInv == ASSUME TriggerInv, NEW a \in Account, GrowsStale(a) PROVE TriggerInv'
<1>1. TriggerTypeOK'
  BY ZenonT(30) DEF GrowsStale, TriggerInv, TriggerTypeOK, outside, place
<1>. QED  BY <1>1, SameMemory DEF GrowsStale, Memory, place, TriggerInv, MountInv

LEMMA EditAccountInv == ASSUME TriggerInv, NEW a \in Account, EditAccount(a) PROVE TriggerInv'
<1>1. accounts' \in [Account -> Settings]
  <2>1. accounts \in [Account -> Settings]
    BY DEF TriggerInv, TriggerTypeOK, Settings
  <2>2. CASE SaveCredentials(a) \/ ClearCredentials(a)
    <3>1. PICK flex \in BOOLEAN : accounts' = [accounts EXCEPT ![a].flex = flex]
      BY <2>1, <2>2 DEF SaveCredentials, ClearCredentials, Settings
    <3>2. [accounts[a] EXCEPT !.flex = flex] \in Settings
      BY <2>1 DEF Settings
    <3>3. accounts' = [accounts EXCEPT ![a] = [accounts[a] EXCEPT !.flex = flex]]
      BY <2>1, <3>1 DEF Settings
    <3>. QED  BY <2>1, <3>2, <3>3
  <2>3. CASE SetFlexRelay(a)
    <3>1. PICK mode \in {"agent", "agent-and-server"} : accounts' = [accounts EXCEPT ![a].mode = mode]
      BY <2>3 DEF SetFlexRelay
    <3>2. [accounts[a] EXCEPT !.mode = mode] \in Settings
      BY <2>1 DEF Settings
    <3>3. accounts' = [accounts EXCEPT ![a] = [accounts[a] EXCEPT !.mode = mode]]
      BY <2>1, <3>1 DEF Settings
    <3>. QED  BY <2>1, <3>2, <3>3
  <2>. QED  BY <2>2, <2>3 DEF EditAccount
<1>2. TriggerTypeOK'
  BY <1>1 DEF EditAccount, TriggerInv, TriggerTypeOK, Settings, outside, place
<1>. QED  BY <1>2, SameMemory DEF EditAccount, Memory, place, TriggerInv, MountInv

-----------------------------------------------------------------------------
(* The attempts.                                                           *)

\* An attempt begins, unless one is under way.
LEMMA BegunTypes ==
    ASSUME TriggerInv, NEW a \in Account, NEW auto \in BOOLEAN, Begun(a, auto)
    PROVE  attempt' \in [Account -> Attempt]
<1>1. 0 \in 0..Days
  BY TriggerAssumption
<1>2. [NoAttempt EXCEPT !.step = "reading", !.auto = auto] \in Attempt
  BY <1>1 DEF NoAttempt, Attempt
<1>3. attempt \in [Account -> Attempt]
  BY DEF TriggerInv, TriggerTypeOK, Attempt
<1>. QED  BY <1>2, <1>3 DEF Begun

LEMMA EndedTypes ==
    ASSUME TriggerInv, NEW a \in Account, Ended(a)
    PROVE  attempt' \in [Account -> Attempt]
<1>1. 0 \in 0..Days
  BY TriggerAssumption
<1>2. NoAttempt \in Attempt
  BY <1>1 DEF NoAttempt, Attempt
<1>. QED  BY <1>2 DEF Ended, TriggerInv, TriggerTypeOK, Attempt

LEMMA ExaminedInv == ASSUME TriggerInv, NEW view \in View, Examined(view) PROVE TriggerInv'
<1>1. shown \in Account
  BY DEF Examined, TriggerInv, TriggerTypeOK, MountInv
<1>2. attempt' \in [Account -> Attempt]
  BY <1>1, BegunTypes DEF Examined, TriggerInv, TriggerTypeOK, Attempt
<1>3. TriggerTypeOK'
  BY <1>2 DEF Examined, TriggerInv, TriggerTypeOK, Attempt, outside
<1>. QED  BY <1>1, <1>3, SameMemory, TriggerAssumption DEF Examined, Memory

LEMMA ClickInv == ASSUME TriggerInv, Click PROVE TriggerInv'
<1>1. shown \in Account
  BY DEF Click, Views, View, TriggerInv, TriggerTypeOK
<1>2. attempt' \in [Account -> Attempt]
  BY <1>1, BegunTypes DEF Click
<1>3. TriggerTypeOK'
  BY <1>2 DEF Click, TriggerInv, TriggerTypeOK, Attempt, outside, place
<1>. QED  BY <1>3, SameMemory DEF Click, Memory, place, TriggerInv, MountInv

LEMMA ReadAccountInv == ASSUME TriggerInv, NEW a \in Account, ReadAccount(a) PROVE TriggerInv'
<1>1. attempt' \in [Account -> Attempt]
  <2>1. CASE accounts[a].flex
    BY <2>1 DEF ReadAccount, TriggerInv, TriggerTypeOK, Attempt
  <2>2. CASE ~accounts[a].flex
    BY <2>2, EndedTypes DEF ReadAccount
  <2>. QED  BY <2>1, <2>2
<1>2. TriggerTypeOK'
  BY <1>1 DEF ReadAccount, TriggerInv, TriggerTypeOK, Attempt, outside, place
<1>. QED  BY <1>2, SameMemory DEF ReadAccount, Memory, place, TriggerInv, MountInv

LEMMA SyncEndsInv == ASSUME TriggerInv, NEW a \in Account, SyncEnds(a) PROVE TriggerInv'
<1>1. attempt' \in [Account -> Attempt]
  BY EndedTypes DEF SyncEnds
<1>2. accounts' \in [Account -> Settings]
  <2>1. accounts \in [Account -> Settings]
    BY DEF TriggerInv, TriggerTypeOK, Settings
  <2>2. accounts[a].last < Days => accounts[a].last + 1 \in 0..Days
    BY <2>1, TriggerAssumption DEF Settings
  <2>. QED  BY <2>1, <2>2 DEF SyncEnds, Settings
<1>3. TriggerTypeOK'
  BY <1>1, <1>2 DEF SyncEnds, TriggerInv, TriggerTypeOK, Attempt, Settings, outside, place
<1>. QED  BY <1>3, SameMemory DEF SyncEnds, Memory, place, TriggerInv, MountInv

\* The ping of an attempt: the attempt is over, or it is recorded and its sync begins.
LEMMA PingAnsweredInv == ASSUME TriggerInv, NEW a \in Account, PingAnswered(a) PROVE TriggerInv'
<1>. DEFINE picked == PickRelay(attempt[a].mode, agentUp, session)
            key == [relay |-> picked, last |-> attempt[a].last]
            kept == picked = Nobody \/ Repeats(a, key)
<1>1. CASE kept
  <2>1. attempt' \in [Account -> Attempt] /\ UNCHANGED <<attempts, synced>>
    BY <1>1, EndedTypes DEF PingAnswered
  <2>2. TriggerTypeOK'
    BY <2>1, PingedTypes DEF PingAnswered, TriggerInv, TriggerTypeOK, Attempt, outside, place
  <2>. QED  BY <2>1, <2>2, PingedTypes, SameMemory DEF PingAnswered, Memory, place
<1>2. CASE ~kept
  <2>1. key \in Key
    BY <1>2 DEF PickRelay, Key, TriggerInv, TriggerTypeOK
  <2>2. /\ attempt' = [attempt EXCEPT ![a].step = "syncing"]
        /\ attempts' = IF mounted[a] > 0 THEN [attempts EXCEPT ![a] = key] ELSE attempts
        /\ synced' = IF shown = a THEN [synced EXCEPT ![a] = key] ELSE synced
    BY <1>2 DEF PingAnswered, AttemptRecorded
  <2>3. mounted[a] > 0 <=> shown = a
    BY DEF TriggerInv, MountInv
  <2>. HIDE DEF key, kept
  <2>4. /\ attempt' \in [Account -> Attempt]
        /\ attempts' \in [Account -> Key \cup {Nobody}]
        /\ synced' \in [Account -> Key \cup {Nobody}]
    BY <2>1, <2>2 DEF TriggerInv, TriggerTypeOK, Attempt
  <2>5. TriggerTypeOK'
    BY <2>4, PingedTypes DEF PingAnswered, TriggerInv, TriggerTypeOK, Attempt, outside, place
  <2>6. MountInv'
    BY PingedTypes DEF PingAnswered, TriggerInv, MountInv, place
  <2>7. MemoryIsTheVisits'
    BY <2>2, <2>3 DEF TriggerInv, TriggerTypeOK, MemoryIsTheVisits
  <2>. QED  BY <2>5, <2>6, <2>7 DEF TriggerInv
<1>. QED  BY <1>1, <1>2

-----------------------------------------------------------------------------
\* Every step keeps the types, the instances and the memory.
LEMMA TriggerStep == TriggerInv /\ [TriggerNext]_triggerVars => TriggerInv'
<1>. SUFFICES ASSUME TriggerInv, [TriggerNext]_triggerVars PROVE TriggerInv'
  OBVIOUS
<1>1. CASE UNCHANGED triggerVars
  BY <1>1 DEF triggerVars, outside, place, TriggerInv, TriggerTypeOK, MountInv, MemoryIsTheVisits
<1>2. CASE Visits
  BY <1>2, EnterInv, OpenSourcesInv, CloseSourcesInv, LeaveInv, ClickInv, EditAccountInv DEF Visits
<1>3. CASE World
  BY <1>3, SessionSettlesInv, AgentComesOrGoesInv, WatcherPingsInv, GrowsStaleInv DEF World
<1>4. CASE Progress
  BY <1>4, ExaminedInv, ReadAccountInv, PingAnsweredInv, SyncEndsInv DEF Progress
<1>. QED  BY <1>1, <1>2, <1>3, <1>4 DEF TriggerNext

\* The types, the instances and the memory of the visit hold in every state.
THEOREM TriggerInvHolds == TriggerSpec => []TriggerInv
BY InitTrigger, TriggerStep, PTL DEF TriggerSpec

\* Every variable of the trigger keeps its type.
THEOREM TriggerTypeSafe == TriggerSpec => []TriggerTypeOK
<1>1. TriggerInv => TriggerTypeOK
  BY DEF TriggerInv
<1>. QED  BY TriggerInvHolds, <1>1, PTL

\* The last attempt that useFlexAutoSync remembers is the last sync begun in the visit.
THEOREM MemoryIsTheVisitsSafe == TriggerSpec => []MemoryIsTheVisits
<1>1. TriggerInv => MemoryIsTheVisits
  BY DEF TriggerInv
<1>. QED  BY TriggerInvHolds, <1>1, PTL

-----------------------------------------------------------------------------
(* The trigger does not loop.                                              *)

\* The sync of an account begins: it was pinging, it is syncing.
SyncBegins(a) == attempt[a].step = "pinging" /\ attempt'[a].step = "syncing"

\* It is the answer to its ping that begins a sync.
LEMMA SyncBeginsByItsPing ==
    ASSUME TriggerInv, [TriggerNext]_triggerVars, NEW a \in Account, SyncBegins(a)
    PROVE  PingAnswered(a)
<1>1. attempt \in [Account -> Attempt]
  BY DEF TriggerInv, TriggerTypeOK, Attempt
<1>2. attempt' # attempt
  BY DEF SyncBegins
<1>3. ASSUME NEW b \in Account, Ended(b) PROVE FALSE
  BY <1>1, <1>3 DEF Ended, SyncBegins, NoAttempt
<1>4. ASSUME NEW b \in Account, NEW auto \in BOOLEAN, Begun(b, auto) PROVE FALSE
  BY <1>1, <1>4 DEF Begun, SyncBegins, NoAttempt
<1>5. ~UNCHANGED triggerVars
  BY <1>2 DEF triggerVars
<1>6. ~Visits
  <2>1. ~Click
    <3>1. Click => shown \in Account
      BY DEF Click, Views, View, TriggerInv, TriggerTypeOK
    <3>. QED  BY <3>1, <1>4 DEF Click
  <2>. QED  BY <1>2, <2>1 DEF Visits, Enter, OpenSources, CloseSources, Leave, EditAccount
<1>7. ~World
  BY <1>2 DEF World, SessionSettles, AgentComesOrGoes, WatcherPings, GrowsStale
<1>8. ASSUME NEW view \in View, Examined(view) PROVE FALSE
  <2>1. shown \in Account
    BY <1>8 DEF Examined, TriggerInv, TriggerTypeOK, MountInv
  <2>. QED  BY <1>2, <1>4, <1>8, <2>1 DEF Examined
<1>9. ASSUME NEW b \in Account, ReadAccount(b) PROVE FALSE
  BY <1>1, <1>3, <1>9 DEF ReadAccount, SyncBegins
<1>10. ASSUME NEW b \in Account, SyncEnds(b) PROVE FALSE
  BY <1>3, <1>10 DEF SyncEnds
<1>11. ASSUME NEW b \in Account, PingAnswered(b) PROVE a = b
  <2>1. Ended(b) => FALSE
    BY <1>3
  <2>2. attempt' = [attempt EXCEPT ![b].step = "syncing"]
    BY <1>11, <2>1 DEF PingAnswered
  <2>. QED  BY <1>1, <2>2 DEF SyncBegins
<1>. QED  BY <1>5, <1>6, <1>7, <1>8, <1>9, <1>10, <1>11 DEF TriggerNext, Progress

LEMMA NoLoopStep ==
    ASSUME TriggerInv, [TriggerNext]_triggerVars, NEW a \in Account,
           attempt[a].auto, SyncBegins(a), shown = a
    PROVE  synced'[a] # synced[a]
<1>. DEFINE key == [relay |-> PickRelay(attempt[a].mode, agentUp, session), last |-> attempt[a].last]
<1>1. PingAnswered(a)
  BY SyncBeginsByItsPing
<1>2. attempt \in [Account -> Attempt] /\ synced \in [Account -> Key \cup {Nobody}]
  BY DEF TriggerInv, TriggerTypeOK, Attempt
<1>3. ~Ended(a)
  BY <1>2 DEF Ended, SyncBegins, NoAttempt
<1>4. ~Repeats(a, key) /\ synced' = [synced EXCEPT ![a] = key]
  BY <1>1, <1>3 DEF PingAnswered
<1>. HIDE DEF key
<1>5. attempts[a] # key /\ attempts[a] = synced[a]
  BY <1>4 DEF Repeats, TriggerInv, MemoryIsTheVisits
<1>. QED  BY <1>2, <1>4, <1>5

\* Within a visit, an automatic sync is never the one made just before, whatever happens
\* during the awaits of its attempt.
THEOREM NoAutomaticLoopSafe == TriggerSpec => NoAutomaticLoop
<1>1. TriggerInv /\ [TriggerNext]_triggerVars =>
        [\A a \in Account :
            attempt[a].auto /\ attempt[a].step = "pinging" /\ attempt'[a].step = "syncing"
               => synced'[a] # synced[a] \/ shown # a]_triggerVars
  BY NoLoopStep DEF SyncBegins
<1>. QED  BY TriggerInvHolds, <1>1, PTL DEF TriggerSpec, NoAutomaticLoop

-----------------------------------------------------------------------------
(* The schedule of a sync fits the limits of the server.                   *)

\* The histories hold the calls still inside their windows.
HistoriesType ==
    /\ wake \in [Sync -> Nat]
    /\ waits \in [Sync -> Nat]
    /\ step \in [Sync -> Step]
    /\ IsFiniteSet(rate)
    /\ \A e \in burst : e \in [by : Sync, age : Nat] /\ e.age < Burst.window
    /\ \A e \in rate : e \in [by : Sync, age : Nat] /\ e.age < Rate.window

Own(history, s) == {e \in history : e.by = s}

\* A sync that was never turned away has called once, then polled: its polls lie PollWait
\* apart, the next one included, and only its first call - some q half-seconds old - is
\* nearer to them.
Spaced(s) ==
    /\ \A e \in Own(burst, s) : e.age + wake[s] >= Burst.window
    /\ \E q \in Int :
          /\ \A e \in Own(rate, s) : e.age # q => e.age + wake[s] >= PollWait
          /\ \A e, f \in Own(rate, s) :
                e.age # q /\ f.age # q /\ e.age < f.age => f.age - e.age >= PollWait
NotYet(s) == Own(burst, s) = {} /\ Own(rate, s) = {}

OnSchedule(s) ==
    /\ step[s] = "unstarted" => NotYet(s)
    /\ relay[s] = "server" /\ waits[s] = MaxThrottleWaits =>
          /\ step[s] = "send-request" => NotYet(s)
          /\ step[s] = "get-statement" => Spaced(s)

RelayInv ==
    /\ HistoriesType
    /\ \A s \in Sync : OnSchedule(s)
    /\ \A s \in Sync : waits[s] <= MaxThrottleWaits
    /\ \A s \in Sync : mood[s] \subseteq {"generating", "overloaded"}

\* The polls of one minute, PollWait apart and none more recent, are eight at most.
LEMMA NineCallsAtMost ==
    ASSUME HistoriesType, NEW s \in Sync, Spaced(s), wake[s] = 0, rate = Own(rate, s)
    PROVE  Cardinality(rate) <= 9
<1>1. PICK q \in Int :
        /\ \A e \in rate : e.age # q => e.age >= PollWait
        /\ \A e, f \in rate : e.age # q /\ f.age # q /\ e.age < f.age => f.age - e.age >= PollWait
  BY DEF Spaced, HistoriesType
<1> DEFINE first == [by |-> s, age |-> q]
           polls == rate \ {first}
           slot == [e \in polls |-> e.age \div 14]
<1>2. \A e \in rate : e = [by |-> s, age |-> e.age] /\ e.age \in Nat /\ e.age < 120
  BY DEF HistoriesType, Own, Rate
<1>3. \A e \in polls : e.age # q /\ e.age \in Nat /\ e.age >= 14 /\ e.age < 120
  BY <1>1, <1>2 DEF PollWait
<1>4. slot \in [polls -> 1..8]
  BY <1>3
<1>5. \A e, f \in polls : e # f => slot[e] # slot[f]
  <2> SUFFICES ASSUME NEW e \in polls, NEW f \in polls, e # f
               PROVE  e.age \div 14 # f.age \div 14
    OBVIOUS
  <2>1. e.age # f.age
    BY <1>2
  <2>2. e.age < f.age => f.age - e.age >= 14
    BY <1>1, <1>3 DEF PollWait
  <2>3. f.age < e.age => e.age - f.age >= 14
    BY <1>1, <1>3 DEF PollWait
  <2> QED BY <1>3, <2>1, <2>2, <2>3
<1>6. IsFiniteSet(polls) /\ Cardinality(rate) <= Cardinality(polls) + 1
      /\ Cardinality(polls) \in Nat
  <2> HIDE DEF first
  <2>1. IsFiniteSet(rate) /\ Cardinality(rate) \in Nat
    BY FS_CardinalityType DEF HistoriesType
  <2>2. /\ IsFiniteSet(polls)
        /\ Cardinality(polls) = IF first \in rate THEN Cardinality(rate) - 1 ELSE Cardinality(rate)
    BY <2>1, FS_RemoveElement
  <2>3. Cardinality(polls) \in Nat
    BY <2>2, FS_CardinalityType
  <2> QED BY <2>1, <2>2, <2>3
<1>7. IsFiniteSet(1..8) /\ Cardinality(1..8) = 8
  <2> DEFINE one == 1
             eight == 8
  <2>1. one \in Int /\ eight \in Int /\ ~(one > eight) /\ eight - one + 1 = 8
    OBVIOUS
  <2> HIDE DEF one, eight
  <2>2. IsFiniteSet(one..eight) /\ Cardinality(one..eight) = 8
    BY <2>1, FS_Interval
  <2> QED BY <2>2 DEF one, eight
<1>8. Cardinality(polls) <= 8
  <2> SUFFICES ASSUME 8 < Cardinality(polls) PROVE FALSE
    BY <1>6
  <2> HIDE DEF polls, slot
  <2> QED BY <1>4, <1>5, <1>6, <1>7, FS_PigeonHole
<1> QED BY <1>6, <1>8, FS_CardinalityType DEF HistoriesType

\* When it is awake and only its own calls are in the windows, both throttles have room.
LEMMA AllowedAlone ==
    ASSUME RelayInv, NEW s \in Sync, Calls(s), relay[s] = "server", waits[s] = MaxThrottleWaits,
           \A e \in burst \cup rate : e.by = s
    PROVE  Allowed
<1>1. wake[s] = 0 /\ step[s] \in {"send-request", "get-statement"}
  BY DEF Calls, Running
<1>2. HistoriesType /\ OnSchedule(s) /\ burst = Own(burst, s) /\ rate = Own(rate, s)
  BY DEF RelayInv, Own
<1>3. CASE step[s] = "send-request"
  <2>1. burst = {} /\ rate = {}
    BY <1>2, <1>3 DEF OnSchedule, NotYet
  <2> QED BY <2>1, FS_EmptySet DEF Allowed, Room, Burst, Rate
<1>4. CASE step[s] = "get-statement"
  <2>1. Spaced(s)
    BY <1>2, <1>4 DEF OnSchedule
  <2>2. Cardinality(rate) <= 9 /\ Cardinality(rate) \in Nat
    BY <1>1, <1>2, <2>1, NineCallsAtMost, FS_CardinalityType DEF HistoriesType
  <2>3. burst = {}
    BY <1>1, <1>2, <2>1 DEF Spaced, HistoriesType, Burst
  <2> QED BY <2>2, <2>3, FS_EmptySet DEF Allowed, Room, Burst, Rate
<1> QED BY <1>1, <1>3, <1>4

\* What is left of a window without room is some half-seconds.
LEMMA SomeAreLeft ==
    ASSUME NEW history, NEW limit \in {Burst, Rate},
           \A e \in history : e.age \in Nat /\ e.age < limit.window
    PROVE  Remaining(history, limit) \in Nat
<1> SUFFICES ASSUME ~Room(history, limit) PROVE limit.window - Oldest(history).age \in Nat
  BY DEF Remaining
<1>1. limit.calls > 0 /\ limit.window \in Nat
  BY DEF Burst, Rate
<1>2. history # {}
  BY <1>1, FS_EmptySet DEF Room
<1> DEFINE ages == {e.age : e \in history}
<1>3. PICK m \in ages : \A k \in ages : k <= m
  <2>1. ages \subseteq Nat /\ ages # {} /\ \A d \in ages : d <= limit.window
    BY <1>1, <1>2
  <2> HIDE DEF ages
  <2> QED BY <1>1, <2>1, LastOf
<1>4. PICK e \in history : e.age = m
  OBVIOUS
<1>5. \A f \in history : f.age <= e.age
  BY <1>3, <1>4
<1>6. Oldest(history) \in history
  BY <1>5 DEF Oldest
<1> QED BY <1>1, <1>6

LEMMA WaitsAreTimes ==
    ASSUME HistoriesType
    PROVE  RetryAfter \in Nat
<1>1. Remaining(burst, Burst) \in Nat
  BY SomeAreLeft DEF HistoriesType
<1>2. Remaining(rate, Rate) \in Nat
  BY SomeAreLeft DEF HistoriesType
<1> DEFINE left == IF Remaining(burst, Burst) > Remaining(rate, Rate)
                   THEN Remaining(burst, Burst) ELSE Remaining(rate, Rate)
<1>3. left \in Nat
  BY <1>1, <1>2
<1>4. RetryAfter = IF 2 * ((left + 1) \div 2) + 2 > MaxRetryAfter THEN MaxRetryAfter
                   ELSE 2 * ((left + 1) \div 2) + 2
  BY DEF RetryAfter
<1> HIDE DEF left
<1> QED BY <1>3, <1>4 DEF MaxRetryAfter

\* What a call leaves in the histories.
LEMMA CallRecords ==
    ASSUME HistoriesType, NEW t \in Sync, Calls(t)
    PROVE  /\ IsFiniteSet(rate')
           /\ \A e \in burst' : e \in [by : Sync, age : Nat] /\ e.age < Burst.window
           /\ \A e \in rate' : e \in [by : Sync, age : Nat] /\ e.age < Rate.window
           /\ \A s \in Sync \ {t} : Own(burst', s) = Own(burst, s) /\ Own(rate', s) = Own(rate, s)
           /\ burst' \subseteq Record(burst, t) /\ rate' \subseteq Record(rate, t)
<1>1. burst' \in {burst, Record(burst, t)} /\ rate' \in {rate, Record(rate, t)}
  <2>1. CASE relay[t] = "agent"
    BY <2>1 DEF Calls
  <2>2. CASE relay[t] # "agent"
    BY <2>2 DEF Calls, Recorded
  <2> QED BY <2>1, <2>2
<1>2. IsFiniteSet(Record(rate, t))
  BY FS_AddElement DEF HistoriesType, Record
<1>3. burst' \subseteq Record(burst, t) /\ rate' \subseteq Record(rate, t) /\ IsFiniteSet(rate')
  BY <1>1, <1>2 DEF HistoriesType, Record
<1>4. \A e \in burst' : e \in [by : Sync, age : Nat] /\ e.age < Burst.window
  BY <1>3 DEF HistoriesType, Record, Burst
<1>5. \A e \in rate' : e \in [by : Sync, age : Nat] /\ e.age < Rate.window
  BY <1>3 DEF HistoriesType, Record, Rate
<1>6. \A s \in Sync \ {t} : Own(burst', s) = Own(burst, s) /\ Own(rate', s) = Own(rate, s)
  BY <1>1 DEF Record, Own
<1> QED BY <1>3, <1>4, <1>5, <1>6

\* A call moves the others nowhere, and its own sync to a later time.
LEMMA CallKeepsOthers ==
    ASSUME RelayInv, NEW t \in Sync, Calls(t), NEW s \in Sync \ {t},
           step'[s] = step[s], wake'[s] = wake[s], waits'[s] = waits[s]
    PROVE  OnSchedule(s)'
<1>1. Own(burst', s) = Own(burst, s) /\ Own(rate', s) = Own(rate, s)
  BY CallRecords DEF RelayInv
<1>2. relay' = relay /\ OnSchedule(s)
  BY DEF Calls, RelayInv
<1> QED BY <1>1, <1>2 DEF OnSchedule, NotYet, Spaced

LEMMA SendIsSpaced ==
    ASSUME HistoriesType, NEW t \in Sync, Calls(t), NotYet(t), wake'[t] \in Nat, wake'[t] >= 3
    PROVE  Spaced(t)'
<1>1. \A e \in Own(burst', t) \cup Own(rate', t) : e.age = 0
  BY CallRecords DEF NotYet, Own, Record
<1>2. \A e \in Own(burst', t) : e.age + wake'[t] >= Burst.window
  BY <1>1 DEF Burst
<1>3. /\ \A e \in Own(rate', t) : e.age # 0 => e.age + wake'[t] >= PollWait
      /\ \A e, f \in Own(rate', t) :
            e.age # 0 /\ f.age # 0 /\ e.age < f.age => f.age - e.age >= PollWait
  BY <1>1
<1> QED BY <1>2, <1>3 DEF Spaced

LEMMA PollIsSpaced ==
    ASSUME HistoriesType, NEW t \in Sync, Calls(t), Spaced(t),
           wake'[t] \in Nat, wake'[t] >= PollWait
    PROVE  Spaced(t)'
<1>1. PICK q \in Int :
        /\ \A e \in Own(rate, t) : e.age # q => e.age >= PollWait
        /\ \A e, f \in Own(rate, t) :
              e.age # q /\ f.age # q /\ e.age < f.age => f.age - e.age >= PollWait
  BY DEF Spaced, HistoriesType, Calls, Own
<1>2. \A e \in Own(burst', t) \cup Own(rate', t) : e.age \in Nat
  BY CallRecords DEF Own
<1>3. \A e \in Own(rate', t) : e \in Own(rate, t) \/ e.age = 0
  BY CallRecords DEF Own, Record
<1>4. \A e \in Own(burst', t) : e.age + wake'[t] >= Burst.window
  BY <1>2 DEF Burst, PollWait
<1>5. \A e \in Own(rate', t) : e.age # q => e.age + wake'[t] >= PollWait
  BY <1>2 DEF PollWait
<1>6. ASSUME NEW e \in Own(rate', t), NEW f \in Own(rate', t),
             e.age # q, f.age # q, e.age < f.age
      PROVE  f.age - e.age >= PollWait
  BY <1>1, <1>2, <1>3, <1>6 DEF PollWait
<1> QED BY <1>4, <1>5, <1>6 DEF Spaced

\* Time brings the next call nearer as the calls made grow old.
LEMMA TimeKeepsSpaced ==
    ASSUME HistoriesType, NEW s \in Sync, Spaced(s), NEW d \in Nat,
           burst' = Aged(burst, Burst, d), rate' = Aged(rate, Rate, d),
           d <= wake[s], wake'[s] = wake[s] - d
    PROVE  Spaced(s)'
<1>0. wake[s] \in Nat
  BY DEF HistoriesType
<1>1. \A e \in Own(burst', s) : \E f \in Own(burst, s) : e.age = f.age + d /\ f.age \in Nat
  BY DEF Aged, Own, HistoriesType
<1>2. \A e \in Own(rate', s) : \E f \in Own(rate, s) : e.age = f.age + d /\ f.age \in Nat
  BY DEF Aged, Own, HistoriesType
<1>3. PICK q \in Int :
        /\ \A e \in Own(rate, s) : e.age # q => e.age + wake[s] >= PollWait
        /\ \A e, f \in Own(rate, s) :
              e.age # q /\ f.age # q /\ e.age < f.age => f.age - e.age >= PollWait
  BY DEF Spaced
<1>4. \A e \in Own(burst', s) : e.age + wake'[s] >= Burst.window
  BY <1>0, <1>1 DEF Spaced
<1>5. \A e \in Own(rate', s) : e.age # q + d => e.age + wake'[s] >= PollWait
  BY <1>0, <1>2, <1>3 DEF PollWait
<1>6. ASSUME NEW e \in Own(rate', s), NEW f \in Own(rate', s),
             e.age # q + d, f.age # q + d, e.age < f.age
      PROVE  f.age - e.age >= PollWait
  <2>1. PICK g \in Own(rate, s) : e.age = g.age + d /\ g.age \in Nat
    BY <1>2
  <2>2. PICK h \in Own(rate, s) : f.age = h.age + d /\ h.age \in Nat
    BY <1>2
  <2> QED BY <1>3, <1>6, <2>1, <2>2 DEF PollWait
<1>7. q + d \in Int
  OBVIOUS
<1> QED BY <1>4, <1>5, <1>6, <1>7 DEF Spaced

LEMMA ThrottledInv == ASSUME RelayInv, NEW t \in Sync, Throttled(t) PROVE RelayInv'
<1>1. HistoriesType /\ Calls(t)
  BY DEF RelayInv, Throttled
<1>2. /\ step' \in [Sync -> Step] /\ wake' \in [Sync -> Nat] /\ waits' \in [Sync -> Nat]
      /\ \A s \in Sync \ {t} :
            step'[s] = step[s] /\ wake'[s] = wake[s] /\ waits'[s] = waits[s]
      /\ step'[t] # "unstarted"
      /\ step'[t] # "done" => waits'[t] = waits[t] - 1
  <2>1. RetryAfter \in Nat
    BY <1>1, WaitsAreTimes
  <2>2. step[t] \in {"send-request", "get-statement"}
    BY <1>1 DEF Calls, Running
  <2> QED BY <1>1, <2>1, <2>2 DEF Throttled, Finish, HistoriesType, Step
<1>3. HistoriesType'
  BY <1>1, <1>2, CallRecords DEF HistoriesType
<1>m. mood' = mood /\ \A s \in Sync : waits'[s] <= MaxThrottleWaits
  <2>1. mood' = mood /\ \A s \in Sync : waits[s] \in Nat /\ waits[s] <= MaxThrottleWaits
    BY <1>1 DEF Calls, RelayInv, HistoriesType
  <2>2. waits'[t] \in {waits[t], waits[t] - 1}
    BY <1>1 DEF Throttled, HistoriesType
  <2> QED BY <1>2, <2>1, <2>2 DEF MaxThrottleWaits
<1>4. ASSUME NEW s \in Sync PROVE OnSchedule(s)'
  <2>1. CASE s = t
    <3>1. waits[t] \in Nat
      BY <1>1 DEF HistoriesType
    <3>2. step'[t] # "done" => waits'[t] # MaxThrottleWaits
      <4>1. waits[t] <= MaxThrottleWaits
        BY DEF RelayInv
      <4> QED BY <3>1, <4>1, <1>2 DEF MaxThrottleWaits
    <3> QED BY <1>2, <2>1, <3>2 DEF OnSchedule
  <2>2. CASE s # t
    BY <1>1, <1>2, <2>2, CallKeepsOthers
  <2> QED BY <2>1, <2>2
<1> QED BY <1>3, <1>4, <1>m DEF RelayInv

LEMMA SentInv == ASSUME RelayInv, NEW t \in Sync, Sent(t) PROVE RelayInv'
<1>1. HistoriesType /\ OnSchedule(t) /\ Calls(t) /\ waits' = waits /\ relay' = relay
  BY DEF RelayInv, Sent, Through, Calls
<1>2. PICK delay \in Latency :
        /\ step' = [step EXCEPT ![t] = "get-statement"]
        /\ wake' = [wake EXCEPT ![t] = delay + FirstStatementWait]
  BY DEF Sent
<1>3. delay \in Nat
  BY RelayAssumption
<1>4. /\ step' \in [Sync -> Step] /\ wake' \in [Sync -> Nat] /\ wake'[t] >= 3
      /\ \A s \in Sync \ {t} : step'[s] = step[s] /\ wake'[s] = wake[s]
      /\ step'[t] = "get-statement"
  BY <1>1, <1>2, <1>3 DEF HistoriesType, Step, FirstStatementWait
<1>5. HistoriesType'
  BY <1>1, <1>4, CallRecords DEF HistoriesType
<1>6. OnSchedule(t)'
  <2>1. step[t] = "send-request"
    BY DEF Sent
  <2>2. relay[t] = "server" /\ waits[t] = MaxThrottleWaits => Spaced(t)'
    BY <1>1, <1>4, <2>1, SendIsSpaced DEF OnSchedule, HistoriesType
  <2> QED BY <1>1, <1>4, <2>2 DEF OnSchedule
<1>7. \A s \in Sync \ {t} : OnSchedule(s)'
  BY <1>1, <1>4, CallKeepsOthers
<1> QED BY <1>5, <1>6, <1>7, <1>1 DEF RelayInv, Calls

\* A call after which the sync is over.
LEMMA OverInv ==
    ASSUME RelayInv, NEW t \in Sync, Through(t), NEW how, Finish(t, how)
    PROVE  RelayInv'
<1>1. HistoriesType /\ Calls(t) /\ waits' = waits
  BY DEF RelayInv, Through
<1>2. /\ step' \in [Sync -> Step] /\ wake' \in [Sync -> Nat] /\ step'[t] = "done"
      /\ \A s \in Sync \ {t} : step'[s] = step[s] /\ wake'[s] = wake[s]
  BY <1>1 DEF Finish, HistoriesType, Step
<1>3. HistoriesType'
  BY <1>1, <1>2, CallRecords DEF HistoriesType
<1>4. OnSchedule(t)'
  BY <1>2 DEF OnSchedule
<1>5. \A s \in Sync \ {t} : OnSchedule(s)'
  BY <1>1, <1>2, CallKeepsOthers
<1> QED BY <1>3, <1>4, <1>5, <1>1 DEF RelayInv, Calls

LEMMA NotReadyInv == ASSUME RelayInv, NEW t \in Sync, NotReady(t) PROVE RelayInv'
<1>1. CASE tries[t] + 1 = MaxAttempts
  BY <1>1, OverInv DEF NotReady
<1>2. CASE tries[t] + 1 # MaxAttempts
  <2>1. HistoriesType /\ OnSchedule(t) /\ Calls(t) /\ waits' = waits /\ relay' = relay
        /\ step' = step /\ step[t] = "get-statement"
    BY <1>2 DEF RelayInv, NotReady, Through, Calls
  <2>2. PICK code \in mood[t], delay \in Latency : wake' = [wake EXCEPT ![t] = delay + RetryWait[code]]
    BY <1>2 DEF NotReady
  <2>3. delay \in Nat /\ code \in {"generating", "overloaded"}
    BY <2>2, RelayAssumption DEF RelayInv
  <2>4. RetryWait[code] \in {14, 20}
    BY <2>3 DEF RetryWait, PollWait, Overloaded
  <2>5. /\ wake' \in [Sync -> Nat] /\ wake'[t] >= PollWait
        /\ \A s \in Sync \ {t} : wake'[s] = wake[s]
    BY <2>1, <2>2, <2>3, <2>4 DEF HistoriesType, PollWait
  <2>6. HistoriesType'
    BY <2>1, <2>5, CallRecords DEF HistoriesType
  <2>7. OnSchedule(t)'
    <3>1. relay[t] = "server" /\ waits[t] = MaxThrottleWaits => Spaced(t)'
      BY <2>1, <2>5, PollIsSpaced DEF OnSchedule, HistoriesType
    <3> QED BY <2>1, <3>1 DEF OnSchedule
  <2>8. \A s \in Sync \ {t} : OnSchedule(s)'
    BY <2>1, <2>5, CallKeepsOthers
  <2>9. mood' = mood
    BY <2>1 DEF Calls
  <2> QED BY <2>6, <2>7, <2>8, <2>9, <2>1 DEF RelayInv
<1> QED BY <1>1, <1>2

LEMMA StartInv == ASSUME RelayInv, NEW t \in Sync, Start(t) PROVE RelayInv'
<1>1. /\ step[t] = "unstarted" /\ step' = [step EXCEPT ![t] = "send-request"]
      /\ UNCHANGED <<relay, mood, wake, waits, burst, rate>>
  BY DEF Start
<1>2. HistoriesType'
  BY <1>1 DEF RelayInv, HistoriesType, Step
<1>3. ASSUME NEW s \in Sync PROVE OnSchedule(s)'
  <2>1. OnSchedule(s) /\ step \in [Sync -> Step]
    BY DEF RelayInv, HistoriesType
  <2>2. CASE s = t
    BY <1>1, <2>1, <2>2 DEF OnSchedule, NotYet
  <2>3. CASE s # t
    BY <1>1, <2>1, <2>3 DEF OnSchedule, NotYet, Spaced
  <2> QED BY <2>2, <2>3
<1> QED BY <1>1, <1>2, <1>3 DEF RelayInv

LEMMA ElapseInv == ASSUME RelayInv, Elapse PROVE RelayInv'
<1> DEFINE running == {r \in Sync : Running(r)}
           next == CHOOSE d \in {wake[s] : s \in running} :
                      \A s \in Sync : Running(s) => d <= wake[s]
           d == IF Unstarted = {} THEN next ELSE 1
<1>1. HistoriesType /\ (\A s \in Sync : OnSchedule(s))
      /\ wake \in [Sync -> Nat] /\ (\A s \in Sync : Running(s) => wake[s] > 0)
  BY DEF RelayInv, HistoriesType, Elapse
<1>2. /\ wake' = [s \in Sync |-> IF Running(s) THEN wake[s] - d ELSE 0]
      /\ burst' = Aged(burst, Burst, d)
      /\ rate' = Aged(rate, Rate, d)
      /\ UNCHANGED <<step, relay, mood, waits>>
  BY DEF Elapse
<1>3. d \in Nat /\ \A s \in Sync : Running(s) => d <= wake[s]
  <2>1. CASE Unstarted # {}
    BY <1>1, <2>1
  <2>2. CASE Unstarted = {}
    <3> DEFINE times == {wake[s] : s \in running}
    <3>1. times \subseteq Nat /\ times # {}
      BY <1>1, <2>2 DEF Elapse, Unstarted
    <3>2. PICK m \in times : \A k \in times : m <= k
      BY <3>1, FirstOf
    <3>3. \A s \in Sync : Running(s) => m <= wake[s]
      BY <3>2
    <3> HIDE DEF times
    <3>4. next \in times /\ \A s \in Sync : Running(s) => next <= wake[s]
      BY <3>2, <3>3 DEF times
    <3> QED BY <2>2, <3>1, <3>4
  <2> QED BY <2>1, <2>2
<1> HIDE DEF next, d
<1>4. /\ \A e \in burst' : e \in [by : Sync, age : Nat] /\ e.age < Burst.window
      /\ \A e \in rate' : e \in [by : Sync, age : Nat] /\ e.age < Rate.window
  BY <1>1, <1>2, <1>3 DEF Aged, HistoriesType, Burst, Rate
<1>5. IsFiniteSet(rate')
  <2> DEFINE still == {f \in rate : f.age + d < Rate.window}
             older == [e \in still |-> [e EXCEPT !.age = @ + d]]
  <2>1. IsFiniteSet(still)
    BY <1>1, FS_Subset DEF HistoriesType
  <2>2. older \in Surjection(still, {older[e] : e \in still})
    BY DEF Surjection
  <2>3. IsFiniteSet({older[e] : e \in still})
    BY <2>1, <2>2, FS_Surjection
  <2>4. {older[e] : e \in still} = {[e EXCEPT !.age = @ + d] : e \in still}
    OBVIOUS
  <2> QED BY <1>2, <2>3, <2>4 DEF Aged
<1>6. HistoriesType'
  BY <1>1, <1>2, <1>3, <1>4, <1>5 DEF HistoriesType
<1>7. ASSUME NEW s \in Sync PROVE OnSchedule(s)'
  <2>1. NotYet(s) => NotYet(s)'
    BY <1>1, <1>2 DEF NotYet, Own, Aged, HistoriesType
  <2>2. step[s] = "get-statement" /\ Spaced(s) => Spaced(s)'
    <3> SUFFICES ASSUME step[s] = "get-statement", Spaced(s) PROVE Spaced(s)'
      OBVIOUS
    <3>1. d <= wake[s] /\ wake'[s] = wake[s] - d
      BY <1>2, <1>3 DEF Running
    <3> QED BY <1>1, <1>2, <1>3, <3>1, TimeKeepsSpaced
  <2> QED BY <1>1, <1>2, <2>1, <2>2 DEF OnSchedule
<1> QED BY <1>1, <1>2, <1>6, <1>7 DEF RelayInv

LEMMA RelayInductive ==
    ASSUME RelayInv, [FlexNext]_flexVars
    PROVE  RelayInv'
<1>1. ASSUME NEW s \in Sync, Start(s) PROVE RelayInv'
  BY <1>1, StartInv
<1>2. ASSUME NEW s \in Sync, Throttled(s) PROVE RelayInv'
  BY <1>2, ThrottledInv
<1>3. ASSUME NEW s \in Sync, Sent(s) PROVE RelayInv'
  BY <1>3, SentInv
<1>4. ASSUME NEW s \in Sync, NotReady(s) PROVE RelayInv'
  BY <1>4, NotReadyInv
<1>5. ASSUME NEW s \in Sync, Ready(s) PROVE RelayInv'
  BY <1>5, OverInv DEF Ready
<1>6. ASSUME NEW s \in Sync, Refused(s) PROVE RelayInv'
  BY <1>6, OverInv DEF Refused
<1>7. CASE Elapse
  BY <1>7, ElapseInv
<1>8. CASE UNCHANGED flexVars
  BY <1>8 DEF flexVars, loop, RelayInv, HistoriesType, OnSchedule, NotYet, Spaced
<1> QED BY <1>1, <1>2, <1>3, <1>4, <1>5, <1>6, <1>7, <1>8 DEF FlexNext

\* A sync is never turned away the first time because of its own calls, whatever Interactive
\* Brokers answers it, however slowly, and however many other syncs of the user there are.
THEOREM LoneSyncSafe == FlexSpec => LoneSyncNeverRefused
<1>1. FlexInit => RelayInv
  <2> SUFFICES ASSUME FlexInit PROVE RelayInv
    OBVIOUS
  <2>1. HistoriesType
    BY FS_EmptySet DEF FlexInit, HistoriesType, Step, MaxThrottleWaits
  <2>2. \A s \in Sync : OnSchedule(s)
    BY DEF FlexInit, OnSchedule, NotYet, Own
  <2>3. \A s \in Sync : waits[s] <= MaxThrottleWaits
    BY DEF FlexInit, MaxThrottleWaits
  <2>4. \A s \in Sync : mood[s] \subseteq {"generating", "overloaded"}
    BY RelayAssumption DEF FlexInit
  <2> QED BY <2>1, <2>2, <2>3, <2>4 DEF RelayInv
<1>2. RelayInv /\ [FlexNext]_flexVars => RelayInv'
  BY RelayInductive
<1>3. RelayInv /\ [FlexNext]_flexVars =>
        [\A s \in Sync :
            waits[s] = MaxThrottleWaits /\ waits'[s] < waits[s]
               => \E e \in burst \cup rate : e.by # s]_flexVars
  <2> SUFFICES ASSUME RelayInv, [FlexNext]_flexVars, NEW s \in Sync,
                      waits[s] = MaxThrottleWaits, waits'[s] < waits[s]
               PROVE  \E e \in burst \cup rate : e.by # s
    OBVIOUS
  <2>1. waits \in [Sync -> Nat]
    BY DEF RelayInv, HistoriesType
  <2>2. waits' # waits
    BY <2>1
  <2>3. PICK t \in Sync : Throttled(t)
    BY <2>2 DEF FlexNext, Start, Sent, NotReady, Ready, Refused, Through, Elapse, flexVars, loop
  <2>4. t = s
    BY <2>1, <2>3 DEF Throttled
  <2> QED BY <2>3, <2>4, AllowedAlone DEF Throttled
<1> QED BY <1>1, <1>2, <1>3, PTL DEF FlexSpec, LoneSyncNeverRefused

(***************************************************************************)
(* What the transaction of a pass is for: whatever the two engines         *)
(* captured and in whatever order they pass, an alert rings once each time *)
(* it is armed, no badge comes on silently, S0 is written once and nothing *)
(* is left of a deleted alert.  The argument is local to an alert: Deeds   *)
(* lists what a step may do to its record, read in the step itself, and to *)
(* the bell that counts its notifications; each property follows from that *)
(* list.                                                                   *)
(***************************************************************************)
\* What a step does to the record of one alert and to its bell.
Leaves(a) == states'[a] = states[a] /\ rung'[a] = rung[a]
Creates(a) == states[a] = None /\ states'[a] = Initial /\ rung'[a] = rung[a]
RingsFor(a) ==
    /\ ~StateOf(a).triggered /\ states'[a] = Ringing(StateOf(a))
    /\ rung'[a] = Rung(rung[a]) /\ defs' = defs /\ (a \in Manual => a \in Defined)
Observes(a) ==
    /\ StateOf(a).anchor = None /\ rung'[a] = rung[a]
    /\ \E price \in Price : a \in Wheel /\ states'[a] = Anchored(StateOf(a), price)
Sees(a) == states'[a] = Acknowledged(a, StateOf(a)) /\ rung'[a] = rung[a]
Resets(a) ==
    /\ rung'[a] = 0
    /\ \/ states'[a] = None
       \/ states'[a] = Rearmed(StateOf(a))
       \/ states'[a] = Reactivated(StateOf(a))
Forgets(a) == states'[a] = None /\ rung'[a] = rung[a] /\ a \in purged'

Deed(a) ==
    \/ Leaves(a) \/ Creates(a) \/ RingsFor(a) \/ Observes(a) \/ Sees(a) \/ Resets(a) \/ Forgets(a)

-----------------------------------------------------------------------------
\* What each change of a record keeps, and what it leaves of its type.
LEMMA RingingKeeps ==
    ASSUME NEW state \in AlertState
    PROVE  /\ Ringing(state) \in AlertState /\ Ringing(state).anchor = state.anchor
           /\ Ringing(state).triggered 
           /\ Ringing(state).disabled <=> state.disabled
           /\ Ringing(state).armed <=> state.armed
  BY DEF AlertState, Ringing

LEMMA RearmedKeeps ==
    ASSUME NEW state \in AlertState
    PROVE  /\ Rearmed(state) \in AlertState /\ Rearmed(state).anchor = state.anchor
           /\ ~Rearmed(state).triggered /\ Rearmed(state).armed
           /\ Rearmed(state).disabled <=> state.disabled
  BY DEF AlertState, Rearmed

LEMMA ReactivatedKeeps ==
    ASSUME NEW state \in AlertState
    PROVE  /\ Reactivated(state) \in AlertState /\ Reactivated(state).anchor = state.anchor
           /\ ~Reactivated(state).triggered /\ ~Reactivated(state).disabled
           /\ Reactivated(state).armed
  BY DEF AlertState, Rearmed, Reactivated

LEMMA AcknowledgedKeeps ==
    ASSUME NEW state \in AlertState, NEW a \in Alert
    PROVE  /\ Acknowledged(a, state) \in AlertState /\ Acknowledged(a, state).anchor = state.anchor
           /\ Acknowledged(a, state).triggered <=> state.triggered
           /\ Acknowledged(a, state).seen
           /\ Acknowledged(a, state).disabled => state.disabled \/ a \in Manual
           /\ ~Acknowledged(a, state).armed => ~state.armed \/ a \notin Manual
  BY DEF AlertState, Acknowledged

LEMMA AnchoredKeeps ==
    ASSUME NEW state \in AlertState, NEW price \in Price
    PROVE  /\ Anchored(state, price) \in AlertState /\ Anchored(state, price).anchor = price
           /\ Anchored(state, price).triggered <=> state.triggered
           /\ Anchored(state, price).seen <=> state.seen
           /\ Anchored(state, price).disabled <=> state.disabled
           /\ Anchored(state, price).armed <=> state.armed
  BY DEF AlertState, Anchored

\* The record of an alert, written or not, is a record of its kind.
LEMMA StateTyped ==
    ASSUME RecordsOK, NEW a \in Alert
    PROVE  StateOf(a) \in AlertState /\ OfItsKind(a, StateOf(a))
  <1>1. Initial \in AlertState /\ ~Initial.disabled /\ Initial.armed /\ Initial.anchor = None
    BY DEF Initial, AlertState
  <1>2. CASE states[a] = None
    BY <1>1, <1>2 DEF StateOf, OfItsKind
  <1>3. CASE states[a] # None
    BY <1>3 DEF StateOf, RecordsOK
  <1>4. QED
    BY <1>2, <1>3

\* A pass does to each alert one of the things it may do.
LEMMA PassDeed ==
    ASSUME RecordsOK, NEW rows \in SUBSET Automatic, NEW priceOf, RunPass(rows, priceOf), defs' = defs, NEW a \in Alert
    PROVE  /\ Deed(a)
           /\ a \notin purged' => a \notin purged \/ rung'[a] = 0
  <1> DEFINE stale == Stale(rows)  rings == Rings(rows, priceOf)  rearms == Rearms(rows, priceOf)
  <1>1. /\ states'[a] = IF a \in stale THEN None
                        ELSE IF a \in rings THEN Ringing(StateOf(a))
                        ELSE IF a \in rearms THEN Rearmed(StateOf(a)) ELSE states[a]
        /\ rung'[a] = IF a \in rings THEN Rung(rung[a])
                      ELSE IF a \in rearms \cup (stale \ open) THEN 0 ELSE rung[a]
        /\ purged' = (purged \cup stale) \ (stale \ open)
    BY DEF RunPass
  <1>2. /\ a \in rings => ~StateOf(a).triggered /\ a \in rows \cup Defined
        /\ a \in rings => StateOf(a).armed \/ a \in Manual
        /\ a \in rearms => ~StateOf(a).armed /\ a \in rows \cup Defined /\ a \notin Manual
        /\ a \in stale => a \in Automatic /\ a \notin rows
        /\ Defined \subseteq Manual
    BY DEF Rings, Rearms, Evaluated, Stale, Defined
  <1>3. a \in rings \/ a \in rearms => a \notin stale
    BY <1>2, AlertsAssumption
  <1>4. CASE a \in rings
    <2>1. /\ states'[a] = Ringing(StateOf(a)) /\ rung'[a] = Rung(rung[a])
          /\ a \in purged => a \in purged'
      BY <1>1, <1>3, <1>4
    <2>2. a \in Manual => a \in Defined
      BY <1>2, <1>4, AlertsAssumption
    <2>3. RingsFor(a)
      BY <1>2, <1>4, <2>1, <2>2 DEF RingsFor
    <2>4. QED
      BY <2>1, <2>3 DEF Deed
  <1>5. CASE a \in rearms
    <2>1. a \notin rings
      BY <1>2, <1>5
    <2>2. states'[a] = Rearmed(StateOf(a)) /\ rung'[a] = 0
      BY <1>1, <1>3, <1>5, <2>1
    <2>3. QED
      BY <2>2 DEF Resets, Deed
  <1>6. CASE a \in stale /\ a \in open
    BY <1>1, <1>3, <1>6 DEF Forgets, Deed
  <1>7. CASE a \in stale /\ a \notin open
    BY <1>1, <1>3, <1>7 DEF Resets, Deed
  <1>8. CASE a \notin stale /\ a \notin rings /\ a \notin rearms
    BY <1>1, <1>8 DEF Leaves, Deed
  <1>9. QED
    BY <1>4, <1>5, <1>6, <1>7, <1>8

\* A record keeps its type through whatever a step may do to it.
LEMMA DeedTyped ==
    ASSUME RecordsOK, NEW a \in Alert, Deed(a)
    PROVE  /\ states'[a] \in AlertState \cup {None}
           /\ states'[a] # None => OfItsKind(a, states'[a])
           /\ rung'[a] \in 0..2
  <1>1. StateOf(a) \in AlertState /\ OfItsKind(a, StateOf(a)) /\ rung[a] \in 0..2
    BY StateTyped DEF RecordsOK
  <1>2. a \in Manual \/ a \in Automatic
    BY DEF Alert
  <1>3. CASE Leaves(a)
    BY <1>3 DEF Leaves, RecordsOK
  <1>4. CASE Creates(a)
    <2>1. Initial \in AlertState /\ ~Initial.disabled /\ Initial.armed /\ Initial.anchor = None
      BY DEF Initial, AlertState
    <2>2. QED
      BY <1>1, <1>4, <2>1 DEF Creates, OfItsKind
  <1>5. CASE RingsFor(a)
    <2>1. Rung(rung[a]) \in 0..2
      BY <1>1 DEF Rung
    <2>2. QED
      BY <1>1, <1>5, <2>1, RingingKeeps DEF RingsFor, OfItsKind
  <1>6. CASE Observes(a)
    BY <1>1, <1>6, AnchoredKeeps DEF Observes, OfItsKind
  <1>7. CASE Sees(a)
    BY <1>1, <1>2, <1>7, AcknowledgedKeeps DEF Sees, OfItsKind
  <1>8. CASE Resets(a)
    BY <1>1, <1>8, RearmedKeeps, ReactivatedKeeps DEF Resets, OfItsKind
  <1>9. CASE Forgets(a)
    BY <1>1, <1>9 DEF Forgets
  <1>10. QED
    BY <1>3, <1>4, <1>5, <1>6, <1>7, <1>8, <1>9 DEF Deed

-----------------------------------------------------------------------------
\* A step of the system does one of these things to each alert, and an alert leaves
\* purged only when its bell is back to zero.
Spares(a) == a \notin purged' => a \notin purged \/ rung'[a] = 0

\* A change of one record leaves the others alone.
LEMMA MergeElsewhere ==
    ASSUME RecordsOK, NEW b, NEW state, Merge(b, state), NEW a \in Alert
    PROVE  IF a = b THEN states'[a] = state ELSE states'[a] = states[a]
  BY DEF Merge, RecordsOK

\* The same for the bells.
LEMMA BellElsewhere ==
    ASSUME RecordsOK, NEW b, rung' = [rung EXCEPT ![b] = 0], NEW a \in Alert
    PROVE  IF a = b THEN rung'[a] = 0 ELSE rung'[a] = rung[a]
  BY DEF RecordsOK

\* An anchor that is not written leaves the record; one that is adds S0 to it.
LEMMA SetAnchorDeed ==
    ASSUME RecordsOK, NEW b \in Wheel, NEW price \in Price, SetAnchor(b, price),
           rung' = rung, NEW a \in Alert
    PROVE  Deed(a)
  <1>1. CASE a # b
    BY <1>1, MergeElsewhere DEF SetAnchor, Deed, Leaves
  <1>2. CASE a = b /\ StateOf(b).anchor # None
    BY <1>2, MergeElsewhere DEF SetAnchor, Deed, Leaves
  <1>3. CASE a = b /\ StateOf(b).anchor = None
    <2>1. states'[a] = Anchored(StateOf(a), price)
      BY <1>3, MergeElsewhere DEF SetAnchor
    <2>2. QED
      BY <1>3, <2>1 DEF Deed, Observes
  <1>4. QED
    BY <1>1, <1>2, <1>3

LEMMA StepDeed ==
    ASSUME TypeOK, [Next]_vars, NEW a \in Alert
    PROVE  Deed(a) /\ Spares(a)
  <1> USE DEF TypeOK
  <1> SUFFICES ASSUME Next PROVE Deed(a) /\ Spares(a)
    BY DEF vars, base, Deed, Leaves, Spares
  <1>1. ASSUME NEW b \in Automatic, Open(b) PROVE Deed(a) /\ Spares(a)
    BY <1>1 DEF Open, Deed, Leaves, Spares
  <1>2. ASSUME NEW b \in Automatic, Close(b) PROVE Deed(a) /\ Spares(a)
    <2>1. CASE a = b /\ states[b] = None
      <3>1. rung' = [rung EXCEPT ![b] = 0] /\ states' = states
        BY <1>2, <2>1 DEF Close
      <3>2. rung'[a] = 0 /\ states'[a] = None
        BY <2>1, <3>1, BellElsewhere
      <3>3. QED
        BY <3>2 DEF Deed, Resets, Spares
    <2>2. CASE a # b \/ states[b] # None
      <3>1. states' = states /\ (a \in purged => a \in purged')
        BY <1>2, <2>2 DEF Close
      <3>2. rung'[a] = rung[a]
        <4>1. CASE states[b] # None
          BY <1>2, <4>1 DEF Close
        <4>2. CASE states[b] = None /\ a # b
          BY <1>2, <4>2, BellElsewhere DEF Close
        <4>3. QED
          BY <2>2, <4>1, <4>2
      <3>3. QED
        BY <3>1, <3>2 DEF Deed, Leaves, Spares
    <2>3. QED
      BY <2>1, <2>2
  <1>3. ASSUME NEW b \in Automatic, Override(b) PROVE Deed(a) /\ Spares(a)
    <2>1. Merge(b, StateOf(b)) /\ rung' = rung /\ purged' = purged
      BY <1>3 DEF Override
    <2>2. IF a = b THEN states'[a] = StateOf(b) ELSE states'[a] = states[a]
      BY <2>1, MergeElsewhere
    <2>3. StateOf(b) = IF states[b] = None THEN Initial ELSE states[b]
      BY DEF StateOf
    <2>4. Leaves(a) \/ Creates(a)
      BY <2>1, <2>2, <2>3 DEF Leaves, Creates
    <2>5. QED
      BY <2>1, <2>4 DEF Deed, Spares
  <1>4. ASSUME NEW b \in Alert, Market(b) PROVE Deed(a) /\ Spares(a)
    BY <1>4 DEF Market, base, Deed, Leaves, Spares
  <1>5. ASSUME NEW b \in Alert, Acknowledge(b) PROVE Deed(a) /\ Spares(a)
    <2>1. Merge(b, Acknowledged(b, StateOf(b))) /\ rung' = rung /\ purged' = purged
      BY <1>5 DEF Acknowledge
    <2>2. IF a = b THEN states'[a] = Acknowledged(a, StateOf(a)) ELSE states'[a] = states[a]
      BY <2>1, MergeElsewhere
    <2>3. QED
      BY <2>1, <2>2 DEF Deed, Leaves, Sees, Spares
  <1>6. ASSUME NEW b \in Wheel, ShellAnchor(b) PROVE Deed(a) /\ Spares(a)
    BY <1>6, SetAnchorDeed DEF ShellAnchor, Spares
  <1>7. ASSUME NEW b \in Wheel, WatchAnchor(b) PROVE Deed(a) /\ Spares(a)
    BY <1>7, SetAnchorDeed DEF WatchAnchor, Spares
  <1>8. ASSUME NEW m \in Manual, Create(m) PROVE Deed(a) /\ Spares(a)
    BY <1>8 DEF Create, Deed, Leaves, Spares
  <1>9. ASSUME NEW m \in Manual, Move(m) PROVE Deed(a) /\ Spares(a)
    BY <1>9 DEF Move, Deed, Leaves, Spares
  <1>10. ASSUME NEW m \in Manual, Delete(m) PROVE Deed(a) /\ Spares(a)
    <2>1. Merge(m, None) /\ rung' = [rung EXCEPT ![m] = 0] /\ purged' = purged
      BY <1>10 DEF Delete
    <2>2. IF a = m THEN states'[a] = None ELSE states'[a] = states[a]
      BY <2>1, MergeElsewhere
    <2>3. IF a = m THEN rung'[a] = 0 ELSE rung'[a] = rung[a]
      BY <2>1, BellElsewhere
    <2>4. QED
      BY <2>1, <2>2, <2>3 DEF Deed, Leaves, Resets, Spares
  <1>11. ASSUME NEW m \in Manual, Reactivate(m) PROVE Deed(a) /\ Spares(a)
    <2>1. Merge(m, Reactivated(StateOf(m))) /\ rung' = [rung EXCEPT ![m] = 0] /\ purged' = purged
      BY <1>11 DEF Reactivate
    <2>2. IF a = m THEN states'[a] = Reactivated(StateOf(a)) ELSE states'[a] = states[a]
      BY <2>1, MergeElsewhere
    <2>3. IF a = m THEN rung'[a] = 0 ELSE rung'[a] = rung[a]
      BY <2>1, BellElsewhere
    <2>4. QED
      BY <2>1, <2>2, <2>3 DEF Deed, Leaves, Resets, Spares
  <1>12. CASE Agent \/ Reload \/ Render \/ WatchLoad \/ WatchDone
    BY <1>12 DEF Agent, Reload, Render, WatchLoad, WatchDone, base, Deed, Leaves, Spares
  <1>13. CASE ShellPass
    <2>1. PICK priceOf : RunPass(shell.rows, priceOf)
      BY <1>13 DEF ShellPass
    <2>2. shell.rows \in SUBSET Automatic /\ defs' = defs
      BY <1>13 DEF ShellPass, EnginesOK
    <2>3. QED
      BY <2>1, <2>2, PassDeed DEF Spares
  <1>14. CASE WatchPass
    <2>1. PICK priceOf : RunPass(watch.alerts \cap Automatic, IF watch.fresh THEN priceOf ELSE NoPrice)
      BY <1>14 DEF WatchPass
    <2>2. watch.alerts \cap Automatic \in SUBSET Automatic /\ defs' = defs
      BY <1>14 DEF WatchPass
    <2>3. QED
      BY <2>1, <2>2, PassDeed DEF Spares
  <1>15. QED
    BY <1>1, <1>2, <1>3, <1>4, <1>5, <1>6, <1>7, <1>8, <1>9, <1>10, <1>11, <1>12, <1>13, <1>14
       DEF Next

-----------------------------------------------------------------------------
\* The tables of records are functions again after a step.
LEMMA RecordsStep ==
    ASSUME TypeOK, [Next]_vars
    PROVE  RecordsOK'
  <1>1. /\ states' \in [Alert -> AlertState \cup {None}]
        /\ rung' \in [Alert -> 0..2]
    <2>1. \A a \in Alert : states'[a] \in AlertState \cup {None} /\ rung'[a] \in 0..2
      BY StepDeed, DeedTyped DEF TypeOK
    <2>2. /\ states' = [a \in Alert |-> states'[a]]
          /\ rung' = [a \in Alert |-> rung'[a]]
      BY DEF TypeOK, RecordsOK, Next, vars, base, Open, Close, Override, Market, Acknowledge,
             ShellAnchor, WatchAnchor, SetAnchor, Create, Move, Delete, Reactivate, Merge, Agent,
             Reload, Render, WatchLoad, WatchDone, ShellPass, WatchPass, RunPass
    <2>3. QED
      BY <2>1, <2>2
  <1>2. \A a \in Alert : states'[a] # None => OfItsKind(a, states'[a])
    BY StepDeed, DeedTyped DEF TypeOK
  <1>3. QED
    BY <1>1, <1>2 DEF RecordsOK

LEMMA DirectionDrawn == \A spot : DirectionFor(spot) \in Direction
  BY DEF DirectionFor, Direction

LEMMA PlacesTyped == \A a : Places(a) \subseteq {"below", "on", "above"}
  BY DEF Places

\* The market moved for one alert is still in its place for all.
LEMMA MarketTyped ==
    ASSUME SourcesOK, NEW b \in Alert, NEW spot \in Places(b), market' = [market EXCEPT ![b] = spot]
    PROVE  /\ market' \in [Alert -> {"below", "on", "above"}]
           /\ \A a \in Alert : market'[a] \in Places(a)
  BY PlacesTyped DEF SourcesOK

LEMMA SourcesStep ==
    ASSUME TypeOK, [Next]_vars
    PROVE  SourcesOK'
  <1> USE AlertsAssumption DEF TypeOK
  <1>1. ASSUME NEW b \in Automatic, Open(b) \/ Close(b) PROVE SourcesOK'
    BY <1>1 DEF Open, Close, SourcesOK, world
  <1>2. ASSUME NEW b \in Automatic, Override(b) PROVE SourcesOK'
    BY <1>2, MarketTyped DEF Override, SourcesOK, Alert
  <1>3. ASSUME NEW b \in Alert, Market(b) PROVE SourcesOK'
    BY <1>3, MarketTyped DEF Market, SourcesOK, base
  <1>4. ASSUME NEW b \in Alert, Acknowledge(b) PROVE SourcesOK'
    BY <1>4 DEF Acknowledge, SourcesOK, world
  <1>5. ASSUME NEW b \in Wheel, ShellAnchor(b) \/ WatchAnchor(b) PROVE SourcesOK'
    BY <1>5 DEF ShellAnchor, WatchAnchor, SourcesOK, world
  <1>6. ASSUME NEW m \in Manual, Create(m) \/ Move(m) PROVE SourcesOK'
    <2>1. PICK spot \in Places(m), known \in Places(m) :
              /\ defs' = [defs EXCEPT ![m] = DirectionFor(known)]
              /\ market' = [market EXCEPT ![m] = spot]
      BY <1>6 DEF Create, Move
    <2>2. defs' \in [Manual -> Direction \cup {None}]
      BY <2>1, DirectionDrawn DEF SourcesOK
    <2>3. open' = open /\ purged' = purged /\ up' = up
      BY <1>6 DEF Create, Move
    <2>4. QED
      BY <2>1, <2>2, <2>3, MarketTyped DEF SourcesOK, Alert
  <1>7. ASSUME NEW m \in Manual, Delete(m) PROVE SourcesOK'
    BY <1>7 DEF Delete, SourcesOK, world
  <1>8. ASSUME NEW m \in Manual, Reactivate(m) PROVE SourcesOK'
    <2>1. defs' \in [Manual -> Direction \cup {None}]
      BY <1>8, DirectionDrawn DEF Reactivate, SourcesOK
    <2>2. QED
      BY <1>8, <2>1 DEF Reactivate, SourcesOK, world
  <1>9. CASE Agent \/ Reload \/ Render \/ WatchLoad \/ WatchDone
    BY <1>9 DEF Agent, Reload, Render, WatchLoad, WatchDone, base, world, SourcesOK
  <1>10. ASSUME NEW rows, NEW priceOf, RunPass(rows, priceOf), UNCHANGED <<open, defs, world>>
         PROVE  SourcesOK'
    BY <1>10 DEF RunPass, Stale, SourcesOK, world
  <1>11. CASE ShellPass
    BY <1>10, <1>11 DEF ShellPass
  <1>12. CASE WatchPass
    BY <1>10, <1>12 DEF WatchPass
  <1>13. CASE UNCHANGED vars
    BY <1>13 DEF vars, base, world, SourcesOK
  <1>14. QED
    BY <1>1, <1>2, <1>3, <1>4, <1>5, <1>6, <1>7, <1>8, <1>9, <1>11, <1>12, <1>13 DEF Next

LEMMA EnginesStep ==
    ASSUME TypeOK, [Next]_vars
    PROVE  EnginesOK'
  <1> USE AlertsAssumption DEF TypeOK
  <1>1. CASE Render
    <2>1. open \subseteq Automatic /\ Unanchored(open) \subseteq Wheel
      BY DEF SourcesOK, Unanchored
    <2>2. {a \in open \cup Defined : Triggered(StateOf(a))} \subseteq Alert
      BY <2>1 DEF Defined, Alert
    <2>3. QED
      BY <1>1, <2>1, <2>2 DEF Render, EnginesOK
  <1>2. CASE WatchLoad
    <2>1. Unanchored(open) \subseteq Wheel /\ open \cup Defined \subseteq Alert
      BY DEF SourcesOK, Unanchored, Defined, Alert
    <2>2. QED
      BY <1>2, <2>1 DEF WatchLoad, EnginesOK
  <1>3. ASSUME NEW b \in Wheel, ShellAnchor(b) PROVE EnginesOK'
    BY <1>3 DEF ShellAnchor, EnginesOK
  <1>4. ASSUME NEW b \in Wheel, WatchAnchor(b) PROVE EnginesOK'
    BY <1>4 DEF WatchAnchor, EnginesOK
  <1>5. CASE WatchPass \/ WatchDone \/ Reload
    <2>1. shell' = shell \/ shell' = Blank
      BY <1>5 DEF WatchPass, WatchDone, Reload
    <2>2. watch' = [watch EXCEPT !.at = "passed"] \/ watch' = Resting
      BY <1>5 DEF WatchPass, WatchDone, Reload
    <2>3. shell' \in [ready : BOOLEAN, rows : SUBSET Automatic, pending : SUBSET Wheel, shown : SUBSET Alert]
      <3>1. Blank \in [ready : BOOLEAN, rows : SUBSET Automatic, pending : SUBSET Wheel,
                       shown : SUBSET Alert]
        BY DEF Blank
      <3>2. QED
        BY <2>1, <3>1 DEF EnginesOK
    <2>4. watch' \in [at : {"idle", "loaded", "passed"}, alerts : SUBSET Alert,
                      pending : SUBSET Wheel, fresh : BOOLEAN]
      <3>1. Resting \in [at : {"idle", "loaded", "passed"}, alerts : SUBSET Alert,
                         pending : SUBSET Wheel, fresh : BOOLEAN]
        BY DEF Resting
      <3>2. [watch EXCEPT !.at = "passed"] \in [at : {"idle", "loaded", "passed"},
                 alerts : SUBSET Alert, pending : SUBSET Wheel, fresh : BOOLEAN]
        BY DEF EnginesOK
      <3>3. QED
        BY <2>2, <3>1, <3>2
    <2>5. QED
      BY <2>3, <2>4 DEF EnginesOK
  <1>6. ASSUME shell' = shell, watch' = watch PROVE EnginesOK'
    BY <1>6 DEF EnginesOK
  <1>7. QED
    BY <1>1, <1>2, <1>3, <1>4, <1>5, <1>6
       DEF Next, vars, Open, Close, Override, Market, Acknowledge, Create, Move, Delete,
           Reactivate, Agent, ShellPass

LEMMA TypeInit == Init => TypeOK
  <1> SUFFICES ASSUME Init PROVE TypeOK
    OBVIOUS
  <1>1. RecordsOK
    BY DEF Init, RecordsOK
  <1>2. SourcesOK
    BY DEF Init, SourcesOK, Places
  <1>3. EnginesOK
    BY DEF Init, EnginesOK, Blank, Resting
  <1>4. QED
    BY <1>1, <1>2, <1>3 DEF TypeOK

\* Type correctness: in every reachable state the tables, the captures and the bells
\* have their types, and a record has only the fields of its kind of alert.
THEOREM AlertsTypeSafe == Spec => []TypeOK
  <1>1. TypeOK /\ [Next]_vars => TypeOK'
    BY RecordsStep, SourcesStep, EnginesStep DEF TypeOK
  <1>2. QED
    BY <1>1, TypeInit, PTL DEF Spec

-----------------------------------------------------------------------------
\* Stronger than RingsOnce and inductive: a bell that has rung is that of a record
\* still triggered, so that no pass can ring it again before a rearming or a reset.
RungOnce == \A a \in Alert \ purged : rung[a] = 0 \/ (rung[a] = 1 /\ StateOf(a).triggered)

\* The record of an alert after a step, written or not.
NextState(a) == IF states'[a] = None THEN Initial ELSE states'[a]

LEMMA NextStateOf == \A a : StateOf(a)' = NextState(a)
  BY DEF StateOf, NextState

\* A step that neither rings, resets nor forgets an alert leaves its bell and whether
\* it is triggered, and unsees nothing.
LEMMA QuietDeed ==
    ASSUME RecordsOK, NEW a \in Alert, Leaves(a) \/ Creates(a) \/ Observes(a) \/ Sees(a)
    PROVE  /\ rung'[a] = rung[a]
           /\ NextState(a).triggered <=> StateOf(a).triggered
           /\ StateOf(a).seen => NextState(a).seen
  <1>1. StateOf(a) \in AlertState /\ None \notin AlertState /\ Initial \in AlertState
    BY StateTyped, AlertsAssumption DEF Initial, AlertState
  <1>2. CASE Leaves(a) \/ Creates(a)
    <2>1. NextState(a) = StateOf(a)
      BY <1>1, <1>2 DEF Leaves, Creates, NextState, StateOf
    <2>2. QED
      BY <1>2, <2>1 DEF Leaves, Creates
  <1>3. CASE Observes(a)
    <2>1. PICK price \in Price : states'[a] = Anchored(StateOf(a), price)
      BY <1>3 DEF Observes
    <2>2. NextState(a) = Anchored(StateOf(a), price)
      BY <1>1, <2>1, AnchoredKeeps DEF NextState
    <2>3. QED
      BY <1>1, <1>3, <2>2, AnchoredKeeps DEF Observes
  <1>4. CASE Sees(a)
    <2>1. NextState(a) = Acknowledged(a, StateOf(a))
      BY <1>1, <1>4, AcknowledgedKeeps DEF Sees, NextState
    <2>2. QED
      BY <1>1, <1>4, <2>1, AcknowledgedKeeps DEF Sees
  <1>5. QED
    BY <1>2, <1>3, <1>4

LEMMA RungOnceStep ==
    ASSUME TypeOK, RungOnce, [Next]_vars
    PROVE  RungOnce'
  <1> SUFFICES ASSUME NEW a \in Alert, a \notin purged'
               PROVE  rung'[a] = 0 \/ (rung'[a] = 1 /\ NextState(a).triggered)
    BY NextStateOf DEF RungOnce
  <1>1. Deed(a) /\ Spares(a) /\ RecordsOK
    BY StepDeed DEF TypeOK
  <1>2. rung'[a] = 0 \/ rung[a] = 0 \/ (rung[a] = 1 /\ StateOf(a).triggered)
    BY <1>1 DEF Spares, RungOnce
  <1>3. CASE Leaves(a) \/ Creates(a) \/ Observes(a) \/ Sees(a)
    BY <1>1, <1>2, <1>3, QuietDeed
  <1>4. CASE RingsFor(a)
    <2>1. rung'[a] = 0 \/ rung[a] = 0
      BY <1>2, <1>4 DEF RingsFor
    <2>2. rung'[a] = Rung(rung[a]) /\ states'[a] = Ringing(StateOf(a))
      BY <1>4 DEF RingsFor
    <2>3. rung'[a] = 0 \/ rung'[a] = 1
      BY <2>1, <2>2 DEF Rung
    <2>4. NextState(a).triggered
      BY <1>1, <2>2, StateTyped, RingingKeeps, AlertsAssumption DEF NextState
    <2>5. QED
      BY <2>3, <2>4
  <1>5. CASE Resets(a)
    BY <1>5 DEF Resets
  <1>6. CASE Forgets(a)
    BY <1>6 DEF Forgets
  <1>7. QED
    BY <1>1, <1>3, <1>4, <1>5, <1>6 DEF Deed

\* A transition is written and notified once: between two armings an alert rings at
\* most once, whatever the shell and the watcher captured, unless a pass has deleted
\* the state of a position still open.
THEOREM RingsOnceSafe == Spec => []RingsOnce
  <1>1. Init => RungOnce
    BY DEF Init, RungOnce
  <1>2. RungOnce => RingsOnce
    <2>1. SUFFICES ASSUME RungOnce, NEW a \in Alert \ purged PROVE rung[a] <= 1
      BY DEF RingsOnce
    <2>2. rung[a] = 0 \/ rung[a] = 1
      BY <2>1 DEF RungOnce
    <2>3. QED
      BY <2>2
  <1>3. TypeOK /\ RungOnce /\ [Next]_vars => RungOnce'
    BY RungOnceStep
  <1>4. QED
    BY <1>1, <1>2, <1>3, AlertsTypeSafe, PTL DEF Spec

-----------------------------------------------------------------------------
LEMMA BadgeStep ==
    ASSUME TypeOK, BadgeHasRung, [Next]_vars
    PROVE  BadgeHasRung'
  <1> SUFFICES ASSUME NEW a \in Alert, NextState(a).triggered, ~NextState(a).seen
               PROVE  rung'[a] >= 1
    BY NextStateOf DEF BadgeHasRung, Triggered
  <1>1. Deed(a) /\ RecordsOK /\ rung[a] \in 0..2
    BY StepDeed DEF TypeOK, RecordsOK
  <1>2. /\ StateOf(a) \in AlertState /\ None \notin AlertState
        /\ StateOf(a).triggered /\ ~StateOf(a).seen => rung[a] >= 1
    BY <1>1, StateTyped, AlertsAssumption DEF BadgeHasRung, Triggered
  <1>3. CASE Leaves(a) \/ Creates(a) \/ Observes(a) \/ Sees(a)
    BY <1>1, <1>2, <1>3, QuietDeed
  <1>4. CASE RingsFor(a)
    BY <1>1, <1>4 DEF RingsFor, Rung
  <1>5. ~Resets(a) /\ ~Forgets(a)
    <2>1. Initial.triggered = FALSE
      BY DEF Initial
    <2>2. states'[a] # None
      BY <2>1 DEF NextState
    <2>3. NextState(a) = states'[a]
      BY <2>2 DEF NextState
    <2>4. states'[a] # Rearmed(StateOf(a)) /\ states'[a] # Reactivated(StateOf(a))
      BY <1>2, <2>3, RearmedKeeps, ReactivatedKeeps
    <2>5. QED
      BY <2>2, <2>4 DEF Resets, Forgets
  <1>6. QED
    BY <1>1, <1>3, <1>4, <1>5 DEF Deed

\* The badge never comes on silently: an alert shown as triggered has been notified.
THEOREM BadgeHasRungSafe == Spec => []BadgeHasRung
  <1>1. Init => BadgeHasRung
    BY DEF Init, BadgeHasRung, Triggered, StateOf, Initial
  <1>2. TypeOK /\ BadgeHasRung /\ [Next]_vars => BadgeHasRung'
    BY BadgeStep
  <1>3. QED
    BY <1>1, <1>2, AlertsTypeSafe, PTL DEF Spec

-----------------------------------------------------------------------------
\* Only the deletion of a manual alert takes away its definition, and with it its state.
LEMMA DefinitionStep ==
    ASSUME TypeOK, [Next]_vars, NEW m \in Manual, m \in Defined, defs'[m] = None
    PROVE  states'[m] = None
  <1> USE DEF TypeOK
  <1>1. defs[m] # None /\ m \in Alert /\ defs' # defs
    BY DEF Defined, Alert
  <1>2. None \notin Direction
    BY AlertsAssumption DEF Direction
  <1>3. ASSUME NEW n \in Manual, Create(n) \/ Move(n) PROVE FALSE
    BY <1>1, <1>2, <1>3, DirectionDrawn DEF Create, Move, SourcesOK
  <1>4. ASSUME NEW n \in Manual, Reactivate(n) PROVE FALSE
    BY <1>1, <1>2, <1>4, DirectionDrawn DEF Reactivate, SourcesOK
  <1>5. ASSUME NEW n \in Manual, Delete(n) PROVE states'[m] = None
    <2>1. m = n
      BY <1>1, <1>5 DEF Delete, SourcesOK
    <2>2. QED
      BY <1>1, <1>5, <2>1, MergeElsewhere DEF Delete
  <1>6. QED
    BY <1>1, <1>3, <1>4, <1>5
       DEF Next, vars, base, Open, Close, Override, Market, Acknowledge, ShellAnchor,
           WatchAnchor, Agent, Reload, Render, WatchLoad, WatchDone, ShellPass, WatchPass

LEMMA GhostStep ==
    ASSUME TypeOK, NoGhost, [Next]_vars
    PROVE  NoGhost'
  <1> SUFFICES ASSUME NEW m \in Manual, NextState(m).triggered, ~NextState(m).seen
               PROVE  defs'[m] # None
    BY NextStateOf DEF NoGhost, Triggered, Defined
  <1>1. m \in Alert /\ Deed(m) /\ RecordsOK
    BY StepDeed DEF TypeOK, Alert
  <1>2. /\ StateOf(m) \in AlertState /\ None \notin AlertState
        /\ StateOf(m).triggered /\ ~StateOf(m).seen => m \in Defined
    BY <1>1, StateTyped, AlertsAssumption DEF NoGhost, Triggered
  <1>3. states'[m] # None
    BY DEF NextState, Initial
  <1>4. NextState(m) = states'[m]
    BY <1>3 DEF NextState
  <1>5. m \in Defined
    <2>1. CASE Leaves(m) \/ Creates(m) \/ Observes(m) \/ Sees(m)
      BY <1>1, <1>2, <2>1, QuietDeed
    <2>2. CASE RingsFor(m)
      BY <2>2 DEF RingsFor
    <2>3. ~Resets(m) /\ ~Forgets(m)
      BY <1>2, <1>3, <1>4, RearmedKeeps, ReactivatedKeeps DEF Resets, Forgets
    <2>4. QED
      BY <1>1, <2>1, <2>2, <2>3 DEF Deed
  <1>6. QED
    BY <1>3, <1>5, DefinitionStep

\* No triggered state outlives its manual alert, in whatever order a deletion and the
\* passes of the two engines commit.
THEOREM NoGhostSafe == Spec => []NoGhost
  <1>1. Init => NoGhost
    BY DEF Init, NoGhost, Triggered, StateOf, Initial, Alert
  <1>2. TypeOK /\ NoGhost /\ [Next]_vars => NoGhost'
    BY GhostStep
  <1>3. QED
    BY <1>1, <1>2, AlertsTypeSafe, PTL DEF Spec

-----------------------------------------------------------------------------
\* S0 is written once, whichever engine comes first.
THEOREM AnchorKeptSafe == Spec => AnchorKept
  <1> DEFINE Same == \A a \in Wheel : states[a] # None /\ states'[a] # None
                                         /\ states[a].anchor # None
                                         => states'[a].anchor = states[a].anchor
  <1>1. TypeOK /\ [Next]_vars => [Same]_vars
    <2> SUFFICES ASSUME TypeOK, [Next]_vars, NEW a \in Wheel, states[a] # None, states'[a] # None,
                        states[a].anchor # None
                 PROVE  states'[a].anchor = states[a].anchor
      OBVIOUS
    <2>1. a \in Alert /\ StateOf(a) = states[a] /\ RecordsOK
      BY AlertsAssumption DEF Alert, StateOf, TypeOK
    <2>2. StateOf(a) \in AlertState /\ Deed(a)
      BY <2>1, StateTyped, StepDeed
    <2>3. ~Creates(a) /\ ~Observes(a) /\ ~Forgets(a)
      BY <2>1 DEF Creates, Observes, Forgets
    <2>4. QED
      BY <2>1, <2>2, <2>3, RingingKeeps, RearmedKeeps, ReactivatedKeeps, AcknowledgedKeeps
         DEF Deed, Leaves, RingsFor, Sees, Resets
  <1>2. QED
    BY <1>1, AlertsTypeSafe, PTL DEF Spec, AnchorKept
=============================================================================
