----------------------------- MODULE ChartAlerts -----------------------------
(***************************************************************************)
(* The gestures that set, drag and edit a manual alert on a chart          *)
(* (AlertOverlay.tsx, alertGestures.ts) and what the row of the chart      *)
(* makes of them (PositionChartRow.tsx, db/alerts.ts).  Several pointers   *)
(* may be down; a gesture may end by a release, a cancellation, the loss   *)
(* of its capture or the removal of the overlay, while the base changes    *)
(* elsewhere and the scale moves under the fingers.                        *)
(*                                                                         *)
(* A height is a row of pixels, a price the height it has on the scale     *)
(* not shifted: the chart shows the price p at the height p - zoom.        *)
(***************************************************************************)
EXTENDS Integers, FiniteSets

CONSTANTS
    Uuid,           \* identifiers an alert may be given, each once
    Pointer,        \* pointers of the device
    Touch,          \* those that are fingers
    Top,            \* bound: the heights of the pane are 1..Top
    Zooms,          \* shifts of the scale
    HitTolerance,   \* ALERT_HIT_TOLERANCE_PX, and the radius of a bell
    PressSlop,      \* LONG_PRESS_SLOP_PX
    Nothing         \* no alert, no gesture, no editor

Height == 1..Top
ScalePrice == {y + z : y \in Height, z \in Zooms}
Drag == [id : Uuid, pointer : Pointer, y : Height]
Press == [pointer : Pointer, y : Height]

ASSUME ChartAssumption ==
    /\ Touch \subseteq Pointer /\ Top \in Nat /\ Zooms \subseteq Int
    /\ HitTolerance \in Nat /\ PressSlop \in Nat
    /\ Nothing \notin ScalePrice \cup Height \cup Drag \cup Press

VARIABLES
    prices,         \* db.alerts: the price of each manual alert of this ticker
    given,          \* history: the identifiers given so far
    drawn,          \* latest.current.alerts: the alerts of the last render
    zoom,           \* where the scale is
    at,             \* the height of each pointer that is down
    drag,           \* the line held, by which pointer, and its height
    press,          \* the long press whose timer runs
    scrolls,        \* handleScroll and handleScale of the chart
    overlay,        \* the overlay is mounted
    editing         \* the alert in the editor, as it was when it opened

chartVars == <<prices, given, drawn, zoom, at, drag, press, scrolls, overlay, editing>>
gesture == <<drag, press, scrolls>>

Apart(y, z) == IF y > z THEN y - z ELSE z - y

\* series.priceToCoordinate and coordinateToPrice, read when the gesture needs them.
HeightOf(price) == price - zoom
PriceAtY(y) == y + zoom

\* hitAlert: the nearest line within the tolerance.
Near(y) == {id \in Uuid : drawn[id] # Nothing /\ Apart(HeightOf(drawn[id]), y) <= HitTolerance}
HitAlert(y) == {id \in Near(y) : \A other \in Near(y) :
                   Apart(HeightOf(drawn[id]), y) <= Apart(HeightOf(drawn[other]), y)}

-----------------------------------------------------------------------------
(* db/alerts.ts and the handlers of the row.                               *)

\* createManualAlert: an identifier of its own.
CreateManualAlert(price) ==
    \E id \in Uuid \ given :
        /\ prices' = [prices EXCEPT ![id] = price]
        /\ given' = given \cup {id}

\* Mutant: the row is put, not updated.
PutManualAlert(id, price) == prices' = [prices EXCEPT ![id] = price]

\* updateManualAlert: nothing is written to an alert that is gone.
UpdateManualAlert(id, price) ==
    prices' = IF prices[id] = Nothing THEN prices ELSE [prices EXCEPT ![id] = price]

\* onEditAlert: the note alone leaves the price and the direction as they are.
OnEditAlert(id, price) == IF price = drawn[id] THEN UNCHANGED prices ELSE UpdateManualAlert(id, price)

-----------------------------------------------------------------------------
(* Gestures.                                                               *)

\* Mutant: the scroll is only given back to a gesture that writes.
ReleaseScrollOnCommit(commit) == scrolls' = (scrolls \/ commit)

ReleaseScroll(commit) == scrolls' = TRUE

\* endDrag: the alert as it is now drawn, at the height the pointer had last.
EndDrag(commit) ==
    IF drag = Nothing THEN UNCHANGED <<drag, scrolls, prices>>
    ELSE /\ drag' = Nothing
         /\ ReleaseScroll(commit)
         /\ LET price == PriceAtY(drag.y) IN
            IF commit /\ drawn[drag.id] # Nothing /\ price # drawn[drag.id]
            THEN UpdateManualAlert(drag.id, price)
            ELSE UNCHANGED prices

\* A bell opens on click; a line is held; a finger elsewhere starts a long press.
PointerDown(p) ==
    /\ at[p] = Nothing
    /\ \E y \in Height, place \in {"pane", "bells"} :
          /\ at' = [at EXCEPT ![p] = y]
          /\ IF ~overlay \/ (place = "bells" /\ Near(y) # {}) THEN UNCHANGED gesture
             ELSE IF HitAlert(y) # {}
             THEN /\ \E id \in HitAlert(y) : drag' = [id |-> id, pointer |-> p, y |-> y]
                  /\ scrolls' = FALSE
                  /\ UNCHANGED press
             ELSE /\ press' = IF p \in Touch THEN [pointer |-> p, y |-> y] ELSE press
                  /\ UNCHANGED <<drag, scrolls>>
    /\ UNCHANGED <<prices, given, drawn, zoom, overlay, editing>>

\* On the axis, with another button or with Alt: no gesture.
PointerDownAside(p) ==
    /\ at[p] = Nothing
    /\ \E y \in Height : at' = [at EXCEPT ![p] = y]
    /\ UNCHANGED <<prices, given, drawn, zoom, gesture, overlay, editing>>

\* A press whose place any pointer leaves is a scroll.
PressAfter(y) == IF press # Nothing /\ Apart(y, press.y) > PressSlop THEN Nothing ELSE press

PointerMove(p) ==
    /\ at[p] # Nothing
    /\ \E y \in Height :
          /\ at' = [at EXCEPT ![p] = y]
          /\ drag' = IF drag # Nothing /\ drag.pointer = p THEN [drag EXCEPT !.y = y] ELSE drag
          /\ press' = PressAfter(y)
    /\ UNCHANGED <<prices, given, drawn, zoom, scrolls, overlay, editing>>

\* onPointerUp, onPointerCancel: of whichever pointer.
PointerEnds(p) ==
    /\ at[p] # Nothing
    /\ at' = [at EXCEPT ![p] = Nothing]
    /\ press' = Nothing
    /\ \E commit \in BOOLEAN : EndDrag(commit)
    /\ UNCHANGED <<given, drawn, zoom, overlay, editing>>

\* onLostCapture: the element's own, its pointer still down.
LostCapture ==
    /\ drag # Nothing
    /\ press' = Nothing /\ EndDrag(FALSE)
    /\ UNCHANGED <<given, drawn, zoom, at, overlay, editing>>

\* The timer of the long press, LONG_PRESS_MS after the finger came down.
LongPress ==
    /\ press # Nothing
    /\ press' = Nothing
    /\ CreateManualAlert(PriceAtY(press.y))
    /\ UNCHANGED <<drawn, zoom, at, drag, scrolls, overlay, editing>>

\* Alt and a click, or the "+" that follows the crosshair.
CreateByClick ==
    /\ overlay
    /\ \E y \in Height : CreateManualAlert(PriceAtY(y))
    /\ UNCHANGED <<drawn, zoom, at, gesture, overlay, editing>>

-----------------------------------------------------------------------------
(* The editor, near the bell of its alert.                                 *)

OpenEditor(id) ==
    /\ overlay /\ drawn[id] # Nothing
    /\ editing' = [id |-> id, price |-> drawn[id]]
    /\ UNCHANGED <<prices, given, drawn, zoom, at, gesture, overlay>>

\* The price typed, or the one the editor opened on.
SaveEditor ==
    /\ editing # Nothing
    /\ \E price \in ScalePrice : OnEditAlert(editing.id, price)
    /\ editing' = Nothing
    /\ UNCHANGED <<given, drawn, zoom, at, gesture, overlay>>

DeleteInEditor ==
    /\ editing # Nothing
    /\ prices' = [prices EXCEPT ![editing.id] = Nothing]
    /\ editing' = Nothing
    /\ UNCHANGED <<given, drawn, zoom, at, gesture, overlay>>

CloseEditor ==
    /\ editing # Nothing
    /\ editing' = Nothing
    /\ UNCHANGED <<prices, given, drawn, zoom, at, gesture, overlay>>

-----------------------------------------------------------------------------
(* Around the overlay.                                                     *)

\* The page of the alerts, another row or another tab.
DeleteElsewhere(id) ==
    /\ prices[id] # Nothing
    /\ prices' = [prices EXCEPT ![id] = Nothing]
    /\ UNCHANGED <<given, drawn, zoom, at, gesture, overlay, editing>>

RenderChart ==
    /\ drawn' = prices
    /\ UNCHANGED <<prices, given, zoom, at, gesture, overlay, editing>>

ScaleMoves ==
    /\ zoom' \in Zooms
    /\ UNCHANGED <<prices, given, drawn, at, gesture, overlay, editing>>

\* The price of the ticker is no longer known: the row gives no handler.
Unmount ==
    /\ overlay
    /\ overlay' = FALSE /\ drag' = Nothing /\ press' = Nothing /\ editing' = Nothing
    /\ scrolls' = TRUE
    /\ UNCHANGED <<prices, given, drawn, zoom, at>>

Mount ==
    /\ ~overlay
    /\ overlay' = TRUE
    /\ UNCHANGED <<prices, given, drawn, zoom, at, gesture, editing>>

ChartInit ==
    /\ prices = [id \in Uuid |-> Nothing] /\ given = {} /\ drawn = prices
    /\ zoom \in Zooms /\ at = [p \in Pointer |-> Nothing]
    /\ drag = Nothing /\ press = Nothing /\ scrolls = TRUE
    /\ overlay = TRUE /\ editing = Nothing

ChartNext ==
    \/ \E p \in Pointer : PointerDown(p) \/ PointerDownAside(p) \/ PointerMove(p) \/ PointerEnds(p)
    \/ \E id \in Uuid : OpenEditor(id) \/ DeleteElsewhere(id)
    \/ LostCapture \/ LongPress \/ CreateByClick
    \/ SaveEditor \/ DeleteInEditor \/ CloseEditor
    \/ RenderChart \/ ScaleMoves \/ Unmount \/ Mount

ChartSpec == ChartInit /\ [][ChartNext]_chartVars

-----------------------------------------------------------------------------
\* What the pointers hold has its type.
PointersOK ==
    /\ at \in [Pointer -> Height \cup {Nothing}]
    /\ drag \in Drag \cup {Nothing} /\ press \in Press \cup {Nothing}
    /\ scrolls \in BOOLEAN /\ overlay \in BOOLEAN

\* Whatever ends a gesture, the chart does not stay frozen nor a press armed: it scrolls
\* unless a pointer still down holds a line, and a long press is under way only under a
\* pointer that is down and has not left its place.
GestureIsHeld ==
    /\ scrolls = (drag = Nothing)
    /\ drag # Nothing => overlay /\ at[drag.pointer] = drag.y
    /\ press # Nothing => overlay /\ at[press.pointer] # Nothing
                          /\ Apart(at[press.pointer], press.y) <= PressSlop

\* An alert deleted while it is dragged, edited or still drawn stays deleted: no gesture
\* that ends later brings it back.
DeletedAlertStays ==
    [][\A id \in given : prices[id] = Nothing => prices'[id] = Nothing]_chartVars
=============================================================================
