---------------------------- MODULE PositionBoxes ----------------------------
(***************************************************************************)
(* A page of positions (PositionsPage.tsx, StrategyPositionsPage.tsx):     *)
(* boxes that each keep their own filters, a search over all of them, and  *)
(* a bar of expiries that writes the same criterion in every box the page  *)
(* declares, shown or not.  A box may leave the page; what it kept stays.  *)
(* The text of a Position cell is the expiry it names, 0 for a share.      *)
(***************************************************************************)
EXTENDS TableFilters

CONSTANTS
    Box,            \* the boxes the page declares
    Portfolio,      \* what the snapshots put in each box: a sequence of lines
    Typed,          \* criteria a user types in the header of a shown box, by column
    PageSearches,   \* texts of the search of the page
    MaxButtons,     \* MAX_EXPIRY_BUTTONS
    PageDays            \* days the page may be looked at

NoText == [type |-> "none"]

ASSUME BoxesAssumption ==
    /\ PageDays \subseteq Nat /\ MaxButtons \in Nat \ {0} /\ NoText \in PageSearches
    /\ \A boxes \in Portfolio :
          DOMAIN boxes = Box /\ \A box \in Box : boxes[box] \in Seq(ToSet(boxes[box]))

VARIABLES
    boxLines,       \* the lines of each box, from the last snapshot
    boxView,        \* the stored view of each box
    pageSearch,     \* the search applied
    marketDay       \* reportToday

boxVars == <<boxLines, boxView, pageSearch, marketDay>>

\* The label of an expiry: as a criterion, the texts that contain it.
Label(expiry) ==
    [type |-> "terms", ok |-> TRUE,
     alternatives |-> {{[negate |-> FALSE, op |-> "=", low |-> expiry, high |-> expiry, absent |-> FALSE]}}]

\* searchBoxes: a box the search empties is not there at all.
SearchedRows(box) == ApplyView(boxLines[box], EmptyView, pageSearch)
SearchedBoxes == {box \in Box : SearchedRows(box) # <<>>}

\* expiryChoices: the nearest expiries of what the search left, whatever the filters.
ExpiryChoices ==
    LET expiries == {e \in UNION {UNION {SearchedRows(box)[i]["position"] : i \in DOMAIN SearchedRows(box)}
                                     : box \in SearchedBoxes} : e # 0 /\ e >= marketDay}
    IN  {e \in expiries : Cardinality({nearer \in expiries : nearer < e}) < MaxButtons}

\* activeExpiry: the choice every declared box filters on; at most one.
ActiveExpiry ==
    {e \in ExpiryChoices :
        \A box \in Box : "position" \in DOMAIN boxView[box].criteria /\ boxView[box].criteria["position"] = Label(e)}

FilteredRows(box) == ApplyView(SearchedRows(box), boxView[box], NoText)

\* Mutant: a box emptied by its own filters goes away, its pills with it.
FilledBoxes == {box \in SearchedBoxes : FilteredRows(box) # <<>>}

\* filterBoxes: an emptied box stays, unless an expiry is chosen.
PreparedBoxes == {box \in SearchedBoxes : FilteredRows(box) # <<>> \/ ActiveExpiry = {}}

\* Whether the page's value leaves the cash out: a search, or a filter of any box.
Filtered == pageSearch # NoText \/ \E box \in Box : Pills(boxView[box]) # {}

-----------------------------------------------------------------------------
InBox(view, column, criterion) ==
    [view EXCEPT !.criteria = IF Filters(criterion) THEN WithColumn(@, column, criterion) ELSE WithoutColumn(@, column)]

\* A button of the bar, or "all": the criterion of every declared box at once.
SetExpiry(criterion) ==
    /\ boxView' = [box \in Box |-> InBox(boxView[box], "position", criterion)]
    /\ UNCHANGED <<boxLines, pageSearch, marketDay>>

PickExpiry == \E e \in ExpiryChoices : SetExpiry(IF e \in ActiveExpiry THEN NoCriterion ELSE Label(e))

DropExpiry == ActiveExpiry # {} /\ SetExpiry(NoCriterion)

\* The header of a box on screen, or one of its pills.
TypeInBox(box) ==
    /\ box \in PreparedBoxes
    /\ \E column \in DOMAIN Typed : \E criterion \in Typed[column] \cup {NoCriterion} :
          boxView' = [boxView EXCEPT ![box] = InBox(@, column, criterion)]
    /\ UNCHANGED <<boxLines, pageSearch, marketDay>>

ClearBox(box) ==
    /\ box \in PreparedBoxes /\ Pills(boxView[box]) # {}
    /\ boxView' = [boxView EXCEPT ![box] = EmptyView]
    /\ UNCHANGED <<boxLines, pageSearch, marketDay>>

SearchPage == pageSearch' \in PageSearches /\ UNCHANGED <<boxLines, boxView, marketDay>>

SnapshotArrives == boxLines' \in Portfolio /\ UNCHANGED <<boxView, pageSearch, marketDay>>

DayPasses == marketDay + 1 \in PageDays /\ marketDay' = marketDay + 1 /\ UNCHANGED <<boxLines, boxView, pageSearch>>

BoxesInit ==
    /\ boxLines \in Portfolio /\ boxView = [box \in Box |-> EmptyView] /\ pageSearch = NoText
    /\ marketDay = CHOOSE d \in PageDays : \A other \in PageDays : d <= other

BoxesNext ==
    \/ PickExpiry \/ DropExpiry \/ SearchPage \/ SnapshotArrives \/ DayPasses
    \/ \E box \in Box : TypeInBox(box) \/ ClearBox(box)

BoxesSpec == BoxesInit /\ [][BoxesNext]_boxVars

-----------------------------------------------------------------------------
OnScreen(box, line) == box \in PreparedBoxes /\ \E i \in DOMAIN FilteredRows(box) : FilteredRows(box)[i] = line

\* Nothing leaves the page without something on it that takes it back: the search, a pill of
\* a box still there, or the button of the expiry chosen - never a filter kept by a box that
\* is gone, nor a button that went away with the lines it emptied, nor one that is past.  And
\* the page adds the cash to its value only while every line is on it.
PageTellsWhatItHides ==
    /\ \A box \in Box : \A i \in DOMAIN boxLines[box] :
          LET line == boxLines[box][i] IN
          \/ OnScreen(box, line)
          \/ ~Keeps(pageSearch, line["ticker"])
          \/ box \in PreparedBoxes /\ \E c \in Pills(boxView[box]) : ~Keeps(boxView[box].criteria[c], line[c])
          \/ ActiveExpiry # {}
    /\ ~Filtered => \A box \in Box : \A i \in DOMAIN boxLines[box] : OnScreen(box, boxLines[box][i])
=============================================================================
