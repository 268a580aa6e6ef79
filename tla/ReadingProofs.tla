---------------------------- MODULE ReadingProofs ----------------------------
(***************************************************************************)
(* Proofs about what the pages read of an account.                         *)
(*                                                                         *)
(* - The shell (AccountShell), for any accounts, any tables, any number of *)
(*   writes, switches and batches of quotes.  ShellServesItsAccount rests  *)
(*   on two facts: an answer carries the account it was asked for, so that *)
(*   what a render reads of it is of the account on screen; and once the   *)
(*   effects of a render have run, the inputs of that render wait in the   *)
(*   queue, are worked on, or were the last ones worked on - never dropped *)
(*   between two passes.                                                   *)
(* - The sector table (Sectors), for any companies, fields, sources and    *)
(*   files, any number of importers.                                       *)
(* - The tables and their filters (TableViews, PositionBoxes), for any     *)
(*   rows, columns, predicates and sorts.                                  *)
(* - The cash (CashBalances), for any rows, figures, days and reports.     *)
(* - The parsers (Parsers), for any histories and any number of flaws.     *)
(* - The timeline (HistoryTimeline), for any rows, months and window.      *)
(***************************************************************************)
EXTENDS AccountShell, Sectors, TableViews, PositionBoxes, CashBalances, Parsers, HistoryTimeline,
        DataLemmas

-----------------------------------------------------------------------------
(* The account shell.                                                       *)

Answer == UNION {[scope : {a}, row : TableRow(a)] : a \in Scope}
SomeInputs == UNION {InputsAbout(a) : a \in Scope}

\* What a render derives is of one account, which has no row but its own.
FrameOf(a) == [account : {a}, rows : [Part -> TableRow(a) \cup {Loading}], present : BOOLEAN, quotes : Nat]
Frame == (UNION {FrameOf(a) : a \in Scope}) \cup {NoFrame}

\* What is asked of the agent is the port and the tickers of one account.
RequestAbout(a) == [port : TableRow(a), held : TableRow(a), alerts : BOOLEAN]
Quoting == [asked : UNION {RequestAbout(a) : a \in Scope}, left : Int]

BaseInv ==
    /\ tables \in [Scope -> [Part -> Nat]]
    /\ existing \subseteq Scope /\ (listed = Loading \/ listed \subseteq Scope)
    /\ following \in Scope \cup {Nowhere}
    /\ reachable \in BOOLEAN /\ quotes \in Nat

AnswersInv == answers \in [Part -> Answer \cup {Nil}]

FrameInv == frame \in Frame /\ effectsDue \in BOOLEAN

PassInv ==
    /\ {passInputs, passing, lastPass} \subseteq SomeInputs \cup {Nil}
    /\ farewells \subseteq SomeInputs /\ scheduled \in BOOLEAN

RefreshInv == refreshes \in Seq(Quoting)

\* The inputs of the last render are in the queue, under way, or done.
QueueInv ==
    ~effectsDue /\ EngineReady(frame) =>
        /\ passInputs = InputsOf(frame)
        /\ ~scheduled => passing = passInputs \/ (passing = Nil /\ lastPass = passInputs)

ShellInv == BaseInv /\ AnswersInv /\ FrameInv /\ PassInv /\ RefreshInv /\ QueueInv

-----------------------------------------------------------------------------
(* What is read of one account is of that account.                         *)

LEMMA Parts == "account" \in Part /\ "snapshot" \in Part /\ JournalParts \subseteq Part
BY ShellAssumption DEF JournalParts

LEMMA RowsAreNotLoading == \A a \in Scope : \A row \in TableRow(a) : row # Loading /\ row.of = a
BY ShellAssumption DEF TableRow

LEMMA FrameRows ==
    ASSUME NEW f \in Frame
    PROVE  /\ f.account \in Scope \cup {Nowhere} /\ f.present \in BOOLEAN /\ f.quotes \in Nat
           /\ \A p \in Part : f.rows[p] = Loading \/ (f.account \in Scope /\ f.rows[p] \in TableRow(f.account))
<1>1. CASE f = NoFrame
  BY <1>1 DEF NoFrame
<1>2. ASSUME NEW a \in Scope, f \in FrameOf(a)
      PROVE  /\ f.account = a /\ f.present \in BOOLEAN /\ f.quotes \in Nat
             /\ \A p \in Part : f.rows[p] \in TableRow(a) \cup {Loading}
  BY <1>2 DEF FrameOf
<1>. QED  BY <1>1, <1>2 DEF Frame

\* A render reads the answers of the account on screen.
LEMMA RenderedIsAFrame ==
    ASSUME BaseInv, AnswersInv
    PROVE  Rendered \in Frame
<1>1. CASE OnDisplay = Nowhere
  BY <1>1 DEF Rendered, Frame
<1>2. CASE OnDisplay # Nowhere
  <2>. DEFINE a == OnDisplay
  <2>1. a \in Scope
    BY <1>2 DEF OnDisplay, BaseInv
  <2>2. ASSUME NEW p \in Part PROVE Answered(p, a) \in TableRow(a) \cup {Loading}
    <3>1. CASE answers[p] # Nil /\ answers[p].scope = a
      <4>1. PICK b \in Scope : answers[p] \in [scope : {b}, row : TableRow(b)]
        BY <3>1 DEF AnswersInv, Answer
      <4>2. b = a
        BY <3>1, <4>1
      <4>. QED  BY <3>1, <4>1, <4>2 DEF Answered
    <3>2. CASE ~(answers[p] # Nil /\ answers[p].scope = a)
      BY <3>2 DEF Answered
    <3>. QED  BY <3>1, <3>2
  <2>3. [p \in Part |-> Answered(p, a)] \in [Part -> TableRow(a) \cup {Loading}]
    BY <2>2
  <2>4. Rendered = [account |-> a, rows |-> [p \in Part |-> Answered(p, a)], present |-> reachable, quotes |-> quotes]
    BY <1>2 DEF Rendered
  <2>5. Rendered \in FrameOf(a)
    BY <2>3, <2>4 DEF FrameOf, BaseInv
  <2>. QED  BY <2>1, <2>5 DEF Frame
<1>. QED  BY <1>1, <1>2

\* The inputs of a pass are the rows of the account of the render.
LEMMA InputsAreItsOwn ==
    ASSUME NEW f \in Frame, EngineReady(f)
    PROVE  f.account \in Scope /\ InputsOf(f) \in InputsAbout(f.account) /\ InputsOf(f) # Nil
<1>1. \A p \in Part : f.account \in Scope /\ f.rows[p] \in TableRow(f.account)
  BY FrameRows DEF EngineReady
<1>2. f.account \in Scope /\ f.rows["account"] \in TableRow(f.account) /\ f.rows["snapshot"] \in TableRow(f.account)
  BY <1>1, Parts
<1>3. Journals(f) = [p \in JournalParts |-> f.rows[p]]
  BY Parts DEF Journals, EngineReady
<1>4. Journals(f) \in [JournalParts -> TableRow(f.account)]
  BY <1>1, <1>3, Parts
<1>5. (IF f.present THEN <<f.rows["snapshot"], f.quotes>> ELSE Loading) \in (TableRow(f.account) \X Nat) \cup {Loading}
  BY <1>2, FrameRows
<1>6. InputsOf(f) \in InputsAbout(f.account)
  BY <1>2, <1>4, <1>5 DEF InputsOf, InputsAbout
<1>. QED  BY <1>2, <1>6, ShellAssumption

\* A request that is sent is about the account of the render.
LEMMA RequestIsItsOwn ==
    ASSUME NEW f \in Frame, RequestOf(f).held # Loading
    PROVE  f.account \in Scope /\ RequestOf(f) \in RequestAbout(f.account)
<1>1. CASE ~f.present \/ f.rows["account"] \in {Loading, [of |-> f.account, edition |-> Gone]}
  BY <1>1 DEF RequestOf, NoRequest
<1>2. CASE ~(~f.present \/ f.rows["account"] \in {Loading, [of |-> f.account, edition |-> Gone]})
  <2>1. RequestOf(f) = [port |-> f.rows["account"], held |-> f.rows["snapshot"], alerts |-> EngineReady(f)]
    BY <1>2 DEF RequestOf
  <2>2. f.rows["account"] # Loading /\ f.rows["snapshot"] # Loading
    BY <1>2, <2>1
  <2>3. f.account \in Scope /\ f.rows["account"] \in TableRow(f.account) /\ f.rows["snapshot"] \in TableRow(f.account)
    BY <2>2, Parts, FrameRows
  <2>4. EngineReady(f) \in BOOLEAN
    BY DEF EngineReady
  <2>. QED  BY <2>1, <2>3, <2>4 DEF RequestAbout
<1>. QED  BY <1>1, <1>2

-----------------------------------------------------------------------------
(* Every step keeps the invariant.                                         *)

LEMMA InitShell == ShellInit => ShellInv
<1>. SUFFICES ASSUME ShellInit PROVE ShellInv
  OBVIOUS
<1>1. BaseInv
  BY ShellAssumption DEF ShellInit, BaseInv
<1>2. AnswersInv /\ FrameInv /\ PassInv /\ RefreshInv
  <2>1. AnswersInv
    BY DEF ShellInit, AnswersInv
  <2>2. FrameInv
    BY DEF ShellInit, FrameInv, Frame
  <2>3. PassInv
    BY DEF ShellInit, PassInv
  <2>4. RefreshInv
    BY DEF ShellInit, RefreshInv, quoting
  <2>. QED  BY <2>1, <2>2, <2>3, <2>4
<1>3. ~EngineReady(frame)
  BY Parts DEF ShellInit, EngineReady, NoFrame
<1>. QED  BY <1>1, <1>2, <1>3 DEF ShellInv, QueueInv

LEMMA QueryKeeps == ASSUME ShellInv, NEW p \in Part, QueryAnswers(p) PROVE ShellInv'
<1>. DEFINE found == [scope |-> following, row |-> [of |-> following, edition |-> tables[following][p]]]
<1>1. following \in Scope /\ answers' = [answers EXCEPT ![p] = found]
  BY DEF QueryAnswers, ShellInv, BaseInv
<1>2. found \in [scope : {following}, row : TableRow(following)]
  BY <1>1 DEF ShellInv, BaseInv, TableRow
<1>3. found \in Answer
  BY <1>1, <1>2 DEF Answer
<1>4. AnswersInv'
  BY <1>1, <1>3 DEF ShellInv, AnswersInv
<1>5. UNCHANGED <<stored, listed, following, frame, effectsDue, engine, reachable, quotes, refreshes>>
  BY DEF QueryAnswers, quoting
<1>. QED  BY <1>4, <1>5 DEF ShellInv, BaseInv, FrameInv, PassInv, RefreshInv, QueueInv, stored, engine,
             EngineReady, InputsOf, Journals

LEMMA RendersKeep == ASSUME ShellInv, Renders PROVE ShellInv'
<1>1. frame' = Rendered /\ Rendered \in Frame /\ UNCHANGED <<stored, listed, reachable>>
  BY RenderedIsAFrame DEF Renders, ShellInv
<1>2. CASE Rendered = NoFrame /\ effectsDue' = FALSE /\ Unmounts
  <2>1. BaseInv' /\ AnswersInv' /\ RefreshInv' /\ FrameInv'
    BY <1>1, <1>2 DEF Unmounts, ShellInv, BaseInv, AnswersInv, RefreshInv, FrameInv, stored
  <2>2. PassInv'
    BY <1>2 DEF Unmounts, ShellInv, PassInv
  <2>3. ~EngineReady(frame')
    BY <1>1, <1>2, Parts DEF EngineReady, NoFrame
  <2>. QED  BY <2>1, <2>2, <2>3 DEF ShellInv, QueueInv, EngineReady
<1>3. CASE effectsDue' = TRUE /\ UNCHANGED <<subscription, engine, quoting>>
  BY <1>1, <1>3 DEF ShellInv, BaseInv, AnswersInv, FrameInv, PassInv, RefreshInv, QueueInv, stored, subscription,
     engine, quoting
<1>. QED  BY <1>2, <1>3 DEF Renders

LEMMA EffectsKeep == ASSUME ShellInv, EffectsRun PROVE ShellInv'
<1>1. /\ frame \in Frame /\ effectsDue' = FALSE
      /\ UNCHANGED <<stored, listed, frame, reachable, answers, quotes, passing, farewells, lastPass>>
      /\ following' = frame.account
  BY DEF EffectsRun, Subscribes, SchedulesPass, AsksForQuotes, ShellInv, FrameInv
<1>2. BaseInv' /\ AnswersInv' /\ FrameInv'
  BY <1>1, FrameRows DEF ShellInv, BaseInv, AnswersInv, FrameInv, stored
<1>3. RefreshInv'
  <2>1. CASE quoted'.held = Loading \/ quoted' = quoted
    BY <2>1 DEF EffectsRun, AsksForQuotes, ShellInv, RefreshInv
  <2>2. CASE ~(quoted'.held = Loading \/ quoted' = quoted)
    <3>1. quoted' = RequestOf(frame) /\ refreshes' = Append(refreshes, [asked |-> quoted', left |-> Batches])
      BY <2>2 DEF EffectsRun, AsksForQuotes
    <3>2. frame.account \in Scope /\ quoted' \in RequestAbout(frame.account)
      BY <1>1, <2>2, <3>1, RequestIsItsOwn
    <3>3. [asked |-> quoted', left |-> Batches] \in Quoting
      BY <3>2, ShellAssumption DEF Quoting
    <3>. QED  BY <3>1, <3>3 DEF ShellInv, RefreshInv
  <2>. QED  BY <2>1, <2>2
<1>4. CASE EngineReady(frame)
  <2>1. passInputs' = InputsOf(frame) /\ scheduled' = TRUE
    BY <1>4 DEF EffectsRun, SchedulesPass
  <2>2. frame.account \in Scope /\ InputsOf(frame) \in InputsAbout(frame.account)
    BY <1>1, <1>4, InputsAreItsOwn
  <2>3. passInputs' \in SomeInputs
    BY <2>1, <2>2 DEF SomeInputs
  <2>4. PassInv'
    BY <1>1, <2>1, <2>3 DEF ShellInv, PassInv
  <2>5. QueueInv'
    BY <1>1, <2>1 DEF QueueInv, InputsOf, Journals
  <2>. QED  BY <1>2, <1>3, <2>4, <2>5 DEF ShellInv
<1>5. CASE ~EngineReady(frame)
  <2>1. passInputs' = Nil /\ scheduled' = scheduled
    BY <1>5 DEF EffectsRun, SchedulesPass
  <2>2. PassInv'
    BY <1>1, <2>1 DEF ShellInv, PassInv
  <2>3. QueueInv'
    BY <1>1, <1>5 DEF QueueInv, EngineReady
  <2>. QED  BY <1>2, <1>3, <2>2, <2>3 DEF ShellInv
<1>. QED  BY <1>4, <1>5

\* A pass that starts takes the inputs of the moment; one that settles leaves the queue its turn.
LEMMA PassesKeep ==
    ASSUME ShellInv, PassStarts \/ PassSettles \/ (\E i \in farewells : FarewellPass(i)) PROVE ShellInv'
<1>1. UNCHANGED <<stored, listed, subscription, frame, effectsDue, reachable, quoting, passInputs>>
  BY DEF PassStarts, PassSettles, FarewellPass
<1>2. BaseInv' /\ AnswersInv' /\ FrameInv' /\ RefreshInv'
  BY <1>1 DEF ShellInv, BaseInv, AnswersInv, FrameInv, RefreshInv, stored, subscription, quoting
<1>3. PassInv'
  BY <1>1 DEF PassStarts, PassSettles, FarewellPass, ShellInv, PassInv
<1>4. EngineReady(frame)' = EngineReady(frame) /\ InputsOf(frame)' = InputsOf(frame)
  BY <1>1 DEF EngineReady, InputsOf, Journals
<1>5. EngineReady(frame) => InputsOf(frame) # Nil
  BY InputsAreItsOwn DEF ShellInv, FrameInv
<1>6. QueueInv'
  BY <1>1, <1>4, <1>5 DEF PassStarts, PassSettles, FarewellPass, ShellInv, QueueInv
<1>. QED  BY <1>2, <1>3, <1>6 DEF ShellInv

\* The next batch of a refresh is about what the first one was about.
LEMMA BatchKeeps == ASSUME ShellInv, NEW merged \in BOOLEAN, BatchEnds(merged) PROVE ShellInv'
<1>1. UNCHANGED <<stored, listed, subscription, frame, effectsDue, engine, reachable>>
  BY DEF BatchEnds
<1>2. AnswersInv' /\ FrameInv' /\ PassInv' /\ QueueInv'
  BY <1>1 DEF ShellInv, AnswersInv, FrameInv, PassInv, QueueInv, EngineReady, InputsOf, Journals, subscription, engine
<1>3. BaseInv'
  BY <1>1 DEF BatchEnds, ShellInv, BaseInv, stored, subscription
<1>4. refreshes \in Seq(Quoting) /\ refreshes # <<>>
  BY DEF BatchEnds, ShellInv, RefreshInv
<1>5. Head(refreshes) \in Quoting /\ Tail(refreshes) \in Seq(Quoting)
  BY <1>4
<1>6. [Head(refreshes) EXCEPT !.left = @ - 1] \in Quoting
  BY <1>5 DEF Quoting
<1>7. RefreshInv'
  BY <1>5, <1>6 DEF BatchEnds, RefreshInv
<1>. QED  BY <1>2, <1>3, <1>7 DEF ShellInv

\* What comes from outside changes the base, the address or the presence, never what was derived.
LEMMA OutsideKeeps ==
    ASSUME ShellInv,
           \/ ListAnswers \/ PresenceTurns
           \/ \E a \in Scope \cup {Nowhere} : Goes(a)
           \/ \E a \in Scope, p \in Part : Writes(a, p)
           \/ \E a \in Scope : Deletes(a)
    PROVE  ShellInv'
<1>1. UNCHANGED <<subscription, frame, effectsDue, engine, quoting>>
  BY DEF ListAnswers, PresenceTurns, Goes, Writes, Deletes
<1>2. AnswersInv' /\ FrameInv' /\ PassInv' /\ RefreshInv' /\ QueueInv'
  BY <1>1 DEF ShellInv, AnswersInv, FrameInv, PassInv, RefreshInv, QueueInv, EngineReady, InputsOf, Journals,
     subscription, engine, quoting
<1>3. CASE PresenceTurns \/ \E a \in Scope \cup {Nowhere} : Goes(a)
  <2>1. BaseInv'
    BY <1>1, <1>3 DEF PresenceTurns, Goes, ShellInv, BaseInv, stored, subscription, quoting
  <2>. QED  BY <1>2, <2>1 DEF ShellInv
<1>4. ASSUME NEW a \in Scope, NEW p \in Part, Writes(a, p) PROVE BaseInv'
  <2>1. tables' = [tables EXCEPT ![a][p] = @ + 1] /\ UNCHANGED <<existing, listed, reachable>>
    BY <1>4 DEF Writes
  <2>2. tables' \in [Scope -> [Part -> Nat]]
    BY <2>1 DEF ShellInv, BaseInv
  <2>. QED  BY <1>1, <2>1, <2>2 DEF ShellInv, BaseInv, subscription, quoting
<1>5. ASSUME NEW a \in Scope, Deletes(a) PROVE BaseInv'
  <2>1. Gone \in Nat
    BY ShellAssumption DEF Gone
  <2>2. tables' \in [Scope -> [Part -> Nat]] /\ existing' \subseteq Scope /\ UNCHANGED <<listed, reachable>>
    BY <1>5, <2>1 DEF Deletes, ShellInv, BaseInv
  <2>. QED  BY <1>1, <2>2 DEF ShellInv, BaseInv, subscription, quoting
<1>6. CASE ListAnswers
  <2>1. BaseInv'
    BY <1>1, <1>6 DEF ListAnswers, ShellInv, BaseInv, stored, subscription, quoting
  <2>. QED  BY <1>2, <2>1 DEF ShellInv
<1>. QED  BY <1>2, <1>3, <1>4, <1>5, <1>6 DEF ShellInv

LEMMA ShellStep == ShellInv /\ [ShellNext]_shellVars => ShellInv'
<1>. SUFFICES ASSUME ShellInv, [ShellNext]_shellVars PROVE ShellInv'
  OBVIOUS
<1>1. CASE UNCHANGED shellVars
  BY <1>1 DEF shellVars, stored, subscription, engine, quoting, ShellInv, BaseInv, AnswersInv, FrameInv, PassInv,
     RefreshInv, QueueInv, EngineReady, InputsOf, Journals
<1>2. CASE ShellNext
  BY <1>2, QueryKeeps, RendersKeep, EffectsKeep, PassesKeep, BatchKeeps, OutsideKeeps DEF ShellNext
<1>. QED  BY <1>1, <1>2

\* In every state the invariant describes, what is derived is of one account, and the last entry wins.
LEMMA ShellInvServes == ShellInv => ShellServesItsAccount
<1>. SUFFICES ASSUME ShellInv PROVE ShellServesItsAccount
  OBVIOUS
<1>1. PassesOwnRows
  <2>1. ASSUME NEW i \in {passInputs, passing} \cup farewells, i # Nil
        PROVE  i.margins.of = i.account /\ \A p \in JournalParts : i.journals[p].of = i.account
    <3>1. PICK a \in Scope : i \in InputsAbout(a)
      BY <2>1 DEF ShellInv, PassInv, SomeInputs
    <3>. QED  BY <3>1 DEF InputsAbout, TableRow
  <2>. QED  BY <2>1 DEF PassesOwnRows
<1>2. RequestsAreOfOne
  <2>1. ASSUME NEW i \in 1..Len(refreshes) PROVE refreshes[i].asked.held.of = refreshes[i].asked.port.of
    <3>1. refreshes[i] \in Quoting
      BY DEF ShellInv, RefreshInv
    <3>2. PICK a \in Scope : refreshes[i].asked \in RequestAbout(a)
      BY <3>1 DEF Quoting
    <3>. QED  BY <3>2 DEF RequestAbout, TableRow
  <2>. QED  BY <2>1 DEF RequestsAreOfOne
<1>3. ShowsOwnRows
  BY FrameRows DEF ShowsOwnRows, OfOne, ShellInv, FrameInv, TableRow
<1>4. LastEntryWins
  <2>1. EngineReady(frame) => InputsOf(frame) # Nil
    BY InputsAreItsOwn DEF ShellInv, FrameInv
  <2>. QED  BY <2>1 DEF LastEntryWins, AtRest, ShellInv, QueueInv
<1>. QED  BY <1>1, <1>2, <1>3, <1>4 DEF ShellServesItsAccount

\* Frames, answers, passes and quotes keep to the account they name (AccountDataProvider.tsx,
\* useAlertEngine.ts, quotes.ts).
THEOREM ShellInvHolds == ShellSpec => []ShellInv
BY InitShell, ShellStep, PTL DEF ShellSpec

\* A switch of account leaves the live queries with the rows of the previous one until they
\* answer again: whatever the order of the answers, the renders and the passes, none of them
\* reaches a view, a pass or a request, and a change made while a pass runs is evaluated by a
\* later one (db/hooks.ts, useAlertEngine).
THEOREM ShellServesItsAccountSafe == ShellSpec => []ShellServesItsAccount
BY ShellInvHolds, ShellInvServes, PTL

-----------------------------------------------------------------------------
(***************************************************************************)
(* The sector table, for any companies, fields, sources and files, any     *)
(* number of importers.                                                    *)
(***************************************************************************)
SectorRow == [Field -> FieldText]
ImportSteps == {NoImport} \cup [step : {"read"}, sources : Sources, known : SUBSET Company]
CellText == [says : FieldText, plain : BOOLEAN]
CellType == [ticker : Company, field : Field, shown : BOOLEAN, value : CellText, draft : CellText,
             dirty : BOOLEAN, invalid : BOOLEAN]
CommitType == [says : FieldText, answer : {"waits", "refused", "accepted"}, orphan : BOOLEAN]

TableInv ==
    /\ sectors \in [Company -> SectorRow \cup {NoRow}]
    /\ meant \in [Company -> [Field -> FieldText \cup {NoRow}]]
    /\ adding \in [ticker : Company, fields : [Field -> Said]] \cup {NoRow}

CellInv == cell \in CellType /\ commits \in Seq(CommitType)

\* An import under way holds the table, which is as it read it.
ImportInv ==
    /\ importing \in [Importer -> ImportSteps]
    /\ \A p \in Importer : importing[p].step = "read" => holder = p /\ importing[p].known = Known

\* What a row says is what was given, or what an import or a file made of it.
FieldStands(t, which, said, gave) ==
    \/ said = gave
    \/ /\ gave = NoRow
       /\ \/ said = Blank
          \/ which = "name" /\ \E files \in Sources : CompanyName(files, t) = said
       /\ \/ \E files \in Sources :
                t \in {row.ticker : row \in ToSet(files.trades \o files.positions)}
          \/ \E file \in Files : Mentions(file.rows, t) # {}

RowStands(t, row, gave) ==
    IF row = NoRow THEN \A which \in Field : gave[which] = NoRow
    ELSE \A which \in Field : FieldStands(t, which, row[which], gave[which])

StandsInv == \A t \in Company : RowStands(t, sectors[t], meant[t])

LEMMA StandsSplit == TypedStands <=> StandsInv
BY DEF TypedStands, StandsInv, RowStands, FieldStands

SectorsInv == TableInv /\ CellInv /\ ImportInv /\ StandsInv

FileTexts == UNION {{row.fields[which] : row \in ToSet(file.rows), which \in Field} : file \in Files}
ImportTexts == {CompanyName(files, ticker) : files \in Sources, ticker \in Company}

LEMMA TextsSplit == FieldText = Said \cup {Unreadable} \cup FileTexts \cup ImportTexts
BY DEF FieldText, FileTexts, ImportTexts

LEMMA Texts0 ==
    /\ Blank \in Said /\ Blank \in FieldText /\ Said \subseteq FieldText /\ Unreadable \in FieldText
    /\ NoRow \notin SectorRow
    /\ EmptyFields \in SectorRow
<1>1. Blank \in Said
  BY SectorsAssumption
<1>2. Said \subseteq FieldText /\ Unreadable \in FieldText
  BY TextsSplit
<1> QED BY <1>1, <1>2, NoRowAssumption DEF SectorRow, EmptyFields

\* The records of an import: the names it read, every other field blank.
AddsOnly(records, known, files) ==
    /\ DOMAIN records \cap known = {}
    /\ \A t \in Company \cap DOMAIN records :
          /\ records[t] \in SectorRow
          /\ t \in {row.ticker : row \in ToSet(files.trades \o files.positions)}
          /\ \A which \in Field :
                records[t][which] = IF which = "name" THEN CompanyName(files, t) ELSE Blank

LEMMA MissingRecords ==
    ASSUME NEW known \in SUBSET Company, NEW files \in Sources
    PROVE  AddsOnly(MissingSectorRecords(known, files), known, files)
<1> DEFINE seen == {row.ticker : row \in {r \in ToSet(files.trades \o files.positions) : Classified(r)}}
           records == MissingSectorRecords(known, files)
<1>1. records = [ticker \in seen \ known |->
                    [EmptyFields EXCEPT !["name"] = CompanyName(files, ticker)]]
  BY DEF MissingSectorRecords
<1>2. "name" \in Field
  BY SectorsAssumption
<1> HIDE DEF records
<1>3. ASSUME NEW t \in Company \cap DOMAIN records
      PROVE  /\ records[t] \in SectorRow
             /\ t \in {row.ticker : row \in ToSet(files.trades \o files.positions)}
             /\ \A which \in Field :
                   records[t][which] = IF which = "name" THEN CompanyName(files, t) ELSE Blank
  <2>1. t \in seen /\ records[t] = [EmptyFields EXCEPT !["name"] = CompanyName(files, t)]
    BY <1>1
  <2>2. \A which \in Field :
          records[t][which] = IF which = "name" THEN CompanyName(files, t) ELSE Blank
    BY <2>1 DEF EmptyFields
  <2>3. CompanyName(files, t) \in FieldText
    <3>1. CompanyName(files, t) \in ImportTexts
      BY DEF ImportTexts
    <3> QED BY <3>1, TextsSplit
  <2>4. records[t] \in SectorRow
    BY <2>1, <2>3, Texts0 DEF SectorRow
  <2>5. t \in {row.ticker : row \in ToSet(files.trades \o files.positions)}
    BY <2>1
  <2> QED BY <2>2, <2>4, <2>5
<1>4. DOMAIN records \cap known = {}
  BY <1>1
<1> QED BY <1>3, <1>4 DEF records, AddsOnly

\* The last row of a ticker a file mentions is one of its rows.
LEMMA LastMentionSays ==
    ASSUME NEW file \in Files, NEW t \in Company, Mentions(file.rows, t) # {}
    PROVE  \A which \in Field : LastMention(file.rows, t).fields[which] \in FieldText
<1>1. file.rows \in Seq(ToSet(file.rows))
  BY SectorsAssumption
<1>2. DOMAIN file.rows = 1 .. Len(file.rows) /\ Len(file.rows) \in Nat
  BY <1>1
<1>3. /\ Mentions(file.rows, t) \subseteq Nat
      /\ \A i \in Mentions(file.rows, t) : i <= Len(file.rows)
  BY <1>2 DEF Mentions
<1>4. \E i \in Mentions(file.rows, t) : \A j \in Mentions(file.rows, t) : j <= i
  BY <1>2, <1>3, LastOf
<1>5. PICK i \in Mentions(file.rows, t) : LastMention(file.rows, t) = file.rows[i]
  BY <1>4, Zenon DEF LastMention
<1>6. file.rows[i] \in ToSet(file.rows)
  BY <1>5 DEF ToSet, Mentions
<1> TAKE which \in Field
<1>7. file.rows[i].fields[which] \in {row.fields[f] : row \in ToSet(file.rows), f \in Field}
  BY <1>6
<1>8. file.rows[i].fields[which] \in FileTexts
  BY <1>7 DEF FileTexts
<1> QED BY <1>5, <1>8, TextsSplit

LEMMA InitSectors == SectorsInit => SectorsInv
<1> SUFFICES ASSUME SectorsInit PROVE SectorsInv
  OBVIOUS
<1>1. TableInv
  BY DEF SectorsInit, TableInv
<1>2. Blank \in FieldText /\ Plain(Blank) \in CellText
  BY Texts0 DEF Plain, CellText
<1>3. CellInv
  BY <1>2 DEF SectorsInit, CellInv, CellType
<1>4. ImportInv
  BY DEF SectorsInit, ImportInv, ImportSteps, NoImport
<1>5. StandsInv
  BY DEF SectorsInit, StandsInv, RowStands
<1> QED BY <1>1, <1>3, <1>4, <1>5 DEF SectorsInv

\* What leaves the table as it was leaves what is said of it.
LEMMA TableKept ==
    ASSUME TableInv, StandsInv, UNCHANGED <<sectors, meant>>, UNCHANGED adding
    PROVE  TableInv' /\ StandsInv'
BY DEF TableInv, StandsInv

\* An import's transaction opens, with the keys of the moment.
LEMMA BeginKeeps == ASSUME SectorsInv, NEW p \in Importer, BeginImport(p) PROVE SectorsInv'
<1>1. UNCHANGED <<sectors, adding, meant, cell, commits, typed>>
  BY DEF BeginImport, cellVars
<1>2. TableInv' /\ StandsInv' /\ CellInv'
  BY <1>1, TableKept DEF SectorsInv, CellInv
<1>3. PICK files \in Sources :
        importing' = [importing EXCEPT ![p] = [step |-> "read", sources |-> files, known |-> Known]]
  BY DEF BeginImport
<1>4. Known \in SUBSET Company /\ Known' = Known
  BY <1>1 DEF Known
<1>5. [step |-> "read", sources |-> files, known |-> Known] \in ImportSteps
  BY <1>4 DEF ImportSteps
<1>6. importing' \in [Importer -> ImportSteps]
  BY <1>3, <1>5 DEF SectorsInv, ImportInv
<1>7. ASSUME NEW q \in Importer, importing'[q].step = "read"
      PROVE  holder' = q /\ importing'[q].known = Known'
  <2>1. CASE q = p
    BY <1>3, <1>4, <2>1 DEF BeginImport, SectorsInv, ImportInv
  <2>2. CASE q # p
    <3>1. importing[q].step = "read"
      BY <1>3, <1>7, <2>2 DEF SectorsInv, ImportInv
    <3>2. holder = q /\ holder = NoRow
      BY <3>1 DEF SectorsInv, ImportInv, BeginImport
    <3> QED BY <3>2, SectorsAssumption
  <2> QED BY <2>1, <2>2
<1> QED BY <1>2, <1>6, <1>7 DEF SectorsInv, ImportInv

\* It adds the tickers the table lacked, and closes.
LEMMA AddMissingKeeps == ASSUME SectorsInv, NEW p \in Importer, AddMissing(p) PROVE SectorsInv'
<1>1. importing[p] \in [step : {"read"}, sources : Sources, known : SUBSET Company]
  BY DEF AddMissing, SectorsInv, ImportInv, ImportSteps, NoImport
<1>2. holder = p /\ importing[p].known = Known
  BY DEF AddMissing, SectorsInv, ImportInv
<1> DEFINE files == importing[p].sources
           records == MissingSectorRecords(Known, files)
<1>3. files \in Sources /\ Known \in SUBSET Company
  BY <1>1 DEF Known
<1> HIDE DEF files
<1>10. AddsOnly(records, Known, files)
  BY <1>3, MissingRecords
<1> HIDE DEF records
<1>4. /\ DOMAIN records \cap Known = {}
      /\ \A t \in Company \cap DOMAIN records :
            /\ records[t] \in SectorRow
            /\ t \in {row.ticker : row \in ToSet(files.trades \o files.positions)}
            /\ \A which \in Field :
                  records[t][which] = IF which = "name" THEN CompanyName(files, t) ELSE Blank
  BY <1>10 DEF AddsOnly
<1> USE DEF files
<1>5. /\ sectors' = [t \in Company |-> IF t \in DOMAIN records THEN records[t] ELSE sectors[t]]
      /\ importing' = [importing EXCEPT ![p] = NoImport]
      /\ UNCHANGED <<adding, meant, cell, commits, typed>>
  BY <1>2, <1>4 DEF AddMissing, cellVars, records
<1> HIDE DEF records, files
<1>6. sectors' \in [Company -> SectorRow \cup {NoRow}]
  BY <1>4, <1>5 DEF SectorsInv, TableInv
<1>7. TableInv' /\ CellInv'
  BY <1>5, <1>6 DEF SectorsInv, TableInv, CellInv
<1>8. ASSUME NEW t \in Company PROVE RowStands(t, sectors'[t], meant'[t])
  <2>1. RowStands(t, sectors[t], meant[t])
    BY DEF SectorsInv, StandsInv
  <2>2. CASE t \notin DOMAIN records
    <3>1. sectors'[t] = sectors[t] /\ meant'[t] = meant[t]
      BY <1>5, <2>2
    <3> QED BY <2>1, <3>1
  <2>3. CASE t \in DOMAIN records
    <3>1. sectors'[t] = records[t] /\ meant'[t] = meant[t] /\ sectors[t] = NoRow
      BY <1>4, <1>5, <2>3 DEF Known
    <3>2. \A which \in Field : meant[t][which] = NoRow
      BY <2>1, <3>1 DEF RowStands
    <3>3. records[t] # NoRow
      BY <1>4, <2>3, Texts0
    <3>4. ASSUME NEW which \in Field PROVE FieldStands(t, which, records[t][which], meant[t][which])
      <4>1. records[t][which] = Blank \/ (which = "name" /\ CompanyName(files, t) = records[t][which])
        BY <1>4, <2>3
      <4>2. \E s \in Sources : t \in {row.ticker : row \in ToSet(s.trades \o s.positions)}
        BY <1>3, <1>4, <2>3
      <4> QED BY <1>3, <3>2, <4>1, <4>2 DEF FieldStands
    <3> QED BY <3>1, <3>3, <3>4 DEF RowStands
  <2> QED BY <2>2, <2>3
<1>9. ImportInv'
  <2>1. importing' \in [Importer -> ImportSteps]
    BY <1>5 DEF SectorsInv, ImportInv, ImportSteps
  <2>2. ASSUME NEW q \in Importer PROVE importing'[q].step # "read"
    <3>1. CASE q = p
      BY <1>5, <3>1 DEF SectorsInv, ImportInv, NoImport
    <3>2. CASE q # p
      BY <1>2, <1>5, <3>2 DEF SectorsInv, ImportInv
    <3> QED BY <3>1, <3>2
  <2> QED BY <2>1, <2>2 DEF ImportInv
<1> QED BY <1>7, <1>8, <1>9 DEF SectorsInv, StandsInv

\* While no transaction holds the table, no import has read it.
LEMMA FreeTable == ImportInv /\ holder = NoRow => \A p \in Importer : importing[p].step # "read"
BY SectorsAssumption DEF ImportInv

LEMMA WriteKeepsImports ==
    ASSUME ImportInv, holder = NoRow, UNCHANGED <<holder, importing>> PROVE ImportInv'
BY FreeTable DEF ImportInv

\* A row of the file gives its columns, over what was stored.
LEMMA CsvKeeps == ASSUME SectorsInv, ImportSectorCsv PROVE SectorsInv'
<1>1. PICK file \in Files :
        /\ sectors' = MergeSectorRows(sectors, file.columns, file.rows)
        /\ meant' = [t \in Company |-> [which \in Field |->
                IF which \in file.columns /\ Mentions(file.rows, t) # {}
                THEN LastMention(file.rows, t).fields[which] ELSE meant[t][which]]]
  BY DEF ImportSectorCsv
<1>2. holder = NoRow /\ UNCHANGED <<holder, importing, adding, cell, commits, typed>>
  BY DEF ImportSectorCsv, cellVars
<1>3. ImportInv' /\ CellInv'
  BY <1>2, WriteKeepsImports DEF SectorsInv, CellInv
<1>4. ASSUME NEW t \in Company
      PROVE  /\ sectors'[t] \in SectorRow \cup {NoRow}
             /\ meant'[t] \in [Field -> FieldText \cup {NoRow}]
             /\ RowStands(t, sectors'[t], meant'[t])
  <2>1. RowStands(t, sectors[t], meant[t])
    BY DEF SectorsInv, StandsInv
  <2>2. sectors[t] \in SectorRow \cup {NoRow} /\ meant[t] \in [Field -> FieldText \cup {NoRow}]
    BY DEF SectorsInv, TableInv
  <2>3. CASE Mentions(file.rows, t) = {}
    <3>1. sectors'[t] = sectors[t]
      BY <1>1, <2>3 DEF MergeSectorRows
    <3>2. meant'[t] = [which \in Field |-> meant[t][which]]
      BY <1>1, <2>3
    <3>3. meant'[t] = meant[t]
      BY <2>2, <3>2
    <3> QED BY <2>1, <2>2, <3>1, <3>3
  <2>4. CASE Mentions(file.rows, t) # {}
    <3> DEFINE base == IF sectors[t] = NoRow THEN EmptyFields ELSE sectors[t]
               says == LastMention(file.rows, t).fields
    <3>1. base \in SectorRow
      BY <2>2, Texts0
    <3>2. sectors'[t] = [which \in Field |-> IF which \in file.columns THEN says[which] ELSE base[which]]
      BY <1>1, <2>4 DEF MergeSectorRows
    <3>3. meant'[t] = [which \in Field |-> IF which \in file.columns THEN says[which] ELSE meant[t][which]]
      BY <1>1, <2>4
    <3>4. \A which \in Field : says[which] \in FieldText
      BY <2>4, LastMentionSays
    <3> HIDE DEF says
    <3>5. sectors'[t] \in SectorRow
      <4>1. \A which \in Field : base[which] \in FieldText
        BY <3>1 DEF SectorRow
      <4> HIDE DEF base
      <4> QED BY <3>2, <3>4, <4>1 DEF SectorRow
    <3>6. meant'[t] \in [Field -> FieldText \cup {NoRow}]
      BY <2>2, <3>3, <3>4
    <3>7. sectors'[t] # NoRow
      BY <3>5, Texts0
    <3>8. ASSUME NEW which \in Field PROVE FieldStands(t, which, sectors'[t][which], meant'[t][which])
      <4>1. CASE which \in file.columns
        BY <3>2, <3>3, <4>1 DEF FieldStands
      <4>2. CASE which \notin file.columns /\ sectors[t] # NoRow
        <5>1. sectors'[t][which] = sectors[t][which] /\ meant'[t][which] = meant[t][which]
          BY <3>2, <3>3, <4>2
        <5> QED BY <2>1, <4>2, <5>1 DEF RowStands
      <4>3. CASE which \notin file.columns /\ sectors[t] = NoRow
        <5>1. sectors'[t][which] = Blank /\ meant'[t][which] = meant[t][which]
          BY <3>2, <3>3, <4>3 DEF EmptyFields
        <5>2. meant[t][which] = NoRow
          BY <2>1, <4>3 DEF RowStands
        <5> QED BY <2>4, <5>1, <5>2 DEF FieldStands
      <4> QED BY <4>1, <4>2, <4>3
    <3> QED BY <3>5, <3>6, <3>7, <3>8 DEF RowStands
  <2> QED BY <2>3, <2>4
<1>5. DOMAIN sectors' = Company /\ sectors' = [t \in Company |-> sectors'[t]]
  BY <1>1 DEF MergeSectorRows
<1>6. sectors' \in [Company -> SectorRow \cup {NoRow}]
  BY <1>4, <1>5
<1>7. meant' \in [Company -> [Field -> FieldText \cup {NoRow}]]
  <2>1. meant' = [t \in Company |-> meant'[t]]
    BY <1>1
  <2> QED BY <1>4, <2>1
<1> QED BY <1>2, <1>3, <1>4, <1>6, <1>7 DEF SectorsInv, TableInv, StandsInv

\* A row typed by hand is new, one deleted leaves nothing.
LEMMA RowKeeps ==
    ASSUME SectorsInv, AddSector \/ \E ticker \in Company : AskRow(ticker) \/ DeleteSector(ticker)
    PROVE  SectorsInv'
<1>1. CASE AddSector
  <2>1. holder = NoRow /\ adding \in [ticker : Company, fields : [Field -> Said]]
    BY <1>1 DEF AddSector, SectorsInv, TableInv
  <2>2. UNCHANGED <<holder, importing, cell, commits, typed>> /\ adding' = NoRow
    BY <1>1 DEF AddSector, cellVars
  <2>3. ImportInv' /\ CellInv'
    BY <2>1, <2>2, WriteKeepsImports DEF SectorsInv, CellInv
  <2>4. CASE sectors[adding.ticker] # NoRow
    <3>1. UNCHANGED <<sectors, meant>>
      BY <1>1, <2>4 DEF AddSector
    <3> QED BY <2>2, <2>3, <3>1 DEF SectorsInv, TableInv, StandsInv
  <2>5. CASE sectors[adding.ticker] = NoRow
    <3>1. /\ sectors' = [sectors EXCEPT ![adding.ticker] = adding.fields]
          /\ meant' = [meant EXCEPT ![adding.ticker] = adding.fields]
      BY <1>1, <2>5 DEF AddSector
    <3>2. adding.ticker \in Company /\ adding.fields \in SectorRow
          /\ adding.fields \in [Field -> FieldText \cup {NoRow}]
      BY <2>1, Texts0 DEF SectorRow
    <3>3. sectors' \in [Company -> SectorRow \cup {NoRow}] /\ meant' \in [Company -> [Field -> FieldText \cup {NoRow}]]
      BY <3>1, <3>2 DEF SectorsInv, TableInv
    <3>4. ASSUME NEW t \in Company PROVE RowStands(t, sectors'[t], meant'[t])
      <4>1. CASE t = adding.ticker
        <5>1. sectors'[t] = adding.fields /\ meant'[t] = adding.fields
          BY <3>1, <4>1 DEF SectorsInv, TableInv
        <5> QED BY <3>2, <5>1, Texts0 DEF RowStands, FieldStands
      <4>2. CASE t # adding.ticker
        <5>1. sectors'[t] = sectors[t] /\ meant'[t] = meant[t]
          BY <3>1, <4>2 DEF SectorsInv, TableInv
        <5> QED BY <5>1 DEF SectorsInv, StandsInv
      <4> QED BY <4>1, <4>2
    <3> QED BY <2>2, <2>3, <3>3, <3>4 DEF SectorsInv, TableInv, StandsInv
  <2> QED BY <2>4, <2>5
<1>2. ASSUME NEW ticker \in Company, AskRow(ticker) PROVE SectorsInv'
  <2>1. PICK said \in Said : adding' = [ticker |-> ticker, fields |-> [which \in Field |-> said]]
    BY <1>2 DEF AskRow
  <2>2. adding' \in [ticker : Company, fields : [Field -> Said]]
    BY <2>1
  <2>3. UNCHANGED <<sectors, holder, importing, meant, cell, commits, typed>>
    BY <1>2 DEF AskRow, cellVars
  <2> QED BY <2>2, <2>3 DEF SectorsInv, TableInv, CellInv, ImportInv, StandsInv, Known
<1>3. ASSUME NEW ticker \in Company, DeleteSector(ticker) PROVE SectorsInv'
  <2>1. /\ holder = NoRow /\ UNCHANGED <<holder, importing, adding, cell, commits, typed>>
        /\ sectors' = [sectors EXCEPT ![ticker] = NoRow]
        /\ meant' = [meant EXCEPT ![ticker] = [which \in Field |-> NoRow]]
    BY <1>3 DEF DeleteSector, cellVars
  <2>2. ImportInv' /\ CellInv'
    BY <2>1, WriteKeepsImports DEF SectorsInv, CellInv
  <2>3. sectors' \in [Company -> SectorRow \cup {NoRow}] /\ meant' \in [Company -> [Field -> FieldText \cup {NoRow}]]
    BY <2>1 DEF SectorsInv, TableInv
  <2>4. ASSUME NEW t \in Company PROVE RowStands(t, sectors'[t], meant'[t])
    <3>1. CASE t = ticker
      <4>1. sectors'[t] = NoRow /\ meant'[t] = [which \in Field |-> NoRow]
        BY <2>1, <3>1 DEF SectorsInv, TableInv
      <4> QED BY <4>1 DEF RowStands
    <3>2. CASE t # ticker
      <4>1. sectors'[t] = sectors[t] /\ meant'[t] = meant[t]
        BY <2>1, <3>2 DEF SectorsInv, TableInv
      <4> QED BY <4>1 DEF SectorsInv, StandsInv
    <3> QED BY <3>1, <3>2
  <2> QED BY <2>1, <2>2, <2>3, <2>4 DEF SectorsInv, TableInv, StandsInv
<1> QED BY <1>1, <1>2, <1>3

\* What happens in the cell alone leaves the table as it is.
LEMMA CellKeeps ==
    ASSUME SectorsInv, Refresh \/ Type \/ Escape \/ Commit \/ CommitAnswered PROVE SectorsInv'
<1>1. UNCHANGED <<sectors, holder, importing, adding, meant>>
  BY DEF Refresh, Type, Escape, Commit, CommitAnswered, tableVars
<1>2. TableInv' /\ ImportInv' /\ StandsInv'
  BY <1>1 DEF SectorsInv, TableInv, ImportInv, StandsInv, Known
<1>3. cell \in CellType /\ commits \in Seq(CommitType)
  BY DEF SectorsInv, CellInv
<1>4. CASE Refresh
  <2> DEFINE row == sectors[cell.ticker]
  <2>1. row \in SectorRow \cup {NoRow}
    BY <1>3 DEF SectorsInv, TableInv, CellType
  <2>2. CASE row = NoRow
    <3>1. cell' = [cell EXCEPT !.shown = FALSE]
          /\ commits' = [k \in DOMAIN commits |-> [commits[k] EXCEPT !.orphan = TRUE]]
      BY <1>4, <2>2 DEF Refresh
    <3>2. cell' \in CellType
      BY <1>3, <3>1 DEF CellType
    <3>3. DOMAIN commits = 1 .. Len(commits) /\ \A k \in 1 .. Len(commits) : commits[k] \in CommitType
      BY <1>3
    <3>4. \A c \in CommitType : [c EXCEPT !.orphan = TRUE] \in CommitType
      BY DEF CommitType
    <3>5. commits' = [k \in 1 .. Len(commits) |-> [commits[k] EXCEPT !.orphan = TRUE]]
      BY <3>1, <3>3
    <3>6. \A k \in 1 .. Len(commits) : [commits[k] EXCEPT !.orphan = TRUE] \in CommitType
      BY <3>3, <3>4
    <3>7. Len(commits) \in Nat
      BY <1>3
    <3>8. commits' \in Seq(CommitType)
      BY <3>5, <3>6, <3>7
    <3> QED BY <1>2, <3>2, <3>8 DEF SectorsInv, CellInv
  <2>3. CASE row # NoRow
    <3>1. row[cell.field] \in FieldText
      BY <1>3, <2>1, <2>3 DEF SectorRow, CellType
    <3>2. Plain(row[cell.field]) \in CellText
      BY <3>1 DEF Plain, CellText
    <3>3. Mounted(cell) \in CellType
      BY <1>3, <3>2 DEF Mounted, CellType
    <3>4. CASE ~cell.shown
      <4>1. cell' = Mounted(cell) /\ commits' = commits
        BY <1>4, <2>3, <3>4 DEF Refresh
      <4> QED BY <1>2, <1>3, <3>3, <4>1 DEF SectorsInv, CellInv
    <3>5. CASE cell.shown
      <4>1. commits' = commits
            /\ cell' = [cell EXCEPT !.value = Plain(row[cell.field]),
                                    !.draft = IF cell.dirty THEN @ ELSE Plain(row[cell.field])]
        BY <1>4, <2>3, <3>5 DEF Refresh
      <4>2. cell' \in CellType
        BY <1>3, <3>2, <4>1 DEF CellType
      <4> QED BY <1>2, <1>3, <4>1, <4>2 DEF SectorsInv, CellInv
    <3> QED BY <3>4, <3>5
  <2> QED BY <2>2, <2>3
<1>5. CASE Type
  <2>1. PICK text \in Texts(cell.field) : cell' = [cell EXCEPT !.draft = text, !.dirty = TRUE]
    BY <1>5 DEF Type
  <2>2. text \in CellText
    BY Texts0 DEF Texts, CellText
  <2>3. cell' \in CellType /\ commits' = commits
    BY <1>3, <1>5, <2>1, <2>2 DEF Type, CellType
  <2> QED BY <1>2, <1>3, <2>3 DEF SectorsInv, CellInv
<1>6. CASE Escape
  <2>1. cell' \in CellType /\ commits' = commits
    BY <1>3, <1>6 DEF Escape, CellType
  <2> QED BY <1>2, <1>3, <2>1 DEF SectorsInv, CellInv
<1>7. CASE Commit
  <2>1. CASE cell.draft.says = cell.value.says
    <3>1. cell' \in CellType /\ commits' = commits
      BY <1>3, <1>7, <2>1 DEF Commit, CellType
    <3> QED BY <1>2, <1>3, <3>1 DEF SectorsInv, CellInv
  <2>2. CASE cell.draft.says # cell.value.says
    <3>1. cell' = cell
          /\ commits' = Append(commits, [says |-> cell.draft.says, answer |-> "waits", orphan |-> FALSE])
      BY <1>7, <2>2 DEF Commit
    <3>2. cell.draft.says \in FieldText
      BY <1>3 DEF CellType, CellText
    <3>3. [says |-> cell.draft.says, answer |-> "waits", orphan |-> FALSE] \in CommitType
      BY <3>2 DEF CommitType
    <3> QED BY <1>2, <1>3, <3>1, <3>3 DEF SectorsInv, CellInv
  <2> QED BY <2>1, <2>2
<1>8. CASE CommitAnswered
  <2>1. commits' \in Seq(CommitType)
    BY <1>3, <1>8 DEF CommitAnswered
  <2>2. cell' \in CellType
    <3>1. CASE Head(commits).orphan
      BY <1>3, <1>8, <3>1 DEF CommitAnswered
    <3>2. CASE ~Head(commits).orphan
      <4>1. PICK accepted \in BOOLEAN :
              cell' = [cell EXCEPT !.invalid = ~accepted, !.dirty = @ /\ ~accepted]
        BY <1>8, <3>2 DEF CommitAnswered
      <4> QED BY <1>3, <4>1 DEF CellType
    <3> QED BY <3>1, <3>2
  <2> QED BY <1>2, <2>1, <2>2 DEF SectorsInv, CellInv
<1> QED BY <1>4, <1>5, <1>6, <1>7, <1>8

\* A commit that reaches the table writes a field of a row still there.
LEMMA WriteCommitKeeps ==
    ASSUME SectorsInv, NEW k \in DOMAIN commits, WriteCommit(k) PROVE SectorsInv'
<1>1. UNCHANGED <<holder, importing, adding, cell>>
  BY DEF WriteCommit
<1>2. cell \in CellType /\ commits \in Seq(CommitType) /\ commits[k] \in CommitType
  BY DEF SectorsInv, CellInv
<1> DEFINE said == commits[k].says
<1>3. \E answer \in {"refused", "accepted"} : commits' = [commits EXCEPT ![k].answer = answer]
  BY DEF WriteCommit
<1>4. CellInv'
  <2>1. PICK answer \in {"refused", "accepted"} : commits' = [commits EXCEPT ![k].answer = answer]
    BY <1>3
  <2>2. commits' = [commits EXCEPT ![k] = [commits[k] EXCEPT !.answer = answer]]
    BY <2>1
  <2>3. [commits[k] EXCEPT !.answer = answer] \in CommitType
    BY <1>2 DEF CommitType
  <2>4. commits' \in Seq(CommitType)
    BY <1>2, <2>2, <2>3
  <2> QED BY <1>1, <1>2, <2>4 DEF CellInv
<1>5. CASE UNCHANGED <<sectors, meant>>
  BY <1>1, <1>4, <1>5 DEF SectorsInv, TableInv, StandsInv, ImportInv, Known
<1>6. CASE /\ holder = NoRow /\ sectors[cell.ticker] # NoRow
           /\ sectors' = [sectors EXCEPT ![cell.ticker][cell.field] = said]
           /\ meant' = [meant EXCEPT ![cell.ticker][cell.field] = said]
  <2>1. said \in FieldText /\ cell.ticker \in Company /\ cell.field \in Field
    BY <1>2 DEF CommitType, CellType
  <2>2. sectors[cell.ticker] \in SectorRow /\ meant[cell.ticker] \in [Field -> FieldText \cup {NoRow}]
    BY <1>6, <2>1 DEF SectorsInv, TableInv
  <2> DEFINE row == [sectors[cell.ticker] EXCEPT ![cell.field] = said]
             gave == [meant[cell.ticker] EXCEPT ![cell.field] = said]
  <2>3. row \in SectorRow /\ gave \in [Field -> FieldText \cup {NoRow}]
    BY <2>1, <2>2 DEF SectorRow
  <2>4. sectors' = [sectors EXCEPT ![cell.ticker] = row] /\ meant' = [meant EXCEPT ![cell.ticker] = gave]
    BY <1>6
  <2>5. \A which \in Field : /\ row[which] = IF which = cell.field THEN said ELSE sectors[cell.ticker][which]
                             /\ gave[which] = IF which = cell.field THEN said ELSE meant[cell.ticker][which]
    BY <2>2 DEF SectorRow
  <2> HIDE DEF row, gave
  <2>6. sectors' \in [Company -> SectorRow \cup {NoRow}] /\ meant' \in [Company -> [Field -> FieldText \cup {NoRow}]]
    BY <2>3, <2>4 DEF SectorsInv, TableInv
  <2>7. ASSUME NEW t \in Company PROVE RowStands(t, sectors'[t], meant'[t])
    <3>1. RowStands(t, sectors[t], meant[t])
      BY DEF SectorsInv, StandsInv
    <3>2. CASE t = cell.ticker
      <4>1. sectors'[t] = row /\ meant'[t] = gave
        BY <2>4, <3>2 DEF SectorsInv, TableInv
      <4>2. \A which \in Field : FieldStands(t, which, row[which], gave[which])
        BY <1>6, <2>5, <3>1, <3>2 DEF RowStands, FieldStands
      <4> QED BY <2>3, <4>1, <4>2, Texts0 DEF RowStands
    <3>3. CASE t # cell.ticker
      <4>1. sectors'[t] = sectors[t] /\ meant'[t] = meant[t]
        BY <2>4, <3>3 DEF SectorsInv, TableInv
      <4> QED BY <3>1, <4>1
    <3> QED BY <3>2, <3>3
  <2>8. ImportInv'
    BY <1>1, <1>6, WriteKeepsImports DEF SectorsInv
  <2> QED BY <1>1, <1>4, <2>6, <2>7, <2>8 DEF SectorsInv, TableInv, StandsInv
<1> QED BY <1>5, <1>6 DEF WriteCommit, UpdateSector

LEMMA SectorsStep == SectorsInv /\ [SectorsNext]_sectorVars => SectorsInv'
<1> SUFFICES ASSUME SectorsInv, [SectorsNext]_sectorVars PROVE SectorsInv'
  OBVIOUS
<1>1. CASE UNCHANGED sectorVars
  BY <1>1 DEF sectorVars, tableVars, cellVars, SectorsInv, TableInv, CellInv, ImportInv, StandsInv, Known
<1>2. CASE SectorsNext
  BY <1>2, BeginKeeps, AddMissingKeeps, CsvKeeps, RowKeeps, CellKeeps, WriteCommitKeeps DEF SectorsNext
<1> QED BY <1>1, <1>2

\* The table, the imports, the row added and the cell keep their types and what they were
\* meant to hold (db/sectors.ts, EditableCell.tsx).
THEOREM SectorsInvHolds == SectorsSpec => []SectorsInv
BY InitSectors, SectorsStep, PTL DEF SectorsSpec

\* What the user or a file last gave a field stands until its row is deleted, whatever imports,
\* additions, files and commits interleave (addMissingSectors, mergeSectorRows, updateSector).
THEOREM TypedStandsSafe == SectorsSpec => []TypedStands
<1>1. SectorsInv => TypedStands
  BY StandsSplit DEF SectorsInv
<1> QED BY <1>1, SectorsInvHolds, PTL

\* No import aborts another that adds the same ticker: each reads and writes in one
\* transaction (db/sectors.ts, addMissingSectors).
THEOREM ImportsNeverCollideSafe == SectorsSpec => []ImportsNeverCollide
<1>1. SectorsInv => ImportsNeverCollide
  BY DEF SectorsInv, ImportInv, ImportSteps, NoImport, ImportsNeverCollide
<1> QED BY <1>1, SectorsInvHolds, PTL

-----------------------------------------------------------------------------
(* The rows of a table, sorted.                                             *)

\* The sort puts no row ahead of itself, and what is ahead of another is ahead of what
\* that other is not behind.
Ranks(rows, lines, sort) ==
    /\ \A i \in lines : ~AheadOn(sort, rows[i], rows[i])
    /\ \A i, j \in lines : AheadOn(sort, rows[i], rows[j]) => ~AheadOn(sort, rows[j], rows[i])
    /\ \A i, j, k \in lines : AheadOn(sort, rows[i], rows[k]) =>
            AheadOn(sort, rows[i], rows[j]) \/ AheadOn(sort, rows[j], rows[k])

Below(rows, lines, sort) == [i \in lines |-> {j \in lines : ComesBefore(rows, sort, j, i)}]

LEMMA BelowIsTotal ==
    ASSUME NEW rows, NEW sort, NEW lines \in SUBSET Nat, Ranks(rows, lines, sort)
    PROVE  TotalOrder(lines, Below(rows, lines, sort))
<1> DEFINE ahead(i, j) == AheadOn(sort, rows[i], rows[j])
           first(i, j) == ComesBefore(rows, sort, i, j)
<1>1. \A i, j : first(i, j) <=> ahead(i, j) \/ (i < j /\ ~ahead(j, i))
  BY DEF ComesBefore
<1>2. /\ \A i \in lines : ~ahead(i, i)
      /\ \A i, j \in lines : ahead(i, j) => ~ahead(j, i)
      /\ \A i, j, k \in lines : ahead(i, k) => ahead(i, j) \/ ahead(j, k)
  BY DEF Ranks
<1> HIDE DEF ahead, first
<1>3. \A i \in lines : ~first(i, i)
  BY <1>1, <1>2
<1>4. \A i, j \in lines : i # j => first(i, j) \/ first(j, i)
  BY <1>1, <1>2
<1>5. \A i, j, k \in lines : first(i, j) /\ first(j, k) => first(i, k)
  BY <1>1, <1>2
<1>6. \A i \in lines : Below(rows, lines, sort)[i] = {j \in lines : first(j, i)}
  BY DEF Below, first
<1>7. Below(rows, lines, sort) \in [lines -> SUBSET lines]
  BY DEF Below
<1> DEFINE below == Below(rows, lines, sort)
<1> HIDE DEF below
<1>8. \A i \in lines : i \notin below[i]
  BY <1>3, <1>6 DEF below
<1>9. \A i, j \in lines : i # j => i \in below[j] \/ j \in below[i]
  BY <1>4, <1>6 DEF below
<1>10. \A i, j \in lines : i \in below[j] => below[i] \subseteq below[j]
  BY <1>5, <1>6 DEF below
<1> QED BY <1>7, <1>8, <1>9, <1>10 DEF TotalOrder, below

\* Every line has its place, every place its line.
Place(rows, lines, sort, i) == Cardinality({j \in lines : ComesBefore(rows, sort, j, i)}) + 1

WellPlaced(sorted, rows, lines, sort) ==
    /\ Cardinality(lines) \in Nat
    /\ sorted = [p \in 1..Cardinality(lines) |-> sorted[p]]
    /\ \A i \in lines : \E p \in 1..Cardinality(lines) : sorted[p] = rows[i] /\ p = Place(rows, lines, sort, i)
    /\ \A p \in 1..Cardinality(lines) : \E i \in lines : sorted[p] = rows[i] /\ p = Place(rows, lines, sort, i)
    /\ \A p, q \in 1..Cardinality(lines) : p < q =>
          \E i, j \in lines : sorted[p] = rows[i] /\ sorted[q] = rows[j] /\ ComesBefore(rows, sort, i, j)

LEMMA SortedPlaces ==
    ASSUME NEW rows, NEW sort, NEW lines \in SUBSET Nat, IsFiniteSet(lines), Ranks(rows, lines, sort)
    PROVE  WellPlaced(SortedRows(rows, lines, sort), rows, lines, sort)
<1> DEFINE below == Below(rows, lines, sort)
           sorted == SortedRows(rows, lines, sort)
           n == Cardinality(lines)
           at(p) == CHOOSE i \in lines : Cardinality({j \in lines : ComesBefore(rows, sort, j, i)}) = p - 1
<1>1. \A i \in lines : below[i] = {j \in lines : ComesBefore(rows, sort, j, i)}
  BY DEF Below
<1>2. TotalOrder(lines, below)
  BY BelowIsTotal
<1>3. /\ n \in Nat
      /\ \A i \in lines : Cardinality(below[i]) \in 0..(n - 1)
      /\ \A i, j \in lines : Cardinality(below[i]) = Cardinality(below[j]) => i = j
      /\ \A i, j \in lines : Cardinality(below[i]) < Cardinality(below[j]) => i \in below[j]
      /\ \A m \in 0..(n - 1) : \E i \in lines : Cardinality(below[i]) = m
  BY <1>2, PlacesAreTaken, ZenonT(40)
<1>4. sorted = [p \in 1..n |-> rows[at(p)]]
  BY Zenon DEF SortedRows
<1> HIDE DEF below, sorted, n
<1>5. ASSUME NEW p \in 1..n
      PROVE  at(p) \in lines /\ Cardinality(below[at(p)]) = p - 1
  <2>1. p - 1 \in 0..(n - 1)
    BY <1>3
  <2>2. PICK i \in lines : Cardinality(below[i]) = p - 1
    BY <1>3, <2>1
  <2>3. \E k \in lines : Cardinality({j \in lines : ComesBefore(rows, sort, j, k)}) = p - 1
    BY <1>1, <2>2
  <2>4. at(p) \in lines /\ Cardinality({j \in lines : ComesBefore(rows, sort, j, at(p))}) = p - 1
    BY <2>3, Zenon
  <2> QED BY <1>1, <2>4
<1> HIDE DEF at
<1>6. ASSUME NEW i \in lines
      PROVE  \E p \in 1..n : sorted[p] = rows[i] /\ p = Cardinality(below[i]) + 1
  <2>1. PICK p \in 1..n : p = Cardinality(below[i]) + 1 /\ p - 1 = Cardinality(below[i])
    <3>1. Cardinality(below[i]) \in 0..(n - 1)
      BY <1>3, Zenon
    <3>2. \A k \in 0..(n - 1) : k + 1 \in 1..n /\ (k + 1) - 1 = k
      <4>1. n \in Nat
        BY <1>3
      <4> QED BY <4>1
    <3> QED BY <3>1, <3>2, Zenon
  <2>2. at(p) \in lines /\ Cardinality(below[at(p)]) = Cardinality(below[i])
    BY <1>5, <2>1
  <2>3. at(p) = i
    BY <1>3, <2>2
  <2> QED BY <1>4, <2>1, <2>3
<1>7. ASSUME NEW p \in 1..n
      PROVE  \E i \in lines : sorted[p] = rows[i] /\ p = Cardinality(below[i]) + 1
  <2>1. at(p) \in lines /\ Cardinality(below[at(p)]) = p - 1 /\ sorted[p] = rows[at(p)]
    BY <1>4, <1>5
  <2>2. p = Cardinality(below[at(p)]) + 1
    BY <1>3, <2>1
  <2> QED BY <2>1, <2>2
<1>8. ASSUME NEW p \in 1..n, NEW q \in 1..n, p < q
      PROVE  \E i, j \in lines : sorted[p] = rows[i] /\ sorted[q] = rows[j] /\ ComesBefore(rows, sort, i, j)
  <2>1. Cardinality(below[at(p)]) < Cardinality(below[at(q)])
    BY <1>5, <1>3, <1>8
  <2>2. at(p) \in below[at(q)]
    BY <1>3, <1>5, <2>1
  <2>3. ComesBefore(rows, sort, at(p), at(q))
    BY <1>1, <1>5, <2>2
  <2> QED BY <1>4, <1>5, <2>3
<1>9. sorted = [p \in 1..n |-> sorted[p]]
  BY <1>4
<1>10. \A i \in lines : Cardinality(below[i]) + 1 = Place(rows, lines, sort, i)
  BY <1>1 DEF Place
<1> QED BY <1>3, <1>6, <1>7, <1>8, <1>9, <1>10 DEF WellPlaced, sorted, n

-----------------------------------------------------------------------------
(* The sort of a table ranks its rows.                                      *)

\* Without a key, nothing is ahead of anything.
LEMMA NoKeyRanks == ASSUME NEW rows, NEW lines PROVE Ranks(rows, lines, <<>>)
BY DEF Ranks, AheadOn

OneValue(values) == values \subseteq Int /\ \A m, n \in values : m = n

LEMMA KeyRanks ==
    ASSUME NEW key, NEW r, NEW s, NEW t,
           OneValue(r[key.column]), OneValue(s[key.column]), OneValue(t[key.column])
    PROVE  /\ ~SortBefore(key, r, r)
           /\ SortBefore(key, r, s) => ~SortBefore(key, s, r)
           /\ SortBefore(key, r, t) => SortBefore(key, r, s) \/ SortBefore(key, s, t)
<1> DEFINE before(x, y) == SortBefore(key, x, y)
           cellOf(x) == x[key.column]
<1>1. \A x \in {r, s, t} : cellOf(x) = {} \/ \E n \in Int : cellOf(x) = {n}
  <2> TAKE x \in {r, s, t}
  <2>1. OneValue(cellOf(x))
    OBVIOUS
  <2> HIDE DEF cellOf
  <2>2. CASE cellOf(x) # {}
    <3>1. PICK n \in cellOf(x) : TRUE
      BY <2>2
    <3>2. n \in Int /\ cellOf(x) = {n}
      BY <2>1, <3>1 DEF OneValue
    <3> QED BY <3>2
  <2> QED BY <2>2
<1>2. \A x, y : cellOf(x) = {} => ~before(x, y)
  BY DEF SortBefore
<1>3. \A x, y : cellOf(x) # {} /\ cellOf(y) = {} => before(x, y)
  BY DEF SortBefore
<1>4. \A x, y : \A m, n \in Int : cellOf(x) = {m} /\ cellOf(y) = {n} =>
          (before(x, y) <=> IF key.dir = "asc" THEN m < n ELSE m > n)
  BY DEF SortBefore
<1> HIDE DEF before, cellOf
<1>5. ~before(r, r)
  BY <1>1, <1>2, <1>4
<1>6. before(r, s) => ~before(s, r)
  BY <1>1, <1>2, <1>4
<1>7. before(r, t) => before(r, s) \/ before(s, t)
  <2>1. CASE cellOf(s) = {}
    BY <1>1, <1>2, <1>3, <2>1
  <2>2. CASE cellOf(s) # {} /\ cellOf(t) = {}
    BY <1>3, <2>2
  <2>3. CASE cellOf(s) # {} /\ cellOf(t) # {}
    BY <1>1, <1>2, <1>4, <2>3
  <2> QED BY <2>1, <2>2, <2>3
<1> QED BY <1>5, <1>6, <1>7 DEF before

\* Keys after keys: the first key on which two rows differ decides.
LEMMA KeysRank ==
    ASSUME NEW rows, NEW lines, NEW sort, DOMAIN sort \subseteq Nat \ {0},
           \A k \in DOMAIN sort : DOMAIN sort \cap (1..k) = 1..k,
           \A k \in DOMAIN sort, i \in lines : OneValue(rows[i][sort[k].column])
    PROVE  Ranks(rows, lines, sort)
<1> DEFINE keys == DOMAIN sort
           b(k, i, j) == SortBefore(sort[k], rows[i], rows[j])
           tie(k, i, j) == ~b(k, i, j) /\ ~b(k, j, i)
           ahead(i, j) == AheadOn(sort, rows[i], rows[j])
<1>1. \A k \in keys : \A i, j, l \in lines :
          /\ ~b(k, i, i) /\ (b(k, i, j) => ~b(k, j, i)) /\ (b(k, i, l) => b(k, i, j) \/ b(k, j, l))
  BY KeyRanks
<1>2. \A i, j : ahead(i, j) <=> \E k \in keys : b(k, i, j) /\ \A m \in 1..(k - 1) : tie(m, i, j)
  BY DEF AheadOn
<1>3. \A k \in keys : k \in Nat \ {0} /\ \A m \in 1..k : m \in keys
  OBVIOUS
<1> HIDE DEF keys, b, ahead
<1>4. \A i \in lines : ~ahead(i, i)
  BY <1>1, <1>2
<1>5. ASSUME NEW i \in lines, NEW j \in lines, ahead(i, j) PROVE ~ahead(j, i)
  <2>1. PICK k \in keys : b(k, i, j) /\ \A m \in 1..(k - 1) : tie(m, i, j)
    BY <1>2, <1>5
  <2>2. SUFFICES ASSUME NEW l \in keys, b(l, j, i), \A m \in 1..(l - 1) : tie(m, j, i) PROVE FALSE
    BY <1>2
  <2>3. CASE l = k
    BY <1>1, <2>1, <2>2, <2>3
  <2>4. CASE l < k
    <3>1. l \in 1..(k - 1)
      BY <1>3, <2>4
    <3> QED BY <2>1, <2>2, <3>1
  <2>5. CASE k < l
    <3>1. k \in 1..(l - 1)
      BY <1>3, <2>5
    <3> QED BY <2>1, <2>2, <3>1
  <2> QED BY <1>3, <2>3, <2>4, <2>5
<1>6. ASSUME NEW i \in lines, NEW j \in lines, NEW l \in lines, ahead(i, l)
      PROVE  ahead(i, j) \/ ahead(j, l)
  <2>1. PICK k \in keys : b(k, i, l) /\ \A m \in 1..(k - 1) : tie(m, i, l)
    BY <1>2, <1>6
  <2> DEFINE differ == {m \in keys : b(m, i, j) \/ b(m, j, i) \/ b(m, j, l) \/ b(m, l, j)}
  <2>2. k \in differ
    BY <1>1, <2>1
  <2>3. differ \subseteq Nat
    BY <1>3
  <2>4. PICK m \in differ : \A other \in differ : m <= other
    BY <2>2, <2>3, FirstOf
  <2>5. m \in keys /\ m <= k /\ m \in Nat \ {0} /\ k \in Nat \ {0}
    BY <1>3, <2>2, <2>4
  <2>6. \A p \in 1..(m - 1) : tie(p, i, j) /\ tie(p, j, l)
    <3> TAKE p \in 1..(m - 1)
    <3>1. p \in keys /\ p < m
      BY <1>3, <2>5
    <3>2. p \notin differ
      BY <2>4, <2>5, <3>1
    <3> QED BY <3>1, <3>2
  <2>7. b(m, i, j) \/ b(m, j, l)
    <3>1. CASE m = k
      BY <1>1, <2>1, <2>5, <3>1
    <3>2. CASE m < k
      <4>1. m \in 1..(k - 1)
        BY <2>5, <3>2
      <4>2. tie(m, i, l)
        BY <2>1, <4>1
      <4> QED BY <1>1, <2>4, <2>5, <4>2
    <3> QED BY <2>5, <3>1, <3>2
  <2> QED BY <1>2, <2>5, <2>6, <2>7
<1> QED BY <1>4, <1>5, <1>6 DEF Ranks, ahead

-----------------------------------------------------------------------------
(* What a view lets through.                                                *)

LEMMA LinesOfASequence ==
    ASSUME NEW rows, rows \in Seq(ToSet(rows)), NEW lines \in SUBSET (DOMAIN rows)
    PROVE  /\ DOMAIN rows = 1..Len(rows) /\ Len(rows) \in Nat
           /\ lines \in SUBSET Nat /\ IsFiniteSet(lines)
<1>1. DOMAIN rows = 1..Len(rows) /\ Len(rows) \in Nat
  OBVIOUS
<1>2. IsFiniteSet(1..Len(rows))
  BY <1>1, FS_Interval
<1>3. IsFiniteSet(lines)
  BY <1>1, <1>2, FS_Subset
<1> QED BY <1>1, <1>3

\* A view that does not sort shows the lines it keeps, and no other.
LEMMA UnsortedShowsKept ==
    ASSUME NEW rows, rows \in Seq(ToSet(rows)), NEW view, view.sort = <<>>, NEW search
    PROVE  LET shown == ApplyView(rows, view, search)
           IN  /\ shown \in Seq(ToSet(shown))
               /\ ToSet(shown) \subseteq ToSet(rows)
               /\ \A i \in KeptLines(rows, view, search) : \E p \in DOMAIN shown : shown[p] = rows[i]
               /\ Len(shown) = Cardinality(KeptLines(rows, view, search))
<1> DEFINE kept == KeptLines(rows, view, search)
           shown == ApplyView(rows, view, search)
<1>1. kept \in SUBSET (DOMAIN rows)
  BY DEF KeptLines
<1>2. kept \in SUBSET Nat /\ IsFiniteSet(kept)
  BY <1>1, LinesOfASequence
<1>3. Ranks(rows, kept, <<>>)
  BY NoKeyRanks
<1>4. shown = SortedRows(rows, kept, <<>>)
  BY DEF ApplyView
<1> HIDE DEF kept, shown
<1>12. WellPlaced(shown, rows, kept, <<>>)
  BY <1>2, <1>3, <1>4, SortedPlaces
<1>5. /\ Cardinality(kept) \in Nat
      /\ \A i \in kept : \E p \in 1..Cardinality(kept) : shown[p] = rows[i]
      /\ \A p \in 1..Cardinality(kept) : \E i \in kept : shown[p] = rows[i]
  BY <1>12 DEF WellPlaced
<1>6. shown = [p \in 1..Cardinality(kept) |-> shown[p]]
  BY <1>12 DEF WellPlaced
<1>13. DOMAIN shown = 1..Cardinality(kept)
  BY <1>6
<1>7. \A p \in 1..Cardinality(kept) : shown[p] \in ToSet(shown)
  BY <1>13 DEF ToSet
<1>8. shown \in Seq(ToSet(shown)) /\ Len(shown) = Cardinality(kept)
  BY <1>5, <1>6, <1>7
<1>9. ToSet(shown) \subseteq ToSet(rows)
  BY <1>1, <1>5, <1>13 DEF ToSet
<1> QED BY <1>5, <1>8, <1>9, <1>13 DEF shown, kept

-----------------------------------------------------------------------------
(* The boxes of a page.                                                     *)

\* No box of a page of positions sorts.
BoxesInv ==
    /\ boxLines \in Portfolio
    /\ boxView = [box \in Box |-> boxView[box]]
    /\ \A box \in Box : boxView[box].sort = <<>> /\ DOMAIN boxView[box] = {"sort", "criteria"}

LEMMA BoxesStep == BoxesInv /\ [BoxesNext]_boxVars => BoxesInv'
<1> SUFFICES ASSUME BoxesInv, [BoxesNext]_boxVars PROVE BoxesInv'
  OBVIOUS
<1>1. \A view : view.sort = <<>> /\ DOMAIN view = {"sort", "criteria"} =>
        \A column, criterion : /\ InBox(view, column, criterion).sort = <<>>
                               /\ DOMAIN InBox(view, column, criterion) = {"sort", "criteria"}
  BY DEF InBox
<1>2. EmptyView.sort = <<>> /\ DOMAIN EmptyView = {"sort", "criteria"}
  BY DEF EmptyView
<1>3. ASSUME NEW criterion, SetExpiry(criterion) PROVE BoxesInv'
  BY <1>1, <1>3 DEF SetExpiry, BoxesInv
<1>4. CASE PickExpiry \/ DropExpiry
  BY <1>3, <1>4 DEF PickExpiry, DropExpiry
<1>5. ASSUME NEW box \in Box, TypeInBox(box) PROVE BoxesInv'
  <2>1. PICK column, criterion : boxView' = [boxView EXCEPT ![box] = InBox(@, column, criterion)]
    BY <1>5 DEF TypeInBox
  <2>2. /\ InBox(boxView[box], column, criterion).sort = <<>>
        /\ DOMAIN InBox(boxView[box], column, criterion) = {"sort", "criteria"}
    BY <1>1 DEF BoxesInv
  <2> DEFINE view == InBox(boxView[box], column, criterion)
  <2>3. boxView' = [boxView EXCEPT ![box] = view] /\ boxLines' = boxLines
    BY <1>5, <2>1 DEF TypeInBox
  <2> HIDE DEF view
  <2>4. view.sort = <<>> /\ DOMAIN view = {"sort", "criteria"}
    BY <2>2 DEF view
  <2> QED BY <2>3, <2>4 DEF BoxesInv
<1>6. ASSUME NEW box \in Box, ClearBox(box) PROVE BoxesInv'
  BY <1>2, <1>6 DEF ClearBox, BoxesInv
<1>7. CASE SearchPage \/ SnapshotArrives \/ DayPasses \/ UNCHANGED boxVars
  BY <1>7 DEF SearchPage, SnapshotArrives, DayPasses, boxVars, BoxesInv
<1> QED BY <1>4, <1>5, <1>6, <1>7 DEF BoxesNext

LEMMA PillsSay ==
    ASSUME NEW rows, NEW view, NEW i \in DOMAIN rows, NEW search, i \notin KeptLines(rows, view, search)
    PROVE  \/ ~Keeps(search, rows[i]["ticker"])
           \/ \E column \in Pills(view) : ~Keeps(view.criteria[column], rows[i][column])
BY DEF KeptLines, Pills, Keeps

\* What is said of the rows of a box that the search left.
LEMMA BoxRows ==
    ASSUME BoxesInv, NEW box \in Box, NEW i \in DOMAIN boxLines[box],
           Keeps(pageSearch, boxLines[box][i]["ticker"])
    PROVE  /\ box \in SearchedBoxes
           /\ \/ \E p \in DOMAIN FilteredRows(box) : FilteredRows(box)[p] = boxLines[box][i]
              \/ \E c \in Pills(boxView[box]) : ~Keeps(boxView[box].criteria[c], boxLines[box][i][c])
<1> DEFINE rows == boxLines[box]
           line == rows[i]
<1>1. rows \in Seq(ToSet(rows))
  BY BoxesAssumption DEF BoxesInv
<1>2. EmptyView.sort = <<>> /\ DOMAIN EmptyView.criteria = {}
  BY DEF EmptyView
<1>3. i \in KeptLines(rows, EmptyView, pageSearch)
  BY <1>2 DEF KeptLines
<1> DEFINE searched == SearchedRows(box)
<1>4. searched = ApplyView(rows, EmptyView, pageSearch)
  BY DEF SearchedRows
<1> HIDE DEF searched
<1>5. searched \in Seq(ToSet(searched)) /\ \E p \in DOMAIN searched : searched[p] = line
  BY <1>1, <1>2, <1>3, <1>4, UnsortedShowsKept
<1>6. searched # <<>>
  BY <1>5
<1>7. box \in SearchedBoxes
  BY <1>6 DEF SearchedBoxes, searched
<1>8. PICK p \in DOMAIN searched : searched[p] = line
  BY <1>5
<1> DEFINE filtered == FilteredRows(box)
<1>9. filtered = ApplyView(searched, boxView[box], NoText)
  BY DEF FilteredRows, searched
<1> HIDE DEF filtered
<1>10. CASE p \in KeptLines(searched, boxView[box], NoText)
  <2>1. \E q \in DOMAIN filtered : filtered[q] = searched[p]
    BY <1>5, <1>9, <1>10, UnsortedShowsKept DEF BoxesInv
  <2> QED BY <1>7, <1>8, <2>1 DEF filtered
<1>11. CASE p \notin KeptLines(searched, boxView[box], NoText)
  <2>1. Keeps(NoText, line["ticker"])
    BY DEF Keeps, Filters, NoText
  <2>2. \E c \in Pills(boxView[box]) : ~Keeps(boxView[box].criteria[c], searched[p][c])
    BY <1>8, <1>11, <2>1, PillsSay
  <2> QED BY <1>7, <1>8, <2>2
<1> QED BY <1>10, <1>11

LEMMA BoxesTell == BoxesInv => PageTellsWhatItHides
<1> SUFFICES ASSUME BoxesInv PROVE PageTellsWhatItHides
  OBVIOUS
<1>1. \A box \in Box : \A p \in DOMAIN FilteredRows(box) : FilteredRows(box) # <<>>
  OBVIOUS
<1>2. ASSUME NEW box \in Box, NEW i \in DOMAIN boxLines[box]
      PROVE  LET line == boxLines[box][i] IN
             \/ OnScreen(box, line)
             \/ ~Keeps(pageSearch, line["ticker"])
             \/ box \in PreparedBoxes /\ \E c \in Pills(boxView[box]) : ~Keeps(boxView[box].criteria[c], line[c])
             \/ ActiveExpiry # {}
  <2>1. SUFFICES ASSUME Keeps(pageSearch, boxLines[box][i]["ticker"]), ActiveExpiry = {}
                 PROVE  \/ OnScreen(box, boxLines[box][i])
                        \/ /\ box \in PreparedBoxes
                           /\ \E c \in Pills(boxView[box]) : ~Keeps(boxView[box].criteria[c], boxLines[box][i][c])
    BY Zenon
  <2>2. box \in PreparedBoxes
    BY <2>1, BoxRows DEF PreparedBoxes
  <2> QED BY <2>1, <2>2, BoxRows DEF OnScreen
<1>3. ASSUME ~Filtered, NEW box \in Box, NEW i \in DOMAIN boxLines[box]
      PROVE  OnScreen(box, boxLines[box][i])
  <2>1. Keeps(pageSearch, boxLines[box][i]["ticker"])
    BY <1>3 DEF Filtered, NoText, Keeps, Filters
  <2>2. Pills(boxView[box]) = {}
    BY <1>3 DEF Filtered
  <2>3. box \in SearchedBoxes /\ \E p \in DOMAIN FilteredRows(box) : FilteredRows(box)[p] = boxLines[box][i]
    BY <2>1, <2>2, BoxRows
  <2>4. box \in PreparedBoxes
    BY <1>1, <2>3 DEF PreparedBoxes
  <2> QED BY <2>3, <2>4 DEF OnScreen
<1> QED BY <1>2, <1>3 DEF PageTellsWhatItHides

\* Whatever the snapshots, the criteria, the searches and the days, nothing leaves a page of
\* positions without something on it that takes it back (PositionsPage.tsx, searchBoxes, filterBoxes).
THEOREM PageTellsWhatItHidesSafe == BoxesSpec => []PageTellsWhatItHides
<1>1. BoxesInit => BoxesInv
  BY DEF BoxesInit, BoxesInv, EmptyView
<1> QED BY <1>1, BoxesStep, BoxesTell, PTL DEF BoxesSpec

-----------------------------------------------------------------------------
(* The view a table remembers.                                              *)

SortKey == [column : Sortable, dir : {"asc", "desc"}]

StoredView(view) ==
    /\ view = [sort |-> view.sort, criteria |-> view.criteria]
    /\ view.sort \in Seq(SortKey)
    /\ view.criteria = [column \in DOMAIN view.criteria |-> view.criteria[column]]
    /\ DOMAIN view.criteria \subseteq DOMAIN Columns

\* A view a table holds filters on every criterion it has.
HeldView(view) == StoredView(view) /\ \A column \in DOMAIN view.criteria : Filters(view.criteria[column])

\* What is kept is what was asked; the table and the field are those of the account shown.
ViewsInv ==
    /\ route \in Owner
    /\ storage = [owner \in Owner |-> storage[owner]]
    /\ \A owner \in Owner : /\ storage[owner] = [view |-> storage[owner].view, search |-> storage[owner].search]
                            /\ StoredView(storage[owner].view)
    /\ asked = storage
    /\ table = [key |-> route, view |-> table.view]
    /\ HeldView(table.view)
    /\ table.view = ReadTableView(storage[route].view)
    /\ field = [key |-> route, input |-> field.input, applied |-> storage[route].search]
    /\ timer = Armed(field)

LEMMA FilteringKeepsType ==
    ASSUME NEW T, NEW seq \in Seq(T), NEW lines \in SUBSET (DOMAIN seq)
    PROVE  Filtering(seq, lines) \in Seq(T) /\ WellPlaced(Filtering(seq, lines), seq, lines, <<>>)
<1>1. DOMAIN seq = 1..Len(seq) /\ Len(seq) \in Nat
  OBVIOUS
<1>2. IsFiniteSet(1..Len(seq))
  BY <1>1, FS_Interval
<1>3. lines \in SUBSET Nat /\ IsFiniteSet(lines)
  BY <1>1, <1>2, FS_Subset
<1>4. WellPlaced(Filtering(seq, lines), seq, lines, <<>>)
  BY <1>3, NoKeyRanks, SortedPlaces DEF Filtering
<1> DEFINE kept == Filtering(seq, lines)
<1> HIDE DEF kept
<1>5. /\ kept = [p \in 1..Cardinality(lines) |-> kept[p]] /\ Cardinality(lines) \in Nat
      /\ \A p \in 1..Cardinality(lines) : \E i \in lines : kept[p] = seq[i]
  BY <1>4 DEF WellPlaced, kept
<1>6. \A p \in 1..Cardinality(lines) : kept[p] \in T
  BY <1>1, <1>5
<1>7. kept \in Seq(T)
  BY <1>5, <1>6
<1> QED BY <1>4, <1>7 DEF kept

\* A filter that keeps everything changes nothing.
LEMMA FilteringAll ==
    ASSUME NEW T, NEW seq \in Seq(T) PROVE Filtering(seq, DOMAIN seq) = seq
<1> DEFINE kept == Filtering(seq, DOMAIN seq)
           n == Len(seq)
<1>1. WellPlaced(kept, seq, DOMAIN seq, <<>>)
  BY FilteringKeepsType
<1>5. DOMAIN seq = 1..n /\ n \in Nat /\ seq = [p \in 1..n |-> seq[p]]
  OBVIOUS
<1> HIDE DEF kept, n
<1>2. DOMAIN seq = 1..n /\ n \in Nat /\ Cardinality(1..n) = n /\ seq = [p \in 1..n |-> seq[p]]
  <2>1. n \in Int
    BY <1>5
  <2>2. Cardinality(1..n) = IF 1 > n THEN 0 ELSE n - 1 + 1
    BY <2>1, FS_Interval
  <2> QED BY <1>5, <2>2
<1>3. \A i \in 1..n : Place(seq, 1..n, <<>>, i) = i
  <2> TAKE i \in 1..n
  <2>1. {j \in 1..n : ComesBefore(seq, <<>>, j, i)} = 1..(i - 1)
    BY <1>2 DEF ComesBefore, AheadOn
  <2>2. Cardinality(1..(i - 1)) = i - 1
    BY <1>2, FS_Interval
  <2>3. Place(seq, 1..n, <<>>, i) = (i - 1) + 1
    BY <2>1, <2>2 DEF Place
  <2> QED BY <1>2, <2>3
<1>4. kept = [p \in 1..n |-> kept[p]] /\ \A p \in 1..n : kept[p] = seq[p]
  BY <1>1, <1>2, <1>3 DEF WellPlaced
<1> QED BY <1>2, <1>4 DEF kept

LEMMA EmptyViewIsHeld == HeldView(EmptyView) /\ ReadTableView(EmptyView) = EmptyView
<1>1. HeldView(EmptyView)
  BY DEF HeldView, StoredView, EmptyView
<1>2. {i \in DOMAIN EmptyView.sort : EmptyView.sort[i].column \in Sortable} = DOMAIN EmptyView.sort
  BY DEF EmptyView
<1>3. EmptyView.sort \in Seq(SortKey)
  BY DEF EmptyView
<1>4. ReadTableView(EmptyView).sort = EmptyView.sort
  BY <1>2, <1>3, FilteringAll DEF ReadTableView
<1>5. ReadTableView(EmptyView).criteria = EmptyView.criteria
  BY DEF ReadTableView, EmptyView
<1>6. ReadTableView(EmptyView) = [sort |-> EmptyView.sort, criteria |-> EmptyView.criteria]
  BY <1>4, <1>5 DEF ReadTableView
<1> QED BY <1>1, <1>6 DEF EmptyView

\* Reading a stored view gives one a table may hold; one it holds is read as it is.
LEMMA ReadingHolds ==
    ASSUME NEW view, StoredView(view)
    PROVE  HeldView(ReadTableView(view)) /\ (HeldView(view) => ReadTableView(view) = view)
<1> DEFINE read == ReadTableView(view)
<1>1. {i \in DOMAIN view.sort : view.sort[i].column \in Sortable} = DOMAIN view.sort
  <2>1. \A i \in DOMAIN view.sort : view.sort[i] \in SortKey
    BY DEF StoredView
  <2> QED BY <2>1 DEF SortKey
<1>2. read.sort = view.sort
  BY <1>1, FilteringAll DEF ReadTableView, StoredView
<1>3. read.criteria = [column \in {c \in DOMAIN view.criteria : c \in DOMAIN Columns /\ Filters(view.criteria[c])}
                          |-> view.criteria[column]]
  BY DEF ReadTableView
<1>4. read = [sort |-> read.sort, criteria |-> read.criteria]
  BY DEF ReadTableView
<1> HIDE DEF read
<1>5. HeldView(read)
  BY <1>2, <1>3, <1>4 DEF HeldView, StoredView
<1>6. HeldView(view) => read.criteria = view.criteria
  BY <1>3 DEF HeldView, StoredView
<1>7. HeldView(view) => read = view
  BY <1>2, <1>4, <1>6 DEF StoredView
<1> QED BY <1>5, <1>7 DEF read

LEMMA ApplySortKeys ==
    ASSUME NEW sort \in Seq(SortKey), NEW column \in Sortable, NEW dir \in {"asc", "desc", "none"},
           NEW additive \in BOOLEAN
    PROVE  ApplySort(sort, column, dir, additive) \in Seq(SortKey)
<1> DEFINE key == [column |-> column, dir |-> dir]
           others == Filtering(sort, {i \in DOMAIN sort : sort[i].column # column})
           known == \E i \in DOMAIN sort : sort[i].column = column
<1>1. others \in Seq(SortKey)
  BY FilteringKeepsType
<1>2. dir # "none" => key \in SortKey
  BY DEF SortKey
<1> HIDE DEF others, key
<1>3. ApplySort(sort, column, dir, additive) =
        IF ~additive THEN IF dir = "none" THEN <<>> ELSE <<key>>
        ELSE IF dir = "none" THEN others
        ELSE IF known THEN [i \in DOMAIN sort |-> IF sort[i].column = column THEN key ELSE sort[i]]
        ELSE Append(sort, key)
  BY DEF ApplySort, others, key
<1>4. dir # "none" => <<key>> \in Seq(SortKey) /\ Append(sort, key) \in Seq(SortKey)
  BY <1>2
<1>5. ASSUME dir # "none"
      PROVE  [i \in DOMAIN sort |-> IF sort[i].column = column THEN key ELSE sort[i]] \in Seq(SortKey)
  BY <1>2, <1>5
<1>6. <<>> \in Seq(SortKey)
  OBVIOUS
<1> QED BY <1>1, <1>3, <1>4, <1>5, <1>6

\* A view a panel makes of the one held is one a table may hold.
LEMMA PanelsHold ==
    ASSUME NEW view, HeldView(view)
    PROVE  /\ \A column \in DOMAIN Columns : \A criterion :
                HeldView([view EXCEPT !.criteria = IF Filters(criterion) THEN WithColumn(@, column, criterion)
                                                   ELSE WithoutColumn(@, column)])
           /\ \A column : HeldView([view EXCEPT !.criteria = WithoutColumn(@, column)])
           /\ \A sort \in Seq(SortKey) : HeldView([view EXCEPT !.sort = sort])
<1>1. \A column \in DOMAIN Columns : \A criterion : Filters(criterion) =>
        HeldView([view EXCEPT !.criteria = WithColumn(view.criteria, column, criterion)])
  BY DEF HeldView, StoredView, WithColumn
<1>2. \A column : HeldView([view EXCEPT !.criteria = WithoutColumn(view.criteria, column)])
  BY DEF HeldView, StoredView, WithoutColumn
<1>3. \A sort \in Seq(SortKey) : HeldView([view EXCEPT !.sort = sort])
  BY DEF HeldView, StoredView
<1> QED BY <1>1, <1>2, <1>3

LEMMA UpdateKeeps == ASSUME ViewsInv, NEW view, HeldView(view), Update(view) PROVE ViewsInv'
<1>1. ReadTableView(view) = view /\ StoredView(view)
  BY ReadingHolds DEF HeldView
<1>2. /\ table' = [table EXCEPT !.view = view]
      /\ storage' = [storage EXCEPT ![route].view = view]
      /\ asked' = [asked EXCEPT ![route].view = view]
      /\ UNCHANGED <<route, field, timer>>
  <2>1. table.key = route
    BY DEF ViewsInv
  <2> QED BY <2>1 DEF Update
<1>3. table' = [key |-> route, view |-> view]
  BY <1>2 DEF ViewsInv
<1>4. storage' = [storage EXCEPT ![route] = [view |-> view, search |-> storage[route].search]]
  <2>1. storage[route] = [view |-> storage[route].view, search |-> storage[route].search]
    BY DEF ViewsInv
  <2>2. [storage[route] EXCEPT !.view = view] = [view |-> view, search |-> storage[route].search]
    BY <2>1
  <2>3. storage' = [storage EXCEPT ![route] = [storage[route] EXCEPT !.view = view]]
    BY <1>2
  <2> QED BY <2>2, <2>3
<1>5. storage'[route] = [view |-> view, search |-> storage[route].search]
  BY <1>4 DEF ViewsInv
<1>6. \A owner \in Owner : storage'[owner] = IF owner = route THEN [view |-> view, search |-> storage[route].search]
                                             ELSE storage[owner]
  BY <1>4 DEF ViewsInv
<1>7. storage' = [owner \in Owner |-> storage'[owner]] /\ asked' = storage'
  BY <1>2, <1>4 DEF ViewsInv
<1>8. \A owner \in Owner : /\ storage'[owner] = [view |-> storage'[owner].view, search |-> storage'[owner].search]
                           /\ StoredView(storage'[owner].view)
  BY <1>1, <1>6 DEF ViewsInv
<1>9. timer' = Armed(field')
  BY <1>2 DEF ViewsInv
<1> QED BY <1>1, <1>2, <1>3, <1>5, <1>7, <1>8, <1>9 DEF ViewsInv

LEMMA ViewsStep == ViewsInv /\ [ViewsNext]_viewVars => ViewsInv'
<1> SUFFICES ASSUME ViewsInv, [ViewsNext]_viewVars PROVE ViewsInv'
  OBVIOUS
<1>1. ASSUME NEW column \in DOMAIN Columns, SetCriterion(column) PROVE ViewsInv'
  BY <1>1, PanelsHold, UpdateKeeps DEF SetCriterion, ViewsInv
<1>2. ASSUME NEW column \in Sortable, SetSort(column) PROVE ViewsInv'
  <2>1. PICK dir \in {"asc", "desc", "none"}, additive \in BOOLEAN :
            Update([table.view EXCEPT !.sort = ApplySort(table.view.sort, column, dir, additive)])
    BY <1>2 DEF SetSort
  <2>2. ApplySort(table.view.sort, column, dir, additive) \in Seq(SortKey)
    BY ApplySortKeys DEF ViewsInv, HeldView, StoredView
  <2>3. HeldView([table.view EXCEPT !.sort = ApplySort(table.view.sort, column, dir, additive)])
    BY <2>2, PanelsHold DEF ViewsInv
  <2> QED BY <2>1, <2>3, UpdateKeeps
<1>3. ASSUME NEW column \in DOMAIN Columns, ClearColumn(column) PROVE ViewsInv'
  BY <1>3, PanelsHold, UpdateKeeps DEF ClearColumn, ViewsInv
<1>4. CASE ClearAll
  BY <1>4, EmptyViewIsHeld, UpdateKeeps DEF ClearAll
<1>5. CASE TypeSearch
  <2>1. PICK text \in Searches : field' = [field EXCEPT !.input = text]
    BY <1>5 DEF TypeSearch
  <2>2. timer' = Armed(field') /\ UNCHANGED <<route, table, storage, asked>>
    BY <1>5 DEF TypeSearch
  <2>3. field' = [key |-> route, input |-> field'.input, applied |-> storage[route].search]
    BY <2>1 DEF ViewsInv
  <2> QED BY <2>2, <2>3 DEF ViewsInv
<1>6. CASE Debounced
  <2>10. field.key = route /\ timer = Armed(field) /\ timer.armed
    BY <1>6 DEF Debounced, ViewsInv
  <2>1. timer = [armed |-> TRUE, key |-> route, text |-> field.input] /\ field.key = route
    BY <2>10 DEF Armed, Idle
  <2>2. storage' = [storage EXCEPT ![route].search = field.input] /\ asked' = storage'
    BY <1>6, <2>1 DEF Debounced, ViewsInv
  <2>3. field' = [field EXCEPT !.applied = field.input] /\ timer' = Armed(field') /\ UNCHANGED <<route, table>>
    BY <1>6, <2>1 DEF Debounced
  <2>4. storage' = [storage EXCEPT ![route] = [view |-> storage[route].view, search |-> field.input]]
    <3>1. storage[route] = [view |-> storage[route].view, search |-> storage[route].search]
      BY DEF ViewsInv
    <3>2. [storage[route] EXCEPT !.search = field.input] = [view |-> storage[route].view, search |-> field.input]
      BY <3>1
    <3>3. storage' = [storage EXCEPT ![route] = [storage[route] EXCEPT !.search = field.input]]
      BY <2>2
    <3> QED BY <3>2, <3>3
  <2>5. \A owner \in Owner : storage'[owner] = IF owner = route THEN [view |-> storage[route].view, search |-> field.input]
                                               ELSE storage[owner]
    BY <2>4 DEF ViewsInv
  <2>6. storage' = [owner \in Owner |-> storage'[owner]]
    BY <2>4 DEF ViewsInv
  <2>7. \A owner \in Owner : /\ storage'[owner] = [view |-> storage'[owner].view, search |-> storage'[owner].search]
                             /\ StoredView(storage'[owner].view)
    BY <2>5 DEF ViewsInv
  <2>8. storage'[route] = [view |-> storage[route].view, search |-> field.input] /\ route \in Owner
    BY <2>5 DEF ViewsInv
  <2>9. field' = [key |-> route, input |-> field'.input, applied |-> field.input]
    BY <2>3 DEF ViewsInv
  <2> QED BY <2>2, <2>3, <2>6, <2>7, <2>8, <2>9 DEF ViewsInv
<1>7. ASSUME NEW owner \in Owner, Navigate(owner) PROVE ViewsInv'
  <2>1. /\ route' = owner /\ table' = HeldAt(owner) /\ field' = FieldOf(owner) /\ timer' = Armed(field')
        /\ UNCHANGED <<storage, asked>>
    BY <1>7 DEF Navigate
  <2>2. HeldView(ReadTableView(storage[owner].view))
    BY ReadingHolds DEF ViewsInv
  <2> QED BY <2>1, <2>2 DEF HeldAt, FieldOf, ViewsInv
<1>8. ASSUME NEW owner \in Owner, AskElsewhere(owner) PROVE ViewsInv'
  <2>0. PICK column \in DOMAIN Columns : \E criterion \in Criteria[column] :
          LET v == [EmptyView EXCEPT !.criteria = [c \in {column} |-> criterion]] IN
          storage' = [storage EXCEPT ![owner].view = v] /\ asked' = [asked EXCEPT ![owner].view = v]
    BY <1>8 DEF AskElsewhere
  <2>1. PICK criterion \in Criteria[column] :
          /\ storage' = [storage EXCEPT ![owner].view = [EmptyView EXCEPT !.criteria = [c \in {column} |-> criterion]]]
          /\ asked' = [asked EXCEPT ![owner].view = [EmptyView EXCEPT !.criteria = [c \in {column} |-> criterion]]]
    BY <2>0
  <2> DEFINE view == [EmptyView EXCEPT !.criteria = [c \in {column} |-> criterion]]
  <2>2. StoredView(view)
    BY DEF StoredView, EmptyView
  <2> HIDE DEF view
  <2>3. storage' = [storage EXCEPT ![owner] = [view |-> view, search |-> storage[owner].search]] /\ asked' = storage'
    <3>1. storage[owner] = [view |-> storage[owner].view, search |-> storage[owner].search] /\ asked = storage
      BY DEF ViewsInv
    <3>2. [storage[owner] EXCEPT !.view = view] = [view |-> view, search |-> storage[owner].search]
      BY <3>1
    <3>3. storage' = [storage EXCEPT ![owner].view = view] /\ asked' = [asked EXCEPT ![owner].view = view]
      BY <2>1 DEF view
    <3>4. storage' = [storage EXCEPT ![owner] = [storage[owner] EXCEPT !.view = view]]
      BY <3>3
    <3> QED BY <3>1, <3>2, <3>3, <3>4
  <2>4. owner # route /\ UNCHANGED <<route, table, field, timer>>
    BY <1>8 DEF AskElsewhere
  <2>5. \A o \in Owner : storage'[o] = IF o = owner THEN [view |-> view, search |-> storage[owner].search]
                                       ELSE storage[o]
    BY <2>3 DEF ViewsInv
  <2>6. storage' = [o \in Owner |-> storage'[o]]
    BY <2>3 DEF ViewsInv
  <2>7. \A o \in Owner : /\ storage'[o] = [view |-> storage'[o].view, search |-> storage'[o].search]
                         /\ StoredView(storage'[o].view)
    BY <2>2, <2>5 DEF ViewsInv
  <2> QED BY <2>3, <2>4, <2>5, <2>6, <2>7 DEF ViewsInv
<1>9. ASSUME NEW owner \in Owner, ClearTableViews(owner) PROVE ViewsInv'
  <2>1. /\ storage' = [storage EXCEPT ![owner] = [view |-> EmptyView, search |-> NoSearch]]
        /\ asked' = [asked EXCEPT ![owner] = storage'[owner]]
        /\ owner # route /\ UNCHANGED <<route, table, field, timer>>
    BY <1>9 DEF ClearTableViews
  <2>2. \A o \in Owner : storage'[o] = IF o = owner THEN [view |-> EmptyView, search |-> NoSearch] ELSE storage[o]
    BY <2>1 DEF ViewsInv
  <2>3. storage' = [o \in Owner |-> storage'[o]] /\ asked' = storage'
    BY <2>1, <2>2 DEF ViewsInv
  <2>4. \A o \in Owner : /\ storage'[o] = [view |-> storage'[o].view, search |-> storage'[o].search]
                         /\ StoredView(storage'[o].view)
    BY <2>2, EmptyViewIsHeld DEF ViewsInv, HeldView
  <2> QED BY <2>1, <2>2, <2>3, <2>4 DEF ViewsInv
<1>10. CASE UNCHANGED viewVars
  BY <1>10 DEF viewVars, ViewsInv
<1> QED BY <1>1, <1>2, <1>3, <1>4, <1>5, <1>6, <1>7, <1>8, <1>9, <1>10 DEF ViewsNext

-----------------------------------------------------------------------------
(* What a table shows of its lines.                                         *)

\* A criterion of a facet keeps what the facet counts.
LEMMA FacetCounts ==
    ASSUME ViewsInv, NEW column \in DOMAIN Columns, Columns[column].type = "enum",
           NEW value \in DOMAIN Facets(Lines[route], column, {})
    PROVE  LET only == [sort |-> <<>>, criteria |-> [c \in {column} |-> [type |-> "enum", checked |-> {value}]]]
           IN  Facets(Lines[route], column, {})[value] = Len(ApplyView(Lines[route], only, NoSearch))
<1> DEFINE lines == Lines[route]
           only == [sort |-> <<>>, criteria |-> [c \in {column} |-> [type |-> "enum", checked |-> {value}]]]
           kept == KeptLines(lines, only, NoSearch)
           has(row) == IF value = "-" THEN row[column] = {} ELSE value \in row[column]
<1>1. lines \in Seq(ToSet(lines)) /\ \A i \in DOMAIN lines : "-" \notin lines[i][column]
  BY TableAssumption DEF ViewsInv
<1>2. Facets(lines, column, {})[value] = Cardinality({i \in DOMAIN lines : has(lines[i])})
  BY DEF Facets
<1>3. only.sort = <<>> /\ DOMAIN only.criteria = {column}
      /\ only.criteria[column] = [type |-> "enum", checked |-> {value}]
  OBVIOUS
<1>4. \A i \in DOMAIN lines : has(lines[i]) <=> Keeps([type |-> "enum", checked |-> {value}], lines[i][column])
  BY <1>1 DEF Keeps, Filters, TestEnum
<1>5. \A values : Keeps(NoSearch, values)
  BY DEF Keeps, Filters, NoSearch
<1> HIDE DEF has, only, lines
<1>6. kept = {i \in DOMAIN lines : has(lines[i])}
  BY <1>3, <1>4, <1>5 DEF KeptLines
<1>7. Len(ApplyView(lines, only, NoSearch)) = Cardinality(kept)
  BY <1>1, <1>3, UnsortedShowsKept
<1> QED BY <1>2, <1>6, <1>7 DEF only, lines

LEMMA ShownIsWellPlaced ==
    ASSUME ViewsInv
    PROVE  LET lines == Lines[route]
               kept == KeptLines(lines, table.view, field.applied)
           IN  /\ Ranks(lines, kept, table.view.sort)
               /\ WellPlaced(Shown, lines, kept, table.view.sort)
<1> DEFINE lines == Lines[route]
           kept == KeptLines(lines, table.view, field.applied)
           sort == table.view.sort
<1>1. lines \in Seq(ToSet(lines)) /\ kept \in SUBSET (DOMAIN lines)
  BY TableAssumption DEF ViewsInv, KeptLines
<1>2. kept \in SUBSET Nat /\ IsFiniteSet(kept)
  BY <1>1, LinesOfASequence
<1>3. sort \in Seq(SortKey)
  BY DEF ViewsInv, HeldView, StoredView
<1>4. \A k \in DOMAIN sort : sort[k].column \in Sortable
  <2>1. \A k \in DOMAIN sort : sort[k] \in SortKey
    BY <1>3
  <2> QED BY <2>1 DEF SortKey
<1>5. \A k \in DOMAIN sort, i \in kept : OneValue(lines[i][sort[k].column])
  BY <1>1, <1>4, TableAssumption DEF ViewsInv, Sortable, OneValue
<1>6. DOMAIN sort = 1..Len(sort) /\ Len(sort) \in Nat
  BY <1>3
<1>7. Shown = SortedRows(lines, kept, sort)
  BY DEF Shown, ApplyView
<1> HIDE DEF lines, kept, sort
<1>8. DOMAIN sort \subseteq Nat \ {0} /\ \A k \in DOMAIN sort : DOMAIN sort \cap (1..k) = 1..k
  BY <1>6
<1>9. Ranks(lines, kept, sort)
  BY <1>5, <1>8, KeysRank
<1>10. WellPlaced(Shown, lines, kept, sort)
  BY <1>2, <1>7, <1>9, SortedPlaces
<1> QED BY <1>9, <1>10 DEF lines, kept, sort

LEMMA ViewsTell == ViewsInv => TableTellsItsOwn
<1> SUFFICES ASSUME ViewsInv PROVE TableTellsItsOwn
  OBVIOUS
<1>1. ViewIsItsOwn
  <2>1. /\ \A owner \in Owner : storage[owner] = asked[owner]
        /\ table.key = route /\ field.key = route
        /\ field.applied = storage[route].search
        /\ table.view = ReadTableView(storage[route].view)
    BY DEF ViewsInv
  <2>2. timer.armed => timer.key = route /\ timer.text = field.input
    BY <2>1 DEF ViewsInv, Armed, Idle
  <2> QED BY <2>1, <2>2 DEF ViewIsItsOwn
<1> DEFINE lines == Lines[route]
           kept == KeptLines(lines, table.view, field.applied)
           sort == table.view.sort
<1>2. Ranks(lines, kept, sort) /\ WellPlaced(Shown, lines, kept, sort)
  BY ShownIsWellPlaced
<1>3. DOMAIN Shown = 1..Cardinality(kept)
  BY <1>2 DEF WellPlaced
<1>4. ASSUME NEW i \in DOMAIN lines
      PROVE  \/ \E j \in DOMAIN Shown : Shown[j] = lines[i]
             \/ ~Keeps(field.applied, lines[i]["ticker"])
             \/ \E column \in Pills(table.view) : ~Keeps(table.view.criteria[column], lines[i][column])
  <2>1. CASE i \in kept
    BY <1>2, <1>3, <2>1 DEF WellPlaced
  <2>2. CASE i \notin kept
    BY <2>2, PillsSay
  <2> QED BY <2>1, <2>2
<1>5. ASSUME NEW i \in DOMAIN Shown, NEW j \in DOMAIN Shown, i < j
      PROVE  ~AheadOn(sort, Shown[j], Shown[i])
  <2>1. PICK a \in kept, b \in kept : Shown[i] = lines[a] /\ Shown[j] = lines[b] /\ ComesBefore(lines, sort, a, b)
    BY <1>2, <1>3, <1>5 DEF WellPlaced
  <2> QED BY <1>2, <2>1 DEF ComesBefore, Ranks
<1>6. NothingHiddenSilently
  BY <1>4, <1>5, FacetCounts DEF NothingHiddenSilently
<1> QED BY <1>1, <1>6 DEF TableTellsItsOwn

\* A table and its page show their own account's view, and hide no line without a pill or a
\* search that says so, whatever is asked of them and wherever the page goes (useTableView,
\* usePageSearch, tableView.ts).
THEOREM TableTellsItsOwnSafe == ViewsSpec => []TableTellsItsOwn
<1>1. ViewsInit => ViewsInv
  <2> SUFFICES ASSUME ViewsInit PROVE ViewsInv
    OBVIOUS
  <2>1. timer = Armed(field)
    BY DEF ViewsInit, Armed
  <2> QED BY <2>1, EmptyViewIsHeld DEF ViewsInit, ViewsInv, HeldView
<1> QED BY <1>1, ViewsStep, ViewsTell, PTL DEF ViewsSpec

-----------------------------------------------------------------------------
(* The cash: what Total computes.                                            *)

LEMMA TotalRuns ==
    ASSUME NEW n \in Nat, NEW moves \in [1..n -> Int]
    PROVE  \E upTo : Runs(upTo, moves, n) /\ Total(moves) = upTo[n]
<1> DEFINE total == CHOOSE g : g = [k \in 0..n |-> IF k = 0 THEN 0 ELSE g[k - 1] + moves[k]]
<1>1. PICK some : Runs(some, moves, n)
  BY SomethingRuns
<1>2. some = [k \in 0..n |-> IF k = 0 THEN 0 ELSE some[k - 1] + moves[k]]
  BY <1>1 DEF Runs
<1>3. total = [k \in 0..n |-> IF k = 0 THEN 0 ELSE total[k - 1] + moves[k]]
  BY <1>2
<1>4. Len(moves) = n
  OBVIOUS
<1>5. Total(moves) = total[n]
  BY <1>4 DEF Total
<1> HIDE DEF total
<1>6. \A k \in 0..n : total[k] = some[k]
  <2> DEFINE wrong == {k \in 0..n : total[k] # some[k]}
  <2> SUFFICES ASSUME wrong # {} PROVE FALSE
    OBVIOUS
  <2>1. wrong \subseteq Nat
    OBVIOUS
  <2>2. PICK m \in wrong : \A k \in wrong : m <= k
    BY <2>1, FirstOf
  <2>3. m # 0
    BY <1>1, <1>3, <2>2 DEF Runs
  <2>4. m - 1 \in 0..n /\ m \in 1..n /\ m - 1 \notin wrong
    BY <2>2, <2>3
  <2>5. total[m] = total[m - 1] + moves[m] /\ some[m] = some[m - 1] + moves[m]
    BY <1>1, <1>3, <2>4 DEF Runs
  <2> QED BY <2>2, <2>4, <2>5
<1> QED BY <1>1, <1>5, <1>6

\* Totals add up, move by move.
LEMMA TotalsAdd ==
    ASSUME NEW n \in Nat, NEW u \in [1..n -> Int], NEW v \in [1..n -> Int], NEW w \in [1..n -> Int],
           \A i \in 1..n : w[i] = u[i] + v[i]
    PROVE  Total(w) = Total(u) + Total(v) /\ {Total(u), Total(v), Total(w)} \subseteq Int
<1>1. PICK a : Runs(a, u, n) /\ Total(u) = a[n]
  BY TotalRuns
<1>2. PICK b : Runs(b, v, n) /\ Total(v) = b[n]
  BY TotalRuns
<1>3. PICK c : Runs(c, w, n) /\ Total(w) = c[n]
  BY TotalRuns
<1>4. \A k \in 0..n : c[k] = a[k] + b[k]
  <2> DEFINE wrong == {k \in 0..n : c[k] # a[k] + b[k]}
  <2> SUFFICES ASSUME wrong # {} PROVE FALSE
    OBVIOUS
  <2>1. wrong \subseteq Nat
    OBVIOUS
  <2>2. PICK m \in wrong : \A k \in wrong : m <= k
    BY <2>1, FirstOf
  <2>3. m # 0
    BY <1>1, <1>2, <1>3, <2>2 DEF Runs
  <2>4. m - 1 \in 0..n /\ m \in 1..n /\ m - 1 \notin wrong
    BY <2>2, <2>3
  <2>5. a[m] = a[m - 1] + u[m] /\ b[m] = b[m - 1] + v[m] /\ c[m] = c[m - 1] + w[m]
    BY <1>1, <1>2, <1>3, <2>4 DEF Runs
  <2>6. a[m - 1] \in Int /\ b[m - 1] \in Int /\ u[m] \in Int /\ v[m] \in Int /\ w[m] = u[m] + v[m]
    BY <1>1, <1>2, <2>4 DEF Runs
  <2> QED BY <2>2, <2>4, <2>5, <2>6
<1>5. n \in 0..n /\ a[n] \in Int /\ b[n] \in Int /\ c[n] \in Int
  BY <1>1, <1>2, <1>3 DEF Runs
<1> QED BY <1>1, <1>2, <1>3, <1>4, <1>5

\* One move more.
LEMMA TotalGrows ==
    ASSUME NEW n \in Nat, NEW u \in [1..n -> Int], NEW w \in [1..(n + 1) -> Int],
           \A i \in 1..n : w[i] = u[i]
    PROVE  Total(w) = Total(u) + w[n + 1]
<1>1. PICK a : Runs(a, u, n) /\ Total(u) = a[n]
  BY TotalRuns
<1>2. PICK c : Runs(c, w, n + 1) /\ Total(w) = c[n + 1]
  BY TotalRuns
<1>3. \A k \in 0..n : c[k] = a[k]
  <2> DEFINE wrong == {k \in 0..n : c[k] # a[k]}
  <2> SUFFICES ASSUME wrong # {} PROVE FALSE
    OBVIOUS
  <2>1. wrong \subseteq Nat
    OBVIOUS
  <2>2. PICK m \in wrong : \A k \in wrong : m <= k
    BY <2>1, FirstOf
  <2>3. m # 0
    BY <1>1, <1>2, <2>2 DEF Runs
  <2>4. m - 1 \in 0..n /\ m \in 1..n /\ m \in 1..(n + 1) /\ m - 1 \notin wrong
    <3>1. m \in 0..n /\ m - 1 \in 0..n /\ m \in 1..n /\ m \in 1..(n + 1) /\ ~(m <= m - 1)
      BY <2>2, <2>3
    <3> HIDE DEF wrong
    <3> QED BY <2>2, <3>1
  <2>5. a[m] = a[m - 1] + u[m] /\ c[m] = c[m - 1] + w[m]
    BY <1>1, <1>2, <2>4 DEF Runs
  <2> QED BY <2>2, <2>4, <2>5
<1>4. c[n + 1] = c[n] + w[n + 1]
  <2>1. n + 1 \in 1..(n + 1) /\ (n + 1) - 1 = n
    OBVIOUS
  <2> QED BY <1>2, <2>1 DEF Runs
<1> QED BY <1>1, <1>2, <1>3, <1>4

-----------------------------------------------------------------------------
(* The cash of the account.                                                 *)

RowType == [row : RowKinds, day : Nat]

\* A report states the balances of the account at the ends of its period, which stay what
\* they were: what happens afterwards is of a later day.
Moved(currency, days) ==
    Total([i \in DOMAIN account |-> IF account[i].day \in days THEN TrueImpact(account[i].row, currency) ELSE 0])

PointsInv(currency) ==
    LET start == points[currency].start
        end == points[currency].end
    IN  end # NoPoint =>
            /\ start # NoPoint /\ start.asOf \in Nat /\ end.asOf \in Nat
            /\ 1 <= start.asOf /\ start.asOf <= end.asOf /\ end.asOf < today
            /\ start.amount = Opening[currency] + Moved(currency, 1..(start.asOf - 1))
            /\ end.amount = Opening[currency] + Moved(currency, 1..end.asOf)

CashInv ==
    /\ today \in Nat /\ 1 <= today
    /\ account \in Seq(RowType)
    /\ \A i \in DOMAIN account : 1 <= account[i].day /\ account[i].day <= today
    /\ points = [currency \in Currencies |-> [start |-> points[currency].start, end |-> points[currency].end]]
    /\ \A currency \in Currencies : points[currency].end = NoPoint <=> points[currency].start = NoPoint
    /\ \A currency \in Currencies : PointsInv(currency)

LEMMA ImpactIsInt ==
    ASSUME NEW row \in RowKinds, NEW currency
    PROVE  /\ TrueImpact(row, currency) \in Int /\ Counted(row, currency) \in Int /\ LeftOut(row, currency) \in Int
           /\ TrueImpact(row, currency) = Counted(row, currency) + LeftOut(row, currency)
<1>1. row.amount \in Int /\ row.quantity \in Int /\ row.commission \in Int /\ row.pair \in BOOLEAN
  BY CashAssumption
<1>2. TrueImpact(row, currency) \in Int
  BY <1>1 DEF TrueImpact
<1>3. Counted(row, currency) \in Int
  BY <1>1 DEF Counted, CashImpact, Figure
<1>4. LeftOut(row, currency) \in Int
  BY <1>1 DEF LeftOut
<1>5. CASE row.pair
  BY <1>1, <1>5 DEF TrueImpact, Counted, CashImpact, Figure, LeftOut
<1>6. CASE ~row.pair
  BY <1>1, <1>6 DEF TrueImpact, Counted, CashImpact, Figure, LeftOut
<1> QED BY <1>2, <1>3, <1>4, <1>5, <1>6

\* What the account moved over some days, what the ledger counts of it and what it has wrong.
LEMMA MovedSplits ==
    ASSUME CashInv, NEW currency, NEW days
    PROVE  /\ Moved(currency, days) = RawBalance(currency, days) + Wrong(currency, days)
           /\ {Moved(currency, days), RawBalance(currency, days), Wrong(currency, days)} \subseteq Int
<1> DEFINE n == Len(account)
           u == [i \in DOMAIN account |->
                    IF i \in ledger /\ account[i].day \in days THEN Counted(account[i].row, currency) ELSE 0]
           v == [i \in DOMAIN account |->
                    IF account[i].day \notin days THEN 0
                    ELSE IF i \in ledger THEN LeftOut(account[i].row, currency) ELSE TrueImpact(account[i].row, currency)]
           w == [i \in DOMAIN account |-> IF account[i].day \in days THEN TrueImpact(account[i].row, currency) ELSE 0]
<1>1. n \in Nat /\ DOMAIN account = 1..n /\ \A i \in 1..n : account[i].row \in RowKinds
  <2>1. \A i \in 1..n : account[i] \in RowType
    BY DEF CashInv
  <2> QED BY <2>1 DEF CashInv, RowType
<1> HIDE DEF n
<1>2. \A i \in 1..n : LET row == account[i].row IN
        /\ TrueImpact(row, currency) \in Int /\ Counted(row, currency) \in Int /\ LeftOut(row, currency) \in Int
        /\ TrueImpact(row, currency) = Counted(row, currency) + LeftOut(row, currency)
  BY <1>1, ImpactIsInt
<1>3. u \in [1..n -> Int] /\ v \in [1..n -> Int] /\ w \in [1..n -> Int]
  BY <1>1, <1>2
<1>4. \A i \in 1..n : w[i] = u[i] + v[i]
  BY <1>1, <1>2
<1>5. Total(w) = Total(u) + Total(v) /\ {Total(u), Total(v), Total(w)} \subseteq Int
  <2> HIDE DEF u, v, w
  <2> QED BY <1>1, <1>3, <1>4, TotalsAdd
<1>6. Moved(currency, days) = Total(w) /\ RawBalance(currency, days) = Total(u) /\ Wrong(currency, days) = Total(v)
  BY DEF Moved, RawBalance, Wrong
<1> HIDE DEF u, v, w
<1> QED BY <1>5, <1>6

\* Two periods that follow one another.
Over(weights, days) == Total([i \in DOMAIN account |-> IF account[i].day \in days THEN weights[i] ELSE 0])

Follow(former, latter, all) ==
    /\ \A day \in former : day \notin latter
    /\ \A i \in DOMAIN account : account[i].day \in all <=> account[i].day \in former \/ account[i].day \in latter

LEMMA OverAdds ==
    ASSUME CashInv, NEW weights \in [DOMAIN account -> Int], NEW former, NEW latter, NEW all,
           Follow(former, latter, all)
    PROVE  Over(weights, all) = Over(weights, former) + Over(weights, latter)
<1> DEFINE n == Len(account)
           u == [i \in DOMAIN account |-> IF account[i].day \in former THEN weights[i] ELSE 0]
           v == [i \in DOMAIN account |-> IF account[i].day \in latter THEN weights[i] ELSE 0]
           w == [i \in DOMAIN account |-> IF account[i].day \in all THEN weights[i] ELSE 0]
<1>1. n \in Nat /\ DOMAIN account = 1..n
  BY DEF CashInv
<1> HIDE DEF n
<1>2. \A i \in 1..n : weights[i] \in Int
  BY <1>1
<1>3. u \in [1..n -> Int] /\ v \in [1..n -> Int] /\ w \in [1..n -> Int]
  BY <1>1, <1>2
<1>4. \A i \in 1..n : w[i] = u[i] + v[i]
  BY <1>1, <1>2 DEF Follow
<1>5. Over(weights, all) = Total(w) /\ Over(weights, former) = Total(u) /\ Over(weights, latter) = Total(v)
  BY DEF Over
<1> HIDE DEF u, v, w
<1>6. Total(w) = Total(u) + Total(v)
  BY <1>1, <1>3, <1>4, TotalsAdd
<1> QED BY <1>5, <1>6

LEMMA DaysAdd ==
    ASSUME CashInv, NEW currency, NEW former, NEW latter, NEW all, Follow(former, latter, all)
    PROVE  /\ Moved(currency, all) = Moved(currency, former) + Moved(currency, latter)
           /\ RawBalance(currency, all) = RawBalance(currency, former) + RawBalance(currency, latter)
<1> DEFINE impact == [i \in DOMAIN account |-> TrueImpact(account[i].row, currency)]
           counted == [i \in DOMAIN account |-> IF i \in ledger THEN Counted(account[i].row, currency) ELSE 0]
<1>1. \A i \in DOMAIN account : account[i].row \in RowKinds
  <2>1. \A i \in DOMAIN account : account[i] \in RowType
    BY DEF CashInv
  <2> QED BY <2>1 DEF RowType
<1>2. impact \in [DOMAIN account -> Int] /\ counted \in [DOMAIN account -> Int]
  BY <1>1, ImpactIsInt
<1>3. \A days : Moved(currency, days) = Over(impact, days)
  <2> TAKE days
  <2>1. [i \in DOMAIN account |-> IF account[i].day \in days THEN TrueImpact(account[i].row, currency) ELSE 0]
          = [i \in DOMAIN account |-> IF account[i].day \in days THEN impact[i] ELSE 0]
    OBVIOUS
  <2> QED BY <2>1 DEF Moved, Over
<1>4. \A days : RawBalance(currency, days) = Over(counted, days)
  <2> TAKE days
  <2>1. [i \in DOMAIN account |->
            IF i \in ledger /\ account[i].day \in days THEN Counted(account[i].row, currency) ELSE 0]
          = [i \in DOMAIN account |-> IF account[i].day \in days THEN counted[i] ELSE 0]
    OBVIOUS
  <2> QED BY <2>1 DEF RawBalance, Over
<1> HIDE DEF impact, counted
<1>5. Over(impact, all) = Over(impact, former) + Over(impact, latter)
  BY <1>2, OverAdds
<1>6. Over(counted, all) = Over(counted, former) + Over(counted, latter)
  BY <1>2, OverAdds
<1> QED BY <1>3, <1>4, <1>5, <1>6

LEMMA CashTells == CashInv => CashIsAccountedFor
<1> SUFFICES ASSUME CashInv, NEW currency \in Currencies, points[currency].end # NoPoint
             PROVE  LET start == points[currency].start
                        end == points[currency].end IN
                    /\ Gap(currency) = Wrong(currency, start.asOf..end.asOf)
                    /\ CurrentCash(currency) =
                          TrueBalance(currency, 1..today) - Wrong(currency, (end.asOf + 1)..today)
  BY DEF CashIsAccountedFor
<1> DEFINE start == points[currency].start
           end == points[currency].end
           before == 1..(start.asOf - 1)
           period == start.asOf..end.asOf
           since == (end.asOf + 1)..today
           closed == 1..end.asOf
           ever == 1..today
<1>1. /\ start.asOf \in Nat /\ end.asOf \in Nat /\ today \in Nat /\ Opening[currency] \in Int
      /\ 1 <= start.asOf /\ start.asOf <= end.asOf /\ end.asOf < today
      /\ start.amount = Opening[currency] + Moved(currency, before)
      /\ end.amount = Opening[currency] + Moved(currency, closed)
  BY CashAssumption DEF CashInv, PointsInv
<1>2. \A i \in DOMAIN account : account[i].day \in Nat
  <2>1. \A i \in DOMAIN account : account[i] \in RowType
    BY DEF CashInv
  <2> QED BY <2>1 DEF RowType
<1>3. /\ Moved(currency, closed) = Moved(currency, before) + Moved(currency, period)
      /\ RawBalance(currency, closed) = RawBalance(currency, before) + RawBalance(currency, period)
  <2>1. Follow(before, period, closed)
    BY <1>1, <1>2 DEF Follow
  <2> QED BY <2>1, DaysAdd
<1>4. /\ Moved(currency, ever) = Moved(currency, closed) + Moved(currency, since)
      /\ RawBalance(currency, ever) = RawBalance(currency, closed) + RawBalance(currency, since)
  <2>1. Follow(closed, since, ever)
    BY <1>1, <1>2 DEF Follow
  <2> QED BY <2>1, DaysAdd
<1>5. Gap(currency) = RawBalance(currency, before) + (end.amount - RawBalance(currency, closed)) - start.amount
  BY DEF Gap, Offset
<1>6. CurrentCash(currency) = RawBalance(currency, ever) + (end.amount - RawBalance(currency, closed))
  BY DEF CurrentCash, Offset
<1>7. TrueBalance(currency, ever) = Opening[currency] + Moved(currency, ever)
  BY DEF TrueBalance, Moved
<1> HIDE DEF start, end, before, period, since, closed, ever
<1>8. /\ Moved(currency, before) = RawBalance(currency, before) + Wrong(currency, before)
      /\ {Moved(currency, before), RawBalance(currency, before), Wrong(currency, before)} \subseteq Int
  BY MovedSplits
<1>9. /\ Moved(currency, closed) = RawBalance(currency, closed) + Wrong(currency, closed)
      /\ {Moved(currency, closed), RawBalance(currency, closed), Wrong(currency, closed)} \subseteq Int
  BY MovedSplits
<1>10. /\ Moved(currency, period) = RawBalance(currency, period) + Wrong(currency, period)
       /\ {Moved(currency, period), RawBalance(currency, period), Wrong(currency, period)} \subseteq Int
  BY MovedSplits
<1>11. /\ Moved(currency, ever) = RawBalance(currency, ever) + Wrong(currency, ever)
       /\ {Moved(currency, ever), RawBalance(currency, ever), Wrong(currency, ever)} \subseteq Int
  BY MovedSplits
<1>12. /\ Moved(currency, since) = RawBalance(currency, since) + Wrong(currency, since)
       /\ {Moved(currency, since), RawBalance(currency, since), Wrong(currency, since)} \subseteq Int
  BY MovedSplits
<1>13. Gap(currency) = Wrong(currency, period)
  BY <1>1, <1>3, <1>5, <1>8, <1>9, <1>10
<1>14. CurrentCash(currency) = TrueBalance(currency, ever) - Wrong(currency, since)
  BY <1>1, <1>4, <1>6, <1>7, <1>9, <1>11, <1>12
<1> QED BY <1>13, <1>14 DEF start, end, period, since, ever

LEMMA InitCash == CashInit => CashInv
BY DEF CashInit, CashInv, PointsInv, NoPoint

\* A row of today moves nothing of the days before.
LEMMA HappenKeeps == ASSUME CashInv, Happen PROVE CashInv'
<1> DEFINE n == Len(account)
<1>1. PICK kind \in RowKinds : account' = Append(account, [row |-> kind, day |-> today])
  BY DEF Happen
<1>2. UNCHANGED <<today, points>>
  BY DEF Happen
<1>3. [row |-> kind, day |-> today] \in RowType
  BY DEF CashInv, RowType
<1>4. /\ n \in Nat /\ DOMAIN account = 1..n /\ \A i \in 1..n : account[i] \in RowType
      /\ account' \in Seq(RowType) /\ DOMAIN account' = 1..(n + 1)
      /\ account'[n + 1] = [row |-> kind, day |-> today]
      /\ \A i \in 1..n : account'[i] = account[i]
  BY <1>1, <1>3 DEF CashInv
<1> HIDE DEF n
<1>5. \A i \in DOMAIN account' : 1 <= account'[i].day /\ account'[i].day <= today'
  <2> TAKE i \in DOMAIN account'
  <2>1. CASE i = n + 1
    BY <1>2, <1>4, <2>1 DEF CashInv
  <2>2. CASE i # n + 1
    <3>1. i \in 1..n
      BY <1>4, <2>2
    <3> QED BY <1>2, <1>4, <3>1 DEF CashInv
  <2> QED BY <2>1, <2>2
<1>7. ASSUME NEW currency, NEW last \in Nat, last < today
      PROVE  Moved(currency, 1..last)' = Moved(currency, 1..last)
  <2> DEFINE u == [i \in 1..n |-> IF account[i].day \in 1..last THEN TrueImpact(account[i].row, currency) ELSE 0]
             w == [i \in 1..(n + 1) |-> IF account'[i].day \in 1..last THEN TrueImpact(account'[i].row, currency) ELSE 0]
  <2>1. \A i \in 1..n : account[i].row \in RowKinds
    BY <1>4 DEF RowType
  <2>2. u \in [1..n -> Int]
    BY <2>1, ImpactIsInt
  <2>3. \A i \in 1..n : i \in 1..(n + 1) /\ w[i] = u[i]
    BY <1>4
  <2>4. n + 1 \in 1..(n + 1) /\ w[n + 1] = 0
    <3>1. today \notin 1..last
      BY <1>7 DEF CashInv
    <3> QED BY <1>4, <3>1
  <2>5. w \in [1..(n + 1) -> Int]
    <3>1. \A i \in 1..(n + 1) : w[i] \in Int
      <4> TAKE i \in 1..(n + 1)
      <4>1. i \in 1..n \/ i = n + 1
        BY <1>4
      <4> HIDE DEF u, w
      <4> QED BY <2>2, <2>3, <2>4, <4>1
    <3>2. w = [i \in 1..(n + 1) |-> w[i]]
      OBVIOUS
    <3> HIDE DEF w
    <3> QED BY <3>1, <3>2
  <2>6. Moved(currency, 1..last) = Total(u) /\ Moved(currency, 1..last)' = Total(w)
    BY <1>4 DEF Moved
  <2> HIDE DEF u, w
  <2>7. Total(w) = Total(u) + w[n + 1]
    BY <1>4, <2>2, <2>3, <2>5, TotalGrows
  <2>8. Total(u) \in Int
    <3>1. PICK a : Runs(a, u, n) /\ Total(u) = a[n]
      BY <1>4, <2>2, TotalRuns
    <3> QED BY <1>4, <3>1 DEF Runs
  <2> QED BY <2>4, <2>6, <2>7, <2>8
<1>8. ASSUME NEW currency \in Currencies PROVE PointsInv(currency)'
  <2> SUFFICES ASSUME points[currency].end # NoPoint PROVE PointsInv(currency)'
    BY <1>2 DEF PointsInv
  <2> DEFINE start == points[currency].start
             end == points[currency].end
  <2>1. /\ start # NoPoint /\ start.asOf \in Nat /\ end.asOf \in Nat
        /\ 1 <= start.asOf /\ start.asOf <= end.asOf /\ end.asOf < today
        /\ start.amount = Opening[currency] + Moved(currency, 1..(start.asOf - 1))
        /\ end.amount = Opening[currency] + Moved(currency, 1..end.asOf)
    BY DEF CashInv, PointsInv
  <2>2. Moved(currency, 1..(start.asOf - 1))' = Moved(currency, 1..(start.asOf - 1))
    <3>1. start.asOf - 1 \in Nat /\ start.asOf - 1 < today
      BY <2>1 DEF CashInv
    <3>2. start' = start
      BY <1>2
    <3> HIDE DEF start
    <3> QED BY <1>7, <3>1, <3>2
  <2>3. Moved(currency, 1..end.asOf)' = Moved(currency, 1..end.asOf)
    <3>1. end' = end
      BY <1>2
    <3> HIDE DEF end
    <3> QED BY <1>7, <2>1, <3>1
  <2> QED BY <1>2, <2>1, <2>2, <2>3 DEF PointsInv
<1> QED BY <1>2, <1>4, <1>5, <1>8 DEF CashInv

\* A Cash Report states what the account moved until the ends of its period.
LEMMA ReportKeeps ==
    ASSUME CashInv, NEW from \in 1..LastDay, NEW to \in 1..LastDay, NEW among, Report(from, to, among)
    PROVE  CashInv'
<1>1. from \in Nat /\ to \in Nat /\ 1 <= from /\ from <= to /\ to < today /\ UNCHANGED <<today, account, ledger>>
  BY CashAssumption DEF Report
<1> DEFINE startOf(c) == [asOf |-> from, amount |-> Opening[c] + Moved(c, 1..(from - 1))]
           endOf(c) == [asOf |-> to, amount |-> Opening[c] + Moved(c, 1..to)]
<1>2. points' = [c \in Currencies |->
        IF c \notin among THEN points[c]
        ELSE [start |-> IF points[c].start = NoPoint \/ from <= points[c].start.asOf THEN startOf(c) ELSE points[c].start,
              end |-> IF points[c].end = NoPoint \/ to >= points[c].end.asOf THEN endOf(c) ELSE points[c].end]]
  BY DEF Report, TrueBalance, Moved
<1>3. \A c : startOf(c).asOf = from /\ endOf(c).asOf = to /\ startOf(c) # NoPoint /\ endOf(c) # NoPoint
  BY <1>1 DEF NoPoint
<1>4. \A c : /\ startOf(c).amount = Opening[c] + Moved(c, 1..(from - 1))
             /\ endOf(c).amount = Opening[c] + Moved(c, 1..to)
  OBVIOUS
<1> HIDE DEF startOf, endOf
<1>5. \A c, days : Moved(c, days)' = Moved(c, days')
  BY <1>1 DEF Moved
<1>6. ASSUME NEW c \in Currencies
      PROVE  /\ points'[c] = [start |-> points'[c].start, end |-> points'[c].end]
             /\ points'[c].end = NoPoint <=> points'[c].start = NoPoint
             /\ PointsInv(c)'
  <2> DEFINE start == points'[c].start
             end == points'[c].end
  <2>1. CASE c \notin among
    <3>1. points'[c] = points[c]
      BY <1>2, <2>1
    <3> QED BY <1>1, <3>1 DEF CashInv, PointsInv, Moved
  <2>2. CASE c \in among
    <3>1. /\ start = IF points[c].start = NoPoint \/ from <= points[c].start.asOf THEN startOf(c) ELSE points[c].start
          /\ end = IF points[c].end = NoPoint \/ to >= points[c].end.asOf THEN endOf(c) ELSE points[c].end
          /\ points'[c] = [start |-> start, end |-> end]
      BY <1>2, <2>2
    <3>2. points[c].end = NoPoint <=> points[c].start = NoPoint
      BY DEF CashInv
    <3>3. points[c].end # NoPoint =>
            /\ points[c].start # NoPoint /\ points[c].start.asOf \in Nat /\ points[c].end.asOf \in Nat
            /\ 1 <= points[c].start.asOf /\ points[c].start.asOf <= points[c].end.asOf /\ points[c].end.asOf < today
            /\ points[c].start.amount = Opening[c] + Moved(c, 1..(points[c].start.asOf - 1))
            /\ points[c].end.amount = Opening[c] + Moved(c, 1..points[c].end.asOf)
      BY DEF CashInv, PointsInv
    <3> HIDE DEF start, end
    <3>4. start # NoPoint /\ end # NoPoint
      BY <1>3, <3>1
    <3>5. start.amount = Opening[c] + Moved(c, 1..(start.asOf - 1))
      BY <1>3, <1>4, <3>1, <3>2, <3>3
    <3>6. end.amount = Opening[c] + Moved(c, 1..end.asOf)
      BY <1>3, <1>4, <3>1, <3>3
    <3>7. start.asOf \in Nat /\ end.asOf \in Nat /\ 1 <= start.asOf /\ start.asOf <= end.asOf /\ end.asOf < today
      BY <1>1, <1>3, <3>1, <3>2, <3>3 DEF CashInv
    <3>8. Moved(c, 1..(points[c].start.asOf - 1))' = Moved(c, 1..(start.asOf - 1))
      BY <1>1 DEF Moved, start
    <3>9. Moved(c, 1..points[c].end.asOf)' = Moved(c, 1..end.asOf)
      BY <1>1 DEF Moved, end
    <3>10. PointsInv(c)'
      BY <1>1, <3>4, <3>5, <3>6, <3>7, <3>8, <3>9 DEF PointsInv, start, end
    <3> QED BY <3>1, <3>4, <3>10 DEF start, end
  <2> QED BY <2>1, <2>2
<1> QED BY <1>1, <1>2, <1>6 DEF CashInv

\* A row recovered, or a midnight, changes nothing the points say.
LEMMA OthersKeep ==
    ASSUME CashInv, UNCHANGED <<account, points>>, today' \in {today, today + 1}
    PROVE  CashInv'
<1>1. ASSUME NEW currency \in Currencies PROVE PointsInv(currency)'
  <2>1. PointsInv(currency) /\ today \in Nat
    BY DEF CashInv
  <2>2. points[currency].end.asOf \in Nat /\ points[currency].end.asOf < today => points[currency].end.asOf < today'
    BY <2>1
  <2>3. Moved(currency, 1..(points[currency].start.asOf - 1))' = Moved(currency, 1..(points[currency].start.asOf - 1))
    BY DEF Moved
  <2>4. Moved(currency, 1..points[currency].end.asOf)' = Moved(currency, 1..points[currency].end.asOf)
    BY DEF Moved
  <2> QED BY <2>1, <2>2, <2>3, <2>4 DEF PointsInv
<1>2. \A i \in DOMAIN account : account[i].day \in Nat
  <2>1. \A i \in DOMAIN account : account[i] \in RowType
    BY DEF CashInv
  <2> QED BY <2>1 DEF RowType
<1> QED BY <1>1, <1>2 DEF CashInv

LEMMA CashStep == CashInv /\ [CashNext]_cashVars => CashInv'
<1> SUFFICES ASSUME CashInv, [CashNext]_cashVars PROVE CashInv'
  OBVIOUS
<1>1. CASE Happen
  BY <1>1, HappenKeeps
<1>2. CASE Midnight
  BY <1>2, OthersKeep DEF Midnight
<1>3. CASE \E i \in DOMAIN account : Recover(i)
  BY <1>3, OthersKeep DEF Recover
<1>4. CASE \E from, to \in 1..LastDay, among \in (SUBSET Currencies \ {{}}) : Report(from, to, among)
  BY <1>4, ReportKeeps
<1>5. CASE UNCHANGED cashVars
  BY <1>5, OthersKeep DEF cashVars
<1> QED BY <1>1, <1>2, <1>3, <1>4, <1>5 DEF CashNext

\* Rows held have happened, and a point is the account's true balance at its day (cashPoints.ts).
THEOREM CashInvHolds == CashSpec => []CashInv
<1>1. CashInit => CashInv
  BY InitCash
<1>2. CashInv /\ [CashNext]_cashVars => CashInv'
  BY CashStep
<1> QED BY <1>1, <1>2, PTL DEF CashSpec

\* Whatever rows are missed, recovered or unreadable, and whatever reports come, the gap and the
\* balance shown are off by what the ledger has wrong and by nothing else (anchoredBalances).
THEOREM CashIsAccountedForSafe == CashSpec => []CashIsAccountedFor
<1>1. CashInv => CashIsAccountedFor
  BY CashTells
<1> QED BY <1>1, CashInvHolds, PTL

-----------------------------------------------------------------------------
(* The parsers.                                                             *)

Histories(trades) ==
    [flex |-> FlexResponse(trades), statement |-> ActivityStatement(trades), agent |-> AgentPayload(trades)]

\* A cell is as it was written, or spoiled where it may be.
Retold(found, written, column) ==
    \/ found = written
    \/ found \in Flaw /\ column # "secType" /\ (column = "id" => IsMissing(found))

RowsRetold(rows, written) ==
    /\ rows = [i \in DOMAIN written |-> rows[i]]
    /\ \A i \in DOMAIN written :
          /\ DOMAIN rows[i] = DOMAIN written[i]
          /\ \A column \in DOMAIN written[i] : Retold(rows[i][column], written[i][column], column)

\* A section is missing, or has all its rows.
Faithful(source, history) ==
    /\ DOMAIN source = DOMAIN history
    /\ \A section \in DOMAIN history :
          \/ section # "Header" /\ source[section] = <<>>
          \/ RowsRetold(source[section], history[section])

Parsed(s) ==
    CASE s = "flex" -> ParseFlexXml(sources[s])
      [] s = "statement" -> ParseActivityStatement(sources[s])
      [] OTHER -> ParseAgentSnapshot(sources[s])

\* What was returned is what the source still says: nothing is spoiled once read.
ToldOf(trades) ==
    /\ DOMAIN sources = Source
    /\ \A s \in Source : Faithful(sources[s], Histories(trades)[s])
    /\ DOMAIN results \subseteq Source
    /\ \A s \in DOMAIN results : results[s] = Parsed(s)

ParsersInv == \E trades \in Trades : ToldOf(trades)

LEMMA SpoilKeeps ==
    ASSUME NEW trades, ToldOf(trades), NEW s \in Source, NEW section \in DOMAIN sources[s], Spoil(s, section)
    PROVE  ToldOf(trades)'
<1>1. PICK i \in DOMAIN sources[s][section] :
      \E column \in DOMAIN sources[s][section][i] \ {"secType"}, flaw \in Flaw :
          /\ column = "id" => IsMissing(flaw)
          /\ sources' = [sources EXCEPT ![s][section][i][column] = flaw]
  BY DEF Spoil
<1>2. PICK column \in DOMAIN sources[s][section][i] \ {"secType"}, flaw \in Flaw :
          /\ column = "id" => IsMissing(flaw)
          /\ sources' = [sources EXCEPT ![s][section][i][column] = flaw]
  BY <1>1
<1>3. s \notin DOMAIN results /\ results' = results
  BY DEF Spoil
<1>4. DOMAIN sources' = Source /\ \A t \in Source \ {s} : sources'[t] = sources[t]
  BY <1>2 DEF ToldOf
<1>5. sources'[s] = [sources[s] EXCEPT ![section][i][column] = flaw]
  BY <1>2 DEF ToldOf
<1> DEFINE history == Histories(trades)[s]
<1>6. Faithful(sources[s], history)
  BY DEF ToldOf
<1> HIDE DEF history
<1>7. DOMAIN sources'[s] = DOMAIN history
  BY <1>5, <1>6 DEF Faithful
<1>8. ASSUME NEW other \in DOMAIN history
      PROVE  \/ other # "Header" /\ sources'[s][other] = <<>>
             \/ RowsRetold(sources'[s][other], history[other])
  <2>1. CASE other # section
    BY <1>5, <1>6, <2>1 DEF Faithful
  <2>2. CASE other = section
    <3>1. RowsRetold(sources[s][section], history[section])
      BY <1>1, <1>6, <2>2 DEF Faithful
    <3> DEFINE rows == sources[s][section]
               told == sources'[s][section]
    <3>2. told = [rows EXCEPT ![i][column] = flaw]
      BY <1>5, <1>6, <2>2 DEF Faithful
    <3> HIDE DEF rows, told
    <3>3. told = [k \in DOMAIN rows |-> told[k]] /\ told[i] = [rows[i] EXCEPT ![column] = flaw]
          /\ \A k \in DOMAIN rows \ {i} : told[k] = rows[k]
      BY <1>1, <3>2 DEF rows
    <3>4. RowsRetold(told, history[section])
      BY <1>2, <3>1, <3>3 DEF rows, RowsRetold, Retold
    <3> QED BY <2>2, <3>4 DEF told
  <2> QED BY <2>1, <2>2
<1>9. Faithful(sources'[s], history)
  BY <1>7, <1>8 DEF Faithful
<1>10. \A t \in Source : Faithful(sources'[t], Histories(trades)[t])
  BY <1>4, <1>9 DEF history, ToldOf
<1>11. \A t \in DOMAIN results : results[t] = Parsed(t)'
  BY <1>3, <1>4 DEF ToldOf, Parsed
<1> QED BY <1>3, <1>4, <1>10, <1>11 DEF ToldOf

LEMMA WithoutKeeps ==
    ASSUME NEW trades, ToldOf(trades), NEW s \in Source, NEW section \in DOMAIN sources[s] \ {"Header"},
           Without(s, section)
    PROVE  ToldOf(trades)'
<1>1. s \notin DOMAIN results /\ results' = results
      /\ sources' = [sources EXCEPT ![s][section] = <<>>]
  BY DEF Without
<1>2. DOMAIN sources' = Source /\ \A t \in Source \ {s} : sources'[t] = sources[t]
  BY <1>1 DEF ToldOf
<1>3. sources'[s] = [sources[s] EXCEPT ![section] = <<>>]
  BY <1>1 DEF ToldOf
<1>4. Faithful(sources'[s], Histories(trades)[s])
  BY <1>3 DEF ToldOf, Faithful
<1>5. \A t \in Source : Faithful(sources'[t], Histories(trades)[t])
  BY <1>2, <1>4 DEF ToldOf
<1>6. \A t \in DOMAIN results : results[t] = Parsed(t)'
  BY <1>1, <1>2 DEF ToldOf, Parsed
<1> QED BY <1>1, <1>2, <1>5, <1>6 DEF ToldOf

LEMMA ParsersInvHolds == ParsersSpec => []ParsersInv
<1>1. ParsersInit => ParsersInv
  <2> SUFFICES ASSUME ParsersInit PROVE ParsersInv
    OBVIOUS
  <2>1. PICK trades \in Trades :
          sources = [flex |-> FlexResponse(trades), statement |-> ActivityStatement(trades),
                     agent |-> AgentPayload(trades)]
    BY DEF ParsersInit
  <2>2. sources = Histories(trades)
    BY <2>1 DEF Histories
  <2>3. DOMAIN sources = Source /\ DOMAIN results = {}
    BY <2>2 DEF ParsersInit, Histories, Source
  <2>4. ASSUME NEW s \in Source, NEW section \in DOMAIN sources[s]
        PROVE  RowsRetold(sources[s][section], sources[s][section])
    <3> DEFINE IsRows(rows) == rows = [i \in DOMAIN rows |-> rows[i]]
    <3>1. \A a : IsRows(<<a>>) 
      OBVIOUS
    <3>2. \A a, b : IsRows(<<a, b>>)
      OBVIOUS
    <3>3. \A t \in {"flex", "statement", "agent"} : \A part \in DOMAIN sources[t] : IsRows(sources[t][part])
      <4>1. \A part \in DOMAIN sources.flex : IsRows(sources.flex[part])
        BY <2>1, <3>1, <3>2 DEF FlexResponse, Rows
      <4>2. \A part \in DOMAIN sources.statement : IsRows(sources.statement[part])
        BY <2>1, <3>1, <3>2 DEF ActivityStatement, Rows
      <4>3. \A part \in DOMAIN sources.agent : IsRows(sources.agent[part])
        BY <2>1, <3>1, <3>2 DEF AgentPayload, Rows
      <4> QED BY <4>1, <4>2, <4>3
    <3>4. sources[s][section] = [i \in DOMAIN sources[s][section] |-> sources[s][section][i]]
      BY <2>4, <3>3 DEF Source
    <3> QED BY <3>4 DEF RowsRetold, Retold
  <2>5. \A s \in Source : Faithful(sources[s], Histories(trades)[s])
    BY <2>2, <2>4 DEF Faithful
  <2> QED BY <2>3, <2>5 DEF ParsersInv, ToldOf
<1>2. ParsersInv /\ [ParsersNext]_parsersVars => ParsersInv'
  <2> SUFFICES ASSUME NEW trades \in Trades, ToldOf(trades), [ParsersNext]_parsersVars
               PROVE  ToldOf(trades)'
    BY DEF ParsersInv
  <2>1. ASSUME NEW s \in Source, Read(s) PROVE ToldOf(trades)'
    <3>1. sources' = sources
          /\ results' = [t \in DOMAIN results \cup {s} |-> IF t = s THEN Parsed(s) ELSE results[t]]
      BY <2>1, Zenon DEF Read, Parsed
    <3>2. \A t : Parsed(t)' = Parsed(t)
      BY <3>1 DEF Parsed
    <3> QED BY <3>1, <3>2 DEF ToldOf
  <2>2. CASE UNCHANGED parsersVars
    BY <2>2 DEF parsersVars, ToldOf, Parsed
  <2> QED BY <2>1, <2>2, SpoilKeeps, WithoutKeeps DEF ParsersNext
<1> QED BY <1>1, <1>2, PTL DEF ParsersSpec

\* A section that is there has the rows that were written, in their places.
LEMMA SectionHasItsRows ==
    ASSUME NEW n \in Nat, NEW written, DOMAIN written = 1..n,
           NEW rows, rows = <<>> \/ RowsRetold(rows, written)
    PROVE  /\ Len(rows) \in Nat /\ DOMAIN rows = 1..Len(rows)
           /\ rows # <<>> => Len(rows) = n /\ RowsRetold(rows, written)
<1>1. CASE rows = <<>>
  BY <1>1
<1>2. CASE RowsRetold(rows, written)
  <2>1. Lists(rows, n)
    BY <1>2 DEF RowsRetold, Lists
  <2>2. Len(rows) = n
    BY <2>1, LengthIs, Zenon
  <2>3. DOMAIN rows = 1..n
    BY <1>2 DEF RowsRetold
  <2> QED BY <1>2, <2>2, <2>3
<1> QED BY <1>1, <1>2

\* The transactions of one section of what was read.
Of(transactions, part) == {t \in transactions : t.section = part}

\* As many transactions as rows, when no two have the same key.
LEMMA OneTransactionEach ==
    ASSUME NEW n \in Nat, NEW f, Lists(f, n),
           \A i, j \in 1..n : i < j => f[i].key # f[j].key
    PROVE  Cardinality({f[i] : i \in 1..n}) = n
<1>1. \A i, j \in 1..n : i < j => f[i] # f[j]
  OBVIOUS
<1> QED BY <1>1, AsManyAsPlaces, Zenon

\* What is owed of a source that was read: the transactions of each section of its history,
\* the positions, the points of its currencies, or a warning.
IsWhole(read, source) ==
    /\ \A part \in History \cap DOMAIN source :
          Cardinality(Of(read.transactions, part)) = Len(source[part]) \/ part \in read.warned
    /\ \/ read.snapshot = DOMAIN source.Positions
       \/ read.snapshot = {} /\ "Positions" \in read.warned
    /\ "CashReport" \in DOMAIN source =>
          \/ read.balances = {1, 2} \/ source.CashReport = <<>>
          \/ read.warned \cap {"Header", "CashReport"} # {}

LEMMA FlexIsWhole ==
    ASSUME NEW trades \in Seq(Execution), NEW flex, Faithful(flex, FlexResponse(trades)), ~FlexThrows(flex)
    PROVE  IsWhole(ParseFlexXml(flex), flex)
<1> DEFINE response == FlexResponse(trades)
           nTrades == Len(flex.Trades)
           trade == [i \in 1..nTrades |->
                       Transaction("Trades", flex.Trades[i].id.n, ParseNumber(flex.Trades[i].quantity),
                                   ParseNumber(flex.Trades[i].proceeds), ParseNumber(flex.Trades[i].commission))]
           nCash == Len(flex.Cash)
           cashed == [i \in 1..nCash |->
                       Transaction("Cash", flex.Cash[i].id.n, {}, ParseNumber(flex.Cash[i].amount), {})]
           nActions == Len(flex.Actions)
           action == [i \in 1..nActions |->
                       Transaction("Actions", flex.Actions[i].id.n, ParseNumber(flex.Actions[i].quantity),
                                   ParseNumber(flex.Actions[i].proceeds), {})]
           one == 1
<1>1. /\ DOMAIN response = {"Header", "Trades", "Cash", "Actions", "Positions", "CashReport"}
      /\ DOMAIN response.Trades = 1..Len(trades) /\ Len(trades) \in Nat
      /\ \A i \in 1..Len(trades) : "id" \in DOMAIN response.Trades[i] /\ response.Trades[i]["id"] = Num(i)
      /\ DOMAIN response.Cash = 1..one /\ DOMAIN response.Actions = 1..one /\ one \in Nat
      /\ DOMAIN response.CashReport = 1..2
  BY DEF FlexResponse, Rows, FlexTrade
<1>2. DOMAIN flex = DOMAIN response
      /\ \A part \in DOMAIN response \ {"Header"} : flex[part] = <<>> \/ RowsRetold(flex[part], response[part])
  BY DEF Faithful
<1> HIDE DEF response, one
<1>3. /\ nTrades \in Nat /\ DOMAIN flex.Trades = 1..nTrades
      /\ flex.Trades # <<>> => nTrades = Len(trades) /\ RowsRetold(flex.Trades, response.Trades)
  BY <1>1, <1>2, SectionHasItsRows
<1>4. /\ nCash \in Nat /\ DOMAIN flex.Cash = 1..nCash
      /\ flex.Cash # <<>> => nCash = one
  BY <1>1, <1>2, SectionHasItsRows
<1>5. /\ nActions \in Nat /\ DOMAIN flex.Actions = 1..nActions
      /\ flex.Actions # <<>> => nActions = one
  BY <1>1, <1>2, SectionHasItsRows
<1>6. Cardinality({trade[i] : i \in 1..nTrades}) = nTrades
  <2>1. \A i \in 1..nTrades : ~IsMissing(flex.Trades[i].id)
    BY <1>3 DEF FlexThrows, SomeRow, FlexTradeThrows
  <2>2. ASSUME NEW i \in 1..nTrades PROVE flex.Trades[i].id = Num(i)
    <3>1. i \in 1..Len(trades) /\ RowsRetold(flex.Trades, response.Trades)
      BY <1>3
    <3>2. Retold(flex.Trades[i]["id"], response.Trades[i]["id"], "id")
      BY <1>1, <3>1 DEF RowsRetold
    <3> QED BY <1>1, <2>1, <3>1, <3>2 DEF Retold
  <2>3. \A i, j \in 1..nTrades : i < j => trade[i].key # trade[j].key
    <3>1. \A i \in 1..nTrades : trade[i].key = flex.Trades[i].id.n
      BY DEF Transaction
    <3>2. \A i \in 1..nTrades : trade[i].key = i
      <4>1. \A i \in 1..nTrades : Num(i).n = i
        BY DEF Num
      <4> HIDE DEF trade, nTrades
      <4> QED BY <2>2, <3>1, <4>1
    <3> HIDE DEF trade, nTrades
    <3> QED BY <3>2
  <2>4. Lists(trade, nTrades)
    BY DEF Lists
  <2> HIDE DEF trade, nTrades
  <2> QED BY <1>3, <2>3, <2>4, OneTransactionEach, Zenon
<1>7. Cardinality({cashed[i] : i \in 1..nCash}) = nCash
  <2>1. \A i, j \in 1..nCash : i < j => cashed[i].key # cashed[j].key
    BY <1>4 DEF one
  <2>2. Lists(cashed, nCash)
    BY DEF Lists
  <2> HIDE DEF cashed, nCash
  <2> QED BY <1>4, <2>1, <2>2, OneTransactionEach, Zenon
<1>8. Cardinality({action[i] : i \in 1..nActions}) = nActions
  <2>1. \A i, j \in 1..nActions : i < j => action[i].key # action[j].key
    BY <1>5 DEF one
  <2>2. Lists(action, nActions)
    BY DEF Lists
  <2> HIDE DEF action, nActions
  <2> QED BY <1>5, <2>1, <2>2, OneTransactionEach, Zenon
<1>9. FlexTransactions(flex) = {trade[i] : i \in 1..nTrades} \cup {cashed[i] : i \in 1..nCash}
                               \cup {action[i] : i \in 1..nActions}
  BY <1>3, <1>4, <1>5 DEF FlexTransactions
<1>10. /\ \A i \in 1..nTrades : trade[i].section = "Trades"
       /\ \A i \in 1..nCash : cashed[i].section = "Cash"
       /\ \A i \in 1..nActions : action[i].section = "Actions"
  BY DEF Transaction
<1> HIDE DEF trade, cashed, action
<1>11. /\ Of(FlexTransactions(flex), "Trades") = {trade[i] : i \in 1..nTrades}
       /\ Of(FlexTransactions(flex), "Cash") = {cashed[i] : i \in 1..nCash}
       /\ Of(FlexTransactions(flex), "Actions") = {action[i] : i \in 1..nActions}
  BY <1>9, <1>10 DEF Of
<1>12. \A part \in History : Cardinality(Of(FlexTransactions(flex), part)) = Len(flex[part])
  BY <1>6, <1>7, <1>8, <1>11 DEF History
<1>13. \/ ParseSnapshot(flex) = DOMAIN flex.Positions
       \/ ParseSnapshot(flex) = {} /\ "Positions" \in FlexWarned(flex)
  BY DEF ParseSnapshot, WholeSnapshot, FlexWarned, Warned
<1>14. \/ FlexBalances(flex) = {1, 2} \/ flex.CashReport = <<>>
       \/ FlexWarned(flex) \cap {"Header", "CashReport"} # {}
  <2> DEFINE undated == IsMissing(flex.Header[1].fromDate) \/ IsMissing(flex.Header[1].toDate)
  <2>1. CASE undated
    BY <2>1 DEF FlexWarned, Warned
  <2>2. CASE ~undated /\ FlexBalances(flex) # DOMAIN flex.CashReport
    <3>1. "CashReport" \in FlexWarned(flex)
      BY <2>2 DEF FlexWarned, Warned
    <3> QED BY <3>1
  <2>3. CASE FlexBalances(flex) = DOMAIN flex.CashReport /\ flex.CashReport # <<>>
    <3>1. flex.CashReport = [i \in 1..2 |-> flex.CashReport[i]]
      BY <1>1, <1>2, <2>3 DEF RowsRetold
    <3>2. DOMAIN flex.CashReport = {1, 2}
      BY <3>1
    <3> QED BY <2>3, <3>2
  <2> QED BY <2>1, <2>2, <2>3
<1>15. ParseFlexXml(flex) = Result(FlexTransactions(flex), ParseSnapshot(flex), FlexBalances(flex), FlexWarned(flex))
  BY DEF ParseFlexXml
<1> HIDE DEF nTrades, nCash, nActions
<1> QED BY <1>12, <1>13, <1>14, <1>15 DEF IsWhole, Result

\* Rows alike have keys of their own: each counts those alike up to its place.
LEMMA TwinsDiffer ==
    ASSUME NEW n \in Nat, NEW contents, DOMAIN contents = 1..n
    PROVE  /\ DOMAIN SuffixTwins(contents) = 1..n
           /\ \A i, j \in 1..n : i < j => SuffixTwins(contents)[i] # SuffixTwins(contents)[j]
<1> DEFINE alike(i) == {k \in 1..n : k <= i /\ contents[k] = contents[i]}
<1>1. \A i \in 1..n : SuffixTwins(contents)[i] = <<contents[i], Cardinality(alike(i))>>
  BY DEF SuffixTwins
<1>2. ASSUME NEW i \in 1..n, NEW j \in 1..n, i < j, contents[i] = contents[j]
      PROVE  Cardinality(alike(i)) # Cardinality(alike(j))
  <2>1. alike(i) \in SUBSET alike(j) /\ j \in alike(j) /\ j \notin alike(i)
    BY <1>2
  <2>2. IsFiniteSet(alike(j))
    BY FS_Interval, FS_Subset
  <2> HIDE DEF alike
  <2>3. Cardinality(alike(i)) = Cardinality(alike(j)) => alike(i) = alike(j)
    BY <2>1, <2>2, FS_Subset
  <2> QED BY <2>1, <2>3
<1> HIDE DEF alike
<1>3. ASSUME NEW i \in 1..n, NEW j \in 1..n, i < j
      PROVE  SuffixTwins(contents)[i] # SuffixTwins(contents)[j]
  <2>1. CASE contents[i] = contents[j]
    BY <1>1, <1>2, <1>3, <2>1
  <2>2. CASE contents[i] # contents[j]
    BY <1>1, <2>2
  <2> QED BY <2>1, <2>2
<1>4. DOMAIN SuffixTwins(contents) = 1..n
  BY DEF SuffixTwins
<1> QED BY <1>3, <1>4

LEMMA StatementIsWhole ==
    ASSUME NEW trades \in Seq(Execution), NEW statement, Faithful(statement, ActivityStatement(trades)),
           ~StatementThrows(statement)
    PROVE  IsWhole(ParseActivityStatement(statement), statement)
<1> DEFINE written == ActivityStatement(trades)
           nTrades == Len(statement.Trades)
           keys == SuffixTwins([i \in DOMAIN statement.Trades |-> ContentOf(statement.Trades[i], TradeFigures)])
           trade == [i \in 1..nTrades |->
                       Transaction("Trades", keys[i], ParseNumber(statement.Trades[i].quantity),
                                   ParseNumber(statement.Trades[i].proceeds),
                                   ParseNumber(statement.Trades[i].commission))]
           cash == ReadSection(statement.Cash)
           nCash == Len(statement.Cash)
           cashKeys == SuffixTwins([i \in DOMAIN cash |-> ContentOf(cash[i], {"amount"})])
           cashed == [i \in DOMAIN cash |-> Transaction("Cash", cashKeys[i], {}, ParseNumber(cash[i].amount), {})]
           actions == ReadSection(statement.Actions)
           nActions == Len(statement.Actions)
           actionKeys == SuffixTwins([i \in DOMAIN actions |-> ContentOf(actions[i], {"quantity", "amount"})])
           action == [i \in DOMAIN actions |->
                       Transaction("Actions", actionKeys[i], ParseNumber(actions[i].quantity),
                                   ParseNumber(actions[i].amount), {})]
           one == 1
<1>1. /\ DOMAIN written = {"Header", "Trades", "Cash", "Actions", "Positions", "CashReport"}
      /\ DOMAIN written.Trades = 1..Len(trades) /\ Len(trades) \in Nat
      /\ DOMAIN written.Cash = 1..one /\ DOMAIN written.Actions = 1..one /\ one \in Nat
  BY DEF ActivityStatement, Rows
<1>2. /\ DOMAIN statement = DOMAIN written
      /\ \A part \in DOMAIN written \ {"Header"} :
            statement[part] = <<>> \/ RowsRetold(statement[part], written[part])
  BY DEF Faithful
<1> HIDE DEF written, one
<1>3. nTrades \in Nat /\ DOMAIN statement.Trades = 1..nTrades
  BY <1>1, <1>2, SectionHasItsRows
<1>4. nCash \in Nat /\ DOMAIN statement.Cash = 1..nCash
  BY <1>1, <1>2, SectionHasItsRows
<1>5. nActions \in Nat /\ DOMAIN statement.Actions = 1..nActions
  BY <1>1, <1>2, SectionHasItsRows
<1>6. Cardinality({trade[i] : i \in 1..nTrades}) = nTrades
  <2>1. \A i \in 1..nTrades : trade[i].key = keys[i]
    BY DEF Transaction
  <2>2. \A i, j \in 1..nTrades : i < j => keys[i] # keys[j]
    BY <1>3, TwinsDiffer
  <2>3. Lists(trade, nTrades)
    BY DEF Lists
  <2> HIDE DEF trade, nTrades, keys
  <2>4. \A i, j \in 1..nTrades : i < j => trade[i].key # trade[j].key
    BY <2>1, <2>2
  <2> QED BY <1>3, <2>3, <2>4, OneTransactionEach, Zenon
<1>7. ASSUME ~Skipped(statement.Cash)
      PROVE  Cardinality({cashed[i] : i \in DOMAIN cash}) = nCash
  <2>1. DOMAIN cash = 1..nCash
    BY <1>4, <1>7 DEF ReadSection, Skipped
  <2>2. \A i \in 1..nCash : cashed[i].key = cashKeys[i]
    BY <2>1 DEF Transaction
  <2>3. \A i, j \in 1..nCash : i < j => cashKeys[i] # cashKeys[j]
    BY <1>4, <2>1, TwinsDiffer
  <2>4. Lists(cashed, nCash)
    BY <2>1 DEF Lists
  <2> HIDE DEF cashed, nCash, cashKeys, cash
  <2>5. \A i, j \in 1..nCash : i < j => cashed[i].key # cashed[j].key
    BY <2>2, <2>3
  <2>6. Cardinality({cashed[i] : i \in 1..nCash}) = nCash
    BY <1>4, <2>4, <2>5, OneTransactionEach, Zenon
  <2> QED BY <2>1, <2>6
<1>8. ASSUME ~Skipped(statement.Actions)
      PROVE  Cardinality({action[i] : i \in DOMAIN actions}) = nActions
  <2>1. DOMAIN actions = 1..nActions
    BY <1>5, <1>8 DEF ReadSection, Skipped
  <2>2. \A i \in 1..nActions : action[i].key = actionKeys[i]
    BY <2>1 DEF Transaction
  <2>3. \A i, j \in 1..nActions : i < j => actionKeys[i] # actionKeys[j]
    BY <1>5, <2>1, TwinsDiffer
  <2>4. Lists(action, nActions)
    BY <2>1 DEF Lists
  <2> HIDE DEF action, nActions, actionKeys, actions
  <2>5. \A i, j \in 1..nActions : i < j => action[i].key # action[j].key
    BY <2>2, <2>3
  <2>6. Cardinality({action[i] : i \in 1..nActions}) = nActions
    BY <1>5, <2>4, <2>5, OneTransactionEach, Zenon
  <2> QED BY <2>1, <2>6
<1>9. StatementTransactions(statement) =
         {trade[i] : i \in 1..nTrades} \cup {cashed[i] : i \in DOMAIN cash} \cup {action[i] : i \in DOMAIN actions}
  BY <1>3 DEF StatementTransactions
<1>10. /\ \A i \in 1..nTrades : trade[i].section = "Trades"
       /\ \A i \in DOMAIN cash : cashed[i].section = "Cash"
       /\ \A i \in DOMAIN actions : action[i].section = "Actions"
  BY DEF Transaction
<1> HIDE DEF trade, cashed, action, cash, actions
<1>11. /\ Of(StatementTransactions(statement), "Trades") = {trade[i] : i \in 1..nTrades}
       /\ Of(StatementTransactions(statement), "Cash") = {cashed[i] : i \in DOMAIN cash}
       /\ Of(StatementTransactions(statement), "Actions") = {action[i] : i \in DOMAIN actions}
  BY <1>9, <1>10 DEF Of
<1>12. \A part \in History : \/ Cardinality(Of(StatementTransactions(statement), part)) = Len(statement[part])
                             \/ part \in StatementWarned(statement)
  <2>1. Skipped(statement.Cash) => "Cash" \in StatementWarned(statement)
    BY DEF StatementWarned, Warned
  <2>2. Skipped(statement.Actions) => "Actions" \in StatementWarned(statement)
    BY DEF StatementWarned, Warned
  <2> QED BY <1>6, <1>7, <1>8, <1>11, <2>1, <2>2 DEF History
<1>13. \/ ParseOpenPositions(statement) = DOMAIN statement.Positions
       \/ ParseOpenPositions(statement) = {} /\ "Positions" \in StatementWarned(statement)
  BY DEF ParseOpenPositions, WholeSnapshot, StatementWarned, Warned
<1>14. \/ StatementBalances(statement) = {1, 2} \/ statement.CashReport = <<>>
       \/ StatementWarned(statement) \cap {"Header", "CashReport"} # {}
  <2>1. 1..2 = {1, 2}
    OBVIOUS
  <2>2. statement.CashReport # <<>> /\ StatementBalances(statement) # 1..2 => "CashReport" \in StatementWarned(statement)
    BY DEF StatementWarned, Warned
  <2> QED BY <2>1, <2>2
<1>15. ParseActivityStatement(statement) =
         Result(StatementTransactions(statement), ParseOpenPositions(statement), StatementBalances(statement),
                StatementWarned(statement))
  BY DEF ParseActivityStatement
<1> HIDE DEF nTrades, nCash, nActions
<1> QED BY <1>12, <1>13, <1>14, <1>15 DEF IsWhole, Result

LEMMA AgentIsWhole ==
    ASSUME NEW trades \in Seq(Execution), NEW payload, Faithful(payload, AgentPayload(trades)),
           ParseAgentSnapshot(payload) # Cancelled
    PROVE  IsWhole(ParseAgentSnapshot(payload), payload)
<1> DEFINE written == AgentPayload(trades)
           nTrades == Len(payload.Trades)
           trade == [i \in 1..nTrades |-> ReadExecution(payload.Trades[i])]
           warned == UNION {Warned(part, \E i \in DOMAIN payload[part] : MultiplierRead(payload[part][i]) = {}) :
                              part \in {"Trades", "Positions"}}
           all == {ReadExecution(payload.Trades[i]) : i \in DOMAIN payload.Trades}
<1>1. /\ DOMAIN written = {"Header", "Trades", "Positions"}
      /\ DOMAIN written.Trades = 1..Len(trades) /\ Len(trades) \in Nat
      /\ \A i \in 1..Len(trades) : "id" \in DOMAIN written.Trades[i] /\ written.Trades[i]["id"] = Num(i)
  BY DEF AgentPayload, Rows, AgentTrade
<1>2. /\ DOMAIN payload = DOMAIN written
      /\ payload.Trades = <<>> \/ RowsRetold(payload.Trades, written.Trades)
  BY <1>1 DEF Faithful
<1> HIDE DEF written
<1>3. /\ nTrades \in Nat /\ DOMAIN payload.Trades = 1..nTrades
      /\ payload.Trades # <<>> => nTrades = Len(trades) /\ RowsRetold(payload.Trades, written.Trades)
  BY <1>1, <1>2, SectionHasItsRows
<1>4. /\ ~SomeRow(payload.Trades, AgentTradeThrows)
      /\ ParseAgentSnapshot(payload) = Result(all, DOMAIN payload.Positions, {}, warned)
  BY DEF ParseAgentSnapshot
<1> HIDE DEF warned
<1>5. Cardinality({trade[i] : i \in 1..nTrades}) = nTrades
  <2>1. \A i \in 1..nTrades : payload.Trades[i].id.text = "number"
    BY <1>3, <1>4 DEF SomeRow, AgentTradeThrows
  <2>2. ASSUME NEW i \in 1..nTrades PROVE payload.Trades[i].id = Num(i)
    <3>1. i \in 1..Len(trades) /\ RowsRetold(payload.Trades, written.Trades)
      BY <1>3
    <3>2. Retold(payload.Trades[i]["id"], written.Trades[i]["id"], "id")
      BY <1>1, <3>1 DEF RowsRetold
    <3> QED BY <1>1, <2>1, <3>1, <3>2 DEF Retold, Flaw
  <2>3. \A i \in 1..nTrades : trade[i].key = payload.Trades[i].id.n /\ Num(i).n = i
    BY DEF ReadExecution, Transaction, Num
  <2>4. Lists(trade, nTrades)
    BY DEF Lists
  <2> HIDE DEF trade, nTrades
  <2>5. \A i, j \in 1..nTrades : i < j => trade[i].key # trade[j].key
    BY <2>2, <2>3
  <2> QED BY <1>3, <2>4, <2>5, OneTransactionEach, Zenon
<1>6. all = {trade[i] : i \in 1..nTrades}
  BY <1>3
<1>7. \A i \in 1..nTrades : trade[i].section = "Trades"
  BY DEF ReadExecution, Transaction
<1> HIDE DEF trade, all
<1>8. Of({trade[i] : i \in 1..nTrades}, "Trades") = {trade[i] : i \in 1..nTrades}
  BY <1>7 DEF Of
<1>9. History \cap DOMAIN payload = {"Trades"} /\ "CashReport" \notin DOMAIN payload
  BY <1>1, <1>2 DEF History
<1>10. Cardinality(Of({trade[i] : i \in 1..nTrades}, "Trades")) = Len(payload.Trades)
  BY <1>5, <1>8
<1> HIDE DEF nTrades
<1> DEFINE read == ParseAgentSnapshot(payload)
<1>11. read.transactions = all /\ read.snapshot = DOMAIN payload.Positions
  BY <1>4 DEF Result
<1> HIDE DEF read
<1>12. IsWhole(read, payload)
  BY <1>6, <1>9, <1>10, <1>11 DEF IsWhole
<1> QED BY <1>12 DEF read

\* Every source that was read is whole or says what it leaves out, for any history and any
\* number of cells and sections spoiled.
THEOREM WholeOrAnnouncedSafe == ParsersSpec => []WholeOrAnnounced
<1>1. ParsersInv => WholeOrAnnounced
  <2> SUFFICES ASSUME NEW trades \in Trades, ToldOf(trades), NEW s \in DOMAIN results, results[s] # Cancelled
               PROVE  LET read == results[s]
                          source == sources[s]
                      IN  /\ \A section \in History \cap DOMAIN source :
                                \/ Cardinality(Written(s, section)) = Len(source[section])
                                \/ section \in read.warned
                          /\ \/ read.snapshot = DOMAIN source.Positions
                             \/ read.snapshot = {} /\ "Positions" \in read.warned
                          /\ s # "agent" => \/ read.balances = {1, 2} \/ source.CashReport = <<>>
                                            \/ read.warned \cap {"Header", "CashReport"} # {}
    BY DEF ParsersInv, WholeOrAnnounced
  <2>1. /\ trades \in Seq(Execution) /\ s \in Source /\ results[s] = Parsed(s)
        /\ Faithful(sources[s], Histories(trades)[s])
    BY ParsersAssumption DEF ToldOf
  <2>2. IsWhole(results[s], sources[s]) /\ (s # "agent" => "CashReport" \in DOMAIN sources[s])
    <3>1. CASE s = "flex"
      <4>1. Histories(trades)[s] = FlexResponse(trades) /\ Parsed(s) = ParseFlexXml(sources[s])
        BY <3>1 DEF Histories, Parsed
      <4>2. ~FlexThrows(sources[s])
        BY <2>1, <4>1 DEF ParseFlexXml
      <4>3. "CashReport" \in DOMAIN FlexResponse(trades)
        BY DEF FlexResponse
      <4> QED BY <2>1, <4>1, <4>2, <4>3, FlexIsWhole DEF Faithful
    <3>2. CASE s = "statement"
      <4>1. Histories(trades)[s] = ActivityStatement(trades) /\ Parsed(s) = ParseActivityStatement(sources[s])
        BY <3>2 DEF Histories, Parsed
      <4>2. ~StatementThrows(sources[s])
        BY <2>1, <4>1 DEF ParseActivityStatement
      <4>3. "CashReport" \in DOMAIN ActivityStatement(trades)
        BY DEF ActivityStatement
      <4> QED BY <2>1, <4>1, <4>2, <4>3, StatementIsWhole DEF Faithful
    <3>3. CASE s = "agent"
      <4>1. Histories(trades)[s] = AgentPayload(trades) /\ Parsed(s) = ParseAgentSnapshot(sources[s])
        BY <3>3 DEF Histories, Parsed
      <4> QED BY <2>1, <3>3, <4>1, AgentIsWhole
    <3> QED BY <2>1, <3>1, <3>2, <3>3 DEF Source
  <2>3. \A section : Written(s, section) = Of(results[s].transactions, section)
    BY DEF Written, Of
  <2> QED BY <2>2, <2>3 DEF IsWhole
<1> QED BY <1>1, ParsersInvHolds, PTL

\* What is known of a trade is what it was.
Tells(t, e) ==
    /\ t.quantity \in {{}, {e.side * e.shares}}
    /\ t.amount \in {{}, {-e.side * e.shares * e.price * MultiplierOf(e)}}
    /\ t.commission \in {{}, {-e.fee}}

\* The trades read tell those of the history, and all of them where the section is there.
TellsHistory(read, rows, trades) ==
    /\ \A t \in Of(read.transactions, "Trades") : \E i \in DOMAIN trades : Tells(t, trades[i])
    /\ rows # <<>> => \A i \in DOMAIN trades : \E t \in Of(read.transactions, "Trades") : Tells(t, trades[i])

LEMMA TellersMatch ==
    ASSUME NEW e, NEW t, Tells(t, e), NEW u, Tells(u, e) PROVE Matches(t, u)
  BY DEF Tells, Matches, Agree

\* A number that was not spoiled has its value, another has none.
LEMMA RetoldNumber ==
    ASSUME NEW found, NEW n, NEW column, Retold(found, Num(n), column)
    PROVE  ParseNumber(found) \in {{}, {n}} /\ (found.text = "number" => found.n = n)
<1>1. CASE found = Num(n)
  BY <1>1 DEF ParseNumber, Num
<1>2. CASE found \in Flaw
  BY <1>2 DEF ParseNumber, Flaw
<1> QED BY <1>1, <1>2 DEF Retold

LEMMA FlexTellsHistory ==
    ASSUME NEW trades \in Seq(Execution), NEW flex, Faithful(flex, FlexResponse(trades)), ~FlexThrows(flex)
    PROVE  TellsHistory(ParseFlexXml(flex), flex.Trades, trades)
<1> DEFINE rows == flex.Trades
           written == FlexResponse(trades).Trades
           said(i) == Transaction("Trades", rows[i].id.n, ParseNumber(rows[i].quantity),
                                  ParseNumber(rows[i].proceeds), ParseNumber(rows[i].commission))
           read == ParseFlexXml(flex)
<1>1. rows = <<>> \/ RowsRetold(rows, written)
  BY DEF Faithful, FlexResponse
<1>2. DOMAIN written = DOMAIN trades /\ \A i \in DOMAIN trades : written[i] = FlexTrade(i, trades[i])
  BY DEF FlexResponse, Rows
<1>3. read.transactions = FlexTransactions(flex)
  BY DEF ParseFlexXml, Result
<1>4. Of(FlexTransactions(flex), "Trades") = {said(i) : i \in DOMAIN rows}
  <2>1. \A t \in FlexTransactions(flex) : t.section = "Trades" => \E i \in DOMAIN rows : t = said(i)
    BY DEF FlexTransactions, Transaction
  <2>2. \A i \in DOMAIN rows : said(i) \in FlexTransactions(flex) /\ said(i).section = "Trades"
    BY DEF FlexTransactions, Transaction
  <2> HIDE DEF rows, said
  <2> QED BY <2>1, <2>2 DEF Of
<1> HIDE DEF rows, written
<1>5. ASSUME rows # <<>>, NEW i \in DOMAIN trades
      PROVE  Tells(said(i), trades[i])
  <2>1. /\ DOMAIN rows[i] = DOMAIN FlexTrade(i, trades[i])
        /\ \A column \in DOMAIN FlexTrade(i, trades[i]) : Retold(rows[i][column], FlexTrade(i, trades[i])[column], column)
    BY <1>1, <1>2, <1>5 DEF RowsRetold
  <2>2. Retold(rows[i].quantity, Num(trades[i].side * trades[i].shares), "quantity")
    BY <2>1 DEF FlexTrade
  <2>3. Retold(rows[i].proceeds,
               Num(-trades[i].side * trades[i].shares * trades[i].price * MultiplierOf(trades[i])), "proceeds")
    BY <2>1 DEF FlexTrade
  <2>4. Retold(rows[i].commission, Num(-trades[i].fee), "commission")
    BY <2>1 DEF FlexTrade
  <2>5. /\ ParseNumber(rows[i].quantity) \in {{}, {trades[i].side * trades[i].shares}}
        /\ ParseNumber(rows[i].proceeds) \in
              {{}, {-trades[i].side * trades[i].shares * trades[i].price * MultiplierOf(trades[i])}}
        /\ ParseNumber(rows[i].commission) \in {{}, {-trades[i].fee}}
    BY <2>2, <2>3, <2>4, RetoldNumber, Zenon
  <2> QED BY <2>5 DEF Tells, Transaction
<1> HIDE DEF said, read
<1>6. DOMAIN rows = IF rows = <<>> THEN {} ELSE DOMAIN trades
  BY <1>1, <1>2 DEF RowsRetold
<1>7. TellsHistory(read, rows, trades)
  BY <1>3, <1>4, <1>5, <1>6 DEF TellsHistory
<1> QED BY <1>7 DEF read, rows

LEMMA StatementTellsHistory ==
    ASSUME NEW trades \in Seq(Execution), NEW statement, Faithful(statement, ActivityStatement(trades)),
           ~StatementThrows(statement)
    PROVE  TellsHistory(ParseActivityStatement(statement), statement.Trades, trades)
<1> DEFINE rows == statement.Trades
           written == ActivityStatement(trades).Trades
           keys == SuffixTwins([i \in DOMAIN rows |-> ContentOf(rows[i], TradeFigures)])
           said(i) == Transaction("Trades", keys[i], ParseNumber(rows[i].quantity),
                                  ParseNumber(rows[i].proceeds), ParseNumber(rows[i].commission))
           read == ParseActivityStatement(statement)
<1>1. rows = <<>> \/ RowsRetold(rows, written)
  BY DEF Faithful, ActivityStatement
<1>2. DOMAIN written = DOMAIN trades /\ \A i \in DOMAIN trades : written[i] = StatementTrade(i, trades[i])
  BY DEF ActivityStatement, Rows
<1>3. read.transactions = StatementTransactions(statement)
  BY DEF ParseActivityStatement, Result
<1> HIDE DEF keys
<1>4. Of(StatementTransactions(statement), "Trades") = {said(i) : i \in DOMAIN rows}
  <2> DEFINE cash == ReadSection(statement.Cash)
             cashKeys == SuffixTwins([i \in DOMAIN cash |-> ContentOf(cash[i], {"amount"})])
             actions == ReadSection(statement.Actions)
             actionKeys == SuffixTwins([i \in DOMAIN actions |-> ContentOf(actions[i], {"quantity", "amount"})])
             trade == {said(i) : i \in DOMAIN rows}
             cashed == {Transaction("Cash", cashKeys[i], {}, ParseNumber(cash[i].amount), {}) : i \in DOMAIN cash}
             action == {Transaction("Actions", actionKeys[i], ParseNumber(actions[i].quantity),
                                    ParseNumber(actions[i].amount), {}) : i \in DOMAIN actions}
  <2>1. StatementTransactions(statement) = trade \cup cashed \cup action
    BY DEF StatementTransactions, keys
  <2>2. /\ \A t \in trade : t.section = "Trades"
        /\ \A t \in cashed : t.section = "Cash"
        /\ \A t \in action : t.section = "Actions"
    <3> HIDE DEF rows, cash, actions, cashKeys, actionKeys
    <3> QED BY DEF Transaction
  <2> HIDE DEF trade, cashed, action
  <2>3. Of(StatementTransactions(statement), "Trades") = trade
    BY <2>1, <2>2 DEF Of
  <2> QED BY <2>3 DEF trade
<1> HIDE DEF rows, written
<1>5. ASSUME rows # <<>>, NEW i \in DOMAIN trades
      PROVE  Tells(said(i), trades[i])
  <2>1. /\ DOMAIN rows[i] = DOMAIN StatementTrade(i, trades[i])
        /\ \A column \in DOMAIN StatementTrade(i, trades[i]) :
              Retold(rows[i][column], StatementTrade(i, trades[i])[column], column)
    BY <1>1, <1>2, <1>5 DEF RowsRetold
  <2>2. Retold(rows[i].quantity, Num(trades[i].side * trades[i].shares), "quantity")
    BY <2>1 DEF StatementTrade
  <2>3. Retold(rows[i].proceeds,
               Num(-trades[i].side * trades[i].shares * trades[i].price * MultiplierOf(trades[i])), "proceeds")
    BY <2>1 DEF StatementTrade
  <2>4. Retold(rows[i].commission, Num(-trades[i].fee), "commission")
    BY <2>1 DEF StatementTrade
  <2>5. /\ ParseNumber(rows[i].quantity) \in {{}, {trades[i].side * trades[i].shares}}
        /\ ParseNumber(rows[i].proceeds) \in
              {{}, {-trades[i].side * trades[i].shares * trades[i].price * MultiplierOf(trades[i])}}
        /\ ParseNumber(rows[i].commission) \in {{}, {-trades[i].fee}}
    BY <2>2, <2>3, <2>4, RetoldNumber, Zenon
  <2> QED BY <2>5 DEF Tells, Transaction
<1> HIDE DEF said, read
<1>6. DOMAIN rows = IF rows = <<>> THEN {} ELSE DOMAIN trades
  BY <1>1, <1>2 DEF RowsRetold
<1>7. TellsHistory(read, rows, trades)
  BY <1>3, <1>4, <1>5, <1>6 DEF TellsHistory
<1> QED BY <1>7 DEF read, rows

LEMMA AgentTellsHistory ==
    ASSUME NEW trades \in Seq(Execution), NEW payload, Faithful(payload, AgentPayload(trades)),
           ParseAgentSnapshot(payload) # Cancelled
    PROVE  TellsHistory(ParseAgentSnapshot(payload), payload.Trades, trades)
<1> DEFINE rows == payload.Trades
           written == AgentPayload(trades).Trades
           said(i) == ReadExecution(rows[i])
           all == {ReadExecution(rows[i]) : i \in DOMAIN rows}
           read == ParseAgentSnapshot(payload)
<1>1. rows = <<>> \/ RowsRetold(rows, written)
  BY DEF Faithful, AgentPayload
<1>2. DOMAIN written = DOMAIN trades /\ \A i \in DOMAIN trades : written[i] = AgentTrade(i, trades[i])
  BY DEF AgentPayload, Rows
<1>3. read.transactions = all /\ ~SomeRow(rows, AgentTradeThrows)
  BY DEF ParseAgentSnapshot, Result
<1>4. Of(all, "Trades") = {said(i) : i \in DOMAIN rows}
  <2>1. \A i \in DOMAIN rows : said(i).section = "Trades"
    BY DEF ReadExecution, Transaction
  <2> HIDE DEF rows, said
  <2>2. all = {said(i) : i \in DOMAIN rows}
    BY DEF said
  <2> QED BY <2>1, <2>2 DEF Of
<1> HIDE DEF rows, written, all
<1>5. ASSUME rows # <<>>, NEW i \in DOMAIN trades
      PROVE  Tells(said(i), trades[i])
  <2> DEFINE e == trades[i]
             row == rows[i]
  <2>1. /\ DOMAIN row = DOMAIN AgentTrade(i, e)
        /\ \A column \in DOMAIN AgentTrade(i, e) : Retold(row[column], AgentTrade(i, e)[column], column)
    BY <1>1, <1>2, <1>5 DEF RowsRetold
  <2>2. /\ Retold(row.side, Num(e.side), "side") /\ Retold(row.shares, Num(e.shares), "shares")
        /\ Retold(row.price, Num(e.price), "price") /\ Retold(row.commission, Num(e.fee), "commission")
        /\ Retold(row.secType, Num(IF e.option THEN 1 ELSE 0), "secType")
        /\ e.option => Retold(row.multiplier, Num(OptionMultiplier), "multiplier")
    BY <2>1 DEF AgentTrade
  <2>3. i \in DOMAIN rows
    BY <1>1, <1>2, <1>5 DEF RowsRetold
  <2>4. row.side.text = "number" /\ row.shares.text = "number" /\ row.price.text = "number"
    BY <1>3, <2>3 DEF SomeRow, AgentTradeThrows
  <2> HIDE DEF e, row
  <2>5. row.side.n = e.side /\ row.shares.n = e.shares /\ row.price.n = e.price
    BY <2>2, <2>4, RetoldNumber, Zenon
  <2>6. row.secType.n = IF e.option THEN 1 ELSE 0
    BY <2>2 DEF Retold, Num
  <2>7. MultiplierRead(row) \in {{}, {MultiplierOf(e)}}
    <3>1. CASE e.option
      <4>1. ParseNumber(row.multiplier) \in {{}, {OptionMultiplier}}
        BY <2>2, <3>1, RetoldNumber, Zenon
      <4> QED BY <2>6, <3>1, <4>1 DEF MultiplierRead, MultiplierOf
    <3>2. CASE ~e.option
      BY <2>6, <3>2 DEF MultiplierRead, MultiplierOf
    <3> QED BY <3>1, <3>2
  <2>8. ParseNumber(row.commission) \in {{}, {e.fee}}
    BY <2>2, RetoldNumber, Zenon
  <2>9. {-fee : fee \in ParseNumber(row.commission)} \in {{}, {-e.fee}}
    BY <2>8
  <2> DEFINE gross(multiplier) == -(row.side.n * row.shares.n) * row.price.n * multiplier
  <2>10. {gross(multiplier) : multiplier \in MultiplierRead(row)} \in {{}, {gross(MultiplierOf(e))}}
    <3> HIDE DEF gross
    <3> QED BY <2>7
  <2>11. gross(MultiplierOf(e)) = -e.side * e.shares * e.price * MultiplierOf(e)
    BY <2>5
  <2>12. said(i).quantity = {e.side * e.shares}
    BY <2>5 DEF ReadExecution, Transaction, row
  <2>13. said(i).amount = {gross(multiplier) : multiplier \in MultiplierRead(row)}
    BY DEF ReadExecution, Transaction, row
  <2>14. said(i).commission = {-fee : fee \in ParseNumber(row.commission)}
    BY DEF ReadExecution, Transaction, row
  <2> HIDE DEF said, gross
  <2>15. Tells(said(i), e)
    BY <2>9, <2>10, <2>11, <2>12, <2>13, <2>14 DEF Tells
  <2> QED BY <2>15 DEF e
<1> HIDE DEF said, read
<1>6. DOMAIN rows = IF rows = <<>> THEN {} ELSE DOMAIN trades
  BY <1>1, <1>2 DEF RowsRetold
<1>7. TellsHistory(read, rows, trades)
  BY <1>3, <1>4, <1>5, <1>6 DEF TellsHistory
<1> QED BY <1>7 DEF read, rows

\* The three sources tell the same of every trade, for any history and any flaws.
THEOREM SourcesAgreeSafe == ParsersSpec => []SourcesAgree
<1>1. ParsersInv => SourcesAgree
  <2> SUFFICES ASSUME NEW trades \in Trades, ToldOf(trades), NEW s \in DOMAIN results, NEW t \in DOMAIN results,
                      results[t] # Cancelled, sources[t].Trades # <<>>, NEW trade \in Written(s, "Trades")
               PROVE  \E other \in Written(t, "Trades") : Matches(trade, other)
    BY DEF ParsersInv, SourcesAgree
  <2>1. \A a \in DOMAIN results :
           /\ trades \in Seq(Execution) /\ a \in Source /\ results[a] = Parsed(a)
           /\ Faithful(sources[a], Histories(trades)[a])
    BY ParsersAssumption DEF ToldOf
  <2>2. ASSUME NEW a \in DOMAIN results, results[a] # Cancelled
        PROVE  TellsHistory(results[a], sources[a].Trades, trades)
    <3>1. CASE a = "flex"
      <4>1. Histories(trades)[a] = FlexResponse(trades) /\ Parsed(a) = ParseFlexXml(sources[a])
        BY <3>1 DEF Histories, Parsed
      <4>2. ~FlexThrows(sources[a])
        BY <2>1, <2>2, <4>1 DEF ParseFlexXml
      <4> QED BY <2>1, <4>1, <4>2, FlexTellsHistory
    <3>2. CASE a = "statement"
      <4>1. Histories(trades)[a] = ActivityStatement(trades) /\ Parsed(a) = ParseActivityStatement(sources[a])
        BY <3>2 DEF Histories, Parsed
      <4>2. ~StatementThrows(sources[a])
        BY <2>1, <2>2, <4>1 DEF ParseActivityStatement
      <4> QED BY <2>1, <4>1, <4>2, StatementTellsHistory
    <3>3. CASE a = "agent"
      <4>1. Histories(trades)[a] = AgentPayload(trades) /\ Parsed(a) = ParseAgentSnapshot(sources[a])
        BY <3>3 DEF Histories, Parsed
      <4> QED BY <2>1, <2>2, <4>1, AgentTellsHistory
    <3> QED BY <2>1, <3>1, <3>2, <3>3 DEF Source
  <2>3. Written(s, "Trades") = Of(results[s].transactions, "Trades")
        /\ Written(t, "Trades") = Of(results[t].transactions, "Trades")
    BY DEF Written, Of
  <2>4. results[s] # Cancelled
    BY <2>3 DEF Cancelled, Of
  <2>5. PICK i \in DOMAIN trades : Tells(trade, trades[i])
    BY <2>2, <2>3, <2>4 DEF TellsHistory
  <2>6. PICK other \in Written(t, "Trades") : Tells(other, trades[i])
    BY <2>2, <2>3 DEF TellsHistory
  <2> QED BY <2>5, <2>6, TellersMatch
<1> QED BY <1>1, ParsersInvHolds, PTL

-----------------------------------------------------------------------------
(***************************************************************************)
(* The timeline of the history, for any rows in any months.                *)
(***************************************************************************)

\* The rows of the table, newest first.
Descends(rows) ==
    /\ rows \in Seq(Nat)
    /\ \A i, j \in DOMAIN rows : i <= j => rows[i] >= rows[j]

\* The members of a set of numbers, each at its place.
Places(S, n) ==
    /\ n \in Nat
    /\ \A k \in 1..n : At(S, k) \in S
    /\ \A k, l \in 1..n : k < l => At(S, k) < At(S, l)
    /\ \A s \in S : \E k \in 1..n : At(S, k) = s

LEMMA EachHasItsPlace ==
    ASSUME NEW S, S \subseteq Nat, IsFiniteSet(S)
    PROVE  Places(S, Cardinality(S))
<1> DEFINE below == [i \in S |-> {j \in S : j < i}]
           n == Cardinality(S)
<1>1. TotalOrder(S, below)
  <2>1. \A i \in S : i \in Nat /\ below[i] = {j \in S : j < i}
    OBVIOUS
  <2>2. below \in [S -> SUBSET S]
    OBVIOUS
  <2> HIDE DEF below
  <2>3. \A i, j \in S : i \in below[j] <=> i < j
    BY <2>1
  <2>4. \A i \in S : i \notin below[i]
    BY <2>1, <2>3
  <2>5. \A i, j \in S : i # j => i \in below[j] \/ j \in below[i]
    BY <2>1, <2>3
  <2>6. \A i, j \in S : i \in below[j] => below[i] \subseteq below[j]
    <3> SUFFICES ASSUME NEW i \in S, NEW j \in S, i \in below[j], NEW k \in below[i] PROVE k \in below[j]
      OBVIOUS
    <3>1. k \in S /\ k < i /\ i < j
      BY <2>1
    <3>2. k \in Nat /\ i \in Nat /\ j \in Nat
      BY <2>1, <3>1
    <3> QED BY <2>3, <3>1, <3>2
  <2> QED BY <2>2, <2>4, <2>5, <2>6 DEF TotalOrder
<1>2. /\ n \in Nat
      /\ \A i \in S : Cardinality(below[i]) \in 0..(n - 1)
      /\ \A i, j \in S : Cardinality(below[i]) < Cardinality(below[j]) => i \in below[j]
      /\ \A c \in 0..(n - 1) : \E i \in S : Cardinality(below[i]) = c
      /\ \A i, j \in S : Cardinality(below[i]) = Cardinality(below[j]) => i = j
  <2> HIDE DEF below
  <2> QED BY <1>1, PlacesAreTaken, ZenonT(40)
<1>3. \A i \in S : below[i] = {j \in S : j < i}
  OBVIOUS
<1> HIDE DEF below
<1>4. ASSUME NEW k \in 1..n PROVE At(S, k) \in S /\ Cardinality(below[At(S, k)]) = k - 1
  <2>1. k - 1 \in 0..(n - 1)
    BY <1>2
  <2>2. \E i \in S : Cardinality({j \in S : j < i}) = k - 1
    BY <1>2, <1>3, <2>1
  <2>3. At(S, k) \in S /\ Cardinality({j \in S : j < At(S, k)}) = k - 1
    BY <2>2, Zenon DEF At
  <2> QED BY <1>3, <2>3
<1>5. ASSUME NEW k \in 1..n, NEW l \in 1..n, k < l PROVE At(S, k) < At(S, l)
  <2>1. At(S, k) \in S /\ At(S, l) \in S
    BY <1>4
  <2>2. Cardinality(below[At(S, k)]) < Cardinality(below[At(S, l)])
    BY <1>2, <1>4, <1>5
  <2>3. At(S, k) \in below[At(S, l)]
    BY <1>2, <2>1, <2>2
  <2> QED BY <1>3, <2>1, <2>3
<1>6. ASSUME NEW s \in S PROVE \E k \in 1..n : At(S, k) = s
  <2>1. Cardinality(below[s]) \in 0..(n - 1)
    BY <1>2
  <2> DEFINE k == Cardinality(below[s]) + 1
  <2>2. k \in 1..n /\ k - 1 = Cardinality(below[s])
    BY <1>2, <2>1
  <2> HIDE DEF k
  <2>3. At(S, k) \in S /\ Cardinality(below[At(S, k)]) = Cardinality(below[s])
    BY <1>4, <2>2
  <2>4. At(S, k) = s
    BY <1>2, <2>3
  <2> QED BY <2>2, <2>4
<1>7. n \in Nat
  BY <1>2
<1> QED BY <1>4, <1>5, <1>6, <1>7 DEF Places

\* What buildTimeline gives of such rows.
TimelineOf(timeline, n, rows) ==
    /\ n \in Nat /\ DOMAIN timeline = 1..n /\ Len(timeline) = n
    /\ \A k \in 1..n :
          /\ timeline[k].start \in 0..(Len(rows) - 1)
          /\ timeline[k].month = rows[timeline[k].start + 1] /\ timeline[k].month \in Nat
    /\ \A k, l \in 1..n : k < l =>
          timeline[k].start < timeline[l].start /\ timeline[k].month > timeline[l].month
    /\ \A i \in DOMAIN rows : \E k \in 1..n : timeline[k].start < i /\ timeline[k].month = rows[i]

\* A row is of the month of the last start at or before it.
LEMMA StartOfItsMonth ==
    ASSUME NEW rows, Descends(rows), NEW i \in DOMAIN rows
    PROVE  \E s \in MonthStarts(rows) : s <= i /\ rows[s] = rows[i]
<1>1. DOMAIN rows = 1..Len(rows) /\ Len(rows) \in Nat
  BY LenProperties DEF Descends
<1> DEFINE same == {j \in 1..i : rows[j] = rows[i]}
<1>2. same \subseteq Nat /\ same # {}
  BY <1>1
<1>3. PICK s \in same : \A k \in same : s <= k
  BY <1>2, FirstOf
<1>4. s \in MonthStarts(rows)
  <2>1. s \in DOMAIN rows
    BY <1>1, <1>3
  <2>2. s # 1 => s - 1 \in 1..i /\ s - 1 \notin same
    BY <1>1, <1>3
  <2> QED BY <2>1, <2>2, <1>3 DEF MonthStarts
<1> QED BY <1>3, <1>4

LEMMA TimelineIs ==
    ASSUME NEW rows, Descends(rows)
    PROVE  \E n : TimelineOf(BuildTimeline(rows), n, rows)
<1> DEFINE S == MonthStarts(rows)
           n == Cardinality(S)
           T == BuildTimeline(rows)
<1>1. DOMAIN rows = 1..Len(rows) /\ Len(rows) \in Nat /\ \A i \in 1..Len(rows) : rows[i] \in Nat
  BY LenProperties, ElementOfSeq DEF Descends
<1>2. S \subseteq 1..Len(rows) /\ S \subseteq Nat
  BY <1>1 DEF MonthStarts
<1>3. IsFiniteSet(S)
  <2>1. IsFiniteSet(1..Len(rows))
    BY <1>1, FS_Interval
  <2>2. S \in SUBSET (1..Len(rows))
    BY <1>2
  <2> QED BY <2>1, <2>2, FS_Subset
<1>4. Places(S, n)
  BY <1>2, <1>3, EachHasItsPlace
<1>5. T = [k \in 1..n |-> [month |-> rows[At(S, k)], start |-> At(S, k) - 1]]
  BY Zenon DEF BuildTimeline
<1>6. \A s, t \in S : s < t => rows[s] > rows[t]
  <2> SUFFICES ASSUME NEW s \in S, NEW t \in S, s < t PROVE rows[s] > rows[t]
    OBVIOUS
  <2>1. s \in 1..Len(rows) /\ t \in 1..Len(rows) /\ t - 1 \in 1..Len(rows) /\ s <= t - 1 /\ t - 1 <= t
    BY <1>1, <1>2
  <2>2. rows[t - 1] # rows[t]
    BY <2>1 DEF MonthStarts
  <2>3. rows[s] >= rows[t - 1] /\ rows[t - 1] >= rows[t]
    BY <1>1, <2>1 DEF Descends
  <2>4. rows[s] \in Nat /\ rows[t - 1] \in Nat /\ rows[t] \in Nat
    BY <1>1, <2>1
  <2> QED BY <2>2, <2>3, <2>4
<1> HIDE DEF S, n, T
<1>7. n \in Nat /\ DOMAIN T = 1..n
  BY <1>4, <1>5 DEF Places
<1>8. Len(T) = n
  <2>1. Lists(T, n)
    BY <1>5, Zenon DEF Lists
  <2> QED BY <1>7, <2>1, LengthIs
<1>9. \A k \in 1..n : T[k].start = At(S, k) - 1 /\ T[k].month = rows[At(S, k)] /\ At(S, k) \in S
  BY <1>4, <1>5 DEF Places
<1>10. ASSUME NEW k \in 1..n
       PROVE  /\ T[k].start \in 0..(Len(rows) - 1)
              /\ T[k].month = rows[T[k].start + 1] /\ T[k].month \in Nat
  <2>1. At(S, k) \in 1..Len(rows)
    BY <1>2, <1>9
  <2>2. At(S, k) - 1 \in 0..(Len(rows) - 1) /\ (At(S, k) - 1) + 1 = At(S, k)
    BY <1>1, <2>1
  <2> QED BY <1>1, <1>9, <2>1, <2>2
<1>11. ASSUME NEW k \in 1..n, NEW l \in 1..n, k < l
       PROVE  T[k].start < T[l].start /\ T[k].month > T[l].month
  <2>1. At(S, k) \in S /\ At(S, l) \in S /\ At(S, k) < At(S, l)
    BY <1>4, <1>11 DEF Places
  <2>2. At(S, k) \in Nat /\ At(S, l) \in Nat
    BY <1>2, <2>1
  <2>3. rows[At(S, k)] > rows[At(S, l)]
    BY <1>6, <2>1
  <2> QED BY <1>9, <2>1, <2>2, <2>3
<1>12. ASSUME NEW i \in DOMAIN rows
       PROVE  \E k \in 1..n : T[k].start < i /\ T[k].month = rows[i]
  <2>1. PICK s \in S : s <= i /\ rows[s] = rows[i]
    BY StartOfItsMonth DEF S
  <2>2. PICK k \in 1..n : At(S, k) = s
    BY <1>4 DEF Places
  <2>3. s \in Nat /\ i \in Nat
    BY <1>1, <1>2
  <2> QED BY <1>9, <2>1, <2>2, <2>3
<1> QED BY <1>7, <1>8, <1>10, <1>11, <1>12 DEF TimelineOf, T

-----------------------------------------------------------------------------
(* The bisection finds the month of a row.                                  *)

\* The last month that starts at or before a row.
IsMonthOf(timeline, n, r, cur) ==
    /\ cur \in 0..n
    /\ cur # 0 => timeline[cur].start <= r
    /\ \A k \in (cur + 1)..n : timeline[k].start > r

LEMMA ThereIsAMonth ==
    ASSUME NEW rows, NEW T, NEW n, TimelineOf(T, n, rows), NEW r \in Int
    PROVE  \E cur : IsMonthOf(T, n, r, cur)
<1> DEFINE begun == {k \in 0..n : k = 0 \/ T[k].start <= r}
<1>1. n \in Nat /\ \A k \in 1..n : T[k].start \in Int
  BY DEF TimelineOf
<1>2. begun \subseteq Nat /\ begun # {} /\ \A k \in begun : k <= n
  BY <1>1
<1>3. PICK cur \in begun : \A k \in begun : k <= cur
  BY <1>1, <1>2, LastOf
<1>4. \A k \in (cur + 1)..n : T[k].start > r
  <2> SUFFICES ASSUME NEW k \in (cur + 1)..n, ~(T[k].start > r) PROVE FALSE
    OBVIOUS
  <2>1. k \in 1..n /\ ~(k <= cur) /\ T[k].start \in Int
    BY <1>1, <1>3
  <2>2. k \in begun
    BY <1>1, <2>1
  <2> QED BY <1>3, <2>1, <2>2
<1> QED BY <1>3, <1>4 DEF IsMonthOf

LEMMA BisectionFinds ==
    ASSUME NEW rows, NEW T, NEW n, TimelineOf(T, n, rows), NEW r \in Int, NEW cur, IsMonthOf(T, n, r, cur)
    PROVE  MonthIndexAt(T, r) = cur
<1> DEFINE places == (1..(n + 1)) \X (0..n)
           clamped(low, high) ==
               IF low > high THEN high ELSE IF cur < low - 1 THEN low - 1 ELSE IF cur > high THEN high ELSE cur
           found == [span \in places |-> clamped(span[1], span[2])]
           search == CHOOSE f : f = [span \in places |->
               IF span[1] > span[2] THEN span[2]
               ELSE IF T[(span[1] + span[2]) \div 2].start <= r THEN f[<<(span[1] + span[2]) \div 2 + 1, span[2]>>]
                    ELSE f[<<span[1], (span[1] + span[2]) \div 2 - 1>>]]
<1>1. n \in Nat /\ Len(T) = n /\ \A k \in 1..n : T[k].start \in Int
  BY DEF TimelineOf
<1>2. \A k \in 1..n : T[k].start <= r <=> k <= cur
  <2> SUFFICES ASSUME NEW k \in 1..n PROVE T[k].start <= r <=> k <= cur
    OBVIOUS
  <2>1. CASE k > cur
    BY <1>1, <2>1 DEF IsMonthOf
  <2>2. CASE k = cur
    BY <1>1, <2>2 DEF IsMonthOf
  <2>3. CASE k < cur
    <3>1. cur \in 1..n /\ T[cur].start <= r
      BY <1>1, <2>3 DEF IsMonthOf
    <3>2. T[k].start < T[cur].start
      BY <2>3, <3>1 DEF TimelineOf
    <3> QED BY <1>1, <2>3, <3>1, <3>2
  <2> QED BY <1>1, <2>1, <2>2, <2>3 DEF IsMonthOf
<1>3. \A low \in 1..(n + 1), high \in 0..n :
         found[<<low, high>>] = IF low > high THEN high
             ELSE IF T[(low + high) \div 2].start <= r THEN found[<<(low + high) \div 2 + 1, high>>]
                  ELSE found[<<low, (low + high) \div 2 - 1>>]
  <2>0. \A low \in 1..(n + 1), high \in 0..n : found[<<low, high>>] = clamped(low, high)
    OBVIOUS
  <2> HIDE DEF found
  <2> TAKE low \in 1..(n + 1), high \in 0..n
  <2>1. CASE low > high
    BY <2>0, <2>1
  <2>2. CASE low <= high
    <3> DEFINE middle == (low + high) \div 2
    <3>1. middle \in 1..n /\ low <= middle /\ middle <= high
      BY <1>1, <2>2
    <3> HIDE DEF middle
    <3>2. middle + 1 \in 1..(n + 1) /\ middle - 1 \in 0..n
      BY <1>1, <3>1
    <3>3. /\ found[<<low, high>>] = clamped(low, high)
          /\ found[<<middle + 1, high>>] = clamped(middle + 1, high)
          /\ found[<<low, middle - 1>>] = clamped(low, middle - 1)
      BY <2>0, <3>2
    <3>4. T[middle].start <= r <=> middle <= cur
      BY <1>2, <3>1
    <3>5. cur \in Nat
      BY <1>1 DEF IsMonthOf
    <3>6. found[<<low, high>>] = IF T[middle].start <= r THEN found[<<middle + 1, high>>] ELSE found[<<low, middle - 1>>]
      BY <1>1, <2>2, <3>1, <3>2, <3>3, <3>4, <3>5
    <3> QED BY <2>2, <3>6 DEF middle
  <2>3. low > high \/ low <= high
    BY <1>1
  <2> QED BY <2>1, <2>2, <2>3
<1>4. found = [span \in places |->
                  IF span[1] > span[2] THEN span[2]
                  ELSE IF T[(span[1] + span[2]) \div 2].start <= r THEN found[<<(span[1] + span[2]) \div 2 + 1, span[2]>>]
                       ELSE found[<<span[1], (span[1] + span[2]) \div 2 - 1>>]]
  BY <1>3
<1>5. search = [span \in places |->
                   IF span[1] > span[2] THEN span[2]
                   ELSE IF T[(span[1] + span[2]) \div 2].start <= r THEN search[<<(span[1] + span[2]) \div 2 + 1, span[2]>>]
                        ELSE search[<<span[1], (span[1] + span[2]) \div 2 - 1>>]]
  BY <1>4
<1>6. MonthIndexAt(T, r) = search[<<1, n>>]
  BY <1>1 DEF MonthIndexAt
<1> HIDE DEF search, found
<1>7. \A d \in Nat : \A low \in 1..(n + 1), high \in 0..n :
         low <= high /\ d = high - low => search[<<low, high>>] = clamped(low, high)
  <2> DEFINE wrong == {d \in Nat : \E low \in 1..(n + 1), high \in 0..n :
                          low <= high /\ d = high - low /\ search[<<low, high>>] # clamped(low, high)}
  <2> SUFFICES ASSUME wrong # {} PROVE FALSE
    OBVIOUS
  <2>1. wrong \subseteq Nat
    OBVIOUS
  <2>2. PICK d \in wrong : \A e \in wrong : d <= e
    BY <2>1, FirstOf
  <2>3. PICK low \in 1..(n + 1), high \in 0..n :
           low <= high /\ d = high - low /\ search[<<low, high>>] # clamped(low, high)
    BY <2>2
  <2> DEFINE middle == (low + high) \div 2
  <2>4. middle \in 1..n /\ low <= middle /\ middle <= high
    BY <1>1, <2>3
  <2>5. search[<<low, high>>] = IF T[middle].start <= r THEN search[<<middle + 1, high>>] ELSE search[<<low, middle - 1>>]
    BY <1>5, <2>3
  <2> HIDE DEF middle
  <2>6. middle + 1 \in 1..(n + 1) /\ middle - 1 \in 0..n
    BY <1>1, <2>4
  <2>7. search[<<middle + 1, high>>] = clamped(middle + 1, high)
    <3>1. CASE middle + 1 > high
      BY <1>5, <2>6, <3>1
    <3>2. CASE middle + 1 <= high
      <4>1. high - (middle + 1) \in Nat /\ ~(d <= high - (middle + 1))
        BY <2>3, <2>4, <2>6, <3>2
      <4>2. high - (middle + 1) \notin wrong
        BY <2>2, <4>1
      <4> QED BY <2>6, <3>2, <4>1, <4>2
    <3> QED BY <2>4, <3>1, <3>2
  <2>8. search[<<low, middle - 1>>] = clamped(low, middle - 1)
    <3>1. CASE low > middle - 1
      BY <1>5, <2>6, <3>1
    <3>2. CASE low <= middle - 1
      <4>1. (middle - 1) - low \in Nat /\ ~(d <= (middle - 1) - low)
        BY <2>3, <2>4, <2>6, <3>2
      <4>2. (middle - 1) - low \notin wrong
        BY <2>2, <4>1
      <4> QED BY <2>6, <3>2, <4>1, <4>2
    <3> QED BY <2>4, <3>1, <3>2
  <2>9. T[middle].start <= r <=> middle <= cur
    BY <1>2, <2>4
  <2> HIDE DEF wrong
  <2>10. cur \in Nat
    BY <1>1 DEF IsMonthOf
  <2> QED BY <1>1, <2>3, <2>4, <2>5, <2>7, <2>8, <2>9, <2>10
<1>8. search[<<1, n>>] = clamped(1, n)
  <2>1. 1 \in 1..(n + 1) /\ n \in 0..n
    BY <1>1
  <2>2. CASE n = 0
    BY <1>1, <1>5, <2>1, <2>2
  <2>3. CASE n # 0
    <3>1. n - 1 \in Nat /\ 1 <= n
      BY <1>1, <2>3
    <3> QED BY <1>7, <2>1, <3>1
  <2> QED BY <2>2, <2>3
<1>9. cur \in 0..n
  BY DEF IsMonthOf
<1> QED BY <1>1, <1>6, <1>8, <1>9

-----------------------------------------------------------------------------
(* Where the keys land.                                                     *)

LEMMA MinIs ==
    ASSUME NEW S, S \subseteq Nat, S # {}
    PROVE  Min(S) \in S /\ \A x \in S : Min(S) <= x
<1>1. \E m \in S : \A x \in S : m <= x
  BY FirstOf
<1> QED BY <1>1, Zenon DEF Min

LEMMA MaxIs ==
    ASSUME NEW S, S \subseteq Nat, S # {}, NEW n \in Nat, \A x \in S : x <= n
    PROVE  Max(S) \in S /\ \A x \in S : Max(S) >= x
<1>1. PICK m \in S : \A x \in S : x <= m
  BY LastOf
<1>2. \A x \in S : m >= x
  BY <1>1
<1> QED BY <1>2, Zenon DEF Max

\* A month's first row is where its run starts.
LEMMA FirstRowOfAMonth ==
    ASSUME Descends(months), NEW T, NEW n, TimelineOf(T, n, months), NEW k \in 1..n
    PROVE  Min({i \in DOMAIN months : months[i] = T[k].month}) - 1 = T[k].start
<1> DEFINE its == {i \in DOMAIN months : months[i] = T[k].month}
           first == T[k].start + 1
<1>1. DOMAIN months = 1..Len(months) /\ Len(months) \in Nat
  BY LenProperties DEF Descends
<1>2. first \in its /\ first - 1 = T[k].start /\ first \in Nat
  BY <1>1 DEF TimelineOf
<1>3. ASSUME NEW i \in its PROVE first <= i
  <2>1. PICK l \in 1..n : T[l].start < i /\ T[l].month = T[k].month
    BY DEF TimelineOf
  <2>2. T[l].month \in Nat /\ T[k].month \in Nat /\ T[l].start \in Nat
    BY DEF TimelineOf
  <2>3. ~(l < k) /\ ~(k < l)
    BY <2>1, <2>2 DEF TimelineOf
  <2>4. l = k
    BY <2>3 DEF TimelineOf
  <2> QED BY <1>1, <2>1, <2>2, <2>4
<1>4. its \subseteq Nat /\ its # {}
  BY <1>1, <1>2
<1> HIDE DEF its, first
<1>5. Min(its) \in its /\ \A x \in its : Min(its) <= x
  BY <1>4, MinIs
<1>6. Min(its) = first
  <2>1. Min(its) \in Nat /\ Min(its) <= first /\ first <= Min(its)
    BY <1>2, <1>3, <1>4, <1>5
  <2> QED BY <1>2, <2>1
<1> QED BY <1>2, <1>6 DEF its

\* Of some months of the timeline, the newest is the first, the oldest the last.
LEMMA NewestAndOldest ==
    ASSUME Descends(months), NEW T, NEW n, TimelineOf(T, n, months),
           NEW K, K \subseteq 1..n, K # {}, NEW which, which = {T[k].month : k \in K}, NEW otherwise
    PROVE  /\ Min(K) \in K /\ \A k \in K : Min(K) <= k
           /\ Max(K) \in K /\ \A k \in K : Max(K) >= k
           /\ FirstOfNewest(which, otherwise) = T[Min(K)].start
           /\ FirstOfOldest(which, otherwise) = T[Max(K)].start
<1>1. n \in Nat /\ \A k \in 1..n : T[k].month \in Nat
  BY DEF TimelineOf
<1>2. K \subseteq Nat /\ \A k \in K : k <= n
  BY <1>1
<1>3. Min(K) \in K /\ \A k \in K : Min(K) <= k
  BY <1>2, MinIs
<1>4. Max(K) \in K /\ \A k \in K : Max(K) >= k
  BY <1>1, <1>2, MaxIs
<1>5. \A k, l \in K : k <= l => T[k].month >= T[l].month
  <2> SUFFICES ASSUME NEW k \in K, NEW l \in K, k <= l PROVE T[k].month >= T[l].month
    OBVIOUS
  <2>1. T[k].month \in Nat /\ T[l].month \in Nat /\ k \in 1..n /\ l \in 1..n
    BY <1>1
  <2>2. CASE k = l
    BY <2>1, <2>2
  <2>3. CASE k < l
    <3>1. T[k].month > T[l].month
      BY <2>1, <2>3 DEF TimelineOf
    <3> QED BY <2>1, <3>1
  <2>4. k \in Nat /\ l \in Nat
    BY <1>2
  <2> QED BY <2>2, <2>3, <2>4
<1>6. which \subseteq Nat /\ which # {} /\ \A m \in which : m \in Nat
  BY <1>1
<1>7. T[Min(K)].month \in which /\ \A m \in which : T[Min(K)].month >= m
  BY <1>3, <1>5
<1>8. T[Max(K)].month \in which /\ \A m \in which : T[Max(K)].month <= m
  <2>1. T[Max(K)].month \in which
    BY <1>4
  <2>2. ASSUME NEW k \in K PROVE T[Max(K)].month <= T[k].month
    <3>1. k <= Max(K) /\ T[k].month >= T[Max(K)].month
      BY <1>2, <1>4, <1>5
    <3> QED BY <1>1, <1>4, <3>1
  <2> QED BY <2>1, <2>2
<1>9. Max(which) = T[Min(K)].month
  <2>1. T[Min(K)].month \in Nat
    BY <1>6, <1>7
  <2>2. Max(which) \in which /\ \A x \in which : Max(which) >= x
    <3>1. \A x \in which : x <= T[Min(K)].month
      BY <1>6, <1>7, <2>1
    <3> QED BY <1>6, <2>1, <3>1, MaxIs
  <2> QED BY <1>6, <1>7, <2>2
<1>10. Min(which) = T[Max(K)].month
  <2>1. Min(which) \in which /\ \A x \in which : Min(which) <= x
    BY <1>6, MinIs
  <2>2. Min(which) <= T[Max(K)].month /\ T[Max(K)].month <= Min(which)
    BY <1>8, <2>1
  <2>3. Min(which) \in Nat /\ T[Max(K)].month \in Nat
    BY <1>6, <1>8, <2>1
  <2> QED BY <2>2, <2>3
<1>11. Min({i \in DOMAIN months : months[i] = T[Min(K)].month}) - 1 = T[Min(K)].start
  BY <1>3, FirstRowOfAMonth
<1>12. Min({i \in DOMAIN months : months[i] = T[Max(K)].month}) - 1 = T[Max(K)].start
  BY <1>4, FirstRowOfAMonth
<1>13. FirstOfNewest(which, otherwise) = T[Min(K)].start
  BY <1>6, <1>9, <1>11 DEF FirstOfNewest
<1>14. FirstOfOldest(which, otherwise) = T[Max(K)].start
  BY <1>6, <1>10, <1>12 DEF FirstOfOldest
<1> QED BY <1>3, <1>4, <1>13, <1>14

\* The months present are those of the timeline.
LEMMA PresentMonths ==
    ASSUME Descends(months), NEW T, NEW n, TimelineOf(T, n, months)
    PROVE  ToSet(months) = {T[k].month : k \in 1..n}
<1>1. DOMAIN months = 1..Len(months) /\ Len(months) \in Nat
  BY LenProperties DEF Descends
<1>2. ToSet(months) = {months[i] : i \in DOMAIN months}
  BY DEF ToSet
<1>3. \A i \in DOMAIN months : \E k \in 1..n : T[k].month = months[i]
  BY DEF TimelineOf
<1>4. \A k \in 1..n : T[k].start + 1 \in DOMAIN months /\ T[k].month = months[T[k].start + 1]
  BY <1>1 DEF TimelineOf
<1> QED BY <1>2, <1>3, <1>4

TimelineInv ==
    /\ Descends(months)
    /\ firstVisible \in Nat
    /\ IF months = <<>> THEN firstVisible = 0 ELSE firstVisible < Len(months)
    /\ pointerRow \in Int /\ dragging \in BOOLEAN

\* What each key does, told over the months of the timeline.
KeysWalk(T, n, cur) ==
    LET older == {k \in (cur + 1)..n : T[k].month <= T[cur].month - 12}
        newer == {k \in 1..(cur - 1) : T[k].month >= T[cur].month + 12}
        to(step) == StepTarget(T, Len(months), firstVisible, step)
    IN  /\ cur \in 1..n /\ T[cur].start <= firstVisible /\ T[cur].month = MonthOf(firstVisible)
        /\ to("first") = 0 /\ to("last") \in Int
        /\ to("nextMonth") = IF cur < n THEN T[cur + 1].start ELSE firstVisible
        /\ to("previousMonth") =
              IF firstVisible > T[cur].start THEN T[cur].start ELSE IF cur > 1 THEN T[cur - 1].start ELSE 0
        /\ to("nextYear") = T[IF older = {} THEN n ELSE Min(older)].start
        /\ to("previousYear") = IF newer = {} THEN 0 ELSE T[Max(newer)].start

LEMMA KeysAre ==
    ASSUME TimelineInv, months # <<>>, NEW T, NEW n, TimelineOf(T, n, months)
    PROVE  \E cur : KeysWalk(T, n, cur)
<1>1. DOMAIN months = 1..Len(months) /\ Len(months) \in Nat
  BY LenProperties DEF TimelineInv, Descends
<1>2. firstVisible \in Int /\ firstVisible \in Nat /\ firstVisible < Len(months)
  BY DEF TimelineInv
<1>3. PICK cur : IsMonthOf(T, n, firstVisible, cur)
  BY <1>2, ThereIsAMonth
<1>4. MonthIndexAt(T, firstVisible) = cur
  BY <1>2, <1>3, BisectionFinds
<1>5. PICK own \in 1..n : T[own].start < firstVisible + 1 /\ T[own].month = months[firstVisible + 1]
  <2>1. firstVisible + 1 \in DOMAIN months
    BY <1>1, <1>2
  <2> QED BY <2>1 DEF TimelineOf
<1>6. n \in Nat /\ Len(T) = n /\ \A k \in 1..n : T[k].start \in Nat /\ T[k].month \in Nat
  BY DEF TimelineOf
<1>7. cur \in 1..n /\ own <= cur /\ T[cur].start <= firstVisible
  <2>1. ~(own \in (cur + 1)..n)
    BY <1>2, <1>3, <1>5, <1>6 DEF IsMonthOf
  <2> QED BY <1>3, <1>5, <1>6, <2>1 DEF IsMonthOf
<1>8. T[cur].month = MonthOf(firstVisible)
  <2>1. T[cur].start + 1 \in DOMAIN months /\ firstVisible + 1 \in DOMAIN months /\ T[cur].start + 1 <= firstVisible + 1
    BY <1>1, <1>2, <1>6, <1>7
  <2>2. months[T[cur].start + 1] >= months[firstVisible + 1]
    BY <2>1 DEF TimelineInv, Descends
  <2>3. T[cur].month >= T[own].month
    BY <1>5, <1>7, <2>2 DEF TimelineOf
  <2>4. own < cur => T[own].month > T[cur].month
    BY <1>7 DEF TimelineOf
  <2>5. own = cur
    BY <1>5, <1>6, <1>7, <2>3, <2>4
  <2> QED BY <1>5, <2>5 DEF MonthOf
<1>9. cur # 0
  BY <1>7
<1>10. Larger(0, Len(months) - 1) \in Int
  BY <1>1 DEF Larger
<1> QED BY <1>4, <1>6, <1>7, <1>8, <1>9, <1>10 DEF KeysWalk, StepTarget

\* The keys of a month walk the calendar.
LEMMA MonthKeysWalk ==
    ASSUME TimelineInv, months # <<>>, NEW T, NEW n, TimelineOf(T, n, months), NEW cur, KeysWalk(T, n, cur)
    PROVE  LET to(step) == StepTarget(T, Len(months), firstVisible, step)
               here == MonthOf(firstVisible)
               present == ToSet(months)
           IN  /\ to("nextMonth") = FirstOfNewest({m \in present : m < here}, firstVisible)
               /\ to("previousMonth") =
                     LET start == FirstOfNewest({here}, 0)
                     IN  IF firstVisible > start THEN start
                         ELSE FirstOfOldest({m \in present : m > here}, 0)
<1> DEFINE here == MonthOf(firstVisible)
           present == ToSet(months)
           older == {m \in present : m < here}
           newer == {m \in present : m > here}
<1>1. n \in Nat /\ \A k \in 1..n : T[k].start \in Nat /\ T[k].month \in Nat
  BY DEF TimelineOf
<1>2. cur \in 1..n /\ T[cur].start <= firstVisible /\ T[cur].month = here
  BY DEF KeysWalk
<1>3. present = {T[k].month : k \in 1..n} /\ Descends(months)
  BY PresentMonths DEF TimelineInv
<1>4. \A k \in 1..n : (T[k].month < here <=> k > cur) /\ (T[k].month > here <=> k < cur)
  <2> SUFFICES ASSUME NEW k \in 1..n
               PROVE  (T[k].month < here <=> k > cur) /\ (T[k].month > here <=> k < cur)
    OBVIOUS
  <2>1. k < cur => T[k].month > T[cur].month
    BY <1>2 DEF TimelineOf
  <2>2. cur < k => T[cur].month > T[k].month
    BY <1>2 DEF TimelineOf
  <2>3. T[k].month \in Nat /\ T[cur].month \in Nat /\ cur \in Nat
    BY <1>1, <1>2
  <2> QED BY <1>2, <2>1, <2>2, <2>3
<1> HIDE DEF here, present
<1>5. older = {T[k].month : k \in (cur + 1)..n}
  <2>1. \A k \in 1..n : k > cur <=> k \in (cur + 1)..n
    BY <1>1, <1>2
  <2>2. (cur + 1)..n \subseteq 1..n
    BY <1>1, <1>2
  <2> QED BY <1>3, <1>4, <2>1, <2>2
<1>6. newer = {T[k].month : k \in 1..(cur - 1)}
  <2>1. \A k \in 1..n : k < cur <=> k \in 1..(cur - 1)
    BY <1>1, <1>2
  <2>2. 1..(cur - 1) \subseteq 1..n
    BY <1>1, <1>2
  <2> QED BY <1>3, <1>4, <2>1, <2>2
<1>7. FirstOfNewest(older, firstVisible) = IF cur < n THEN T[cur + 1].start ELSE firstVisible
  <2> DEFINE K == (cur + 1)..n
  <2>1. CASE cur < n
    <3>1. K \subseteq 1..n /\ cur + 1 \in K /\ (\A k \in K : cur + 1 <= k) /\ older = {T[k].month : k \in K}
      BY <1>1, <1>2, <1>5, <2>1
    <3> HIDE DEF K, older
    <3>2. Min(K) \in K /\ (\A k \in K : Min(K) <= k) /\ FirstOfNewest(older, firstVisible) = T[Min(K)].start
      BY <1>3, <3>1, NewestAndOldest, Zenon
    <3>3. Min(K) <= cur + 1 /\ cur + 1 <= Min(K) /\ Min(K) \in 1..n /\ cur + 1 \in 1..n
      BY <3>1, <3>2
    <3>4. Min(K) = cur + 1
      BY <1>1, <3>3
    <3> QED BY <2>1, <3>2, <3>4
  <2>2. CASE ~(cur < n)
    <3>1. K = {}
      BY <1>1, <1>2, <2>2
    <3>2. older = {}
      BY <1>5, <3>1
    <3> HIDE DEF older
    <3> QED BY <2>2, <3>2 DEF FirstOfNewest
  <2> QED BY <2>1, <2>2
<1>8. FirstOfNewest({here}, 0) = T[cur].start
  <2> DEFINE K == {cur}
             which == {T[k].month : k \in K}
  <2>1. K \subseteq 1..n /\ K # {} /\ which = {here}
    BY <1>2
  <2>2. Min(K) = cur
    <3>1. Min(K) \in K
      <4>1. K \subseteq Nat /\ K # {}
        BY <1>1, <1>2
      <4> HIDE DEF K
      <4> QED BY <4>1, MinIs
    <3> QED BY <3>1
  <2> HIDE DEF K
  <2>3. FirstOfNewest(which, 0) = T[Min(K)].start
    BY <1>3, <2>1, NewestAndOldest, ZenonT(30)
  <2> QED BY <2>1, <2>2, <2>3
<1>9. FirstOfOldest(newer, 0) = IF cur > 1 THEN T[cur - 1].start ELSE 0
  <2> DEFINE K == 1..(cur - 1)
  <2>1. CASE cur > 1
    <3>1. K \subseteq 1..n /\ cur - 1 \in K /\ (\A k \in K : k <= cur - 1) /\ newer = {T[k].month : k \in K}
      BY <1>1, <1>2, <1>6, <2>1
    <3> HIDE DEF K, newer
    <3>2. Max(K) \in K /\ (\A k \in K : Max(K) >= k) /\ FirstOfOldest(newer, 0) = T[Max(K)].start
      BY <1>3, <3>1, NewestAndOldest, Zenon
    <3>3. Max(K) >= cur - 1 /\ Max(K) <= cur - 1 /\ Max(K) \in 1..n /\ cur - 1 \in 1..n
      BY <3>1, <3>2
    <3>4. Max(K) = cur - 1
      BY <1>1, <3>3
    <3> QED BY <2>1, <3>2, <3>4
  <2>2. CASE ~(cur > 1)
    <3>1. K = {}
      BY <1>1, <1>2, <2>2
    <3>2. newer = {}
      BY <1>6, <3>1
    <3> HIDE DEF newer
    <3> QED BY <2>2, <3>2 DEF FirstOfOldest
  <2> QED BY <2>1, <2>2
<1> HIDE DEF older, newer
<1>10. QED BY <1>7, <1>8, <1>9 DEF KeysWalk, older, newer, here, present

\* The keys of a year walk the calendar.
LEMMA YearKeysWalk ==
    ASSUME TimelineInv, months # <<>>, NEW T, NEW n, TimelineOf(T, n, months), NEW cur, KeysWalk(T, n, cur)
    PROVE  LET to(step) == StepTarget(T, Len(months), firstVisible, step)
               here == MonthOf(firstVisible)
               present == ToSet(months)
           IN  /\ to("nextYear") =
                     FirstOfNewest({m \in present : m <= here - 12}, FirstOfOldest(present, 0))
               /\ to("previousYear") = FirstOfOldest({m \in present : m >= here + 12}, 0)
<1> DEFINE here == MonthOf(firstVisible)
           present == ToSet(months)
           older == {m \in present : m <= here - 12}
           newer == {m \in present : m >= here + 12}
           O == {k \in (cur + 1)..n : T[k].month <= here - 12}
           N == {k \in 1..(cur - 1) : T[k].month >= here + 12}
<1>1. n \in Nat /\ \A k \in 1..n : T[k].start \in Nat /\ T[k].month \in Nat
  BY DEF TimelineOf
<1>2. cur \in 1..n /\ T[cur].month = here /\ here \in Nat
  BY <1>1 DEF KeysWalk
<1>3. present = {T[k].month : k \in 1..n} /\ Descends(months)
  BY PresentMonths DEF TimelineInv
<1>4. \A k \in 1..n : (T[k].month <= here - 12 => k > cur) /\ (T[k].month >= here + 12 => k < cur)
  <2> SUFFICES ASSUME NEW k \in 1..n
               PROVE  (T[k].month <= here - 12 => k > cur) /\ (T[k].month >= here + 12 => k < cur)
    OBVIOUS
  <2>1. k < cur => T[k].month > T[cur].month
    BY <1>2 DEF TimelineOf
  <2>2. cur < k => T[cur].month > T[k].month
    BY <1>2 DEF TimelineOf
  <2>3. T[k].month \in Nat /\ cur \in Nat
    BY <1>1, <1>2
  <2> HIDE DEF here
  <2>4. k = cur => T[k].month = here
    BY <1>2
  <2> QED BY <1>2, <2>1, <2>2, <2>3, <2>4
<1> HIDE DEF here, present
<1>5. O \subseteq 1..n /\ N \subseteq 1..n
  BY <1>1, <1>2
<1>6. older = {T[k].month : k \in O}
  <2>1. \A k \in 1..n : T[k].month <= here - 12 <=> k \in O
    BY <1>1, <1>2, <1>4
  <2> HIDE DEF O
  <2> QED BY <1>3, <1>5, <2>1
<1>7. newer = {T[k].month : k \in N}
  <2>1. \A k \in 1..n : T[k].month >= here + 12 <=> k \in N
    BY <1>1, <1>2, <1>4
  <2> HIDE DEF N
  <2> QED BY <1>3, <1>5, <2>1
<1>8. FirstOfOldest(present, 0) = T[n].start
  <2> DEFINE K == 1..n
  <2>1. K \subseteq 1..n /\ K # {} /\ present = {T[k].month : k \in K}
    BY <1>2, <1>3
  <2>2. n \in K /\ n \in Nat /\ \A k \in K : k \in Nat /\ k <= n
    BY <1>1, <1>2
  <2> HIDE DEF K
  <2>3. Max(K) \in K /\ (\A k \in K : Max(K) >= k) /\ FirstOfOldest(present, 0) = T[Max(K)].start
    <3>1. Descends(months) /\ K \subseteq 1..n /\ K # {} /\ present = {T[k].month : k \in K}
      BY <1>3, <2>1
    <3> QED BY <3>1, NewestAndOldest, Zenon
  <2>4. Max(K) >= n /\ Max(K) <= n /\ Max(K) \in Nat
    BY <2>2, <2>3
  <2>5. Max(K) = n
    BY <2>2, <2>4
  <2> QED BY <2>3, <2>5
<1> HIDE DEF O, N, older, newer
<1>9. FirstOfNewest(older, T[n].start) = T[IF O = {} THEN n ELSE Min(O)].start
  <2>1. CASE O = {}
    BY <1>6, <2>1 DEF FirstOfNewest
  <2>2. CASE O # {}
    <3>1. FirstOfNewest(older, T[n].start) = T[Min(O)].start
      BY <1>3, <1>5, <1>6, <2>2, NewestAndOldest, Zenon
    <3> QED BY <2>2, <3>1
  <2> QED BY <2>1, <2>2
<1>10. FirstOfOldest(newer, 0) = IF N = {} THEN 0 ELSE T[Max(N)].start
  <2>1. CASE N = {}
    BY <1>7, <2>1 DEF FirstOfOldest
  <2>2. CASE N # {}
    <3>1. FirstOfOldest(newer, 0) = T[Max(N)].start
      BY <1>3, <1>5, <1>7, <2>2, NewestAndOldest, Zenon
    <3> QED BY <2>2, <3>1
  <2> QED BY <2>1, <2>2
<1> QED
  <2>1. StepTarget(T, Len(months), firstVisible, "nextYear") = T[IF O = {} THEN n ELSE Min(O)].start
    BY <1>2 DEF KeysWalk, O
  <2>2. StepTarget(T, Len(months), firstVisible, "previousYear") = IF N = {} THEN 0 ELSE T[Max(N)].start
    BY <1>2 DEF KeysWalk, N
  <2> QED BY <1>8, <1>9, <1>10, <2>1, <2>2, Zenon DEF older, newer, here, present

-----------------------------------------------------------------------------
(* The labels of the years.                                                 *)

\* What yearMarks holds after the k-th month.
Reading(T, k, before) ==
    LET year == T[k].month \div 12
        marks == before.marks
        close == marks # <<>> /\ T[k].start - marks[Len(marks)].start < LabelGap
    IN  IF year = before.year THEN before
        ELSE [year |-> year,
              marks |-> IF close THEN marks ELSE Append(marks, [year |-> year, start |-> T[k].start])]

Nothing == [year |-> -1, marks |-> <<>>]

Reads(read, T, n) == read = [k \in 0..n |-> IF k = 0 THEN Nothing ELSE Reading(T, k, read[k - 1])]

LEMMA SomethingReads ==
    ASSUME NEW T, NEW n \in Nat
    PROVE  \E read : Reads(read, T, n)
<1> DEFINE stuck == {k \in 0..n : \A read : ~Reads(read, T, k)}
<1>1. stuck \subseteq Nat /\ n \in 0..n
  OBVIOUS
<1>2. SUFFICES ASSUME stuck # {} PROVE FALSE
  BY <1>1, Zenon
<1>3. PICK m \in stuck : \A k \in stuck : m <= k
  BY <1>1, <1>2, FirstOf
<1>4. CASE m = 0
  <2> DEFINE first == [k \in 0..0 |-> Nothing]
  <2>1. \A k \in 0..0 : k = 0
    OBVIOUS
  <2>2. Reads(first, T, 0)
    BY <2>1 DEF Reads
  <2> QED BY <1>3, <1>4, <2>2
<1>5. CASE m # 0
  <2>1. m - 1 \in 0..n /\ m \in 1..n /\ m - 1 \notin stuck /\ m \in Nat
    BY <1>3, <1>5
  <2>2. PICK shorter : Reads(shorter, T, m - 1)
    BY <2>1
  <2> DEFINE longer == [k \in 0..m |-> IF k = m THEN Reading(T, m, shorter[m - 1]) ELSE shorter[k]]
  <2>3. \A k \in 0..m : longer[k] = IF k = 0 THEN Nothing ELSE Reading(T, k, longer[k - 1])
    <3> TAKE k \in 0..m
    <3>1. k # 0 => k - 1 \in 0..m /\ k - 1 \in 0..(m - 1)
      BY <2>1
    <3>2. \A j \in 0..(m - 1) : j # m /\ j \in 0..m /\ longer[j] = shorter[j]
      BY <2>1
    <3>3. \A j \in 0..(m - 1) : shorter[j] = IF j = 0 THEN Nothing ELSE Reading(T, j, shorter[j - 1])
      BY <2>2, Zenon DEF Reads
    <3>4. longer[m] = Reading(T, m, shorter[m - 1])
      BY <2>1
    <3>5. k = m \/ k \in 0..(m - 1)
      BY <2>1
    <3> HIDE DEF longer
    <3>6. CASE k = m
      <4>1. longer[k - 1] = shorter[m - 1] /\ k # 0
        BY <1>5, <2>1, <3>1, <3>2, <3>6
      <4> QED BY <3>4, <3>6, <4>1
    <3>7. CASE k \in 0..(m - 1)
      <4>1. longer[k] = shorter[k]
        BY <3>2, <3>7
      <4>2. k # 0 => longer[k - 1] = shorter[k - 1]
        BY <3>1, <3>2, <3>7
      <4> QED BY <3>3, <3>7, <4>1, <4>2
    <3> QED BY <3>5, <3>6, <3>7
  <2>4. Reads(longer, T, m)
    BY <2>3, Zenon DEF Reads
  <2> QED BY <1>3, <2>4
<1> QED BY <1>4, <1>5

LEMMA MarksAreRead ==
    ASSUME NEW T, NEW n \in Nat, Len(T) = n
    PROVE  \E read : Reads(read, T, n) /\ YearMarks(T) = read[n].marks
<1> DEFINE read == CHOOSE g : g = [k \in 0..n |->
               IF k = 0 THEN [year |-> -1, marks |-> <<>>]
               ELSE LET year == T[k].month \div 12
                        marks == g[k - 1].marks
                        close == marks # <<>> /\ T[k].start - marks[Len(marks)].start < LabelGap
                    IN  IF year = g[k - 1].year THEN g[k - 1]
                        ELSE [year |-> year,
                              marks |-> IF close THEN marks
                                        ELSE Append(marks, [year |-> year, start |-> T[k].start])]]
<1>1. YearMarks(T) = read[n].marks
  BY DEF YearMarks
<1>2. PICK some : Reads(some, T, n)
  BY SomethingReads
<1>3. Reads(read, T, n)
  BY <1>2, Zenon DEF Reads, Reading, Nothing
<1> HIDE DEF read
<1> QED BY <1>1, <1>3

Mark == [year : Nat, start : Nat]
YearOf(T, k) == T[k].month \div 12

\* Month k has its year's label, or its year begins just under another label.
Labelled(T, k, marks) ==
    \/ \E p \in 1..Len(marks) : marks[p].year = YearOf(T, k)
    \/ \E f \in 1..k :
          /\ YearOf(T, f) = YearOf(T, k) /\ (f # 1 => YearOf(T, f - 1) # YearOf(T, f))
          /\ \E p \in 1..Len(marks) :
                marks[p].start <= T[f].start /\ T[f].start - marks[p].start < LabelGap

MarksTell(T, k, read) ==
    /\ read.marks \in Seq(Mark)
    /\ IF k = 0 THEN read.year = -1 /\ read.marks = <<>>
       ELSE /\ read.year = YearOf(T, k)
            /\ \A p \in 1..Len(read.marks) : read.marks[p].start <= T[k].start
    /\ \A j \in 1..k : Labelled(T, j, read.marks)

LEMMA ReadingTells ==
    ASSUME NEW rows, NEW T, NEW n, TimelineOf(T, n, rows), NEW m \in 1..n,
           NEW before, MarksTell(T, m - 1, before)
    PROVE  MarksTell(T, m, Reading(T, m, before))
<1> DEFINE marks == before.marks
           year == T[m].month \div 12
           close == marks # <<>> /\ T[m].start - marks[Len(marks)].start < LabelGap
           mark == [year |-> year, start |-> T[m].start]
           after == Reading(T, m, before)
<1>1. n \in Nat /\ m \in Nat /\ m - 1 \in Nat /\ \A k \in 1..n : T[k].start \in Nat /\ T[k].month \in Nat
  BY DEF TimelineOf
<1>2. year \in Nat /\ mark \in Mark /\ T[m].start \in Nat
  BY <1>1 DEF Mark
<1>3. LabelGap \in Nat
  BY TimelineAssumption
<1>4. marks \in Seq(Mark) /\ Len(marks) \in Nat /\ \A p \in 1..Len(marks) : marks[p] \in Mark
  BY DEF MarksTell
<1>5. \A p \in 1..Len(marks) : marks[p].start <= T[m].start /\ marks[p].start \in Nat
  <2> TAKE p \in 1..Len(marks)
  <2>1. marks[p].start \in Nat
    BY <1>4 DEF Mark
  <2>2. m - 1 # 0
    BY <1>4 DEF MarksTell
  <2>3. m - 1 \in 1..n /\ m - 1 < m
    BY <1>1, <2>2
  <2>4. marks[p].start <= T[m - 1].start /\ T[m - 1].start < T[m].start
    BY <2>2, <2>3 DEF MarksTell, TimelineOf
  <2> QED BY <1>1, <1>2, <2>1, <2>3, <2>4
<1>6. \A j \in 1..(m - 1) : Labelled(T, j, marks)
  BY DEF MarksTell
<1>7. CASE year = before.year
  <2>1. after = before
    BY <1>7 DEF Reading
  <2>2. m - 1 \in 1..n /\ m - 1 \in 1..(m - 1) /\ m - 1 # 0 /\ YearOf(T, m - 1) = year
    BY <1>1, <1>2, <1>7 DEF MarksTell, YearOf
  <2>3. Labelled(T, m - 1, marks)
    BY <1>6, <2>2
  <2>4. Labelled(T, m, marks)
    <3>1. YearOf(T, m) = YearOf(T, m - 1) /\ 1..(m - 1) \subseteq 1..m
      BY <1>1, <2>2 DEF YearOf
    <3> QED BY <2>3, <3>1 DEF Labelled
  <2>5. \A j \in 1..m : Labelled(T, j, marks)
    <3>1. \A j \in 1..m : j = m \/ j \in 1..(m - 1)
      BY <1>1
    <3> QED BY <1>6, <2>4, <3>1
  <2>6. m # 0 /\ before.year = YearOf(T, m)
    BY <1>7 DEF YearOf
  <2> QED BY <1>4, <1>5, <2>1, <2>5, <2>6 DEF MarksTell
<1>8. CASE year # before.year /\ close
  <2>1. after = [year |-> year, marks |-> marks]
    BY <1>8, Zenon DEF Reading
  <2>2. m = 1 \/ YearOf(T, m - 1) # YearOf(T, m)
    BY <1>1, <1>8 DEF MarksTell, YearOf
  <2>3. Len(marks) \in 1..Len(marks)
    BY <1>4, <1>8
  <2>4. Labelled(T, m, marks)
    <3>1. m \in 1..m /\ YearOf(T, m) = YearOf(T, m) /\ (m # 1 => YearOf(T, m - 1) # YearOf(T, m))
      BY <1>1, <2>2
    <3>2. marks[Len(marks)].start <= T[m].start /\ T[m].start - marks[Len(marks)].start < LabelGap
      BY <1>5, <1>8, <2>3
    <3> QED BY <2>3, <3>1, <3>2, Zenon DEF Labelled
  <2>5. \A j \in 1..m : Labelled(T, j, marks)
    <3>1. \A j \in 1..m : j = m \/ j \in 1..(m - 1)
      BY <1>1
    <3> QED BY <1>6, <2>4, <3>1
  <2>6. after.marks = marks /\ after.year = YearOf(T, m) /\ m # 0
    BY <1>1, <2>1 DEF YearOf
  <2>7. /\ after.marks \in Seq(Mark)
        /\ \A p \in 1..Len(after.marks) : after.marks[p].start <= T[m].start
        /\ \A j \in 1..m : Labelled(T, j, after.marks)
    <3> HIDE DEF after, marks
    <3> QED BY <1>4, <1>5, <2>5, <2>6, Zenon
  <2> HIDE DEF after, marks
  <2> QED BY <2>6, <2>7, Zenon DEF MarksTell, after
<1>9. CASE year # before.year /\ ~close
  <2> DEFINE more == Append(marks, mark)
  <2>1. after = [year |-> year, marks |-> more]
    BY <1>9, Zenon DEF Reading
  <2> HIDE DEF mark
  <2>2. /\ more \in Seq(Mark) /\ Len(more) = Len(marks) + 1 /\ more[Len(marks) + 1] = mark
        /\ \A p \in 1..Len(marks) : more[p] = marks[p]
    BY <1>2, <1>4
  <2>3. after.marks = more /\ after.year = YearOf(T, m) /\ m # 0
    BY <1>1, <2>1 DEF YearOf
  <2>4. mark.year = YearOf(T, m) /\ mark.start = T[m].start
    BY DEF mark, YearOf
  <2> HIDE DEF more
  <2>5. 1..Len(marks) \subseteq 1..Len(more) /\ Len(marks) + 1 \in 1..Len(more)
    BY <1>4, <2>2
  <2>6. Labelled(T, m, more)
    BY <2>2, <2>4, <2>5 DEF Labelled
  <2>7. ASSUME NEW j \in 1..m PROVE Labelled(T, j, more)
    <3>1. CASE j = m
      BY <2>6, <3>1
    <3>2. CASE j # m
      <4>1. Labelled(T, j, marks)
        BY <1>1, <1>6, <3>2
      <4>2. \A p \in 1..Len(marks) : p \in 1..Len(more) /\ more[p] = marks[p]
        BY <2>2, <2>5
      <4> HIDE DEF marks
      <4> QED BY <4>1, <4>2 DEF Labelled
    <3> QED BY <3>1, <3>2
  <2>8. \A p \in 1..Len(more) : more[p].start <= T[m].start
    <3> TAKE p \in 1..Len(more)
    <3>1. p \in 1..Len(marks) \/ p = Len(marks) + 1
      BY <1>4, <2>2
    <3>2. p = Len(marks) + 1 => more[p].start = T[m].start
      BY <2>2, <2>4
    <3> HIDE DEF marks
    <3> QED BY <1>2, <1>5, <2>2, <3>1, <3>2
  <2> HIDE DEF after
  <2>9. /\ after.marks \in Seq(Mark)
        /\ \A p \in 1..Len(after.marks) : after.marks[p].start <= T[m].start
        /\ \A j \in 1..m : Labelled(T, j, after.marks)
    BY <2>2, <2>3, <2>7, <2>8, Zenon
  <2> QED BY <2>3, <2>9, Zenon DEF MarksTell, after
<1> QED BY <1>7, <1>8, <1>9

LEMMA MarksOfTheYears ==
    ASSUME NEW rows, NEW T, NEW n, TimelineOf(T, n, rows)
    PROVE  /\ \A k \in 1..n : Labelled(T, k, YearMarks(T))
           /\ DOMAIN YearMarks(T) = 1..Len(YearMarks(T))
<1>1. n \in Nat /\ Len(T) = n
  BY DEF TimelineOf
<1>2. PICK read : Reads(read, T, n) /\ YearMarks(T) = read[n].marks
  BY <1>1, MarksAreRead
<1>3. \A k \in 0..n : MarksTell(T, k, read[k])
  <2> DEFINE wrong == {k \in 0..n : ~MarksTell(T, k, read[k])}
  <2> SUFFICES ASSUME wrong # {} PROVE FALSE
    OBVIOUS
  <2>1. wrong \subseteq Nat
    OBVIOUS
  <2>2. PICK m \in wrong : \A k \in wrong : m <= k
    BY <2>1, FirstOf
  <2>3. m # 0
    <3>1. 0 \in 0..n
      BY <1>1
    <3>2. read[0] = Nothing
      BY <1>2, <3>1 DEF Reads
    <3>3. MarksTell(T, 0, Nothing)
      <4>1. \A j \in 1..0 : FALSE
        OBVIOUS
      <4> QED BY <4>1 DEF MarksTell, Nothing
    <3> QED BY <2>2, <3>2, <3>3
  <2>4. m - 1 \in 0..n /\ m \in 1..n /\ m \in 0..n /\ m - 1 \notin wrong
    <3>0. m \in 0..n
      BY <2>2
    <3> HIDE DEF wrong
    <3>1. m \in 0..n /\ m - 1 \in 0..n /\ m \in 1..n /\ ~(m <= m - 1)
      BY <1>1, <2>3, <3>0
    <3> QED BY <2>2, <3>1
  <2>5. read[m] = Reading(T, m, read[m - 1])
    BY <1>2, <2>3, <2>4, Zenon DEF Reads
  <2>6. MarksTell(T, m - 1, read[m - 1])
    BY <2>4
  <2>7. MarksTell(T, m, read[m])
    BY <2>4, <2>5, <2>6, ReadingTells
  <2> QED BY <2>2, <2>7
<1>4. MarksTell(T, n, read[n])
  BY <1>1, <1>3
<1>5. DOMAIN read[n].marks = 1..Len(read[n].marks)
  BY <1>4, LenProperties DEF MarksTell
<1> QED BY <1>2, <1>4, <1>5 DEF MarksTell

\* A year without its label begins just under another label.
LEMMA YearsAreMarked ==
    ASSUME Descends(months), NEW T, NEW n, TimelineOf(T, n, months),
           NEW marks, \A k \in 1..n : Labelled(T, k, marks), DOMAIN marks = 1..Len(marks)
    PROVE  \A i \in DOMAIN months :
              \/ \E k \in DOMAIN marks : marks[k].year = months[i] \div 12
              \/ LET start == Min({j \in DOMAIN months : months[j] \div 12 = months[i] \div 12}) - 1
                 IN  \E k \in DOMAIN marks : marks[k].start <= start /\ start - marks[k].start < LabelGap
<1> TAKE i \in DOMAIN months
<1> DEFINE year == months[i] \div 12
           its == {j \in DOMAIN months : months[j] \div 12 = year}
<1>1. /\ DOMAIN months = 1..Len(months) /\ Len(months) \in Nat
      /\ \A j \in DOMAIN months : months[j] \in Nat
  BY LenProperties, ElementOfSeq DEF Descends
<1>2. n \in Nat /\ \A k \in 1..n : T[k].start \in Nat /\ T[k].month \in Nat /\ YearOf(T, k) \in Nat
  BY DEF TimelineOf, YearOf
<1>3. PICK k \in 1..n : T[k].start < i /\ T[k].month = months[i]
  BY DEF TimelineOf
<1>4. YearOf(T, k) = year
  BY <1>3 DEF YearOf
<1>5. Labelled(T, k, marks)
  OBVIOUS
<1> HIDE DEF year
<1>6. CASE \E p \in 1..Len(marks) : marks[p].year = YearOf(T, k)
  BY <1>4, <1>6 DEF year
<1>7. CASE ~ \E p \in 1..Len(marks) : marks[p].year = YearOf(T, k)
  <2>1. PICK f \in 1..k :
           /\ YearOf(T, f) = year /\ (f # 1 => YearOf(T, f - 1) # YearOf(T, f))
           /\ \E p \in 1..Len(marks) : marks[p].start <= T[f].start /\ T[f].start - marks[p].start < LabelGap
    BY <1>4, <1>5, <1>7 DEF Labelled
  <2>2. f \in 1..n /\ f \in Nat
    BY <1>2, <2>1
  <2> DEFINE first == T[f].start + 1
  <2>3. first \in its /\ first \in Nat /\ first - 1 = T[f].start
    <3>1. T[f].start + 1 \in DOMAIN months /\ T[f].month = months[T[f].start + 1]
      <4>1. T[f].start \in 0..(Len(months) - 1) /\ T[f].month = months[T[f].start + 1]
        BY <2>2, Zenon DEF TimelineOf
      <4>2. T[f].start + 1 \in 1..Len(months)
        BY <1>1, <4>1
      <4> QED BY <1>1, <4>1, <4>2
    <3>2. T[f].month \div 12 = year /\ T[f].start \in Nat
      BY <1>2, <2>1, <2>2 DEF YearOf
    <3>3. T[f].start + 1 \in Nat /\ (T[f].start + 1) - 1 = T[f].start
      BY <3>2
    <3>4. months[T[f].start + 1] \div 12 = year
      BY <3>1, <3>2
    <3> QED BY <3>1, <3>3, <3>4
  <2>4. ASSUME NEW j \in its PROVE first <= j
    <3>1. PICK l \in 1..n : T[l].start < j /\ T[l].month = months[j]
      BY DEF TimelineOf
    <3>2. YearOf(T, l) = year /\ j \in Nat /\ l \in Nat
      BY <1>1, <1>2, <3>1 DEF YearOf
    <3>3. ~(l < f)
      <4> SUFFICES ASSUME l < f PROVE FALSE
        OBVIOUS
      <4>1. f - 1 \in 1..n /\ f # 1 /\ l <= f - 1 /\ f - 1 < f
        <5>1. l \in 1..n /\ f \in 1..n /\ n \in Nat
          BY <1>2, <2>2
        <5> QED BY <5>1
      <4>2. T[f - 1].month > T[f].month
        BY <2>2, <4>1 DEF TimelineOf
      <4>3. T[l].month >= T[f - 1].month
        <5>1. l = f - 1 => T[l].month = T[f - 1].month
          OBVIOUS
        <5>2. l < f - 1 => T[l].month > T[f - 1].month
          BY <4>1 DEF TimelineOf
        <5> QED BY <1>2, <3>2, <4>1, <5>1, <5>2
      <4>4. T[l].month \in Nat /\ T[f - 1].month \in Nat /\ T[f].month \in Nat
        BY <1>2, <2>2, <4>1
      <4>5. YearOf(T, l) >= YearOf(T, f - 1) /\ YearOf(T, f - 1) >= YearOf(T, f)
        BY <4>2, <4>3, <4>4 DEF YearOf
      <4>6. YearOf(T, f - 1) \in Nat /\ YearOf(T, f) \in Nat /\ YearOf(T, l) \in Nat
        BY <1>2, <2>2, <4>1
      <4>7. YearOf(T, f - 1) = YearOf(T, f)
        BY <2>1, <3>2, <4>5, <4>6
      <4> QED BY <2>1, <4>1, <4>7
    <3>4. T[f].start <= T[l].start
      <4>1. f = l \/ f < l
        BY <2>2, <3>2, <3>3
      <4>2. f < l => T[f].start < T[l].start
        BY <2>2 DEF TimelineOf
      <4> QED BY <1>2, <2>2, <4>1, <4>2
    <3>5. T[f].start \in Nat /\ T[l].start \in Nat
      BY <1>2, <2>2
    <3> QED BY <3>1, <3>2, <3>4, <3>5
  <2>5. its \subseteq Nat /\ its # {}
    BY <1>1, <2>3
  <2> HIDE DEF its
  <2>6. Min(its) \in its /\ \A x \in its : Min(its) <= x
    BY <2>5, MinIs
  <2>7. Min(its) - 1 = T[f].start
    <3> HIDE DEF first
    <3>1. Min(its) \in Nat /\ Min(its) <= first /\ first <= Min(its)
      BY <2>3, <2>4, <2>5, <2>6
    <3> QED BY <2>3, <3>1
  <2> QED BY <2>1, <2>7 DEF its, year
<1> QED BY <1>6, <1>7

\* The walk of the keys follows from the order of the rows alone.
LEMMA InvariantWalks ==
    ASSUME TimelineInv PROVE KeysWalkTheCalendar
<1> SUFFICES ASSUME months # <<>> PROVE KeysWalkTheCalendar
  BY DEF KeysWalkTheCalendar
<1> DEFINE T == BuildTimeline(months)
<1>1. Descends(months)
  BY DEF TimelineInv
<1>2. PICK n : TimelineOf(T, n, months)
  BY <1>1, TimelineIs
<1> HIDE DEF T
<1>3. PICK cur : KeysWalk(T, n, cur)
  BY <1>2, KeysAre
<1> DEFINE to(step) == StepTarget(T, Len(months), firstVisible, step)
           here == MonthOf(firstVisible)
           present == ToSet(months)
<1>4. /\ to("nextMonth") = FirstOfNewest({m \in present : m < here}, firstVisible)
      /\ to("previousMonth") =
            LET start == FirstOfNewest({here}, 0)
            IN  IF firstVisible > start THEN start ELSE FirstOfOldest({m \in present : m > here}, 0)
  BY <1>2, <1>3, MonthKeysWalk
<1>5. /\ to("nextYear") = FirstOfNewest({m \in present : m <= here - 12}, FirstOfOldest(present, 0))
      /\ to("previousYear") = FirstOfOldest({m \in present : m >= here + 12}, 0)
  BY <1>2, <1>3, YearKeysWalk
<1> DEFINE marks == YearMarks(T)
<1>6. (\A k \in 1..n : Labelled(T, k, marks)) /\ DOMAIN marks = 1..Len(marks)
  BY <1>2, MarksOfTheYears
<1>8. \A i \in DOMAIN months :
         \/ \E k \in DOMAIN marks : marks[k].year = months[i] \div 12
         \/ LET start == Min({j \in DOMAIN months : months[j] \div 12 = months[i] \div 12}) - 1
            IN  \E k \in DOMAIN marks : marks[k].start <= start /\ start - marks[k].start < LabelGap
  <2> HIDE DEF marks
  <2> QED BY <1>1, <1>2, <1>6, YearsAreMarked
<1> HIDE DEF to, here, present, marks
<1> QED BY <1>4, <1>5, <1>8, Zenon DEF KeysWalkTheCalendar, T, to, here, present, marks

-----------------------------------------------------------------------------
(* The rows stay in order, the first one in view among them.                *)

LEMMA ScrolledIsARow ==
    ASSUME TimelineInv, NEW to \in Int
    PROVE  Scrolled(to) \in Nat /\ IF months = <<>> THEN Scrolled(to) = 0 ELSE Scrolled(to) < Len(months)
<1>1. Visible \in Nat \ {0}
  BY TimelineAssumption
<1>2. months \in Seq(Nat) /\ Len(months) \in Nat /\ (months = <<>> <=> Len(months) = 0)
  BY LenProperties, EmptySeq DEF TimelineInv, Descends
<1> QED BY <1>1, <1>2 DEF Scrolled, Larger, Smaller

LEMMA ScrollKeeps ==
    ASSUME TimelineInv, NEW to \in Int, Seek(to), UNCHANGED months, pointerRow' \in Int, dragging' \in BOOLEAN
    PROVE  TimelineInv'
<1>1. Scrolled(to) \in Nat /\ IF months = <<>> THEN Scrolled(to) = 0 ELSE Scrolled(to) < Len(months)
  BY ScrolledIsARow
<1> QED BY <1>1 DEF TimelineInv, Seek, Descends

LEMMA StepKeeps ==
    ASSUME TimelineInv, Step PROVE TimelineInv'
<1> DEFINE T == BuildTimeline(months)
<1>1. Descends(months) /\ pointerRow \in Int /\ dragging \in BOOLEAN /\ firstVisible \in Nat
  BY DEF TimelineInv
<1>2. PICK n : TimelineOf(T, n, months)
  BY <1>1, TimelineIs
<1>3. PICK step \in {"first", "last", "nextMonth", "previousMonth", "nextYear", "previousYear"} :
         Seek(StepTarget(T, Len(months), firstVisible, step))
  BY DEF Step
<1> HIDE DEF T
<1>4. StepTarget(T, Len(months), firstVisible, step) \in Int
  <2>1. CASE months = <<>>
    <3>1. firstVisible \in Int /\ n \in Nat /\ DOMAIN months = {} /\ Len(months) = 0
      BY <1>1, <1>2, <2>1 DEF TimelineOf
    <3>2. n = 0
      <4>1. \A k \in 1..n : T[k].start \in 0..(0 - 1)
        BY <1>2, <3>1 DEF TimelineOf
      <4>2. \A k \in 1..n : FALSE
        BY <4>1
      <4> QED BY <3>1, <4>2
    <3>3. IsMonthOf(T, n, firstVisible, 0)
      BY <3>2 DEF IsMonthOf
    <3>4. MonthIndexAt(T, firstVisible) = 0
      BY <1>2, <3>1, <3>3, BisectionFinds
    <3> QED BY <3>4 DEF StepTarget
  <2>2. CASE months # <<>>
    <3>1. PICK cur : KeysWalk(T, n, cur)
      BY <1>2, <2>2, KeysAre
    <3> DEFINE older == {k \in (cur + 1)..n : T[k].month <= T[cur].month - 12}
               newer == {k \in 1..(cur - 1) : T[k].month >= T[cur].month + 12}
    <3>2. n \in Nat /\ \A k \in 1..n : T[k].start \in Int
      BY <1>2 DEF TimelineOf
    <3>3. cur \in 1..n /\ n \in 1..n
      BY <3>1, <3>2 DEF KeysWalk
    <3>4. older # {} => Min(older) \in 1..n
      <4>1. older \subseteq Nat /\ older \subseteq 1..n
        BY <3>2, <3>3
      <4> HIDE DEF older
      <4> QED BY <4>1, MinIs
    <3>5. newer # {} => Max(newer) \in 1..n
      <4>1. newer \subseteq Nat /\ newer \subseteq 1..n /\ \A k \in newer : k <= n
        BY <3>2, <3>3
      <4> HIDE DEF newer
      <4> QED BY <3>2, <4>1, MaxIs
    <3>6. cur < n => cur + 1 \in 1..n
      BY <3>2, <3>3
    <3>7. cur > 1 => cur - 1 \in 1..n
      BY <3>2, <3>3
    <3> HIDE DEF older, newer
    <3>8. CASE step \in {"first", "last"}
      BY <3>1, <3>8 DEF KeysWalk
    <3>9. CASE step = "nextMonth"
      BY <1>1, <3>1, <3>2, <3>6, <3>9 DEF KeysWalk
    <3>10. CASE step = "previousMonth"
      BY <3>1, <3>2, <3>3, <3>7, <3>10 DEF KeysWalk
    <3>11. CASE step = "nextYear"
      BY <3>1, <3>2, <3>3, <3>4, <3>11 DEF KeysWalk, older
    <3>12. CASE step = "previousYear"
      BY <3>1, <3>2, <3>5, <3>12 DEF KeysWalk, newer
    <3> QED BY <1>3, <3>8, <3>9, <3>10, <3>11, <3>12
  <2> QED BY <2>1, <2>2
<1>5. UNCHANGED <<months, pointerRow, dragging>>
  BY DEF Step
<1> QED BY <1>1, <1>3, <1>4, <1>5, ScrollKeeps

LEMMA BarKeeps ==
    ASSUME TimelineInv, BarPressed \/ BarMoved \/ BarReleased \/ BarLeft \/ Scroll
    PROVE  TimelineInv'
<1>1. pointerRow \in Int /\ dragging \in BOOLEAN /\ firstVisible \in Nat
  BY DEF TimelineInv
<1>2. Len(months) \in Nat
  BY LenProperties DEF TimelineInv, Descends
<1>3. RowsAtFraction \subseteq Int
  BY <1>2 DEF RowsAtFraction
<1>4. CASE BarPressed
  BY <1>3, <1>4, ScrollKeeps DEF BarPressed
<1>5. CASE BarMoved
  <2>1. PICK to \in RowsAtFraction : pointerRow' = to /\ IF dragging THEN Seek(to) ELSE UNCHANGED firstVisible
    BY <1>5 DEF BarMoved
  <2>2. UNCHANGED months /\ UNCHANGED dragging
    BY <1>5 DEF BarMoved
  <2>3. CASE dragging
    BY <1>1, <1>3, <2>1, <2>2, <2>3, ScrollKeeps
  <2>4. CASE ~dragging
    BY <1>3, <2>1, <2>2, <2>4 DEF TimelineInv, Descends
  <2> QED BY <2>3, <2>4
<1>6. CASE BarReleased
  BY <1>6 DEF BarReleased, TimelineInv, Descends
<1>7. CASE BarLeft
  BY <1>7 DEF BarLeft, TimelineInv, Descends
<1>8. CASE Scroll
  <2>1. PICK to \in {firstVisible - 1, firstVisible + 1} : Seek(Larger(0, to))
    BY <1>8 DEF Scroll
  <2>2. Larger(0, to) \in Int
    BY <1>1 DEF Larger
  <2>3. UNCHANGED months /\ pointerRow' \in Int /\ dragging' \in BOOLEAN
    BY <1>1, <1>8 DEF Scroll
  <2> QED BY <2>1, <2>2, <2>3, ScrollKeeps
<1> QED BY <1>4, <1>5, <1>6, <1>7, <1>8

LEMMA RowArrivesKeeps ==
    ASSUME TimelineInv, RowArrives PROVE TimelineInv'
<1>1. PICK month \in Months : (months # <<>> => month >= Head(months)) /\ months' = <<month>> \o months
  BY DEF RowArrives
<1>2. months \in Seq(Nat) /\ DOMAIN months = 1..Len(months) /\ Len(months) \in Nat
  BY LenProperties DEF TimelineInv, Descends
<1>3. month \in Nat /\ \A i \in 1..Len(months) : months[i] \in Nat
  BY <1>2, TimelineAssumption, ElementOfSeq
<1>4. /\ months' \in Seq(Nat) /\ Len(months') = Len(months) + 1 /\ months'[1] = month
      /\ \A i \in 2..(Len(months) + 1) : months'[i] = months[i - 1]
  BY <1>1, <1>2, <1>3
<1>5. \A i \in 1..Len(months) : months[i] <= month
  <2> TAKE i \in 1..Len(months)
  <2>1. months # <<>> /\ Head(months) = months[1] /\ 1 \in DOMAIN months /\ i \in DOMAIN months /\ 1 <= i
    BY <1>2
  <2>2. months[1] >= months[i]
    BY <2>1 DEF TimelineInv, Descends
  <2>3. months[1] \in Nat /\ months[i] \in Nat
    BY <1>2, <1>3, <2>1
  <2> QED BY <1>1, <1>3, <2>1, <2>2, <2>3
<1>6. DOMAIN months' = 1..(Len(months) + 1)
  BY <1>2, <1>4, LenProperties
<1>7. ASSUME NEW i \in 1..(Len(months) + 1), NEW j \in 1..(Len(months) + 1), i <= j
      PROVE  months'[i] >= months'[j]
  <2>1. CASE j = 1
    <3>1. i = 1
      BY <1>7, <2>1
    <3> QED BY <1>3, <1>4, <2>1, <3>1
  <2>2. CASE j # 1
    <3>1. j \in 2..(Len(months) + 1) /\ j - 1 \in 1..Len(months) /\ months'[j] = months[j - 1]
      BY <1>2, <1>4, <2>2
    <3>2. CASE i = 1
      BY <1>3, <1>4, <1>5, <3>1, <3>2
    <3>3. CASE i # 1
      <4>1. i \in 2..(Len(months) + 1) /\ i - 1 \in 1..Len(months) /\ months'[i] = months[i - 1] /\ i - 1 <= j - 1
        BY <1>2, <1>4, <1>7, <3>3
      <4>2. months[i - 1] >= months[j - 1]
        BY <1>2, <3>1, <4>1 DEF TimelineInv, Descends
      <4> QED BY <3>1, <4>1, <4>2
    <3> QED BY <3>2, <3>3
  <2> QED BY <2>1, <2>2
<1>8. Descends(months')
  BY <1>4, <1>6, <1>7 DEF Descends
<1>9. months' # <<>>
  BY <1>2, <1>4
<1>10. firstVisible' = firstVisible /\ firstVisible \in Nat /\ firstVisible < Len(months) + 1
  <2>1. firstVisible' = firstVisible /\ firstVisible \in Nat
    BY DEF RowArrives, TimelineInv
  <2>2. CASE months = <<>>
    BY <1>2, <2>1, <2>2 DEF TimelineInv
  <2>3. CASE months # <<>>
    BY <1>2, <2>1, <2>3 DEF TimelineInv
  <2> QED BY <2>1, <2>2, <2>3
<1>11. pointerRow' \in Int /\ dragging' \in BOOLEAN
  BY DEF RowArrives, TimelineInv
<1> QED BY <1>4, <1>8, <1>9, <1>10, <1>11 DEF TimelineInv

LEMMA RefilterKeeps ==
    ASSUME TimelineInv, Refilter PROVE TimelineInv'
<1>1. PICK keep \in SUBSET Months :
         LET kept == {i \in DOMAIN months : months[i] \in keep}
         IN  months' = [k \in 1..Cardinality(kept) |-> months[At(kept, k)]]
  BY DEF Refilter
<1> DEFINE kept == {i \in DOMAIN months : months[i] \in keep}
           n == Cardinality(kept)
<1>2. months \in Seq(Nat) /\ DOMAIN months = 1..Len(months) /\ Len(months) \in Nat
  BY LenProperties DEF TimelineInv, Descends
<1>3. \A i \in 1..Len(months) : months[i] \in Nat
  BY <1>2, ElementOfSeq
<1>4. Places(kept, n) /\ kept \subseteq 1..Len(months)
  <2>1. kept \subseteq Nat /\ kept \in SUBSET (1..Len(months))
    BY <1>2
  <2>2. IsFiniteSet(1..Len(months))
    BY <1>2, FS_Interval
  <2>3. IsFiniteSet(kept)
    BY <2>1, <2>2, FS_Subset
  <2> HIDE DEF kept
  <2> QED BY <2>1, <2>3, EachHasItsPlace
<1>5. months' = [k \in 1..n |-> months[At(kept, k)]]
  BY <1>1, Zenon
<1> HIDE DEF kept, n
<1>6. n \in Nat /\ \A k \in 1..n : At(kept, k) \in 1..Len(months) /\ months'[k] = months[At(kept, k)]
  BY <1>4, <1>5 DEF Places
<1>7. months' \in Seq(Nat) /\ DOMAIN months' = 1..n
  <2>1. \A k \in 1..n : months'[k] \in Nat
    BY <1>3, <1>6
  <2>2. months' \in [1..n -> Nat]
    BY <1>5, <2>1
  <2>3. \A f : f \in [1..n -> Nat] => f \in Seq(Nat)
    BY <1>6, SeqDef, Zenon
  <2>4. months' \in Seq(Nat)
    BY <2>2, <2>3
  <2> QED BY <2>2, <2>4
<1>8. \A i, j \in 1..n : i <= j => months'[i] >= months'[j]
  <2> SUFFICES ASSUME NEW i \in 1..n, NEW j \in 1..n, i <= j PROVE months'[i] >= months'[j]
    OBVIOUS
  <2>1. At(kept, i) \in 1..Len(months) /\ At(kept, j) \in 1..Len(months)
    BY <1>6
  <2>2. At(kept, i) <= At(kept, j)
    <3>1. i < j => At(kept, i) < At(kept, j)
      BY <1>4 DEF Places
    <3>2. i = j \/ i < j
      BY <1>6
    <3> QED BY <2>1, <3>1, <3>2
  <2>3. months[At(kept, i)] >= months[At(kept, j)]
    BY <1>2, <2>1, <2>2 DEF TimelineInv, Descends
  <2> QED BY <1>6, <2>3
<1>9. Descends(months')
  BY <1>7, <1>8 DEF Descends
<1>10. firstVisible' = 0 /\ (months' # <<>> => 0 < Len(months'))
  <2>1. Len(months') \in Nat /\ (months' # <<>> => Len(months') # 0)
    BY <1>7, LenProperties, EmptySeq
  <2>2. firstVisible' = 0
    BY Zenon DEF Refilter
  <2>3. \A len \in Nat : len # 0 => 0 < len
    OBVIOUS
  <2> QED BY <2>1, <2>2, <2>3
<1>11. pointerRow' \in Int /\ dragging' \in BOOLEAN
  BY DEF Refilter, TimelineInv
<1> QED BY <1>9, <1>10, <1>11 DEF TimelineInv

\* The rows are in order, newest first, and the first one in view is one of them.
THEOREM TimelineInvHolds == TimelineSpec => []TimelineInv
<1>1. TimelineInit => TimelineInv
  <2> SUFFICES ASSUME TimelineInit PROVE TimelineInv
    OBVIOUS
  <2>1. months = <<>> /\ DOMAIN months = {} /\ months \in Seq(Nat)
    BY DEF TimelineInit
  <2>2. Descends(months)
    BY <2>1 DEF Descends
  <2>3. firstVisible = 0 /\ firstVisible \in Nat
    BY DEF TimelineInit
  <2>4. pointerRow \in Int
    BY DEF TimelineInit
  <2>5. dragging \in BOOLEAN
    BY Zenon DEF TimelineInit
  <2> QED BY <2>1, <2>2, <2>3, <2>4, <2>5, Zenon DEF TimelineInv
<1>2. TimelineInv /\ [TimelineNext]_timelineVars => TimelineInv'
  <2> SUFFICES ASSUME TimelineInv, [TimelineNext]_timelineVars PROVE TimelineInv'
    OBVIOUS
  <2>1. CASE UNCHANGED timelineVars
    BY <2>1 DEF timelineVars, TimelineInv, Descends
  <2>2. CASE TimelineNext
    BY <2>2, StepKeeps, BarKeeps, RowArrivesKeeps, RefilterKeeps DEF TimelineNext
  <2> QED BY <2>1, <2>2
<1> QED BY <1>1, <1>2, PTL DEF TimelineSpec

\* The keys of the timeline (stepTarget) walk the calendar of the rows on screen, and a year goes
\* without its label (yearMarks) only just under another, for any rows, window and gap.
THEOREM KeysWalkTheCalendarSafe == TimelineSpec => []KeysWalkTheCalendar
BY TimelineInvHolds, InvariantWalks, PTL
=============================================================================
