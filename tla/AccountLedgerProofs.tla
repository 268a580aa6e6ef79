------------------------ MODULE AccountLedgerProofs ------------------------
(***************************************************************************)
(* Proofs about AccountLedger, for every set of events, stamps and files.  *)
(***************************************************************************)
EXTENDS AccountLedger, DataLemmas

\* A night and a weekend only ever go back: the market day of an instant is its
\* civil day or an earlier one (marketDayOf).
LEMMA MarketDayGoesBack ==
    ASSUME NEW w \in Instant
    PROVE  MarketDayOf(w) \in Int /\ MarketDayOf(w) <= w.day
<1> DEFINE d == IF w.night THEN w.day - 1 ELSE w.day
<1>1. w.day \in Nat /\ d \in Int /\ d <= w.day
  BY DEF Instant
<1>2. BackToFriday(d) \in {d - 1, d - 2, d}
  BY DEF BackToFriday
<1>3. MarketDayOf(w) = BackToFriday(d)
  BY DEF MarketDayOf
<1> QED BY <1>1, <1>2, <1>3

\* The days of a row are integers, and its market day is not after its day.
LEMMA RowDays ==
    ASSUME NEW r \in LedgerRow
    PROVE  /\ RowDay(r) \in Nat
           /\ RowMarketDay(r) \in Int
           /\ RowMarketDay(r) <= RowDay(r)
<1>1. When(r) \in Instant
  BY EventAssumption DEF LedgerRow, When
<1> QED BY <1>1, MarketDayGoesBack DEF RowDay, RowMarketDay, DayOf, Instant

\* The rows a plan lays down are rows.
LEMMA RowsForType ==
    ASSUME NEW source \in RowSource, NEW events \in SUBSET Event
    PROVE  RowsFor(source, events) \subseteq LedgerRow
BY DEF RowsFor, LedgerRow

LEMMA FileEvents ==
    ASSUME NEW f
    PROVE  FlexEvents(f) \subseteq Event /\ StatementEvents(f) \subseteq Event
BY DEF FlexEvents, StatementEvents

-----------------------------------------------------------------------------
\* What each handler leaves in the ledger.

FlexBatch(f) == FlexWrites(FlexEvents(f), f.period)

LEMMA FlexStep ==
    ASSUME NEW f \in FlexFile, ImportFlex(f)
    PROVE  /\ rows' = (rows \ FlexRetires(rows, FlexBatch(f))) \cup FlexBatch(f)
           /\ FlexBatch(f) \subseteq LedgerRow
           /\ \A k \in FlexBatch(f) : k.source = "flex"
<1>1. PlanImport(rows, "flex", FlexEvents(f), f.period)
        = PlanFlex(rows, FlexEvents(f), f.period)
  BY DEF PlanImport
<1>2. FlexBatch(f) \subseteq RowsFor("flex", FlexEvents(f))
  BY DEF FlexBatch, FlexWrites
<1>3. FlexBatch(f) \subseteq LedgerRow
  BY <1>2, FileEvents, RowsForType DEF RowSource
<1>4. \A k \in FlexBatch(f) : k.source = "flex"
  BY <1>2 DEF RowsFor
<1>5. rows' = (rows \ FlexRetires(rows, FlexBatch(f))) \cup FlexBatch(f)
  BY <1>1 DEF ImportFlex, Write, PlanFlex, FlexBatch
<1> QED BY <1>3, <1>4, <1>5

StatementBatch(ledger, f) ==
    {r \in RowsFor("statement_html", StatementEvents(f)) : BeforeFlex(ledger, RowDay(r))}

LEMMA StatementStep ==
    ASSUME NEW f \in StatementFile, ImportStatement(f)
    PROVE  /\ rows' = (rows \ StatementReplaces(rows, StatementBatch(rows, f), f.period))
                        \cup StatementBatch(rows, f)
           /\ StatementBatch(rows, f) \subseteq LedgerRow
           /\ \A k \in StatementBatch(rows, f) : k.source = "statement_html"
<1>1. PlanImport(rows, "statement_html", StatementEvents(f), f.period)
        = PlanStatement(rows, StatementEvents(f), f.period)
  BY DEF PlanImport
<1>2. StatementBatch(rows, f) \subseteq RowsFor("statement_html", StatementEvents(f))
  BY DEF StatementBatch
<1>3. StatementBatch(rows, f) \subseteq LedgerRow
  BY <1>2, FileEvents, RowsForType DEF RowSource
<1>4. \A k \in StatementBatch(rows, f) : k.source = "statement_html"
  BY <1>2 DEF RowsFor
<1>5. rows' = (rows \ StatementReplaces(rows, StatementBatch(rows, f), f.period))
                \cup StatementBatch(rows, f)
  <2> DEFINE plan == PlanStatement(rows, StatementEvents(f), f.period)
  <2>1. rows' = (rows \ plan.delete) \cup plan.upsert
    BY <1>1 DEF ImportStatement, Write
  <2>2. plan.upsert = StatementBatch(rows, f)
    BY DEF PlanStatement, StatementBatch
  <2>3. plan.delete = StatementReplaces(rows, StatementBatch(rows, f), f.period)
    BY DEF PlanStatement, StatementBatch
  <2> QED BY <2>1, <2>2, <2>3
<1> QED BY <1>3, <1>4, <1>5

LEMMA AgentStep ==
    ASSUME NEW day, NEW events \in SUBSET Executed, SyncAgent(day, events)
    PROVE  \E laid \in SUBSET LedgerRow :
              /\ rows' = rows \cup laid
              /\ \A a \in laid : a.source = "agent" /\ AfterFlex(rows, a)
<1> DEFINE laid == {r \in RowsFor("agent", events) : AfterFlex(rows, r)}
<1>1. laid \in SUBSET LedgerRow
  BY RowsForType, EventAssumption DEF RowSource
<1>2. rows' = rows \cup laid
  BY DEF SyncAgent, PlanAgent
<1>3. \A a \in laid : a.source = "agent" /\ AfterFlex(rows, a)
  BY DEF RowsFor
<1> QED BY <1>1, <1>2, <1>3

LEMMA RebuildRows ==
    ASSUME NEW files
    PROVE  /\ RebuiltRows(files) \subseteq LedgerRow
           /\ \A r \in RebuiltRows(files) :
                r.source = "statement_html" /\ BeforeFlex(rows, RowDay(r))
<1> SUFFICES ASSUME NEW r \in RebuiltRows(files)
             PROVE  /\ r \in LedgerRow
                    /\ r.source = "statement_html"
                    /\ BeforeFlex(rows, RowDay(r))
  OBVIOUS
<1>1. PICK f \in files, e \in Event :
        /\ e \in StatementEvents(f)
        /\ r = [source |-> "statement_html", event |-> e]
        /\ BeforeFlex(rows, FileWhen[e].day)
  BY FileEvents DEF RebuiltRows, RowsFor
<1> QED BY <1>1 DEF LedgerRow, RowSource, RowDay, When, DayOf

-----------------------------------------------------------------------------
\* The type invariant.

RowsType == rows \subseteq LedgerRow
TablesType ==
    /\ now \in Nat
    /\ statements \subseteq StatementFile
    /\ snapshot \in Point
    /\ cash \in [start : Point, end : Point]
    /\ window \in [first : Nat, last : Nat]
    /\ warned \subseteq {Kind[e] : e \in Event}
    /\ rebuilt \in BOOLEAN

LEMMA TypeSplit == TypeOK <=> RowsType /\ TablesType
BY DEF TypeOK, RowsType, TablesType, LedgerRow

LEMMA FilesAreFiles ==
    ASSUME NEW f, f \in FlexFile \/ f \in StatementFile
    PROVE  /\ f.period \in [start : Nat, end : Nat]
           /\ f.taken \in Nat
           /\ f.period.end < f.taken
BY FileAssumption DEF File

LEMMA PointTypes ==
    ASSUME NEW source \in RowSource, NEW day \in Nat
    PROVE  [source |-> source, asOf |-> day] \in Point
BY DEF Point

LEMMA MergedTypes ==
    ASSUME NEW c \in [start : Point, end : Point], NEW source \in RowSource,
           NEW period \in [start : Nat, end : Nat]
    PROVE  MergeCashPoints(c, source, period) \in [start : Point, end : Point]
<1>1. [source |-> source, asOf |-> period.start] \in Point
  BY PointTypes
<1>2. [source |-> source, asOf |-> period.end] \in Point
  BY PointTypes
<1>3. c.start \in Point /\ c.end \in Point
  OBVIOUS
<1> QED BY <1>1, <1>2, <1>3 DEF MergeCashPoints

LEMMA WindowTypes ==
    ASSUME NEW w \in [first : Nat, last : Nat], NEW start \in Nat, NEW end \in Nat
    PROVE  MergeContract(w, start, end) \in [first : Nat, last : Nat]
BY DEF MergeContract

LEMMA RebuiltTypes ==
    ASSUME TablesType, NEW files \in SUBSET StatementFile
    PROVE  /\ RebuiltSnapshot(files) \in Point
           /\ RebuiltCash(files) \in [start : Point, end : Point]
           /\ RebuiltWindow(files) \in [first : Nat, last : Nat]
<1>1. \A f \in files : f.period.start \in Nat /\ f.period.end \in Nat
  BY FilesAreFiles
<1>2. None \in Point
  BY DEF Point
<1>3. \A d \in Nat : [source |-> "statement_html", asOf |-> d] \in Point
  BY PointTypes DEF RowSource
<1>4. RebuiltSnapshot(files) \in Point
  <2> DEFINE dated == {[source |-> "statement_html", asOf |-> f.period.end] :
                           f \in {g \in files : g.positions}}
             latest == {p \in dated : \A q \in dated : q.asOf <= p.asOf}
  <2>1. latest \subseteq Point
    BY <1>1, <1>3
  <2>2. latest # {} => (CHOOSE p \in latest : TRUE) \in Point
    BY <2>1
  <2>3. snapshot \in Point
    BY DEF TablesType
  <2> QED BY <2>2, <2>3, <1>2 DEF RebuiltSnapshot
<1>5. RebuiltCash(files) \in [start : Point, end : Point]
  <2> DEFINE stands(p) == IF p.source = "statement_html" THEN None ELSE p
             start == stands(cash.start)
             end   == stands(cash.end)
             reports == {f \in files : f.cash}
             first == {f \in reports :
                         /\ \A g \in reports : f.period.start <= g.period.start
                         /\ start = None \/ f.period.start <= start.asOf}
             last  == {f \in reports :
                         /\ \A g \in reports : f.period.end >= g.period.end
                         /\ end = None \/ f.period.end >= end.asOf}
  <2>1. start \in Point /\ end \in Point
    BY <1>2 DEF TablesType
  <2>2. first # {} => (CHOOSE f \in first : TRUE) \in files
    OBVIOUS
  <2>3. last # {} => (CHOOSE f \in last : TRUE) \in files
    OBVIOUS
  <2> HIDE DEF start, end, first, last
  <2>4. RebuiltCash(files) =
          [start |-> IF first = {} THEN start
                     ELSE [source |-> "statement_html",
                           asOf |-> (CHOOSE f \in first : TRUE).period.start],
           end   |-> IF last = {} THEN end
                     ELSE [source |-> "statement_html",
                           asOf |-> (CHOOSE f \in last : TRUE).period.end]]
    BY DEF RebuiltCash, start, end, first, last
  <2> QED BY <2>1, <2>2, <2>3, <2>4, <1>1, <1>3
<1>6. RebuiltWindow(files) \in [first : Nat, last : Nat]
  <2> DEFINE naming == {f \in files : StatementEvents(f) # {}}
             first == {f \in naming :
                         /\ \A g \in naming : f.period.start <= g.period.start
                         /\ window = Unseen \/ f.period.start < window.first}
             last  == {f \in naming :
                         /\ \A g \in naming : f.period.end >= g.period.end
                         /\ window = Unseen \/ f.period.end > window.last}
  <2>1. window.first \in Nat /\ window.last \in Nat
    BY DEF TablesType
  <2>2. first # {} => (CHOOSE f \in first : TRUE) \in files
    OBVIOUS
  <2>3. last # {} => (CHOOSE f \in last : TRUE) \in files
    OBVIOUS
  <2> HIDE DEF first, last
  <2>4. RebuiltWindow(files) =
          [first |-> IF first = {} THEN window.first
                     ELSE (CHOOSE f \in first : TRUE).period.start,
           last  |-> IF last = {} THEN window.last
                     ELSE (CHOOSE f \in last : TRUE).period.end]
    BY DEF RebuiltWindow, first, last
  <2> QED BY <2>1, <2>2, <2>3, <2>4, <1>1
<1> QED BY <1>4, <1>5, <1>6
LEMMA WriteTypes ==
    ASSUME TablesType, NEW source \in RowSource, NEW f,
           f \in FlexFile \/ f \in StatementFile,
           NEW events \in SUBSET Event, Write(source, f, events)
    PROVE  /\ snapshot' \in Point
           /\ cash' \in [start : Point, end : Point]
           /\ window' \in [first : Nat, last : Nat]
<1>1. f.period \in [start : Nat, end : Nat]
  BY FilesAreFiles
<1>2. [source |-> source, asOf |-> f.period.end] \in Point
  BY <1>1, PointTypes
<1>3. MergeCashPoints(cash, source, f.period) \in [start : Point, end : Point]
  BY <1>1, MergedTypes DEF TablesType
<1>4. MergeContract(window, f.period.start, f.period.end) \in [first : Nat, last : Nat]
  BY <1>1, WindowTypes DEF TablesType
<1> QED BY <1>2, <1>3, <1>4 DEF Write, TablesType

LEMMA TypeInductive ==
    ASSUME TypeOK, [Next]_vars
    PROVE  TypeOK'
<1>0. RowsType /\ TablesType
  BY TypeSplit
<1>p. RowsType' /\ TablesType' => TypeOK'
  BY DEF TypeOK, RowsType, TablesType, LedgerRow
<1> USE DEF RowsType
<1>1. ASSUME NEW f \in FlexFile, ImportFlex(f) PROVE TypeOK'
  <2>1. RowsType'
    BY <1>0, <1>1, FlexStep
  <2>2. snapshot' \in Point /\ cash' \in [start : Point, end : Point]
          /\ window' \in [first : Nat, last : Nat]
    BY <1>0, <1>1, FileEvents, WriteTypes DEF ImportFlex, RowSource
  <2>3. warned' \subseteq {Kind[e] : e \in Event}
    <3> DEFINE plan == PlanImport(rows, "flex", FlexEvents(f), f.period)
    <3>1. plan.delete \subseteq LedgerRow
      BY <1>0 DEF PlanImport, PlanFlex, FlexRetires
    <3>2. warned' = warned \cup {Kind[r.event] : r \in plan.delete}
      BY <1>1 DEF ImportFlex, Write
    <3> QED BY <3>1, <3>2, <1>0 DEF TablesType, LedgerRow
  <2> QED BY <2>1, <2>2, <2>3, <1>0, <1>1, <1>p DEF TablesType, ImportFlex
<1>2. ASSUME NEW f \in StatementFile, ImportStatement(f) PROVE TypeOK'
  <2>1. RowsType'
    BY <1>0, <1>2, StatementStep
  <2>2. snapshot' \in Point /\ cash' \in [start : Point, end : Point]
          /\ window' \in [first : Nat, last : Nat]
    BY <1>0, <1>2, FileEvents, WriteTypes DEF ImportStatement, RowSource
  <2>3. warned' = warned
    BY <1>2 DEF ImportStatement, Write
  <2> QED BY <2>1, <2>2, <2>3, <1>0, <1>2, <1>p DEF TablesType, ImportStatement
<1>3. ASSUME NEW day \in 1..MaxDay, NEW events \in SUBSET Executed,
             SyncAgent(day, events)
      PROVE  TypeOK'
  <2>0. day \in Nat
    BY FileAssumption
  <2>1. RowsType'
    BY <1>0, <1>3, AgentStep
  <2>2. [source |-> "agent", asOf |-> day] \in Point
    BY <2>0, PointTypes DEF RowSource
  <2>3. MergeContract(window, day, day) \in [first : Nat, last : Nat]
    BY <2>0, <1>0, WindowTypes DEF TablesType
  <2> QED BY <2>1, <2>2, <2>3, <1>0, <1>3, <1>p DEF TablesType, SyncAgent
<1>4. ASSUME NEW files \in SUBSET statements, Rebuild(files) PROVE TypeOK'
  <2>1. files \in SUBSET StatementFile
    BY <1>0 DEF TablesType
  <2>2. RowsType'
    BY <1>0, <1>4, RebuildRows DEF Rebuild
  <2> QED BY <2>1, <2>2, <1>0, <1>4, <1>p, RebuiltTypes DEF TablesType, Rebuild
<1>5. CASE ClearDerived
  BY <1>0, <1>5, <1>p DEF ClearDerived, TablesType, None, Unseen, Point
<1>6. CASE Tick
  BY <1>0, <1>6, <1>p DEF Tick, TablesType
<1>7. CASE UNCHANGED vars
  BY <1>7 DEF vars, TypeOK
<1> QED BY <1>1, <1>2, <1>3, <1>4, <1>5, <1>6, <1>7
        DEF Next, ImportStep, RebuildStep, Replay, DeleteStatement

\* Every table holds what its schema allows, whatever the files and the stamps.
THEOREM TypeSafe == Spec => []TypeOK
<1>1. Init => TypeOK
  BY DEF Init, TypeOK, None, Unseen, Point
<1>2. TypeOK /\ [Next]_vars => TypeOK'
  BY TypeInductive
<1> QED BY <1>1, <1>2, PTL DEF Spec

-----------------------------------------------------------------------------
\* Range ownership.  The two disjointness invariants are inductive together with
\* the type of the rows: each handler only ever adds rows on one side of the
\* ranges of the other sources, or retires what it finds inside its own.

\* Flex and statement rows never share a day.
LEMMA FlexStatementInductive ==
    ASSUME TypeOK, FlexStatementDisjoint, [Next]_vars
    PROVE  FlexStatementDisjoint'
<1>0. rows \subseteq LedgerRow
  BY TypeSplit DEF RowsType
<1> SUFFICES ASSUME NEW f \in rows', f.source = "flex",
                    NEW r \in rows', r.source = "statement_html",
                    RowDay(f) = RowDay(r)
             PROVE  FALSE
  BY DEF FlexStatementDisjoint, RowsOf
<1>d. \A x \in LedgerRow : RowDay(x) \in Nat
  BY RowDays
<1>1. ASSUME NEW file \in FlexFile, ImportFlex(file) PROVE FALSE
  <2> DEFINE batch == FlexBatch(file)
  <2>1. rows' = (rows \ FlexRetires(rows, batch)) \cup batch
        /\ batch \subseteq LedgerRow /\ \A k \in batch : k.source = "flex"
    BY <1>1, FlexStep
  <2> HIDE DEF batch
  <2>2. r \in rows /\ r \notin FlexRetires(rows, batch)
    BY <2>1
  <2>3. CASE f \in batch
    <3>1. UpperDay(r) = RowDay(r)
      BY DEF UpperDay
    <3> QED BY <2>2, <2>3, <3>1, <2>1, <1>0, <1>d DEF FlexRetires
  <2>4. CASE f \in rows
    BY <2>2, <2>4 DEF FlexStatementDisjoint, RowsOf
  <2> QED BY <2>1, <2>3, <2>4
<1>2. ASSUME NEW file \in StatementFile, ImportStatement(file) PROVE FALSE
  <2> DEFINE batch == StatementBatch(rows, file)
  <2>1. rows' = (rows \ StatementReplaces(rows, batch, file.period)) \cup batch
        /\ batch \subseteq LedgerRow /\ \A k \in batch : k.source = "statement_html"
    BY <1>2, StatementStep
  <2>2. \A k \in batch : BeforeFlex(rows, RowDay(k))
    BY DEF StatementBatch
  <2> HIDE DEF batch
  <2>3. f \in rows
    BY <2>1
  <2>4. CASE r \in batch
    BY <2>2, <2>3, <2>4, <2>1, <1>d DEF BeforeFlex, RowsOf
  <2>5. CASE r \in rows
    BY <2>3, <2>5 DEF FlexStatementDisjoint, RowsOf
  <2> QED BY <2>1, <2>4, <2>5
<1>3. ASSUME NEW day, NEW events \in SUBSET Executed, SyncAgent(day, events)
      PROVE  FALSE
  <2>1. PICK laid \in SUBSET LedgerRow :
          rows' = rows \cup laid /\ \A a \in laid : a.source = "agent"
    BY <1>3, AgentStep
  <2>2. f \in rows /\ r \in rows
    BY <2>1
  <2> QED BY <2>2 DEF FlexStatementDisjoint, RowsOf
<1>4. ASSUME NEW files, Rebuild(files) PROVE FALSE
  <2>1. rows' = {x \in rows : x.source # "statement_html"} \cup RebuiltRows(files)
    BY <1>4 DEF Rebuild
  <2>2. f \in rows
    BY <2>1, RebuildRows
  <2>3. r \in LedgerRow /\ BeforeFlex(rows, RowDay(r))
    BY <2>1, RebuildRows
  <2> QED BY <2>2, <2>3, <1>d DEF BeforeFlex, RowsOf
<1>5. CASE UNCHANGED rows
  BY <1>5 DEF FlexStatementDisjoint, RowsOf
<1>6. CASE ClearDerived
  BY <1>6 DEF ClearDerived
<1> QED BY <1>1, <1>2, <1>3, <1>4, <1>5, <1>6
        DEF Next, ImportStep, RebuildStep, Replay, DeleteStatement, Tick, vars

\* No agent row belongs to the market day of a Flex row.
LEMMA FlexAgentInductive ==
    ASSUME TypeOK, FlexAgentDisjoint, [Next]_vars
    PROVE  FlexAgentDisjoint'
<1>0. rows \subseteq LedgerRow
  BY TypeSplit DEF RowsType
<1> SUFFICES ASSUME NEW f \in rows', f.source = "flex",
                    NEW a \in rows', a.source = "agent",
                    RowDay(f) = RowMarketDay(a)
             PROVE  FALSE
  BY DEF FlexAgentDisjoint, RowsOf
<1>d. \A x \in LedgerRow : /\ RowDay(x) \in Nat /\ RowMarketDay(x) \in Int
                     /\ RowMarketDay(x) <= RowDay(x)
  BY RowDays
<1>1. ASSUME NEW file \in FlexFile, ImportFlex(file) PROVE FALSE
  <2> DEFINE batch == FlexBatch(file)
  <2>1. rows' = (rows \ FlexRetires(rows, batch)) \cup batch
        /\ batch \subseteq LedgerRow /\ \A k \in batch : k.source = "flex"
    BY <1>1, FlexStep
  <2> HIDE DEF batch
  <2>2. a \in rows /\ a \notin FlexRetires(rows, batch)
    BY <2>1
  <2>3. CASE f \in batch
    <3>1. UpperDay(a) = RowMarketDay(a)
      BY DEF UpperDay
    <3> QED BY <2>2, <2>3, <3>1, <2>1, <1>0, <1>d DEF FlexRetires
  <2>4. CASE f \in rows
    BY <2>2, <2>4 DEF FlexAgentDisjoint, RowsOf
  <2> QED BY <2>1, <2>3, <2>4
<1>2. ASSUME NEW file \in StatementFile, ImportStatement(file) PROVE FALSE
  <2>1. f \in rows /\ a \in rows
    BY <1>2, StatementStep
  <2> QED BY <2>1 DEF FlexAgentDisjoint, RowsOf
<1>3. ASSUME NEW day, NEW events \in SUBSET Executed, SyncAgent(day, events)
      PROVE  FALSE
  <2>1. PICK laid \in SUBSET LedgerRow :
          /\ rows' = rows \cup laid
          /\ \A x \in laid : x.source = "agent" /\ AfterFlex(rows, x)
    BY <1>3, AgentStep
  <2>2. f \in rows
    BY <2>1
  <2>3. CASE a \in laid
    BY <2>1, <2>2, <2>3, <1>0, <1>d DEF AfterFlex, RowsOf
  <2>4. CASE a \in rows
    BY <2>2, <2>4 DEF FlexAgentDisjoint, RowsOf
  <2> QED BY <2>1, <2>3, <2>4
<1>4. ASSUME NEW files, Rebuild(files) PROVE FALSE
  <2>1. f \in rows /\ a \in rows
    BY <1>4, RebuildRows DEF Rebuild
  <2> QED BY <2>1 DEF FlexAgentDisjoint, RowsOf
<1>5. CASE UNCHANGED rows
  BY <1>5 DEF FlexAgentDisjoint, RowsOf
<1>6. CASE ClearDerived
  BY <1>6 DEF ClearDerived
<1> QED BY <1>1, <1>2, <1>3, <1>4, <1>5, <1>6
        DEF Next, ImportStep, RebuildStep, Replay, DeleteStatement, Tick, vars

IInv == TypeOK /\ FlexStatementDisjoint /\ FlexAgentDisjoint

LEMMA Invariance == Spec => []IInv
<1>1. Init => IInv
  BY DEF Init, IInv, TypeOK, None, Unseen, Point, FlexStatementDisjoint,
         FlexAgentDisjoint, RowsOf
<1>2. IInv /\ [Next]_vars => IInv'
  BY TypeInductive, FlexStatementInductive, FlexAgentInductive DEF IInv
<1> QED BY <1>1, <1>2, PTL DEF Spec

\* In any order of imports, rebuilds and purges, of any files: no day is written
\* by Flex and by a statement both.
THEOREM FlexStatementSafe == Spec => []FlexStatementDisjoint
<1>1. IInv => FlexStatementDisjoint
  BY DEF IInv
<1> QED BY <1>1, Invariance, PTL

\* ... and no agent row belongs to the market day of a Flex row.
THEOREM FlexAgentSafe == Spec => []FlexAgentDisjoint
<1>1. IInv => FlexAgentDisjoint
  BY DEF IInv
<1> QED BY <1>1, Invariance, PTL

\* An event Flex reports is counted once, from the two disjointness invariants:
\* a second row of it would share its day, or its market day.
THEOREM CountedOnceSafe == Spec => []CountedOnce
<1>1. IInv => CountedOnce
  <2> SUFFICES ASSUME IInv, NEW f \in rows, f.source = "flex", NEW r \in rows,
                      r.event = f.event,
                      r.source = "agent" => StampsAgree(r.event)
               PROVE  r = f
    BY DEF CountedOnce, RowsOf
  <2>0. f \in LedgerRow /\ r \in LedgerRow
    BY DEF IInv, TypeOK, LedgerRow
  <2>1. RowDay(f) = FileWhen[f.event].day
    BY DEF RowDay, When, DayOf
  <2>2. r.source # "statement_html"
    <3> SUFFICES ASSUME r.source = "statement_html" PROVE FALSE
      OBVIOUS
    <3>1. RowDay(r) = FileWhen[f.event].day
      BY DEF RowDay, When, DayOf
    <3> QED BY <2>1, <3>1 DEF IInv, FlexStatementDisjoint, RowsOf
  <2>3. r.source # "agent"
    <3> SUFFICES ASSUME r.source = "agent" PROVE FALSE
      OBVIOUS
    <3>1. RowMarketDay(r) = FileWhen[f.event].day
      BY DEF RowMarketDay, When, StampsAgree
    <3> QED BY <2>1, <3>1 DEF IInv, FlexAgentDisjoint, RowsOf
  <2>4. r.source = "flex"
    BY <2>0, <2>2, <2>3 DEF LedgerRow, RowSource
  <2> QED BY <2>0, <2>4 DEF LedgerRow
<1> QED BY <1>1, Invariance, PTL

\* A row Flex once wrote only leaves the ledger by a purge.
THEOREM FlexRowsStaySafe == Spec => FlexRowsStay
<1>1. TypeOK /\ [Next]_vars =>
        [RowsOf(rows, "flex") \subseteq RowsOf(rows', "flex") \/ rows' = {}]_vars
  <2> SUFFICES ASSUME TypeOK, [Next]_vars, rows' # {},
                      NEW x \in rows, x.source = "flex"
               PROVE  x \in rows'
    BY DEF RowsOf
  <2>1. ASSUME NEW f \in FlexFile, ImportFlex(f) PROVE x \in rows'
    BY <2>1, FlexStep DEF FlexRetires
  <2>2. ASSUME NEW f \in StatementFile, ImportStatement(f) PROVE x \in rows'
    BY <2>2, StatementStep DEF StatementReplaces, RowsOf
  <2>3. ASSUME NEW day, NEW events \in SUBSET Executed, SyncAgent(day, events)
        PROVE  x \in rows'
    BY <2>3, AgentStep
  <2>4. ASSUME NEW files, Rebuild(files) PROVE x \in rows'
    BY <2>4 DEF Rebuild
  <2>5. CASE ClearDerived
    BY <2>5 DEF ClearDerived
  <2>6. CASE UNCHANGED rows
    BY <2>6
  <2> QED BY <2>1, <2>2, <2>3, <2>4, <2>5, <2>6
          DEF Next, ImportStep, RebuildStep, Replay, DeleteStatement, Tick, vars
<1> QED BY <1>1, TypeSafe, PTL DEF Spec, FlexRowsStay

-----------------------------------------------------------------------------
\* What an import may not lose.

\* An event reported on time is in every file that covers its day.
LEMMA OnTimeIsEverywhere ==
    ASSUME NEW e \in Event, OnTime(e), NEW f, f \in FlexFile \/ f \in StatementFile,
           Within(FileWhen[e].day, f.period)
    PROVE  e \in FlexEvents(f) /\ e \in StatementEvents(f)
<1>1. FileWhen[e].day \in Nat
  BY EventAssumption DEF Instant
<1>2. f.period \in [start : Nat, end : Nat] /\ f.taken \in Nat /\ f.period.end < f.taken
  BY FilesAreFiles
<1>3. KnownFrom[e] < f.taken
  BY <1>1, <1>2 DEF Within, OnTime
<1> QED BY <1>3 DEF FlexEvents, StatementEvents, OnTime

StatementRow(e) == [source |-> "statement_html", event |-> e]

LEMMA StatementRowDays ==
    ASSUME NEW e \in Event
    PROVE  /\ StatementRow(e) \in LedgerRow
           /\ RowDay(StatementRow(e)) = FileWhen[e].day
           /\ UpperDay(StatementRow(e)) = FileWhen[e].day
           /\ FileWhen[e].day \in Nat
BY EventAssumption DEF StatementRow, LedgerRow, RowSource, RowDay, UpperDay, When, DayOf, Instant

\* Statements only write before Flex, and what Flex retires is no longer there.
LEMMA KeptFilesInductive ==
    ASSUME TypeOK, KeptFilesAreInTheLedger, [Next]_vars
    PROVE  KeptFilesAreInTheLedger'
<1>0. rows \subseteq LedgerRow /\ statements \subseteq StatementFile
  BY TypeSplit DEF RowsType, TablesType
<1>d. \A x \in LedgerRow : RowDay(x) \in Nat
  BY RowDays
<1> SUFFICES ASSUME rebuilt', NEW f \in statements', NEW e \in StatementEvents(f),
                    OnTime(e), BeforeFlex(rows', FileWhen[e].day)
             PROVE  StatementRow(e) \in rows'
  BY DEF KeptFilesAreInTheLedger, StatementRow
<1>e. e \in Event /\ Within(FileWhen[e].day, f.period)
  BY DEF StatementEvents
<1>s. /\ StatementRow(e) \in LedgerRow
      /\ RowDay(StatementRow(e)) = FileWhen[e].day
      /\ UpperDay(StatementRow(e)) = FileWhen[e].day
      /\ FileWhen[e].day \in Nat
  BY <1>e, StatementRowDays
<1>k. ASSUME rebuilt, f \in statements, BeforeFlex(rows, FileWhen[e].day)
      PROVE  StatementRow(e) \in rows
  BY <1>k DEF KeptFilesAreInTheLedger, StatementRow
<1>1. ASSUME NEW file \in FlexFile, ImportFlex(file) PROVE StatementRow(e) \in rows'
  <2> DEFINE batch == FlexBatch(file)
  <2>1. rows' = (rows \ FlexRetires(rows, batch)) \cup batch
        /\ batch \subseteq LedgerRow /\ \A k \in batch : k.source = "flex"
    BY <1>1, FlexStep
  <2> HIDE DEF batch
  <2>2. BeforeFlex(rows, FileWhen[e].day)
    BY <2>1 DEF BeforeFlex, RowsOf, FlexRetires
  <2>3. StatementRow(e) \in rows
    BY <1>k, <1>1, <2>2 DEF ImportFlex
  <2>4. \A k \in batch : FileWhen[e].day < RowDay(k)
    BY <2>1 DEF BeforeFlex, RowsOf
  <2>5. StatementRow(e) \notin FlexRetires(rows, batch)
    BY <2>4, <2>1, <1>s, <1>d DEF FlexRetires
  <2> QED BY <2>1, <2>3, <2>5
<1>2. ASSUME NEW file \in StatementFile, ImportStatement(file)
      PROVE  StatementRow(e) \in rows'
  <2> DEFINE batch == StatementBatch(rows, file)
  <2>1. /\ rows' = (rows \ StatementReplaces(rows, batch, file.period)) \cup batch
        /\ \A k \in batch : k.source = "statement_html"
    BY <1>2, StatementStep
  <2>2. BeforeFlex(rows, FileWhen[e].day)
    BY <2>1 DEF BeforeFlex, RowsOf, StatementReplaces
  <2>3. ASSUME e \in StatementEvents(file) PROVE StatementRow(e) \in batch
    BY <2>2, <2>3, <1>s DEF StatementBatch, RowsFor, StatementRow
  <2>4. CASE f = file
    BY <2>1, <2>3, <2>4
  <2>5. CASE f \in statements
    <3>1. StatementRow(e) \in rows
      BY <1>k, <1>2, <2>2, <2>5 DEF ImportStatement
    <3>2. Within(FileWhen[e].day, file.period) => e \in StatementEvents(file)
      BY <1>e, OnTimeIsEverywhere
    <3>3. StatementRow(e) \in batch \/ StatementRow(e) \notin StatementReplaces(rows, batch, file.period)
      BY <3>2, <2>3, <1>s DEF StatementReplaces
    <3> QED BY <2>1, <3>1, <3>3
  <2> QED BY <2>4, <2>5, <1>2 DEF ImportStatement
<1>3. ASSUME NEW day, NEW events \in SUBSET Executed, SyncAgent(day, events)
      PROVE  StatementRow(e) \in rows'
  <2>1. PICK laid \in SUBSET LedgerRow : rows' = rows \cup laid
    BY <1>3, AgentStep
  <2>2. BeforeFlex(rows, FileWhen[e].day)
    BY <2>1 DEF BeforeFlex, RowsOf
  <2> QED BY <2>1, <2>2, <1>k, <1>3 DEF SyncAgent
<1>4. ASSUME NEW files \in SUBSET statements, Rebuild(files)
      PROVE  StatementRow(e) \in rows'
  <2>1. rows' = {x \in rows : x.source # "statement_html"} \cup RebuiltRows(files)
        /\ f \in files
    BY <1>4 DEF Rebuild
  <2>2. BeforeFlex(rows, FileWhen[e].day)
    BY <2>1 DEF BeforeFlex, RowsOf
  <2>3. \A g \in files : Within(FileWhen[e].day, g.period) => e \in StatementEvents(g)
    BY <1>0, <1>e, OnTimeIsEverywhere
  <2>4. StatementRow(e) \in RebuiltRows(files)
    BY <2>1, <2>2, <2>3 DEF RebuiltRows, RowsFor, StatementRow
  <2> QED BY <2>1, <2>4
<1>5. CASE ClearDerived
  BY <1>5 DEF ClearDerived
<1>6. CASE UNCHANGED <<rows, statements, rebuilt>>
  BY <1>6, <1>k
<1> QED BY <1>1, <1>2, <1>3, <1>4, <1>5, <1>6
        DEF Next, ImportStep, RebuildStep, Replay, DeleteStatement, Tick, vars

\* Between a rebuild and a purge, the kept statements are in the ledger wherever
\* Flex has not taken over, after any sequence of imports.
THEOREM KeptFilesSafe == Spec => []KeptFilesAreInTheLedger
<1>1. Init => KeptFilesAreInTheLedger
  BY DEF Init, KeptFilesAreInTheLedger
<1>2. TypeOK /\ KeptFilesAreInTheLedger /\ [Next]_vars => KeptFilesAreInTheLedger'
  BY KeptFilesInductive
<1> QED BY <1>1, <1>2, TypeSafe, PTL DEF Spec

\* What Flex retires of another source's on-time event, it reports itself, unless
\* it is the night its window opens in; what a statement replaces, it carries.
THEOREM ImportLosesNothingSafe == Spec => ImportLosesNothing
<1> DEFINE Step ==
      \A r \in Lost :
        OnTime(r.event) /\ (r.source = "agent" => StampsAgree(r.event)) =>
            \/ ~ImportStep
            \/ \E f \in FlexFile : NightBefore(r, f) /\ ImportFlex(f)
<1>1. TypeOK /\ [Next]_vars => [Step]_vars
  <2> SUFFICES ASSUME TypeOK, NEW r \in rows, r.event \notin EventsOf(rows'),
                      OnTime(r.event), r.source = "agent" => StampsAgree(r.event),
                      ImportStep
               PROVE  \E f \in FlexFile : NightBefore(r, f) /\ ImportFlex(f)
    BY DEF Lost
  <2>0. r \in LedgerRow /\ r.event \in Event /\ rows \subseteq LedgerRow
    BY DEF TypeOK, LedgerRow
  <2>l. r \notin rows' /\ \A x \in rows' : x.event # r.event
    BY DEF EventsOf
  <2>1. ASSUME NEW f \in FlexFile, ImportFlex(f) PROVE NightBefore(r, f)
    <3> DEFINE batch == FlexBatch(f)
               day == FileWhen[r.event].day
    <3>1. rows' = (rows \ FlexRetires(rows, batch)) \cup batch
          /\ batch \subseteq LedgerRow /\ \A k \in batch : k.source = "flex"
      BY <2>1, FlexStep
    <3>2. \A k \in batch : /\ k.event \in FlexEvents(f) /\ k.event \in Event
                           /\ RowDay(k) = FileWhen[k.event].day
                           /\ RowDay(k) >= f.period.start
      BY <3>1, FileEvents DEF FlexBatch, FlexWrites, RowsFor, RowDay, When, DayOf
    <3>3. \A k \in batch : RowDay(k) <= f.period.end
      <4> SUFFICES ASSUME NEW k \in batch PROVE RowDay(k) <= f.period.end
        OBVIOUS
      <4>1. KnownFrom[k.event] <= f.period.end
        BY <3>2 DEF FlexEvents, Within
      <4>2. FileWhen[k.event].day <= KnownFrom[k.event]
        BY <3>2, KnownAssumption
      <4>3. FileWhen[k.event].day \in Nat /\ KnownFrom[k.event] \in Nat
        BY <3>2, EventAssumption DEF Instant
      <4>4. f.period.end \in Nat
        BY FilesAreFiles
      <4> QED BY <4>1, <4>2, <4>3, <4>4, <3>2
    <3>4. ASSUME Within(day, f.period) PROVE FALSE
      <4>1. r.event \in FlexEvents(f)
        BY <3>4, <2>0, OnTimeIsEverywhere
      <4>2. [source |-> "flex", event |-> r.event] \in batch
        BY <4>1, <3>4 DEF FlexBatch, FlexWrites, RowsFor, RowDay, When, DayOf, Within
      <4> QED BY <4>2, <3>1, <2>l
    <3> HIDE DEF batch
    <3>5. r \in FlexRetires(rows, batch)
      BY <3>1, <2>l
    <3>6. PICK k \in batch : RowDay(k) <= RowDay(r)
      BY <3>5 DEF FlexRetires
    <3>7. PICK m \in batch : UpperDay(r) <= RowDay(m)
      BY <3>5 DEF FlexRetires
    <3>8. /\ day \in Nat /\ f.period.start \in Nat /\ f.period.end \in Nat
          /\ RowDay(k) \in Nat /\ RowDay(m) \in Nat /\ RowDay(r) \in Nat
          /\ RowMarketDay(r) \in Int
      BY <2>0, <3>1, EventAssumption, FilesAreFiles, RowDays DEF Instant
    <3>9. CASE r.source = "agent"
      <4>1. RowMarketDay(r) = day /\ UpperDay(r) = day
        BY <3>9 DEF StampsAgree, RowMarketDay, When, UpperDay
      <4>2. day <= f.period.end
        BY <4>1, <3>3, <3>7, <3>8
      <4> QED BY <4>1, <4>2, <3>4, <3>8, <3>9 DEF NightBefore, Within
    <3>10. CASE r.source # "agent"
      <4>1. RowDay(r) = day /\ UpperDay(r) = day
        BY <3>10 DEF RowDay, UpperDay, When, DayOf
      <4>2. Within(day, f.period)
        BY <4>1, <3>2, <3>3, <3>6, <3>7, <3>8 DEF Within
      <4> QED BY <4>2, <3>4
    <3> QED BY <3>9, <3>10
  <2>2. ASSUME NEW f \in StatementFile, ImportStatement(f) PROVE FALSE
    <3> DEFINE batch == StatementBatch(rows, f)
    <3>1. rows' = (rows \ StatementReplaces(rows, batch, f.period)) \cup batch
      BY <2>2, StatementStep
    <3>2. r \in StatementReplaces(rows, batch, f.period)
      BY <3>1, <2>l
    <3>3. /\ r.source = "statement_html"
          /\ Within(RowDay(r), f.period)
          /\ BeforeFlex(rows, RowDay(r))
      BY <3>2 DEF StatementReplaces, RowsOf
    <3>4. RowDay(r) = FileWhen[r.event].day
      BY <3>3 DEF RowDay, When, DayOf
    <3>5. r.event \in StatementEvents(f)
      BY <3>3, <3>4, <2>0, OnTimeIsEverywhere
    <3>6. StatementRow(r.event) \in batch
      BY <3>3, <3>4, <3>5, <2>0, StatementRowDays
         DEF StatementBatch, RowsFor, StatementRow
    <3> QED BY <3>1, <3>6, <2>l DEF StatementRow
  <2>3. ASSUME NEW day, NEW events \in SUBSET Executed, SyncAgent(day, events)
        PROVE  FALSE
    BY <2>3, <2>l, AgentStep
  <2> QED BY <2>1, <2>2, <2>3 DEF ImportStep
<1> QED BY <1>1, TypeSafe, PTL DEF Spec, ImportLosesNothing
-----------------------------------------------------------------------------
\* The tables beside the ledger follow the files kept.

\* A statement covers days before the one it was downloaded on, and no file is
\* kept before it was downloaded.
KeptWereTaken == \A f \in statements : f.taken <= now

Days(f) == /\ f.period.start \in Nat /\ f.period.end \in Nat /\ f.taken \in Nat
           /\ 0 < f.period.start /\ f.period.start <= f.period.end
           /\ f.period.end < f.taken

LEMMA FileDays ==
    ASSUME NEW f, f \in FlexFile \/ f \in StatementFile
    PROVE  Days(f)
BY FileAssumption DEF File, Days

\* What the tables say of one kept file.
SnapshotReflects(s, f) == f.positions => s # None /\ s.asOf >= f.period.end
CashReflects(c, f) ==
    f.cash => /\ c.end # None /\ c.end.asOf >= f.period.end
              /\ c.start # None /\ c.start.asOf <= f.period.start
WindowReflects(w, f) ==
    StatementEvents(f) # {} =>
        w # Unseen /\ w.first <= f.period.start /\ w.last >= f.period.end

LEMMA ReflectedSplit ==
    KeptFilesAreReflected <=>
        (rebuilt => \A f \in statements : /\ SnapshotReflects(snapshot, f)
                                          /\ CashReflects(cash, f)
                                          /\ WindowReflects(window, f))
BY DEF KeptFilesAreReflected, SnapshotReflects, CashReflects, WindowReflects

\* A snapshot of a file only gives way to one of its day or a later one.
LEMMA SnapshotAdvances ==
    ASSUME TablesType, NEW source \in {"flex", "statement_html"},
           NEW f, f \in FlexFile \/ f \in StatementFile,
           NEW events, Write(source, f, events)
    PROVE  /\ SnapshotReflects(snapshot', f)
           /\ \A g \in StatementFile :
                SnapshotReflects(snapshot, g) => SnapshotReflects(snapshot', g)
<1>1. Days(f) /\ \A g \in StatementFile : Days(g)
  BY FileDays
<1>2. snapshot = None \/ snapshot.asOf \in Nat
  BY DEF TablesType, Point
<1>3. snapshot' = IF f.positions /\ ShouldReplaceSnapshot(snapshot, source, f.period.end)
                  THEN [source |-> source, asOf |-> f.period.end] ELSE snapshot
  BY DEF Write
<1>4. [source |-> source, asOf |-> f.period.end] # None
  BY DEF None
<1>5. [source |-> source, asOf |-> f.period.end].asOf = f.period.end
  OBVIOUS
<1>6. source # "agent"
  OBVIOUS
<1> QED BY <1>1, <1>2, <1>3, <1>4, <1>5, <1>6 DEF Days, SnapshotReflects, ShouldReplaceSnapshot

\* The cash points of a file only give way outwards.
LEMMA CashWidens ==
    ASSUME TablesType, NEW source \in {"flex", "statement_html"},
           NEW f, f \in FlexFile \/ f \in StatementFile,
           NEW events, Write(source, f, events)
    PROVE  /\ CashReflects(cash', f)
           /\ \A g \in StatementFile : CashReflects(cash, g) => CashReflects(cash', g)
<1> DEFINE start == [source |-> source, asOf |-> f.period.start]
           end   == [source |-> source, asOf |-> f.period.end]
<1>1. Days(f) /\ \A g \in StatementFile : Days(g)
  BY FileDays
<1>2. /\ cash.start = None \/ cash.start.asOf \in Nat
      /\ cash.end = None \/ cash.end.asOf \in Nat
  BY DEF TablesType, Point
<1>3. start # None /\ end # None /\ start.asOf = f.period.start /\ end.asOf = f.period.end
  BY DEF None
<1> HIDE DEF start, end
<1>4. f.cash =>
        /\ cash'.start = IF cash.start = None \/ start.asOf <= cash.start.asOf
                         THEN start ELSE cash.start
        /\ cash'.end = IF cash.end = None \/ end.asOf >= cash.end.asOf
                       THEN end ELSE cash.end
  BY DEF Write, MergeCashPoints, start, end
<1>5. ~f.cash => cash' = cash
  BY DEF Write
<1>6. CashReflects(cash', f)
  BY <1>1, <1>2, <1>3, <1>4 DEF CashReflects, Days
<1>7. ASSUME NEW g \in StatementFile, CashReflects(cash, g) PROVE CashReflects(cash', g)
  <2>1. CASE ~f.cash
    BY <1>5, <1>7, <2>1
  <2>2. CASE f.cash
    <3>1. ASSUME g.cash PROVE cash'.end # None /\ cash'.end.asOf >= g.period.end
      BY <1>1, <1>2, <1>3, <1>4, <1>7, <2>2, <3>1 DEF CashReflects, Days
    <3>2. ASSUME g.cash PROVE cash'.start # None /\ cash'.start.asOf <= g.period.start
      BY <1>1, <1>2, <1>3, <1>4, <1>7, <2>2, <3>2 DEF CashReflects, Days
    <3> QED BY <3>1, <3>2 DEF CashReflects
  <2> QED BY <2>1, <2>2
<1> QED BY <1>6, <1>7

\* A contract's window only widens.
LEMMA WindowWidens ==
    ASSUME NEW w \in [first : Nat, last : Nat], NEW start \in Nat, NEW end \in Nat,
           0 < start, start <= end
    PROVE  LET m == MergeContract(w, start, end)
           IN  /\ m # Unseen /\ m.first <= start /\ m.last >= end
               /\ \A g \in StatementFile : WindowReflects(w, g) => WindowReflects(m, g)
<1> DEFINE m == MergeContract(w, start, end)
<1>1. m.first \in Nat /\ m.last \in Nat /\ m.first <= start /\ m.last >= end
  BY DEF MergeContract
<1>2. w # Unseen => m.first <= w.first /\ m.last >= w.last
  BY DEF MergeContract
<1>3. m # Unseen
  BY <1>1 DEF Unseen
<1> HIDE DEF m
<1>4. ASSUME NEW g \in StatementFile, WindowReflects(w, g) PROVE WindowReflects(m, g)
  BY <1>1, <1>2, <1>3, <1>4, FileDays DEF WindowReflects, Days
<1> QED BY <1>1, <1>3, <1>4 DEF m

\* A rebuild lays the positions of the latest declared period, unless another
\* source's are later.
LEMMA RebuiltSnapshotReflects ==
    ASSUME TablesType, KeptWereTaken, NEW files \in SUBSET statements,
           NEW g \in files, g.positions
    PROVE  /\ RebuiltSnapshot(files) # None
           /\ RebuiltSnapshot(files).asOf >= g.period.end
<1> DEFINE owned == snapshot.source \in {"none", "statement_html"}
           point(f) == [source |-> "statement_html", asOf |-> f.period.end]
           placed == {f \in files : f.positions}
           dated == {point(f) : f \in placed}
           latest == {p \in dated : \A q \in dated : q.asOf <= p.asOf}
           days == {f.period.end : f \in placed}
<1>1. \A f \in files : Days(f) /\ f.taken <= now
  BY FileDays DEF TablesType, KeptWereTaken
<1>2. \A f \in files : f.period.end \in Nat /\ f.period.end <= now
  BY <1>1 DEF Days, TablesType
<1>3. days \subseteq Nat /\ days # {} /\ \A d \in days : d <= now
  BY <1>2
<1>4. PICK m \in days : \A k \in days : k <= m
  BY <1>3, LastOf DEF TablesType
<1>5. \A p \in dated : /\ p.source = "statement_html" /\ p.asOf \in days /\ p # None
  BY DEF None
<1>6. \A f \in placed : point(f) \in dated /\ point(f).asOf = f.period.end
  OBVIOUS
<1>7. PICK top \in dated : top.asOf = m
  BY <1>6
<1>8. top \in latest
  BY <1>4, <1>5, <1>7
<1>9. g.period.end \in days
  OBVIOUS
<1> HIDE DEF owned, point, dated, days
<1>10. \A p \in latest : p # None /\ p.asOf >= g.period.end /\ p.asOf = m
       /\ p.source = "statement_html"
  <2> SUFFICES ASSUME NEW p \in latest
               PROVE  /\ p # None /\ p.asOf >= g.period.end /\ p.asOf = m
                      /\ p.source = "statement_html"
    OBVIOUS
  <2>1. p \in dated /\ top.asOf <= p.asOf
    BY <1>7
  <2>2. p.source = "statement_html" /\ p.asOf \in days /\ p # None
    BY <2>1, <1>5
  <2>3. p.asOf <= m /\ m \in Nat /\ p.asOf \in Nat
    BY <2>2, <1>3, <1>4
  <2>4. p.asOf = m
    BY <2>1, <2>3, <1>7
  <2>5. m >= g.period.end
    BY <1>3, <1>4, <1>9
  <2> QED BY <2>2, <2>4, <2>5
<1> DEFINE chosen == CHOOSE p \in latest : TRUE
<1>11. chosen \in latest
  BY <1>8
<1>12. RebuiltSnapshot(files) =
         CASE \E p \in latest : owned \/ ShouldReplaceSnapshot(snapshot, p.source, p.asOf)
                -> chosen
           [] latest = {} /\ owned -> None
           [] OTHER -> snapshot
  BY DEF RebuiltSnapshot, owned, point, dated
<1> HIDE DEF latest, chosen
<1>13. CASE \E p \in latest : owned \/ ShouldReplaceSnapshot(snapshot, p.source, p.asOf)
  <2>1. RebuiltSnapshot(files) = chosen
    BY <1>8, <1>12, <1>13
  <2> QED BY <2>1, <1>10, <1>11
<1>14. CASE ~ \E p \in latest : owned \/ ShouldReplaceSnapshot(snapshot, p.source, p.asOf)
  <2>1. RebuiltSnapshot(files) = snapshot
    BY <1>8, <1>12, <1>14
  <2>2. ~ ShouldReplaceSnapshot(snapshot, top.source, top.asOf)
    BY <1>8, <1>14
  <2>3. snapshot # None /\ ~ (top.asOf >= snapshot.asOf)
    BY <2>2 DEF ShouldReplaceSnapshot
  <2>4. snapshot.asOf \in Nat /\ top.asOf \in Nat /\ g.period.end \in Nat
    BY <2>3, <1>2, <1>3, <1>7 DEF TablesType, Point
  <2>5. top.asOf >= g.period.end
    BY <1>8, <1>10
  <2> QED BY <2>1, <2>3, <2>4, <2>5
<1> QED BY <1>13, <1>14

\* Of some files kept, one starts first and one ends last.
LEMMA Outermost ==
    ASSUME TablesType, KeptWereTaken, NEW some \in SUBSET statements, some # {}
    PROVE  /\ \E a \in some : \A h \in some : a.period.start <= h.period.start
           /\ \E z \in some : \A h \in some : z.period.end >= h.period.end
<1> DEFINE starts == {f.period.start : f \in some}
           ends   == {f.period.end : f \in some}
<1>1. \A f \in some : Days(f) /\ f.taken <= now
  BY FileDays DEF TablesType, KeptWereTaken
<1>2. \A f \in some : /\ f.period.end \in Nat /\ f.period.end <= now
                      /\ f.period.start \in Nat
  BY <1>1 DEF Days, TablesType
<1>3. \E a \in some : \A h \in some : a.period.start <= h.period.start
  <2>1. starts \subseteq Nat /\ starts # {}
    BY <1>2
  <2>2. PICK m \in starts : \A k \in starts : m <= k
    BY <2>1, FirstOf
  <2>3. PICK a \in some : a.period.start = m
    OBVIOUS
  <2>4. \A h \in some : a.period.start <= h.period.start
    BY <2>2, <2>3
  <2> QED BY <2>4
<1>4. \E z \in some : \A h \in some : z.period.end >= h.period.end
  <2>1. ends \subseteq Nat /\ ends # {} /\ \A d \in ends : d <= now
    BY <1>2
  <2>2. PICK m \in ends : \A k \in ends : k <= m
    BY <2>1, LastOf DEF TablesType
  <2>3. PICK z \in some : z.period.end = m
    OBVIOUS
  <2>4. \A h \in some : z.period.end >= h.period.end
    BY <1>2, <2>2, <2>3
  <2> QED BY <2>4
<1> QED BY <1>3, <1>4

\* A rebuild lays the cash points of the outermost reports, unless another
\* source's lie further out.
LEMMA RebuiltCashReflects ==
    ASSUME TablesType, KeptWereTaken, NEW files \in SUBSET statements,
           NEW g \in files, g.cash
    PROVE  LET c == RebuiltCash(files)
           IN  /\ c.end # None /\ c.end.asOf >= g.period.end
               /\ c.start # None /\ c.start.asOf <= g.period.start
<1> DEFINE stands(p) == IF p.source = "statement_html" THEN None ELSE p
           start == stands(cash.start)
           end   == stands(cash.end)
           reports == {f \in files : f.cash}
           first == {f \in reports :
                       /\ \A h \in reports : f.period.start <= h.period.start
                       /\ start = None \/ f.period.start <= start.asOf}
           last  == {f \in reports :
                       /\ \A h \in reports : f.period.end >= h.period.end
                       /\ end = None \/ f.period.end >= end.asOf}
           laid(day) == [source |-> "statement_html", asOf |-> day]
           opener == CHOOSE f \in first : TRUE
           closer == CHOOSE f \in last : TRUE
<1>1. \A f \in files : Days(f) /\ f.taken <= now
  BY FileDays DEF TablesType, KeptWereTaken
<1>2. \A f \in files : /\ f.period.end \in Nat /\ f.period.end <= now
                       /\ f.period.start \in Nat
  BY <1>1 DEF Days, TablesType
<1>3. g \in reports
  OBVIOUS
<1>4. PICK a \in reports : \A h \in reports : a.period.start <= h.period.start
  BY <1>3, Outermost
<1>5. PICK z \in reports : \A h \in reports : z.period.end >= h.period.end
  BY <1>3, Outermost
<1>6. /\ start = None \/ start.asOf \in Nat
      /\ end = None \/ end.asOf \in Nat
  BY DEF TablesType, Point
<1> HIDE DEF start, end
<1>7. first # {} => opener \in first
  OBVIOUS
<1>8. last # {} => closer \in last
  OBVIOUS
<1>9. \A d : laid(d) # None /\ laid(d).asOf = d
  BY DEF None
<1>10. RebuiltCash(files) =
         [start |-> IF first = {} THEN start ELSE laid(opener.period.start),
          end   |-> IF last = {} THEN end ELSE laid(closer.period.end)]
  BY DEF RebuiltCash, start, end
<1>11. first = {} => start # None /\ start.asOf < a.period.start
  BY <1>2, <1>4, <1>6
<1>12. last = {} => end # None /\ end.asOf > z.period.end
  BY <1>2, <1>5, <1>6
<1>13. first # {} => opener.period.start <= g.period.start
  BY <1>3, <1>7
<1>14. last # {} => closer.period.end >= g.period.end
  BY <1>3, <1>8
<1> HIDE DEF opener, closer, first, last, laid
<1>15. RebuiltCash(files).start # None /\ RebuiltCash(files).start.asOf <= g.period.start
  BY <1>2, <1>3, <1>4, <1>6, <1>9, <1>10, <1>11, <1>13
<1>16. RebuiltCash(files).end # None /\ RebuiltCash(files).end.asOf >= g.period.end
  BY <1>2, <1>3, <1>5, <1>6, <1>9, <1>10, <1>12, <1>14
<1> QED BY <1>15, <1>16

\* A rebuild leaves a window that covers every file naming the contract.
LEMMA RebuiltWindowReflects ==
    ASSUME TablesType, KeptWereTaken, NEW files \in SUBSET statements,
           NEW g \in files, StatementEvents(g) # {}
    PROVE  LET w == RebuiltWindow(files)
           IN  w # Unseen /\ w.first <= g.period.start /\ w.last >= g.period.end
<1> DEFINE naming == {f \in files : StatementEvents(f) # {}}
           first == {f \in naming :
                       /\ \A h \in naming : f.period.start <= h.period.start
                       /\ window = Unseen \/ f.period.start < window.first}
           last  == {f \in naming :
                       /\ \A h \in naming : f.period.end >= h.period.end
                       /\ window = Unseen \/ f.period.end > window.last}
           opener == CHOOSE f \in first : TRUE
           closer == CHOOSE f \in last : TRUE
<1>1. \A f \in files : Days(f) /\ f.taken <= now
  BY FileDays DEF TablesType, KeptWereTaken
<1>2. \A f \in files : /\ f.period.end \in Nat /\ f.period.end <= now
                       /\ f.period.start \in Nat /\ 0 < f.period.end
  BY <1>1 DEF Days, TablesType
<1>3. g \in naming
  OBVIOUS
<1>4. PICK a \in naming : \A h \in naming : a.period.start <= h.period.start
  BY <1>3, Outermost
<1>5. PICK z \in naming : \A h \in naming : z.period.end >= h.period.end
  BY <1>3, Outermost
<1>6. window.first \in Nat /\ window.last \in Nat
  BY DEF TablesType
<1>7. first # {} => opener \in first
  OBVIOUS
<1>8. last # {} => closer \in last
  OBVIOUS
<1>9. RebuiltWindow(files) =
        [first |-> IF first = {} THEN window.first ELSE opener.period.start,
         last  |-> IF last = {} THEN window.last ELSE closer.period.end]
  BY DEF RebuiltWindow
<1>10. first = {} => window.first <= a.period.start
  BY <1>2, <1>4, <1>6
<1>11. last = {} => window.last >= z.period.end
  BY <1>2, <1>5, <1>6
<1>12. first # {} => opener.period.start <= g.period.start
  BY <1>3, <1>7
<1>13. last # {} => closer.period.end >= g.period.end /\ closer.period.end \in Nat
  BY <1>2, <1>3, <1>8
<1> HIDE DEF opener, closer, first, last
<1>14. RebuiltWindow(files).first <= g.period.start
  BY <1>2, <1>3, <1>4, <1>6, <1>9, <1>10, <1>12
<1>15. RebuiltWindow(files).last >= g.period.end /\ RebuiltWindow(files).last \in Nat
  BY <1>2, <1>3, <1>5, <1>6, <1>9, <1>11, <1>13
<1>16. RebuiltWindow(files) # Unseen
  BY <1>15, <1>2 DEF Unseen
<1> QED BY <1>14, <1>15, <1>16

\* A file is kept from the day it was downloaded on.
LEMMA KeptTakenInductive ==
    ASSUME TypeOK, KeptWereTaken, [Next]_vars
    PROVE  KeptWereTaken'
<1>0. now \in Nat /\ \A f \in statements : f.taken \in Nat
  BY TypeSplit, FileDays DEF TablesType, Days
<1>1. ASSUME NEW file \in FlexFile, ImportFlex(file) PROVE KeptWereTaken'
  BY <1>1 DEF ImportFlex, KeptWereTaken
<1>2. ASSUME NEW file \in StatementFile, ImportStatement(file) PROVE KeptWereTaken'
  BY <1>2 DEF ImportStatement, KeptWereTaken
<1>3. ASSUME NEW day, NEW events, SyncAgent(day, events) PROVE KeptWereTaken'
  BY <1>3 DEF SyncAgent, KeptWereTaken
<1>4. ASSUME NEW files \in SUBSET statements, Rebuild(files) PROVE KeptWereTaken'
  BY <1>4 DEF Rebuild, KeptWereTaken
<1>5. CASE ClearDerived
  BY <1>5 DEF ClearDerived, KeptWereTaken
<1>6. CASE Tick
  BY <1>0, <1>6 DEF Tick, KeptWereTaken
<1>7. CASE UNCHANGED vars
  BY <1>7 DEF vars, KeptWereTaken
<1> QED BY <1>1, <1>2, <1>3, <1>4, <1>5, <1>6, <1>7
        DEF Next, ImportStep, RebuildStep, Replay, DeleteStatement

\* An import moves what the tables say of every file outwards, an agent's pass
\* brings positions later than any file kept, a rebuild starts from the files.
LEMMA ReflectedInductive ==
    ASSUME TypeOK, KeptWereTaken, KeptFilesAreReflected, [Next]_vars
    PROVE  KeptFilesAreReflected'
<1>0. TablesType /\ statements \subseteq StatementFile
  BY TypeSplit DEF TablesType
<1>d. \A f \in StatementFile : Days(f)
  BY FileDays
<1> SUFFICES ASSUME rebuilt', NEW f \in statements'
             PROVE  /\ SnapshotReflects(snapshot', f)
                    /\ CashReflects(cash', f)
                    /\ WindowReflects(window', f)
  BY DEF KeptFilesAreReflected, SnapshotReflects, CashReflects, WindowReflects
<1>k. ASSUME rebuilt, f \in statements
      PROVE  /\ SnapshotReflects(snapshot, f)
             /\ CashReflects(cash, f)
             /\ WindowReflects(window, f)
  BY <1>k, ReflectedSplit
<1>1. ASSUME NEW file \in FlexFile, ImportFlex(file)
      PROVE  /\ SnapshotReflects(snapshot', f)
             /\ CashReflects(cash', f)
             /\ WindowReflects(window', f)
  <2>1. rebuilt /\ f \in statements /\ f \in StatementFile
    BY <1>0, <1>1 DEF ImportFlex
  <2>2. Write("flex", file, FlexEvents(file))
    BY <1>1 DEF ImportFlex
  <2>3. SnapshotReflects(snapshot', f)
    BY <2>1, <2>2, <1>0, <1>k, SnapshotAdvances
  <2>4. CashReflects(cash', f)
    BY <2>1, <2>2, <1>0, <1>k, CashWidens
  <2>5. WindowReflects(window', f)
    <3>1. Days(file)
      BY FileDays
    <3>2. WindowReflects(MergeContract(window, file.period.start, file.period.end), f)
      BY <2>1, <3>1, <1>0, <1>k, WindowWidens DEF TablesType, Days
    <3> QED BY <2>1, <2>2, <3>2, <1>k DEF Write
  <2> QED BY <2>3, <2>4, <2>5
<1>2. ASSUME NEW file \in StatementFile, ImportStatement(file)
      PROVE  /\ SnapshotReflects(snapshot', f)
             /\ CashReflects(cash', f)
             /\ WindowReflects(window', f)
  <2>1. rebuilt /\ (f = file \/ f \in statements) /\ f \in StatementFile
    BY <1>0, <1>2 DEF ImportStatement
  <2>2. Write("statement_html", file, StatementEvents(file))
    BY <1>2 DEF ImportStatement
  <2>3. SnapshotReflects(snapshot', f)
    BY <2>1, <2>2, <1>0, <1>k, SnapshotAdvances
  <2>4. CashReflects(cash', f)
    BY <2>1, <2>2, <1>0, <1>k, CashWidens
  <2>5. WindowReflects(window', f)
    <3>1. Days(file)
      BY FileDays
    <3> DEFINE m == MergeContract(window, file.period.start, file.period.end)
    <3>2. /\ m # Unseen /\ m.first <= file.period.start /\ m.last >= file.period.end
          /\ WindowReflects(window, f) => WindowReflects(m, f)
      BY <2>1, <3>1, <1>0, WindowWidens DEF TablesType, Days
    <3>3. WindowReflects(m, file)
      BY <3>2 DEF WindowReflects
    <3>4. window' = IF StatementEvents(file) = {} THEN window ELSE m
      BY <2>2 DEF Write
    <3> HIDE DEF m
    <3>5. CASE f = file
      BY <3>3, <3>4, <3>5 DEF WindowReflects
    <3>6. CASE f \in statements
      BY <2>1, <3>2, <3>4, <3>6, <1>k
    <3> QED BY <2>1, <3>5, <3>6
  <2> QED BY <2>3, <2>4, <2>5
<1>3. ASSUME NEW day \in 1..MaxDay, NEW events, SyncAgent(day, events)
      PROVE  /\ SnapshotReflects(snapshot', f)
             /\ CashReflects(cash', f)
             /\ WindowReflects(window', f)
  <2>1. rebuilt /\ f \in statements /\ f \in StatementFile /\ Days(f)
    BY <1>0, <1>3, <1>d DEF SyncAgent
  <2>2. day \in Nat /\ 0 < day
    BY FileAssumption
  <2>3. SnapshotReflects(snapshot', f)
    <3>1. f.taken <= now /\ now - 1 <= day
      BY <1>3, <2>1 DEF SyncAgent, KeptWereTaken
    <3>2. f.period.end <= day
      BY <3>1, <2>1, <2>2, <1>0 DEF Days, TablesType
    <3>3. snapshot' = [source |-> "agent", asOf |-> day]
      BY <1>3 DEF SyncAgent, ShouldReplaceSnapshot
    <3> QED BY <3>2, <3>3, <2>1, <2>2 DEF SnapshotReflects, None, Days
  <2>4. CashReflects(cash', f)
    BY <1>3, <1>k, <2>1 DEF SyncAgent
  <2>5. WindowReflects(window', f)
    <3>1. WindowReflects(MergeContract(window, day, day), f)
      BY <2>1, <2>2, <1>0, <1>k, WindowWidens DEF TablesType
    <3> QED BY <1>3, <2>1, <3>1, <1>k DEF SyncAgent
  <2> QED BY <2>3, <2>4, <2>5
<1>4. ASSUME NEW files \in SUBSET statements, Rebuild(files)
      PROVE  /\ SnapshotReflects(snapshot', f)
             /\ CashReflects(cash', f)
             /\ WindowReflects(window', f)
  <2>1. /\ f \in files
        /\ snapshot' = RebuiltSnapshot(files)
        /\ cash' = RebuiltCash(files)
        /\ window' = RebuiltWindow(files)
    BY <1>4 DEF Rebuild
  <2>2. SnapshotReflects(snapshot', f)
    BY <2>1, <1>0, RebuiltSnapshotReflects DEF SnapshotReflects
  <2>3. CashReflects(cash', f)
    BY <2>1, <1>0, RebuiltCashReflects DEF CashReflects
  <2>4. WindowReflects(window', f)
    BY <2>1, <1>0, RebuiltWindowReflects DEF WindowReflects
  <2> QED BY <2>2, <2>3, <2>4
<1>5. CASE ClearDerived
  BY <1>5 DEF ClearDerived
<1>6. CASE Tick
  BY <1>6, <1>k DEF Tick
<1>7. CASE UNCHANGED vars
  BY <1>7, <1>k DEF vars
<1> QED BY <1>1, <1>2, <1>3, <1>4, <1>5, <1>6, <1>7
        DEF Next, ImportStep, RebuildStep, Replay, DeleteStatement

\* Between a rebuild and a purge, the positions and the cash points are no older
\* than any kept statement says, and the contract's window covers them all,
\* whatever files, passes of the agent and rebuilds came in between.
THEOREM KeptFilesReflectedSafe == Spec => []KeptFilesAreReflected
<1>1. Init => KeptWereTaken /\ KeptFilesAreReflected
  BY DEF Init, KeptWereTaken, KeptFilesAreReflected
<1>2. TypeOK /\ KeptWereTaken /\ KeptFilesAreReflected /\ [Next]_vars
        => KeptWereTaken' /\ KeptFilesAreReflected'
  BY KeptTakenInductive, ReflectedInductive
<1> QED BY <1>1, <1>2, TypeSafe, PTL DEF Spec

-----------------------------------------------------------------------------
\* The rebuild is the loop over the files.

\* The files kept are finitely many, one per declared period.
KeptApart ==
    /\ IsFiniteSet(statements)
    /\ \A f, g \in statements : f.period = g.period => f = g

LEMMA KeptApartInductive ==
    ASSUME KeptApart, [Next]_vars
    PROVE  KeptApart'
<1>1. ASSUME NEW file \in FlexFile, ImportFlex(file) PROVE KeptApart'
  BY <1>1 DEF ImportFlex, KeptApart
<1>2. ASSUME NEW file \in StatementFile, ImportStatement(file) PROVE KeptApart'
  <2> DEFINE others == {g \in statements : g.period # file.period}
  <2>1. statements' = others \cup {file}
    BY <1>2 DEF ImportStatement
  <2>2. IsFiniteSet(others)
    BY FS_Subset DEF KeptApart
  <2>3. IsFiniteSet(statements')
    BY <2>1, <2>2, FS_AddElement
  <2> QED BY <2>1, <2>3 DEF KeptApart
<1>3. ASSUME NEW day, NEW events, SyncAgent(day, events) PROVE KeptApart'
  BY <1>3 DEF SyncAgent, KeptApart
<1>4. ASSUME NEW files \in SUBSET statements, Rebuild(files) PROVE KeptApart'
  BY <1>4, FS_Subset DEF Rebuild, KeptApart
<1>5. CASE ClearDerived
  BY <1>5 DEF ClearDerived, KeptApart
<1>6. CASE Tick
  BY <1>6 DEF Tick, KeptApart
<1>7. CASE UNCHANGED vars
  BY <1>7 DEF vars, KeptApart
<1> QED BY <1>1, <1>2, <1>3, <1>4, <1>5, <1>6, <1>7
        DEF Next, ImportStep, RebuildStep, Replay, DeleteStatement

\* Some files are replayed one by one: one of them is the last.
LEMMA OneIsLast ==
    ASSUME TablesType, KeptApart, NEW files \in SUBSET statements, files # {}
    PROVE  /\ LastReplayed(files) \in files
           /\ \A g \in files \ {LastReplayed(files)} : ReplayedAfter(LastReplayed(files), g)
<1> DEFINE below == [f \in files |-> {g \in files : ReplayedAfter(f, g)}]
           last == Cardinality(files) - 1
<1>1. \A f \in files : f.period \in [start : Nat, end : Nat]
  BY FilesAreFiles DEF TablesType
<1>2. IsFiniteSet(files) /\ Cardinality(files) \in Nat /\ Cardinality(files) # 0
  BY FS_Subset, FS_CardinalityType, FS_EmptySet DEF KeptApart
<1>3. TotalOrder(files, below)
  <2>1. below \in [files -> SUBSET files] /\ \A f \in files : f \notin below[f]
    BY <1>1 DEF ReplayedAfter
  <2>2. ASSUME NEW f \in files, NEW g \in files, f # g PROVE f \in below[g] \/ g \in below[f]
    <3>1. f.period # g.period
      BY <2>2 DEF KeptApart
    <3>2. f.period.start # g.period.start \/ f.period.end # g.period.end
      BY <1>1, <3>1
    <3> QED BY <1>1, <3>2 DEF ReplayedAfter
  <2>3. ASSUME NEW f \in files, NEW g \in files, f \in below[g] PROVE below[f] \subseteq below[g]
    BY <1>1, <2>3 DEF ReplayedAfter
  <2> QED BY <2>1, <2>2, <2>3 DEF TotalOrder
<1> HIDE DEF below
<1>4. PICK f \in files : Cardinality(below[f]) = last
  BY <1>2, <1>3, PlacesAreTaken
<1>5. ASSUME NEW g \in files \ {f} PROVE g \in below[f]
  <2>1. Cardinality(below[g]) \in 0..last /\ Cardinality(below[g]) # last
    BY <1>2, <1>3, <1>4, PlacesAreTaken
  <2>2. Cardinality(below[g]) < Cardinality(below[f])
    BY <1>2, <1>4, <2>1
  <2> QED BY <1>2, <1>3, <2>2, PlacesAreTaken
<1>6. \A g \in files \ {f} : ReplayedAfter(f, g)
  BY <1>5 DEF below
<1> QED BY <1>6 DEF LastReplayed

\* What the closed forms say a rebuild writes.
Rebuilt(files) ==
    [rows   |-> {r \in rows : r.source # "statement_html"} \cup RebuiltRows(files),
     cash   |-> RebuiltCash(files),
     window |-> RebuiltWindow(files)]

\* One more file, replayed after the others: its plan leaves the rows of the closed form.
LEMMA RowsLaid ==
    ASSUME TablesType, NEW files \in SUBSET statements, NEW f \in files,
           \A g \in files \ {f} : ReplayedAfter(f, g)
    PROVE  Laid(Rebuilt(files \ {f}), f).rows = Rebuilt(files).rows
<1> DEFINE others == {r \in rows : r.source # "statement_html"}
           before == RebuiltRows(files \ {f})
           ledger == others \cup before
           batch == StatementBatch(ledger, f)
           stays(some, h, e) ==
               \A g \in some : ReplayedAfter(g, h) /\ Within(FileWhen[e].day, g.period)
                                  => e \in StatementEvents(g)
           said(some, r) ==
               \E h \in some, e \in Event :
                   /\ e \in StatementEvents(h) /\ r = StatementRow(e)
                   /\ BeforeFlex(rows, FileWhen[e].day) /\ stays(some, h, e)
<1>1. \A g \in files : g.period \in [start : Nat, end : Nat]
  BY FilesAreFiles DEF TablesType
<1>2. \A g \in files : ~ReplayedAfter(g, f)
  BY <1>1 DEF ReplayedAfter
<1>3. \A some, r : r \in RebuiltRows(some) <=> said(some, r)
  BY FileEvents DEF RebuiltRows, RowsFor, StatementRow
<1>4. \A d : BeforeFlex(ledger, d) <=> BeforeFlex(rows, d)
  <2>1. \A r \in before : r.source = "statement_html"
    BY RebuildRows
  <2>2. RowsOf(ledger, "flex") = RowsOf(rows, "flex")
    BY <2>1 DEF RowsOf
  <2> QED BY <2>2 DEF BeforeFlex
<1>5. \A e : RowDay(StatementRow(e)) = FileWhen[e].day
  BY DEF StatementRow, RowDay, When, DayOf
<1>6. \A r : r \in batch <=> \E e \in StatementEvents(f) :
                                 r = StatementRow(e) /\ BeforeFlex(rows, FileWhen[e].day)
  BY <1>4, <1>5 DEF StatementBatch, RowsFor, StatementRow
<1> DEFINE replaced == StatementReplaces(ledger, batch, f.period)
<1>7. \A r : r \in replaced <=>
          /\ r \in before /\ r \notin batch
          /\ Within(RowDay(r), f.period) /\ BeforeFlex(rows, RowDay(r))
  <2>1. \A r \in before : r.source = "statement_html"
    BY RebuildRows
  <2>2. RowsOf(ledger, "statement_html") = before
    BY <2>1 DEF RowsOf
  <2> QED BY <2>2, <1>4 DEF StatementReplaces
<1>8. Laid(Rebuilt(files \ {f}), f).rows = (ledger \ replaced) \cup batch
  <2> DEFINE base == Rebuilt(files \ {f})
             plan == PlanImport(ledger, "statement_html", StatementEvents(f), f.period)
  <2>1. base.rows = ledger
    BY DEF Rebuilt
  <2>2. plan = PlanStatement(ledger, StatementEvents(f), f.period)
    BY DEF PlanImport
  <2>3. Laid(base, f).rows = (ledger \ plan.delete) \cup plan.upsert
    BY <2>1 DEF Laid
  <2> HIDE DEF plan, ledger
  <2>4. plan.upsert = batch
    BY <2>2 DEF PlanStatement, StatementBatch
  <2>5. plan.delete = replaced
    BY <2>2 DEF PlanStatement, StatementBatch
  <2> QED BY <2>3, <2>4, <2>5
<1> HIDE DEF batch, replaced, before, stays, said
<1>9. ASSUME NEW r PROVE r \in RebuiltRows(files) <=> r \in batch \/ (r \in before /\ r \notin replaced)
  <2>1. ASSUME r \in batch PROVE r \in RebuiltRows(files)
    <3>1. PICK e \in Event : e \in StatementEvents(f) /\ r = StatementRow(e)
                            /\ BeforeFlex(rows, FileWhen[e].day)
      BY <2>1, <1>6, FileEvents
    <3>2. stays(files, f, e)
      BY <1>2 DEF stays
    <3> QED BY <1>3, <3>1, <3>2 DEF said
  <2>2. ASSUME r \in before, r \notin replaced PROVE r \in RebuiltRows(files)
    <3>1. PICK h \in files \ {f}, e \in Event :
            e \in StatementEvents(h) /\ r = StatementRow(e) /\ BeforeFlex(rows, FileWhen[e].day) /\ stays(files \ {f}, h, e)
      BY <2>2, <1>3 DEF said, before
    <3>2. Within(FileWhen[e].day, f.period) => e \in StatementEvents(f)
      <4>1. Within(FileWhen[e].day, f.period) => r \in batch
        BY <2>2, <3>1, <1>5, <1>7
      <4>2. ASSUME r \in batch PROVE e \in StatementEvents(f)
        <5>1. PICK other \in StatementEvents(f) : r = StatementRow(other)
          BY <4>2, <1>6
        <5> QED BY <3>1, <5>1 DEF StatementRow
      <4> QED BY <4>1, <4>2
    <3>3. stays(files, h, e)
      BY <3>1, <3>2 DEF stays
    <3> QED BY <1>3, <3>1, <3>3 DEF said
  <2>3. ASSUME r \in RebuiltRows(files), r \notin batch PROVE r \in before /\ r \notin replaced
    <3>1. PICK h \in files, e \in Event :
            e \in StatementEvents(h) /\ r = StatementRow(e) /\ BeforeFlex(rows, FileWhen[e].day) /\ stays(files, h, e)
      BY <2>3, <1>3 DEF said
    <3>2. h # f
      BY <2>3, <3>1, <1>6
    <3>3. stays(files \ {f}, h, e)
      BY <3>1 DEF stays
    <3>4. r \in before
      BY <1>3, <3>1, <3>2, <3>3 DEF said, before
    <3>5. ~Within(FileWhen[e].day, f.period)
      <4>1. ReplayedAfter(f, h)
        BY <3>2
      <4>2. Within(FileWhen[e].day, f.period) => e \in StatementEvents(f)
        BY <4>1, <3>1 DEF stays
      <4> QED BY <4>2, <2>3, <3>1, <1>6
    <3> QED BY <3>1, <3>4, <3>5, <1>5, <1>7
  <2> QED BY <2>1, <2>2, <2>3
<1>10. \A r \in replaced : r \notin others
  <2>1. \A r \in before : r.source = "statement_html"
    BY RebuildRows DEF before
  <2> QED BY <2>1, <1>7
<1>11. Rebuilt(files).rows = others \cup RebuiltRows(files)
  BY DEF Rebuilt
<1> HIDE DEF others
<1> QED BY <1>8, <1>9, <1>10, <1>11

Stamped(day) == [source |-> "statement_html", asOf |-> day]

\* The point p is where reports leave the start point that stood before them, and where
\* they leave the end point.
StartIs(p, stood, reports) ==
    \/ p = stood /\ \A f \in reports : stood # None /\ stood.asOf < f.period.start
    \/ \E f \in reports :
          /\ p = Stamped(f.period.start)
          /\ \A g \in reports : f.period.start <= g.period.start
          /\ stood = None \/ f.period.start <= stood.asOf
EndIs(p, stood, reports) ==
    \/ p = stood /\ \A f \in reports : stood # None /\ stood.asOf > f.period.end
    \/ \E f \in reports :
          /\ p = Stamped(f.period.end)
          /\ \A g \in reports : f.period.end >= g.period.end
          /\ stood = None \/ f.period.end >= stood.asOf

\* Points that stand on something, and periods in days.
Standing(p) == p = None \/ (p # None /\ p.asOf \in Nat)
InDays(files) == \A f \in files : f.period.start \in Nat /\ f.period.end \in Nat

LEMMA PointsAreTold ==
    ASSUME NEW stood, Standing(stood), NEW reports, InDays(reports),
           NEW p, NEW q
    PROVE  /\ StartIs(p, stood, reports) /\ StartIs(q, stood, reports) => p = q
           /\ EndIs(p, stood, reports) /\ EndIs(q, stood, reports) => p = q
<1>1. ASSUME StartIs(p, stood, reports), StartIs(q, stood, reports) PROVE p = q
  BY <1>1 DEF StartIs, Standing, InDays
<1>2. ASSUME EndIs(p, stood, reports), EndIs(q, stood, reports) PROVE p = q
  BY <1>2 DEF EndIs, Standing, InDays
<1> QED BY <1>1, <1>2

\* One report more moves each point as mergeCashPoints does.
LEMMA PointsMove ==
    ASSUME NEW stood, Standing(stood), NEW reports, InDays(reports),
           NEW f \in reports, NEW p
    PROVE  /\ StartIs(p, stood, reports \ {f}) =>
                StartIs(IF p = None \/ f.period.start <= p.asOf THEN Stamped(f.period.start)
                        ELSE p, stood, reports)
           /\ EndIs(p, stood, reports \ {f}) =>
                EndIs(IF p = None \/ f.period.end >= p.asOf THEN Stamped(f.period.end)
                      ELSE p, stood, reports)
<1>0. \A d : Stamped(d) # None /\ Stamped(d).asOf = d
  BY DEF Stamped, None
<1>1. ASSUME StartIs(p, stood, reports \ {f})
      PROVE  StartIs(IF p = None \/ f.period.start <= p.asOf THEN Stamped(f.period.start)
                     ELSE p, stood, reports)
  <2>1. CASE p = stood /\ \A g \in reports \ {f} : stood # None /\ stood.asOf < g.period.start
    BY <2>1, <1>0 DEF StartIs, Standing, InDays
  <2>2. CASE \E h \in reports \ {f} :
                /\ p = Stamped(h.period.start)
                /\ \A g \in reports \ {f} : h.period.start <= g.period.start
                /\ stood = None \/ h.period.start <= stood.asOf
    BY <2>2, <1>0 DEF StartIs, Standing, InDays
  <2> QED BY <1>1, <2>1, <2>2 DEF StartIs
<1>2. ASSUME EndIs(p, stood, reports \ {f})
      PROVE  EndIs(IF p = None \/ f.period.end >= p.asOf THEN Stamped(f.period.end)
                   ELSE p, stood, reports)
  <2>1. CASE p = stood /\ \A g \in reports \ {f} : stood # None /\ stood.asOf > g.period.end
    BY <2>1, <1>0 DEF EndIs, Standing, InDays
  <2>2. CASE \E h \in reports \ {f} :
                /\ p = Stamped(h.period.end)
                /\ \A g \in reports \ {f} : h.period.end >= g.period.end
                /\ stood = None \/ h.period.end >= stood.asOf
    BY <2>2, <1>0 DEF EndIs, Standing, InDays
  <2> QED BY <1>2, <2>1, <2>2 DEF EndIs
<1> QED BY <1>1, <1>2

Reports(files) == {f \in files : f.cash}

LEMMA RebuiltCashIs ==
    ASSUME TablesType, KeptWereTaken, NEW files \in SUBSET statements
    PROVE  /\ RebuiltCash(files) = [start |-> RebuiltCash(files).start,
                                    end |-> RebuiltCash(files).end]
           /\ StartIs(RebuiltCash(files).start, TornDown.cash.start, Reports(files))
           /\ EndIs(RebuiltCash(files).end, TornDown.cash.end, Reports(files))
           /\ Standing(TornDown.cash.start) /\ Standing(TornDown.cash.end)
           /\ InDays(files)
<1> DEFINE start == TornDown.cash.start
           end   == TornDown.cash.end
           reports == Reports(files)
           first == {f \in reports :
                       /\ \A h \in reports : f.period.start <= h.period.start
                       /\ start = None \/ f.period.start <= start.asOf}
           last  == {f \in reports :
                       /\ \A h \in reports : f.period.end >= h.period.end
                       /\ end = None \/ f.period.end >= end.asOf}
           opener == CHOOSE f \in first : TRUE
           closer == CHOOSE f \in last : TRUE
<1>1. InDays(files)
  BY FileDays DEF TablesType, Days, InDays
<1>2. Standing(start) /\ Standing(end)
  BY DEF TablesType, Point, TornDown, Standing, None
<1>3. RebuiltCash(files) =
         [start |-> IF first = {} THEN start ELSE Stamped(opener.period.start),
          end   |-> IF last = {} THEN end ELSE Stamped(closer.period.end)]
  BY DEF RebuiltCash, TornDown, Stamped, Reports
<1>4. reports \in SUBSET statements /\ InDays(reports)
  BY <1>1 DEF Reports, InDays
<1> HIDE DEF start, end, reports
<1>5. first # {} => opener \in first
  OBVIOUS
<1>6. last # {} => closer \in last
  OBVIOUS
<1>7. ASSUME first = {} PROVE \A f \in reports : start # None /\ start.asOf < f.period.start
  <2> SUFFICES ASSUME reports # {}
               PROVE  \A f \in reports : start # None /\ start.asOf < f.period.start
    OBVIOUS
  <2>1. PICK a \in reports : \A h \in reports : a.period.start <= h.period.start
    BY <1>4, Outermost
  <2> QED BY <1>2, <1>4, <1>7, <2>1 DEF Standing, InDays
<1>8. ASSUME last = {} PROVE \A f \in reports : end # None /\ end.asOf > f.period.end
  <2> SUFFICES ASSUME reports # {}
               PROVE  \A f \in reports : end # None /\ end.asOf > f.period.end
    OBVIOUS
  <2>1. PICK z \in reports : \A h \in reports : z.period.end >= h.period.end
    BY <1>4, Outermost
  <2> QED BY <1>2, <1>4, <1>8, <2>1 DEF Standing, InDays
<1> HIDE DEF opener, closer
<1>9. StartIs(RebuiltCash(files).start, start, reports)
  BY <1>3, <1>5, <1>7 DEF StartIs
<1>10. EndIs(RebuiltCash(files).end, end, reports)
  BY <1>3, <1>6, <1>8 DEF EndIs
<1>11. RebuiltCash(files) = [start |-> RebuiltCash(files).start,
                             end |-> RebuiltCash(files).end]
  BY <1>3
<1> QED BY <1>1, <1>2, <1>9, <1>10, <1>11 DEF start, end, reports

\* One more file, replayed after the others: the cash points of the closed form.
LEMMA CashLaid ==
    ASSUME TablesType, KeptWereTaken, NEW files \in SUBSET statements, NEW f \in files
    PROVE  Laid(Rebuilt(files \ {f}), f).cash = Rebuilt(files).cash
<1> DEFINE stood == TornDown.cash
           before == RebuiltCash(files \ {f})
           after == RebuiltCash(files)
           laid == IF f.cash THEN MergeCashPoints(before, "statement_html", f.period) ELSE before
<1>0. files \ {f} \in SUBSET statements
  OBVIOUS
<1>1. /\ before = [start |-> before.start, end |-> before.end]
      /\ StartIs(before.start, stood.start, Reports(files \ {f}))
      /\ EndIs(before.end, stood.end, Reports(files \ {f}))
  BY <1>0, RebuiltCashIs
<1>2. /\ after = [start |-> after.start, end |-> after.end]
      /\ StartIs(after.start, stood.start, Reports(files))
      /\ EndIs(after.end, stood.end, Reports(files))
      /\ Standing(stood.start) /\ Standing(stood.end)
      /\ InDays(files)
  BY RebuiltCashIs
<1>3. InDays(Reports(files))
  BY <1>2 DEF InDays, Reports
<1>4. Laid(Rebuilt(files \ {f}), f).cash = laid /\ Rebuilt(files).cash = after
  BY DEF Laid, Rebuilt
<1> HIDE DEF stood, before, after
<1>5. CASE ~f.cash
  <2>1. Reports(files \ {f}) = Reports(files)
    BY <1>5 DEF Reports
  <2>2. before.start = after.start /\ before.end = after.end
    BY <1>1, <1>2, <1>3, <2>1, PointsAreTold
  <2> QED BY <1>1, <1>2, <1>4, <1>5, <2>2
<1>6. CASE f.cash
  <2>1. f \in Reports(files) /\ Reports(files \ {f}) = Reports(files) \ {f}
    BY <1>6 DEF Reports
  <2>2. laid = [start |-> IF before.start = None \/ f.period.start <= before.start.asOf
                            THEN Stamped(f.period.start) ELSE before.start,
                end   |-> IF before.end = None \/ f.period.end >= before.end.asOf
                            THEN Stamped(f.period.end) ELSE before.end]
    BY <1>6 DEF MergeCashPoints, Stamped
  <2> HIDE DEF laid
  <2>3. StartIs(laid.start, stood.start, Reports(files))
    <3>1. StartIs(before.start, stood.start, Reports(files) \ {f})
      BY <1>1, <2>1
    <3> QED BY <1>2, <1>3, <2>1, <2>2, <3>1, PointsMove
  <2>4. EndIs(laid.end, stood.end, Reports(files))
    <3>1. EndIs(before.end, stood.end, Reports(files) \ {f})
      BY <1>1, <2>1
    <3> QED BY <1>2, <1>3, <2>1, <2>2, <3>1, PointsMove
  <2>5. laid.start = after.start /\ laid.end = after.end
    BY <1>2, <1>3, <2>3, <2>4, PointsAreTold
  <2>6. laid = [start |-> laid.start, end |-> laid.end]
    BY <2>2
  <2> QED BY <1>2, <1>4, <2>5, <2>6
<1> QED BY <1>5, <1>6

\* The window w is where the files that name the contract leave the one that stood.
Naming(files) == {f \in files : StatementEvents(f) # {}}
WindowIs(w, naming) ==
    /\ w \in [first : Nat, last : Nat]
    /\ \/ w.first = window.first /\ \A f \in naming : window # Unseen /\ window.first <= f.period.start
       \/ \E f \in naming :
             /\ w.first = f.period.start
             /\ \A g \in naming : f.period.start <= g.period.start
             /\ window = Unseen \/ f.period.start < window.first
    /\ \/ w.last = window.last /\ \A f \in naming : window # Unseen /\ window.last >= f.period.end
       \/ \E f \in naming :
             /\ w.last = f.period.end
             /\ \A g \in naming : f.period.end >= g.period.end
             /\ window = Unseen \/ f.period.end > window.last

LEMMA WindowIsTold ==
    ASSUME TablesType, NEW naming, InDays(naming), NEW v, NEW w,
           WindowIs(v, naming), WindowIs(w, naming)
    PROVE  v = w
<1>1. window.first \in Nat /\ window.last \in Nat
  BY DEF TablesType
<1>2. v.first = w.first
  BY <1>1 DEF WindowIs, InDays
<1>3. v.last = w.last
  BY <1>1 DEF WindowIs, InDays
<1>4. /\ v = [first |-> v.first, last |-> v.last]
      /\ w = [first |-> w.first, last |-> w.last]
  BY DEF WindowIs
<1> QED BY <1>2, <1>3, <1>4

LEMMA RebuiltWindowIs ==
    ASSUME TablesType, KeptWereTaken, NEW files \in SUBSET statements
    PROVE  WindowIs(RebuiltWindow(files), Naming(files))
<1> DEFINE naming == Naming(files)
           first == {f \in naming :
                       /\ \A h \in naming : f.period.start <= h.period.start
                       /\ window = Unseen \/ f.period.start < window.first}
           last  == {f \in naming :
                       /\ \A h \in naming : f.period.end >= h.period.end
                       /\ window = Unseen \/ f.period.end > window.last}
           opener == CHOOSE f \in first : TRUE
           closer == CHOOSE f \in last : TRUE
<1>1. naming \in SUBSET statements /\ InDays(naming)
  BY FileDays DEF TablesType, Days, InDays, Naming
<1>2. RebuiltWindow(files) =
        [first |-> IF first = {} THEN window.first ELSE opener.period.start,
         last  |-> IF last = {} THEN window.last ELSE closer.period.end]
  BY DEF RebuiltWindow, Naming
<1>3. RebuiltWindow(files) \in [first : Nat, last : Nat]
  BY RebuiltTypes DEF TablesType
<1>4. window.first \in Nat /\ window.last \in Nat
  BY DEF TablesType
<1> HIDE DEF naming
<1>5. first # {} => opener \in first
  OBVIOUS
<1>6. last # {} => closer \in last
  OBVIOUS
<1>7. ASSUME first = {}
      PROVE  \A f \in naming : window # Unseen /\ window.first <= f.period.start
  <2> SUFFICES ASSUME naming # {}
               PROVE  \A f \in naming : window # Unseen /\ window.first <= f.period.start
    OBVIOUS
  <2>1. PICK a \in naming : \A h \in naming : a.period.start <= h.period.start
    BY <1>1, Outermost
  <2> QED BY <1>1, <1>4, <1>7, <2>1 DEF InDays
<1>8. ASSUME last = {}
      PROVE  \A f \in naming : window # Unseen /\ window.last >= f.period.end
  <2> SUFFICES ASSUME naming # {}
               PROVE  \A f \in naming : window # Unseen /\ window.last >= f.period.end
    OBVIOUS
  <2>1. PICK z \in naming : \A h \in naming : z.period.end >= h.period.end
    BY <1>1, Outermost
  <2> QED BY <1>1, <1>4, <1>8, <2>1 DEF InDays
<1> HIDE DEF opener, closer
<1> QED BY <1>2, <1>3, <1>5, <1>6, <1>7, <1>8 DEF WindowIs, naming

\* One more file, replayed after the others: the window of the closed form.
LEMMA WindowLaid ==
    ASSUME TablesType, KeptWereTaken, NEW files \in SUBSET statements, NEW f \in files
    PROVE  Laid(Rebuilt(files \ {f}), f).window = Rebuilt(files).window
<1> DEFINE w == RebuiltWindow(files \ {f})
           m == MergeContract(w, f.period.start, f.period.end)
           naming == Naming(files)
<1>1. WindowIs(w, Naming(files \ {f})) /\ WindowIs(RebuiltWindow(files), naming)
  BY RebuiltWindowIs
<1>2. InDays(naming) /\ \A g \in naming : g.period.end # 0
  BY FileDays DEF TablesType, Days, InDays, Naming
<1>3. /\ Laid(Rebuilt(files \ {f}), f).window = IF StatementEvents(f) = {} THEN w ELSE m
      /\ Rebuilt(files).window = RebuiltWindow(files)
  BY DEF Laid, Rebuilt
<1>4. CASE StatementEvents(f) = {}
  <2>1. Naming(files \ {f}) = naming
    BY <1>4 DEF Naming
  <2> QED BY <1>1, <1>2, <1>3, <1>4, <2>1, WindowIsTold
<1>5. CASE StatementEvents(f) # {}
  <2>1. f \in naming /\ Naming(files \ {f}) = naming \ {f}
    BY <1>5 DEF Naming
  <2>2. window.first \in Nat /\ window.last \in Nat /\ window = [first |-> window.first, last |-> window.last]
    BY DEF TablesType
  <2>3. WindowIs(w, naming \ {f})
    BY <1>1, <2>1
  <2> HIDE DEF w, naming
  <2>4. w = Unseen <=> window = Unseen /\ naming \ {f} = {}
    <3>1. w = [first |-> w.first, last |-> w.last]
      BY <2>3 DEF WindowIs
    <3>2. ASSUME w = Unseen PROVE window = Unseen /\ naming \ {f} = {}
      <4>1. w.first = 0 /\ w.last = 0
        BY <3>2 DEF Unseen
      <4>2. window.last = 0 /\ naming \ {f} = {}
        BY <1>2, <2>2, <2>3, <4>1 DEF WindowIs, InDays
      <4>3. window.first = 0
        BY <2>3, <4>1, <4>2 DEF WindowIs
      <4> QED BY <2>2, <4>2, <4>3 DEF Unseen
    <3>3. ASSUME window = Unseen, naming \ {f} = {} PROVE w = Unseen
      BY <2>3, <3>1, <3>3 DEF WindowIs, Unseen
    <3> QED BY <3>2, <3>3
  <2>5. m = [first |-> IF w = Unseen \/ f.period.start < w.first THEN f.period.start ELSE w.first,
             last  |-> IF w = Unseen \/ f.period.end > w.last THEN f.period.end ELSE w.last]
    BY DEF MergeContract
  <2>6. f.period.start \in Nat /\ f.period.end \in Nat /\ w.first \in Nat /\ w.last \in Nat
    BY <1>2, <2>1, <2>3 DEF InDays, WindowIs
  <2>7. m \in [first : Nat, last : Nat]
    BY <2>5, <2>6
  <2>8. \/ m.first = window.first /\ \A g \in naming : window # Unseen /\ window.first <= g.period.start
        \/ \E h \in naming :
             /\ m.first = h.period.start
             /\ \A g \in naming : h.period.start <= g.period.start
             /\ window = Unseen \/ h.period.start < window.first
    BY <1>2, <2>1, <2>2, <2>3, <2>4, <2>5, <2>6 DEF InDays, WindowIs
  <2>9. \/ m.last = window.last /\ \A g \in naming : window # Unseen /\ window.last >= g.period.end
        \/ \E h \in naming :
             /\ m.last = h.period.end
             /\ \A g \in naming : h.period.end >= g.period.end
             /\ window = Unseen \/ h.period.end > window.last
    BY <1>2, <2>1, <2>2, <2>3, <2>4, <2>5, <2>6 DEF InDays, WindowIs
  <2> HIDE DEF m
  <2>10. WindowIs(m, naming)
    BY <2>7, <2>8, <2>9 DEF WindowIs
  <2> QED BY <1>1, <1>2, <1>3, <1>5, <2>10, WindowIsTold
<1> QED BY <1>4, <1>5

\* Nothing kept, nothing laid: the closed forms start where the loop does.
LEMMA NothingLaid ==
    ASSUME TablesType, KeptWereTaken
    PROVE  Rebuilt({}) = TornDown
<1>1. RebuiltRows({}) = {}
  BY DEF RebuiltRows
<1>2. RebuiltCash({}) = TornDown.cash
  BY DEF RebuiltCash, TornDown
<1>3. RebuiltWindow({}) = window
  BY DEF RebuiltWindow, TablesType
<1> QED BY <1>1, <1>2, <1>3 DEF Rebuilt, TornDown

\* The loop ends on the closed forms: they satisfy its recursion, and were they not what it
\* computes, they would not be for some files, fewest of all.
LEMMA LoopIsRebuilt ==
    ASSUME TablesType, KeptWereTaken, KeptApart, NEW files \in SUBSET statements
    PROVE  Replayed(files) = Rebuilt(files)
<1> DEFINE step(up, F) == IF F = {} THEN TornDown
                          ELSE LET f == LastReplayed(F) IN Laid(up[F \ {f}], f)
           loop == CHOOSE up : up = [F \in SUBSET files |-> step(up, F)]
           told == [F \in SUBSET files |-> Rebuilt(F)]
<1>1. \A F \in SUBSET files : F # {} =>
          /\ LastReplayed(F) \in F
          /\ Laid(Rebuilt(F \ {LastReplayed(F)}), LastReplayed(F)) = Rebuilt(F)
  <2> SUFFICES ASSUME NEW F \in SUBSET files, F # {}
               PROVE  /\ LastReplayed(F) \in F
                      /\ Laid(Rebuilt(F \ {LastReplayed(F)}), LastReplayed(F)) = Rebuilt(F)
    OBVIOUS
  <2> DEFINE f == LastReplayed(F)
             next == Laid(Rebuilt(F \ {f}), f)
  <2>1. F \in SUBSET statements
    OBVIOUS
  <2>2. f \in F /\ \A g \in F \ {f} : ReplayedAfter(f, g)
    BY <2>1, OneIsLast
  <2>3. next = [rows |-> next.rows, cash |-> next.cash, window |-> next.window]
    BY DEF Laid
  <2>4. Rebuilt(F) = [rows |-> Rebuilt(F).rows, cash |-> Rebuilt(F).cash,
                      window |-> Rebuilt(F).window]
    BY DEF Rebuilt
  <2> HIDE DEF f
  <2>5. next.rows = Rebuilt(F).rows
    BY <2>1, <2>2, RowsLaid
  <2>6. next.cash = Rebuilt(F).cash
    BY <2>1, <2>2, CashLaid
  <2>7. next.window = Rebuilt(F).window
    BY <2>1, <2>2, WindowLaid
  <2> HIDE DEF next
  <2>8. next = Rebuilt(F)
    BY <2>3, <2>4, <2>5, <2>6, <2>7
  <2> QED BY <2>2, <2>8 DEF next, f
<1>2. told = [F \in SUBSET files |-> step(told, F)]
  <2>1. ASSUME NEW F \in SUBSET files PROVE Rebuilt(F) = step(told, F)
    <3>1. CASE F = {}
      BY <3>1, NothingLaid
    <3>2. CASE F # {}
      <4>1. F \ {LastReplayed(F)} \in SUBSET files
        OBVIOUS
      <4>2. told[F \ {LastReplayed(F)}] = Rebuilt(F \ {LastReplayed(F)})
        BY <4>1
      <4> QED BY <1>1, <3>2, <4>2
    <3> QED BY <3>1, <3>2
  <2> HIDE DEF step
  <2> QED BY <2>1
<1>3. loop = [F \in SUBSET files |-> step(loop, F)]
  <2> HIDE DEF told, step
  <2> QED BY <1>2
<1>4. Replayed(files) = loop[files]
  BY DEF Replayed
<1>5. \A F \in SUBSET files : loop[F] = step(loop, F)
  <2> HIDE DEF loop, step
  <2> QED BY <1>3
<1> HIDE DEF loop, told
<1> DEFINE wrong == {F \in SUBSET files : loop[F] # Rebuilt(F)}
           sizes == {Cardinality(F) : F \in wrong}
<1>6. ASSUME wrong # {} PROVE FALSE
  <2>1. \A F \in SUBSET files : IsFiniteSet(F) /\ Cardinality(F) \in Nat
    BY FS_Subset, FS_CardinalityType DEF KeptApart
  <2>2. sizes \subseteq Nat /\ sizes # {}
    BY <1>6, <2>1
  <2>3. PICK n \in sizes : \A k \in sizes : n <= k
    BY <2>2, FirstOf
  <2>4. PICK F \in wrong : Cardinality(F) = n
    OBVIOUS
  <2>5. F # {}
    BY <1>5, <2>4, NothingLaid
  <2> DEFINE f == LastReplayed(F)
  <2>6. f \in F /\ Laid(Rebuilt(F \ {f}), f) = Rebuilt(F)
    BY <1>1, <2>5
  <2>7. F \ {f} \in SUBSET files /\ Cardinality(F \ {f}) = n - 1 /\ n \in Nat
    BY <2>1, <2>4, <2>6, FS_RemoveElement
  <2>8. F \ {f} \notin wrong
    BY <2>3, <2>7
  <2>9. loop[F \ {f}] = Rebuilt(F \ {f})
    BY <2>7, <2>8
  <2>10. loop[F] = Laid(loop[F \ {f}], f)
    BY <1>5, <2>5
  <2> QED BY <2>4, <2>6, <2>9, <2>10
<1> QED BY <1>4, <1>6

\* What a rebuild writes is what the loop over the kept files ends on, for the files kept,
\* with or without one of them, whatever they cover and in whatever order they came.
THEOREM RebuildIsTheLoopSafe == Spec => []RebuildIsTheLoop
<1>1. Init => KeptWereTaken /\ KeptApart
  BY FS_EmptySet DEF Init, KeptWereTaken, KeptApart
<1>2. TypeOK /\ KeptWereTaken /\ KeptApart /\ [Next]_vars => KeptWereTaken' /\ KeptApart'
  BY KeptTakenInductive, KeptApartInductive
<1>3. TypeOK /\ KeptWereTaken /\ KeptApart => RebuildIsTheLoop
  <2> SUFFICES ASSUME TypeOK, KeptWereTaken, KeptApart,
                      NEW files \in {statements} \cup {statements \ {f} : f \in statements}
               PROVE  Replayed(files) = Rebuilt(files)
    BY DEF RebuildIsTheLoop, Rebuilt
  <2>1. files \in SUBSET statements
    OBVIOUS
  <2> QED BY <2>1, TypeSplit, LoopIsRebuilt
<1> QED BY <1>1, <1>2, <1>3, TypeSafe, PTL DEF Spec
=============================================================================
