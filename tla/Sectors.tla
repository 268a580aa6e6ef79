------------------------------- MODULE Sectors -------------------------------
(***************************************************************************)
(* The sector table: one for every account, written by the imports of IB's *)
(* files, by the user's CSV and by hand (db/sectors.ts, SectorsPage.tsx,   *)
(* components/sectors).  A write of Dexie is a transaction on the table;   *)
(* the import of an account holds it from its first read to its commit.    *)
(* One EditableCell is on screen; its value follows a live query.          *)
(*                                                                         *)
(* A text is what it says, spelled as the table stores it or not; a score  *)
(* may say nothing readable.                                               *)
(***************************************************************************)
EXTENDS Naturals, Sequences, FiniteSets, SequencesExt

CONSTANTS
    Company,        \* tickers, in their one spelling
    Field,          \* the editable fields; "score" is one, "name" another
    Said,           \* what a field may say, Blank included
    Blank,          \* an empty text, an unknown score
    Unreadable,     \* what no score is
    Importer,       \* the accounts that import
    Sources,        \* what an import of IB reads: identities, trades, positions
    Files,          \* CSV files: the columns they carry and their rows
    NoRow,          \* the table has no row of this ticker; nothing under way
    MaxCommits      \* bound: commits of the cell under way at once

ASSUME SectorsAssumption ==
    /\ {"name", "score"} \subseteq Field
    /\ Blank \in Said /\ Unreadable \notin Said
    /\ NoRow \notin Importer
    /\ MaxCommits \in Nat \ {0}
    /\ Sources = {sources \in Sources :
            \A row \in ToSet(sources.identities \o sources.trades \o sources.positions) : row.ticker \in Company}
    /\ Files = {file \in Files : /\ file.columns \subseteq Field
                                 /\ file.rows \in Seq(ToSet(file.rows))
                                 /\ \A row \in ToSet(file.rows) : row.ticker \in Company}

Texts(field) ==
    [says : IF field = "score" THEN Said \cup {Unreadable} ELSE Said, plain : BOOLEAN]
Plain(said) == [says |-> said, plain |-> TRUE]

VARIABLES
    sectors,        \* the table: a row, or NoRow, for each ticker
    holder,         \* the importer whose transaction is open, or NoRow
    importing,      \* each importer: the sources it read and the tickers it found known
    cell,           \* the cell on screen: its row and field, the value it was rendered with, its draft
    commits,        \* its commits under way, oldest first
    adding,         \* the row being added by hand, or NoRow
    meant,          \* history: what the user or the CSV last gave each field, or NoRow
    typed           \* history: the text typed in the cell that no commit has taken, or NoRow

tableVars == <<sectors, holder, importing, adding, meant>>
cellVars == <<cell, commits, typed>>
sectorVars == <<tableVars, cellVars>>

NoImport == [step |-> "idle"]
EmptyFields == [field \in Field |-> Blank]
Known == {t \in Company : sectors[t] # NoRow}

-----------------------------------------------------------------------------
(***************************************************************************)
(* What an import of IB adds                                               *)
(***************************************************************************)
Classified(row) == row.secType \in {"STK", "OPT"} /\ ~row.dead

\* What a share's rows call it: a description that repeats the ticker names nothing.
NamesIn(rows, ticker) ==
    SelectSeq(rows, LAMBDA row : row.secType = "STK" /\ row.ticker = ticker
                                 /\ row.says \notin {Blank, ticker})

CompanyName(sources, ticker) ==
    LET names == NamesIn(sources.identities \o sources.trades \o sources.positions, ticker)
    IN  IF names = <<>> THEN Blank ELSE Head(names).says

\* What a field may hold: what is typed, what a file says, what an import calls a company.
FieldText ==
    Said \cup {Unreadable}
    \cup (UNION {{row.fields[field] : row \in ToSet(file.rows), field \in Field} : file \in Files})
    \cup {CompanyName(sources, ticker) : sources \in Sources, ticker \in Company}

ASSUME NoRowAssumption == NoRow \notin [Field -> FieldText]

MissingSectorRecords(known, sources) ==
    LET seen == {row.ticker : row \in {r \in ToSet(sources.trades \o sources.positions) : Classified(r)}}
    IN  [ticker \in seen \ known |-> [EmptyFields EXCEPT !["name"] = CompanyName(sources, ticker)]]

\* The column "En cours": the tickers the positions hold.
HeldTickers(positions) == {row.ticker : row \in {r \in ToSet(positions) : Classified(r) /\ r.quantity # 0}}

\* Mutant: the keys are read before the transaction.
BeginImportEarly(p) ==
    /\ importing[p] = NoImport
    /\ \E sources \in Sources :
          importing' = [importing EXCEPT ![p] = [step |-> "read", sources |-> sources, known |-> Known]]
    /\ UNCHANGED <<sectors, holder, adding, meant, cellVars>>

\* addMissingSectors: its transaction opens, and reads the keys.
BeginImport(p) ==
    /\ holder = NoRow /\ importing[p] = NoImport
    /\ \E sources \in Sources :
          importing' = [importing EXCEPT ![p] = [step |-> "read", sources |-> sources, known |-> Known]]
    /\ holder' = p
    /\ UNCHANGED <<sectors, adding, meant, cellVars>>

\* bulkAdd, which one key already there would abort with the import around it.
AddMissing(p) ==
    /\ importing[p].step = "read"
    /\ LET records == MissingSectorRecords(importing[p].known, importing[p].sources)
           collides == DOMAIN records \cap Known # {}
       IN  /\ sectors' = [t \in Company |-> IF t \in DOMAIN records /\ ~collides THEN records[t] ELSE sectors[t]]
           /\ importing' = [importing EXCEPT ![p] = IF collides THEN [step |-> "aborted"] ELSE NoImport]
    /\ holder' = NoRow
    /\ UNCHANGED <<adding, meant, cellVars>>

-----------------------------------------------------------------------------
(***************************************************************************)
(* The CSV, and the row typed by hand                                      *)
(***************************************************************************)
Mentions(rows, ticker) == {i \in DOMAIN rows : rows[i].ticker = ticker}

\* "The last row of a ticker named twice wins": each carries every column of the file.
LastMention(rows, ticker) ==
    rows[CHOOSE i \in Mentions(rows, ticker) : \A j \in Mentions(rows, ticker) : j <= i]

\* Mutant: a row of the file replaces the row stored.
MergedFromBlank(stored, columns, rows) ==
    [t \in Company |->
        IF Mentions(rows, t) = {} THEN stored[t]
        ELSE [field \in Field |-> IF field \in columns THEN LastMention(rows, t).fields[field] ELSE Blank]]

\* mergeSectorRows: a column of the file overwrites, an empty cell included; the rest stays.
MergeSectorRows(stored, columns, rows) ==
    [t \in Company |->
        LET base == IF stored[t] = NoRow THEN EmptyFields ELSE stored[t]
        IN  IF Mentions(rows, t) = {} THEN stored[t]
            ELSE [field \in Field |->
                    IF field \in columns THEN LastMention(rows, t).fields[field] ELSE base[field]]]

\* One score of the file that cannot be read refuses it whole.
ImportSectorCsv ==
    /\ holder = NoRow
    /\ \E file \in Files :
          /\ "score" \in file.columns => \A row \in ToSet(file.rows) : row.fields["score"] # Unreadable
          /\ sectors' = MergeSectorRows(sectors, file.columns, file.rows)
          /\ meant' = [t \in Company |-> [field \in Field |->
                IF field \in file.columns /\ Mentions(file.rows, t) # {}
                THEN LastMention(file.rows, t).fields[field] ELSE meant[t][field]]]
    /\ UNCHANGED <<holder, importing, adding, cellVars>>

\* add(): an unreadable score stops it, and a second Enter waits for the first.  What is typed
\* says the same in every field.
AskRow(ticker) ==
    /\ adding = NoRow
    /\ \E said \in Said : adding' = [ticker |-> ticker, fields |-> [field \in Field |-> said]]
    /\ UNCHANGED <<sectors, holder, importing, meant, cellVars>>

\* addSector: a ticker already in the table is refused.
AddSector ==
    /\ holder = NoRow /\ adding # NoRow
    /\ IF sectors[adding.ticker] # NoRow THEN UNCHANGED <<sectors, meant>>
       ELSE /\ sectors' = [sectors EXCEPT ![adding.ticker] = adding.fields]
            /\ meant' = [meant EXCEPT ![adding.ticker] = adding.fields]
    /\ adding' = NoRow
    /\ UNCHANGED <<holder, importing, cellVars>>

DeleteSector(ticker) ==
    /\ holder = NoRow /\ sectors[ticker] # NoRow
    /\ sectors' = [sectors EXCEPT ![ticker] = NoRow]
    /\ meant' = [meant EXCEPT ![ticker] = [field \in Field |-> NoRow]]
    /\ UNCHANGED <<holder, importing, adding, cellVars>>

-----------------------------------------------------------------------------
(***************************************************************************)
(* EditableCell                                                            *)
(***************************************************************************)
Mounted(at) ==
    LET value == Plain(sectors[at.ticker][at.field])
    IN  [ticker |-> at.ticker, field |-> at.field, shown |-> TRUE, value |-> value, draft |-> value,
         dirty |-> FALSE, invalid |-> FALSE]

\* The live query brings the stored row: mounts the cell, unmounts it, or gives it a value,
\* which its draft follows unless it is being typed in.
Refresh ==
    /\ LET row == sectors[cell.ticker]
       IN  CASE row = NoRow ->
                  /\ cell.shown /\ cell' = [cell EXCEPT !.shown = FALSE] /\ typed' = NoRow
                  /\ commits' = [k \in DOMAIN commits |-> [commits[k] EXCEPT !.orphan = TRUE]]
             [] row # NoRow /\ ~cell.shown -> cell' = Mounted(cell) /\ UNCHANGED <<commits, typed>>
             [] OTHER ->
                  /\ cell.value # Plain(row[cell.field])
                  /\ cell' = [cell EXCEPT !.value = Plain(row[cell.field]),
                                          !.draft = IF cell.dirty THEN @ ELSE Plain(row[cell.field])]
                  /\ UNCHANGED <<commits, typed>>
    /\ UNCHANGED tableVars

Type ==
    /\ cell.shown
    /\ \E text \in Texts(cell.field) :
          /\ cell' = [cell EXCEPT !.draft = text, !.dirty = TRUE]
          /\ typed' = text
    /\ UNCHANGED <<tableVars, commits>>

Escape ==
    /\ cell.shown
    /\ cell' = [cell EXCEPT !.draft = cell.value, !.dirty = FALSE, !.invalid = FALSE]
    /\ typed' = NoRow
    /\ UNCHANGED <<tableVars, commits>>

\* commit(), on Enter or on blur: a draft that says what is stored is put back.
Commit ==
    /\ cell.shown /\ cell.dirty /\ Len(commits) < MaxCommits
    /\ IF cell.draft.says = cell.value.says
       THEN /\ cell' = [cell EXCEPT !.draft = cell.value, !.dirty = FALSE, !.invalid = FALSE]
            /\ UNCHANGED commits
       ELSE /\ UNCHANGED cell
            /\ commits' = Append(commits,
                  [says |-> cell.draft.says, answer |-> "waits", orphan |-> FALSE])
    /\ typed' = NoRow
    /\ UNCHANGED tableVars

\* Mutant: the row is put back whole, deleted or not.
UpdatePut(said) ==
    /\ sectors' = [sectors EXCEPT ![cell.ticker] =
            [(IF @ = NoRow THEN EmptyFields ELSE @) EXCEPT ![cell.field] = said]]
    /\ meant' = IF sectors[cell.ticker] = NoRow THEN meant ELSE [meant EXCEPT ![cell.ticker][cell.field] = said]

\* updateSector: nothing is written when the row has been deleted in the meantime.
UpdateSector(said) ==
    IF sectors[cell.ticker] = NoRow THEN UNCHANGED <<sectors, meant>>
    ELSE /\ sectors' = [sectors EXCEPT ![cell.ticker][cell.field] = said]
         /\ meant' = [meant EXCEPT ![cell.ticker][cell.field] = said]

\* onCommit: an unreadable score never reaches the table.
WriteCommit(k) ==
    /\ commits[k].answer = "waits" /\ \A j \in 1 .. k - 1 : commits[j].answer # "waits"
    /\ LET said == commits[k].says IN
       IF said = Unreadable
       THEN commits' = [commits EXCEPT ![k].answer = "refused"] /\ UNCHANGED <<sectors, meant>>
       ELSE /\ holder = NoRow
            /\ UpdateSector(said)
            /\ commits' = [commits EXCEPT ![k].answer =
                                IF sectors[cell.ticker] = NoRow THEN "refused" ELSE "accepted"]
    /\ UNCHANGED <<holder, importing, adding, cell, typed>>

\* What follows the await: a cell that was accepted is no longer dirty, whatever was typed
\* since.  A cell unmounted meanwhile hears nothing.
CommitAnswered ==
    /\ commits # <<>> /\ Head(commits).answer # "waits"
    /\ LET accepted == Head(commits).answer = "accepted"
       IN  cell' = IF Head(commits).orphan THEN cell
                   ELSE [cell EXCEPT !.invalid = ~accepted, !.dirty = @ /\ ~accepted]
    /\ commits' = Tail(commits)
    /\ UNCHANGED <<tableVars, typed>>

-----------------------------------------------------------------------------
SectorsInit ==
    /\ sectors = [t \in Company |-> NoRow] /\ meant = [t \in Company |-> [field \in Field |-> NoRow]]
    /\ holder = NoRow /\ adding = NoRow
    /\ importing = [p \in Importer |-> NoImport]
    /\ \E ticker \in Company, field \in Field :
          cell = [ticker |-> ticker, field |-> field, shown |-> FALSE, value |-> Plain(Blank),
                  draft |-> Plain(Blank), dirty |-> FALSE, invalid |-> FALSE]
    /\ commits = <<>> /\ typed = NoRow

SectorsNext ==
    \/ \E p \in Importer : BeginImport(p) \/ AddMissing(p)
    \/ ImportSectorCsv \/ AddSector
    \/ \E ticker \in Company : AskRow(ticker) \/ DeleteSector(ticker)
    \/ Refresh \/ Type \/ Escape \/ Commit \/ CommitAnswered
    \/ \E k \in DOMAIN commits : WriteCommit(k)

SectorsSpec == SectorsInit /\ [][SectorsNext]_sectorVars

-----------------------------------------------------------------------------
\* A field of the table is what the user or the file last gave it, until the row is deleted;
\* what nobody gave is blank, or the name an import read: no import rewrites a row, the file
\* empties no column it lacks, and a late commit brings no deleted row back.
TypedStands ==
    \A t \in Company :
        IF sectors[t] = NoRow THEN \A field \in Field : meant[t][field] = NoRow
        ELSE \A field \in Field :
                \/ sectors[t][field] = meant[t][field]
                \/ /\ meant[t][field] = NoRow
                   /\ \/ sectors[t][field] = Blank
                      \/ field = "name" /\ \E sources \in Sources : CompanyName(sources, t) = sectors[t][field]
                   /\ \/ \E sources \in Sources :
                            t \in {row.ticker : row \in ToSet(sources.trades \o sources.positions)}
                      \/ \E file \in Files : Mentions(file.rows, t) # {}

\* Two accounts that import the same new ticker at once never abort one another.
ImportsNeverCollide == \A p \in Importer : importing[p].step # "aborted"

\* What EditableCell says of itself: it follows the stored value, but never under the user's
\* typing: a text typed stays on screen until it is committed, escaped, or its row goes.
NeverUnderTyping == typed # NoRow => cell.draft = typed
=============================================================================
