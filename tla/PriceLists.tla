---------------------------- MODULE PriceLists ----------------------------
(***************************************************************************)
(* A price list is a table whose columns the user chooses.  Each call of   *)
(* the grid and of the column editor is one transaction under priceMu; the *)
(* import of a file reads the table without it and then makes two such     *)
(* calls, for the columns and for the rows.  Absent and empty cells are    *)
(* the same; a column keeps its role, and ModelKey is the one that names   *)
(* the product.                                                            *)
(***************************************************************************)
EXTENDS Integers, FiniteSets, FiniteSetsExt

CONSTANTS
  Keys, ModelKey,  \* column keys, and the key of the model column
  Texts, Blank,    \* contents of cells, and the empty cell
  Importers,       \* requests importing a file
  MaxRows,         \* bound: rows ever made
  MaxEdits         \* bound: calls of the grid and of the column editor

PriceListsAssumption ==
  ModelKey \in Keys /\ Blank \notin Texts /\ MaxRows \in Nat /\ MaxEdits \in Nat

VARIABLES
  columns,  \* keys of price_list_columns; none: the list is deleted
  rows,     \* price_list_rows: id -> cells and search_text
  imports,  \* importer -> what it is about to save
  edits

vars == <<columns, rows, imports, edits>>

Ids == 1..MaxRows
NoRow == [kind |-> "none"]
Gone == [kind |-> "deleted"]
Idle == [step |-> "idle"]
Cells == [Keys -> Texts \cup {Blank}]
Stored == {r \in Ids : rows[r] \notin {NoRow, Gone}}
Made == Cardinality({r \in Ids : rows[r] # NoRow})
Edit == columns # {} /\ edits < MaxEdits /\ edits' = edits + 1

\* priceSearchText.
SearchText(cells) == {cells[k] : k \in Keys} \ {Blank}
Row(cells) == [cells |-> cells, search |-> SearchText(cells)]

\* DefaultPriceColumns, no rows.
Init == columns = Keys /\ rows = [r \in Ids |-> NoRow] /\ imports = [i \in Importers |-> Idle] /\ edits = 0

TypeOK ==
  /\ columns \subseteq Keys /\ edits \in 0..MaxEdits
  /\ \A r \in Stored : rows[r].cells \in Cells /\ rows[r].search \subseteq Texts

-----------------------------------------------------------------------------
(* The grid and the column editor.                                         *)

CleanAny(cells, allowed) == cells
\* Only columns the list has now are stored.
Clean(cells, allowed) == [k \in Keys |-> IF k \in allowed THEN cells[k] ELSE Blank]

\* SavePriceColumns: the values of removed columns leave every row.
WithColumns(keys) ==
  [r \in Ids |-> IF r \notin Stored THEN rows[r] ELSE Row(Clean(rows[r].cells, keys \cup (Keys \ columns)))]
SavePriceColumns ==
  /\ Edit
  /\ \E keys \in SUBSET Keys \ {{}} : columns' = keys /\ rows' = WithColumns(keys)
  /\ UNCHANGED imports

AppendPriceRow ==
  /\ Edit /\ Made < MaxRows
  /\ \E cells \in Cells : rows' = [rows EXCEPT ![Made + 1] = Row(Clean(cells, columns))]
  /\ UNCHANGED <<columns, imports>>

\* UpdatePriceRowCells merges the cells the client sent.
UpdatePriceRowCells ==
  /\ Edit
  /\ \E r \in Stored, k \in Keys, text \in Texts \cup {Blank} :
       rows' = [rows EXCEPT ![r] =
         Row(IF k \in columns THEN [rows[r].cells EXCEPT ![k] = text] ELSE rows[r].cells)]
  /\ UNCHANGED <<columns, imports>>

DeletePriceRow ==
  /\ Edit /\ \E r \in Stored : rows' = [rows EXCEPT ![r] = Gone]
  /\ UNCHANGED <<columns, imports>>

\* SavePriceRows for a set of [id, cells]; a row whose id is unknown is added.
Added(pending) == {p \in pending : p.id \notin Stored}
SaveRows(pending) ==
  /\ Made + Cardinality(Added(pending)) <= MaxRows
  /\ \E place \in [Added(pending) -> Made + 1..Made + Cardinality(Added(pending))] :
       /\ \A p, q \in Added(pending) : p # q => place[p] # place[q]
       /\ rows' = [r \in Ids |->
            IF \E p \in Added(pending) : place[p] = r
              THEN Row(Clean((CHOOSE p \in Added(pending) : place[p] = r).cells, columns))
            ELSE IF r \in Stored /\ \E p \in pending : p.id = r
              THEN Row(Clean((CHOOSE p \in pending : p.id = r).cells, columns))
            ELSE rows[r]]

SavePriceRows ==
  /\ Edit /\ \E r \in Ids, cells \in Cells : SaveRows({[id |-> r, cells |-> cells]})
  /\ UNCHANGED <<columns, imports>>

DeletePriceList ==
  /\ Edit /\ columns' = {} /\ rows' = [r \in Ids |-> IF r \in Stored THEN Gone ELSE rows[r]]
  /\ UNCHANGED imports

-----------------------------------------------------------------------------
(* ImportPriceRows, in mode upsert or append.                              *)

SameModel(cells) == {r \in Stored : rows[r].cells[ModelKey] = cells[ModelKey]}
Matched(cells, upsert, known) ==
  IF upsert /\ ModelKey \in known /\ cells[ModelKey] # Blank /\ SameModel(cells) # {}
  THEN Max(SameModel(cells)) ELSE 0

\* What a file of at most two lines becomes against the table as it is read; a line
\* without content is skipped, an unknown header makes a column or is ignored.
ReadTable(i) ==
  /\ imports[i] = Idle /\ columns # {}
  /\ \E headers \in SUBSET Keys, upsert, create \in BOOLEAN, lines \in SUBSET Cells :
       LET known == IF create THEN columns \cup headers ELSE columns
           content(cells) == Clean(cells, headers \cap known)
           pending == {content(c) : c \in lines} \ {[k \in Keys |-> Blank]} IN
       /\ Cardinality(lines) \in 1..2
       /\ imports' = [imports EXCEPT ![i] = [step |-> "columns", columns |-> known, headers |-> headers \cap known,
            pending |-> {[id |-> Matched(c, upsert, known), cells |-> c] : c \in pending}]]
  /\ UNCHANGED <<columns, rows, edits>>

SaveImportedColumns(i) ==
  /\ imports[i].step = "columns"
  /\ IF columns = {} THEN imports' = [imports EXCEPT ![i] = Idle] /\ UNCHANGED <<columns, rows>>
     ELSE /\ imports' = [imports EXCEPT ![i].step = "rows"]
          /\ columns' = imports[i].columns /\ rows' = WithColumns(imports[i].columns)
  /\ UNCHANGED edits

SaveImportedRows(i) ==
  /\ imports[i].step = "rows" /\ imports' = [imports EXCEPT ![i] = Idle]
  /\ IF columns = {} THEN rows' = rows ELSE SaveRows(imports[i].pending)
  /\ UNCHANGED <<columns, edits>>

\* The request dies, or a call of it fails, between its steps.
Abandon(i) == imports[i] # Idle /\ imports' = [imports EXCEPT ![i] = Idle] /\ UNCHANGED <<columns, rows, edits>>

Next ==
  \/ SavePriceColumns \/ AppendPriceRow \/ UpdatePriceRowCells \/ DeletePriceRow \/ SavePriceRows \/ DeletePriceList
  \/ \E i \in Importers : ReadTable(i) \/ SaveImportedColumns(i) \/ SaveImportedRows(i) \/ Abandon(i)

Spec == Init /\ [][Next]_vars

-----------------------------------------------------------------------------
(* What the table promises.                                                *)

\* "A deleted column cannot live on as invisible data in every row", nor be found by a
\* search, whatever stale columns an import brings along (price_list.go:434-441, 575-577).
NothingInvisible ==
  \A r \in Stored : (\A k \in Keys \ columns : rows[r].cells[k] = Blank)
                    /\ rows[r].search = SearchText(rows[r].cells)

\* An import "merges" a file into the list: a row it updates keeps the cells the file
\* has no column for (price_list.go:1207-1210).
ImportMerges ==
  [][\A i \in Importers : imports[i].step = "rows" /\ imports'[i] = Idle =>
       \A p \in imports[i].pending : p.id \in Stored /\ rows'[p.id] # rows[p.id] =>
         \A k \in Keys \ imports[i].headers : rows'[p.id].cells[k] = rows[p.id].cells[k]]_vars

=============================================================================
