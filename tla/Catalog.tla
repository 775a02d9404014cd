------------------------------ MODULE Catalog -------------------------------
(***************************************************************************)
(* The catalog (catalog/catalog.go) with its lookup maps and its file, and *)
(* what the IndexManager of a starting engine needs of it                  *)
(* (indexing/index_manager.go).                                            *)
(*                                                                         *)
(* SaveCatalogState writes to a file named .tmp inside the catalog file,   *)
(* as if that were a directory, so saving fails and leaves the file as it  *)
(* was; the object is in memory all the same.                              *)
(***************************************************************************)
EXTENDS Naturals, Sequences, SequencesExt, FiniteSets

CONSTANTS
  Names,         \* table names, used for indexes too
  Columns,       \* column names
  IndexTypes,    \* what an index type may be given as
  MaxId,         \* bound on NextId
  Files,         \* what the catalog file may hold when the system is set up
  NoFile, NoTable

VARIABLES
  tables,      \* Catalog.Tables
  NextId,
  tableMap,    \* name |-> oid, or NoTable
  columnMap,   \* column name |-> sequence of oids
  stored,      \* the catalog file: [nextId, tables], or NoFile
  issued       \* history: the oids given out since the catalog was loaded

catalogVars == <<tables, NextId, tableMap, columnMap, stored, issued>>

HasTable(n) == tableMap[n] # NoTable
PositionOf(n) == SelectInSeq(tables, LAMBDA t : t.oid = tableMap[n])
IndexesIn(ts) == UNION {ToSet(ts[i].indexes) : i \in DOMAIN ts}


\* fromJSON: the maps are made anew, table by table, column by column.
fromJSON(file) ==
  LET having(c) == FlattenSeq([i \in DOMAIN file.tables |->
                     [j \in DOMAIN SelectSeq(file.tables[i].columns, LAMBDA f : f = c) |-> file.tables[i].oid]])
  IN  [tables |-> file.tables, nextId |-> file.nextId,
       tableMap |-> [n \in Names |-> LET i == SelectLastInSeq(file.tables, LAMBDA t : t.name = n)
                                     IN  IF i = 0 THEN NoTable ELSE file.tables[i].oid],
       columnMap |-> [c \in Columns |-> having(c)]]

NewCatalog(file) == fromJSON(IF file = NoFile THEN [nextId |-> 0, tables |-> <<>>] ELSE file)

IsCatalog(c) == /\ tables = c.tables /\ NextId = c.nextId
                /\ tableMap = c.tableMap /\ columnMap = c.columnMap

CatalogInit ==
  /\ stored \in Files \cup {NoFile}
  /\ IsCatalog(NewCatalog(stored))
  /\ issued = <<>>

\* A duplicate name is refused.  Otherwise the table is entered, and then saved.
AddTable(n, columns) ==
  /\ ~HasTable(n) /\ NextId < MaxId
  /\ NextId' = NextId + 1
  /\ tables' = Append(tables, [oid |-> NextId + 1, name |-> n, columns |-> columns, indexes |-> <<>>])
  /\ tableMap' = [tableMap EXCEPT ![n] = NextId + 1]
  /\ columnMap' = [c \in Columns |-> columnMap[c] \o
                     [j \in DOMAIN SelectSeq(columns, LAMBDA f : f = c) |-> NextId + 1]]
  /\ issued' = Append(issued, NextId + 1)
  /\ UNCHANGED stored

\* The type of an index is taken as it comes.
AddIndex(x, n, type, key) ==
  /\ HasTable(n) /\ NextId < MaxId
  /\ \A i \in ToSet(tables[PositionOf(n)].indexes) : i.name # x
  /\ ToSet(key) \subseteq ToSet(tables[PositionOf(n)].columns)
  /\ NextId' = NextId + 1
  /\ tables' = [tables EXCEPT ![PositionOf(n)].indexes =
                  Append(@, [oid |-> NextId + 1, name |-> x, type |-> type, key |-> key])]
  /\ issued' = Append(issued, NextId + 1)
  /\ UNCHANGED <<tableMap, columnMap, stored>>

RestartCatalog ==
  /\ LET c == NewCatalog(stored)
     IN  /\ tables' = c.tables /\ NextId' = c.nextId
         /\ tableMap' = c.tableMap /\ columnMap' = c.columnMap
  /\ issued' = <<>>
  /\ UNCHANGED stored

ColumnLists == {<<c>> : c \in Columns} \cup {<<c, d>> : c, d \in Columns}

CatalogNext ==
  \/ \E n \in Names, columns \in ColumnLists : AddTable(n, columns)
  \/ \E x, n \in Names, type \in IndexTypes, key \in ColumnLists : AddIndex(x, n, type, key)
  \/ RestartCatalog
CatalogSpec == CatalogInit /\ [][CatalogNext]_catalogVars
-----------------------------------------------------------------------------
\* The lookup maps say what the list of tables says, after any mixture of calls
\* and reloads: GetTableMetadata finds a table by name if and only if GetTableByOid
\* finds it in the list, and FindTablesWithColumnName returns every table with such
\* a column, and no other.
MapsAgree ==
  /\ \A n \in Names :
       IF HasTable(n) THEN PositionOf(n) # 0 /\ tables[PositionOf(n)].name = n
       ELSE \A i \in DOMAIN tables : tables[i].name # n
  /\ \A c \in Columns : ToSet(columnMap[c]) =
       {tables[i].oid : i \in {j \in DOMAIN tables : c \in ToSet(tables[j].columns)}}

\* An oid belongs to one table or index, among those of the catalog file and
\* those added since: a heap file or a lock tag never stands for two objects.
OidsUnique ==
  LET ofTables == {tables[i].oid : i \in DOMAIN tables}
      ofIndexes == {x.oid : x \in IndexesIn(tables)}
  IN  /\ Cardinality(ofTables) = Len(tables) /\ ofTables \cap ofIndexes = {} /\ IsInjective(issued)
      /\ \A i, j \in DOMAIN tables : i # j => ToSet(tables[i].indexes) \cap ToSet(tables[j].indexes) = {}

=============================================================================
