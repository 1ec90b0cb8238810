----------------------------- MODULE KeyRender -----------------------------
(***************************************************************************)
(* The table-constraint model of common.rs and its canonical rendering:   *)
(* IndexType, ReferentialAction and TableKey with their Display impls.    *)
(* A column is a Column of RefGrammar; the target of a foreign key a      *)
(* Table; the expression of a CHECK constraint is the text its Display    *)
(* writes (the expression grammar is outside src/).                        *)
(***************************************************************************)
EXTENDS Integers, Sequences, RefGrammar

(* enum IndexType and Display for IndexType.                               *)
IndexTypes == {"BTree", "Hash"}
IndexTypeText == [BTree |-> Chars("BTREE"), Hash |-> Chars("HASH")]

(* enum ReferentialAction and Display for ReferentialAction.               *)
ReferentialActions == {"Cascade", "SetNull", "Restrict", "NoAction", "SetDefault"}
ReferentialActionText ==
  [Cascade |-> Chars("CASCADE"), SetNull |-> Chars("SET NULL"),
   Restrict |-> Chars("RESTRICT"), NoAction |-> Chars("NO ACTION"),
   SetDefault |-> Chars("SET DEFAULT")]

(***************************************************************************)
(* enum TableKey: one record shape for the six variants; a field a        *)
(* variant does not have is None or <<>>.                                  *)
(***************************************************************************)
NoKey == [kind |-> "", name |-> None, indexName |-> None, columns |-> <<>>,
          indexType |-> None, target |-> NoValue, targetColumns |-> <<>>,
          onDelete |-> None, onUpdate |-> None, expr |-> <<>>, enforced |-> None]

PrimaryKey(name, cols) == [NoKey EXCEPT !.kind = "PrimaryKey", !.name = name, !.columns = cols]
UniqueKey(name, cols, it) ==
  [NoKey EXCEPT !.kind = "UniqueKey", !.name = name, !.columns = cols, !.indexType = it]
FulltextKey(name, cols) == [NoKey EXCEPT !.kind = "FulltextKey", !.name = name, !.columns = cols]
Key(name, cols, it) ==
  [NoKey EXCEPT !.kind = "Key", !.name = Some(name), !.columns = cols, !.indexType = it]
ForeignKey(name, idx, cols, target, tcols, del, upd) ==
  [NoKey EXCEPT !.kind = "ForeignKey", !.name = name, !.indexName = idx, !.columns = cols,
                !.target = target, !.targetColumns = tcols, !.onDelete = del, !.onUpdate = upd]
CheckConstraint(name, expr, enforced) ==
  [NoKey EXCEPT !.kind = "CheckConstraint", !.name = name, !.expr = expr, !.enforced = enforced]

(***************************************************************************)
(* Display for TableKey.                                                   *)
(***************************************************************************)
Quoted(n) == <<"<96>">> \o n \o <<"<96>">>

(* The parts joined by ", " (Vec::join and Itertools::join).               *)
Joined(parts) ==
  LET f[i \in 0..Len(parts)] ==
        IF i = 0 THEN <<>> ELSE f[i - 1] \o (IF i = 1 THEN <<>> ELSE Chars(", ")) \o parts[i]
  IN  f[Len(parts)]

(* Mutant: the column names written without backticks.                    *)
ColumnListBare(cols) == Chars("(") \o Joined([i \in DOMAIN cols |-> cols[i].name]) \o Chars(")")

(* "(`c1`, `c2`)": the names of the columns, quoted; their tables are not *)
(* written.                                                                *)
ColumnList(cols) == Chars("(") \o Joined([i \in DOMAIN cols |-> Quoted(cols[i].name)]) \o Chars(")")

(* "`name` " when the key has a name.                                      *)
OptName(n) == IF n = None THEN <<>> ELSE Quoted(n[1]) \o Chars(" ")

(* Mutant: the index type left out of the rendering.                      *)
UsingDropped(it) == <<>>

Using(it) == IF it = None THEN <<>> ELSE Chars(" USING ") \o IndexTypeText[it[1]]
OnAction(kw, a) == IF a = None THEN <<>> ELSE Chars(kw) \o ReferentialActionText[a[1]]

(* name.as_deref().unwrap_or("").                                          *)
UnwrapOrEmpty(o) == IF o = None THEN <<>> ELSE o[1]

(* Display for Table (table.rs, outside src/): `schema`.`name` AS `alias`. *)
TableText(t) ==
  (IF t.schema = None THEN <<>> ELSE Quoted(t.schema[1]) \o Chars("."))
  \o Quoted(t.name)
  \o (IF t.alias = None THEN <<>> ELSE Chars(" AS ") \o Quoted(t.alias[1]))

Enforcement(e) ==
  CASE e = None -> <<>>
    [] e = <<TRUE>> -> Chars(" ENFORCED")
    [] e = <<FALSE>> -> Chars(" NOT ENFORCED")

KeyText(k) ==
  CASE k.kind = "PrimaryKey" -> Chars("PRIMARY KEY ") \o OptName(k.name) \o ColumnList(k.columns)
    [] k.kind = "UniqueKey" ->
         Chars("UNIQUE KEY ") \o OptName(k.name) \o ColumnList(k.columns) \o Using(k.indexType)
    [] k.kind = "FulltextKey" -> Chars("FULLTEXT KEY ") \o OptName(k.name) \o ColumnList(k.columns)
    [] k.kind = "Key" ->
         Chars("KEY ") \o OptName(k.name) \o ColumnList(k.columns) \o Using(k.indexType)
    [] k.kind = "ForeignKey" ->
         Chars("CONSTRAINT ") \o Quoted(UnwrapOrEmpty(k.name)) \o Chars(" FOREIGN KEY ")
         \o UnwrapOrEmpty(k.indexName) \o ColumnList(k.columns) \o Chars(" REFERENCES ")
         \o TableText(k.target) \o Chars(" ") \o ColumnList(k.targetColumns)
         \o OnAction(" ON DELETE ", k.onDelete) \o OnAction(" ON UPDATE ", k.onUpdate)
    [] k.kind = "CheckConstraint" ->
         Chars("CONSTRAINT") \o (IF k.name = None THEN <<>> ELSE Chars(" ") \o Quoted(k.name[1]))
         \o Chars(" CHECK ") \o k.expr \o Enforcement(k.enforced)

=============================================================================
