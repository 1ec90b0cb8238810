---------------------------- MODULE KeySession ----------------------------
(***************************************************************************)
(* A CREATE TABLE statement being written out: the constraints of the     *)
(* table are added one at a time and each is rendered with Display for    *)
(* TableKey, as the statement's Display writes them one after another.    *)
(* The properties read the rendered texts back with the reference and     *)
(* list grammars of common.rs.                                             *)
(***************************************************************************)
EXTENDS FiniteSets, KeyRender

CONSTANTS
  Keys,     \* the constraints a table may have
  MaxKeys   \* how many constraints one table has at most

ASSUME MaxKeysAssumption == MaxKeys \in Nat

VARIABLES
  keys,    \* the constraints added so far
  texts    \* texts[i] is the rendering of keys[i]

vars == <<keys, texts>>

Init == keys = <<>> /\ texts = <<>>

(* The next constraint of the table, rendered with Display for TableKey.   *)
AddKey(k) ==
  /\ Len(keys) < MaxKeys
  /\ keys' = Append(keys, k)
  /\ texts' = Append(texts, KeyText(k))

(* The statement is written; the next CREATE TABLE starts with no keys.    *)
NextTable ==
  /\ keys # <<>>
  /\ keys' = <<>> /\ texts' = <<>>

Next == (\E k \in Keys : AddKey(k)) \/ NextTable

Spec == Init /\ [][Next]_vars

(***************************************************************************)
(* Properties.                                                             *)
(***************************************************************************)
(* A key with the tables of its columns dropped: Display writes only the  *)
(* names of the columns.                                                   *)
Unqualified(cols) == [i \in DOMAIN cols |-> Column(None, cols[i].name)]
WithoutTables(k) ==
  [k EXCEPT !.columns = Unqualified(@), !.targetColumns = Unqualified(@)]

(* The rendering loses nothing of a constraint but the tables of its      *)
(* columns: two constraints of a table that render to the same text are   *)
(* the same constraint up to those tables.  (A normalised CREATE TABLE    *)
(* that compares keys by their text relies on it.)                         *)
KeysRenderApart ==
  \A i, j \in DOMAIN keys :
    texts[i] = texts[j] => WithoutTables(keys[i]) = WithoutTables(keys[j])

(* The position of the n-th "(" of a text.                                 *)
Paren(t, n) ==
  CHOOSE p \in DOMAIN t :
    t[p] = "(" /\ Cardinality({q \in 1..p : t[q] = "("}) = n

(* The parenthesised list at the n-th "(", read by delimited(tag("("),     *)
(* field_list, tag(")")).                                                  *)
ReadColumns(t, n) ==
  Delimited(<<"(">>, LAMBDA u : FieldList(MySQL, u), <<")">>, Drop(t, Paren(t, n) - 1))

(* Every column list a key renders reads back, with field_list under      *)
(* MySQL, as the names of its columns: the key's columns for the first    *)
(* list, and the referenced columns for the second list of a foreign key.  *)
KeyColumnsReparse ==
  \A i \in DOMAIN keys :
    /\ keys[i].kind # "CheckConstraint" =>
         LET r == ReadColumns(texts[i], 1) IN r.ok /\ r.val = Unqualified(keys[i].columns)
    /\ keys[i].kind = "ForeignKey" =>
         LET r == ReadColumns(texts[i], 2) IN r.ok /\ r.val = Unqualified(keys[i].targetColumns)

=============================================================================
