---------------------------- MODULE RefSession ----------------------------
(***************************************************************************)
(* A statement parser reading a text with the reference and list grammars *)
(* of common.rs: at each step it calls one entry point on the text still  *)
(* to be read, in any order, as the parsers of CREATE TABLE, SELECT and   *)
(* INSERT combine them.  A success moves the reader to the rest the entry *)
(* point returned; a failure leaves it where it was (nom's alt and opt    *)
(* resume from their own input).                                           *)
(***************************************************************************)
EXTENDS FiniteSets, RefGrammar

CONSTANTS
  Inputs,   \* the texts a session reads
  Names     \* identifiers the values of WholeFormsParse are made of

(* A text handed to a parser is a byte span.                               *)
ASSUME InputsAssumption == Inputs \subseteq Seq(Bytes)

VARIABLES
  dialect,  \* the dialect the entry points are called with
  text,     \* the text still to be read
  last,     \* the last call: entry point, input, success and value
  list      \* the loop of table_list or field_list under way, or NoList

vars == <<dialect, text, last, list>>

Contract == INSTANCE RefContract

(* No list is being read.                                                  *)
NoList == [entry |-> "none", acc |-> <<>>, at |-> <<>>, done |-> FALSE]

(* The element kind each list entry point reads.                           *)
ListKind(e) == IF e = "table_list" THEN "table" ELSE "column"

Init ==
  /\ dialect \in Dialects
  /\ text \in Inputs
  /\ last = Contract!NoCall
  /\ list = NoList

(* Entry point e returned r on the text: the call is recorded and the      *)
(* reader moves to the rest on a success.                                   *)
Call(e, r) ==
  /\ last' = [entry |-> e, input |-> text, ok |-> r.ok, val |-> r.val]
  /\ text' = IF r.ok THEN r.rest ELSE text

(* A call of an entry point whose parse is one function of the text.       *)
Read(e, r) == list = NoList /\ Call(e, r) /\ UNCHANGED <<dialect, list>>

ReadColumn == Read("column_identifier_no_alias", ColumnIdentifierNoAlias(dialect, text))
ReadTableReference == Read("table_reference", TableReference(dialect, text))
ReadSchemaTableReference == Read("schema_table_reference", SchemaTableReference(dialect, text))
ReadSchemaTableReferenceNoAlias ==
  Read("schema_table_reference_no_alias", SchemaTableReferenceNoAlias(dialect, text))
ReadIfNotExists == Read("if_not_exists", IfNotExists(text))
ReadStatementTerminator == Read("statement_terminator", StatementTerminator(text))
ReadComment == Read("parse_comment", ParseComment(text))

(***************************************************************************)
(* table_list and field_list: separated_list1 and separated_list0 run     *)
(* their loop inside the one call, a turn at a time.  The first element r  *)
(* opens the loop; when it fails, table_list fails and field_list returns *)
(* the empty list without reading (alt's second branch).                   *)
(***************************************************************************)
OpenList(e, r, empty) ==
  /\ list = NoList
  /\ IF r.ok
     THEN list' = [entry |-> e, acc |-> <<r.val>>, at |-> r.rest, done |-> FALSE]
          /\ UNCHANGED <<text, last>>
     ELSE Call(e, empty) /\ UNCHANGED list
  /\ UNCHANGED dialect

ReadTableList == OpenList("table_list", Element("table", dialect, text), Err(text))
ReadFieldList == OpenList("field_list", Element("column", dialect, text), Ok(<<>>, text))

(* The loop state after a turn: when it is done the call returns the       *)
(* elements read and the span before the separator that failed.           *)
EndTurn(st) ==
  IF st.done
  THEN Call(list.entry, Ok(st.acc, st.at)) /\ list' = NoList
  ELSE list' = st /\ UNCHANGED <<text, last>>

ListTurn ==
  /\ list # NoList
  /\ EndTurn(SepTurn(SepNext(ListKind(list.entry), dialect, list.at), list))
  /\ UNCHANGED dialect

Next ==
  \/ ReadColumn
  \/ ReadTableReference
  \/ ReadSchemaTableReference
  \/ ReadSchemaTableReferenceNoAlias
  \/ ReadTableList
  \/ ReadFieldList
  \/ ListTurn
  \/ ReadIfNotExists
  \/ ReadStatementTerminator
  \/ ReadComment

Spec == Init /\ [][Next]_vars

(***************************************************************************)
(* Properties.                                                             *)
(***************************************************************************)
OptNames == {None} \cup {Some(n) : n \in Names}
Columns == [table : OptNames, name : Names]
Tables == [schema : OptNames, name : Names, alias : OptNames]
Lists(S) == {<<>>} \cup {<<x>> : x \in S} \cup {<<x, y>> : x, y \in S}

(* The values entry point e returns, made of Names.                        *)
Values(e) ==
  CASE e = "column_identifier_no_alias" -> Columns
    [] e \in {"table_reference", "schema_table_reference",
              "schema_table_reference_no_alias"} -> Tables
    [] e = "table_list" -> Lists(Tables) \ {<<>>}
    [] e = "field_list" -> Lists(Columns)
    [] e = "if_not_exists" -> BOOLEAN
    [] e = "statement_terminator" -> {NoValue}
    [] e = "parse_comment" -> Names

(* Every call of a grammar entry point reads a prefix of the text that     *)
(* spells, in the grammar of the spec, the value it returns, and a failed  *)
(* call reads nothing: the session implements RefContract.                 *)
RefinesContract == Contract!Spec

(* When the whole text handed to an entry point spells a value made of     *)
(* Names in the spec's grammar, the call succeeds, returns that value and  *)
(* reads all of the text ("foo . bar" is the column bar of table foo, an   *)
(* alias may come with or without AS).                                      *)
(* Names hold no comma, so a list spelled by p has one element more than p *)
(* has commas: the values WholeFormsParse needs to try for p.              *)
Commas(p) == Cardinality({i \in DOMAIN p : p[i] = ","})
Candidates(e, p) ==
  {v \in Values(e) : e \in {"table_list", "field_list"} => Len(v) = Commas(p) + 1
                                                         \/ v = <<>>}

WholeFormsParse ==
  last.entry \in Contract!Entries \ {"statement_terminator"} =>
    \A v \in Candidates(last.entry, last.input) :
      Contract!Spells(last.entry, dialect, v, last.input, <<>>) =>
        last.ok /\ last.val = v /\ text = <<>>

(* statement_terminator accepts a line ending (spec section 6): a call on  *)
(* a text that starts with a line ending succeeds.                         *)
StartsWithLineEnding(s) ==
  SubSeq(s, 1, 1) = <<"\n">> \/ SubSeq(s, 1, 2) = <<CR, "\n">>

TerminatorAcceptsLineEnding ==
  last.entry = "statement_terminator" /\ StartsWithLineEnding(last.input) => last.ok

=============================================================================
