----------------------------- MODULE RefGrammar -----------------------------
(***************************************************************************)
(* The reference and list grammars of common.rs: column_identifier_no_alias,*)
(* as_alias, table_reference, schema_table_reference(_no_alias),          *)
(* table_list, field_list, the separator ws_sep_comma, if_not_exists,     *)
(* statement_terminator with eof, and parse_comment.  They are built on   *)
(* the dialect's identifier() and the nom combinators of SqlText.          *)
(***************************************************************************)
EXTENDS Integers, Sequences, SqlText, Dialect

(* Column { name, table } and Table { name, alias, schema } (column.rs,    *)
(* table.rs); an absent table, alias or schema is None.                    *)
Column(table, name) == [table |-> table, name |-> name]
Table(schema, name, alias) == [schema |-> schema, name |-> name, alias |-> alias]

W0(s) == Whitespace0(s).rest

(* ws_sep_comma: delimited(whitespace0, tag(","), whitespace0).            *)
WsSepComma(s) == Then(Tag(<<",">>, W0(s)), LAMBDA c, u : Ok(c, W0(u)))

(* column_identifier_no_alias: opt(terminated(identifier,                  *)
(* delimited(whitespace0, tag("."), whitespace0))), then identifier.  Once *)
(* the prefix "t." is read the name must follow: opt does not backtrack.   *)
(* Mutant: the dot of a qualified column with no whitespace around it.     *)
QualifierPrefixTight(d, s) ==
  Then(Identifier(d, s), LAMBDA t, u : Then(Tag(<<".">>, u), LAMBDA dot, w : Ok(t, w)))

QualifierPrefix(d, s) ==
  Then(Identifier(d, s), LAMBDA t, u :
  Then(Tag(<<".">>, W0(u)), LAMBDA dot, w : Ok(t, W0(w))))

ColumnIdentifierNoAlias(d, s) ==
  Then(Opt(QualifierPrefix(d, s), s), LAMBDA t, u :
  Then(Identifier(d, u), LAMBDA n, w : Ok(Column(t, n), w)))

(* as_alias: whitespace1, opt(pair(tag_no_case("as"), whitespace1)), then  *)
(* identifier, whose value is the alias.                                   *)
AsKeyword(s) == Then(TagNoCase(Chars("as"), s), LAMBDA a, u : Whitespace1(u))

(* Mutant: whitespace0 before the alias.                                   *)
AsAliasNoSpace(d, s) ==
  Then(Whitespace0(s), LAMBDA w, u :
  Then(Opt(AsKeyword(u), u), LAMBDA k, v : Identifier(d, v)))

AsAlias(d, s) ==
  Then(Whitespace1(s), LAMBDA w, u :
  Then(Opt(AsKeyword(u), u), LAMBDA k, v : Identifier(d, v)))

(* table_reference: pair(identifier, opt(as_alias)), with no schema.       *)
TableReference(d, s) ==
  Then(Identifier(d, s), LAMBDA n, u :
  Then(Opt(AsAlias(d, u), u), LAMBDA a, w : Ok(Table(None, n, a), w)))

(* opt(pair(identifier, tag("."))): a schema prefix, with no whitespace    *)
(* before the dot, unlike the table prefix of a column.                    *)
SchemaPrefix(d, s) ==
  Then(Identifier(d, s), LAMBDA sc, u :
  Then(Tag(<<".">>, u), LAMBDA dot, w : Ok(sc, w)))

SchemaTableReferenceNoAlias(d, s) ==
  Then(Opt(SchemaPrefix(d, s), s), LAMBDA sc, u :
  Then(Identifier(d, u), LAMBDA n, w : Ok(Table(sc, n, None), w)))

SchemaTableReference(d, s) ==
  Then(Opt(SchemaPrefix(d, s), s), LAMBDA sc, u :
  Then(Identifier(d, u), LAMBDA n, w :
  Then(Opt(AsAlias(d, w), w), LAMBDA a, x : Ok(Table(sc, n, a), x))))

(* The elements of the two lists: tables of table_list, columns of         *)
(* field_list.                                                             *)
Element(kind, d, s) ==
  IF kind = "table" THEN SchemaTableReference(d, s) ELSE ColumnIdentifierNoAlias(d, s)

(***************************************************************************)
(* nom separated_list0(ws_sep_comma, p) and separated_list1: after the     *)
(* first element the loop takes turns of a separator and an element.  Its  *)
(* state is a record: the elements acc read so far, the span at where the  *)
(* next turn starts, and whether the loop is done.                         *)
(***************************************************************************)
(* One turn's parse: ws_sep_comma, then the element.                        *)
SepNext(kind, d, at) == Then(WsSepComma(at), LAMBDA c, u : Element(kind, d, u))

(* A turn r that succeeded pushes its element and moves on to its rest;    *)
(* one that failed ends the list before the separator (Err::Error is       *)
(* caught and at is kept).  The separator always consumes its comma, so    *)
(* nom's no-progress check never fires.                                    *)
SepTurn(r, st) ==
  IF r.ok THEN [st EXCEPT !.acc = Append(@, r.val), !.at = r.rest] ELSE [st EXCEPT !.done = TRUE]

(* The loop as one function, for the callers that use a list's result:   *)
(* rest[k] is the loop run from the last k bytes of s, the elements it     *)
(* reads and where it ends.  A turn that succeeds reads the comma, so it   *)
(* continues from a shorter suffix.                                        *)
SepFrom(t, r, rest, k) ==
  IF r.ok /\ Len(r.rest) < k THEN [rest[Len(r.rest)] EXCEPT !.acc = <<r.val>> \o @]
  ELSE [acc |-> <<>>, at |-> t]

SepMore(kind, d, acc, s) ==
  LET rest[k \in 0..Len(s)] ==
        SepFrom(Drop(s, Len(s) - k), SepNext(kind, d, Drop(s, Len(s) - k)), rest, k)
  IN  Ok(acc \o rest[Len(s)].acc, rest[Len(s)].at)

SeparatedList1(kind, d, s) ==
  Then(Element(kind, d, s), LAMBDA v, u : SepMore(kind, d, <<v>>, u))
SeparatedList0(kind, d, s) == SeparatedList1(kind, d, s) (+) Ok(<<>>, s)

(* table_list: separated_list1(ws_sep_comma, schema_table_reference).      *)
TableList(d, s) == SeparatedList1("table", d, s)

(* field_list: separated_list0(ws_sep_comma, column_identifier_no_alias).  *)
FieldList(d, s) == SeparatedList0("column", d, s)

(* if_not_exists: opt of IF ws1 NOT ws1 EXISTS ws1, and whether it read it.*)
IfNotExistsClause(s) ==
  Then(TagNoCase(Chars("if"), s), LAMBDA a, t :
  Then(Whitespace1(t), LAMBDA b, u :
  Then(TagNoCase(Chars("not"), u), LAMBDA c, v :
  Then(Whitespace1(v), LAMBDA e, w :
  Then(TagNoCase(Chars("exists"), w), LAMBDA f, x : Whitespace1(x))))))

IfNotExists(s) ==
  Then(Opt(IfNotExistsClause(s), s), LAMBDA o, u : Ok(o # None, u))

(* eof: succeeds, consuming nothing, only on the empty span; line_ending:  *)
(* "\n" or "\r\n".                                                         *)
Eof(s) == IF s = <<>> THEN Ok(s, s) ELSE Err(s)
LineEnding(s) == Tag(<<"\n">>, s) (+) Tag(<<CR, "\n">>, s)

(* statement_terminator: delimited(whitespace0, alt((tag(";"),            *)
(* line_ending, eof)), whitespace0), returning ().                         *)
Terminator(s) == Tag(<<";">>, s) (+) LineEnding(s) (+) Eof(s)
StatementTerminator(s) == Then(Terminator(W0(s)), LAMBDA t, u : Ok(NoValue, W0(u)))

(* parse_comment: whitespace0, COMMENT, whitespace1, then the bytes up to  *)
(* the next quote (take_until) between two quotes, which must be UTF-8.    *)
QuotedComment(s) ==
  LET n == RunLength({s[i] : i \in DOMAIN s} \ {"'"}, Drop(s, 1))
  IN  IF Len(s) >= n + 2 /\ s[1] = "'" /\ s[n + 2] = "'"
         /\ \A i \in 2..n + 1 : s[i] # BadByte
      THEN Ok(SubSeq(s, 2, n + 1), Drop(s, n + 2))
      ELSE Err(s)

ParseComment(s) ==
  Then(TagNoCase(Chars("comment"), W0(s)), LAMBDA c, u :
  Then(Whitespace1(u), LAMBDA w, v : QuotedComment(v)))

=============================================================================
