---------------------------- MODULE RefContract ----------------------------
(***************************************************************************)
(* What the reference and list grammars promise, written from the spec    *)
(* (sections 4.1, 4.6 and 6) and not from their code: a caller holds the  *)
(* text still to be read and calls one grammar entry point at a time.  A   *)
(* call either fails and leaves the text alone, or reads a prefix of the   *)
(* text that spells the value it returns, and leaves the rest.             *)
(*                                                                         *)
(* The spelling of a value is given by recognisers: predicates on a span.  *)
(* Identifiers are the dialect's black box: a span spells the name n when  *)
(* it is n, bare or between the dialect's quotes, and identifier() reads   *)
(* all of it as n.                                                         *)
(***************************************************************************)
EXTENDS Integers, Sequences, SqlText, Dialect

VARIABLES
  dialect,  \* the dialect every call of the session is made with
  text,     \* the text still to be read
  last      \* the last call: its entry point, its input, whether it succeeded, its value

vars == <<dialect, text, last>>

(* The grammar entry points, named after their functions in common.rs.     *)
Entries == {"column_identifier_no_alias", "table_reference",
            "schema_table_reference", "schema_table_reference_no_alias",
            "table_list", "field_list", "if_not_exists",
            "statement_terminator", "parse_comment"}

(***************************************************************************)
(* Recognisers.  Cat(A, B, p): p is an A followed by a B.                  *)
(***************************************************************************)
Cat(A(_), B(_), p) == \E k \in 0..Len(p) : A(SubSeq(p, 1, k)) /\ B(Drop(p, k))

IsWs0(p) == \A i \in DOMAIN p : p[i] \in Blank
IsWs1(p) == p # <<>> /\ IsWs0(p)
IsText(str, p) == p = Chars(str)
IsWord(kw, p) ==
  Len(p) = Len(kw) /\ \A i \in DOMAIN p : CaseFold(p[i]) = CaseFold(Chars(kw)[i])
IsId(d, n, p) ==
  /\ p \in {n, <<IdentQuote(d)>> \o n \o <<IdentQuote(d)>>}
  /\ Identifier(d, p) = Ok(n, <<>>)

(* An optional part: empty when absent, else spelled by P.                 *)
IsOpt(o, P(_, _), p) == IF o = None THEN p = <<>> ELSE P(o[1], p)

(* "table." before a column, whitespace tolerated around the dot.          *)
IsQualifier(d, t, p) ==
  Cat(LAMBDA q : IsId(d, t, q), LAMBDA q :
  Cat(IsWs0, LAMBDA r : Cat(LAMBDA x : IsText(".", x), IsWs0, r), q), p)

(* "schema." before a table.                                               *)
IsSchema(d, sc, p) ==
  Cat(LAMBDA q : IsId(d, sc, q), LAMBDA q : IsText(".", q), p)

(* An alias: mandatory whitespace, an optional AS and whitespace, a name.  *)
IsAlias(d, a, p) ==
  Cat(IsWs1, LAMBDA q :
    \/ IsId(d, a, q)
    \/ Cat(LAMBDA r : IsWord("as", r), LAMBDA r :
       Cat(IsWs1, LAMBDA x : IsId(d, a, x), r), q), p)

IsColumn(d, v, p) ==
  Cat(LAMBDA q : IsOpt(v.table, LAMBDA t, r : IsQualifier(d, t, r), q),
      LAMBDA q : IsId(d, v.name, q), p)

IsTable(d, withAlias, v, p) ==
  Cat(LAMBDA q : IsOpt(v.schema, LAMBDA sc, r : IsSchema(d, sc, r), q),
  LAMBDA q : Cat(LAMBDA r : IsId(d, v.name, r),
  LAMBDA r : IsOpt(v.alias, LAMBDA a, x : withAlias /\ IsAlias(d, a, x), r), q), p)

(* The elements vs separated by commas with whitespace around them: the    *)
(* tables of a table list, the columns of a field list.                    *)
IsElement(kind, d, v, p) ==
  IF kind = "table" THEN IsTable(d, TRUE, v, p) ELSE IsColumn(d, v, p)

IsComma(p) == Cat(IsWs0, LAMBDA x : Cat(LAMBDA y : IsText(",", y), IsWs0, x), p)

(* The offsets k of p from which an element v is spelled that ends at an  *)
(* offset of ends; the offsets c from which a comma is spelled that ends  *)
(* at an offset of starts.                                                 *)
ElementFrom(kind, d, v, p, ends) ==
  {k \in 0..Len(p) : \E c \in ends : k <= c /\ IsElement(kind, d, v, SubSeq(p, k + 1, c))}
CommaFrom(p, starts) ==
  {c \in 0..Len(p) : \E m \in starts : IsComma(SubSeq(p, c + 1, m))}

(* The list vs spelled by p.  From[j] holds the offsets of p from which    *)
(* the rest of p spells the elements vs[j], ..., vs[Len(vs)], separated by *)
(* commas.                                                                 *)
IsList(kind, d, vs, p) ==
  LET From[j \in 1..Len(vs)] ==
        ElementFrom(kind, d, vs[j], p,
                    IF j = Len(vs) THEN {Len(p)} ELSE CommaFrom(p, From[j + 1]))
  IN  IF vs = <<>> THEN p = <<>> ELSE 0 \in From[1]

IsIfNotExists(v, p) ==
  IF ~v THEN p = <<>>
  ELSE Cat(LAMBDA q : IsWord("if", q), LAMBDA q : Cat(IsWs1, LAMBDA r :
       Cat(LAMBDA x : IsWord("not", x), LAMBDA x : Cat(IsWs1, LAMBDA y :
       Cat(LAMBDA z : IsWord("exists", z), IsWs1, y), x), r), q), p)

(* A statement ends at ";", a line ending or the end of the input, with    *)
(* whitespace on both sides.                                               *)
IsTerminator(p, rest) ==
  Cat(IsWs0, LAMBDA q : Cat(LAMBDA r : \/ IsText(";", r) \/ r = <<"\n">>
                                       \/ r = <<CR, "\n">> \/ (r = <<>> /\ rest = <<>>),
                            IsWs0, q), p)

(* COMMENT '<text>': the text is UTF-8 and holds no quote.                 *)
IsComment(v, p) ==
  Cat(IsWs0, LAMBDA q : Cat(LAMBDA r : IsWord("comment", r), LAMBDA r :
  Cat(IsWs1, LAMBDA x : x = <<"'">> \o v \o <<"'">>
                        /\ \A i \in DOMAIN v : v[i] \notin {"'", BadByte}, r), q), p)

(* The prefix p, followed by rest, spells the value v of entry point e.    *)
Spells(e, d, v, p, rest) ==
  CASE e = "column_identifier_no_alias" -> IsColumn(d, v, p)
    [] e = "table_reference" -> v.schema = None /\ IsTable(d, TRUE, v, p)
    [] e = "schema_table_reference" -> IsTable(d, TRUE, v, p)
    [] e = "schema_table_reference_no_alias" -> IsTable(d, FALSE, v, p)
    [] e = "table_list" ->
         v # <<>> /\ IsList("table", d, v, p)
    [] e = "field_list" -> IsList("column", d, v, p)
    [] e = "if_not_exists" -> IsIfNotExists(v, p)
    [] e = "statement_terminator" -> IsTerminator(p, rest)
    [] e = "parse_comment" -> IsComment(v, p)

(***************************************************************************)
(* The specification.                                                      *)
(***************************************************************************)
NoCall == [entry |-> "none", input |-> <<>>, ok |-> FALSE, val |-> NoValue]

Init == /\ dialect \in Dialects
        /\ last = NoCall

(* One call: a failure reads nothing; a success reads a prefix spelling    *)
(* its value.                                                              *)
Call ==
  /\ last'.entry \in Entries
  /\ last'.input = text
  /\ \/ ~last'.ok /\ text' = text
     \/ /\ last'.ok
        /\ \E k \in 0..Len(text) :
             /\ text' = Drop(text, k)
             /\ Spells(last'.entry, dialect, last'.val, SubSeq(text, 1, k), text')
  /\ UNCHANGED dialect

Spec == Init /\ [][Call]_vars

=============================================================================
