---------------------------- MODULE MCRefSession ----------------------------
(***************************************************************************)
(* Small instances of the reference-grammar session for TLC.  A text is    *)
(* two phrases joined by a glue: names bare and quoted, qualified names,  *)
(* the IF NOT EXISTS and COMMENT clauses, and the separators, aliases and *)
(* terminators that sit between them.                                      *)
(***************************************************************************)
EXTENDS RefSession, TLC

Q == "<96>"   \* the MySQL identifier quote

MCNamePhrases ==
  {Chars("a"), <<Q, "a", "s", Q>>, <<"\"", "a", "s", "\"">>, Chars("a.a"),
   Chars("a . a")}

MCClauses == {Chars("IF NOT EXISTS "), Chars(" COMMENT 'a'"), Chars("COMMENT 'as'")}

MCGlues ==
  {<<>>, Chars(" "), Chars(" AS "), Chars(" as "), Chars(","), Chars(" , "),
   Chars(";"), Chars("\n"), Chars("."), <<CR, "\n">>}

MCInputs ==
  {p \o g \o q : p, q \in MCNamePhrases, g \in MCGlues}
  \cup {c \o p : c \in MCClauses, p \in MCNamePhrases \cup {<<>>, Chars(";")}}

MCNames == {Chars("a"), Chars("as")}

(* A text whose statement ends at a line ending, followed by more text.    *)
MCLineEndingInputs == {Chars("a\na")}

=============================================================================
