---------------------------- MODULE MCKeySession ----------------------------
(***************************************************************************)
(* Small instances of the constraint session for TLC: names a bare word   *)
(* and a reserved word, columns with and without a table, every variant   *)
(* of TableKey with and without its optional parts.                        *)
(***************************************************************************)
EXTENDS KeySession, TLC

MCNames == {Chars("a"), Chars("as")}
MCOptNames == {None} \cup {Some(n) : n \in MCNames}
MCColumns == {Column(t, n) : t \in {None, Some(Chars("a"))}, n \in MCNames}
MCColumnLists == {<<c>> : c \in MCColumns} \cup {<<Column(None, Chars("a")), Column(None, Chars("as"))>>}
MCTables == {Table(s, Chars("a"), None) : s \in {None, Some(Chars("as"))}}
MCExprs == {Chars("x > 0")}
MCOptIndexTypes == {None} \cup {Some(it) : it \in IndexTypes}

MCKeys ==
  {PrimaryKey(n, cs) : n \in MCOptNames, cs \in MCColumnLists}
  \cup {UniqueKey(n, cs, it) : n \in MCOptNames, cs \in MCColumnLists, it \in MCOptIndexTypes}
  \cup {FulltextKey(n, <<Column(None, Chars("a"))>>) : n \in MCOptNames}
  \cup {Key(n, cs, it) : n \in MCNames, cs \in MCColumnLists, it \in MCOptIndexTypes}
  \cup {ForeignKey(n, i, <<c>>, t, <<Column(None, Chars("as"))>>, del, upd) :
          n \in MCOptNames, i \in {None, Some(Chars("a"))}, c \in MCColumns, t \in MCTables,
          del \in {None, Some("SetNull")}, upd \in {None, Some("SetDefault")}}
  \cup {CheckConstraint(n, e, en) : n \in MCOptNames, e \in MCExprs,
                                   en \in {None, <<TRUE>>, <<FALSE>>}}

=============================================================================
