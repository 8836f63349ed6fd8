---------------------------- MODULE MCSelectQuery ----------------------------
(* Small instances of SelectQuery for TLC.                                 *)
EXTENDS SelectQuery, TLC

Column(name, type) == [name |-> name, type |-> type]
Table(columns, key) == [columns |-> columns, key |-> key]

\* Tables without a key, with a Boolean first, last and before two columns, and
\* with one and two key columns.
MCSchemas ==
    {Table(<<Column("a", "int"), Column("b", "int")>>, <<>>),
     Table(<<Column("a", "bool"), Column("b", "int")>>, <<>>),
     Table(<<Column("a", "text"), Column("b", "bool")>>, <<>>),
     Table(<<Column("a", "bool"), Column("b", "int"), Column("c", "int")>>, <<>>),
     Table(<<Column("a", "int"), Column("b", "text")>>, <<"b">>),
     Table(<<Column("a", "text"), Column("b", "text")>>, <<"a", "b">>)}

MCColumnLists == {None, <<"a", "b">>, <<"b", "a">>, <<"a">>, <<"a", "z">>}

Zero == Literal(Integer(0))
One == Literal(Integer(1))
Minus1 == UnaryExpr("neg", One)
A == ColumnRef("a")
B == ColumnRef("b")

\* NULL, three integers, two texts and the truth values; the smallest integer,
\* and a sum that overflows.
Exprs ==
    {Literal(Null), Zero, One, Minus1, Literal(Text(<<>>)), Literal(Text(<<7>>)),
     Literal(Boolean(TRUE)), Literal(Boolean(FALSE))}
Least == BinaryExpr(Minus1, "-", One)

MCBatches ==
    {<<<<x, y>>>> : x, y \in Exprs} \cup {<<<<x>>>> : x \in Exprs}
      \cup {<<<<Least, Zero>>>>, <<<<BinaryExpr(One, "+", One), Zero>>>>,
            <<<<A, One>>>>, <<<<Zero, One>>, <<One>>>>, <<<<One, One>>, <<One, Zero, One>>>>}
      \cup {<<<<x, y, y>>>> : x \in {Literal(Boolean(TRUE)), Literal(Boolean(FALSE))},
                              y \in {One, Literal(Null)}}

Item(name) == [name |-> name, alias |-> None]
Aliased(name, alias) == [name |-> name, alias |-> alias]
Selects ==
    {<<Item("*")>>, <<Item("a")>>, <<Item("b"), Item("a")>>, <<Aliased("a", "b")>>,
     <<Aliased("a", "z"), Item("b")>>, <<Item("z")>>}

Wheres ==
    {None, A, BinaryExpr(A, "<", B), BinaryExpr(A, ">=", One), BinaryExpr(A, "=", B),
     BinaryExpr(A, "<>", Literal(Null)), UnaryExpr("not", BinaryExpr(A, ">", Zero)),
     UnaryExpr("is null", A), UnaryExpr("is not null", B),
     BinaryExpr(BinaryExpr(A, "<=", B), "or", UnaryExpr("is null", B)),
     BinaryExpr(BinaryExpr(A, "<", One), "and", BinaryExpr(B, ">", Minus1)),
     BetweenExpr(FALSE, A, Zero, B), BetweenExpr(TRUE, A, Minus1, Zero),
     BinaryExpr(BinaryExpr(A, "+", B), "=", Zero),
     BinaryExpr(BinaryExpr(A, "*", A), ">", BinaryExpr(One, "/", B)),
     BinaryExpr(UnaryExpr("neg", A), "<", B)}

Limits ==
    {<<None, None>>, <<One, None>>, <<One, One>>, <<Zero, Zero>>, <<Minus1, One>>,
     <<Minus1, Zero>>}

Query(items, where, limit) ==
    [items |-> items, where |-> where, limit |-> limit[1], offset |-> limit[2]]

MCQueries ==
    {Query(items, where, <<None, None>>) : items \in Selects, where \in Wheres}
      \cup {Query(<<Item("*")>>, where, limit) :
               where \in {None, BinaryExpr(A, "<", One)}, limit \in Limits}
==============================================================================
