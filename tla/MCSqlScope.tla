---------------------------- MODULE MCSqlScope ----------------------------
(* Statements small enough for TLC: every nesting of up to four SELECTs in *)
(* bodies and WITH clauses with two names a, b, and every pair of nodes in *)
(* an outer and an inner SELECT.                                           *)
EXTENDS SqlScope, FiniteSets

CONSTANTS noSelect

Table(schema, name) == [catalog |-> FALSE, schema |-> schema, name |-> name]
Views == {Table("reporting", "sales"), Table("reporting", "eu.sales")}
Names == {Table("none", "a"), Table("none", "b")}
Tables == Names \union {Table("reporting", "sales"), Table("reporting", "other")}
Dotted == {Table("reporting", "eu.sales"), Table("reporting.eu", "sales")}
Texted ==
    [p \in {"reporting", "reporting.eu"} \X {"sales", "other", "eu.sales"} |-> p[1] \o "." \o p[2]]
Remote == [catalog |-> TRUE, schema |-> "reporting", name |-> "sales"]

Select(parent, entry, with, table) ==
    [parent |-> parent, entry |-> entry, with |-> with, recursive |-> FALSE, into |-> FALSE,
     locking |-> FALSE, tables |-> {table}, nodes |-> {}]

Parents(size) == {p \in [1..size -> 0 .. size - 1] : p[1] = 0 /\ \A i \in 2..size : p[i] \in 1 .. i - 1}

Inside(p, e, n) == {m \in DOMAIN p : p[m] = n /\ e[m] # 0}

(* The entries of each WITH clause, each with its SELECT.                  *)
Entries(p) ==
    {e \in [DOMAIN p -> 0..2] : e[1] = 0 /\ \A n \in DOMAIN p :
        {e[m] : m \in Inside(p, e, n)} = 1 .. Cardinality(Inside(p, e, n))}

Clauses(p, e) ==
    {w \in [DOMAIN p -> {<<>>, <<"a">>, <<"b">>, <<"a", "b">>}] :
        \A n \in DOMAIN p : Len(w[n]) = Cardinality(Inside(p, e, n))}

Nested(size, T) ==
    UNION {UNION {{[n \in 1..size |-> Select(p[n], e[n], w[n], t[n])] : w \in Clauses(p, e), t \in [1..size -> T]} :
             e \in Entries(p)} : p \in Parents(size)}

Node(tag, kind, schema, name) ==
    [tag |-> tag, kind |-> kind, schema |-> schema, name |-> name]
Samples ==
    {Node("FuncCall", "call", s, n) : s \in {"none", "pg_catalog", "other"}, n \in {"sum", "SUM", "run"}}
        \union {Node("A_Expr", "op", "none", n) : n \in {"=", ">=", "~"}}
        \union {Node("A_Expr", k, "none", "=") : k \in {"between", "rejected"}}
        \union {Node(t, "op", "none", n) : t \in {"SubLink", "SortBy"}, n \in {"=", "~"}}
        \union {Node("TypeName", "type", s, n) : s \in {"none", "pg_catalog", "other"}, n \in {"date", "int4", "xml"}}
        \union {Node("SQLValueFunction", "value", "none", n) : n \in {"today", "user"}}
        \union {Node(t, "node", "none", "sum") : t \in {"CollateClause", "LockingClause"}}
With(s, n) == [s EXCEPT !.nodes = {n}]
Outer(with) == Select(0, 0, with, Table("reporting", "sales"))
Inner ==
    LET s == Select(1, 0, <<>>, Table("reporting", "sales"))
    IN  {With(s, n) : n \in Samples} \union
        {[s EXCEPT !.into = TRUE], [s EXCEPT !.locking = TRUE], [s EXCEPT !.with = <<"a">>],
         [s EXCEPT !.recursive = TRUE], [s EXCEPT !.tables = {Remote}]}
Mixed ==
    {<<With(Outer(<<>>), n), s>> : n \in Samples, s \in Inner}
        \union {<<With(Outer(<<"a">>), n), [s EXCEPT !.entry = 1]>> : n \in Samples, s \in Inner}

Simple == <<Outer(<<>>)>>
Parsed ==
    {<<q>> : q \in UNION {Nested(size, Tables) : size \in 1..3}
                           \union Nested(2, Tables \union Dotted) \union Nested(4, Names) \union Mixed}
        \union {<<>>, <<Simple, Simple>>, <<noSelect>>}

Functions1 == {"sum"}
Operators1 == {"=", ">=", "<="}
Types1 == {"date", "int4"}
Bare == {"date"}
Values1 == {"today"}
Folded == [n \in {"sum", "SUM", "run", "date", "int4", "xml"} |-> IF n = "SUM" THEN "sum" ELSE n]
=============================================================================
