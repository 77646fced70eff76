------------------------------ MODULE SqlScope ------------------------------
(***************************************************************************)
(* validate_sql (guarded_query/sql_validation.py) on a parsed statement:   *)
(* the walk over all nodes against the allowlists, then the walk over the  *)
(* scopes that tells CTEs from physical relations.                         *)
(*                                                                         *)
(* A statement is the sequence of its SelectStmts, each after the one it is *)
(* part of: its parent, whether it is in the parent's body (a subquery or  *)
(* an arm of a set operation: entry 0) or the query of an entry of its     *)
(* WITH clause, the names of its own WITH clause in order, whether that is *)
(* recursive, INTO and locking clauses, the relations of its FROM, and the *)
(* other nodes that have a handler.  Which of several violations is        *)
(* reported first is left open.                                            *)
(***************************************************************************)
EXTENDS Naturals, Sequences

CONSTANTS
    Texts,             \* what a text parses to: a sequence of statements
    NotSelect,         \* any other statement
    Published,         \* the views published for the source
    Joined,            \* f"{schema}.{name}" of a schema and a name
    AllowedFunctions,
    AllowedOperators,
    AllowedTypes,
    UnqualifiedTypes,  \* types a cast may name without a schema
    AllowedValues,     \* CURRENT_DATE and the like
    Fold               \* casefold of a name

(* What the parser builds.                                                 *)
Statement(q) ==
    /\ Len(q) \in Nat \ {0} /\ DOMAIN q = 1..Len(q)
    /\ \A n \in DOMAIN q :
        /\ Len(q[n].with) \in Nat /\ DOMAIN q[n].with = 1..Len(q[n].with)
        /\ n # 1 => q[n].parent \in 1 .. n - 1 /\ q[n].entry \in 0..Len(q[q[n].parent].with)
        /\ \A t \in q[n].tables : t.schema # "none" => <<t.schema, t.name>> \in DOMAIN Joined

(* The name by which a relation is published and looked up.  A view's name *)
(* may hold a dot, so two relations can have one.                          *)
QualifiedName(t) == Joined[<<t.schema, t.name>>]
AllowedRelations == {QualifiedName(v) : v \in Published}

(* A published view's schema is an Identifier, which holds no dot: the     *)
(* first dot of the text ends it, and within such schemas names are unique.*)
PublishedSchemas == {v.schema : v \in Published}
ASSUME PublishedAssumption == \A v \in Published : v.schema # "none"
ASSUME JoinedAssumption ==
    \A p \in DOMAIN Joined, v \in Published :
        p[1] \in PublishedSchemas /\ Joined[p] = QualifiedName(v) => p = <<v.schema, v.name>>
ASSUME TextsAssumption ==
    \A text \in Texts :
        /\ DOMAIN text = 1..Len(text)
        /\ \A i \in DOMAIN text : text[i] # NotSelect => Statement(text[i])

VARIABLES
    sql,     \* the statements of the text
    verdict  \* what validate_sql returned or raised

vars == <<sql, verdict>>

None == [code |-> "none", relations |-> {}, functions |-> {}, operators |-> {}]

Init == sql \in Texts /\ verdict = None

-----------------------------------------------------------------------------
(* All nodes of a statement, at any depth (_walk_nodes).                   *)
Nodes(q) == UNION {q[n].nodes : n \in DOMAIN q}

Tagged(q, tag) == {m \in Nodes(q) : m.tag = tag}

(* An entry of the WITH clause whose query is no SELECT.                   *)
OtherQuery(q, n) ==
    \E i \in DOMAIN q[n].with : \A m \in DOMAIN q \ {1} : q[m].parent # n \/ q[m].entry # i

(* Every node against the rule for its tag: the codes that rule raises.    *)
Reject(condition, code) == IF condition THEN {code} ELSE {}

SelectCodes(q, n) ==
    Reject(q[n].into, "SQL_SELECT_INTO_NOT_ALLOWED")
        \union Reject(q[n].locking, "SQL_ROW_LOCK_NOT_ALLOWED")
        \union Reject(q[n].recursive, "SQL_RECURSIVE_CTE_NOT_ALLOWED")
        \union Reject(OtherQuery(q, n), "SQL_NESTED_STATEMENT_NOT_ALLOWED")

FunctionCodes(n) ==
    IF n.schema \notin {"none", "pg_catalog"} THEN {"SQL_FUNCTION_SCHEMA_NOT_ALLOWED"}
    ELSE Reject(Fold[n.name] \notin AllowedFunctions, "SQL_FUNCTION_NOT_ALLOWED")

Between == {">=", "<="}

OperatorCodes(n) ==
    Reject(\/ n.kind = "between" /\ ~(Between \subseteq AllowedOperators)
           \/ n.kind = "rejected"
           \/ n.kind = "op" /\ (n.schema # "none" \/ n.name \notin AllowedOperators),
           "SQL_OPERATOR_NOT_ALLOWED")

TypeCodes(n) ==
    Reject(\/ Fold[n.name] \notin AllowedTypes
           \/ n.schema = "none" /\ Fold[n.name] \notin UnqualifiedTypes
           \/ n.schema \notin {"none", "pg_catalog"},
           "SQL_TYPE_NOT_ALLOWED")

(* Allowed by their tag and examined by no rule, whatever operator they    *)
(* name: x op ANY (SELECT ...), ORDER BY ... USING op.                     *)
Unexamined == {"SubLink", "SortBy"}

NodeCodes(n) ==
    CASE n.tag = "FuncCall"         -> FunctionCodes(n)
      [] n.tag = "A_Expr"           -> OperatorCodes(n)
      [] n.tag = "TypeName"         -> TypeCodes(n)
      [] n.tag = "SQLValueFunction" -> Reject(n.name \notin AllowedValues,
                                              "SQL_VALUE_FUNCTION_NOT_ALLOWED")
      [] n.tag = "CollateClause"    -> {"SQL_COLLATION_NOT_ALLOWED"}
      [] n.tag \in Unexamined       -> {}
      [] OTHER                      -> {"SQL_CONSTRUCT_NOT_ALLOWED"}

WalkCodes_TopOnly(q) ==  \* variant: only the outermost SELECT is walked
    SelectCodes(q, 1) \union UNION {NodeCodes(m) : m \in q[1].nodes}

WalkCodes(q) ==
    (UNION {SelectCodes(q, n) : n \in DOMAIN q}) \union (UNION {NodeCodes(m) : m \in Nodes(q)})

-----------------------------------------------------------------------------
(* Scopes: _validate_select_scope with _validate_range_var.                *)
TableCodes(t, visible) ==
    IF t.catalog THEN {"SQL_CROSS_DATABASE_REFERENCE"}
    ELSE IF t.schema = "none"
         THEN Reject(t.name \notin visible, "SQL_RELATION_MUST_BE_QUALIFIED")
    ELSE Reject(QualifiedName(t) \notin AllowedRelations, "SQL_RELATION_NOT_ALLOWED")

(* The CTE names visible to the query of an entry, or to the body.         *)
Before_Own(with, entry) ==  \* variant: an entry sees itself
    {with[j] : j \in {k \in DOMAIN with : entry = 0 \/ k <= entry}}

Before_Apart(with, entry) ==  \* variant: an entry does not see its siblings
    {with[j] : j \in {k \in DOMAIN with : entry = 0}}

Before(with, entry) == {with[j] : j \in {k \in DOMAIN with : entry = 0 \/ k < entry}}

(* outer_ctes of each SELECT: handed down from the one it is part of.      *)
OuterCtes(q) ==
    LET outer[n \in DOMAIN q] ==
          IF n = 1 THEN {}
          ELSE outer[q[n].parent] \union Before(q[q[n].parent].with, q[n].entry)
    IN  outer

ScopeCodes(q) ==
    UNION {UNION {TableCodes(t, OuterCtes(q)[n] \union Before(q[n].with, 0)) : t \in q[n].tables} :
             n \in DOMAIN q}

Physical(q) ==
    UNION {{QualifiedName(t) : t \in {u \in q[n].tables : u.schema # "none"}} : n \in DOMAIN q}

(* What is handed to the executor for its resolved-object check.           *)
Functions(q) == {Fold[n.name] : n \in Tagged(q, "FuncCall")}

Operators_BetweenOmitted(q) ==  \* variant: BETWEEN adds no operators
    {n.name : n \in {m \in Tagged(q, "A_Expr") : m.kind = "op"}}

Operators(q) ==
    {n.name : n \in {m \in Tagged(q, "A_Expr") : m.kind = "op"}}
        \union UNION {Between : n \in {m \in Tagged(q, "A_Expr") : m.kind = "between"}}

Codes(q) == IF WalkCodes(q) # {} THEN WalkCodes(q) ELSE ScopeCodes(q)

Refuse(code) == verdict' = [None EXCEPT !.code = code]

(* A text may be empty, too long, no SQL, or nested too deep to be walked; *)
(* otherwise it has to be one SelectStmt without a violation.              *)
Validate ==
    /\ verdict = None
    /\ \/ \E code \in {"SQL_EMPTY", "SQL_TOO_LARGE", "SQL_PARSE_ERROR"} : Refuse(code)
       \/ Len(sql) # 1 /\ Refuse("SQL_MULTIPLE_STATEMENTS")
       \/ Len(sql) = 1 /\ sql[1] = NotSelect /\ Refuse("SQL_STATEMENT_NOT_ALLOWED")
       \/ /\ Len(sql) = 1 /\ sql[1] # NotSelect
          /\ \E code \in Codes(sql[1]) : Refuse(code)
       \/ /\ Len(sql) = 1 /\ sql[1] # NotSelect
          /\ Codes(sql[1]) = {}
          /\ verdict' = [code |-> "ok", relations |-> Physical(sql[1]),
                         functions |-> Functions(sql[1]), operators |-> Operators(sql[1])]
    /\ UNCHANGED sql

Next == Validate

Spec == Init /\ [][Next]_vars

-----------------------------------------------------------------------------
(* Correctness, against PostgreSQL's rules: a name is bound by a WITH       *)
(* clause around it that declares it, and an entry of a clause that is not *)
(* recursive sees the entries before it only.                              *)

(* n and the SELECTs it is in: in every set that holds n and, with one of  *)
(* its members, the one this is part of.                                   *)
Around(q, n) ==
    {a \in DOMAIN q : \A S \in SUBSET DOMAIN q :
        n \in S /\ (\A m \in S \ {1} : q[m].parent \in S) => a \in S}

Declares(q, a, name) ==
    LET with == q[q[a].parent].with
    IN  \E j \in DOMAIN with : with[j] = name /\ (q[a].entry # 0 => j < q[a].entry)

Bound(q, n, name) ==
    \/ \E j \in DOMAIN q[n].with : q[n].with[j] = name
    \/ \E a \in Around(q, n) \ {1} : Declares(q, a, name)

IsPublished(t) == \E v \in Published : v.schema = t.schema /\ v.name = t.name

IsCte(q, n, t) == t.schema = "none" /\ Bound(q, n, t.name)

Resolves(q, n, t) == ~t.catalog /\ (IsCte(q, n, t) \/ IsPublished(t))

(* What an accepted statement may read: a CTE in scope, or a relation that *)
(* goes by the name of a published view, and that is this view itself if   *)
(* it is in a schema with published views.  docs/decisions/                *)
(* 0001-postgresql-ast-validation.md:31 has relations compared with the    *)
(* published catalog; the code compares joined texts, and "a"."b.c" and    *)
(* "a.b"."c" share one.                                                    *)
Passes(q, n, t) ==
    /\ ~t.catalog
    /\ \/ IsCte(q, n, t)
       \/ /\ t.schema # "none" /\ QualifiedName(t) \in AllowedRelations
          /\ t.schema \in PublishedSchemas => IsPublished(t)

Accepted == verdict.code = "ok"

(* Every relation an accepted statement reads is a CTE in scope where it   *)
(* is read, or goes by the qualified name of a published view, at any      *)
(* depth, in any arm; and one is refused only if it is neither a CTE in    *)
(* scope nor published: no legal use of a CTE is mistaken for a physical   *)
(* relation.                                                               *)
OnlyViewsAndCtes ==
    /\ Accepted =>
        \A n \in DOMAIN sql[1] : \A t \in sql[1][n].tables : Passes(sql[1], n, t)
    /\ verdict.code \in {"SQL_RELATION_MUST_BE_QUALIFIED", "SQL_RELATION_NOT_ALLOWED"} =>
        \E n \in DOMAIN sql[1] : \E t \in sql[1][n].tables : ~Resolves(sql[1], n, t)

(* An accepted statement only reads: no INTO, lock, data-modifying or      *)
(* recursive CTE, however deep.                                            *)
OnlyReads ==
    Accepted => \A n \in DOMAIN sql[1] :
        /\ ~sql[1][n].into /\ ~sql[1][n].locking /\ ~sql[1][n].recursive
        /\ \A i \in DOMAIN sql[1][n].with :
             \E m \in DOMAIN sql[1] \ {1} : sql[1][m].parent = n /\ sql[1][m].entry = i

(* The executor hears of every relation, of every function that is called  *)
(* and of every operator of an expression, BETWEEN's two among them, and   *)
(* of no name that is not on its list.  The operators that a SubLink or a  *)
(* SortBy names are not collected (see OperatorsAreAllowed).               *)
ObjectsAreCollected ==
    Accepted =>
        /\ \A n \in DOMAIN sql[1] : \A t \in sql[1][n].tables :
             t.schema # "none" => QualifiedName(t) \in verdict.relations
        /\ \A m \in Nodes(sql[1]) :
             /\ m.tag = "FuncCall" => Fold[m.name] \in verdict.functions
             /\ m.tag = "A_Expr" /\ m.kind = "op" => m.name \in verdict.operators
             /\ m.tag = "A_Expr" /\ m.kind = "between" => Between \subseteq verdict.operators
        /\ verdict.relations \subseteq AllowedRelations
        /\ verdict.functions \subseteq AllowedFunctions
        /\ verdict.operators \subseteq AllowedOperators

(* docs/decisions/0001-postgresql-ast-validation.md:33: operators are those *)
(* of a conservative allowlist.  The code looks at expressions only.       *)
OperatorsAreAllowed ==
    Accepted => \A m \in Nodes(sql[1]) :
        m.tag \in {"A_Expr"} \union Unexamined /\ m.kind = "op" => m.name \in AllowedOperators
=============================================================================
