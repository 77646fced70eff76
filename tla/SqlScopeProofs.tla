-------------------------- MODULE SqlScopeProofs --------------------------
(***************************************************************************)
(* What validate_sql accepts, for statements of any size and depth.        *)
(***************************************************************************)
EXTENDS SqlScope, NaturalsInduction, WellFoundedInduction, TLAPS

-----------------------------------------------------------------------------
(* A non-empty set of naturals has a least member.                         *)
LEMMA LeastNatural ==
    ASSUME NEW S \in SUBSET Nat, S # {}
    PROVE  \E n \in S : \A m \in S : n <= m
<1> DEFINE Less == OpToRel(<, Nat)
<1>1. \A m, n \in Nat : m < n => <<m, n>> \in Less
  BY DEF OpToRel
<1>2. IsWellFoundedOn(Less, Nat)
  BY NatLessThanWellFounded
<1> HIDE DEF Less
<1>3. PICK n \in S : \A m \in S : <<m, n>> \notin Less
  BY <1>2, WFMin
<1>4. ASSUME NEW m \in S
      PROVE  n <= m
  <2>1. m \in Nat /\ n \in Nat
    OBVIOUS
  <2>2. <<m, n>> \notin Less
    BY <1>3
  <2>3. ~(m < n)
    BY <1>1, <2>1, <2>2
  <2> QED
    BY <2>1, <2>3
<1> QED
  BY <1>4

-----------------------------------------------------------------------------
(* The SELECTs around one.                                                 *)

Closed(q, S) == \A m \in S \ {1} : q[m].parent \in S

(* What holds n and is closed holds everything around n.                   *)
LEMMA AroundIsLeast ==
    ASSUME NEW q, NEW n, NEW S \in SUBSET DOMAIN q, n \in S, Closed(q, S)
    PROVE  Around(q, n) \subseteq S
BY DEF Around, Closed

(* Around a SELECT are itself and what is around the one it is part of.    *)
LEMMA AroundUnfolds ==
    ASSUME NEW q, Statement(q), NEW n \in DOMAIN q
    PROVE  /\ n \in Around(q, n)
           /\ n # 1 => Around(q, n) = {n} \union Around(q, q[n].parent)
           /\ n = 1 => Around(q, n) = {1}
<1>1. n \in Around(q, n)
  BY DEF Around
<1>2. ASSUME n = 1
      PROVE  Around(q, n) = {1}
  <2>1. {1} \in SUBSET DOMAIN q /\ Closed(q, {1}) /\ n \in {1}
    BY <1>2 DEF Closed
  <2>2. Around(q, n) \subseteq {1}
    BY <2>1, AroundIsLeast
  <2> QED
    BY <1>1, <1>2, <2>2
<1>3. ASSUME n # 1
      PROVE  Around(q, n) = {n} \union Around(q, q[n].parent)
  <2> DEFINE p == q[n].parent
  <2>1. p \in DOMAIN q
    BY <1>3 DEF Statement
  <2>2. \A m \in DOMAIN q \ {1} : q[m].parent \in DOMAIN q
    BY DEF Statement
  <2>3. Around(q, p) \subseteq DOMAIN q /\ p \in Around(q, p)
    BY <2>1 DEF Around
  <2>4. Closed(q, {n} \union Around(q, p))
    <3> SUFFICES ASSUME NEW m \in ({n} \union Around(q, p)) \ {1}
                 PROVE  q[m].parent \in {n} \union Around(q, p)
      BY DEF Closed
    <3>1. CASE m = n
      BY <3>1, <2>3
    <3>2. CASE m \in Around(q, p)
      <4>1. m \in DOMAIN q \ {1} /\ q[m].parent \in DOMAIN q
        BY <3>2, <2>2, <2>3
      <4> QED
        BY <3>2, <4>1 DEF Around
    <3> QED
      BY <3>1, <3>2
  <2>5. Around(q, n) \subseteq {n} \union Around(q, p)
    <3>1. {n} \union Around(q, p) \in SUBSET DOMAIN q
      BY <2>3
    <3> QED
      BY <3>1, <2>4, AroundIsLeast
  <2>6. Around(q, p) \subseteq Around(q, n)
    <3> SUFFICES ASSUME NEW a \in Around(q, p), NEW S \in SUBSET DOMAIN q,
                        n \in S, \A m \in S \ {1} : q[m].parent \in S
                 PROVE  a \in S
      BY <2>3 DEF Around
    <3>1. p \in S
      BY <1>3
    <3> QED
      BY <3>1 DEF Around
  <2> QED
    BY <1>1, <2>5, <2>6
<1> QED
  BY <1>1, <1>2, <1>3

-----------------------------------------------------------------------------
(* The names that are handed down are those in scope.                      *)

(* The names declared around n, by the clauses of the SELECTs it is in.    *)
DeclaredNames(q) == UNION {{q[m].with[j] : j \in DOMAIN q[m].with} : m \in DOMAIN q}

DeclaredAround(q, n) ==
    {name \in DeclaredNames(q) : \E a \in Around(q, n) \ {1} : Declares(q, a, name)}

(* The equations of _validate_select_scope's outer_ctes.                   *)
HandsDown(q, f) ==
    f = [n \in DOMAIN q |->
           IF n = 1 THEN {} ELSE f[q[n].parent] \union Before(q[q[n].parent].with, q[n].entry)]

(* An entry sees the names that are declared before it.                    *)
LEMMA BeforeDeclares ==
    ASSUME NEW q, Statement(q), NEW n \in DOMAIN q \ {1}
    PROVE  /\ \A name : name \in Before(q[q[n].parent].with, q[n].entry) <=> Declares(q, n, name)
           /\ Before(q[q[n].parent].with, q[n].entry) \subseteq DeclaredNames(q)
<1>1. q[n].parent \in DOMAIN q
  BY DEF Statement
<1> QED
  BY <1>1 DEF Before, Declares, DeclaredNames

(* The declared names solve the equations.                                 *)
LEMMA ScopesAreHandedDown ==
    ASSUME NEW q, Statement(q)
    PROVE  HandsDown(q, [n \in DOMAIN q |-> DeclaredAround(q, n)])
<1> DEFINE f == [n \in DOMAIN q |-> DeclaredAround(q, n)]
<1> SUFFICES ASSUME NEW n \in DOMAIN q
             PROVE  f[n] = IF n = 1 THEN {}
                           ELSE f[q[n].parent] \union Before(q[q[n].parent].with, q[n].entry)
  BY DEF HandsDown
<1>1. CASE n = 1
  BY <1>1, AroundUnfolds DEF DeclaredAround
<1>2. CASE n # 1
  <2>1. q[n].parent \in DOMAIN q /\ q[n].parent # n
    BY <1>2 DEF Statement
  <2>2. Around(q, n) = {n} \union Around(q, q[n].parent)
    BY <1>2, AroundUnfolds
  <2>3. /\ \A name : name \in Before(q[q[n].parent].with, q[n].entry) <=> Declares(q, n, name)
        /\ Before(q[q[n].parent].with, q[n].entry) \subseteq DeclaredNames(q)
    BY <1>2, BeforeDeclares
  <2>4. DeclaredAround(q, n) =
          DeclaredAround(q, q[n].parent) \union Before(q[q[n].parent].with, q[n].entry)
    BY <1>2, <2>2, <2>3 DEF DeclaredAround
  <2> QED
    BY <1>2, <2>1, <2>4
<1> QED
  BY <1>1, <1>2

(* They are the only solution: two of them agree on the least SELECT on    *)
(* which they could differ, since its parent comes before it.              *)
LEMMA ScopesAreUnique ==
    ASSUME NEW q, Statement(q), NEW f, NEW g, HandsDown(q, f), HandsDown(q, g)
    PROVE  \A n \in DOMAIN q : f[n] = g[n]
<1> DEFINE Differ == {n \in DOMAIN q : f[n] # g[n]}
<1> SUFFICES ASSUME Differ # {}
             PROVE  FALSE
  OBVIOUS
<1>1. Differ \subseteq Nat
  BY DEF Statement
<1>2. PICK n \in Differ : \A m \in Differ : n <= m
  BY <1>1, LeastNatural
<1>3. n # 1
  BY <1>2 DEF HandsDown
<1>4. q[n].parent \in DOMAIN q /\ q[n].parent < n
  BY <1>2, <1>3 DEF Statement
<1>5. f[q[n].parent] = g[q[n].parent]
  BY <1>1, <1>2, <1>4
<1>6. f[n] = f[q[n].parent] \union Before(q[q[n].parent].with, q[n].entry)
  BY <1>3 DEF HandsDown
<1>7. g[n] = g[q[n].parent] \union Before(q[q[n].parent].with, q[n].entry)
  BY <1>3 DEF HandsDown
<1> QED
  BY <1>2, <1>5, <1>6, <1>7

(* What a SELECT is handed down is what is declared around it.             *)
LEMMA OuterIsDeclared ==
    ASSUME NEW q, Statement(q), NEW n \in DOMAIN q
    PROVE  OuterCtes(q)[n] = DeclaredAround(q, n)
<1> DEFINE f == [m \in DOMAIN q |-> DeclaredAround(q, m)]
<1>1. OuterCtes(q) = CHOOSE g : HandsDown(q, g)
  BY DEF OuterCtes, HandsDown
<1>2. HandsDown(q, f)
  BY ScopesAreHandedDown
<1>3. HandsDown(q, OuterCtes(q))
  BY <1>1, <1>2
<1> HIDE DEF f
<1>4. OuterCtes(q)[n] = f[n]
  BY <1>2, <1>3, ScopesAreUnique
<1> QED
  BY <1>4 DEF f

Visible(q, n) == OuterCtes(q)[n] \union Before(q[n].with, 0)

(* A name is visible where a WITH clause binds it, and nowhere else.       *)
LEMMA VisibleIsBound ==
    ASSUME NEW q, Statement(q), NEW n \in DOMAIN q
    PROVE  \A name : name \in Visible(q, n) <=> Bound(q, n, name)
<1>1. OuterCtes(q)[n] = DeclaredAround(q, n)
  BY OuterIsDeclared
<1>2. ASSUME NEW name, NEW a \in Around(q, n) \ {1}, Declares(q, a, name)
      PROVE  name \in DeclaredNames(q)
  <2>1. a \in DOMAIN q \ {1}
    BY DEF Around
  <2> QED
    BY <1>2, <2>1, BeforeDeclares
<1> QED
  BY <1>1, <1>2 DEF Visible, Bound, DeclaredAround, Before

-----------------------------------------------------------------------------
(* The verdict.                                                            *)

ScopeRefusals == {"SQL_RELATION_MUST_BE_QUALIFIED", "SQL_RELATION_NOT_ALLOWED"}

(* A published view is found by its qualified name, and in a schema with   *)
(* published views nothing else is.                                        *)
LEMMA NamesTellViews ==
    ASSUME NEW t
    PROVE  /\ IsPublished(t) => QualifiedName(t) \in AllowedRelations
           /\ /\ <<t.schema, t.name>> \in DOMAIN Joined
              /\ QualifiedName(t) \in AllowedRelations
              /\ t.schema \in PublishedSchemas
              => IsPublished(t)
<1>1. IsPublished(t) => QualifiedName(t) \in AllowedRelations
  BY DEF IsPublished, AllowedRelations, QualifiedName
<1>2. ASSUME <<t.schema, t.name>> \in DOMAIN Joined,
             QualifiedName(t) \in AllowedRelations, t.schema \in PublishedSchemas
      PROVE  IsPublished(t)
  <2>1. PICK v \in Published : Joined[<<t.schema, t.name>>] = QualifiedName(v)
    BY <1>2 DEF AllowedRelations, QualifiedName
  <2>2. <<t.schema, t.name>>[1] = t.schema
    OBVIOUS
  <2>3. <<t.schema, t.name>> = <<v.schema, v.name>>
    BY <1>2, <2>1, <2>2, JoinedAssumption
  <2> QED
    BY <2>3 DEF IsPublished
<1> QED
  BY <1>1, <1>2

(* The table of a FROM is refused for its scope only where it resolves to  *)
(* nothing, and whatever is not refused passes.                            *)
LEMMA TablesResolve ==
    ASSUME NEW q, Statement(q), NEW n \in DOMAIN q, NEW t \in q[n].tables
    PROVE  /\ TableCodes(t, Visible(q, n)) = {} => Passes(q, n, t)
           /\ \A code \in TableCodes(t, Visible(q, n)) : code \in ScopeRefusals => ~Resolves(q, n, t)
<1>1. t.schema # "none" => <<t.schema, t.name>> \in DOMAIN Joined
  BY DEF Statement
<1>2. CASE t.catalog
  BY <1>2 DEF TableCodes, ScopeRefusals
<1>3. CASE ~t.catalog /\ t.schema = "none"
  <2>1. ~IsPublished(t)
    BY <1>3, PublishedAssumption DEF IsPublished
  <2> QED
    BY <1>3, <2>1, VisibleIsBound DEF TableCodes, Reject, Resolves, Passes, IsCte
<1>4. CASE ~t.catalog /\ t.schema # "none"
  <2>1. TableCodes(t, Visible(q, n)) =
          Reject(QualifiedName(t) \notin AllowedRelations, "SQL_RELATION_NOT_ALLOWED")
    BY <1>4 DEF TableCodes
  <2>2. CASE QualifiedName(t) \in AllowedRelations
    BY <1>1, <1>4, <2>1, <2>2, NamesTellViews DEF Reject, Passes
  <2>3. CASE QualifiedName(t) \notin AllowedRelations
    BY <1>4, <2>1, <2>3, NamesTellViews DEF Reject, Resolves, IsCte
  <2> QED
    BY <2>2, <2>3
<1> QED
  BY <1>2, <1>3, <1>4

(* No rule for a node gives a verdict that is about relations.             *)
NotOnScopes(codes) == \A code \in codes : code # "ok" /\ code \notin ScopeRefusals

LEMMA WalkIsNotOnScopes ==
    ASSUME NEW q
    PROVE  NotOnScopes(WalkCodes(q))
<1>1. \A n : NotOnScopes(SelectCodes(q, n))
  BY DEF SelectCodes, Reject, ScopeRefusals, NotOnScopes
<1>2. ASSUME NEW m
      PROVE  NotOnScopes(NodeCodes(m))
  <2>1. NotOnScopes(FunctionCodes(m))
    BY DEF FunctionCodes, Reject, ScopeRefusals, NotOnScopes
  <2>2. NotOnScopes(OperatorCodes(m))
    BY DEF OperatorCodes, Reject, ScopeRefusals, NotOnScopes
  <2>3. NotOnScopes(TypeCodes(m))
    BY DEF TypeCodes, Reject, ScopeRefusals, NotOnScopes
  <2>4. NotOnScopes(Reject(m.name \notin AllowedValues, "SQL_VALUE_FUNCTION_NOT_ALLOWED"))
    BY DEF Reject, ScopeRefusals, NotOnScopes
  <2>6. NotOnScopes({})
    BY DEF NotOnScopes
  <2>5. NotOnScopes({"SQL_COLLATION_NOT_ALLOWED"}) /\ NotOnScopes({"SQL_CONSTRUCT_NOT_ALLOWED"})
    BY DEF ScopeRefusals, NotOnScopes
  <2> QED
    BY <2>1, <2>2, <2>3, <2>4, <2>5, <2>6 DEF NodeCodes
<1>3. ASSUME NEW code \in WalkCodes(q)
      PROVE  code # "ok" /\ code \notin ScopeRefusals
  <2>1. \/ \E n \in DOMAIN q : code \in SelectCodes(q, n)
        \/ \E m \in Nodes(q) : code \in NodeCodes(m)
    BY <1>3 DEF WalkCodes
  <2> QED
    BY <1>1, <1>2, <2>1 DEF NotOnScopes
<1> QED
  BY <1>3 DEF NotOnScopes

(* A verdict about a relation is due to a table that does not resolve; no  *)
(* verdict on a table is an acceptance.                                    *)
LEMMA RefusalsAreDue ==
    ASSUME NEW q, Statement(q), NEW code \in Codes(q)
    PROVE  /\ code # "ok"
           /\ code \in ScopeRefusals =>
                \E n \in DOMAIN q : \E t \in q[n].tables : ~Resolves(q, n, t)
<1>1. CASE code \in WalkCodes(q)
  BY <1>1, WalkIsNotOnScopes DEF NotOnScopes
<1>2. CASE code \in ScopeCodes(q)
  <2>1. PICK n \in DOMAIN q : \E t \in q[n].tables : code \in TableCodes(t, Visible(q, n))
    BY <1>2 DEF ScopeCodes, Visible
  <2>2. PICK t \in q[n].tables : code \in TableCodes(t, Visible(q, n))
    BY <2>1
  <2>3. code # "ok"
    BY <2>2 DEF TableCodes, Reject
  <2>4. code \in ScopeRefusals => ~Resolves(q, n, t)
    BY <2>2, TablesResolve
  <2> QED
    BY <2>1, <2>2, <2>3, <2>4
<1> QED
  BY <1>1, <1>2 DEF Codes

(* A statement without a violation: every relation passes.                 *)
LEMMA AcceptedPasses ==
    ASSUME NEW q, Statement(q), Codes(q) = {}, NEW n \in DOMAIN q, NEW t \in q[n].tables
    PROVE  Passes(q, n, t)
<1>1. ScopeCodes(q) = {}
  BY DEF Codes
<1>2. TableCodes(t, Visible(q, n)) = {}
  <2>1. TableCodes(t, Visible(q, n)) \subseteq UNION {TableCodes(u, Visible(q, n)) : u \in q[n].tables}
    OBVIOUS
  <2>2. UNION {TableCodes(u, Visible(q, n)) : u \in q[n].tables} \subseteq ScopeCodes(q)
    BY DEF ScopeCodes, Visible
  <2> QED
    BY <1>1, <2>1, <2>2
<1> QED
  BY <1>2, TablesResolve

(* What a statement without a violation has collected is on the lists.     *)
LEMMA AcceptedIsListed ==
    ASSUME NEW q, Statement(q), Codes(q) = {}
    PROVE  /\ Physical(q) \subseteq AllowedRelations
           /\ Functions(q) \subseteq AllowedFunctions
           /\ Operators(q) \subseteq AllowedOperators
<1>1. \A m \in Nodes(q) : NodeCodes(m) = {}
  <2> SUFFICES ASSUME NEW m \in Nodes(q)
               PROVE  NodeCodes(m) = {}
    OBVIOUS
  <2>1. NodeCodes(m) \subseteq UNION {NodeCodes(k) : k \in Nodes(q)}
    OBVIOUS
  <2>2. UNION {NodeCodes(k) : k \in Nodes(q)} \subseteq WalkCodes(q)
    BY DEF WalkCodes
  <2>3. WalkCodes(q) = {}
    BY DEF Codes
  <2> QED
    BY <2>1, <2>2, <2>3
<1>2. Physical(q) \subseteq AllowedRelations
  <2> SUFFICES ASSUME NEW n \in DOMAIN q, NEW t \in q[n].tables, t.schema # "none"
               PROVE  QualifiedName(t) \in AllowedRelations
    BY DEF Physical
  <2>1. Passes(q, n, t)
    BY AcceptedPasses
  <2> QED
    BY <2>1 DEF Passes, IsCte
<1>3. Functions(q) \subseteq AllowedFunctions
  <2> SUFFICES ASSUME NEW m \in Tagged(q, "FuncCall")
               PROVE  Fold[m.name] \in AllowedFunctions
    BY DEF Functions
  <2>1. NodeCodes(m) = {} /\ m.tag = "FuncCall"
    BY <1>1 DEF Tagged
  <2> QED
    BY <2>1 DEF NodeCodes, Unexamined, FunctionCodes, Reject
<1>4. \A m \in Tagged(q, "A_Expr") : OperatorCodes(m) = {}
  <2> SUFFICES ASSUME NEW m \in Tagged(q, "A_Expr")
               PROVE  OperatorCodes(m) = {}
    OBVIOUS
  <2>1. NodeCodes(m) = {} /\ m.tag = "A_Expr"
    BY <1>1 DEF Tagged
  <2> QED
    BY <2>1 DEF NodeCodes, Unexamined
<1>5. Operators(q) \subseteq AllowedOperators
  BY <1>4 DEF Operators, OperatorCodes, Reject
<1> QED
  BY <1>2, <1>3, <1>5

(* The inductive invariant: the verdict is the one on the text.            *)
Passed ==
    /\ Len(sql) = 1 /\ sql[1] # NotSelect /\ Codes(sql[1]) = {}
    /\ verdict.relations = Physical(sql[1])
    /\ verdict.functions = Functions(sql[1]) /\ verdict.operators = Operators(sql[1])

Refused ==
    verdict.code \in ScopeRefusals =>
        Len(sql) = 1 /\ sql[1] # NotSelect /\ verdict.code \in Codes(sql[1])

IInv ==
    /\ sql \in Texts
    /\ verdict.code = "ok" => Passed
    /\ Refused

(* A text with one statement has a first one.                              *)
LEMMA TheStatement ==
    ASSUME sql \in Texts, Len(sql) = 1, sql[1] # NotSelect
    PROVE  Statement(sql[1])
<1>1. DOMAIN sql = 1..1
  BY TextsAssumption
<1>2. 1 \in DOMAIN sql
  BY <1>1
<1> QED
  BY <1>2, TextsAssumption

(* The verdict agrees with the text, whatever the text.                    *)
THEOREM Invariance == Spec => []IInv
<1>1. Init => IInv
  BY DEF Init, IInv, None, Refused, ScopeRefusals
<1>2. IInv /\ [Next]_vars => IInv'
  <2> SUFFICES ASSUME IInv, [Next]_vars
               PROVE  IInv'
    OBVIOUS
  <2>1. CASE UNCHANGED vars
    BY <2>1 DEF vars, IInv, Passed, Refused
  <2>2. CASE Validate
    <3>1. sql' = sql /\ sql \in Texts
      BY <2>2 DEF Validate, IInv
    <3>2. ASSUME NEW code, Refuse(code), code # "ok",
                 code \in ScopeRefusals =>
                   Len(sql) = 1 /\ sql[1] # NotSelect /\ code \in Codes(sql[1])
          PROVE  IInv'
      <4>1. verdict'.code = code
        BY <3>2 DEF Refuse, None
      <4> QED
        BY <3>1, <3>2, <4>1 DEF IInv, Refused
    <3>3. CASE \E code \in {"SQL_EMPTY", "SQL_TOO_LARGE", "SQL_PARSE_ERROR"} : Refuse(code)
      BY <3>2, <3>3 DEF ScopeRefusals
    <3>4. CASE Refuse("SQL_MULTIPLE_STATEMENTS") \/ Refuse("SQL_STATEMENT_NOT_ALLOWED")
      BY <3>2, <3>4 DEF ScopeRefusals
    <3>5. CASE Len(sql) = 1 /\ sql[1] # NotSelect /\ \E code \in Codes(sql[1]) : Refuse(code)
      <4>1. PICK code \in Codes(sql[1]) : Refuse(code)
        BY <3>5
      <4>2. code # "ok"
        BY <3>1, <3>5, <4>1, TheStatement, RefusalsAreDue
      <4> QED
        BY <3>2, <3>5, <4>1, <4>2
    <3>6. CASE /\ Len(sql) = 1 /\ sql[1] # NotSelect
               /\ Codes(sql[1]) = {}
               /\ verdict' = [code |-> "ok", relations |-> Physical(sql[1]),
                              functions |-> Functions(sql[1]), operators |-> Operators(sql[1])]
      BY <3>1, <3>6 DEF IInv, Passed, Refused, ScopeRefusals
    <3> QED
      BY <2>2, <3>3, <3>4, <3>5, <3>6 DEF Validate
  <2> QED
    BY <2>1, <2>2 DEF Next
<1> QED
  BY <1>1, <1>2, PTL DEF Spec

(* validate_sql's scopes, for statements of any size and depth: what is    *)
(* accepted reads only CTEs in scope and relations that go by the name of a*)
(* published view, which are this view wherever the schema has published   *)
(* views; a relation is refused only if it is neither CTE nor published.   *)
THEOREM RelationsResolve == Spec => []OnlyViewsAndCtes
<1>1. IInv => OnlyViewsAndCtes
  <2> SUFFICES ASSUME IInv
               PROVE  OnlyViewsAndCtes
    OBVIOUS
  <2>1. ASSUME Accepted
        PROVE  \A n \in DOMAIN sql[1] : \A t \in sql[1][n].tables : Passes(sql[1], n, t)
    BY <2>1, TheStatement, AcceptedPasses DEF IInv, Passed, Accepted
  <2>2. ASSUME verdict.code \in ScopeRefusals
        PROVE  \E n \in DOMAIN sql[1] : \E t \in sql[1][n].tables : ~Resolves(sql[1], n, t)
    BY <2>2, TheStatement, RefusalsAreDue DEF IInv, Refused
  <2> QED
    BY <2>1, <2>2 DEF OnlyViewsAndCtes, ScopeRefusals
<1> QED
  BY <1>1, Invariance, PTL

(* _validate_SelectStmt, _validate_WithClause and the walk over all nodes: *)
(* an accepted statement only reads, however deep.                         *)
THEOREM StatementsOnlyRead == Spec => []OnlyReads
<1>1. IInv => OnlyReads
  <2> SUFFICES ASSUME IInv, Accepted, NEW n \in DOMAIN sql[1]
               PROVE  /\ ~sql[1][n].into /\ ~sql[1][n].locking /\ ~sql[1][n].recursive
                      /\ \A i \in DOMAIN sql[1][n].with : \E m \in DOMAIN sql[1] \ {1} :
                           sql[1][m].parent = n /\ sql[1][m].entry = i
    BY DEF OnlyReads
  <2>1. Codes(sql[1]) = {}
    BY DEF IInv, Accepted, Passed
  <2>2. SelectCodes(sql[1], n) = {}
    BY <2>1 DEF Codes, WalkCodes
  <2>3. ~sql[1][n].into /\ ~sql[1][n].locking /\ ~sql[1][n].recursive /\ ~OtherQuery(sql[1], n)
    BY <2>2 DEF SelectCodes, Reject
  <2> QED
    BY <2>3 DEF OtherQuery
<1> QED
  BY <1>1, Invariance, PTL

(* _validate_FuncCall, _validate_A_Expr, _validate_range_var: the executor *)
(* hears of every relation and function, and of every operator of an       *)
(* expression, and only of names on its lists.                             *)
THEOREM CollectionIsComplete == Spec => []ObjectsAreCollected
<1>1. IInv => ObjectsAreCollected
  <2> SUFFICES ASSUME IInv, Accepted
               PROVE  ObjectsAreCollected
    BY DEF ObjectsAreCollected
  <2>1. Passed
    BY DEF IInv, Accepted
  <2>2. \A n \in DOMAIN sql[1] : \A t \in sql[1][n].tables :
          t.schema # "none" => QualifiedName(t) \in verdict.relations
    BY <2>1 DEF Passed, Physical
  <2>3. ASSUME NEW m \in Nodes(sql[1])
        PROVE  /\ m.tag = "FuncCall" => Fold[m.name] \in verdict.functions
               /\ m.tag = "A_Expr" /\ m.kind = "op" => m.name \in verdict.operators
               /\ m.tag = "A_Expr" /\ m.kind = "between" => Between \subseteq verdict.operators
    BY <2>1 DEF Passed, Functions, Operators, Tagged
  <2>4. /\ verdict.relations \subseteq AllowedRelations
        /\ verdict.functions \subseteq AllowedFunctions
        /\ verdict.operators \subseteq AllowedOperators
    BY <2>1, TheStatement, AcceptedIsListed DEF IInv, Passed
  <2> QED
    BY <2>2, <2>3, <2>4 DEF ObjectsAreCollected
<1> QED
  BY <1>1, Invariance, PTL
=============================================================================
