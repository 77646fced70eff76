-------------------------- MODULE QueryStatements --------------------------
(***************************************************************************)
(* The statements of one query's transaction in their order, as            *)
(* _execute_connection (guarded_query/query.py) sends them: the session    *)
(* policy, the resolved functions and operators, EXPLAIN with its limits,  *)
(* the named cursor with the loop that pulls and encodes rows, COMMIT.     *)
(*                                                                         *)
(* What the database answers is chosen when it answers.  A plan is a tree  *)
(* of nodes, each with its "Plan Rows"; a row of the result stands for the *)
(* length of its JSON encoding.  Permits, connections, timeouts and        *)
(* cancels are QueryExecutor's subject.                                    *)
(***************************************************************************)
EXTENDS Naturals, FiniteSetsExt, SequencesExt, ReaderPolicy

CONSTANTS
    Functions, Operators,  \* names a query may use
    MaxNodes,     \* bound on the nodes of a plan; 1 is the root
    Estimates,    \* estimates of rows and cost
    CostLimit,    \* budget.max_plan_total_cost
    RowLimit,     \* budget.max_plan_rows
    NodeLimit,    \* budget.max_plan_nodes
    Batch,        \* _RESULT_FETCH_BATCH_ROWS
    RowLimits,    \* values of budget.max_result_rows
    ByteLimits,   \* values of budget.max_result_bytes
    RowSizes,     \* lengths of encoded rows
    MaxTable,     \* bound on the rows of a result
    Unencodable   \* a row encode_result_value or json.dumps raises for

ASSUME PlanAssumption ==
    /\ MaxNodes \in Nat \ {0} /\ Estimates \subseteq Nat
    /\ {CostLimit, RowLimit, NodeLimit} \subseteq Nat \ {0}

ASSUME FetchAssumption ==
    /\ Batch \in Nat \ {0} /\ MaxTable \in Nat /\ RowLimits \subseteq Nat \ {0}
    /\ ByteLimits \subseteq Nat \ {0, 1} /\ RowSizes \subseteq Nat

VARIABLES
    status,      \* the statement that comes next, ok, or the error that was raised
    uses,        \* the functions and operators of the validated SQL
    gates,       \* history: what the database said of the session and of those names
    plan,        \* the plan EXPLAIN answered
    pending,     \* the worklist of _summarize_plan
    node_count,
    max_rows,
    budget,      \* the result's limits
    table,       \* what the cursor yields if it is read to its end
    handed,      \* rows the cursor has handed out
    batch,       \* rows of the last fetch that were not looked at yet
    rows,        \* rows of the response
    bytes,       \* result_bytes
    truncated

gateVars == <<uses, gates>>
planVars == <<plan, pending, node_count, max_rows>>
fetchVars == <<budget, table, handed, batch, rows, bytes, truncated>>
vars == <<status, gateVars, planVars, fetchVars>>

NoBudget == [rows |-> 0, bytes |-> 0]
NoPlan == [parent |-> <<>>, rows |-> <<>>, malformed |-> {}, cost |-> 0]

Init ==
    /\ status = "session"
    /\ uses \in SUBSET (Functions \union Operators)
    /\ gates = [session |-> "unknown", unsafe |-> {}]
    /\ plan = NoPlan /\ pending = <<>> /\ node_count = 0 /\ max_rows = 0
    /\ budget = NoBudget
    /\ table = <<>> /\ handed = 0 /\ batch = <<>>
    /\ rows = <<>> /\ bytes = 2 /\ truncated = FALSE

-----------------------------------------------------------------------------
(* The statements before the user's: any of them may fail.                 *)
StatementFails ==
    /\ status \in {"session", "functions", "operators", "commit"}
    /\ status' = "failed"
    /\ UNCHANGED <<gateVars, planVars, fetchVars>>

CheckSession ==
    /\ status = "session"
    /\ \E session \in Sessions :
        /\ status' = IF SessionMatches(session) THEN "functions" ELSE "policy"
        /\ gates' = [gates EXCEPT !.session = session]
    /\ UNCHANGED <<uses, planVars, fetchVars>>

Resolved_AnyRow(names, safe) ==  \* variant: it is enough that one of the names is safe
    names = {} \/ names \intersect safe # {}

(* The names the catalog calls safe are those of the query, all of them.   *)
Resolved(names, safe) == names \subseteq safe

Resolve(kind, names, next) ==
    /\ status = kind
    /\ \E safe \in SUBSET (names \intersect uses) :
        /\ status' = IF Resolved(names \intersect uses, safe) THEN next ELSE "unsafe"
        /\ gates' = [gates EXCEPT !.unsafe = @ \union ((names \intersect uses) \ safe)]
    /\ UNCHANGED <<uses, planVars, fetchVars>>

ResolveFunctions == Resolve("functions", Functions, "operators")

(* Nothing after this looks at the names again.                            *)
ResolveOperators == Resolve("operators", Operators, "explain")

(* An error of the user's own SQL: QueryInvalidError for the SQLSTATEs     *)
(* that say so, the error as it is for the others.  A row psycopg cannot   *)
(* load is one of these, and fails the whole fetch.                        *)
UserSqlFails ==
    /\ status \in {"explain", "execute", "fetching"} /\ batch = <<>> /\ ~truncated
    /\ status' \in {"invalid", "failed"}
    /\ UNCHANGED <<gateVars, planVars, fetchVars>>

-----------------------------------------------------------------------------
(* EXPLAIN: _extract_plan, _summarize_plan, _admit_plan.                   *)

(* Every tree has a numbering that gives parents the smaller numbers.      *)
Trees == UNION {{p \in [1..n -> 0..(n - 1)] : p[1] = 0 /\ \A i \in 2..n : p[i] \in 1..(i - 1)} : n \in 1..MaxNodes}

Plans(tree) ==
    [parent : {tree}, rows : [DOMAIN tree -> Estimates], cost : Estimates,
     malformed : {{}} \union {{n} : n \in DOMAIN tree}]

Explain ==
    /\ status = "explain"
    /\ \/ status' = "malformed" /\ UNCHANGED <<plan, pending>>
       \/ /\ \E tree \in Trees : plan' \in Plans(tree)
          /\ status' = "summarize" /\ pending' = <<1>>
    /\ uses' = {}
    /\ UNCHANGED <<gates, node_count, max_rows, fetchVars>>

Children(n) == SetToSeq({m \in DOMAIN plan.parent : plan.parent[m] = n})

Extended_Replaced(rest, n) ==  \* variant: the children replace what is still to be visited
    Children(n)

Extended(rest, n) == rest \o Children(n)

Highest(n) == IF plan.rows[n] > max_rows THEN plan.rows[n] ELSE max_rows

(* One turn of the loop of _summarize_plan.  A root without a valid "Total *)
(* Cost" fails after the loop in the code; it counts as malformed here.    *)
Visit ==
    /\ status = "summarize" /\ pending # <<>>
    /\ LET n == Last(pending) IN
       /\ node_count' = node_count + 1
       /\ IF n \in plan.malformed
            THEN status' = "malformed" /\ UNCHANGED <<pending, max_rows>>
            ELSE /\ max_rows' = Highest(n)
                 /\ pending' = Extended(Front(pending), n)
                 /\ UNCHANGED status
    /\ UNCHANGED <<gateVars, plan, fetchVars>>

(* _admit_plan: cost, rows, nodes, in this order.                          *)
Verdict ==
    CASE plan.cost > CostLimit -> "cost"
      [] plan.cost <= CostLimit /\ max_rows > RowLimit -> "rows"
      [] OTHER -> IF node_count > NodeLimit THEN "nodes" ELSE "execute"

Judge ==
    /\ status = "summarize" /\ pending = <<>>
    /\ status' = Verdict
    /\ UNCHANGED <<gateVars, planVars, fetchVars>>

-----------------------------------------------------------------------------
(* The user's SQL runs.  The plan is not looked at again.                  *)
Execute ==
    /\ status = "execute"
    /\ status' = "describe"
    /\ budget' \in [rows : RowLimits, bytes : ByteLimits]
    /\ table' \in BoundedSeq(RowSizes \union {Unencodable}, MaxTable)
    /\ plan' = NoPlan /\ node_count' = 0 /\ max_rows' = 0
    /\ UNCHANGED <<gateVars, pending, handed, batch, rows, bytes, truncated>>

(* The columns are examined before any row is fetched: names, duplicates,  *)
(* types.                                                                  *)
Describe ==
    /\ status = "describe"
    /\ \E defects \in SUBSET {"name", "duplicate", "type"} :
        status' = CASE "name" \in defects -> "columns"
                    [] "name" \notin defects /\ "duplicate" \in defects -> "duplicate"
                    [] defects = {"type"} -> "columns"
                    [] OTHER -> "fetching"
    /\ UNCHANGED <<gateVars, planVars, fetchVars>>

Want_NoSentinel ==  \* variant: no row beyond the limit is asked for
    IF Batch < budget.rows - Len(rows) THEN Batch ELSE budget.rows - Len(rows)

Want_WholeBatch ==  \* variant: every fetch asks for a whole batch
    Batch

(* The rows a fetch asks for: one beyond the row limit shows that the      *)
(* result goes on.                                                         *)
Want ==
    LET remaining_with_sentinel == budget.rows - Len(rows) + 1 IN
    IF Batch < remaining_with_sentinel THEN Batch ELSE remaining_with_sentinel

Fetch ==
    /\ status = "fetching" /\ batch = <<>> /\ ~truncated
    /\ handed < Len(table) /\ Want > 0
    /\ batch' = SubSeq(table, handed + 1, IF handed + Want < Len(table) THEN handed + Want ELSE Len(table))
    /\ handed' = handed + Len(batch')
    /\ UNCHANGED <<status, gateVars, planVars, budget, table, rows, bytes, truncated>>

(* The loop ends, by an empty batch or by truncation, and COMMIT is next.  *)
Fetched ==
    /\ status = "fetching" /\ batch = <<>>
    /\ truncated \/ handed = Len(table) \/ Want = 0
    /\ status' = "commit"
    /\ UNCHANGED <<gateVars, planVars, fetchVars>>

Commit ==
    /\ status = "commit" /\ status' = "ok"
    /\ UNCHANGED <<gateVars, planVars, fetchVars>>

-----------------------------------------------------------------------------
(* The rows of a batch, one after the other.                               *)
AtRowLimit == Len(rows) >= budget.rows

Raises_First(row) ==  \* variant: a row is encoded before the row limit is looked at
    row = Unencodable

Raises(row) == ~AtRowLimit /\ row = Unencodable

Added_NoSeparator(row) ==  \* variant: the commas between rows are not counted
    bytes + row

(* result_bytes with this row: the separator comes before all but the first. *)
Added(row) == bytes + (IF rows = <<>> THEN 0 ELSE 1) + row

Overflows(row) == Added(row) > budget.bytes

Truncate ==
    /\ batch # <<>>
    /\ AtRowLimit \/ (Head(batch) # Unencodable /\ Overflows(Head(batch)))
    /\ truncated' = TRUE
    /\ batch' = <<>>
    /\ UNCHANGED <<status, gateVars, planVars, budget, table, handed, rows, bytes>>

EncodeFails ==
    /\ batch # <<>> /\ Raises(Head(batch))
    /\ status' = "encoding"
    /\ batch' = <<>>
    /\ UNCHANGED <<gateVars, planVars, budget, table, handed, rows, bytes, truncated>>

Keep ==
    /\ batch # <<>>
    /\ ~AtRowLimit /\ Head(batch) # Unencodable /\ ~Overflows(Head(batch))
    /\ rows' = Append(rows, Head(batch))
    /\ bytes' = Added(Head(batch))
    /\ batch' = Tail(batch)
    /\ UNCHANGED <<status, gateVars, planVars, budget, table, handed, truncated>>

Next ==
    \/ StatementFails \/ CheckSession \/ ResolveFunctions \/ ResolveOperators \/ UserSqlFails
    \/ Explain \/ Visit \/ Judge \/ Execute \/ Describe
    \/ Fetch \/ Truncate \/ EncodeFails \/ Keep \/ Fetched \/ Commit

Spec == Init /\ [][Next]_vars

-----------------------------------------------------------------------------
(* Correctness.                                                            *)

PlanWithin ==
    /\ plan.malformed = {} /\ plan.cost <= CostLimit
    /\ \A n \in DOMAIN plan.parent : plan.rows[n] <= RowLimit
    /\ Len(plan.parent) <= NodeLimit

(* The statements that hold the user's SQL, and what follows them.         *)
Explained ==
    {"explain", "summarize", "malformed", "cost", "rows", "nodes", "invalid", "execute",
     "describe", "columns", "duplicate", "fetching", "encoding", "commit", "ok"}

(* docs/query-cost-control.md: the user's SQL is explained, and run, only  *)
(* in a session that has every fact of the reader policy and with names    *)
(* that are all safe, those validate_sql collected (what it does not       *)
(* collect is SqlScope's OperatorsAreAllowed); and it is run only if the   *)
(* whole of its plan is within the three limits; a plan that is gets in.   *)
(* Nothing of the tree is skipped or counted twice, whatever its shape.    *)
UserSqlIsGated ==
    /\ status \in Explained => gates = [session |-> SessionFacts, unsafe |-> {}]
    /\ status = "execute" => PlanWithin
    /\ status \in {"cost", "rows", "nodes"} => ~PlanWithin

(* Bytes of a JSON array of rows: the brackets, the rows, the commas.      *)
Total(s) ==
    LET sum[n \in 0..Len(s)] == IF n = 0 THEN 0 ELSE sum[n - 1] + s[n]
    IN  sum[Len(s)]

ArrayBytes(s) == 2 + Total(s) + (IF s = <<>> THEN 0 ELSE Len(s) - 1)

Prefix(n) == SubSeq(table, 1, n)

(* The first n rows can be delivered within the budget.                    *)
Fits(n) ==
    /\ n <= budget.rows
    /\ \A i \in 1..n : table[i] # Unencodable
    /\ ArrayBytes(Prefix(n)) <= budget.bytes

(* docs/decisions/0002-guarded-query-contract.md:36: a row that crosses    *)
(* the limit is omitted and sets truncated.  result_bytes is exact, the    *)
(* response holds all rows that fit, in their order, and says truncated    *)
(* just when there are more, wherever the limits fall relative to the      *)
(* batches of the cursor.                                                  *)
DeliversWhatFits ==
    /\ bytes = ArrayBytes(rows)
    /\ status = "ok" =>
        /\ rows = Prefix(Len(rows)) /\ Fits(Len(rows))
        /\ truncated <=> Len(rows) < Len(table)
        /\ truncated => Len(rows) = budget.rows \/ ArrayBytes(Prefix(Len(rows) + 1)) > budget.bytes

(* The process never holds more than one batch beyond the response, nor    *)
(* asks the database for more than one row beyond the row limit.           *)
FetchIsBounded == handed <= budget.rows + 1 /\ handed - Len(rows) <= Batch

(* An encoding error comes from the row right after what fits, within the  *)
(* row limit: never from the sentinel, nor from a row behind a truncation. *)
(* The byte limit does not shield that row: the code encodes it before it  *)
(* compares its length, and fails even when no byte is left for it.        *)
FailsForItsRows ==
    status = "encoding" =>
        \E n \in 1..Len(table) : n <= budget.rows /\ table[n] = Unencodable /\ Fits(n - 1)
=============================================================================
