----------------------------- MODULE CatalogRead -----------------------------
(***************************************************************************)
(* One source's catalog loads (metadata/catalog.py), each followed by the  *)
(* checks and the projection that decide whether it is published           *)
(* (metadata/service.py, metadata/revision.py).  The refresh lock of       *)
(* MetadataCache lets one load run at a time; this module opens the Read   *)
(* of that one: the awaits of a load, with the errors, the cancels and the *)
(* state of the pool's only connection, and what the rows have to be.      *)
(***************************************************************************)
EXTENDS Naturals, FiniteSetsExt, ReaderPolicy

CONSTANTS
    Relations,       \* names of views, as numbers in their order
    Catalogs,        \* what the database may hold: sets of relations with a view each
    SslMode,         \* connection.sslmode
    MaxColumns,      \* budget.max_metadata_columns
    MaxRelations,    \* budget.max_metadata_relations
    MaxPerRelation,  \* budget.max_columns_per_relation
    MaxContext,      \* budget.max_context_columns_per_relation
    MaxBytes,        \* budget.max_metadata_response_bytes, in entries of the response
    NoConnection, NoCatalog, Nothing

(* A view: the marker line of its comment, the description under it, the   *)
(* hash of its definition and the selectable columns by their ordinals,    *)
(* which may have gaps.                                                    *)
Markers == {"own", "other source", "other version", "garbled", "no comment"}
Columns == [type : {"int", "text", "domain"}, comment : {"", "a"}]

ASSUME CatalogAssumption ==
    /\ Relations \subseteq Nat
    /\ \A c \in Catalogs : DOMAIN c \subseteq Relations /\ IsFiniteSet(DOMAIN c)
    /\ \A c \in Catalogs : \A r \in DOMAIN c :
        /\ c[r].marker \in Markers /\ c[r].description \in {"", "d", "e"}
        /\ DOMAIN c[r].columns \subseteq Nat /\ IsFiniteSet(DOMAIN c[r].columns)
        /\ \A i \in DOMAIN c[r].columns : c[r].columns[i] \in Columns

\* The budget profile's validator asks for whole numbers, none of them negative.
ASSUME LimitsAssumption ==
    /\ MaxColumns \in Nat /\ MaxRelations \in Nat /\ MaxPerRelation \in Nat
    /\ MaxContext \in Nat /\ MaxBytes \in Nat

VARIABLES
    pc,          \* the await the load is at; idle if there is none
    pool,        \* the source's pool: none or open
    connection,  \* its only connection
    link,        \* that connection: idle, open (in a transaction) or broken
    catalog,     \* what the database held when the catalog query ran
    error,       \* the exception on its way out of the load
    outcome,     \* how the last load ended
    seen,        \* history: what this load met
    published    \* the last snapshot that was published: the structure that was
                 \* accepted with it and, as a history, what clients see of it

databaseVars == <<pool, connection, link>>
vars == <<pc, databaseVars, catalog, error, outcome, seen, published>>

Init ==
    /\ pc = "idle" /\ pool = "none" /\ connection = NoConnection /\ link = "broken"
    /\ catalog = NoCatalog /\ error = "none" /\ outcome = "none" /\ seen = {}
    /\ published = Nothing

-----------------------------------------------------------------------------
(* The catalog query and what is computed from its rows.                   *)

(* A row per selectable column: a view without one is not in the result.   *)
Selectable(c) == UNION {{r} \X DOMAIN c[r].columns : r \in DOMAIN c}

Before(p, q) == p[1] < q[1] \/ (p[1] = q[1] /\ p[2] < q[2])

RowLimit_Exact ==  \* variant: no row beyond the limit is asked for
    MaxColumns

RowLimit == MaxColumns + 1

(* ORDER BY schema, relation, ordinal LIMIT.                               *)
Rows(c) == {p \in Selectable(c) : Cardinality({q \in Selectable(c) : Before(q, p)}) < RowLimit}

Type(c, p) == c[p[1]].columns[p[2]].type

RowsRefused(c) == Cardinality(Rows(c)) > MaxColumns \/ \E p \in Rows(c) : Type(c, p) = "domain"

Loaded(c) == {p[1] : p \in Rows(c)}

ColumnsOf(c, r) == {p[2] : p \in {q \in Rows(c) : q[1] = r}}

(* _parse_view_comment: a view without a comment gets past it.             *)
CommentRefused(view) ==
    \/ view.marker = "garbled"
    \/ view.marker # "no comment" /\ view.description = ""

SnapshotRefused(c) ==
    \/ \E r \in Loaded(c) : CommentRefused(c[r])
    \/ Cardinality(Loaded(c)) > MaxRelations
    \/ \E r \in Loaded(c) : Cardinality(ColumnsOf(c, r)) > MaxPerRelation

(* _validate_snapshot: the markers name this source and this version.      *)
Issues(c) == Loaded(c) = {} \/ \E r \in Loaded(c) : c[r].marker # "own" \/ c[r].description = ""

(* The columns of a view that the context shows: the first by ordinal.     *)
Shown(c, r) ==
    {i \in ColumnsOf(c, r) : Cardinality({j \in ColumnsOf(c, r) : j < i}) < MaxContext}

(* _context_response, without what does not depend on the catalog.         *)
Context(c) ==
    {[name |-> r, description |-> c[r].description, count |-> Cardinality(ColumnsOf(c, r)),
      columns |-> {<<i, c[r].columns[i]>> : i \in Shown(c, r)}] : r \in Loaded(c)}

(* Its size: two entries for a relation, one for a column.                 *)
ContextBytes(c) == SumFunction([r \in Loaded(c) |-> 2 + Cardinality(Shown(c, r))])

Revision_NoComments(c) ==  \* variant: comments of columns do not count
    {[name |-> r, comment |-> c[r].description, definition |-> c[r].definition,
      columns |-> {<<i, c[r].columns[i].type>> : i \in ColumnsOf(c, r)}] : r \in Loaded(c)}

(* What create_metadata_revision hashes: canonical, so a set.              *)
Revision(c) ==
    {[name |-> r, comment |-> c[r].description, definition |-> c[r].definition,
      columns |-> {<<i, c[r].columns[i]>> : i \in ColumnsOf(c, r)}] : r \in Loaded(c)}

(* What create_view_structure_signature hashes: no comment of any kind.    *)
Structure(c) ==
    {[name |-> r, definition |-> c[r].definition,
      columns |-> {<<i, c[r].columns[i].type>> : i \in ColumnsOf(c, r)}] : r \in Loaded(c)}

-----------------------------------------------------------------------------
(* A load ends without a connection in its hands.                          *)
Over(how) ==
    /\ pc' = "idle" /\ outcome' = how /\ error' = "none"
    /\ UNCHANGED published

(* An exception that is on its way: to the rollback or past it.            *)
Raise(kind, what, next) ==
    /\ error' = kind /\ seen' = seen \union {what} /\ pc' = next
    /\ UNCHANGED <<pool, connection, outcome, published>>

Load ==
    /\ pc = "idle" /\ pc' = "pool"
    /\ outcome' = "none" /\ seen' = {} /\ catalog' = NoCatalog
    /\ UNCHANGED <<databaseVars, error, published>>

(* _get_pool; a pool that does not open is not kept.                       *)
GetPool ==
    /\ pc = "pool"
    /\ \/ pool' = "open" /\ pc' = "lease" /\ UNCHANGED <<outcome, error, seen, published>>
       \/ pool = "none" /\ Over("transient") /\ seen' = seen \union {"fault"} /\ UNCHANGED pool
    /\ UNCHANGED <<connection, link, catalog>>

(* The pooled connection, which may have died meanwhile, or a new one.     *)
Lease ==
    /\ pc = "lease"
    /\ \/ /\ connection' \in Connections \union ({connection} \ {NoConnection})
          /\ link' \in {"idle", "broken"}
          /\ pc' = "connection" /\ UNCHANGED <<outcome, error, seen, published>>
       \/ Over("transient") /\ seen' = seen \union {"fault"} /\ UNCHANGED <<connection, link>>
    /\ UNCHANGED <<pool, catalog>>

LinkOfMismatch_Kept ==  \* variant: the connection goes back to the pool as it is
    link

(* A connection that is not what the policy asks for is closed.            *)
LinkOfMismatch == "broken"

CheckConnection ==
    /\ pc = "connection"
    /\ IF ConnectionMatches(connection, SslMode)
         THEN pc' = "begin" /\ UNCHANGED <<databaseVars, error, outcome, seen, published>>
         ELSE Raise("policy", "policy", "exit") /\ link' = LinkOfMismatch
    /\ UNCHANGED catalog

(* The facts of a dead connection cannot be read.                          *)
CheckFails ==
    /\ pc = "connection" /\ link = "broken"
    /\ Raise("transient", "fault", "exit")
    /\ UNCHANGED <<link, catalog>>

Statement(name, next) == pc = name /\ link # "broken" /\ pc' = next

Begin ==
    /\ Statement("begin", "settings") /\ link' = "open"
    /\ UNCHANGED <<pool, connection, catalog, error, outcome, seen, published>>

ApplySettings ==
    /\ Statement("settings", "session")
    /\ UNCHANGED <<databaseVars, catalog, error, outcome, seen, published>>

(* Any failure of the settings counts as a violation of the policy.        *)
StatementFails ==
    /\ pc \in {"begin", "settings", "session", "query", "commit"}
    /\ IF pc = "settings"
         THEN Raise("policy", "settings", "rollback")
         ELSE Raise("transient", "fault", "rollback")
    /\ link' \in {link, "broken"}
    /\ UNCHANGED catalog

CheckSession ==
    /\ pc = "session" /\ link # "broken"
    /\ \E session \in Sessions :
        IF SessionMatches(session)
          THEN pc' = "query" /\ UNCHANGED <<pool, connection, error, outcome, seen, published>>
          ELSE Raise("policy", "policy", "rollback")
    /\ UNCHANGED <<link, catalog>>

Query ==
    /\ pc = "query" /\ link # "broken"
    /\ catalog' \in Catalogs
    /\ IF RowsRefused(catalog')
         THEN Raise("invalid", "invalid", "rollback")
         ELSE pc' = "commit" /\ UNCHANGED <<pool, connection, error, outcome, seen, published>>
    /\ UNCHANGED link

Commit ==
    /\ Statement("commit", "exit") /\ link' = "idle"
    /\ UNCHANGED <<pool, connection, catalog, error, outcome, seen, published>>

ErrorAfterRollback_Replaced(rolled_back) ==  \* variant: a failing rollback is the error that is reported
    IF rolled_back THEN error ELSE "transient"

(* The first error is the one that is raised, whatever becomes of the      *)
(* rollback.                                                               *)
ErrorAfterRollback(rolled_back) == error

Rollback ==
    /\ pc = "rollback" /\ pc' = "exit"
    /\ \/ link # "broken" /\ link' = "idle" /\ error' = ErrorAfterRollback(TRUE)
       \/ link' = "broken" /\ error' = ErrorAfterRollback(FALSE)
    /\ UNCHANGED <<pool, connection, catalog, outcome, seen, published>>

(* A cancel takes the load out of any await, with no rollback of its own.  *)
Cancel ==
    /\ \/ pc \in {"pool", "lease"} /\ Over("cancelled") /\ UNCHANGED <<link, seen>>
       \/ /\ pc \in {"begin", "settings", "session", "query", "commit", "rollback", "exit"}
          /\ pc' = "exit" /\ error' = "cancelled" /\ link' \in {link, "broken"}
          /\ UNCHANGED <<outcome, seen, published>>
    /\ UNCHANGED <<pool, connection, catalog>>

(* The pool takes the connection back: it rolls back what is still open    *)
(* and keeps no broken connection.                                         *)
Exit ==
    /\ pc = "exit"
    /\ \/ link # "broken" /\ link' = "idle" /\ UNCHANGED connection
       \/ link # "idle" /\ link' = "broken" /\ connection' = NoConnection
    /\ IF error = "none"
         THEN pc' = "publish" /\ UNCHANGED <<error, outcome, published>>
         ELSE Over(error)
    /\ UNCHANGED <<pool, catalog, seen>>

(* The connection dies behind the COMMIT and the exit raises: the rows are *)
(* lost with it.                                                           *)
ExitFails ==
    /\ pc = "exit" /\ error = "none"
    /\ link' = "broken" /\ connection' = NoConnection
    /\ Over("transient") /\ seen' = seen \union {"fault"}
    /\ UNCHANGED <<pool, catalog>>

(* The structure that was accepted last stays the only one there may be.   *)
Restructured(c) == published # Nothing /\ published.structure # Structure(c)

(* No await from here to the cache.                                        *)
Publish ==
    /\ pc = "publish" /\ pc' = "idle"
    /\ IF SnapshotRefused(catalog) \/ Issues(catalog) \/ Restructured(catalog) \/ ContextBytes(catalog) > MaxBytes
         THEN outcome' = "invalid" /\ seen' = seen \union {"invalid"} /\ UNCHANGED published
         ELSE /\ outcome' = "published" /\ UNCHANGED seen
              /\ published' = [revision |-> Revision(catalog), context |-> Context(catalog),
                               structure |-> Structure(catalog)]
    /\ UNCHANGED <<databaseVars, catalog, error>>

(* close(): the runtime calls it when no load is left.                     *)
Close ==
    /\ pc = "idle" /\ pool = "open"
    /\ pool' = "none" /\ connection' = NoConnection /\ link' = "broken"
    /\ UNCHANGED <<pc, catalog, error, outcome, seen, published>>

Next ==
    \/ Load \/ GetPool \/ Lease \/ CheckConnection \/ CheckFails
    \/ Begin \/ ApplySettings \/ CheckSession \/ Query \/ Commit \/ StatementFails
    \/ Rollback \/ Cancel \/ Exit \/ ExitFails \/ Publish \/ Close

Spec == Init /\ [][Next]_vars

-----------------------------------------------------------------------------
(* Correctness.                                                            *)

(* The views a reader can select from, taken from the whole catalog.       *)
Visible(c) == {r \in DOMAIN c : DOMAIN c[r].columns # {}}

Least(a, b) == IF a < b THEN a ELSE b

Valid(c) ==
    LET columns(r) == Cardinality(DOMAIN c[r].columns)
    IN /\ Visible(c) # {} /\ Cardinality(Visible(c)) <= MaxRelations
       /\ SumFunction([r \in Visible(c) |-> columns(r)]) <= MaxColumns
       /\ SumFunction([r \in Visible(c) |-> 2 + Least(columns(r), MaxContext)]) <= MaxBytes
       /\ \A r \in Visible(c) :
           /\ c[r].marker = "own" /\ c[r].description # ""
           /\ columns(r) <= MaxPerRelation
           /\ \A i \in DOMAIN c[r].columns : c[r].columns[i].type # "domain"

(* The structure that is compared leaves out nothing a reader can select.  *)
Complete(c) ==
    Structure(c) = {[name |-> r, definition |-> c[r].definition,
        columns |-> {<<i, c[r].columns[i].type>> : i \in DOMAIN c[r].columns}] : r \in Visible(c)}

(* docs/decisions/0034-source-view-package-and-direct-admission.md:55: a   *)
(* snapshot is published only if the whole catalog, not just the rows that *)
(* were read, keeps the contract and the limits, and it then holds every   *)
(* view and column; one that keeps them, with the structure accepted       *)
(* before, is never called invalid.                                        *)
AdmittedIffValid ==
    /\ outcome = "published" =>
        /\ Valid(catalog)
        /\ Complete(catalog)
    /\ outcome = "invalid" => ~Valid(catalog) \/ Restructured(catalog)

(* MetadataService serves the old snapshot after a transient error and     *)
(* withdraws it after a refusal: a refusal stays one when the rollback     *)
(* fails too, an outage is not called a refusal (but for the settings),    *)
(* and a load that met anything is never published.                        *)
RefusalsStick ==
    /\ outcome = "transient" => seen = {"fault"}
    /\ outcome \in {"policy", "invalid"} => seen \in {{outcome}, {"settings"}}
    /\ outcome = "published" => seen = {}

(* Between two loads the pool holds no connection that is in a             *)
(* transaction, and none that the policy refused: the next load does not   *)
(* run into what the last one left.                                        *)
CleanConnection ==
    pc = "idle" /\ connection # NoConnection => link = "idle" /\ ConnectionMatches(connection, SslMode)

(* docs/decisions/0034-source-view-package-and-direct-admission.md:62: a   *)
(* client that holds the revision in force was shown the context in force, *)
(* since a snapshot with another context or structure has another one.     *)
RevisionNamesTheContext ==
    [][published # Nothing /\ published'.revision = published.revision => published' = published]_published
=============================================================================
