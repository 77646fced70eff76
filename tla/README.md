# Query Man: a formal model

TLA+ specifications of Query Man, the service under `src/src/query_man/` that answers read-only SQL
for reviewed PostgreSQL sources. TLC checks them on small instances; TLAPS proves every safety property
of the runs, in eight `*Proofs` modules, for every value of the constants. All paths below are relative to
`src/src/query_man/` unless they begin with `docs/` or `tests/`.

Contents: 1 the system, 2 the modules, 3 the runs, 4 fairness, 5 the proofs, 6 what differs from the
documents, 7 what is not modelled, 8 plan.

## 1. The system

One process, one asyncio event loop, one thread; `threading.RLock`s exist because signal handlers run
on that thread between two statements of anything.

| Component | State it keeps | Operations | Talks to |
|---|---|---|---|
| HTTP delivery (`delivery/app.py`, `gateway.py`) | per request: the handler, the task of the query, a task that watches the connection | authenticate, `/query`, `/meta`, `/sources`, `/ready`, `/health`, `/admin/*` | gateway -> query service, metadata service; reads the operational state |
| Configuration (`runtime/config.py`) | none | `load_runtime_config` | called before `build_app` |
| Access policy (`delivery/access.py`) | token digests, loaded once | `load`, `authenticate` | called by the middleware |
| Query service and executor (`guarded_query/query.py`) | `_pools`, `_semaphores`, `_pool_lock`, `_active_lock`, `_active`, `_inflight`, `_accepting` | `execute`, `drain`, `close`, `stop_accepting` | metadata (revision), SQL policy, PostgreSQL, operational state |
| Plan gate (`query.py:610-669`) | none | `_summarize_plan`, `_admit_plan` | called inside the transaction |
| Result fetch and encoding (`query.py:497-549`, `result_encoding.py`) | rows, `result_bytes`, `truncated` | fetch, encode, truncate | the named cursor |
| SQL policy (`sql_validation.py`) | visible CTEs, collected relations, functions, operators | `validate_sql` | parser; result goes to the executor's resolved-object check |
| Metadata cache (`metadata/service.py`) | `_cache`, `_refresh_locks`, `_view_structure_signatures` | `get_context`, `get_published` | catalog reader, operational state |
| Catalog reader (`metadata/catalog.py`) | `_pools`, `_pool_lock` | `load`, `close` | PostgreSQL |
| Runtime lifecycle (`runtime/composition.py`, `server.py`) | shutdown deadline, `_started`, exit stack, first cleanup error | startup probes, trigger, lifespan | uvicorn, executor, catalog |
| Operational state (`runtime/operations.py`) | two health values per source, accepting flag, counters | `set_*`, `public_status` | written by metadata, executor, runtime; read by delivery |
| Source registry, reader policy (`source_catalog/`) | immutable after load | `load`, `get` | everyone |
| Revision (`metadata/revision.py`) | none | canonical JSON, SHA-256 | metadata |

What is hard here, and what makes each part correct:

- **Executor.** Permits of an `asyncio.Semaphore` race with timeouts, disconnects and a forced drain;
  a cancel may land at any of a dozen awaits, again while the first one is being handled. Correct:
  a permit is never lost or duplicated, `_active` never names a connection of somebody else, a result
  or a refusal agrees with what the transaction did, a drain ends, leaves no query that still wants a
  connection and closes every pool unless one fails to.
- **Metadata cache.** Callers queue behind one load, whose result may be old, rejected or an error.
  Correct: answers keep within the TTL and the maximum stale age, what was rejected stays withdrawn,
  all answers share one view structure, nobody loads while the entry is fresh or backing off, the
  published health is true of the entry, and the lock reaches everybody.
- **Runtime.** Signals re-enter the trigger; cleanup steps fail. Correct: one deadline, closed gates
  before the drain, every step tried, `/ready` truthful, the process ends.
- **Delivery.** Disconnect, completion and cancellation race at three awaits. Correct: nothing
  outlives the request, cancels have causes, the answer is the query's own, a disconnect ends the
  request.
- **Catalog reader.** A dozen awaits over a pool of one connection; each may fail or be cancelled, and
  what the failure is called decides whether the old snapshot is served or withdrawn. Correct: a
  refusal stays a refusal, a snapshot is the whole catalog or none, the next load finds a clean
  connection, a revision stands for all a client was shown.
- **SQL policy, statements of a query.** Sequential; what is hard is the input space: nested
  scopes, tree shapes, batch, row and byte boundaries.
- **Startup.** Sequential; settings are validated in one place and resolved in another. Correct: the
  inventory is whole or there is no service, and a token is one caller's.

The hazards, each at its line and with the properties that cover it or the reason why none does, are
listed in `PROJECT.json`.

## 2. The modules

| Module | Role |
|---|---|
| `QueryAdmission` | what the executor promises about admission: limit, gate, no return |
| `QueryExecutor` | the executor in detail; implements `QueryAdmission` |
| `MetadataCache` | one source's cache, lock and refresh |
| `Runtime` | startup, health aggregation, trigger, signals, lifespan cleanup |
| `HttpQuery` | one `POST /query` from arrival to response |
| `SqlScope` | `validate_sql` over the SELECTs of a statement |
| `ReaderPolicy` | what a reader's connection and session have to be; no state |
| `QueryStatements` | the statements of one query's transaction: session, names, plan, rows |
| `CatalogRead` | one source's catalog loads, their checks and the revision |
| `Startup` | settings, source inventory, callers, and who a request is taken for |
| `MC*` | instances: values of the constants, symmetry |
| `QueryExecutorProofs`, `MetadataCacheProofs`, `RuntimeProofs`, `HttpQueryProofs`, `SqlScopeProofs`, `QueryStatementsProofs`, `CatalogReadProofs`, `StartupProofs` | TLAPS: an inductive invariant and the theorems about the module they are named after (section 5) |

Definitions keep the names of the code where they can. A definition whose name has a suffix and whose
comment begins with "variant" is not part of the model: it is the same step with a plausible mistake,
kept to show that a property notices it.

### QueryExecutor

`pc[r]` is the await the task of request `r` is suspended at: `queued` (`semaphore.acquire`), `granted`
(woken with a permit, not yet run), `poollock`, `poolopen`, `lease` (`pool.connection`), `session`,
`plan`, `fetch`, `commit` (the statements), `cursorclose` (`cursor.close()` in the `finally` of the
fetch), `cancelsafe`, `rollback`, `return`. The code between two awaits is one action. The bodies under
`_active_lock` contain no await: the lock is never contended and adds no step.

- `Task.cancel()` is a mark (`pending`) and the `CancelledError` is the task's next step (`Deliver`).
  Semantics of CPython's `Semaphore` (first come first served, a granted waiter that is cancelled
  gives its permit to the next) and `Lock` are in `Woken`, `MoveAndWake`, `LockFree`, marked external.
- `Timer` is the deadline of the `wait_for` or `asyncio.timeout` around the await; `ext` records that
  a cancel came from elsewhere too, which decides between `TimeoutError` and `CancelledError`.
- Every way out of the fetch goes through `cursorclose`: with a result, with an error and with a
  `CancelledError`, of which a second one may arrive there. Its errors are swallowed. The deadline of the
  transaction fires once, so that `cursorclose`, `rollback` and `return` have none after it (`Untimed`).
- A COMMIT that fails or is cancelled may have taken effect unheard (`Unanswered`). `exc` is the exception
  on its way, `txn` the transaction as far as the server is concerned; the step that answers forgets both.
- `psycopg_pool`'s connection context rolls back on exit and ends the lease (external). A failed quiet
  rollback is a broken connection and counts as rolled back: the server ends the transaction.
- `PoolTimeout` and `OperationalError` at the lease have the same result and are one outcome.
- The shutdown is one more process: `drain`, `gather` (cancel_safe of every active connection),
  `wait1`, `wait2` (the bounded waits), `drained`/`forced`, `pools`, `closed` or `aborted`. `close()` without a
  drain is a drain with grace 0; a `pool.close()` that raises ends the loop (`ClosePoolFails`, `aborted`);
  `last` marks the call of `_cancel_inflight` that `close()` makes.
  `Settled` says that a cancel already issued is delivered before a one-second wait is over.
- `MaxInterrupts` bounds the cancels from delivery. `HttpQuery`'s `CancelsHaveCauses` shows that they
  are as many as disconnect and server cancels.

### MetadataCache

`cache` is the `_CacheEntry` or `None`, `pinned` the accepted structure, `pc` of a caller is `idle`,
`waiting` (in the lock's queue), `loading` or `read` (the snapshot is read, not yet decided). `Acquire`
reads the cache under the lock, as the code does. A load reads one catalog (`REPEATABLE READ`) at a moment
between its start and its end while `Alter` changes the catalog; it ends by publishing, by a rejection
(which pops the entry) or by an error (which postpones the next refresh and serves the old entry if it is
not too old). Times are integers; `Tick` is the clock. `born` and `told` are history: when the cached
snapshot was published and when the health was last set. The code sets the health only in a call, so
`healthy` outlives the TTL until somebody asks; `HealthTruthful` therefore dates it by `told`.

### Runtime

The trigger's five statements are separate steps, because a signal handler may run between any two of
them on the same thread: `calls` is the stack of trigger calls, the innermost runs. The clock counts
`Parts` of a millisecond, so that `math.ceil` of `remaining_ms` matters. `LeaveCancelled` is uvicorn
ending without its graceful path; `AbortStartup` an exception that unwinds the exit stack before the
lifespan yields. `metadata` and `query` are the two health maps; `PublicStatus` and `Ready` follow
`operations.public_status` and the `/ready` route.

### HttpQuery

`handler` is at arrival, in `asyncio.wait`, in `await task`, in `await disconnected` or in the last
`await task`. `Arrive` also ends in the refusals before any task exists: shutting down, unknown
caller, an invalid request. `Matches` compares both revisions of the request, the metadata's and the
SQL policy's; what is published after it is of no consequence to the request, and no property says
otherwise. A cancel of the handler at `await task` is handed to the task. The task is in metadata,
in the executor, or done with an outcome; what the executor does when it is cancelled is
`QueryExecutor`'s subject. Assumption: `request.receive()` does not raise. If it did while the
handler was being cancelled, `finally` would leave before it cancels the query's task.

### SqlScope

A statement is the sequence of its SELECTs, each after the one it is part of: `parent` is that one,
`entry` says whether it is in its body (0: a subquery or an arm of a set operation) or the query of an
entry of its WITH clause. `OuterCtes` is what `_validate_select_scope` hands down in its recursion, one
equation per SELECT; `Around` in the property is the other direction, from a SELECT to those it is in.
One allowed and one refused member stand for each allowlist. Relations are compared as the code compares
them, by the text `f"{schema}.{name}"`: `Joined` gives that text for each pair, and two pairs may have one
because a name may hold a dot (a published schema may not). The two node kinds that name an operator and
have no handler, `SubLink` and `SortBy`, are `Unexamined`. Which of several violations is reported
is left open (the code reports the first in traversal order).

### QueryStatements

What happens between the awaits of `QueryExecutor`'s `session`, `plan`, `fetch` and `commit`. `status` is
the statement that comes next, or the error that was raised. `gates` records what the database said of the
session (`ReaderPolicy`) and of the functions and operators of the validated SQL. A plan is a tree that
`Visit` walks by the code's worklist; it is chosen when EXPLAIN answers and forgotten once it is judged. A
row of the result is the length of its encoding, `Unencodable` rows raise. The named cursor hands out
`table` in batches of `Want` rows. The order of the loop's checks matters and is kept: row limit,
encoding, byte limit. A row that `psycopg` cannot load fails the fetch as a whole (`UserSqlFails`).

### ReaderPolicy and CatalogRead

`ReaderPolicy` is the decision of `require_reader_connection_policy` and of
`require_reader_session_policy` over a connection's version, encodings and TLS and over the sixteen
columns of the session query. `CatalogRead` opens the `Read` of `MetadataCache`: `pc` is the await of the
load (`pool`, `lease`, `connection`, `begin`, `settings`, `session`, `query`, `commit`, `rollback`,
`exit`, then `publish`, which has no await). `link` says whether the pool's connection is idle, in a
transaction or broken (a closed one is broken too). The outcome is what `_get_prepared` tells apart:
`published`, `policy` and `invalid` (which withdraw the entry), `transient` (which keeps it), `cancelled`.
The exit of `pool.connection()` is external: it rolls back what is open and discards what is broken, and
it may raise when the connection dies behind the COMMIT (`ExitFails`). The catalog is chosen when the
catalog query runs, which is one statement of a `REPEATABLE READ` transaction; `Rows` is its result under
ORDER BY and LIMIT, and everything later is computed from `Rows`, never from the catalog. Revision and
structure are the values that are hashed; the canonical JSON is unordered, so they are sets. A view's
`definition` stands for its definition hash and its two security options.

### Startup

The steps of `load_runtime_config`, `SourceRegistry.load` and `build_app` in their order; `stage` is
what is read next. A file's content is chosen when it is read, the environment at the beginning.
Strict models are valid or have one defect. `Host` and `Port` are the overrides of the environment
over the profile. `registry` exists once the last package is in. `credentials` grows caller by caller.
`Serve` is the middleware with `_require_operator`; shutdown and the query itself are `HttpQuery`'s.

## 3. The runs

| Run (cfg) | Instance | What it shows |
|---|---|---|
| `query_admission` (`QueryAdmit`) | 3 requests, 1 source, 2 permits, 1 interrupt; about 1.2 million states up to symmetry | types; `PermitsConserved`, `RegistrationsExact`, `OnePoolPerSource`, `AnswerMatchesTransaction`; what a drain leaves behind: `NoLeaseAfterForce`, `LeftoversOnlyCleanUp`; `QueryAdmission` is implemented. `AnswerMatchesTransaction` and `NoLeaseAfterForce` are about steps |
| `query_ends` (`QueryEnds`) | 2 requests, 2 sources with 1 permit each | `PoolsStayClosed`; under fairness `ShutdownEnds` and `QueryEnds`; about 280 000 states |
| `rollback_before_pools` | 2 requests | violated: see 6 |
| `metadata_cache` (`MetadataCache`) | 2 callers, 4 catalogs (two of one structure, one of another, one invalid), TTL 1, retry 1, max stale 2, time up to 4 | `ServedInTime`, `RevokedStaysOut`, `OneStructure`, `LoadsWhenDue`, `HealthTruthful`, `Answered` |
| `runtime` (`Runtime`) | 2 sources, 2 signals, grace 1 ms in halves, time up to 2.5 ms | `DeadlineStands`, `DrainGetsTheRest`, `DrainsClosedGates`, `EveryStepIsTried`, `ReadyMeansUsable`, `ShutdownCompletes` |
| `http_query` (`HttpQuery`) | 2 revisions, 2 server cancels | `NothingOutlivesTheRequest`, `CancelsHaveCauses`, `AnswersForItsQuery`, `DisconnectEnds` |
| `sql_scope` (`SqlScope`) | every nesting of up to 3 SELECTs with 2 CTE names and 4 relations, of 4 SELECTs with 2 unqualified ones; all pairs of node kinds outside and inside; two relations of one joined name | `OnlyViewsAndCtes` (in both directions), `OnlyReads`, `ObjectsAreCollected` |
| `unexamined_operators` (`SqlScopeOperators`) | the same | violated: see 6 |
| `query_statements` (`QueryStatements`) | every session with a fact missing, 2 functions and 2 operators; every plan of up to 4 nodes, estimates around the limits; every table of up to 6 rows of 2 lengths or unencodable, 4 row limits, 3 byte limits, batch 2 | `UserSqlIsGated`, `DeliversWhatFits`, `FetchIsBounded`, `FailsForItsRows` |
| `catalog_read` (`CatalogRead`) | loads in any number over some 200 catalogs: two views of 12 kinds each, a third one, invisible ones; limits of 4 columns, 2 relations, 3 columns each, 7 entries of response | `AdmittedIffValid`, `RefusalsStick`, `CleanConnection`, `RevisionNamesTheContext` |
| `startup` (`Startup`) | all settings; every override; up to 2 packages of 12 kinds; policies of up to 2 callers with tokens of 6 kinds; every request | `InventoryIsWhole`, `TokenNamesItsCaller` |
| `anonymous_remote` (`StartupAnonymous`) | the same | violated: see 6 |

Why the bounds are enough to meet the interesting cases:

- Three requests for two permits give one waiter behind two holders, the smallest case in which a release,
  a timeout and a cancel compete for a grant; two sources are needed for a pool that is opened while
  `close()` iterates, and two requests are enough for it (nobody waits for a permit there; that wait has a
  timeout, like the lease). A request is cancelled at most once by delivery and twice by the drain, so
  that a cancel arrives in the middle of handling another one.
- TTL 1 and max stale 2 leave a moment in which an entry is expired, stale but servable, and too old;
  time 4 lets it be reloaded and fail again after that. One loader and one waiter are enough for every
  step of the lock, and either may be cancelled.
- The clock of `runtime` passes the deadline by more than a millisecond, at which an unclamped rest
  would be negative, and halves of a millisecond tell `ceil` from `floor`.
- Row limits 1 to 4 around a batch of 2 put the limit before, on and after a batch's end with the
  sentinel on either side; byte limits cut before the first separator, between, and never.
- A catalog of two or three views passes or misses each limit by one; kinds of views differ from a
  good one in a single respect. Any two catalogs may follow each other, since a load keeps nothing of
  the one before but the connection and the accepted structure.
- In `startup` each file or variable is good or has one defect, so that a check that is missing is not
  hidden by another one; two packages and two callers are needed for a partial inventory and for
  tokens that collide. Lengths of tokens and ports are the values on either side of each bound.
- In the SQL run three levels of SELECT are an outer scope, a CTE's query and a subquery within it, and
  four SELECTs put two entries of a WITH clause beside or around a third scope.

Bounds that are not in the code: `MaxInterrupts`, `MaxTime`, `MaxSignals`, `MaxCancels`, `MaxTable`,
`MaxNodes`. Each is a guard of the action it bounds or of the initial states. Deadlock is checked for
the executor, the metadata cache and the catalog loads, where `Terminated`, the callers or the next
load keep the system live; the other modules stop when their request, statement or process is over.
Symmetry is used in the safety runs of the executor only, among requests of one source; runs with
fairness use none.

Every property of a passing run has a variant of some mapped definition, named in `PROJECT.json`,
under which the same run finds it violated.

## 4. Fairness

- `ShutdownSpec` (executor): a pending `CancelledError` is delivered (the event loop runs ready
  tasks) and the steps of `drain`/`close` are taken (their waits are timers: 10 ms polls, one-second
  `cancel_safe`, two one-second waits). Nothing is assumed of the database, so `ShutdownEnds` holds
  although a statement, a rollback or a lease never comes back. Closing a pool is taken to end, with or
  without an error: `psycopg_pool` bounds it. With an error the shutdown ends in `aborted`, the other
  pools not closed.
- `QueryFairness` (the premise of `QueryEnds`): timers fire; a granted waiter, the holder of
  `_pool_lock` and a pool's opening go on (the pool opens with `min_size` 0 and connects nothing);
  `cancel_safe` ends within its second. No statement, no lease, no rollback and no closing of a cursor is
  assumed to end. What follows is that a query that does not end is left at one of the three awaits of
  its clean-up, its deadline used up.
- `CleanUpFairness` (the further premise of its second half): `cursor.close()`, the rollback and
  the return of the connection end. The code has no timeout for them once the deadline has fired
  (hazard at `query.py:546`), and its connection settings have none for a silent
  network: this is an assumption on the network and the database, which is why it is a premise of its own.
- `MetadataCache!FairSpec`: who can have the lock takes it, a load ends (statement, pool and
  connection timeouts of the catalog reader).
- `Runtime!FairSpec`: probes end (`asyncio.timeout`), the main thread runs, uvicorn polls
  `should_exit` and leaves within `timeout_graceful_shutdown`, cleanup steps end.
- `HttpQuery!FairSpec`: handler and watcher run, a cancelled task ends (`QueryEnds`). A query that was
  not cancelled need not end.

## 5. The proofs

`tlapm` proves all eight modules. The only assumptions are the named ones of the constants, which TLC
evaluates on every run: budgets as their validator leaves them (`BudgetAssumption`,
`LimitsAssumption`, `FetchAssumption`, `PlanAssumption`), times and bounds that are naturals, finite
sets of requests and of catalog entries, a parse tree in which a SELECT comes after the one it is part
of (`TextsAssumption`), published views that have a schema (`PublishedAssumption`), joined names that are
one-to-one for the schemas with published views, whose names hold no dot (`JoinedAssumption`), and a
`None` that is none of the values it stands beside.

**QueryExecutorProofs.** `TypeCorrect` is by one lemma per request step and one for the shutdown; it
needs the fact that a grant never gives out more permits than are free (`WakeTypes`).
`PermitsAreConserved`: `sem[s] + Cardinality(Holders(s)) = MaxConcurrent[s]` is inductive together
with `TypeOK`. The heart is `WakePermits`: moving a request and waking a set `G` of waiters takes
`Cardinality(G)` permits and adds just these holders; `DisjointUnion` does the counting. Every step
that goes through a semaphore reduces to it, every other one leaves the holders of each source alone
(`SameHolders`). `ConnectionForEveryPermit` follows with `MaxConcurrent[s] <= MaxPool[s]`, which the
budget profile's validator guarantees (`source_catalog/registry.py`): who holds a permit is never
refused a connection because of other queries.

The other safety properties follow from `IInv`. Its part `Ledger` says of each call, at each await, in
which registers it is (`Listed`: `_inflight`, `_active`, the pool lock) and what its transaction, its
exception are (`Accounted`: before COMMIT a transaction is open, a call that cleans up its cursor has an
exception, one that returns its connection has committed or has rolled back); `RegistrationsExact` is read
off it, `AnswerMatchesTransaction` is proved of each step that answers from it, and so is
`OnePoolPerSource` with `Vacant`, since a pool is only opened by the lock's holder who has looked again.
`Ending` follows the shutdown: from the moment the drain cancels, a call without a connection has its
cancel pending (`Told`); whoever is in flight is among those the drain waits for (`Targeted`); in the
second wait each of them is cleaning up or about to, after it only cleaning up (`Second`, `Over`). From
there `NoLeaseAfterForce` and `LeftoversOnlyCleanUp` follow, and with the closed gate that nobody opens a
pool while `close()` iterates (`PoolsStayClosed`).

`AdmissionImplemented`: under the mapping
`AdmissionPhase` each step is an `Admit`, a `Refuse`, a `Shut`, a `HandOver` or a stutter; the limit
of `QueryAdmission` is the permits' invariant, one `HandOver` being several grants at once.

**MetadataCacheProofs.** The five properties are not inductive: how old an answer is, and whether the
health is true, depends on the times in the entry, these on when it was stored, and a postponed retry must
not reach beyond them. The inductive invariant conjoins `TypeOK`, `Dated` (an entry was loaded when its
snapshot was published and expires a TTL later), `Founded` (what is held or served is a snapshot, and
nothing is cached or served before a structure is pinned) and the five properties. `RevokedStaysOut` needs
that a rejection pops the entry in the same step, `OneStructure` that publishing compares with what is
pinned under the lock, `LoadsWhenDue` that at most the lock's holder loads. Each action has a step of its
own.

**RuntimeProofs.** Whatever interrupts the trigger, the calls above the one that set `_started` have
done nothing but look at it (`Stack`), so that one call alone sets the deadline: `DeadlineStands`. What
the trigger has begun but not done is still to be done by a call on the stack (`Promised`); the
lifespan's cleanup begins with an empty one, hence `DrainsClosedGates`. `DrainGetsTheRest` is arithmetic
on `ceil` with `Bounded` (the deadline is at most a grace away). `Attempts` says in each phase of the
cleanup what was tried and which error will be raised.

**HttpQueryProofs.** `Staged` ties the query's task and the watcher to the statement the handler is at,
`Caused` counts the cancels already given against those still to come (a handler at `await
disconnected` has one to spare). `Ends` says which outcome the task may have (an error or a result of its
own, `cancelled` only after a cancel) and `Settled` what the response may be at each await given that
outcome and who cancelled; `AnswersAreTheQuerys` follows from the two.

**SqlScopeProofs.** What a SELECT is handed down and what is declared around it are the same names
(`VisibleIsBound`). The declared names solve the equations of the recursion
(`ScopesAreHandedDown`), because the SELECTs around one are itself and those around its parent
(`AroundUnfolds`); two solutions would differ on a least SELECT, whose parent comes before it
(`ScopesAreUnique`). `NamesTellViews` is where the joined names are used: in a schema with published views
the text stands for one relation, so that what passes by name is the published view (`TablesResolve`); of
a relation of any other schema only the name is known to be that of a view (section 6). `AcceptedIsListed`
has the collected names, no more and no fewer than those of the nodes with a handler, on the lists.

**QueryStatementsProofs.** Fetch: in `FetchInv`, what is left of the batch always follows in the table on
what was kept (`Window`), that is a prefix of the table and `bytes` is its length (`Delivered`), and where
the loop stopped it had a reason (`Stopped`); an encoding error is a row within the row limit after rows
that all fit, the byte limit being looked at later (`EncodingErrorsFollowWhatFits`). The length of an
array is a sum over a sequence; the lemmas `SumsExist`, `SumsAgree` and `BytesOfAppend` say that appending
a row adds the row and its comma. Gate: `Gated` says of every statement from EXPLAIN on that the session
has all facts and no collected name was unsafe; `Walk` says that the children of each visited node are
visited or in the worklist, none both or twice, and that the count and the highest estimate are those of
the visited ones; once the worklist is empty these are all nodes (`WalkIsComplete`), since the least node
that was missed would have a parent that was not.

**CatalogReadProofs.** `Blamed` relates the exception on its way to what the load met, `Handled` says in
whose hands the connection is and what is known of it, `Queried`, `Refused` and `Shows` what the rows
and the published context are. `BlameIsRight`, `ConnectionsAreClean` and `RevisionIsEnough` follow. For
`AdmissionIsExact` the checks of the rows have to say something of the whole catalog. The query has
LIMIT `MaxColumns + 1`: if fewer rows come back than that, none was cut off (`LimitIsNotReached`); if
all of them, the catalog has too many columns. The argument takes the least row that is missing: as many
rows as the limit lie before it. `BytesAreThose` and `ValidIsAccepted` compare the sums over what was
read with those over the catalog; a sum over a finite set is a fold, which `FoldsExist` and `SumUnfolds`
unfold.

**StartupProofs.** `Inventory` follows the loop of `SourceRegistry.load`: what is loaded and what is left
are the listing, and every profile that was resolved is `Safe`; `registry` is only built with nothing
left. `Access` says of the callers read so far that their credentials are exactly those of the policy
before the one that comes next, with distinct tokens.

Only model-checked:

- liveness, for which the prover has no rules (fairness needs ENABLED): `ShutdownEnds`, `QueryEnds`,
  `Answered`, `ShutdownCompletes`, `DisconnectEnds`;
- what differs from the documents (section 6), as violated properties.

`TypeOK` of `MetadataCache`, `Runtime` and `HttpQuery` is proved and is no run's property.

## 6. What differs from the documents

- `docs/operations.md:107` says that what is left at the end of the grace is cancelled and that the
  pools are closed after its transactions were rolled back. `_cancel_inflight` (`query.py:406-426`)
  waits for the cancelled queries at most twice one second; `close()` then closes the pools anyway.
  `rollback_before_pools` shows a transaction still open when that happens: its rollback has not come
  back. `LeftoversOnlyCleanUp` says what does hold: such a query only cleans up.
- `docs/modules/runtime/README.md:36` and `docs/decisions/0035-reviewed-source-package-inventory.md`
  say that the runtime does not become ready when the live admission of one source fails.
  `_probe_registered_sources` (`composition.py:184-187`) records the failure and goes on;
  `public_status` is "degraded" and `/ready` answers 200.
  `Runtime` has it so (`ProbeEnds`), without a run of its own. `ReadyMeansUsable` says what does hold: one
  of the sources can answer.
- `docs/modules/delivery/README.md:19` (and `README.md:56` of the repository) say that a start on an
  address that is not loopback is refused without an API token or an access policy. An access policy
  setting that is present but empty counts as configured in that check (`runtime/config.py:105-119`) and
  is turned into `None` afterwards (line 137), so that `build_app` chooses the local policy;
  `anonymous_remote` shows it. An empty API token is dropped before the check. `TokenNamesItsCaller`
  says what does hold: the local caller exists only if no token is configured.
- `docs/decisions/0001-postgresql-ast-validation.md:31` says that relations are allowed by their
  schema-qualified name and compared with the published catalog. `_validate_range_var`
  (`sql_validation.py:424-425`) compares the joined text: with `reporting."eu.sales"` published,
  `"reporting.eu".sales` is accepted.
  `SqlScope` has it so, without a run of its own. `OnlyViewsAndCtes` says what does hold:
  in a schema with published views nothing else passes. The reader's grants decide on the rest.
- Line 33 of the same document says that operators are on an allowlist, and
  `docs/decisions/0003-reader-and-resolved-object-policy.md:21` that their candidates are looked up
  before planning. `SubLink` (`x op ANY (SELECT ..)`) and `SortBy` (`ORDER BY .. USING op`) are allowed
  tags without a handler; `unexamined_operators` shows such a statement accepted. `ObjectsAreCollected`
  says what does hold: functions, and the operators of expressions.

`docs/decisions/0002-guarded-query-contract.md:36` (a row that crosses the byte limit is omitted and sets
`truncated`) says nothing of a row that has no length. The code encodes before it compares, so that such
a row fails the query even where no row would fit any more; `FailsForItsRows` states that order.

## 7. What is not modelled

- The database, `psycopg`, `psycopg_pool`, uvicorn, Starlette and the SQL parser, except for what the
  code relies on (definitions marked external in `PROJECT.json`). In particular a `psycopg` await that is
  cancelled raises `CancelledError` at once in the model; the library's own short wait for the server's
  cancel is not a state.
- Wording, logging, redaction, counters, audit records; the contents of the SQL allowlists; hashes.
- The single numeric ranges of the budget and manifest models, other than those that decide a relation
  (pool size, concurrency, ports, token lengths): a file is valid or not.
- The pool lock of the catalog reader between sources, and a load that is still leaving its pool while
  `close()` runs; the routes that only read state (`/sources`, `/admin/*`, `/health`).
- Scripts, skills, local database, tests.

Hazards without a property have a note in `PROJECT.json`: metadata may be republished or revoked between
the comparison of the revisions and the query, which the code allows by design; the catalog's pools may be
opened during or after their `close()`. Known, and no more than a
matter of what is intended: a failing `cancel_safe` turns a timeout into an unavailable source; there
is no backoff without an entry to serve; an unavailable query health needs a query to recover, which
readiness may keep away; an outage while the catalog session's settings are applied withdraws the
snapshot like a refusal (`RefusalsStick` has that exception).

## 8. Plan

1. Done: executor with its abstract specification, the statements of its transaction, metadata cache,
   catalog loads, runtime, startup, delivery, SQL scope; every safety property of the runs is proved.
2. An abstract load (one outcome per load) that `CatalogRead` implements and `MetadataCache` uses, and
   the catalog's pools of several sources with `close()` against loads that are still leaving.
3. A composition of delivery, metadata cache and executor, so that a revision's check, the wait for a
   permit and a revocation interleave; `HttpQuery` as its abstract view.
4. An abstract shutdown specification (gates, drain, close) that `Runtime` and `QueryExecutor`
   implement together, with the implementation proved step by step as `AdmissionImplemented` is.
