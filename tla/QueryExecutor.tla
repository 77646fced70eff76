--------------------------- MODULE QueryExecutor ---------------------------
(***************************************************************************)
(* PostgresQueryExecutor (guarded_query/query.py): the life of each        *)
(* execute() call from admission to the release of its permit, and the     *)
(* drain and close that end them all.                                      *)
(*                                                                         *)
(* The process is one asyncio thread, so the code between two awaits is    *)
(* one step.  pc[r] is the await a request's task is suspended at.  The    *)
(* bodies under _active_lock contain no await, so that lock is never       *)
(* contended and adds no step.  Task.cancel() is only a mark (pending):    *)
(* the task's next step is then the CancelledError at its await.           *)
(***************************************************************************)
EXTENDS Naturals, FiniteSets

CONSTANTS
    Requests,       \* calls of execute(), each by a task of its own
    Sources,        \* reviewed sources
    SourceOf,       \* the source a request queries
    MaxConcurrent,  \* budget.max_concurrent_queries of each source
    MaxPool,        \* budget.max_pool_size of each source
    MaxInterrupts,  \* bound on the cancels the HTTP layer issues
    None            \* nobody holds _pool_lock

ASSUME RequestsAssumption == IsFiniteSet(Requests) /\ None \notin Requests
ASSUME SourceAssumption == SourceOf \in [Requests -> Sources]
\* The budget profile's validator: 1 <= max_concurrent_queries <= max_pool_size.
ASSUME BudgetAssumption ==
    /\ MaxConcurrent \in [Sources -> Nat \ {0}]
    /\ MaxPool \in [Sources -> Nat \ {0}]
    /\ \A s \in Sources : MaxConcurrent[s] <= MaxPool[s]
ASSUME InterruptsAssumption == MaxInterrupts \in Nat

VARIABLES
    \* one value per request
    pc,          \* the await its task is suspended at
    pending,     \* cancel() was called and is not delivered yet
    timer,       \* the deadline of the current asyncio timeout has fired
    ext,         \* some cancel() came from outside that timeout
    exc,         \* the exception that is leaving _execute_connection
    txn,         \* the transaction on its connection
    ahead,       \* who was in the semaphore's queue when it joined
    result,      \* what execute() returned or raised
    \* the executor
    accepting,   \* _accepting
    inflight,    \* _inflight
    active,      \* _active: the requests registered with a connection
    sem,         \* _semaphores: free permits of each source
    pools,       \* _pools: the sources with a pool
    lock,        \* _pool_lock
    health,      \* the query health published to operations
    \* drain() and close()
    shut,        \* where the shutdown is
    targets,     \* the tasks _cancel_inflight was given
    last,        \* the current _cancel_inflight is close()'s last word
    closing,     \* the keys of _pools when close() began to iterate
    closedPools, \* pools that have been closed
    \* the environment
    interrupts   \* cancels issued so far by the HTTP layer

taskVars == <<pc, pending, timer, ext, exc, ahead, result, inflight, sem>>
dataVars == <<txn, active, health>>
poolVars == <<pools, lock>>
shutVars == <<accepting, shut, targets, last, closing, closedPools>>
vars == <<taskVars, dataVars, poolVars, shutVars, interrupts>>

-----------------------------------------------------------------------------
(* Phases of a request.                                                    *)

Statements == {"session", "plan", "fetch", "commit"}  \* awaits of the transaction
Registered == Statements \union {"cursorclose", "cancelsafe", "rollback"}
Leasing    == Registered \union {"closing", "return"}  \* inside pool.connection()

Timed_LeaseOnly == {"lease", "queued", "granted"}  \* variant: no deadline for the transaction

Timed      == Leasing \union {"lease", "queued", "granted"}  \* under a timeout
Permitted  == Leasing \union {"granted", "poollock", "poolopen", "lease"}
Pcs        == Permitted \union {"new", "queued", "done"}

Faults  == {"rejected", "canceled", "db", "other"}
Results == {"ok", "rejected", "overloaded", "timeout", "unavailable", "interrupted"}
Shuts   == {"run", "drain", "gather", "wait1", "wait2", "drained", "forced",
            "pools", "closed", "aborted"}

On(s)      == {r \in Requests : SourceOf[r] = s}
Holders(s) == {r \in On(s) : pc[r] \in Permitted}
Leased(s)  == {r \in On(s) : pc[r] \in Leasing}
Waiting(s) == {r \in On(s) : pc[r] = "queued" /\ ~pending[r]}
Ready(r)   == ~pending[r]

Init ==
    /\ pc = [r \in Requests |-> "new"]
    /\ pending = [r \in Requests |-> FALSE]
    /\ timer = [r \in Requests |-> FALSE]
    /\ ext = [r \in Requests |-> FALSE]
    /\ exc = [r \in Requests |-> "none"]
    /\ txn = [r \in Requests |-> "none"]
    /\ ahead = [r \in Requests |-> {}]
    /\ result = [r \in Requests |-> "none"]
    /\ accepting = TRUE
    /\ inflight = {}
    /\ active = {}
    /\ sem = MaxConcurrent
    /\ pools = {}
    /\ lock = None
    /\ health = [s \in Sources |-> "healthy"]
    /\ shut = "run"
    /\ targets = {}
    /\ last = FALSE
    /\ closing = {}
    /\ closedPools = {}
    /\ interrupts = 0

-----------------------------------------------------------------------------
(* asyncio.Semaphore (CPython): first come, first served.                  *)

Locked(s) ==
    \/ sem[s] = 0
    \/ \E r \in On(s) : pc[r] = "granted" \/ r \in Waiting(s)

(* Who is woken when free permits are on offer: the head of the queue, as  *)
(* many as there are permits.                                              *)
Woken(s, free) ==
    {G \in SUBSET Waiting(s) :
        /\ Cardinality(G) <= free
        /\ G = Waiting(s) \/ Cardinality(G) = free
        /\ \A r \in G : ahead[r] \intersect Waiting(s) \subseteq G}

(* r goes to its next await while the free permits are offered around.     *)
MoveAndWake(r, to, free) ==
    LET s == SourceOf[r] IN
    \E G \in Woken(s, free) :
        /\ sem' = [sem EXCEPT ![s] = free - Cardinality(G)]
        /\ pc' = [q \in Requests |->
                    IF q = r THEN to ELSE IF q \in G THEN "granted" ELSE pc[q]]

(* semaphore.release(), or acquire() giving back what it was granted.      *)
Freed_GrantIsLost(r) ==  \* variant: a permit granted to a cancelled waiter is lost
    IF pc[r] \in {"queued", "granted"} THEN 0 ELSE 1

Freed(r) == IF pc[r] = "queued" THEN 0 ELSE 1

(* The end of execute(): semaphore.release() if r holds a permit, then     *)
(* _inflight.discard; the frame's locals are gone.  The connection is back *)
(* in its pool, which rolls back what was left open.                       *)
End(r, outcome) ==
    /\ MoveAndWake(r, "done", sem[SourceOf[r]] + Freed(r))
    /\ result' = [result EXCEPT ![r] = outcome]
    /\ inflight' = inflight \ {r}
    /\ pending' = [pending EXCEPT ![r] = FALSE]
    /\ timer' = [timer EXCEPT ![r] = FALSE]
    /\ ext' = [ext EXCEPT ![r] = FALSE]
    /\ exc' = [exc EXCEPT ![r] = "none"]
    /\ ahead' = [ahead EXCEPT ![r] = {}]
    /\ txn' = [txn EXCEPT ![r] = "none"]

(* A task that only moves on to its next await.                            *)
Move(r, to) ==
    /\ pc' = [pc EXCEPT ![r] = to]
    /\ UNCHANGED <<timer, ext, ahead, result, inflight, sem>>

Unavailable(r) == health' = [health EXCEPT ![SourceOf[r]] = "unavailable"]

-----------------------------------------------------------------------------
(* _get_pool: the fast path, the lock, or the wait for it.                 *)

LockFree == lock = None /\ ~\E r \in Requests : pc[r] = "poollock" /\ Ready(r)

AfterPermit(r) ==
    IF SourceOf[r] \in pools THEN "lease"
    ELSE IF LockFree THEN "poolopen" ELSE "poollock"

TakeLock(r) == lock' = IF AfterPermit(r) = "poolopen" THEN r ELSE lock

(* execute() refuses while the executor is stopped.                        *)
Turned(r) ==
    /\ pc' = [pc EXCEPT ![r] = "done"]
    /\ result' = [result EXCEPT ![r] = "unavailable"]
    /\ UNCHANGED <<pending, timer, ext, exc, ahead, sem,
                   dataVars, poolVars, shutVars, interrupts>>

Refuse_Registered(r) ==  \* variant: _inflight.add before the check, outside the try
    /\ pc[r] = "new" /\ ~accepting
    /\ Turned(r)
    /\ inflight' = inflight \union {r}

Refuse(r) ==
    /\ pc[r] = "new" /\ ~accepting
    /\ Turned(r)
    /\ UNCHANGED inflight

(* Otherwise it registers the task and asks for a permit.                  *)
Register(r) ==
    LET s == SourceOf[r] IN
    /\ inflight' = inflight \union {r}
    /\ \/ /\ Locked(s)
          /\ pc' = [pc EXCEPT ![r] = "queued"]
          /\ ahead' = [ahead EXCEPT ![r] = Waiting(s)]
          /\ UNCHANGED <<sem, lock>>
       \/ /\ ~Locked(s)
          /\ sem' = [sem EXCEPT ![s] = @ - 1]
          /\ pc' = [pc EXCEPT ![r] = AfterPermit(r)]
          /\ TakeLock(r)
          /\ UNCHANGED ahead
    /\ UNCHANGED <<pending, timer, ext, exc, result, pools,
                   dataVars, shutVars, interrupts>>

Admit_Ungated(r) ==  \* variant: no check of _accepting
    pc[r] = "new" /\ Register(r)

Admit(r) == pc[r] = "new" /\ accepting /\ Register(r)

(* A woken waiter resumes, and wakes others if permits are left.           *)
Resume(r) ==
    /\ pc[r] = "granted" /\ Ready(r)
    /\ MoveAndWake(r, AfterPermit(r), sem[SourceOf[r]])
    /\ TakeLock(r)
    /\ ahead' = [ahead EXCEPT ![r] = {}]
    /\ UNCHANGED <<pending, timer, ext, exc, result, inflight, pools,
                   dataVars, shutVars, interrupts>>

(* The holder of _pool_lock looks again before it opens a pool.            *)
LockPools_NoSecondLook(r) ==  \* variant: the check is not repeated under the lock
    /\ pc[r] = "poollock" /\ Ready(r) /\ lock = None
    /\ Move(r, "poolopen") /\ lock' = r
    /\ UNCHANGED <<pending, exc, pools, dataVars, shutVars, interrupts>>

LockPools(r) ==
    /\ pc[r] = "poollock" /\ Ready(r) /\ lock = None
    /\ IF SourceOf[r] \in pools
         THEN Move(r, "lease") /\ UNCHANGED lock
         ELSE Move(r, "poolopen") /\ lock' = r
    /\ UNCHANGED <<pending, exc, pools, dataVars, shutVars, interrupts>>

PoolOpened(r) ==
    /\ pc[r] = "poolopen" /\ Ready(r)
    /\ Move(r, "lease")
    /\ pools' = pools \union {SourceOf[r]}
    /\ lock' = None
    /\ UNCHANGED <<pending, exc, dataVars, shutVars, interrupts>>

PoolOpenFails_KeepsLock(r) ==  \* variant: acquire and release without a finally
    /\ pc[r] = "poolopen" /\ Ready(r)
    /\ End(r, "unavailable")
    /\ UNCHANGED <<lock, pools, active, health, shutVars, interrupts>>

PoolOpenFails(r) ==
    /\ pc[r] = "poolopen" /\ Ready(r)
    /\ End(r, "unavailable")
    /\ lock' = None
    /\ UNCHANGED <<pools, active, health, shutVars, interrupts>>

-----------------------------------------------------------------------------
(* The leased connection and the transaction on it.                        *)

(* pool.connection() yields.  A connection that meets the reader policy is *)
(* registered in _active and BEGIN is sent; any other is closed.           *)
Lease(r) ==
    LET s == SourceOf[r] IN
    /\ pc[r] = "lease" /\ Ready(r)
    /\ s \notin closedPools /\ Cardinality(Leased(s)) < MaxPool[s]
    /\ \/ /\ Move(r, "session")
          /\ active' = active \union {r}
          /\ txn' = [txn EXCEPT ![r] = "open"]
          /\ UNCHANGED exc
       \/ /\ Move(r, "closing")
          /\ exc' = [exc EXCEPT ![r] = "db"]
          /\ UNCHANGED <<active, txn>>
    /\ UNCHANGED <<pending, health, poolVars, shutVars, interrupts>>

(* PoolTimeout, a closed pool, or no connection to be had.                 *)
LeaseFails(r) ==
    /\ pc[r] = "lease" /\ Ready(r)
    /\ End(r, "unavailable")
    /\ Unavailable(r)
    /\ UNCHANGED <<active, poolVars, shutVars, interrupts>>

PolicyClosed(r) ==
    /\ pc[r] = "closing" /\ Ready(r)
    /\ Move(r, "return")
    /\ UNCHANGED <<pending, exc, dataVars, poolVars, shutVars, interrupts>>

Following == [session |-> "plan", plan |-> "fetch", fetch |-> "cursorclose"]

(* Session settings, policy and object checks; EXPLAIN and the plan limits;*)
(* the cursor: each phase ends before the next statement is sent.  The     *)
(* cursor is closed in a finally, whatever ended the fetch.                *)
Advance(r) ==
    /\ pc[r] \in DOMAIN Following /\ Ready(r)
    /\ Move(r, Following[pc[r]])
    /\ UNCHANGED <<pending, exc, dataVars, poolVars, shutVars, interrupts>>

(* cursor.close() returned, or failed and was passed over: what follows    *)
(* depends on the exception that waits behind the finally.                 *)
AfterCursor(r) ==
    CASE exc[r] = "none"      -> "commit"
      [] exc[r] = "cancelled" -> "cancelsafe"
      [] OTHER                -> "rollback"

CursorClosed(r) ==
    /\ pc[r] = "cursorclose" /\ Ready(r)
    /\ Move(r, AfterCursor(r))
    /\ UNCHANGED <<pending, exc, dataVars, poolVars, shutVars, interrupts>>

Commit(r) ==
    /\ pc[r] = "commit" /\ Ready(r)
    /\ Move(r, "return")
    /\ txn' = [txn EXCEPT ![r] = "committed"]
    /\ health' = [health EXCEPT ![SourceOf[r]] = "healthy"]
    /\ active' = active \ {r}
    /\ UNCHANGED <<pending, exc, poolVars, shutVars, interrupts>>

(* A COMMIT that is not answered may have taken effect on the server.      *)
Unanswered(r) ==
    \/ UNCHANGED txn
    \/ pc[r] = "commit" /\ txn' = [txn EXCEPT ![r] = "committed"]

(* Any exception but CancelledError goes to _rollback_quietly.  COMMIT     *)
(* cannot be the caller's fault.                                           *)
Fail_KeepsTransaction(r) ==  \* variant: the exception leaves without a rollback
    /\ pc[r] \in Statements /\ Ready(r)
    /\ exc' = [exc EXCEPT ![r] = "rejected"]
    /\ Move(r, "return")
    /\ active' = active \ {r}
    /\ UNCHANGED <<pending, txn, health, poolVars, shutVars, interrupts>>

Fail(r) ==
    /\ pc[r] \in Statements /\ Ready(r)
    /\ \E e \in IF pc[r] = "commit" THEN Faults \ {"rejected"} ELSE Faults :
          exc' = [exc EXCEPT ![r] = e]
    /\ Move(r, IF pc[r] = "fetch" THEN "cursorclose" ELSE "rollback")
    /\ Unanswered(r)
    /\ UNCHANGED <<pending, active, health, poolVars, shutVars, interrupts>>

(* rollback() returned, or failed quietly: the connection is then broken   *)
(* and its transaction with it.                                            *)
RolledBack(r) ==
    /\ pc[r] = "rollback" /\ Ready(r)
    /\ Move(r, "return")
    /\ txn' = [txn EXCEPT ![r] = IF @ = "open" THEN "rolledback" ELSE @]
    /\ active' = active \ {r}
    /\ UNCHANGED <<pending, exc, health, poolVars, shutVars, interrupts>>

(* cancel_safe(timeout=1) of the CancelledError handler.                   *)
CancelSafe(r) ==
    /\ pc[r] = "cancelsafe" /\ Ready(r)
    /\ Move(r, "rollback")
    /\ UNCHANGED <<pending, exc, dataVars, poolVars, shutVars, interrupts>>

(* When it raises, the handler is left before its rollback.                *)
CancelSafeFails_StaysActive(r) ==  \* variant: _active.pop is not in a finally
    /\ pc[r] = "cancelsafe" /\ Ready(r)
    /\ Move(r, "return")
    /\ exc' = [exc EXCEPT ![r] = "db"]
    /\ UNCHANGED <<pending, dataVars, poolVars, shutVars, interrupts>>

CancelSafeFails(r) ==
    /\ pc[r] = "cancelsafe" /\ Ready(r)
    /\ Move(r, "return")
    /\ exc' = [exc EXCEPT ![r] = "db"]
    /\ active' = active \ {r}
    /\ UNCHANGED <<pending, txn, health, poolVars, shutVars, interrupts>>

(* A CancelledError that reaches the edge of the timeout, then execute().  *)
Cancelled(r) ==
    IF timer[r] /\ ~ext[r]
      THEN IF pc[r] \in {"queued", "granted"} THEN "overloaded" ELSE "timeout"
      ELSE IF accepting THEN "interrupted" ELSE "unavailable"

Raised_Unhidden(r) ==  \* variant: other exceptions leave execute() as they are
    CASE exc[r] = "none"      -> "ok"
      [] exc[r] = "cancelled" -> Cancelled(r)
      [] OTHER                -> exc[r]

(* What execute() raises or returns once the connection is back.           *)
Raised(r) ==
    CASE exc[r] = "none"      -> "ok"
      [] exc[r] = "rejected"  -> "rejected"
      [] exc[r] = "canceled"  -> "timeout"
      [] exc[r] = "cancelled" -> Cancelled(r)
      [] OTHER                -> "unavailable"

(* The context of pool.connection() is left.                               *)
Return(r) ==
    /\ pc[r] = "return" /\ Ready(r)
    /\ End(r, Raised(r))
    /\ IF exc[r] = "db" THEN Unavailable(r) ELSE UNCHANGED health
    /\ UNCHANGED <<active, poolVars, shutVars, interrupts>>

-----------------------------------------------------------------------------
(* Cancellation: who asks for it, and where it is delivered.               *)

(* The queue timeout or the transaction timeout fires, once.               *)
Timer(r) ==
    /\ pc[r] \in Timed /\ ~timer[r]
    /\ timer' = [timer EXCEPT ![r] = TRUE]
    /\ pending' = [pending EXCEPT ![r] = TRUE]
    /\ UNCHANGED <<pc, ext, exc, ahead, result, inflight, sem,
                   dataVars, poolVars, shutVars, interrupts>>

(* The HTTP layer cancels the task: the client has gone.                   *)
Interrupt(r) ==
    /\ pc[r] \notin {"new", "done"} /\ interrupts < MaxInterrupts
    /\ interrupts' = interrupts + 1
    /\ ext' = [ext EXCEPT ![r] = TRUE]
    /\ pending' = [pending EXCEPT ![r] = TRUE]
    /\ UNCHANGED <<pc, timer, exc, ahead, result, inflight, sem,
                   dataVars, poolVars, shutVars>>

(* Before there is a lease the task ends: waiting for the semaphore (a     *)
(* permit already granted goes back), for the pool or for a connection.    *)
CancelUnleased(r) ==
    /\ pending[r] /\ pc[r] \in {"queued", "granted", "poollock", "poolopen", "lease"}
    /\ End(r, Cancelled(r))
    /\ lock' = IF pc[r] = "poolopen" THEN None ELSE lock
    /\ UNCHANGED <<pools, active, health, shutVars, interrupts>>

Delivered(r, to) ==
    /\ Move(r, to)
    /\ pending' = [pending EXCEPT ![r] = FALSE]
    /\ exc' = [exc EXCEPT ![r] = "cancelled"]

CancelClosing(r) ==
    /\ pending[r] /\ pc[r] = "closing"
    /\ Delivered(r, "return")
    /\ UNCHANGED <<dataVars, poolVars, shutVars, interrupts>>

(* CancelledError passes `except Exception': it leaves cursor.close() too. *)
CancelStatement(r) ==
    /\ pending[r] /\ pc[r] \in Statements \union {"cursorclose"}
    /\ Delivered(r, IF pc[r] = "fetch" THEN "cursorclose" ELSE "cancelsafe")
    /\ Unanswered(r)
    /\ UNCHANGED <<active, health, poolVars, shutVars, interrupts>>

(* A second cancel inside a handler leaves it before its rollback is done. *)
CancelCleanup(r) ==
    /\ pending[r] /\ pc[r] \in {"cancelsafe", "rollback"}
    /\ Delivered(r, "return")
    /\ active' = active \ {r}
    /\ UNCHANGED <<txn, health, poolVars, shutVars, interrupts>>

CancelReturn(r) ==
    /\ pending[r] /\ pc[r] = "return"
    /\ End(r, Cancelled(r))
    /\ UNCHANGED <<active, health, poolVars, shutVars, interrupts>>

Deliver(r) ==
    \/ CancelUnleased(r) \/ CancelClosing(r) \/ CancelStatement(r)
    \/ CancelCleanup(r) \/ CancelReturn(r)

-----------------------------------------------------------------------------
(* The drain and the close.                                                *)

unlessShut == <<taskVars, dataVars, poolVars, interrupts>>

(* The signal handler: _ShutdownTrigger calls stop_accepting().            *)
StopAccepting ==
    /\ shut = "run" /\ accepting
    /\ accepting' = FALSE
    /\ UNCHANGED <<shut, targets, last, closing, closedPools, unlessShut>>

(* drain() begins; so does a close() of an executor nobody has stopped,    *)
(* which drains with no grace and then goes on to the pools.               *)
Drain ==
    /\ shut = "run"
    /\ \E l \in IF accepting THEN BOOLEAN ELSE {FALSE} : last' = l
    /\ accepting' = FALSE
    /\ shut' = "drain"
    /\ UNCHANGED <<targets, closing, closedPools, unlessShut>>

(* close() takes the keys of _pools and closes one pool after the other.   *)
BeginPools == shut' = "pools" /\ closing' = pools

Finish(how) ==
    IF last THEN BeginPools ELSE shut' = how /\ UNCHANGED closing

(* A poll finds nothing in flight.                                         *)
DrainEmpty ==
    /\ shut = "drain" /\ inflight = {}
    /\ Finish("drained")
    /\ UNCHANGED <<accepting, targets, last, closedPools, unlessShut>>

Unregistered_QueueOnly ==  \* variant: only the tasks in the queue are cancelled
    {r \in inflight : pc[r] = "queued"}

Unregistered == inflight \ active

(* _cancel_inflight: every task without a registered connection is told to *)
(* cancel; the statements of the others are cancelled on the server.       *)
CancelInflight ==
    /\ targets' = inflight
    /\ pending' = [r \in Requests |-> pending[r] \/ r \in Unregistered]
    /\ ext' = [r \in Requests |-> ext[r] \/ r \in Unregistered]
    /\ shut' = "gather"
    /\ UNCHANGED <<pc, timer, exc, ahead, result, inflight, sem,
                   dataVars, poolVars, accepting, closing, closedPools, interrupts>>

(* A poll finds the grace used up.                                         *)
DrainDeadline ==
    /\ shut = "drain" /\ inflight # {}
    /\ CancelInflight
    /\ UNCHANGED last

(* The cancel_safe calls, bounded to a second each, have all come back.    *)
Gathered ==
    /\ shut = "gather"
    /\ shut' = "wait1"
    /\ UNCHANGED <<accepting, targets, last, closing, closedPools, unlessShut>>

(* asyncio.wait: every task given has ended.                               *)
WaitDone ==
    /\ shut \in {"wait1", "wait2"} /\ targets \intersect inflight = {}
    /\ Finish("forced")
    /\ UNCHANGED <<accepting, targets, last, closedPools, unlessShut>>

(* A cancel is delivered on the loop's next turn, long before the second a *)
(* wait allows is over.                                                    *)
Settled == \A r \in Requests : ~pending[r]

(* The first second is over: the tasks that are left are cancelled.        *)
Stuck_GivenUp == {}  \* variant: nobody cancels what the server did not

Stuck == targets \intersect inflight

FirstWaitOver ==
    /\ shut = "wait1" /\ targets \intersect inflight # {} /\ Settled
    /\ pending' = [r \in Requests |-> pending[r] \/ r \in Stuck]
    /\ ext' = [r \in Requests |-> ext[r] \/ r \in Stuck]
    /\ shut' = "wait2"
    /\ UNCHANGED <<pc, timer, exc, ahead, result, inflight, sem, dataVars, poolVars,
                   accepting, targets, last, closing, closedPools, interrupts>>

(* So is the second one, and nobody waits any longer.                      *)
SecondWaitOver_Never == FALSE  \* variant: the last wait has no timeout

SecondWaitOver ==
    /\ shut = "wait2" /\ targets \intersect inflight # {} /\ Settled
    /\ Finish("forced")
    /\ UNCHANGED <<accepting, targets, last, closedPools, unlessShut>>

(* close() after drain(): a last _cancel_inflight if anything is left.     *)
Close ==
    /\ shut \in {"drained", "forced"}
    /\ last' = TRUE
    /\ \/ /\ inflight = {}
          /\ BeginPools
          /\ UNCHANGED <<accepting, targets, closedPools, unlessShut>>
       \/ /\ inflight # {}
          /\ CancelInflight

(* The loop over _pools does not go on (RuntimeError) once a pool has been *)
(* added to the dict meanwhile.                                            *)
Mutated == pools # closing

ClosePool(s) ==
    /\ shut = "pools" /\ s \in closing \ closedPools /\ ~Mutated
    /\ closedPools' = closedPools \union {s}
    /\ UNCHANGED <<accepting, shut, targets, last, closing, unlessShut>>

(* pool.close() raises: the loop ends, the pools are not cleared.          *)
ClosePoolFails(s) ==
    /\ shut = "pools" /\ s \in closing \ closedPools /\ ~Mutated
    /\ shut' = "aborted"
    /\ UNCHANGED <<accepting, targets, last, closing, closedPools, unlessShut>>

ClosedAll ==
    /\ shut = "pools" /\ closing \subseteq closedPools /\ ~Mutated
    /\ shut' = "closed"
    /\ pools' = {}
    /\ UNCHANGED <<accepting, targets, last, closing, closedPools,
                   taskVars, dataVars, lock, interrupts>>

(* Everything has ended.                                                   *)
Terminated ==
    /\ shut \in {"closed", "aborted"} /\ \A r \in Requests : pc[r] = "done"
    /\ UNCHANGED vars

-----------------------------------------------------------------------------
Request(r) ==
    \/ Refuse(r) \/ Admit(r) \/ Resume(r)
    \/ LockPools(r) \/ PoolOpened(r) \/ PoolOpenFails(r)
    \/ Lease(r) \/ LeaseFails(r) \/ PolicyClosed(r)
    \/ Advance(r) \/ CursorClosed(r) \/ Fail(r) \/ Commit(r) \/ RolledBack(r)
    \/ CancelSafe(r) \/ CancelSafeFails(r) \/ Return(r)
    \/ Timer(r) \/ Interrupt(r) \/ Deliver(r)

Shutdown ==
    \/ DrainEmpty \/ DrainDeadline \/ Gathered
    \/ WaitDone \/ FirstWaitOver \/ SecondWaitOver \/ Close
    \/ ClosedAll
    \/ \E s \in Sources : ClosePool(s) \/ ClosePoolFails(s)

Next ==
    \/ \E r \in Requests : Request(r)
    \/ StopAccepting \/ Drain \/ Shutdown
    \/ Terminated

Spec == Init /\ [][Next]_vars

(* What the event loop and its timers guarantee a shutdown.  Nothing is    *)
(* assumed of the database: a statement, a rollback or a lease may take    *)
(* for ever.                                                               *)
LoopFairness == \A r \in Requests : WF_vars(Deliver(r))
ShutdownSpec == Spec /\ LoopFairness /\ WF_vars(Shutdown)

(* What drives a query besides: the timers, the locks, the opening of a    *)
(* pool, and the one-second cancel.  No statement need ever be answered,   *)
(* and no connection need ever be leased.                                  *)
Driven(r) ==
    \/ Timer(r) \/ Resume(r) \/ LockPools(r) \/ PoolOpened(r) \/ PoolOpenFails(r)
    \/ CancelSafe(r) \/ CancelSafeFails(r)

QueryFairness == \A r \in Requests : WF_vars(Driven(r))

(* The awaits of the clean-up.  The deadline of the transaction fires once;*)
(* the cleaning up after it has no timeout of its own, nor has the code a  *)
(* TCP timeout for it.  That it ends is an assumption about the network    *)
(* and the database.                                                       *)
Untimed == {"cursorclose", "rollback", "return"}

CleanUpFairness ==
    \A r \in Requests : WF_vars(CursorClosed(r) \/ RolledBack(r) \/ Return(r))

-----------------------------------------------------------------------------
(* Correctness.                                                            *)

(* The variables stay in their domains; a semaphore never holds more       *)
(* permits than the budget gave it.                                        *)
TypeOK ==
    /\ pc \in [Requests -> Pcs]
    /\ pending \in [Requests -> BOOLEAN]
    /\ timer \in [Requests -> BOOLEAN]
    /\ ext \in [Requests -> BOOLEAN]
    /\ exc \in [Requests -> Faults \union {"none", "cancelled"}]
    /\ txn \in [Requests -> {"none", "open", "committed", "rolledback"}]
    /\ ahead \in [Requests -> SUBSET Requests]
    /\ result \in [Requests -> Results \union {"none"}]
    /\ accepting \in BOOLEAN
    /\ inflight \subseteq Requests
    /\ active \subseteq Requests
    /\ sem \in [Sources -> Nat]
    /\ pools \subseteq Sources
    /\ lock \in Requests \union {None}
    /\ health \in [Sources -> {"healthy", "unavailable"}]
    /\ shut \in Shuts
    /\ targets \subseteq Requests
    /\ last \in BOOLEAN
    /\ closing \subseteq Sources
    /\ closedPools \subseteq Sources
    /\ interrupts \in 0..MaxInterrupts

(* A permit is free or held by exactly one request, whatever cancel, grant *)
(* and timeout do to each other: _execute_admitted's finally.              *)
PermitsConserved ==
    \A s \in Sources : sem[s] + Cardinality(Holders(s)) = MaxConcurrent[s]

(* A request that holds a permit and waits for a connection finds one the  *)
(* pool may still lease: PoolTimeout is never the work of other queries.   *)
ConnectionForPermit ==
    \A s \in Sources :
        Cardinality(Leased(s) \union {r \in On(s) : pc[r] = "lease"}) <= MaxPool[s]

(* _inflight is the set of calls that have begun and not ended.            *)
InflightExact == inflight = {r \in Requests : pc[r] \notin {"new", "done"}}

(* _active holds a connection only while its request leases it.            *)
ActiveOwnsLease == active = {r \in Requests : pc[r] \in Registered}

(* The registries are exact: the drain polls and cancels all that has      *)
(* begun and not ended, and a server-side cancel cannot hit the query of   *)
(* the connection's next user.                                             *)
RegistrationsExact == InflightExact /\ ActiveOwnsLease

(* _get_pool never opens a second pool for a source that has one: the      *)
(* first would be lost with its connections.                               *)
OnePoolPerSource ==
    \A r \in Requests : pc[r] = "poolopen" => SourceOf[r] \notin pools /\ lock = r

(* What the code tells the caller agrees with the transaction: success     *)
(* only after a COMMIT, a refusal never after one, overload only before    *)
(* the database was reached; and the connection of a query that failed goes*)
(* back after a rollback was tried.  A timeout, an interruption or an      *)
(* unavailable source says nothing: the COMMIT of the read-only transaction*)
(* may have taken effect unheard.                                          *)
Agrees(r, answer) ==
    /\ answer = "ok" => txn[r] = "committed"
    /\ answer = "overloaded" => txn[r] = "none"
    /\ answer = "rejected" => txn[r] = "rolledback"
    /\ exc[r] \in {"rejected", "canceled", "other"} => txn[r] # "open"

AnswerMatchesTransaction ==
    [][\A r \in Requests : result'[r] # result[r] => Agrees(r, result'[r])]_vars

Forcing == shut \notin {"run", "drain"}

(* Once the drain has cancelled what is in flight, or found nothing, no    *)
(* query gets a connection any more: the statements being cancelled are    *)
(* the last ones, and cancel_safe, called for a snapshot of _active, meets *)
(* no query that leased one of these connections since.                    *)
NoLeaseAfterForce ==
    [][Forcing => \A r \in Requests : pc'[r] \in Leasing => pc[r] \in Leasing]_vars

(* When the pools are closed, the queries that are left only clean up: none*)
(* waits for a permit, a pool, a connection or a statement of its own.     *)
Cleaning(r) ==
    \/ pc[r] \in {"cancelsafe", "rollback", "return"}
    \/ pc[r] = "cursorclose" /\ exc[r] # "none"

LeftoversOnlyCleanUp ==
    shut \in {"pools", "closed", "aborted"} =>
        \A r \in inflight : Cleaning(r) \/ pending[r]

(* close() closes every pool: none is added while it iterates over _pools, *)
(* and none is opened behind its back.                                     *)
PoolsStayClosed ==
    /\ shut = "pools" => ~Mutated
    /\ shut = "closed" => pools = {} /\ \A r \in Requests : pc[r] # "poolopen"

(* docs/operations.md: what is left is cancelled, and the pools are closed *)
(* after its transactions were rolled back.                                *)
RollbackBeforePoolsClose ==
    shut = "pools" => \A r \in inflight : txn[r] # "open"

(* A drain that has begun ends with every pool closed, or with the error of*)
(* a pool that does not close, whatever the database does: each wait of    *)
(* _cancel_inflight is bounded.                                            *)
ShutdownEnds == shut = "drain" ~> shut \in {"closed", "aborted"}

(* Whatever the database does, a query that does not end is left in one of *)
(* the three awaits of its clean-up, its deadline used up: it never waits  *)
(* for ever for the pool lock, a connection or a statement.  If those      *)
(* awaits end, so does every call, with all that it holds given up.        *)
QueryEnds ==
    QueryFairness =>
        /\ <>[](\A r \in inflight : timer[r] /\ pc[r] \in Untimed)
        /\ CleanUpFairness => <>[](inflight = {})

-----------------------------------------------------------------------------
(* The executor implements the promise of QueryAdmission.                  *)

AdmissionPhase ==
    [r \in Requests |->
        CASE pc[r] = "new"          -> "new"
          [] pc[r] = "queued"       -> "waiting"
          [] pc[r] = "done"         -> "gone"
          [] OTHER                  -> "running"]

Admission == INSTANCE QueryAdmission WITH
    Limit <- MaxConcurrent, open <- accepting, phase <- AdmissionPhase

(* At most max_concurrent_queries of a source run, newcomers are refused   *)
(* once the executor has stopped, and nobody returns from the end.         *)
ImplementsAdmission == Admission!Spec
=============================================================================
