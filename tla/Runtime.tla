------------------------------ MODULE Runtime ------------------------------
(***************************************************************************)
(* The process around the services: startup probes, readiness, the         *)
(* shutdown trigger with its deadline, and the lifespan's cleanup          *)
(* (runtime/composition.py, runtime/server.py, OperationalState of         *)
(* runtime/operations.py).                                                 *)
(*                                                                         *)
(* Everything runs in the main thread.  A signal handler interrupts it     *)
(* between two bytecodes and calls the trigger once more, so the calls of  *)
(* the trigger in progress form a stack of which only the top one runs;    *)
(* `calls' holds the next statement of each.  The trigger's locks are      *)
(* re-entrant and have one thread, so they hold nobody up.                 *)
(*                                                                         *)
(* The clock counts parts of a millisecond, because remaining_ms() rounds  *)
(* up to whole milliseconds.                                               *)
(***************************************************************************)
EXTENDS Naturals, Sequences

CONSTANTS
    Sources,     \* registered sources
    Grace,       \* shutdown_grace_ms
    Parts,       \* clock units in a millisecond
    MaxTime,     \* bound on the clock
    MaxSignals,  \* bound on the signals the process gets
    None         \* no deadline yet

ASSUME PartsAssumption == Grace \in Nat /\ Parts \in Nat \ {0} /\ MaxTime \in Nat
ASSUME SignalsAssumption == MaxSignals \in Nat
ASSUME NoneAssumption == None \notin Nat

VARIABLES
    phase,      \* where the lifespan is
    calls,      \* the stack of trigger calls in progress
    started,    \* _ShutdownTrigger._started
    deadline,   \* _ShutdownDeadline._deadline
    accepting,  \* OperationalState._accepting
    admitting,  \* PostgresQueryExecutor._accepting
    probed,     \* sources whose startup probe has ended
    metadata,   \* _source_metadata_health
    query,      \* _source_query_health
    admitted,   \* history: sources whose metadata has been published once
    allowed,    \* the grace drain() was given
    abnormal,   \* the lifespan is left by an exception
    tried,      \* history: cleanup steps attempted, in order
    failed,     \* history: those of them that raised
    raised,     \* what the lifespan raised in the end
    now,        \* time.monotonic()
    signals     \* signals so far

triggerVars == <<calls, started, deadline, accepting, admitting>>
healthVars == <<probed, metadata, query, admitted>>
cleanupVars == <<allowed, abnormal, tried, failed, raised>>
vars == <<phase, triggerVars, healthVars, cleanupVars, now, signals>>

Phases == {"probing", "serving", "stopping", "leaving", "query_drain",
           "query_executor", "catalog", "exited"}
Steps == {"check", "mark", "test", "set", "refuse", "stop"}
CleanupSteps == {"query_drain", "query_executor", "catalog"}
Metadata == {"initializing", "healthy", "stale", "unavailable"}
Query == {"healthy", "unavailable"}

Init ==
    /\ phase = "probing"
    /\ calls = <<>>
    /\ started = FALSE
    /\ deadline = None
    /\ accepting = TRUE
    /\ admitting = TRUE
    /\ probed = {}
    /\ metadata = [s \in Sources |-> "initializing"]
    /\ query = [s \in Sources |-> "healthy"]
    /\ admitted = {}
    /\ allowed = 0
    /\ abnormal = FALSE
    /\ tried = <<>>
    /\ failed = <<>>
    /\ raised = "none"
    /\ now = 0
    /\ signals = 0

Idle == calls = <<>>  \* no handler interrupts the main program

-----------------------------------------------------------------------------
(* Readiness: OperationalState.public_status.                              *)

SourceStatus_MetadataOnly(s) ==  \* variant: the query health is not aggregated
    metadata[s]

SourceStatus(s) == IF query[s] = "unavailable" THEN "unavailable" ELSE metadata[s]

Usable(s) == SourceStatus(s) \in {"healthy", "stale"}

PublicStatus ==
    IF ~accepting THEN "shutting_down"
    ELSE IF \E s \in Sources : Usable(s)
         THEN IF \A s \in Sources : SourceStatus(s) = "healthy" THEN "ready" ELSE "degraded"
    ELSE IF Sources # {} /\ \A s \in Sources : SourceStatus(s) = "initializing"
         THEN "initializing"
    ELSE "unavailable"

(* GET /ready answers 200.                                                 *)
Ready == PublicStatus \in {"ready", "degraded"}

-----------------------------------------------------------------------------
(* Startup: every source is probed, all at once; a probe that fails or     *)
(* times out marks its source and keeps nothing from starting.             *)
ProbeEnds(s) ==
    /\ phase = "probing" /\ Idle /\ s \notin probed
    /\ probed' = probed \union {s}
    /\ \/ metadata' = [metadata EXCEPT ![s] = "healthy"] /\ admitted' = admitted \union {s}
       \/ metadata' = [metadata EXCEPT ![s] = "unavailable"] /\ UNCHANGED admitted
    /\ UNCHANGED <<phase, triggerVars, query, cleanupVars, now, signals>>

StartServing ==
    /\ phase = "probing" /\ Idle /\ probed = Sources
    /\ phase' = "serving"
    /\ UNCHANGED <<triggerVars, healthVars, cleanupVars, now, signals>>

(* The startup is cancelled: the exit stack closes what was registered.    *)
AbortStartup ==
    /\ phase = "probing" /\ Idle
    /\ phase' = "query_executor"
    /\ abnormal' = TRUE
    /\ tried' = Append(tried, "query_executor")
    /\ admitting' = FALSE
    /\ UNCHANGED <<calls, started, deadline, accepting, healthVars, allowed, failed, raised,
                   now, signals>>

(* Requests and refreshes publish the health of their source.  A snapshot  *)
(* is served stale only if it was published before.                        *)
Serving == phase \in {"serving", "stopping", "query_drain"}

MetadataReports(s) ==
    /\ Serving /\ Idle
    /\ \/ metadata' = [metadata EXCEPT ![s] = "healthy"] /\ admitted' = admitted \union {s}
       \/ /\ s \in admitted
          /\ metadata' = [metadata EXCEPT ![s] = "stale"] /\ UNCHANGED admitted
       \/ metadata' = [metadata EXCEPT ![s] = "unavailable"] /\ UNCHANGED admitted
    /\ UNCHANGED <<phase, triggerVars, probed, query, cleanupVars, now, signals>>

QueryReports(s) ==
    /\ Serving /\ Idle /\ s \in admitted
    /\ query' \in {[query EXCEPT ![s] = h] : h \in Query}
    /\ UNCHANGED <<phase, triggerVars, probed, metadata, admitted, cleanupVars, now, signals>>

-----------------------------------------------------------------------------
(* _ShutdownTrigger: its statements, and those of _ShutdownDeadline.begin, *)
(* one by one, because a signal may come between any two.                  *)
Called == Append(calls, "check")
Top == Len(calls)

Following_MarkLast ==  \* variant: _started is set when everything is done
    [check |-> "test", test |-> "set", set |-> "refuse", refuse |-> "stop", stop |-> "mark",
     mark |-> "return"]

Following ==
    [check |-> "mark", mark |-> "test", test |-> "set", set |-> "refuse", refuse |-> "stop",
     stop |-> "return"]

(* The call on top goes on at that statement, or returns.                  *)
GoTo(step) ==
    calls' = IF step = "return" THEN SubSeq(calls, 1, Top - 1)
             ELSE [calls EXCEPT ![Top] = step]

At(step) == ~Idle /\ calls[Top] = step

Check ==
    /\ At("check")
    /\ GoTo(IF started THEN "return" ELSE Following["check"])
    /\ UNCHANGED <<started, deadline, accepting, admitting>>

Mark ==
    /\ At("mark")
    /\ started' = TRUE
    /\ GoTo(Following["mark"])
    /\ UNCHANGED <<deadline, accepting, admitting>>

Test ==
    /\ At("test")
    /\ GoTo(IF deadline = None THEN Following["test"] ELSE Following["set"])
    /\ UNCHANGED <<started, deadline, accepting, admitting>>

SetDeadline ==
    /\ At("set")
    /\ deadline' = now + Grace * Parts
    /\ GoTo(Following["set"])
    /\ UNCHANGED <<started, accepting, admitting>>

Refuse ==
    /\ At("refuse")
    /\ accepting' = FALSE
    /\ GoTo(Following["refuse"])
    /\ UNCHANGED <<started, deadline, admitting>>

StopAdmission ==
    /\ At("stop")
    /\ admitting' = FALSE
    /\ GoTo(Following["stop"])
    /\ UNCHANGED <<started, deadline, accepting>>

RunTrigger_NotReentrant ==  \* variant: threading.Lock instead of RLock
    /\ Top < 2 /\ (Check \/ Mark \/ Test \/ SetDeadline \/ Refuse \/ StopAdmission)
    /\ UNCHANGED <<phase, healthVars, cleanupVars, now, signals>>

RunTrigger ==
    /\ Check \/ Mark \/ Test \/ SetDeadline \/ Refuse \/ StopAdmission
    /\ UNCHANGED <<phase, healthVars, cleanupVars, now, signals>>

(* A signal: handle_exit calls the trigger on top of whatever runs.        *)
Signal ==
    /\ signals < MaxSignals /\ phase # "exited"
    /\ signals' = signals + 1
    /\ calls' = Called
    /\ UNCHANGED <<phase, started, deadline, accepting, admitting, healthVars, cleanupVars, now>>

(* uvicorn leaves its main loop: shutdown() triggers before it waits for   *)
(* its connections.                                                        *)
ServerStops ==
    /\ phase = "serving" /\ Idle
    /\ phase' = "stopping"
    /\ calls' = Called
    /\ UNCHANGED <<started, deadline, accepting, admitting, healthVars, cleanupVars, now, signals>>

-----------------------------------------------------------------------------
(* The lifespan's end.                                                     *)

LeaveBy_Untriggered(error) ==  \* variant: the server's own trigger is thought to be enough
    /\ Idle
    /\ abnormal' = error
    /\ phase' = "leaving"
    /\ UNCHANGED <<triggerVars, healthVars, allowed, tried, failed, raised, now, signals>>

(* The lifespan resumes after its yield and triggers as well.              *)
LeaveBy(error) ==
    /\ Idle
    /\ abnormal' = error
    /\ phase' = "leaving"
    /\ calls' = Called
    /\ UNCHANGED <<started, deadline, accepting, admitting, healthVars, allowed, tried, failed,
                   raised, now, signals>>

(* The connections are gone, or were given up.                             *)
Leave == phase = "stopping" /\ LeaveBy(FALSE)

(* The server skipped its orderly end: the lifespan is cancelled.          *)
LeaveCancelled == phase \in {"serving", "stopping"} /\ LeaveBy(TRUE)

RoundUp_Down(units) == units \div Parts  \* variant: the rest of a millisecond is lost

RoundUp(units) == (units + Parts - 1) \div Parts

(* _ShutdownDeadline.remaining_ms, between 0 and the grace.                *)
Remaining(end) ==
    LET left == IF end > now THEN RoundUp(end - now) ELSE 0 IN
    IF left < Grace THEN left ELSE Grace

BeginDrain ==
    /\ phase = "leaving" /\ Idle
    /\ phase' = "query_drain"
    /\ tried' = Append(tried, "query_drain")
    /\ deadline' = IF deadline = None THEN now + Grace * Parts ELSE deadline
    /\ allowed' = Remaining(deadline')
    /\ UNCHANGED <<calls, started, accepting, admitting, healthVars, abnormal, failed, raised,
                   now, signals>>

(* A cleanup step is over, well or not (an error, or a cancel): attempt()  *)
(* notes the failure and the next one begins.                              *)
Noted == failed' \in {failed, Append(failed, phase)}

DrainEnds ==
    /\ phase = "query_drain" /\ Idle
    /\ Noted
    /\ phase' = "query_executor"
    /\ tried' = Append(tried, "query_executor")
    /\ admitting' = FALSE
    /\ UNCHANGED <<calls, started, deadline, accepting, healthVars, allowed, abnormal, raised,
                   now, signals>>

ExecutorCloses_Alone ==  \* variant: a failure keeps the next step from running
    /\ phase = "query_executor" /\ Idle
    /\ Noted
    /\ IF failed' = failed THEN phase' = "catalog" /\ tried' = Append(tried, "catalog")
       ELSE phase' = "exited" /\ UNCHANGED tried
    /\ UNCHANGED <<triggerVars, healthVars, allowed, abnormal, raised, now, signals>>

ExecutorCloses ==
    /\ phase = "query_executor" /\ Idle
    /\ Noted
    /\ phase' = "catalog"
    /\ tried' = Append(tried, "catalog")
    /\ UNCHANGED <<triggerVars, healthVars, allowed, abnormal, raised, now, signals>>

Outcome ==
    IF abnormal THEN "interrupted" ELSE IF failed' = <<>> THEN "none" ELSE failed'[1]

CatalogCloses ==
    /\ phase = "catalog" /\ Idle
    /\ Noted
    /\ phase' = "exited"
    /\ raised' = Outcome
    /\ UNCHANGED <<triggerVars, healthVars, allowed, abnormal, tried, now, signals>>

Tick ==
    /\ now < MaxTime /\ phase # "exited"
    /\ now' = now + 1
    /\ UNCHANGED <<phase, triggerVars, healthVars, cleanupVars, signals>>

Cleanup == Leave \/ BeginDrain \/ DrainEnds \/ ExecutorCloses \/ CatalogCloses

Next ==
    \/ \E s \in Sources : ProbeEnds(s) \/ MetadataReports(s) \/ QueryReports(s)
    \/ StartServing \/ AbortStartup \/ ServerStops \/ LeaveCancelled \/ Cleanup
    \/ RunTrigger \/ Signal \/ Tick

Spec == Init /\ [][Next]_vars

(* Probes have timeouts, the server polls should_exit, connections are     *)
(* waited for a bounded time, drain and close end (QueryExecutor), and the *)
(* main thread runs.                                                       *)
FairSpec ==
    /\ Spec
    /\ \A s \in Sources : WF_vars(ProbeEnds(s))
    /\ WF_vars(StartServing) /\ WF_vars(RunTrigger) /\ WF_vars(Cleanup)
    /\ WF_vars(started /\ (ServerStops \/ LeaveCancelled))

-----------------------------------------------------------------------------
(* Correctness.                                                            *)

(* The variables stay in their domains.                                    *)
TypeOK ==
    /\ phase \in Phases
    /\ calls \in Seq(Steps)
    /\ started \in BOOLEAN /\ accepting \in BOOLEAN /\ admitting \in BOOLEAN /\ abnormal \in BOOLEAN
    /\ deadline \in Nat \union {None}
    /\ probed \subseteq Sources /\ admitted \subseteq Sources
    /\ metadata \in [Sources -> Metadata]
    /\ query \in [Sources -> Query]
    /\ allowed \in 0..Grace
    /\ tried \in Seq(CleanupSteps) /\ failed \in Seq(CleanupSteps)
    /\ raised \in CleanupSteps \union {"none", "interrupted"}
    /\ now \in Nat /\ signals \in Nat

(* There is one shutdown deadline: no second signal, and none that comes   *)
(* between two statements of the trigger, moves it.                        *)
DeadlineStands == [][deadline # None => deadline' = deadline]_vars

(* Once the lifespan drains, no part of the process admits queries, by     *)
(* whatever way the lifespan was left.                                     *)
DrainsClosedGates ==
    phase = "query_drain" => ~accepting /\ ~admitting /\ deadline # None

(* The drain gets what is left of the grace that the first trigger began,  *)
(* rounded up to a millisecond, and nothing once it is used up.            *)
DrainGetsTheRest ==
    [][phase' = "query_drain" /\ phase # "query_drain" =>
         IF deadline <= now THEN allowed' = 0
         ELSE /\ allowed' <= Grace
              /\ now + allowed' * Parts \in deadline .. deadline + Parts - 1]_vars

(* However the process ends, the executor and then the catalog are closed, *)
(* once each, whatever failed before; and an error of the cleanup is       *)
(* raised: the first, unless the lifespan is ending with another.          *)
EveryStepIsTried ==
    phase = "exited" =>
        /\ tried \in {<<"query_drain", "query_executor", "catalog">>,
                      <<"query_executor", "catalog">>}
        /\ failed # <<>> /\ ~abnormal => raised = failed[1]

(* 200 from /ready means that some source can answer: its metadata was     *)
(* published and its queries get connections.                              *)
ReadyMeansUsable == Ready => \E s \in admitted : query[s] = "healthy"

(* A signal ends the process.                                              *)
ShutdownCompletes == signals > 0 ~> phase = "exited"
=============================================================================
