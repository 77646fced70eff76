----------------------------- MODULE HttpQuery -----------------------------
(***************************************************************************)
(* One POST /query from its arrival to its response: the middleware and    *)
(* _until_disconnect (delivery/app.py), GatewayService.query               *)
(* (delivery/gateway.py), QueryService.query (guarded_query/query.py).     *)
(*                                                                         *)
(* The handler runs the query as a task and watches the connection in a    *)
(* second task.  A cancel of the handler reaches whatever it awaits: at    *)
(* asyncio.wait it is raised there, at `await task' it is passed on to     *)
(* that task.  What the executor does with a cancel is QueryExecutor's     *)
(* subject; here a cancelled task ends somehow, some time later.           *)
(***************************************************************************)
EXTENDS Naturals

CONSTANTS
    Revisions,   \* metadata revisions the source may have
    MaxCancels,  \* bound on the cancels the server issues
    None         \* no outcome yet

ASSUME CancelsAssumption == MaxCancels \in Nat

VARIABLES
    handler,    \* where the handler is
    task,       \* where the task of gateway.query is
    outcome,    \* how the task ended
    watch,      \* the task of _wait_for_disconnect
    response,   \* what the handler returned or raised
    caller,     \* the credentials: known, unknown
    claimed,    \* the metadata_revision of the request
    policy,     \* its sql_policy_revision: the gateway's own, or another
    published,  \* the revision MetadataService publishes
    closing,    \* public_status() = "shutting_down"
    gone,       \* the client has disconnected
    cancels,    \* history: cancel() calls the task got
    stops       \* cancel() calls the handler got from the server

asyncVars == <<handler, task, outcome, watch, response>>
worldVars == <<caller, claimed, policy, published, closing, gone>>
vars == <<asyncVars, worldVars, cancels, stops>>

Handlers == {"arrived", "wait", "join", "unwatch", "finish", "responded"}
Tasks == {"none", "metadata", "execute", "done"}
QueryErrors == {"no_source", "metadata", "mismatch", "rejected", "query"}
Refusals == {"shutting_down", "unauthorized", "invalid"}
Errors == QueryErrors \union Refusals \union {"timeout"}
Outcomes == Errors \union {"ok", "cancelled"}

ASSUME NoneAssumption == None \notin Outcomes

Init ==
    /\ handler = "arrived"
    /\ task = "none"
    /\ outcome = None
    /\ watch = "none"
    /\ response = None
    /\ caller \in {"known", "unknown"}
    /\ claimed \in Revisions
    /\ policy \in {"current", "other"}
    /\ published \in Revisions
    /\ closing = FALSE
    /\ gone = FALSE
    /\ cancels = 0
    /\ stops = 0

-----------------------------------------------------------------------------
(* The middleware refuses, or the request's body does not validate; else   *)
(* the handler starts its two tasks.                                       *)
Refuse(error) ==
    /\ handler' = "responded"
    /\ response' = error
    /\ UNCHANGED <<task, watch>>

Start ==
    /\ handler' = "wait"
    /\ task' = "metadata"
    /\ watch' = "running"
    /\ UNCHANGED response

Arrive ==
    /\ handler = "arrived"
    /\ \/ closing /\ Refuse("shutting_down")
       \/ ~closing /\ caller = "unknown" /\ Refuse("unauthorized")
       \/ ~closing /\ caller = "known" /\ (Refuse("invalid") \/ Start)
    /\ UNCHANGED <<outcome, worldVars, cancels, stops>>

TaskDone == task = "done"
WatchDone == watch = "done"

(* task.cancel(): nothing if it is done.                                   *)
CancelTask == cancels' = IF TaskDone THEN cancels ELSE cancels + 1

(* The handler's body is over with that result: finally begins, and the    *)
(* watcher is cancelled.                                                   *)
Finally(result) ==
    /\ handler' = "unwatch"
    /\ response' = result

Wake_Uncancelled ==  \* variant: a disconnect waits for the query instead of cancelling it
    /\ handler = "wait" /\ (TaskDone \/ WatchDone)
    /\ IF TaskDone THEN Finally(outcome) ELSE handler' = "join" /\ UNCHANGED response
    /\ UNCHANGED <<task, outcome, watch, worldVars, cancels, stops>>

Wake_DisconnectFirst ==  \* variant: a disconnect goes before the task's own end
    /\ handler = "wait" /\ (TaskDone \/ WatchDone)
    /\ IF WatchDone
         THEN handler' = "join" /\ CancelTask /\ UNCHANGED response
         ELSE Finally(outcome) /\ UNCHANGED cancels
    /\ UNCHANGED <<task, outcome, watch, worldVars, stops>>

(* asyncio.wait returns: the task's own end goes before a disconnect.      *)
Wake ==
    /\ handler = "wait" /\ (TaskDone \/ WatchDone)
    /\ IF TaskDone
         THEN Finally(outcome) /\ UNCHANGED cancels
         ELSE handler' = "join" /\ CancelTask /\ UNCHANGED response
    /\ UNCHANGED <<task, outcome, watch, worldVars, stops>>

(* The cancelled task has ended: an error of its own is raised, a result   *)
(* or a cancellation becomes QueryTimeoutError.                            *)
Join ==
    /\ handler = "join" /\ TaskDone
    /\ Finally(IF outcome \in Errors THEN outcome ELSE "timeout")
    /\ UNCHANGED <<task, outcome, watch, worldVars, cancels, stops>>

(* finally: the watcher has ended.                                         *)
Unwatch_Only ==  \* variant: a handler that is cancelled leaves its task running
    /\ handler = "unwatch" /\ WatchDone
    /\ handler' = "responded"
    /\ UNCHANGED <<task, outcome, watch, response, worldVars, cancels, stops>>

Unwatch ==
    /\ handler = "unwatch" /\ WatchDone
    /\ handler' = IF TaskDone THEN "responded" ELSE "finish"
    /\ CancelTask
    /\ UNCHANGED <<task, outcome, watch, response, worldVars, stops>>

Finish ==
    /\ handler = "finish" /\ TaskDone
    /\ handler' = "responded"
    /\ response' = IF outcome \in Errors THEN outcome ELSE response
    /\ UNCHANGED <<task, outcome, watch, worldVars, cancels, stops>>

(* The server cancels the handler, and with it what it awaits; if that is  *)
(* over already the cancel is raised at the await, which suppresses it.    *)
Stop ==
    /\ stops < MaxCancels
    /\ stops' = stops + 1
    /\ \/ handler = "wait" /\ Finally("cancelled") /\ UNCHANGED cancels
       \/ handler = "join" /\ TaskDone /\ Finally("timeout") /\ UNCHANGED cancels
       \/ handler = "finish" /\ TaskDone /\ handler' = "responded" /\ UNCHANGED <<response, cancels>>
       \/ handler \in {"join", "finish"} /\ ~TaskDone /\ CancelTask /\ UNCHANGED <<handler, response>>
       \/ handler = "unwatch" /\ UNCHANGED <<handler, response, cancels>>
    /\ UNCHANGED <<task, outcome, watch, worldVars>>

-----------------------------------------------------------------------------
(* _wait_for_disconnect returns on a disconnect only; finally cancels it.  *)
Receive_Anything ==  \* variant: every message is taken for a disconnect
    /\ watch = "running"
    /\ watch' = "done"
    /\ UNCHANGED <<handler, task, outcome, response, worldVars, cancels, stops>>

Receive ==
    /\ watch = "running" /\ gone
    /\ watch' = "done"
    /\ UNCHANGED <<handler, task, outcome, response, worldVars, cancels, stops>>

WatchCancelled ==
    /\ watch = "running" /\ handler = "unwatch"
    /\ watch' = "done"
    /\ UNCHANGED <<handler, task, outcome, response, worldVars, cancels, stops>>

(* The task of gateway.query ends.                                         *)
End(result) == task' = "done" /\ outcome' = result

Matches(revision) == claimed = revision /\ policy = "current"

(* The source is known and its metadata comes (a reader that broke its     *)
(* policy is reported as a failed query): the revisions are compared, the  *)
(* SQL validated, and the query handed to the executor.                    *)
Prepared ==
    /\ task = "metadata"
    /\ \/ Matches(published) /\ task' = "execute" /\ UNCHANGED outcome
       \/ Matches(published) /\ End("rejected")
       \/ ~Matches(published) /\ End("mismatch")
       \/ End("metadata") \/ End("query")
       \/ End("no_source")
    /\ UNCHANGED <<handler, watch, response, worldVars, cancels, stops>>

Executed ==
    /\ task = "execute"
    /\ End("ok") \/ End("query")
    /\ UNCHANGED <<handler, watch, response, worldVars, cancels, stops>>

(* A cancel is raised at the await.                                        *)
Cancelled ==
    /\ task \in {"metadata", "execute"} /\ cancels > 0
    /\ End("cancelled")
    /\ UNCHANGED <<handler, watch, response, worldVars, cancels, stops>>

(* The world.                                                              *)
Disconnect ==
    /\ ~gone /\ gone' = TRUE
    /\ UNCHANGED <<asyncVars, caller, claimed, policy, published, closing, cancels, stops>>

Shutdown ==
    /\ ~closing /\ closing' = TRUE
    /\ UNCHANGED <<asyncVars, caller, claimed, policy, published, gone, cancels, stops>>

Republish ==
    /\ published' \in Revisions \ {published}
    /\ UNCHANGED <<asyncVars, caller, claimed, policy, closing, gone, cancels, stops>>

Handle == Arrive \/ Wake \/ Join \/ Unwatch \/ Finish
RunTask == Prepared \/ Executed \/ Cancelled
Watch == Receive \/ WatchCancelled

Next == Handle \/ RunTask \/ Watch \/ Stop \/ Disconnect \/ Shutdown \/ Republish

Spec == Init /\ [][Next]_vars

(* The loop runs what is ready, and a task that was cancelled ends; one    *)
(* that was not may take for ever.                                         *)
FairSpec == Spec /\ WF_vars(Handle) /\ WF_vars(Watch) /\ WF_vars(cancels > 0 /\ RunTask)

-----------------------------------------------------------------------------
(* Correctness.                                                            *)

(* The variables stay in their domains; a task has an outcome when it is   *)
(* done and not before.                                                    *)
TypeOK ==
    /\ handler \in Handlers /\ task \in Tasks /\ watch \in {"none", "running", "done"}
    /\ outcome \in Outcomes \union {None} /\ (outcome # None <=> task = "done")
    /\ response \in Outcomes \union {None}
    /\ caller \in {"known", "unknown"}
    /\ claimed \in Revisions /\ policy \in {"current", "other"} /\ published \in Revisions
    /\ closing \in BOOLEAN /\ gone \in BOOLEAN
    /\ cancels \in Nat /\ stops \in 0..MaxCancels

(* No response is sent while the query or the watcher still runs, however  *)
(* often and wherever the handler was cancelled.                           *)
NothingOutlivesTheRequest ==
    handler = "responded" => task \in {"none", "done"} /\ watch \in {"none", "done"}

(* The query is cancelled once for a disconnect and once at most for each  *)
(* cancel of the handler, never for anything else: this bounds what the    *)
(* executor has to stand (MaxInterrupts there).                            *)
CancelsHaveCauses == cancels <= stops + (IF gone THEN 1 ELSE 0)

(* However the query's end, the disconnect and the cancels meet: a result  *)
(* is answered only for a query that ended well before anybody cancelled   *)
(* it, a query nobody cancelled is answered by its own end even if the     *)
(* client is gone, and QUERY_TIMEOUT is answered only to a client that is  *)
(* gone, for a query that was cancelled.                                   *)
AnswersForItsQuery ==
    handler = "responded" /\ task # "none" =>
        /\ response = "ok" => outcome = "ok" /\ cancels = 0
        /\ cancels = 0 /\ stops = 0 => response = outcome
        /\ response = "timeout" => gone /\ cancels > 0
        /\ response = "cancelled" => stops > 0

(* docs/modules/delivery/README.md:36: a disconnect is propagated to the   *)
(* running query, so the request ends although the query itself would not. *)
DisconnectEnds == gone /\ handler # "arrived" ~> handler = "responded"
=============================================================================
