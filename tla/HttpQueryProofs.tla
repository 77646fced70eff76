-------------------------- MODULE HttpQueryProofs --------------------------
(***************************************************************************)
(* What holds of HttpQuery however often the server cancels the handler,   *)
(* the client disconnects and the metadata is published anew.              *)
(***************************************************************************)
EXTENDS HttpQuery, TLAPS

USE DEF Handlers, Tasks, QueryErrors, Refusals, Errors, Outcomes

-----------------------------------------------------------------------------
(* The inductive invariant.                                                *)

(* The two tasks exist from the handler's first step on, and both have     *)
(* ended when it leaves its finally.                                       *)
Staged ==
    /\ handler = "arrived" => task = "none" /\ watch = "none"
    /\ handler \in {"wait", "join", "unwatch", "finish"} => task # "none" /\ watch # "none"
    /\ handler = "finish" => watch = "done"
    /\ NothingOutlivesTheRequest

(* Who has paid for the cancels: nobody has issued one while the handler   *)
(* waits, a join is due to a disconnect, and a task that still runs when   *)
(* the body is left was left by a cancel of the handler.                   *)
Caused ==
    /\ handler \in {"arrived", "wait"} => cancels = 0
    /\ watch = "done" /\ handler = "wait" => gone
    /\ handler = "join" => gone
    /\ handler = "unwatch" /\ task # "done" => cancels < stops
    /\ CancelsHaveCauses

(* The task ends as a query does, and as a cancelled one only if somebody   *)
(* cancelled it.  From the handler's finally on, its response is settled:   *)
(* an end of the query's own, or what a disconnect or a cancel of the       *)
(* handler makes of it.                                                     *)
Ends ==
    /\ outcome \in QueryErrors \union {"ok", "cancelled", None}
    /\ outcome = "cancelled" => cancels > 0
    /\ handler = "join" => cancels > 0

Settled ==
    handler \in {"unwatch", "finish", "responded"} /\ task # "none" =>
        /\ response \in QueryErrors \union {"ok", "cancelled", "timeout"}
        /\ response = "ok" => outcome = "ok" /\ cancels = 0
        /\ cancels = 0 /\ stops = 0 => response = outcome
        /\ response = "timeout" => gone /\ cancels > 0
        /\ response = "cancelled" => stops > 0

IInv == TypeOK /\ Staged /\ Caused /\ Ends /\ Settled

(* A request that has just arrived satisfies it.                           *)
LEMMA InitInv ==
    ASSUME Init
    PROVE  IInv
<1>1. 0 \in 0..MaxCancels
  BY CancelsAssumption
<1>2. TypeOK
  BY <1>1, NoneAssumption DEF Init, TypeOK
<1>3. Staged /\ Ends /\ Settled
  BY NoneAssumption DEF Init, Staged, NothingOutlivesTheRequest, Ends, Settled
<1>4. Caused
  BY DEF Init, Caused, CancelsHaveCauses
<1> QED
  BY <1>2, <1>3, <1>4 DEF IInv

(* A request that arrives is refused, or gets its two tasks.               *)
LEMMA ArriveEffect ==
    ASSUME IInv, Arrive
    PROVE  /\ handler = "arrived" /\ task = "none" /\ watch = "none"
           /\ UNCHANGED <<outcome, worldVars, cancels, stops>>
           /\ \/ /\ handler' = "responded" /\ response' \in Refusals
                 /\ UNCHANGED <<task, watch>>
              \/ /\ handler' = "wait" /\ task' = "metadata" /\ watch' = "running"
                 /\ UNCHANGED response
  BY DEF Arrive, Refuse, Start, IInv, Staged

(* A step keeps the types: the task of a request that arrives is a new one. *)
LEMMA NextTypes ==
    ASSUME IInv, [Next]_vars
    PROVE  TypeOK'
<1> USE CancelsAssumption, NoneAssumption DEF IInv
<1>1. CASE Arrive
  BY <1>1, ArriveEffect DEF worldVars, TypeOK
<1>2. CASE Wake
  <2>1. CASE TaskDone
    BY <1>2, <2>1 DEF Wake, Finally, TaskDone, worldVars, TypeOK
  <2>2. CASE ~TaskDone
    BY <1>2, <2>2 DEF Wake, TaskDone, WatchDone, CancelTask, worldVars, TypeOK
  <2> QED
    BY <2>1, <2>2
<1>3. CASE Join
  BY <1>3 DEF Join, Finally, TaskDone, worldVars, TypeOK
<1>4. CASE Unwatch
  BY <1>4 DEF Unwatch, TaskDone, WatchDone, CancelTask, worldVars, TypeOK
<1>5. CASE Finish
  BY <1>5 DEF Finish, TaskDone, worldVars, TypeOK
<1>6. CASE Prepared
  BY <1>6 DEF Prepared, End, Matches, worldVars, TypeOK
<1>7. CASE Executed
  BY <1>7 DEF Executed, End, worldVars, TypeOK
<1>8. CASE Cancelled
  BY <1>8 DEF Cancelled, End, worldVars, TypeOK
<1>9. CASE Receive
  BY <1>9 DEF Receive, worldVars, TypeOK
<1>10. CASE WatchCancelled
  BY <1>10 DEF WatchCancelled, worldVars, TypeOK
<1>11. CASE Stop
  BY <1>11 DEF Stop, Finally, TaskDone, CancelTask, worldVars, TypeOK
<1>12. CASE Disconnect
  BY <1>12 DEF Disconnect, asyncVars, TypeOK
<1>13. CASE Shutdown
  BY <1>13 DEF Shutdown, asyncVars, TypeOK
<1>14. CASE Republish
  BY <1>14 DEF Republish, asyncVars, TypeOK
<1>15. CASE UNCHANGED vars
  BY <1>15 DEF vars, asyncVars, worldVars, TypeOK
<1> QED
  BY <1>1, <1>2, <1>3, <1>4, <1>5, <1>6, <1>7, <1>8, <1>9, <1>10, <1>11, <1>12, <1>13,
     <1>14, <1>15 DEF Next, Handle, RunTask, Watch

(* A step neither leaves a task behind nor touches one that is over.       *)
LEMMA NextStaged ==
    ASSUME IInv, [Next]_vars
    PROVE  Staged'
<1> USE DEF IInv
<1>1. CASE Arrive
  BY <1>1, ArriveEffect DEF worldVars, TypeOK, Staged, NothingOutlivesTheRequest
<1>2. CASE Wake
  <2>1. CASE TaskDone
    BY <1>2, <2>1 DEF Wake, Finally, TaskDone, worldVars, TypeOK, Staged, NothingOutlivesTheRequest
  <2>2. CASE ~TaskDone
    BY <1>2, <2>2 DEF Wake, TaskDone, WatchDone, CancelTask, worldVars, TypeOK, Staged, NothingOutlivesTheRequest
  <2> QED
    BY <2>1, <2>2
<1>3. CASE Join
  BY <1>3 DEF Join, Finally, TaskDone, worldVars, TypeOK, Staged, NothingOutlivesTheRequest
<1>4. CASE Unwatch
  BY <1>4 DEF Unwatch, TaskDone, WatchDone, CancelTask, worldVars, TypeOK, Staged, NothingOutlivesTheRequest
<1>5. CASE Finish
  BY <1>5 DEF Finish, TaskDone, worldVars, TypeOK, Staged, NothingOutlivesTheRequest
<1>6. CASE Prepared
  BY <1>6 DEF Prepared, End, Matches, worldVars, TypeOK, Staged, NothingOutlivesTheRequest
<1>7. CASE Executed
  BY <1>7 DEF Executed, End, worldVars, TypeOK, Staged, NothingOutlivesTheRequest
<1>8. CASE Cancelled
  BY <1>8 DEF Cancelled, End, worldVars, TypeOK, Staged, NothingOutlivesTheRequest
<1>9. CASE Receive
  BY <1>9 DEF Receive, worldVars, TypeOK, Staged, NothingOutlivesTheRequest
<1>10. CASE WatchCancelled
  BY <1>10 DEF WatchCancelled, worldVars, TypeOK, Staged, NothingOutlivesTheRequest
<1>11. CASE Stop
  BY <1>11 DEF Stop, Finally, TaskDone, CancelTask, worldVars, TypeOK, Staged, NothingOutlivesTheRequest
<1>12. CASE Disconnect
  BY <1>12 DEF Disconnect, asyncVars, TypeOK, Staged, NothingOutlivesTheRequest
<1>13. CASE Shutdown
  BY <1>13 DEF Shutdown, asyncVars, TypeOK, Staged, NothingOutlivesTheRequest
<1>14. CASE Republish
  BY <1>14 DEF Republish, asyncVars, TypeOK, Staged, NothingOutlivesTheRequest
<1>15. CASE UNCHANGED vars
  BY <1>15 DEF vars, asyncVars, worldVars, TypeOK, Staged, NothingOutlivesTheRequest
<1> QED
  BY <1>1, <1>2, <1>3, <1>4, <1>5, <1>6, <1>7, <1>8, <1>9, <1>10, <1>11, <1>12, <1>13,
     <1>14, <1>15 DEF Next, Handle, RunTask, Watch

(* A step pays for the cancel it issues.                                   *)
LEMMA NextCaused ==
    ASSUME IInv, [Next]_vars
    PROVE  Caused'
<1> USE DEF IInv
<1>1. CASE Arrive
  BY <1>1, ArriveEffect DEF worldVars, TypeOK, Staged, Caused, CancelsHaveCauses
<1>2. CASE Wake
  <2>1. CASE TaskDone
    BY <1>2, <2>1 DEF Wake, Finally, TaskDone, worldVars, TypeOK, Staged, Caused, CancelsHaveCauses
  <2>2. CASE ~TaskDone
    BY <1>2, <2>2 DEF Wake, TaskDone, WatchDone, CancelTask, worldVars, TypeOK, Staged, Caused, CancelsHaveCauses
  <2> QED
    BY <2>1, <2>2
<1>3. CASE Join
  BY <1>3 DEF Join, Finally, TaskDone, worldVars, TypeOK, Staged, Caused, CancelsHaveCauses
<1>4. CASE Unwatch
  BY <1>4 DEF Unwatch, TaskDone, WatchDone, CancelTask, worldVars, TypeOK, Staged, Caused, CancelsHaveCauses
<1>5. CASE Finish
  BY <1>5 DEF Finish, TaskDone, worldVars, TypeOK, Staged, Caused, CancelsHaveCauses
<1>6. CASE Prepared
  BY <1>6 DEF Prepared, End, Matches, worldVars, TypeOK, Staged, Caused, CancelsHaveCauses
<1>7. CASE Executed
  BY <1>7 DEF Executed, End, worldVars, TypeOK, Staged, Caused, CancelsHaveCauses
<1>8. CASE Cancelled
  BY <1>8 DEF Cancelled, End, worldVars, TypeOK, Staged, Caused, CancelsHaveCauses
<1>9. CASE Receive
  BY <1>9 DEF Receive, worldVars, TypeOK, Staged, Caused, CancelsHaveCauses
<1>10. CASE WatchCancelled
  BY <1>10 DEF WatchCancelled, worldVars, TypeOK, Staged, Caused, CancelsHaveCauses
<1>11. CASE Stop
  BY <1>11 DEF Stop, Finally, TaskDone, CancelTask, worldVars, TypeOK, Staged, Caused, CancelsHaveCauses
<1>12. CASE Disconnect
  BY <1>12 DEF Disconnect, asyncVars, TypeOK, Staged, Caused, CancelsHaveCauses
<1>13. CASE Shutdown
  BY <1>13 DEF Shutdown, asyncVars, TypeOK, Staged, Caused, CancelsHaveCauses
<1>14. CASE Republish
  BY <1>14 DEF Republish, asyncVars, TypeOK, Staged, Caused, CancelsHaveCauses
<1>15. CASE UNCHANGED vars
  BY <1>15 DEF vars, asyncVars, worldVars, TypeOK, Staged, Caused, CancelsHaveCauses
<1> QED
  BY <1>1, <1>2, <1>3, <1>4, <1>5, <1>6, <1>7, <1>8, <1>9, <1>10, <1>11, <1>12, <1>13,
     <1>14, <1>15 DEF Next, Handle, RunTask, Watch

(* A step ends the task as a query ends.                                   *)
LEMMA NextEnds ==
    ASSUME IInv, [Next]_vars
    PROVE  Ends'
<1> USE NoneAssumption DEF IInv
<1>1. CASE Arrive
  BY <1>1, ArriveEffect DEF worldVars, TypeOK, Ends
<1>2. CASE Wake
  <2>1. CASE TaskDone
    BY <1>2, <2>1 DEF Wake, Finally, TaskDone, worldVars, TypeOK, Staged, Ends
  <2>2. CASE ~TaskDone
    BY <1>2, <2>2 DEF Wake, TaskDone, WatchDone, CancelTask, worldVars, TypeOK, Staged, Ends
  <2> QED
    BY <2>1, <2>2
<1>3. CASE Join
  BY <1>3 DEF Join, Finally, TaskDone, worldVars, TypeOK, Staged, Ends
<1>4. CASE Unwatch
  BY <1>4 DEF Unwatch, TaskDone, WatchDone, CancelTask, worldVars, TypeOK, Staged, Ends
<1>5. CASE Finish
  BY <1>5 DEF Finish, TaskDone, worldVars, TypeOK, Staged, Ends
<1>6. CASE Prepared
  BY <1>6 DEF Prepared, End, Matches, worldVars, TypeOK, Staged, Ends
<1>7. CASE Executed
  BY <1>7 DEF Executed, End, worldVars, TypeOK, Staged, Ends
<1>8. CASE Cancelled
  BY <1>8 DEF Cancelled, End, worldVars, TypeOK, Staged, Ends
<1>9. CASE Receive
  BY <1>9 DEF Receive, worldVars, TypeOK, Staged, Ends
<1>10. CASE WatchCancelled
  BY <1>10 DEF WatchCancelled, worldVars, TypeOK, Staged, Ends
<1>11. CASE Stop
  BY <1>11 DEF Stop, Finally, TaskDone, CancelTask, worldVars, TypeOK, Staged, Ends
<1>12. CASE Disconnect
  BY <1>12 DEF Disconnect, asyncVars, TypeOK, Staged, Ends
<1>13. CASE Shutdown
  BY <1>13 DEF Shutdown, asyncVars, TypeOK, Staged, Ends
<1>14. CASE Republish
  BY <1>14 DEF Republish, asyncVars, TypeOK, Staged, Ends
<1>15. CASE UNCHANGED vars
  BY <1>15 DEF vars, asyncVars, worldVars, TypeOK, Staged, Ends
<1> QED
  BY <1>1, <1>2, <1>3, <1>4, <1>5, <1>6, <1>7, <1>8, <1>9, <1>10, <1>11, <1>12, <1>13,
     <1>14, <1>15 DEF Next, Handle, RunTask, Watch

(* A step settles a response on these terms only, and keeps a settled one. *)
LEMMA NextSettled ==
    ASSUME IInv, [Next]_vars
    PROVE  Settled'
<1> USE NoneAssumption DEF IInv, Staged, Caused
<1>1. CASE Arrive
  BY <1>1, ArriveEffect DEF worldVars, TypeOK, Ends, Settled
<1>2. CASE Wake
  <2>1. CASE TaskDone
    BY <1>2, <2>1 DEF Wake, Finally, TaskDone, worldVars, TypeOK, Ends, Settled
  <2>2. CASE ~TaskDone
    BY <1>2, <2>2 DEF Wake, TaskDone, WatchDone, CancelTask, worldVars, TypeOK, Ends, Settled
  <2> QED
    BY <2>1, <2>2
<1>3. CASE Join
  BY <1>3 DEF Join, Finally, TaskDone, worldVars, TypeOK, Ends, Settled
<1>4. CASE Unwatch
  BY <1>4 DEF Unwatch, TaskDone, WatchDone, CancelTask, worldVars, TypeOK, Ends, Settled
<1>5. CASE Finish
  BY <1>5 DEF Finish, TaskDone, worldVars, TypeOK, Ends, Settled
<1>6. CASE Prepared
  BY <1>6 DEF Prepared, End, Matches, worldVars, TypeOK, Ends, Settled
<1>7. CASE Executed
  BY <1>7 DEF Executed, End, worldVars, TypeOK, Ends, Settled
<1>8. CASE Cancelled
  BY <1>8 DEF Cancelled, End, worldVars, TypeOK, Ends, Settled
<1>9. CASE Receive
  BY <1>9 DEF Receive, worldVars, TypeOK, Ends, Settled
<1>10. CASE WatchCancelled
  BY <1>10 DEF WatchCancelled, worldVars, TypeOK, Ends, Settled
<1>11. CASE Stop
  BY <1>11 DEF Stop, Finally, TaskDone, CancelTask, worldVars, TypeOK, Ends, Settled
<1>12. CASE Disconnect
  BY <1>12 DEF Disconnect, asyncVars, TypeOK, Ends, Settled
<1>13. CASE Shutdown
  BY <1>13 DEF Shutdown, asyncVars, TypeOK, Ends, Settled
<1>14. CASE Republish
  BY <1>14 DEF Republish, asyncVars, TypeOK, Ends, Settled
<1>15. CASE UNCHANGED vars
  BY <1>15 DEF vars, asyncVars, worldVars, TypeOK, Ends, Settled
<1> QED
  BY <1>1, <1>2, <1>3, <1>4, <1>5, <1>6, <1>7, <1>8, <1>9, <1>10, <1>11, <1>12, <1>13,
     <1>14, <1>15 DEF Next, Handle, RunTask, Watch

(* The invariant holds throughout.                                         *)
LEMMA InvHolds == Spec => []IInv
<1>1. IInv /\ [Next]_vars => IInv'
  BY NextTypes, NextStaged, NextCaused, NextEnds, NextSettled DEF IInv
<1> QED
  BY <1>1, InitInv, PTL DEF Spec

-----------------------------------------------------------------------------
(* What follows.                                                           *)

(* The variables stay in their domains, and a task has an outcome just     *)
(* when it is done (_until_disconnect's two tasks).                        *)
THEOREM TypeCorrect == Spec => []TypeOK
<1>1. IInv => TypeOK
  BY DEF IInv
<1> QED
  BY <1>1, InvHolds, PTL

(* However often and wherever the handler is cancelled, its query and its  *)
(* watcher have ended when it responds: _until_disconnect's finally.       *)
THEOREM NothingIsLeft == Spec => []NothingOutlivesTheRequest
<1>1. IInv => NothingOutlivesTheRequest
  BY DEF IInv, Staged
<1> QED
  BY <1>1, InvHolds, PTL

(* The executor gets one cancel for a disconnect and one at most for each  *)
(* cancel of the handler, for any number of those.                         *)
THEOREM CancelsAreCaused == Spec => []CancelsHaveCauses
<1>1. IInv => CancelsHaveCauses
  BY DEF IInv, Caused
<1> QED
  BY <1>1, InvHolds, PTL

(* Whatever meets whatever, a result, a QUERY_TIMEOUT and a cancellation   *)
(* are answered only for a query that ended that way                       *)
(* (_until_disconnect's three ways out).                                   *)
THEOREM AnswersAreTheQuerys == Spec => []AnswersForItsQuery
<1>1. IInv => AnswersForItsQuery
  BY DEF IInv, Settled, AnswersForItsQuery
<1> QED
  BY <1>1, InvHolds, PTL
=============================================================================
