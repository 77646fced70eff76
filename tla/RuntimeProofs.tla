--------------------------- MODULE RuntimeProofs ---------------------------
(***************************************************************************)
(* What holds of Runtime for every set of sources, every grace and clock,  *)
(* and any number of signals wherever they come.                           *)
(***************************************************************************)
EXTENDS Runtime, SequenceTheorems, TLAPS

USE DEF Phases, Steps, CleanupSteps, Metadata, Query

-----------------------------------------------------------------------------
(* The inductive invariant.                                                *)

Calls == 1 .. Len(calls)

(* A call of the trigger that has set _started and has not returned.       *)
Beyond == {"test", "set", "refuse", "stop"}

(* Some call in progress is at one of these statements.                    *)
InProgress(steps) == \E i \in Calls : calls[i] \in steps

(* The stack of trigger calls: whoever came in after _started was set does *)
(* nothing but look at it, so that the call which is about to set the      *)
(* deadline is the only one.                                               *)
Stack ==
    /\ \A i \in Calls : calls[i] \in Beyond => started
    /\ \A i, j \in Calls : i < j /\ calls[i] \in Beyond => calls[j] = "check"
    /\ \A i \in Calls : calls[i] = "set" => deadline = None

(* What the trigger promises has been done or will be, by a call that is   *)
(* still on the stack.                                                     *)
Promised ==
    /\ started => deadline # None \/ InProgress({"test", "set"})
    /\ started => ~accepting \/ InProgress({"test", "set", "refuse"})
    /\ started => ~admitting \/ InProgress(Beyond)
    /\ phase = "leaving" => started \/ ~Idle

(* The deadline is at most a grace away.                                   *)
Bounded == deadline # None => deadline <= now + Grace * Parts

(* What the cleanup has attempted when it is in a phase, and what comes of *)
(* its errors.                                                             *)
Attempts ==
    /\ phase \in {"probing", "serving", "stopping", "leaving"} => tried = <<>>
    /\ phase = "query_drain" => tried = <<"query_drain">>
    /\ phase = "query_executor" =>
           tried \in {<<"query_drain", "query_executor">>, <<"query_executor">>}
    /\ phase = "catalog" =>
           tried \in {<<"query_drain", "query_executor", "catalog">>,
                      <<"query_executor", "catalog">>}
    /\ EveryStepIsTried

(* A source whose metadata may be served has published some.               *)
Published == \A s \in Sources : metadata[s] \in {"healthy", "stale"} => s \in admitted

IInv == TypeOK /\ Stack /\ Promised /\ DrainsClosedGates /\ Bounded /\ Attempts /\ Published

-----------------------------------------------------------------------------
(* The stack of calls.                                                     *)

(* A signal puts a call on top, at its first statement.                    *)
LEMMA Pushed ==
    ASSUME TypeOK, calls' = Called
    PROVE  /\ calls' \in Seq(Steps) /\ Len(calls) \in Nat /\ Len(calls') = Len(calls) + 1
           /\ calls'[Len(calls')] = "check"
           /\ \A i \in Calls : calls'[i] = calls[i]
BY DEF TypeOK, Called, Calls

(* The call on top goes on: the others stay where they are.                *)
LEMMA Moved ==
    ASSUME TypeOK, ~Idle, NEW step \in Steps, GoTo(step)
    PROVE  /\ calls' \in Seq(Steps) /\ Len(calls) \in Nat \ {0} /\ Len(calls') = Len(calls)
           /\ calls'[Len(calls)] = step
           /\ \A i \in 1 .. (Len(calls) - 1) : calls'[i] = calls[i]
<1>1. Len(calls) \in Nat \ {0} /\ Len(calls) \in 1 .. Len(calls)
  BY EmptySeq, LenProperties DEF TypeOK, Idle
<1>2. calls' = [calls EXCEPT ![Len(calls)] = step]
  BY DEF GoTo, Top
<1> QED
  BY <1>1, <1>2, ExceptSeq DEF TypeOK

(* It returns.                                                             *)
LEMMA Popped ==
    ASSUME TypeOK, ~Idle, GoTo("return")
    PROVE  /\ calls' \in Seq(Steps) /\ Len(calls) \in Nat \ {0} /\ Len(calls') = Len(calls) - 1
           /\ \A i \in 1 .. (Len(calls) - 1) : calls'[i] = calls[i]
<1>1. Len(calls) \in Nat \ {0}
  BY EmptySeq DEF TypeOK, Idle
<1>2. calls' = SubSeq(calls, 1, Len(calls) - 1)
  BY DEF GoTo, Top
<1>3. \A i \in 1 .. (Len(calls) - 1) : calls[i] \in Steps
  BY <1>1, ElementOfSeq DEF TypeOK
<1> DEFINE n == Len(calls) - 1
           S == Steps
<1>4. n \in Int /\ 1 \in Int /\ \A i \in 1 .. n : calls[i] \in S
  BY <1>1, <1>3
<1> HIDE DEF n, S
<1>5. /\ SubSeq(calls, 1, n) \in Seq(S)
      /\ Len(SubSeq(calls, 1, n)) = IF 1 <= n THEN n - 1 + 1 ELSE 0
      /\ \A i \in 1 .. n - 1 + 1 : SubSeq(calls, 1, n)[i] = calls[1 + i - 1]
  BY <1>4, SubSeqProperties
<1>6. \A i \in 1 .. n : SubSeq(calls, 1, n)[i] = calls[i]
  BY <1>1, <1>5 DEF n
<1>7. n \in Nat
  BY <1>1 DEF n
<1>8. Len(SubSeq(calls, 1, n)) = n
  BY <1>5, <1>7
<1> QED
  BY <1>1, <1>2, <1>5, <1>6, <1>8 DEF n, S

(* The steps of the trigger, by the statement of the call on top.          *)
Stepped(n) ==
    \/ /\ calls[n] = "check" /\ ~started /\ calls'[n] = "mark"
       /\ UNCHANGED <<started, deadline, accepting, admitting>>
    \/ /\ calls[n] = "mark" /\ calls'[n] = "test" /\ started' = TRUE
       /\ UNCHANGED <<deadline, accepting, admitting>>
    \/ /\ calls[n] = "test" /\ calls'[n] = IF deadline = None THEN "set" ELSE "refuse"
       /\ UNCHANGED <<started, deadline, accepting, admitting>>
    \/ /\ calls[n] = "set" /\ calls'[n] = "refuse" /\ deadline' = now + Grace * Parts
       /\ UNCHANGED <<started, accepting, admitting>>
    \/ /\ calls[n] = "refuse" /\ calls'[n] = "stop" /\ accepting' = FALSE
       /\ UNCHANGED <<started, deadline, admitting>>

Returned(n) ==
    \/ /\ calls[n] = "check" /\ started
       /\ UNCHANGED <<started, deadline, accepting, admitting>>
    \/ /\ calls[n] = "stop" /\ admitting' = FALSE
       /\ UNCHANGED <<started, deadline, accepting>>

(* A step of the trigger moves the call on top, or it returns.             *)
LEMMA TriggerStep ==
    ASSUME TypeOK, RunTrigger
    PROVE  /\ ~Idle /\ Len(calls) \in Nat \ {0} /\ calls' \in Seq(Steps)
           /\ \A i \in 1 .. (Len(calls) - 1) : calls'[i] = calls[i]
           /\ \/ Len(calls') = Len(calls) /\ Stepped(Len(calls))
              \/ Len(calls') = Len(calls) - 1 /\ Returned(Len(calls))
<1>0. CASE Check
  <2>1. ~Idle /\ calls[Len(calls)] = "check" /\ UNCHANGED <<started, deadline, accepting, admitting>>
    BY <1>0 DEF Check, At, Top
  <2>2. CASE started
    <3>1. GoTo("return")
      BY <1>0, <2>2 DEF Check
    <3> QED
      BY <2>1, <2>2, <3>1, Popped DEF Returned
  <2>3. CASE ~started
    <3>1. GoTo("mark")
      BY <1>0, <2>3 DEF Check, Following
    <3> QED
      BY <2>1, <2>3, <3>1, Moved DEF Stepped
  <2> QED
    BY <2>2, <2>3
<1>1. CASE Mark
  <2>1. ~Idle /\ GoTo("test")
    BY <1>1 DEF Mark, At, Following
  <2> QED
    BY <1>1, <2>1, Moved DEF Mark, At, Top, Stepped
<1>2. CASE Test
  <2> DEFINE next == IF deadline = None THEN "set" ELSE "refuse"
  <2>1. ~Idle /\ GoTo(next) /\ next \in Steps
    BY <1>2 DEF Test, At, Following
  <2> HIDE DEF next
  <2>2. calls'[Len(calls)] = next /\ Len(calls') = Len(calls) /\ calls' \in Seq(Steps)
        /\ Len(calls) \in Nat \ {0} /\ \A i \in 1 .. (Len(calls) - 1) : calls'[i] = calls[i]
    BY <2>1, Moved
  <2> QED
    BY <1>2, <2>1, <2>2 DEF next, Test, At, Top, Stepped
<1>3. CASE SetDeadline
  <2>1. ~Idle /\ GoTo("refuse")
    BY <1>3 DEF SetDeadline, At, Following
  <2> QED
    BY <1>3, <2>1, Moved DEF SetDeadline, At, Top, Stepped
<1>4. CASE Refuse
  <2>1. ~Idle /\ GoTo("stop")
    BY <1>4 DEF Refuse, At, Following
  <2> QED
    BY <1>4, <2>1, Moved DEF Refuse, At, Top, Stepped
<1>5. CASE StopAdmission
  <2>1. ~Idle /\ GoTo("return")
    BY <1>5 DEF StopAdmission, At, Following
  <2> QED
    BY <1>5, <2>1, Popped DEF StopAdmission, At, Top, Returned
<1> QED
  BY <1>0, <1>1, <1>2, <1>3, <1>4, <1>5 DEF RunTrigger

-----------------------------------------------------------------------------
(* Arithmetic of the deadline.                                             *)

(* The grace in units of the clock.                                        *)
LEMMA GraceUnits == Grace * Parts \in Nat
BY PartsAssumption

(* Rounding up: the least number of milliseconds that covers the units.    *)
LEMMA RoundsUp ==
    ASSUME NEW units \in Nat
    PROVE  /\ RoundUp(units) \in Nat
           /\ units <= RoundUp(units) * Parts /\ RoundUp(units) * Parts <= units + Parts - 1
           /\ units <= Grace * Parts => RoundUp(units) <= Grace
<1> DEFINE q == (units + Parts - 1) \div Parts
<1> USE PartsAssumption
<1>1. q \in Nat /\ q * Parts <= units + Parts - 1
  OBVIOUS
<1>2. units <= q * Parts
  OBVIOUS
<1>3. units <= Grace * Parts => q <= Grace
  OBVIOUS
<1> QED
  BY <1>1, <1>2, <1>3 DEF RoundUp

(* remaining_ms is between 0 and the grace.                                *)
LEMMA RemainingTypes ==
    ASSUME NEW end \in Nat, now \in Nat
    PROVE  Remaining(end) \in 0..Grace
<1>1. CASE end > now
  <2>1. end - now \in Nat
    BY <1>1
  <2>2. RoundUp(end - now) \in Nat
    BY <2>1, RoundsUp
  <2> QED
    BY <1>1, <2>2, PartsAssumption DEF Remaining
<1>2. CASE ~(end > now)
  BY <1>2, PartsAssumption DEF Remaining
<1> QED
  BY <1>1, <1>2

(* Sequences of two and of three steps, as they are built.                 *)
LEMMA AppendTwo ==
    ASSUME NEW x \in CleanupSteps, NEW y \in CleanupSteps
    PROVE  Append(<<x>>, y) = <<x, y>>
<1>1. /\ <<x>> \in Seq(CleanupSteps) /\ Len(<<x>>) = 1
      /\ <<x, y>> \in Seq(CleanupSteps) /\ Len(<<x, y>>) = 2
  OBVIOUS
<1>2. /\ Append(<<x>>, y) \in Seq(CleanupSteps) /\ Len(Append(<<x>>, y)) = 2
      /\ \A i \in 1 .. 2 : Append(<<x>>, y)[i] = <<x, y>>[i]
  BY <1>1, AppendProperties
<1> QED
  BY <1>1, <1>2, SeqEqual

(* Likewise.                                                               *)
LEMMA AppendThree ==
    ASSUME NEW x \in CleanupSteps, NEW y \in CleanupSteps, NEW z \in CleanupSteps
    PROVE  Append(<<x, y>>, z) = <<x, y, z>>
<1>1. /\ <<x, y>> \in Seq(CleanupSteps) /\ Len(<<x, y>>) = 2
      /\ <<x, y, z>> \in Seq(CleanupSteps) /\ Len(<<x, y, z>>) = 3
  OBVIOUS
<1>2. /\ Append(<<x, y>>, z) \in Seq(CleanupSteps) /\ Len(Append(<<x, y>>, z)) = 3
      /\ \A i \in 1 .. 3 : Append(<<x, y>>, z)[i] = <<x, y, z>>[i]
  BY <1>1, AppendProperties
<1> QED
  BY <1>1, <1>2, SeqEqual

-----------------------------------------------------------------------------
(* Every step keeps the invariant, conjunct by conjunct.                   *)

(* A cleanup step is noted: tried, or failed.                              *)
LEMMA NotedTypes ==
    ASSUME NEW steps \in Seq(CleanupSteps), NEW step \in CleanupSteps
    PROVE  Append(steps, step) \in Seq(CleanupSteps)
BY AppendProperties

(* Types.                                                                  *)
LEMMA NextTypes ==
    ASSUME IInv, [Next]_vars
    PROVE  TypeOK'
<1> USE PartsAssumption, SignalsAssumption, NoneAssumption DEF IInv
<1>1. ASSUME NEW s \in Sources, ProbeEnds(s)
      PROVE  TypeOK'
  BY <1>1 DEF ProbeEnds, triggerVars, cleanupVars, TypeOK
<1>2. ASSUME NEW s \in Sources, MetadataReports(s)
      PROVE  TypeOK'
  BY <1>2 DEF MetadataReports, triggerVars, cleanupVars, TypeOK
<1>3. ASSUME NEW s \in Sources, QueryReports(s)
      PROVE  TypeOK'
  BY <1>3 DEF QueryReports, triggerVars, cleanupVars, TypeOK
<1>4. CASE StartServing
  BY <1>4 DEF StartServing, triggerVars, healthVars, cleanupVars, TypeOK
<1>5. CASE AbortStartup
  <2>1. tried' \in Seq(CleanupSteps) /\ failed' \in Seq(CleanupSteps)
    BY <1>5, NotedTypes DEF AbortStartup, Noted, TypeOK
  <2> QED
    BY <1>5, <2>1 DEF AbortStartup, triggerVars, healthVars, TypeOK
<1>6. CASE ServerStops
  BY <1>6, Pushed DEF ServerStops, healthVars, cleanupVars, TypeOK
<1>7. CASE Leave
  BY <1>7, Pushed DEF Leave, LeaveBy, healthVars, TypeOK
<1>8. CASE LeaveCancelled
  BY <1>8, Pushed DEF LeaveCancelled, LeaveBy, healthVars, TypeOK
<1>9. CASE BeginDrain
  <2>1. deadline' \in Nat
    <3>1. Grace * Parts \in Nat
      OBVIOUS
    <3> QED
      BY <1>9, <3>1 DEF BeginDrain, TypeOK
  <2>2. allowed' \in 0..Grace
    BY <1>9, <2>1, RemainingTypes DEF BeginDrain, TypeOK
  <2> QED
    BY <1>9, <2>1, <2>2 DEF BeginDrain, healthVars, TypeOK
<1>10. CASE DrainEnds
  <2>1. tried' \in Seq(CleanupSteps) /\ failed' \in Seq(CleanupSteps)
    BY <1>10, NotedTypes DEF DrainEnds, Noted, TypeOK
  <2> QED
    BY <1>10, <2>1 DEF DrainEnds, triggerVars, healthVars, TypeOK
<1>11. CASE ExecutorCloses
  <2>1. tried' \in Seq(CleanupSteps) /\ failed' \in Seq(CleanupSteps)
    BY <1>11, NotedTypes DEF ExecutorCloses, Noted, TypeOK
  <2> QED
    BY <1>11, <2>1 DEF ExecutorCloses, triggerVars, healthVars, TypeOK
<1>12. CASE CatalogCloses
  <2>1. tried' \in Seq(CleanupSteps) /\ failed' \in Seq(CleanupSteps)
    BY <1>12, NotedTypes DEF CatalogCloses, Noted, TypeOK
  <2>2. failed' # <<>> => failed'[1] \in CleanupSteps
    <3>1. failed' # <<>> => 1 \in 1 .. Len(failed')
      BY <2>1, EmptySeq
    <3> QED
      BY <2>1, <3>1, ElementOfSeq
  <2>3. raised' \in CleanupSteps \union {"none", "interrupted"}
    BY <1>12, <2>2 DEF CatalogCloses, Outcome
  <2> QED
    BY <1>12, <2>1, <2>3 DEF CatalogCloses, triggerVars, healthVars, TypeOK
<1>13. CASE RunTrigger
  <2>1. calls' \in Seq(Steps) /\ (Stepped(Len(calls)) \/ Returned(Len(calls)))
    BY <1>13, TriggerStep
  <2>2. now + Grace * Parts \in Nat
    <3>1. now \in Nat /\ Grace * Parts \in Nat
      BY DEF TypeOK
    <3> QED
      BY <3>1
  <2>3. deadline' \in Nat \union {None}
    BY <2>1, <2>2, Zenon DEF Stepped, Returned, TypeOK
  <2>4. started' \in BOOLEAN /\ accepting' \in BOOLEAN /\ admitting' \in BOOLEAN
    BY <2>1, Zenon DEF Stepped, Returned, TypeOK
  <2> QED
    BY <1>13, <2>1, <2>3, <2>4 DEF RunTrigger, healthVars, cleanupVars, TypeOK
<1>14. CASE Signal
  BY <1>14, Pushed DEF Signal, healthVars, cleanupVars, TypeOK
<1>15. CASE Tick
  BY <1>15 DEF Tick, triggerVars, healthVars, cleanupVars, TypeOK
<1>16. CASE UNCHANGED vars
  BY <1>16 DEF vars, triggerVars, healthVars, cleanupVars, TypeOK
<1> QED
  BY <1>1, <1>2, <1>3, <1>4, <1>5, <1>6, <1>7, <1>8, <1>9, <1>10, <1>11, <1>12, <1>13, <1>14, <1>15, <1>16 DEF Next, Cleanup

(* A call that comes in while another is beyond its first two statements   *)
(* finds _started set.                                                     *)
LEMMA NextStack ==
    ASSUME IInv, [Next]_vars
    PROVE  Stack'
<1> USE DEF IInv
<1>1. ASSUME NEW s \in Sources, ProbeEnds(s)
      PROVE  Stack'
  BY <1>1 DEF ProbeEnds, triggerVars, cleanupVars, Stack, Calls, Beyond
<1>2. ASSUME NEW s \in Sources, MetadataReports(s)
      PROVE  Stack'
  BY <1>2 DEF MetadataReports, triggerVars, cleanupVars, Stack, Calls, Beyond
<1>3. ASSUME NEW s \in Sources, QueryReports(s)
      PROVE  Stack'
  BY <1>3 DEF QueryReports, triggerVars, cleanupVars, Stack, Calls, Beyond
<1>4. CASE StartServing
  BY <1>4 DEF StartServing, triggerVars, healthVars, cleanupVars, Stack, Calls, Beyond
<1>5. CASE AbortStartup
  BY <1>5 DEF AbortStartup, healthVars, Stack, Calls, Beyond
<1>6. CASE ServerStops
  <2>1. calls' = Called /\ UNCHANGED <<started, deadline>>
    BY <1>6 DEF ServerStops
  <2> QED
    BY <2>1, Pushed DEF Stack, Calls, Beyond
<1>7. CASE Leave
  <2>1. calls' = Called /\ UNCHANGED <<started, deadline>>
    BY <1>7 DEF Leave, LeaveBy
  <2> QED
    BY <2>1, Pushed DEF Stack, Calls, Beyond
<1>8. CASE LeaveCancelled
  <2>1. calls' = Called /\ UNCHANGED <<started, deadline>>
    BY <1>8 DEF LeaveCancelled, LeaveBy
  <2> QED
    BY <2>1, Pushed DEF Stack, Calls, Beyond
<1>9. CASE BeginDrain
  BY <1>9 DEF BeginDrain, Idle, TypeOK, Stack, Calls, Beyond
<1>10. CASE DrainEnds
  BY <1>10 DEF DrainEnds, Noted, healthVars, Stack, Calls, Beyond
<1>11. CASE ExecutorCloses
  BY <1>11 DEF ExecutorCloses, Noted, triggerVars, healthVars, Stack, Calls, Beyond
<1>12. CASE CatalogCloses
  BY <1>12 DEF CatalogCloses, Noted, Outcome, triggerVars, healthVars, Stack, Calls, Beyond
<1>13. CASE RunTrigger
  <2> DEFINE n == Len(calls)
  <2>1. n \in Nat \ {0} /\ \A i \in 1 .. (n - 1) : calls'[i] = calls[i]
    BY <1>13, TriggerStep
  <2> HIDE DEF n
  <2>2. CASE Len(calls') = n /\ Stepped(n)
    BY <2>1, <2>2 DEF Stepped, Stack, Calls, Beyond, n
  <2>3. CASE Len(calls') = n - 1 /\ Returned(n)
    BY <2>1, <2>3 DEF Returned, Stack, Calls, Beyond, n
  <2> QED
    BY <1>13, <2>2, <2>3, TriggerStep DEF n
<1>14. CASE Signal
  <2>1. calls' = Called /\ UNCHANGED <<started, deadline>>
    BY <1>14 DEF Signal
  <2> QED
    BY <2>1, Pushed DEF Stack, Calls, Beyond
<1>15. CASE Tick
  BY <1>15 DEF Tick, triggerVars, healthVars, cleanupVars, Stack, Calls, Beyond
<1>16. CASE UNCHANGED vars
  BY <1>16 DEF vars, triggerVars, healthVars, cleanupVars, Stack, Calls, Beyond
<1> QED
  BY <1>1, <1>2, <1>3, <1>4, <1>5, <1>6, <1>7, <1>8, <1>9, <1>10, <1>11, <1>12, <1>13, <1>14, <1>15, <1>16 DEF Next, Cleanup

(* A step of the trigger keeps the promise or passes it on to the next      *)
(* statement; a call that returns has nothing left to do.                  *)
LEMMA NextPromised ==
    ASSUME IInv, [Next]_vars
    PROVE  Promised'
<1> USE DEF IInv
<1>1. ASSUME NEW s \in Sources, ProbeEnds(s)
      PROVE  Promised'
  BY <1>1 DEF ProbeEnds, triggerVars, cleanupVars, Promised, Idle, Calls, InProgress, Beyond
<1>2. ASSUME NEW s \in Sources, MetadataReports(s)
      PROVE  Promised'
  BY <1>2 DEF MetadataReports, triggerVars, cleanupVars, Promised, Idle, Calls, InProgress, Beyond
<1>3. ASSUME NEW s \in Sources, QueryReports(s)
      PROVE  Promised'
  BY <1>3 DEF QueryReports, triggerVars, cleanupVars, Promised, Idle, Calls, InProgress, Beyond
<1>4. CASE StartServing
  BY <1>4 DEF StartServing, triggerVars, healthVars, cleanupVars, Promised, Idle, Calls, InProgress, Beyond
<1>5. CASE AbortStartup
  BY <1>5 DEF AbortStartup, healthVars, Promised, Idle, Calls, InProgress, Beyond
<1>6. CASE ServerStops
  <2>1. calls' = Called /\ UNCHANGED <<started, deadline, accepting, admitting>> /\ phase' = "stopping"
    BY <1>6 DEF ServerStops
  <2>2. ~Idle'
    BY <2>1, Pushed DEF Idle
  <2>3. \A i \in Calls : i \in Calls' /\ calls'[i] = calls[i]
    BY <2>1, Pushed DEF Calls
  <2> QED
    BY <2>1, <2>2, <2>3 DEF Promised, InProgress, Beyond
<1>7. CASE Leave
  <2>1. calls' = Called /\ UNCHANGED <<started, deadline, accepting, admitting>> /\ phase' = "leaving"
    BY <1>7 DEF Leave, LeaveBy
  <2>2. ~Idle'
    BY <2>1, Pushed DEF Idle
  <2>3. \A i \in Calls : i \in Calls' /\ calls'[i] = calls[i]
    BY <2>1, Pushed DEF Calls
  <2> QED
    BY <2>1, <2>2, <2>3 DEF Promised, InProgress, Beyond
<1>8. CASE LeaveCancelled
  <2>1. calls' = Called /\ UNCHANGED <<started, deadline, accepting, admitting>> /\ phase' = "leaving"
    BY <1>8 DEF LeaveCancelled, LeaveBy
  <2>2. ~Idle'
    BY <2>1, Pushed DEF Idle
  <2>3. \A i \in Calls : i \in Calls' /\ calls'[i] = calls[i]
    BY <2>1, Pushed DEF Calls
  <2> QED
    BY <2>1, <2>2, <2>3 DEF Promised, InProgress, Beyond
<1>9. CASE BeginDrain
  <2>1. deadline' # None
    BY <1>9, NoneAssumption, GraceUnits DEF BeginDrain, TypeOK
  <2> QED
    BY <1>9, <2>1 DEF BeginDrain, Promised, Idle, Calls, InProgress, Beyond
<1>10. CASE DrainEnds
  BY <1>10 DEF DrainEnds, Noted, healthVars, Promised, Idle, Calls, InProgress, Beyond
<1>11. CASE ExecutorCloses
  BY <1>11 DEF ExecutorCloses, Noted, triggerVars, healthVars, Promised, Idle, Calls, InProgress, Beyond
<1>12. CASE CatalogCloses
  BY <1>12 DEF CatalogCloses, Noted, Outcome, triggerVars, healthVars, Promised, Idle, Calls, InProgress, Beyond
<1>13. CASE RunTrigger
  <2> DEFINE n == Len(calls)
  <2>1. n \in Nat \ {0} /\ (\A i \in 1 .. (n - 1) : calls'[i] = calls[i]) /\ ~Idle /\ phase' = phase
    BY <1>13, TriggerStep DEF RunTrigger
  <2> HIDE DEF n
  <2>2. CASE Len(calls') = n /\ Stepped(n)
    <3>1. ~Idle'
      BY <2>1, <2>2 DEF Idle
    <3>2. n \in Calls'
      BY <2>1, <2>2 DEF Calls
    <3>3. \A i \in Calls : i # n => i \in Calls' /\ calls'[i] = calls[i]
      BY <2>1, <2>2 DEF Calls, n
    <3>4. \A S : InProgress(S) => calls[n] \in S \/ InProgress(S)'
      BY <3>3 DEF InProgress
    <3>5. \A S : calls'[n] \in S => InProgress(S)'
      BY <3>2 DEF InProgress
    <3>6. (started => deadline # None \/ InProgress({"test", "set"}))'
      <4> DEFINE S == {"test", "set"}
      <4>1. (InProgress(S) => calls[n] \in S \/ InProgress(S)') /\ (calls'[n] \in S => InProgress(S)')
        BY <3>4, <3>5
      <4>2. started => deadline # None \/ InProgress(S)
        BY DEF Promised
      <4>3. "test" \in S /\ "set" \in S /\ "check" \notin S /\ "mark" \notin S /\ "refuse" \notin S
        OBVIOUS
      <4>4. calls[n] = "set" => deadline' # None
        BY <2>2, GraceUnits, NoneAssumption DEF Stepped, TypeOK
      <4> HIDE DEF S
      <4>5. (started => deadline # None \/ InProgress(S))'
        BY <2>2, <4>1, <4>2, <4>3, <4>4 DEF Stepped
      <4> QED
        BY <4>5 DEF S
    <3>7. (started => ~accepting \/ InProgress({"test", "set", "refuse"}))'
      <4> DEFINE S == {"test", "set", "refuse"}
      <4>1. (InProgress(S) => calls[n] \in S \/ InProgress(S)') /\ (calls'[n] \in S => InProgress(S)')
        BY <3>4, <3>5
      <4>2. started => ~accepting \/ InProgress(S)
        BY DEF Promised
      <4>3. "test" \in S /\ "set" \in S /\ "refuse" \in S /\ "check" \notin S /\ "mark" \notin S
        OBVIOUS
      <4> HIDE DEF S
      <4>4. (started => ~accepting \/ InProgress(S))'
        BY <2>2, <4>1, <4>2, <4>3 DEF Stepped
      <4> QED
        BY <4>4 DEF S
    <3>8. (started => ~admitting \/ InProgress(Beyond))'
      <4>1. (InProgress(Beyond) => calls[n] \in Beyond \/ InProgress(Beyond)')
            /\ (calls'[n] \in Beyond => InProgress(Beyond)')
        BY <3>4, <3>5 DEF Beyond
      <4>2. started => ~admitting \/ InProgress(Beyond)
        BY DEF Promised
      <4>3. /\ "test" \in Beyond /\ "set" \in Beyond /\ "refuse" \in Beyond /\ "stop" \in Beyond
            /\ "check" \notin Beyond /\ "mark" \notin Beyond
        BY DEF Beyond
      <4> QED
        BY <2>2, <4>1, <4>2, <4>3 DEF Stepped
    <3> QED
      BY <2>1, <2>2, <3>1, <3>6, <3>7, <3>8 DEF Promised
  <2>3. CASE Len(calls') = n - 1 /\ Returned(n)
    <3>1. \A i \in Calls : i # n => i \in Calls' /\ calls'[i] = calls[i]
      BY <2>1, <2>3 DEF Calls, n
    <3>2. started
      BY <2>1, <2>3 DEF Returned, Stack, Calls, Beyond, n
    <3>3. \A S : InProgress(S) => calls[n] \in S \/ InProgress(S)'
      BY <3>1 DEF InProgress
    <3>4. InProgress({"test", "set"}) => InProgress({"test", "set"})'
      BY <2>3, <3>3 DEF Returned
    <3>5. InProgress({"test", "set", "refuse"}) => InProgress({"test", "set", "refuse"})'
      BY <2>3, <3>3 DEF Returned
    <3>6. InProgress(Beyond) => ~admitting' \/ InProgress(Beyond)'
      <4>1. InProgress(Beyond) => calls[n] \in Beyond \/ InProgress(Beyond)'
        BY <3>3 DEF Beyond
      <4> QED
        BY <2>3, <4>1 DEF Returned, Beyond
    <3>7. UNCHANGED <<started, deadline, accepting>>
      BY <2>3 DEF Returned
    <3>8. ~admitting => ~admitting'
      BY <2>3 DEF Returned
    <3> HIDE <2>3
    <3> QED
      BY <2>1, <3>2, <3>4, <3>5, <3>6, <3>7, <3>8 DEF Promised
  <2> QED
    BY <1>13, <2>2, <2>3, TriggerStep DEF n
<1>14. CASE Signal
  <2>1. calls' = Called /\ UNCHANGED <<started, deadline, accepting, admitting>> /\ phase' = phase
    BY <1>14 DEF Signal
  <2>2. ~Idle'
    BY <2>1, Pushed DEF Idle
  <2>3. \A i \in Calls : i \in Calls' /\ calls'[i] = calls[i]
    BY <2>1, Pushed DEF Calls
  <2> QED
    BY <2>1, <2>2, <2>3 DEF Promised, InProgress, Beyond
<1>15. CASE Tick
  BY <1>15 DEF Tick, triggerVars, healthVars, cleanupVars, Promised, Idle, Calls, InProgress, Beyond
<1>16. CASE UNCHANGED vars
  BY <1>16 DEF vars, triggerVars, healthVars, cleanupVars, Promised, Idle, Calls, InProgress, Beyond
<1> QED
  BY <1>1, <1>2, <1>3, <1>4, <1>5, <1>6, <1>7, <1>8, <1>9, <1>10, <1>11, <1>12, <1>13, <1>14, <1>15, <1>16 DEF Next, Cleanup

(* Nothing is in progress when the drain begins, so what was promised has  *)
(* been done; nothing opens a gate again.                                  *)
LEMMA NextGates ==
    ASSUME IInv, [Next]_vars
    PROVE  DrainsClosedGates'
<1> USE DEF IInv
<1>1. ASSUME NEW s \in Sources, ProbeEnds(s)
      PROVE  DrainsClosedGates'
  BY <1>1 DEF ProbeEnds, triggerVars, cleanupVars, DrainsClosedGates
<1>2. ASSUME NEW s \in Sources, MetadataReports(s)
      PROVE  DrainsClosedGates'
  BY <1>2 DEF MetadataReports, triggerVars, cleanupVars, DrainsClosedGates
<1>3. ASSUME NEW s \in Sources, QueryReports(s)
      PROVE  DrainsClosedGates'
  BY <1>3 DEF QueryReports, triggerVars, cleanupVars, DrainsClosedGates
<1>4. CASE StartServing
  BY <1>4 DEF StartServing, triggerVars, healthVars, cleanupVars, DrainsClosedGates
<1>5. CASE AbortStartup
  BY <1>5 DEF AbortStartup, healthVars, DrainsClosedGates
<1>6. CASE ServerStops
  BY <1>6 DEF ServerStops, healthVars, cleanupVars, DrainsClosedGates
<1>7. CASE Leave
  BY <1>7 DEF Leave, LeaveBy, healthVars, DrainsClosedGates
<1>8. CASE LeaveCancelled
  BY <1>8 DEF LeaveCancelled, LeaveBy, healthVars, DrainsClosedGates
<1>9. CASE BeginDrain
  <2>1. started /\ \A S : ~InProgress(S)
    BY <1>9 DEF BeginDrain, Promised, Idle, InProgress, Calls
  <2>2. deadline # None /\ ~accepting /\ ~admitting
    BY <2>1 DEF Promised
  <2> QED
    BY <1>9, <2>2 DEF BeginDrain, DrainsClosedGates
<1>10. CASE DrainEnds
  BY <1>10 DEF DrainEnds, Noted, healthVars, DrainsClosedGates
<1>11. CASE ExecutorCloses
  BY <1>11 DEF ExecutorCloses, Noted, triggerVars, healthVars, DrainsClosedGates
<1>12. CASE CatalogCloses
  BY <1>12 DEF CatalogCloses, Noted, Outcome, triggerVars, healthVars, DrainsClosedGates
<1>13. CASE RunTrigger
  <2>1. phase' = phase /\ (Stepped(Len(calls)) \/ Returned(Len(calls)))
    BY <1>13, TriggerStep DEF RunTrigger
  <2>2. CASE phase = "query_drain"
    <3>1. ~accepting /\ ~admitting /\ deadline # None
      BY <2>2 DEF DrainsClosedGates
    <3>2. calls[Len(calls)] # "set"
      <4>1. Len(calls) \in Calls
        BY <1>13, TriggerStep DEF Calls
      <4> QED
        BY <3>1, <4>1 DEF Stack
    <3> QED
      BY <2>1, <3>1, <3>2 DEF Stepped, Returned, DrainsClosedGates
  <2>3. CASE phase # "query_drain"
    BY <2>1, <2>3 DEF DrainsClosedGates
  <2> QED
    BY <2>2, <2>3
<1>14. CASE Signal
  BY <1>14 DEF Signal, healthVars, cleanupVars, DrainsClosedGates
<1>15. CASE Tick
  BY <1>15 DEF Tick, triggerVars, healthVars, cleanupVars, DrainsClosedGates
<1>16. CASE UNCHANGED vars
  BY <1>16 DEF vars, triggerVars, healthVars, cleanupVars, DrainsClosedGates
<1> QED
  BY <1>1, <1>2, <1>3, <1>4, <1>5, <1>6, <1>7, <1>8, <1>9, <1>10, <1>11, <1>12, <1>13, <1>14, <1>15, <1>16 DEF Next, Cleanup

(* The deadline is set a grace ahead, and the clock only runs on.          *)
LEMMA NextBounded ==
    ASSUME IInv, [Next]_vars
    PROVE  Bounded'
<1> USE DEF IInv
<1>1. ASSUME NEW s \in Sources, ProbeEnds(s)
      PROVE  Bounded'
  BY <1>1 DEF ProbeEnds, triggerVars, cleanupVars, Bounded
<1>2. ASSUME NEW s \in Sources, MetadataReports(s)
      PROVE  Bounded'
  BY <1>2 DEF MetadataReports, triggerVars, cleanupVars, Bounded
<1>3. ASSUME NEW s \in Sources, QueryReports(s)
      PROVE  Bounded'
  BY <1>3 DEF QueryReports, triggerVars, cleanupVars, Bounded
<1>4. CASE StartServing
  BY <1>4 DEF StartServing, triggerVars, healthVars, cleanupVars, Bounded
<1>5. CASE AbortStartup
  BY <1>5 DEF AbortStartup, healthVars, Bounded
<1>6. CASE ServerStops
  BY <1>6 DEF ServerStops, healthVars, cleanupVars, Bounded
<1>7. CASE Leave
  BY <1>7 DEF Leave, LeaveBy, healthVars, Bounded
<1>8. CASE LeaveCancelled
  BY <1>8 DEF LeaveCancelled, LeaveBy, healthVars, Bounded
<1>9. CASE BeginDrain
  BY <1>9, GraceUnits DEF BeginDrain, Bounded, TypeOK
<1>10. CASE DrainEnds
  BY <1>10 DEF DrainEnds, Noted, healthVars, Bounded
<1>11. CASE ExecutorCloses
  BY <1>11 DEF ExecutorCloses, Noted, triggerVars, healthVars, Bounded
<1>12. CASE CatalogCloses
  BY <1>12 DEF CatalogCloses, Noted, Outcome, triggerVars, healthVars, Bounded
<1>13. CASE RunTrigger
  <2>1. now' = now /\ (deadline' = deadline \/ deadline' = now + Grace * Parts)
    BY <1>13, TriggerStep DEF RunTrigger, Stepped, Returned
  <2> QED
    BY <2>1, GraceUnits DEF Bounded, TypeOK
<1>14. CASE Signal
  BY <1>14 DEF Signal, healthVars, cleanupVars, Bounded
<1>15. CASE Tick
  <2>1. now' = now + 1 /\ deadline' = deadline
    BY <1>15 DEF Tick, triggerVars
  <2> QED
    BY <2>1, GraceUnits DEF Bounded, TypeOK
<1>16. CASE UNCHANGED vars
  BY <1>16 DEF vars, triggerVars, healthVars, cleanupVars, Bounded
<1> QED
  BY <1>1, <1>2, <1>3, <1>4, <1>5, <1>6, <1>7, <1>8, <1>9, <1>10, <1>11, <1>12, <1>13, <1>14, <1>15, <1>16 DEF Next, Cleanup

(* Each step of the cleanup follows the one before, whatever became of it. *)
LEMMA NextAttempts ==
    ASSUME IInv, [Next]_vars
    PROVE  Attempts'
<1> USE DEF IInv
<1>1. ASSUME NEW s \in Sources, ProbeEnds(s)
      PROVE  Attempts'
  BY <1>1 DEF ProbeEnds, triggerVars, cleanupVars, Attempts, EveryStepIsTried
<1>2. ASSUME NEW s \in Sources, MetadataReports(s)
      PROVE  Attempts'
  BY <1>2 DEF MetadataReports, triggerVars, cleanupVars, Attempts, EveryStepIsTried
<1>3. ASSUME NEW s \in Sources, QueryReports(s)
      PROVE  Attempts'
  BY <1>3 DEF QueryReports, triggerVars, cleanupVars, Attempts, EveryStepIsTried
<1>4. CASE StartServing
  BY <1>4 DEF StartServing, triggerVars, healthVars, cleanupVars, Attempts, EveryStepIsTried
<1>5. CASE AbortStartup
  BY <1>5 DEF AbortStartup, healthVars, Attempts, EveryStepIsTried
<1>6. CASE ServerStops
  BY <1>6 DEF ServerStops, healthVars, cleanupVars, Attempts, EveryStepIsTried
<1>7. CASE Leave
  BY <1>7 DEF Leave, LeaveBy, healthVars, Attempts, EveryStepIsTried
<1>8. CASE LeaveCancelled
  BY <1>8 DEF LeaveCancelled, LeaveBy, healthVars, Attempts, EveryStepIsTried
<1>9. CASE BeginDrain
  BY <1>9 DEF BeginDrain, healthVars, Attempts, EveryStepIsTried
<1>10. CASE DrainEnds
  <2>1. tried' = <<"query_drain", "query_executor">>
    BY <1>10, AppendTwo DEF DrainEnds, Attempts
  <2> QED
    BY <1>10, <2>1 DEF DrainEnds, Attempts, EveryStepIsTried
<1>11. CASE ExecutorCloses
  <2>1. tried' \in {<<"query_drain", "query_executor", "catalog">>,
                    <<"query_executor", "catalog">>}
    BY <1>11, AppendTwo, AppendThree DEF ExecutorCloses, Attempts
  <2> QED
    BY <1>11, <2>1 DEF ExecutorCloses, Attempts, EveryStepIsTried
<1>12. CASE CatalogCloses
  BY <1>12 DEF CatalogCloses, Noted, Outcome, triggerVars, healthVars, Attempts, EveryStepIsTried
<1>13. CASE RunTrigger
  BY <1>13 DEF RunTrigger, healthVars, cleanupVars, Attempts, EveryStepIsTried
<1>14. CASE Signal
  BY <1>14 DEF Signal, healthVars, cleanupVars, Attempts, EveryStepIsTried
<1>15. CASE Tick
  BY <1>15 DEF Tick, triggerVars, healthVars, cleanupVars, Attempts, EveryStepIsTried
<1>16. CASE UNCHANGED vars
  BY <1>16 DEF vars, triggerVars, healthVars, cleanupVars, Attempts, EveryStepIsTried
<1> QED
  BY <1>1, <1>2, <1>3, <1>4, <1>5, <1>6, <1>7, <1>8, <1>9, <1>10, <1>11, <1>12, <1>13, <1>14, <1>15, <1>16 DEF Next, Cleanup

(* A snapshot is stale only if there was one.                              *)
LEMMA NextPublished ==
    ASSUME IInv, [Next]_vars
    PROVE  Published'
<1> USE DEF IInv
<1>1. ASSUME NEW s \in Sources, ProbeEnds(s)
      PROVE  Published'
  BY <1>1 DEF ProbeEnds, triggerVars, cleanupVars, TypeOK, Published
<1>2. ASSUME NEW s \in Sources, MetadataReports(s)
      PROVE  Published'
  BY <1>2 DEF MetadataReports, triggerVars, cleanupVars, TypeOK, Published
<1>3. ASSUME NEW s \in Sources, QueryReports(s)
      PROVE  Published'
  BY <1>3 DEF QueryReports, triggerVars, cleanupVars, TypeOK, Published
<1>4. CASE StartServing
  BY <1>4 DEF StartServing, triggerVars, healthVars, cleanupVars, TypeOK, Published
<1>5. CASE AbortStartup
  BY <1>5 DEF AbortStartup, healthVars, TypeOK, Published
<1>6. CASE ServerStops
  BY <1>6 DEF ServerStops, healthVars, cleanupVars, TypeOK, Published
<1>7. CASE Leave
  BY <1>7 DEF Leave, LeaveBy, healthVars, TypeOK, Published
<1>8. CASE LeaveCancelled
  BY <1>8 DEF LeaveCancelled, LeaveBy, healthVars, TypeOK, Published
<1>9. CASE BeginDrain
  BY <1>9 DEF BeginDrain, healthVars, TypeOK, Published
<1>10. CASE DrainEnds
  BY <1>10 DEF DrainEnds, Noted, healthVars, TypeOK, Published
<1>11. CASE ExecutorCloses
  BY <1>11 DEF ExecutorCloses, Noted, triggerVars, healthVars, TypeOK, Published
<1>12. CASE CatalogCloses
  BY <1>12 DEF CatalogCloses, Noted, Outcome, triggerVars, healthVars, TypeOK, Published
<1>13. CASE RunTrigger
  BY <1>13 DEF RunTrigger, healthVars, cleanupVars, TypeOK, Published
<1>14. CASE Signal
  BY <1>14 DEF Signal, healthVars, cleanupVars, TypeOK, Published
<1>15. CASE Tick
  BY <1>15 DEF Tick, triggerVars, healthVars, cleanupVars, TypeOK, Published
<1>16. CASE UNCHANGED vars
  BY <1>16 DEF vars, triggerVars, healthVars, cleanupVars, TypeOK, Published
<1> QED
  BY <1>1, <1>2, <1>3, <1>4, <1>5, <1>6, <1>7, <1>8, <1>9, <1>10, <1>11, <1>12, <1>13, <1>14, <1>15, <1>16 DEF Next, Cleanup

(* The invariant holds throughout.                                         *)
LEMMA InvHolds == Spec => []IInv
<1>1. Init => IInv
  <2> SUFFICES ASSUME Init PROVE IInv
    OBVIOUS
  <2>1. TypeOK
    <3>1. 0 \in 0..Grace /\ \A S : <<>> \in Seq(S)
      BY PartsAssumption, EmptySeq
    <3> QED
      BY <3>1 DEF Init, TypeOK
  <2>2. Stack /\ Promised
    BY DEF Init, Stack, Promised, Calls, InProgress
  <2>3. DrainsClosedGates /\ Bounded /\ Attempts /\ Published
    BY DEF Init, DrainsClosedGates, Bounded, Attempts, EveryStepIsTried, Published
  <2> QED
    BY <2>1, <2>2, <2>3 DEF IInv
<1>2. IInv /\ [Next]_vars => IInv'
  BY NextTypes, NextStack, NextPromised, NextGates, NextBounded, NextAttempts, NextPublished
     DEF IInv
<1> QED
  BY <1>1, <1>2, PTL DEF Spec

-----------------------------------------------------------------------------
(* What follows.                                                           *)

(* The variables stay in their domains (_ShutdownTrigger, OperationalState *)
(* and the lifespan).                                                      *)
THEOREM TypeCorrect == Spec => []TypeOK
<1>1. IInv => TypeOK
  BY DEF IInv
<1> QED
  BY <1>1, InvHolds, PTL

(* Only a call of the trigger sets the deadline, and not if there is one.  *)
LEMMA DeadlineStep ==
    ASSUME IInv, [Next]_vars, deadline # None
    PROVE  deadline' = deadline
<1> USE DEF IInv
<1>1. ASSUME NEW s \in Sources, ProbeEnds(s) \/ MetadataReports(s) \/ QueryReports(s)
      PROVE  deadline' = deadline
  BY <1>1 DEF ProbeEnds, MetadataReports, QueryReports, triggerVars
<1>2. CASE StartServing \/ AbortStartup \/ ServerStops \/ LeaveCancelled
  BY <1>2 DEF StartServing, AbortStartup, ServerStops, LeaveCancelled, LeaveBy, triggerVars
<1>3. CASE Cleanup
  BY <1>3 DEF Cleanup, Leave, LeaveBy, BeginDrain, DrainEnds, ExecutorCloses, CatalogCloses,
              triggerVars
<1>4. CASE RunTrigger
  <2>1. Len(calls) \in Calls /\ (Stepped(Len(calls)) \/ Returned(Len(calls)))
    BY <1>4, TriggerStep DEF Calls
  <2>2. calls[Len(calls)] # "set"
    BY <2>1 DEF Stack
  <2> QED
    BY <2>1, <2>2 DEF Stepped, Returned
<1>5. CASE Signal \/ Tick \/ UNCHANGED vars
  BY <1>5 DEF Signal, Tick, vars, triggerVars
<1> QED
  BY <1>1, <1>2, <1>3, <1>4, <1>5 DEF Next

(* No signal moves the shutdown deadline, however many there are and       *)
(* between whichever statements of _ShutdownTrigger they come.             *)
THEOREM OneDeadline == Spec => DeadlineStands
<1>1. IInv /\ [Next]_vars => [deadline # None => deadline' = deadline]_vars
  BY DeadlineStep
<1> QED
  BY <1>1, InvHolds, PTL DEF Spec, DeadlineStands

(* Every way into the drain has closed the gates and set a deadline.       *)
THEOREM GatesAreClosed == Spec => []DrainsClosedGates
<1>1. IInv => DrainsClosedGates
  BY DEF IInv
<1> QED
  BY <1>1, InvHolds, PTL

(* The drain begins with the deadline of the trigger.                      *)
LEMMA RestOfTheGrace ==
    ASSUME IInv, [Next]_vars, phase' = "query_drain", phase # "query_drain"
    PROVE  IF deadline <= now THEN allowed' = 0
           ELSE /\ allowed' <= Grace
                /\ now + allowed' * Parts \in deadline .. deadline + Parts - 1
<1>1. BeginDrain
  BY DEF Next, Cleanup, ProbeEnds, StartServing, AbortStartup, MetadataReports, QueryReports,
         RunTrigger, Signal, ServerStops, LeaveBy, Leave, LeaveCancelled, DrainEnds,
         ExecutorCloses, CatalogCloses, Tick, vars
<1>2. started /\ deadline # None
  BY <1>1 DEF BeginDrain, IInv, Promised, Idle, InProgress, Calls
<1>3. deadline \in Nat /\ now \in Nat /\ deadline <= now + Grace * Parts
  BY <1>2 DEF IInv, TypeOK, Bounded
<1>4. allowed' = Remaining(deadline)
  BY <1>1, <1>2 DEF BeginDrain
<1>5. CASE deadline <= now
  <2>1. ~(deadline > now)
    BY <1>3, <1>5
  <2> QED
    BY <1>4, <1>5, <2>1, PartsAssumption DEF Remaining
<1>6. CASE ~(deadline <= now)
  <2> DEFINE units == deadline - now
  <2>1. units \in Nat /\ units <= Grace * Parts /\ deadline > now
    BY <1>3, <1>6, GraceUnits
  <2>2. deadline = now + units
    BY <1>3
  <2> HIDE DEF units
  <2>3. /\ RoundUp(units) \in Nat /\ units <= RoundUp(units) * Parts
        /\ RoundUp(units) * Parts <= units + Parts - 1 /\ RoundUp(units) <= Grace
    BY <2>1, RoundsUp
  <2>4. allowed' = RoundUp(units)
    <3>1. allowed' = IF RoundUp(units) < Grace THEN RoundUp(units) ELSE Grace
      BY <1>4, <2>1 DEF Remaining, units
    <3> QED
      BY <2>3, <3>1, PartsAssumption
  <2> DEFINE rest == RoundUp(units) * Parts
  <2>5. rest \in Nat /\ units <= rest /\ rest <= units + Parts - 1
    BY <2>3, PartsAssumption
  <2> HIDE DEF rest
  <2>6. now + rest \in deadline .. deadline + Parts - 1
    BY <1>3, <2>1, <2>2, <2>5, PartsAssumption
  <2> QED
    BY <1>6, <2>3, <2>4, <2>6 DEF rest
<1> QED
  BY <1>5, <1>6

(* The drain is given what is left of the grace, rounded up to a           *)
(* millisecond, for every grace and every resolution of the clock.         *)
THEOREM RestIsGiven == Spec => DrainGetsTheRest
<1>1. IInv /\ [Next]_vars =>
        [phase' = "query_drain" /\ phase # "query_drain" =>
           IF deadline <= now THEN allowed' = 0
           ELSE /\ allowed' <= Grace
                /\ now + allowed' * Parts \in deadline .. deadline + Parts - 1]_vars
  BY RestOfTheGrace
<1> QED
  BY <1>1, InvHolds, PTL DEF Spec, DrainGetsTheRest

(* Every step of the cleanup is tried in its order, and its first error is *)
(* raised unless another is on its way.                                    *)
THEOREM CleanupIsComplete == Spec => []EveryStepIsTried
<1>1. IInv => EveryStepIsTried
  BY DEF IInv, Attempts
<1> QED
  BY <1>1, InvHolds, PTL

(* /ready answers 200 only if some source has published metadata and its   *)
(* queries get connections, for any number of sources.                     *)
THEOREM ReadyIsTrue == Spec => []ReadyMeansUsable
<1>1. IInv => ReadyMeansUsable
  <2> SUFFICES ASSUME IInv, Ready PROVE \E s \in admitted : query[s] = "healthy"
    BY DEF ReadyMeansUsable
  <2>1. PICK s \in Sources : Usable(s)
    BY DEF Ready, PublicStatus
  <2>2. query[s] # "unavailable" /\ metadata[s] \in {"healthy", "stale"}
    BY <2>1 DEF Usable, SourceStatus
  <2> QED
    BY <2>1, <2>2 DEF IInv, TypeOK, Published
<1> QED
  BY <1>1, InvHolds, PTL
=============================================================================
