------------------------ MODULE QueryExecutorProofs ------------------------
(***************************************************************************)
(* What holds of QueryExecutor for every number of requests, sources,      *)
(* permits and pool sizes the budget validator accepts.                    *)
(***************************************************************************)
EXTENDS QueryExecutor, FiniteSetTheorems, TLAPS

USE DEF Statements, Registered, Leasing, Timed, Permitted, Pcs, Faults, Results, Shuts

-----------------------------------------------------------------------------
(* Finite sets of requests.                                                *)

(* Every set of requests is finite, so its cardinality is a natural.       *)
LEMMA RequestSets ==
    ASSUME NEW S \in SUBSET Requests
    PROVE  IsFiniteSet(S) /\ Cardinality(S) \in Nat
BY RequestsAssumption, FS_Subset, FS_CardinalityType

(* Cardinalities of disjoint sets of requests add up.                      *)
LEMMA DisjointUnion ==
    ASSUME NEW S \in SUBSET Requests, NEW T \in SUBSET Requests, S \intersect T = {}
    PROVE  Cardinality(S \union T) = Cardinality(S) + Cardinality(T)
<1>1. IsFiniteSet(S) /\ IsFiniteSet(T) /\ Cardinality(S) \in Nat /\ Cardinality(T) \in Nat
  BY RequestSets
<1>2. Cardinality(S \union T) = Cardinality(S) + Cardinality(T) - Cardinality(S \intersect T)
  BY <1>1, FS_Union
<1>3. Cardinality(S \intersect T) = 0
  BY FS_EmptySet
<1> QED
  BY <1>1, <1>2, <1>3

-----------------------------------------------------------------------------
(* Type correctness.                                                       *)

(* Waking waiters keeps the program counters and the permits in their      *)
(* domains: no more waiters are woken than there are permits.              *)
LEMMA WakeTypes ==
    ASSUME TypeOK, NEW r \in Requests, NEW to \in Pcs, NEW free \in Nat,
           MoveAndWake(r, to, free)
    PROVE  pc' \in [Requests -> Pcs] /\ sem' \in [Sources -> Nat]
<1> DEFINE s == SourceOf[r]
<1>1. PICK G \in Woken(s, free) :
        /\ sem' = [sem EXCEPT ![s] = free - Cardinality(G)]
        /\ pc' = [q \in Requests |->
                    IF q = r THEN to ELSE IF q \in G THEN "granted" ELSE pc[q]]
  BY DEF MoveAndWake
<1>2. G \in SUBSET Requests /\ Cardinality(G) <= free
  BY DEF Woken, Waiting, On
<1>3. free - Cardinality(G) \in Nat
  BY <1>2, RequestSets
<1> QED
  BY <1>1, <1>3 DEF TypeOK

(* The end of execute() keeps every variable it assigns in its domain.     *)
LEMMA EndTypes ==
    ASSUME TypeOK, NEW r \in Requests, NEW o \in Results, End(r, o)
    PROVE  /\ pc' \in [Requests -> Pcs]
           /\ sem' \in [Sources -> Nat]
           /\ pending' \in [Requests -> BOOLEAN]
           /\ txn' \in [Requests -> {"none", "open", "committed", "rolledback"}]
           /\ timer' \in [Requests -> BOOLEAN]
           /\ ext' \in [Requests -> BOOLEAN]
           /\ exc' \in [Requests -> Faults \union {"none", "cancelled"}]
           /\ ahead' \in [Requests -> SUBSET Requests]
           /\ result' \in [Requests -> Results \union {"none"}]
           /\ inflight' \subseteq Requests
<1>1. sem[SourceOf[r]] + Freed(r) \in Nat
  BY SourceAssumption DEF TypeOK, Freed
<1>2. pc' \in [Requests -> Pcs] /\ sem' \in [Sources -> Nat]
  BY <1>1, WakeTypes DEF End
<1> QED
  BY <1>2 DEF End, TypeOK

(* A cancelled call answers with one of the outcomes.                      *)
LEMMA CancelledIsResult ==
    ASSUME NEW r
    PROVE  Cancelled(r) \in Results
BY DEF Cancelled

(* So does one that got as far as a connection.                            *)
LEMMA RaisedIsResult ==
    ASSUME NEW r
    PROVE  Raised(r) \in Results
BY CancelledIsResult DEF Raised

(* The path from a permit to the lease stays within the phases.            *)
LEMMA AfterPermitTypes ==
    ASSUME TypeOK, NEW r \in Requests, TakeLock(r)
    PROVE  AfterPermit(r) \in {"lease", "poolopen", "poollock"}
           /\ lock' \in Requests \union {None}
BY DEF AfterPermit, TakeLock, TypeOK

(* A step of a request keeps the types.                                    *)
LEMMA RequestTypes ==
    ASSUME TypeOK, NEW r \in Requests, Request(r)
    PROVE  TypeOK'
<1> USE SourceAssumption
<1>1. CASE Refuse(r)
  BY <1>1 DEF Refuse, Turned, TypeOK, dataVars, poolVars, shutVars
<1>2. CASE Admit(r)
  <2> SUFFICES ASSUME Register(r) PROVE TypeOK'
    BY <1>2 DEF Admit
  <2>1. CASE Locked(SourceOf[r])
    BY <2>1 DEF Register, Waiting, On, TypeOK, dataVars, shutVars
  <2>2. CASE ~Locked(SourceOf[r])
    <3>1. TakeLock(r) /\ pc' = [pc EXCEPT ![r] = AfterPermit(r)]
          /\ sem' = [sem EXCEPT ![SourceOf[r]] = @ - 1] /\ ahead' = ahead
      BY <2>2 DEF Register
    <3>2. sem[SourceOf[r]] - 1 \in Nat
      BY <2>2 DEF Locked, TypeOK
    <3> QED
      BY <3>1, <3>2, AfterPermitTypes DEF Register, TypeOK, dataVars, shutVars
  <2> QED
    BY <2>1, <2>2
<1>3. CASE Resume(r)
  <2>1. AfterPermit(r) \in Pcs /\ lock' \in Requests \union {None}
    BY <1>3, AfterPermitTypes DEF Resume
  <2>2. sem[SourceOf[r]] \in Nat
    BY DEF TypeOK
  <2>3. pc' \in [Requests -> Pcs] /\ sem' \in [Sources -> Nat]
    BY <1>3, <2>1, <2>2, WakeTypes DEF Resume
  <2> QED
    BY <1>3, <2>1, <2>3 DEF Resume, TypeOK, dataVars, shutVars
<1>4. CASE LockPools(r)
  BY <1>4 DEF LockPools, Move, TypeOK, dataVars, shutVars
<1>5. CASE PoolOpened(r)
  BY <1>5 DEF PoolOpened, Move, TypeOK, dataVars, shutVars
<1>6. CASE PoolOpenFails(r)
  BY <1>6, EndTypes DEF PoolOpenFails, TypeOK, shutVars
<1>7. CASE Lease(r)
  BY <1>7 DEF Lease, Move, TypeOK, poolVars, shutVars
<1>8. CASE LeaseFails(r)
  BY <1>8, EndTypes DEF LeaseFails, Unavailable, TypeOK, poolVars, shutVars
<1>9. CASE PolicyClosed(r)
  BY <1>9 DEF PolicyClosed, Move, TypeOK, dataVars, poolVars, shutVars
<1>10. CASE Advance(r) \/ CursorClosed(r)
  BY <1>10 DEF Advance, Following, CursorClosed, AfterCursor, Move, TypeOK,
               dataVars, poolVars, shutVars
<1>11. CASE Fail(r)
  BY <1>11 DEF Fail, Unanswered, Move, TypeOK, poolVars, shutVars
<1>12. CASE Commit(r)
  BY <1>12 DEF Commit, Move, TypeOK, poolVars, shutVars
<1>13. CASE RolledBack(r)
  BY <1>13 DEF RolledBack, Move, TypeOK, poolVars, shutVars
<1>14. CASE CancelSafe(r)
  BY <1>14 DEF CancelSafe, Move, TypeOK, dataVars, poolVars, shutVars
<1>15. CASE CancelSafeFails(r)
  BY <1>15 DEF CancelSafeFails, Move, TypeOK, poolVars, shutVars
<1>16. CASE Return(r)
  BY <1>16, EndTypes, RaisedIsResult
     DEF Return, Unavailable, TypeOK, poolVars, shutVars
<1>17. CASE Timer(r)
  BY <1>17 DEF Timer, TypeOK, dataVars, poolVars, shutVars
<1>18. CASE Interrupt(r)
  BY <1>18, InterruptsAssumption DEF Interrupt, TypeOK, dataVars, poolVars, shutVars
<1>19. CASE CancelUnleased(r)
  BY <1>19, EndTypes, CancelledIsResult
     DEF CancelUnleased, TypeOK, shutVars
<1>20. CASE CancelClosing(r)
  BY <1>20 DEF CancelClosing, Delivered, Move, TypeOK, dataVars, poolVars, shutVars
<1>21. CASE CancelStatement(r)
  BY <1>21 DEF CancelStatement, Unanswered, Delivered, Move, TypeOK, poolVars, shutVars
<1>22. CASE CancelCleanup(r)
  BY <1>22 DEF CancelCleanup, Delivered, Move, TypeOK, poolVars, shutVars
<1>23. CASE CancelReturn(r)
  BY <1>23, EndTypes, CancelledIsResult
     DEF CancelReturn, TypeOK, poolVars, shutVars
<1> QED
  BY <1>1, <1>2, <1>3, <1>4, <1>5, <1>6, <1>7, <1>8, <1>9, <1>10, <1>11, <1>12,
     <1>13, <1>14, <1>15, <1>16, <1>17, <1>18, <1>19, <1>20, <1>21, <1>22, <1>23
     DEF Request, Deliver

(* Telling tasks to cancel only sets marks.                                *)
LEMMA CancelTypes ==
    ASSUME TypeOK, CancelInflight, last' \in BOOLEAN
    PROVE  TypeOK'
<1>1. pending' \in [Requests -> BOOLEAN]
  BY DEF CancelInflight, TypeOK
<1>2. ext' \in [Requests -> BOOLEAN]
  BY DEF CancelInflight, TypeOK
<1> QED
  BY <1>1, <1>2 DEF CancelInflight, TypeOK, dataVars, poolVars

(* So does every step of the drain and the close.                          *)
LEMMA ShutdownTypes ==
    ASSUME TypeOK, StopAccepting \/ Drain \/ Shutdown \/ Terminated
    PROVE  TypeOK'
<1> USE DEF taskVars, dataVars, poolVars, unlessShut, Finish, BeginPools
<1>1. CASE StopAccepting
  BY <1>1 DEF StopAccepting, TypeOK
<1>2. CASE Drain
  BY <1>2 DEF Drain, TypeOK
<1>3. CASE DrainEmpty
  BY <1>3 DEF DrainEmpty, TypeOK
<1>4. CASE DrainDeadline
  BY <1>4, CancelTypes DEF DrainDeadline, TypeOK
<1>5. CASE Gathered
  BY <1>5 DEF Gathered, TypeOK
<1>6. CASE WaitDone
  BY <1>6 DEF WaitDone, TypeOK
<1>7. CASE FirstWaitOver
  BY <1>7 DEF FirstWaitOver, TypeOK
<1>8. CASE SecondWaitOver
  BY <1>8 DEF SecondWaitOver, TypeOK
<1>9. CASE Close
  <2>1. CASE inflight = {}
    BY <1>9, <2>1 DEF Close, TypeOK
  <2>2. CASE inflight # {}
    BY <1>9, <2>2, CancelTypes DEF Close
  <2> QED
    BY <2>1, <2>2
<1>10. CASE ClosedAll
  BY <1>10 DEF ClosedAll, TypeOK
<1>11. ASSUME NEW s \in Sources, ClosePool(s) \/ ClosePoolFails(s)
       PROVE  TypeOK'
  BY <1>11 DEF ClosePool, ClosePoolFails, TypeOK
<1>12. CASE Terminated
  BY <1>12 DEF Terminated, vars, shutVars, TypeOK
<1> QED
  BY <1>1, <1>2, <1>3, <1>4, <1>5, <1>6, <1>7, <1>8, <1>9, <1>10, <1>11, <1>12
     DEF Shutdown

(* Init, then every step.                                                  *)
LEMMA InitTypes ==
    ASSUME Init
    PROVE  TypeOK
<1>1. MaxConcurrent \in [Sources -> Nat] /\ 0 \in 0..MaxInterrupts
  BY BudgetAssumption, InterruptsAssumption
<1> QED
  BY <1>1 DEF Init, TypeOK

(* Every step keeps the types.                                             *)
LEMMA NextTypes ==
    ASSUME TypeOK, [Next]_vars
    PROVE  TypeOK'
<1>1. CASE Next
  BY <1>1, RequestTypes, ShutdownTypes DEF Next
<1>2. CASE UNCHANGED vars
  BY <1>2 DEF vars, taskVars, dataVars, poolVars, shutVars, TypeOK
<1> QED
  BY <1>1, <1>2

(* The executor's variables never leave their domains, whatever the number *)
(* of requests: no semaphore is ever taken below zero.                     *)
THEOREM TypeCorrect == Spec => []TypeOK
BY InitTypes, NextTypes, PTL DEF Spec

-----------------------------------------------------------------------------
(* Permits.                                                                *)

(* What a wake-up does to the permits: the requests it wakes were waiting, *)
(* so every permit on offer is either left free or has a new holder.       *)
LEMMA WakePermits ==
    ASSUME TypeOK, NEW r \in Requests, NEW to \in Permitted \union {"done"}, NEW free \in Nat,
           r \notin Waiting(SourceOf[r]), MoveAndWake(r, to, free)
    PROVE  \A s \in Sources :
             IF s = SourceOf[r]
               THEN sem'[s] + Cardinality(Holders(s)')
                      = free + Cardinality(Holders(s) \ {r})
                             + (IF to \in Permitted THEN 1 ELSE 0)
               ELSE sem'[s] = sem[s] /\ Holders(s)' = Holders(s)
<1> DEFINE s == SourceOf[r]
<1>1. PICK G \in Woken(s, free) :
        /\ sem' = [sem EXCEPT ![s] = free - Cardinality(G)]
        /\ pc' = [q \in Requests |->
                    IF q = r THEN to ELSE IF q \in G THEN "granted" ELSE pc[q]]
  BY DEF MoveAndWake
<1>2. /\ G \subseteq Waiting(s) /\ r \notin G /\ s \in Sources
      /\ G \in SUBSET Requests /\ Cardinality(G) \in Nat
  BY RequestSets, SourceAssumption DEF Woken, Waiting, On
<1>3. ASSUME NEW t \in Sources, t # s
      PROVE  sem'[t] = sem[t] /\ Holders(t)' = Holders(t)
  BY <1>1, <1>2, <1>3 DEF Holders, Waiting, On, TypeOK
<1>4. sem'[s] = free - Cardinality(G)
  BY <1>1, <1>2 DEF TypeOK
<1> DEFINE kept == Holders(s) \ {r}
           mine == IF to \in Permitted THEN {r} ELSE {}
<1>5. Holders(s)' = (kept \union G) \union mine
  BY <1>1, <1>2 DEF Holders, Waiting, On, TypeOK
<1>6. kept \in SUBSET Requests /\ kept \intersect G = {} /\ mine \in SUBSET Requests
      /\ (kept \union G) \intersect mine = {}
  BY <1>2 DEF Holders, Waiting, On
<1>7. Cardinality(mine) = IF to \in Permitted THEN 1 ELSE 0
  BY FS_EmptySet, FS_Singleton
<1>8. Cardinality(Holders(s)') = Cardinality(kept) + Cardinality(G) + Cardinality(mine)
  <2>1. Cardinality(kept \union G) = Cardinality(kept) + Cardinality(G)
    BY <1>2, <1>6, DisjointUnion
  <2>2. (kept \union G) \in SUBSET Requests
    BY <1>2, <1>6
  <2>3. Cardinality((kept \union G) \union mine) = Cardinality(kept \union G) + Cardinality(mine)
    BY <2>2, <1>6, DisjointUnion
  <2> QED
    BY <1>5, <2>1, <2>3
<1>9. Cardinality(kept) \in Nat
  BY <1>6, RequestSets
<1> HIDE DEF s, kept, mine
<1>10. sem'[s] + Cardinality(Holders(s)')
         = free + Cardinality(kept) + (IF to \in Permitted THEN 1 ELSE 0)
  BY <1>2, <1>4, <1>7, <1>8, <1>9
<1> QED
  BY <1>3, <1>10 DEF s, kept

(* A step that moves no request into or out of a permit and leaves the     *)
(* semaphores alone conserves them.                                        *)
LEMMA SameHolders ==
    ASSUME PermitsConserved, sem' = sem,
           \A q \in Requests : pc'[q] \in Permitted <=> pc[q] \in Permitted
    PROVE  PermitsConserved'
<1>1. \A s \in Sources : Holders(s)' = Holders(s)
  BY DEF Holders, On
<1> QED
  BY <1>1 DEF PermitsConserved

(* A task moves on between awaits that both have the permit.               *)
LEMMA MovePermits ==
    ASSUME TypeOK, PermitsConserved, NEW r \in Requests, NEW to \in Permitted,
           pc[r] \in Permitted, Move(r, to)
    PROVE  PermitsConserved'
BY SameHolders DEF Move, TypeOK

(* The end of execute() gives back exactly what r held.                    *)
LEMMA EndPermits ==
    ASSUME TypeOK, PermitsConserved, NEW r \in Requests, NEW o, End(r, o),
           \/ pc[r] = "queued" /\ pending[r]
           \/ pc[r] \in Permitted
    PROVE  PermitsConserved'
<1> DEFINE s == SourceOf[r]
           free == sem[s] + Freed(r)
<1>1. s \in Sources /\ free \in Nat /\ sem[s] \in Nat
  BY SourceAssumption DEF TypeOK, Freed
<1>2. r \notin Waiting(s)
  BY DEF Waiting
<1>3. Holders(s) \in SUBSET Requests /\ Cardinality(Holders(s)) \in Nat
      /\ IsFiniteSet(Holders(s))
  BY RequestSets DEF Holders, On
<1>4. free + Cardinality(Holders(s) \ {r}) = sem[s] + Cardinality(Holders(s))
  <2>1. CASE pc[r] = "queued"
    <3>1. r \notin Holders(s) /\ Freed(r) = 0
      BY <2>1 DEF Holders, Freed
    <3>2. Cardinality(Holders(s) \ {r}) = Cardinality(Holders(s))
      BY <1>3, <3>1, FS_RemoveElement
    <3> QED
      BY <1>1, <1>3, <3>1, <3>2
  <2>2. CASE pc[r] \in Permitted
    <3>1. r \in Holders(s) /\ Freed(r) = 1
      BY <2>2 DEF Holders, On, Freed
    <3>2. Cardinality(Holders(s) \ {r}) = Cardinality(Holders(s)) - 1
      BY <1>3, <3>1, FS_RemoveElement
    <3> QED
      BY <1>1, <1>3, <3>1, <3>2
  <2> QED
    BY <2>1, <2>2
<1>5. MoveAndWake(r, "done", free)
  BY DEF End
<1>6. Cardinality(Holders(s) \ {r}) \in Nat
  BY <1>3, RequestSets
<1> HIDE DEF s, free
<1>7. sem'[s] + Cardinality(Holders(s)') = sem[s] + Cardinality(Holders(s))
  BY <1>1, <1>2, <1>4, <1>5, <1>6, WakePermits DEF s
<1>8. \A t \in Sources : t # s => sem'[t] = sem[t] /\ Holders(t)' = Holders(t)
  BY <1>1, <1>2, <1>5, WakePermits DEF s
<1> QED
  BY <1>1, <1>7, <1>8 DEF PermitsConserved

(* Admission takes a free permit, or joins the queue without one.          *)
LEMMA AdmitPermits ==
    ASSUME TypeOK, PermitsConserved, NEW r \in Requests, Admit(r)
    PROVE  PermitsConserved'
<1> DEFINE s == SourceOf[r]
<1>1. pc[r] = "new" /\ Register(r) /\ s \in Sources
  BY SourceAssumption DEF Admit
<1>2. CASE Locked(s)
  BY <1>1, <1>2, SameHolders DEF Register, TypeOK
<1>3. CASE ~Locked(s)
  <2>1. /\ sem' = [sem EXCEPT ![s] = @ - 1]
        /\ pc' = [pc EXCEPT ![r] = AfterPermit(r)]
        /\ AfterPermit(r) \in Permitted
    BY <1>1, <1>3, AfterPermitTypes DEF Register
  <2>2. Holders(s)' = Holders(s) \union {r} /\ r \notin Holders(s)
    BY <1>1, <2>1 DEF Holders, On, TypeOK
  <2>3. IsFiniteSet(Holders(s)) /\ Cardinality(Holders(s)) \in Nat
    BY RequestSets DEF Holders, On
  <2>4. Cardinality(Holders(s)') = Cardinality(Holders(s)) + 1
    BY <2>2, <2>3, FS_AddElement
  <2>5. sem'[s] = sem[s] - 1 /\ sem[s] \in Nat
    BY <1>1, <2>1 DEF TypeOK
  <2>6. sem'[s] + Cardinality(Holders(s)') = sem[s] + Cardinality(Holders(s))
    BY <2>3, <2>4, <2>5
  <2>7. \A t \in Sources : t # s => sem'[t] = sem[t] /\ Holders(t)' = Holders(t)
    BY <1>1, <2>1 DEF Holders, On, TypeOK
  <2> HIDE DEF s
  <2> QED
    BY <1>1, <2>6, <2>7 DEF PermitsConserved
<1> QED
  BY <1>1, <1>2, <1>3 DEF Register

(* A resumed waiter keeps its permit while it wakes others.                *)
LEMMA ResumePermits ==
    ASSUME TypeOK, PermitsConserved, NEW r \in Requests, Resume(r)
    PROVE  PermitsConserved'
<1> DEFINE s == SourceOf[r]
<1>1. /\ pc[r] = "granted" /\ s \in Sources /\ sem[s] \in Nat
      /\ AfterPermit(r) \in Permitted
      /\ MoveAndWake(r, AfterPermit(r), sem[s])
  BY SourceAssumption, AfterPermitTypes DEF Resume, TypeOK
<1>2. r \notin Waiting(s) /\ r \in Holders(s)
  BY <1>1 DEF Waiting, Holders, On
<1>3. IsFiniteSet(Holders(s)) /\ Cardinality(Holders(s)) \in Nat
      /\ Cardinality(Holders(s) \ {r}) \in Nat
  BY RequestSets DEF Holders, On
<1>4. Cardinality(Holders(s) \ {r}) = Cardinality(Holders(s)) - 1
  BY <1>2, <1>3, FS_RemoveElement
<1> HIDE DEF s
<1>5. sem'[s] + Cardinality(Holders(s)') = sem[s] + Cardinality(Holders(s))
  BY <1>1, <1>2, <1>3, <1>4, WakePermits DEF s
<1> DEFINE next == AfterPermit(r)
           free == sem[s]
<1>6. \A t \in Sources : t # s => sem'[t] = sem[t] /\ Holders(t)' = Holders(t)
  <2>1. next \in Permitted /\ free \in Nat /\ MoveAndWake(r, next, free)
    BY <1>1
  <2> HIDE DEF next, free
  <2> QED
    BY <1>2, <2>1, WakePermits DEF s
<1> QED
  BY <1>1, <1>5, <1>6 DEF PermitsConserved

(* Every step of a request conserves the permits.                          *)
LEMMA RequestPermits ==
    ASSUME TypeOK, PermitsConserved, NEW r \in Requests, Request(r)
    PROVE  PermitsConserved'
<1>1. CASE Refuse(r)
  BY <1>1, SameHolders DEF Refuse, Turned, TypeOK
<1>2. CASE Admit(r)
  BY <1>2, AdmitPermits
<1>3. CASE Resume(r)
  BY <1>3, ResumePermits
<1>4. CASE LockPools(r)
  BY <1>4, MovePermits DEF LockPools
<1>5. CASE PoolOpened(r)
  BY <1>5, MovePermits DEF PoolOpened
<1>6. CASE PoolOpenFails(r)
  BY <1>6, EndPermits DEF PoolOpenFails
<1>7. CASE Lease(r)
  BY <1>7, MovePermits DEF Lease
<1>8. CASE LeaseFails(r)
  BY <1>8, EndPermits DEF LeaseFails
<1>9. CASE PolicyClosed(r)
  BY <1>9, MovePermits DEF PolicyClosed
<1>10. CASE Advance(r) \/ CursorClosed(r)
  BY <1>10, MovePermits DEF Advance, Following, CursorClosed, AfterCursor
<1>11. CASE Fail(r)
  BY <1>11, MovePermits DEF Fail
<1>12. CASE Commit(r)
  BY <1>12, MovePermits DEF Commit
<1>13. CASE RolledBack(r)
  BY <1>13, MovePermits DEF RolledBack
<1>14. CASE CancelSafe(r) \/ CancelSafeFails(r)
  BY <1>14, MovePermits DEF CancelSafe, CancelSafeFails
<1>15. CASE Return(r)
  BY <1>15, EndPermits DEF Return
<1>16. CASE Timer(r) \/ Interrupt(r)
  BY <1>16, SameHolders DEF Timer, Interrupt
<1>17. CASE CancelUnleased(r)
  BY <1>17, EndPermits DEF CancelUnleased
<1>18. CASE CancelClosing(r) \/ CancelStatement(r) \/ CancelCleanup(r)
  BY <1>18, MovePermits DEF CancelClosing, CancelStatement, CancelCleanup, Delivered
<1>19. CASE CancelReturn(r)
  BY <1>19, EndPermits DEF CancelReturn
<1> QED
  BY <1>1, <1>2, <1>3, <1>4, <1>5, <1>6, <1>7, <1>8, <1>9, <1>10, <1>11, <1>12,
     <1>13, <1>14, <1>15, <1>16, <1>17, <1>18, <1>19
     DEF Request, Deliver

(* The drain and the close never touch a semaphore or a program counter.   *)
LEMMA ShutdownKeepsPermits ==
    ASSUME StopAccepting \/ Drain \/ Shutdown \/ Terminated
    PROVE  sem' = sem /\ pc' = pc
BY DEF Shutdown, StopAccepting, Drain, DrainEmpty, DrainDeadline, CancelInflight, Gathered,
       WaitDone, FirstWaitOver, SecondWaitOver, Close, ClosePool, ClosePoolFails,
       ClosedAll, Terminated,
       unlessShut, taskVars, vars

(* Every step keeps the permits of every source.                           *)
LEMMA NextPermits ==
    ASSUME TypeOK, PermitsConserved, [Next]_vars
    PROVE  PermitsConserved'
<1>1. CASE \E r \in Requests : Request(r)
  BY <1>1, RequestPermits
<1>2. CASE StopAccepting \/ Drain \/ Shutdown \/ Terminated
  BY <1>2, ShutdownKeepsPermits, SameHolders
<1>3. CASE UNCHANGED vars
  BY <1>3, SameHolders DEF vars, taskVars
<1> QED
  BY <1>1, <1>2, <1>3 DEF Next

(* In the initial state every permit is free.                              *)
LEMMA InitPermits ==
    ASSUME Init
    PROVE  PermitsConserved
<1>1. \A s \in Sources : Holders(s) = {}
  BY DEF Init, Holders, On
<1>2. \A s \in Sources : Cardinality(Holders(s)) = 0
  BY <1>1, FS_EmptySet
<1>3. \A s \in Sources : sem[s] = MaxConcurrent[s] /\ MaxConcurrent[s] \in Nat
  BY BudgetAssumption DEF Init
<1> QED
  BY <1>2, <1>3 DEF PermitsConserved

(* No permit is lost or doubled, however grants, cancels, timeouts and     *)
(* failures interleave, for any number of requests and any budget.         *)
THEOREM PermitsAreConserved == Spec => []PermitsConserved
BY TypeCorrect, InitPermits, NextPermits, PTL DEF Spec

(* The requests that use a connection or want one hold permits.            *)
LEMMA PermitsFitPool ==
    ASSUME TypeOK, PermitsConserved
    PROVE  ConnectionForPermit
<1> SUFFICES ASSUME NEW s \in Sources
             PROVE  Cardinality(Leased(s) \union {r \in On(s) : pc[r] = "lease"}) <= MaxPool[s]
  BY DEF ConnectionForPermit
<1> DEFINE using == Leased(s) \union {r \in On(s) : pc[r] = "lease"}
<1>1. using \in SUBSET Holders(s) /\ IsFiniteSet(Holders(s)) /\ Cardinality(Holders(s)) \in Nat
  BY RequestSets DEF Leased, Holders, On
<1>2. Cardinality(using) <= Cardinality(Holders(s)) /\ Cardinality(using) \in Nat
  BY <1>1, FS_Subset, FS_CardinalityType
<1>3. sem[s] \in Nat /\ sem[s] + Cardinality(Holders(s)) = MaxConcurrent[s]
      /\ MaxConcurrent[s] <= MaxPool[s] /\ MaxPool[s] \in Nat
  BY BudgetAssumption DEF TypeOK, PermitsConserved
<1> QED
  BY <1>1, <1>2, <1>3

(* Hence nobody who holds a permit can be kept from a connection by the    *)
(* other queries: the validator's max_concurrent_queries <= max_pool_size  *)
(* is what makes PoolTimeout an infrastructure failure.                    *)
THEOREM ConnectionForEveryPermit == Spec => []ConnectionForPermit
BY TypeCorrect, PermitsAreConserved, PermitsFitPool, PTL

-----------------------------------------------------------------------------
(* The executor implements QueryAdmission.                                 *)

(* How a step may move a request that execute() has let in.                *)
Forward(q) ==
    \/ pc'[q] = pc[q]
    \/ pc[q] \in Permitted \union {"queued"} /\ pc'[q] \in Permitted \union {"done"}

(* Waking and ending only move requests forward.                           *)
LEMMA WakeForward ==
    ASSUME TypeOK, NEW r \in Requests, NEW to \in Permitted \union {"done"}, NEW free,
           pc[r] \in Permitted \union {"queued"}, MoveAndWake(r, to, free)
    PROVE  \A q \in Requests : Forward(q)
BY DEF MoveAndWake, Forward, Woken, Waiting, On

(* So does going to the next await.                                        *)
LEMMA MoveForward ==
    ASSUME TypeOK, NEW r \in Requests, NEW to \in Permitted,
           pc[r] \in Permitted, Move(r, to)
    PROVE  \A q \in Requests : Forward(q)
BY DEF Move, Forward, TypeOK

(* So does ending a call.                                                  *)
LEMMA EndForward ==
    ASSUME TypeOK, NEW r \in Requests, NEW o, pc[r] \in Permitted \union {"queued"}, End(r, o)
    PROVE  \A q \in Requests : Forward(q)
<1> DEFINE free == sem[SourceOf[r]] + Freed(r)
<1>1. MoveAndWake(r, "done", free)
  BY DEF End
<1> HIDE DEF free
<1> QED
  BY <1>1, WakeForward

(* The phase a program counter stands for.                                 *)
LEMMA PhaseOf ==
    ASSUME NEW q \in Requests
    PROVE  /\ pc[q] = "new" => AdmissionPhase[q] = "new"
           /\ pc[q] = "queued" => AdmissionPhase[q] = "waiting"
           /\ pc[q] = "done" => AdmissionPhase[q] = "gone"
           /\ pc[q] \in Permitted => AdmissionPhase[q] = "running"
BY DEF AdmissionPhase

(* The pairs of phases an abstract step allows.                            *)
LEMMA PhasePairs ==
    /\ \A p \in Admission!Phases : <<p, p>> \in Admission!Steps
    /\ \A p \in {"waiting", "running"}, n \in {"running", "gone"} :
          <<p, n>> \in Admission!Steps
BY DEF Admission!Steps, Admission!Phases

(* QueryAdmission counts with the same Cardinality.                        *)
LEMMA SameCardinality ==
    ASSUME NEW S
    PROVE  Admission!Cardinality(S) = Cardinality(S)
BY DEF Admission!Cardinality, Cardinality, Admission!IsFiniteSet, IsFiniteSet

(* The abstract limit is the conservation of the permits.                  *)
LEMMA PhaseWithinLimit ==
    ASSUME TypeOK, PermitsConserved
    PROVE  Admission!WithinLimit
<1> SUFFICES ASSUME NEW s \in Sources
             PROVE  Cardinality(Admission!Running(s)) <= MaxConcurrent[s]
  BY SameCardinality DEF Admission!WithinLimit
<1>1. Admission!Running(s) = Holders(s)
  BY PhaseOf DEF Admission!Running, Holders, On, TypeOK
<1>2. Cardinality(Holders(s)) \in Nat
  BY RequestSets DEF Holders, On
<1> QED
  BY <1>1, <1>2, BudgetAssumption DEF TypeOK, PermitsConserved

(* Moving forward while the gate stays as it is is an abstract hand-over.  *)
LEMMA ForwardIsHandOver ==
    ASSUME TypeOK, TypeOK', accepting' = accepting, \A q \in Requests : Forward(q)
    PROVE  Admission!HandOver
<1>1. AdmissionPhase' \in [Requests -> Admission!Phases]
  BY DEF AdmissionPhase, Admission!Phases
<1>2. ASSUME NEW q \in Requests
      PROVE  <<AdmissionPhase[q], AdmissionPhase'[q]>> \in Admission!Steps
  <2>1. /\ pc'[q] = "new" => AdmissionPhase'[q] = "new"
        /\ pc'[q] = "queued" => AdmissionPhase'[q] = "waiting"
        /\ pc'[q] = "done" => AdmissionPhase'[q] = "gone"
        /\ pc'[q] \in Permitted => AdmissionPhase'[q] = "running"
    BY DEF AdmissionPhase
  <2>2. pc[q] \in Pcs /\ Forward(q)
    BY DEF TypeOK
  <2> DEFINE old == AdmissionPhase[q]
             new == AdmissionPhase'[q]
  <2>3. CASE pc'[q] = pc[q]
    <3>1. new = old /\ old \in Admission!Phases
      BY <2>1, <2>2, <2>3, PhaseOf DEF Admission!Phases
    <3> QED
      BY <3>1, PhasePairs DEF old, new
  <2>4. CASE pc[q] \in Permitted \union {"queued"} /\ pc'[q] \in Permitted \union {"done"}
    <3>1. old \in {"waiting", "running"} /\ new \in {"running", "gone"}
      BY <2>1, <2>4, PhaseOf
    <3> QED
      BY <3>1, PhasePairs DEF old, new
  <2> QED
    BY <2>2, <2>3, <2>4 DEF Forward
<1> QED
  BY <1>1, <1>2 DEF Admission!HandOver

(* A call that execute() refuses, or lets in.                              *)
LEMMA EntryIsAbstract ==
    ASSUME TypeOK, TypeOK', NEW r \in Requests, Refuse(r) \/ Admit(r)
    PROVE  Admission!Refuse(r) \/ Admission!Admit(r)
<1>1. accepting' = accepting /\ AdmissionPhase[r] = "new"
  BY PhaseOf DEF Refuse, Turned, Admit, Register, shutVars
<1>2. CASE Refuse(r)
  <2>1. AdmissionPhase' = [AdmissionPhase EXCEPT ![r] = "gone"]
    BY <1>2 DEF Refuse, Turned, AdmissionPhase, TypeOK
  <2> QED
    BY <1>1, <1>2, <2>1 DEF Admission!Refuse, Refuse
<1>3. CASE Admit(r)
  <2>1. PICK to \in Permitted \union {"queued"} : pc' = [pc EXCEPT ![r] = to]
    BY <1>3, AfterPermitTypes DEF Admit, Register
  <2>2. CASE to = "queued"
    <3>1. AdmissionPhase' = [AdmissionPhase EXCEPT ![r] = "waiting"]
      BY <2>1, <2>2 DEF AdmissionPhase, TypeOK
    <3> QED
      BY <1>1, <1>3, <3>1 DEF Admission!Admit, Admit
  <2>3. CASE to \in Permitted
    <3>1. AdmissionPhase' = [AdmissionPhase EXCEPT ![r] = "running"]
      BY <2>1, <2>3 DEF AdmissionPhase, TypeOK
    <3> QED
      BY <1>1, <1>3, <3>1 DEF Admission!Admit, Admit
  <2> QED
    BY <2>2, <2>3
<1> QED
  BY <1>2, <1>3

(* Every other step of a request moves requests forward.                   *)
LEMMA RequestForward ==
    ASSUME TypeOK, NEW r \in Requests, Request(r), ~Refuse(r), ~Admit(r)
    PROVE  accepting' = accepting /\ \A q \in Requests : Forward(q)
<1>1. CASE Resume(r)
  BY <1>1, WakeForward, AfterPermitTypes DEF Resume, shutVars
<1>2. CASE LockPools(r) \/ PoolOpened(r) \/ PolicyClosed(r) \/ Lease(r)
  BY <1>2, MoveForward DEF LockPools, PoolOpened, PolicyClosed, Lease, shutVars
<1>3. CASE PoolOpenFails(r) \/ LeaseFails(r) \/ Return(r)
  BY <1>3, EndForward DEF PoolOpenFails, LeaseFails, Return, shutVars
<1>4. CASE Advance(r) \/ CursorClosed(r) \/ Fail(r) \/ Commit(r) \/ RolledBack(r)
  BY <1>4, MoveForward DEF Advance, Following, CursorClosed, AfterCursor, Fail, Commit,
                          RolledBack, shutVars
<1>5. CASE CancelSafe(r) \/ CancelSafeFails(r)
  BY <1>5, MoveForward DEF CancelSafe, CancelSafeFails, shutVars
<1>6. CASE Timer(r) \/ Interrupt(r)
  BY <1>6 DEF Timer, Interrupt, Forward, shutVars
<1>7. CASE CancelUnleased(r) \/ CancelReturn(r)
  BY <1>7, EndForward DEF CancelUnleased, CancelReturn, shutVars
<1>8. CASE CancelClosing(r) \/ CancelStatement(r) \/ CancelCleanup(r)
  BY <1>8, MoveForward
     DEF CancelClosing, CancelStatement, CancelCleanup, Delivered, shutVars
<1> QED
  BY <1>1, <1>2, <1>3, <1>4, <1>5, <1>6, <1>7, <1>8 DEF Request, Deliver

(* The shutdown closes the gate or leaves the abstract state alone.        *)
LEMMA ShutdownIsAbstract ==
    ASSUME TypeOK, TypeOK', StopAccepting \/ Drain \/ Shutdown \/ Terminated
    PROVE  Admission!Shut \/ Admission!HandOver
<1>1. pc' = pc /\ AdmissionPhase' = AdmissionPhase
  BY ShutdownKeepsPermits DEF AdmissionPhase
<1>2. CASE StopAccepting \/ Drain
  BY <1>1, <1>2 DEF StopAccepting, Drain, Admission!Shut
<1>3. CASE Shutdown \/ Terminated
  <2>1. accepting' = accepting
    BY <1>3 DEF Shutdown, DrainEmpty, DrainDeadline, CancelInflight, Gathered, WaitDone,
         FirstWaitOver, SecondWaitOver, Close, ClosePool, ClosePoolFails,
       ClosedAll, Terminated,
         unlessShut, vars, shutVars
  <2> QED
    BY <1>1, <2>1, ForwardIsHandOver DEF Forward
<1> QED
  BY <1>2, <1>3

(* Every step is one of QueryAdmission's, or a stutter.                    *)
LEMMA StepIsAbstract ==
    ASSUME TypeOK, TypeOK', PermitsConserved', [Next]_vars
    PROVE  [Admission!Next]_(Admission!vars)
<1>1. CASE UNCHANGED vars
  BY <1>1 DEF vars, taskVars, shutVars, Admission!vars, AdmissionPhase
<1>2. CASE Next
  <2>1. Admission!WithinLimit'
    BY PhaseWithinLimit, PTL
  <2>2. CASE \E r \in Requests : Request(r)
    <3> PICK r \in Requests : Request(r)
      BY <2>2
    <3>1. CASE Refuse(r) \/ Admit(r)
      BY <2>1, <3>1, EntryIsAbstract DEF Admission!Next
    <3>2. CASE ~Refuse(r) /\ ~Admit(r)
      BY <2>1, <3>2, RequestForward, ForwardIsHandOver DEF Admission!Next
    <3> QED
      BY <3>1, <3>2
  <2>3. CASE StopAccepting \/ Drain \/ Shutdown \/ Terminated
    BY <2>1, <2>3, ShutdownIsAbstract DEF Admission!Next
  <2> QED
    BY <1>2, <2>2, <2>3 DEF Next
<1> QED
  BY <1>1, <1>2

(* Every behaviour of the executor is one QueryAdmission allows: at most   *)
(* max_concurrent_queries of a source run at once, nobody is admitted once *)
(* the gate is closed, and no query returns from its end.                  *)
THEOREM AdmissionImplemented == Spec => ImplementsAdmission
<1>1. ASSUME Init
      PROVE  Admission!Init
  BY <1>1 DEF Init, Admission!Init, AdmissionPhase
<1> QED
  BY <1>1, TypeCorrect, PermitsAreConserved, StepIsAbstract, PTL
     DEF Spec, ImplementsAdmission, Admission!Spec

-----------------------------------------------------------------------------
(* What the registers say of each call, and what the shutdown leaves.      *)

Unleased == {"queued", "granted", "poollock", "poolopen", "lease"}

(* Where a call is, in the registers other tasks read.                     *)
Listed(q) ==
    /\ q \in inflight <=> pc[q] \notin {"new", "done"}
    /\ q \in active <=> pc[q] \in Registered
    /\ lock = q <=> pc[q] = "poolopen"

(* What its transaction, its exception and its answer are there.           *)
Accounted(q) ==
    /\ pc[q] # "done" => result[q] = "none"
    /\ pc[q] \in Unleased \union {"new", "done"} => txn[q] = "none" /\ exc[q] = "none"
    /\ pc[q] = "closing" => txn[q] = "none" /\ exc[q] = "db"
    /\ pc[q] \in Statements => txn[q] = "open" /\ exc[q] = "none"
    /\ pc[q] = "cursorclose" => txn[q] = "open"
    /\ pc[q] = "rollback" => /\ txn[q] \in {"open", "committed"} /\ exc[q] # "none"
                             /\ exc[q] = "rejected" => txn[q] = "open"
    /\ pc[q] = "cancelsafe" => txn[q] \in {"open", "committed"} /\ exc[q] = "cancelled"
    /\ pc[q] = "return" => /\ exc[q] = "none" => txn[q] = "committed"
                           /\ exc[q] = "rejected" => txn[q] = "rolledback"
                           /\ exc[q] \in {"canceled", "other"} => txn[q] # "open"

Ledger == \A q \in Requests : Listed(q) /\ Accounted(q)

(* A pool is being opened only where there is none.                        *)
Vacant == \A q \in Requests : pc[q] = "poolopen" => SourceOf[q] \notin pools

(* What the shutdown has done so far.  Whoever has no lease when the       *)
(* cancelling begins stays told to cancel: newcomers are refused, and a    *)
(* cancelled waiter is not woken.                                          *)
Gated    == shut # "run" => ~accepting
Told     == Forcing => \A q \in Requests : pc[q] \in Unleased => pending[q]
Targeted == shut \in {"gather", "wait1", "wait2"} => inflight \subseteq targets
Second   == shut = "wait2" => \A q \in inflight : Cleaning(q) \/ pending[q]
Over     == shut \in {"pools", "closed", "aborted"} => \A q \in inflight : Cleaning(q)
Iterated == /\ shut = "pools" => pools = closing
            /\ shut = "closed" => pools = {}

Ending == Gated /\ Told /\ Targeted /\ Second /\ Over /\ Iterated

IInv == TypeOK /\ Ledger /\ Vacant /\ Ending

-----------------------------------------------------------------------------
(* What a step of one call is to the others.                               *)

(* q goes on where it was, or is woken.                                    *)
Awaits(q) ==
    \/ pc'[q] = pc[q]
    \/ pc[q] = "queued" /\ ~pending[q] /\ pc'[q] = "granted"

(* Nothing the registers say of q changes.                                 *)
Apart(q) ==
    /\ exc'[q] = exc[q] /\ txn'[q] = txn[q] /\ result'[q] = result[q]
    /\ pending'[q] = pending[q]
    /\ q \in inflight' <=> q \in inflight
    /\ q \in active' <=> q \in active
    /\ lock' = q <=> lock = q
    /\ Awaits(q)

(* Only waiters nobody has cancelled are woken.                            *)
LEMMA WakeOne ==
    ASSUME TypeOK, NEW r \in Requests, NEW to, NEW free, MoveAndWake(r, to, free)
    PROVE  pc'[r] = to /\ \A q \in Requests \ {r} : Awaits(q)
BY DEF MoveAndWake, Woken, Waiting, On, Awaits

(* The end of a call, seen by the call and by the others.                  *)
LEMMA EndOne ==
    ASSUME TypeOK, NEW r \in Requests, NEW o, End(r, o)
    PROVE  /\ pc'[r] = "done" /\ result'[r] = o /\ r \notin inflight'
           /\ exc'[r] = "none" /\ txn'[r] = "none" /\ ~pending'[r]
           /\ \A q \in Requests \ {r} :
                /\ Awaits(q)
                /\ exc'[q] = exc[q] /\ txn'[q] = txn[q]
                /\ result'[q] = result[q] /\ pending'[q] = pending[q]
                /\ q \in inflight' <=> q \in inflight
<1> DEFINE free == sem[SourceOf[r]] + Freed(r)
<1>1. MoveAndWake(r, "done", free)
  BY DEF End
<1> HIDE DEF free
<1>2. pc'[r] = "done" /\ \A q \in Requests \ {r} : Awaits(q)
  BY <1>1, WakeOne
<1> QED
  BY <1>2 DEF End, TypeOK

(* A call that moves on to its next await.                                 *)
LEMMA MoveOne ==
    ASSUME TypeOK, NEW r \in Requests, NEW to, Move(r, to)
    PROVE  /\ pc'[r] = to /\ result'[r] = result[r]
           /\ r \in inflight' <=> r \in inflight
           /\ \A q \in Requests \ {r} :
                /\ Awaits(q) /\ result'[q] = result[q]
                /\ q \in inflight' <=> q \in inflight
BY DEF Move, TypeOK, Awaits

(* The pool lock is not taken from anybody.                                *)
LEMMA TakeLockOne ==
    ASSUME NEW r \in Requests, TakeLock(r)
    PROVE  \A q \in Requests \ {r} : lock' = q <=> lock = q
BY RequestsAssumption DEF TakeLock, AfterPermit, LockFree

(* A step of one call leaves every other call as it is in the registers.   *)
LEMMA OthersApart ==
    ASSUME TypeOK, Ledger, NEW r \in Requests, Request(r)
    PROVE  \A q \in Requests \ {r} : Apart(q)
<1> USE RequestsAssumption DEF Apart, dataVars, poolVars, shutVars
<1>1. CASE Refuse(r)
  BY <1>1 DEF Refuse, Turned, TypeOK, Awaits
<1>2. CASE Admit(r)
  <2>1. /\ \A q \in Requests \ {r} : pc'[q] = pc[q] /\ (lock' = q <=> lock = q)
        /\ inflight' = inflight \union {r}
        /\ UNCHANGED <<pending, exc, result, txn, active>>
    BY <1>2, TakeLockOne DEF Admit, Register, TypeOK
  <2> QED
    BY <2>1 DEF Awaits
<1>3. CASE Resume(r)
  <2> DEFINE next == AfterPermit(r)
             free == sem[SourceOf[r]]
  <2>1. MoveAndWake(r, next, free)
    BY <1>3 DEF Resume
  <2> HIDE DEF next, free
  <2>2. \A q \in Requests \ {r} : Awaits(q)
    BY <2>1, WakeOne
  <2> QED
    BY <1>3, <2>2, TakeLockOne DEF Resume
<1>4. CASE LockPools(r)
  BY <1>4, MoveOne DEF LockPools
<1>5. CASE PoolOpened(r) \/ PoolOpenFails(r)
  <2>1. \A q \in Requests \ {r} : lock # q
    BY <1>5 DEF PoolOpened, PoolOpenFails, Ledger, Listed
  <2> QED
    BY <1>5, <2>1, MoveOne, EndOne DEF PoolOpened, PoolOpenFails
<1>6. CASE Lease(r)
  BY <1>6, MoveOne DEF Lease, TypeOK
<1>7. CASE LeaseFails(r)
  BY <1>7, EndOne DEF LeaseFails
<1>8. CASE PolicyClosed(r) \/ Advance(r) \/ CursorClosed(r) \/ CancelSafe(r)
  BY <1>8, MoveOne DEF PolicyClosed, Advance, CursorClosed, CancelSafe
<1>9. CASE Fail(r)
  BY <1>9, MoveOne DEF Fail, Unanswered, TypeOK
<1>10. CASE Commit(r)
  BY <1>10, MoveOne DEF Commit, TypeOK
<1>11. CASE RolledBack(r)
  BY <1>11, MoveOne DEF RolledBack, TypeOK
<1>12. CASE CancelSafeFails(r)
  BY <1>12, MoveOne DEF CancelSafeFails, TypeOK
<1>13. CASE Return(r)
  BY <1>13, EndOne DEF Return, TypeOK
<1>14. CASE Timer(r) \/ Interrupt(r)
  BY <1>14 DEF Timer, Interrupt, TypeOK, Awaits
<1>15. CASE CancelUnleased(r)
  <2>1. \A q \in Requests \ {r} : lock' = q <=> lock = q
    BY <1>15 DEF CancelUnleased, Ledger, Listed
  <2> QED
    BY <1>15, <2>1, EndOne DEF CancelUnleased
<1>16. CASE CancelClosing(r) \/ CancelStatement(r)
  BY <1>16, MoveOne DEF CancelClosing, CancelStatement, Unanswered, Delivered, TypeOK
<1>17. CASE CancelCleanup(r)
  BY <1>17, MoveOne DEF CancelCleanup, Delivered, TypeOK
<1>18. CASE CancelReturn(r)
  BY <1>18, EndOne DEF CancelReturn
<1> QED
  BY <1>1, <1>2, <1>3, <1>4, <1>5, <1>6, <1>7, <1>8, <1>9, <1>10, <1>11, <1>12,
     <1>13, <1>14, <1>15, <1>16, <1>17, <1>18
     DEF Request, Deliver

(* So the registers stay right about every other call.                     *)
LEMMA ApartKeepsLedger ==
    ASSUME TypeOK, NEW q \in Requests, Listed(q), Accounted(q), Apart(q)
    PROVE  Listed(q)' /\ Accounted(q)'
BY DEF Listed, Accounted, Apart, Awaits, Unleased

-----------------------------------------------------------------------------
(* What a step of a call is to the call itself.                            *)

(* A call that ends leaves the registers.                                  *)
LEMMA EndLedger ==
    ASSUME TypeOK, NEW r \in Requests, NEW o, End(r, o), r \notin active', lock' # r
    PROVE  Listed(r)' /\ Accounted(r)'
<1>1. pc'[r] = "done" /\ r \notin inflight' /\ exc'[r] = "none" /\ txn'[r] = "none"
  BY EndOne
<1> QED
  BY <1>1 DEF Listed, Accounted, Unleased

(* Only a COMMIT can take effect unheard.                                  *)
LEMMA UnansweredSays ==
    ASSUME TypeOK, NEW r \in Requests, Unanswered(r)
    PROVE  txn'[r] = txn[r] \/ (pc[r] = "commit" /\ txn'[r] = "committed")
BY DEF Unanswered, TypeOK

(* Every step of a call keeps the registers right about it.                *)
LEMMA SelfLedger ==
    ASSUME TypeOK, NEW r \in Requests, Listed(r), Accounted(r), Request(r)
    PROVE  Listed(r)' /\ Accounted(r)'
<1> USE RequestsAssumption DEF dataVars, poolVars, shutVars, Unleased
<1>1. CASE Refuse(r)
  BY <1>1 DEF Refuse, Turned, TypeOK, Listed, Accounted
<1>2. CASE Admit(r)
  <2>1. /\ pc'[r] \in {"queued", "lease", "poolopen", "poollock"}
        /\ lock' = r <=> pc'[r] = "poolopen"
        /\ inflight' = inflight \union {r}
        /\ UNCHANGED <<exc, result, txn, active>>
    <3>1. lock # r
      BY <1>2 DEF Admit, Listed
    <3> QED
      BY <1>2, <3>1, AfterPermitTypes DEF Admit, Register, TakeLock, TypeOK
  <2> QED
    BY <1>2, <2>1 DEF Admit, Listed, Accounted
<1>3. CASE Resume(r)
  <2> DEFINE next == AfterPermit(r)
             free == sem[SourceOf[r]]
  <2>1. /\ MoveAndWake(r, next, free) /\ pc[r] = "granted" /\ lock # r
        /\ next \in {"lease", "poolopen", "poollock"}
        /\ lock' = IF next = "poolopen" THEN r ELSE lock
        /\ UNCHANGED <<inflight, exc, result, txn, active>>
    BY <1>3, AfterPermitTypes DEF Resume, TakeLock, Listed
  <2> HIDE DEF next, free
  <2>2. pc'[r] = next
    BY <2>1, WakeOne
  <2> QED
    BY <2>1, <2>2 DEF Listed, Accounted
<1>4. CASE LockPools(r)
  BY <1>4, MoveOne DEF LockPools, Listed, Accounted
<1>5. CASE PoolOpened(r)
  BY <1>5, MoveOne DEF PoolOpened, Listed, Accounted
<1>6. CASE PoolOpenFails(r)
  BY <1>6, EndLedger DEF PoolOpenFails, Listed
<1>7. CASE Lease(r)
  <2>1. CASE pc'[r] = "session"
    BY <1>7, <2>1, MoveOne DEF Lease, Listed, Accounted, TypeOK
  <2>2. CASE pc'[r] = "closing"
    BY <1>7, <2>2, MoveOne DEF Lease, Listed, Accounted, TypeOK
  <2> QED
    BY <1>7, <2>1, <2>2, MoveOne DEF Lease
<1>8. CASE LeaseFails(r)
  BY <1>8, EndLedger DEF LeaseFails, Listed
<1>9. CASE PolicyClosed(r)
  BY <1>9, MoveOne DEF PolicyClosed, Listed, Accounted
<1>10. CASE Advance(r)
  <2>1. pc[r] \in {"session", "plan", "fetch"}
          /\ Following[pc[r]] \in {"plan", "fetch", "cursorclose"}
    BY <1>10 DEF Advance, Following
  <2>2. pc'[r] \in {"plan", "fetch", "cursorclose"}
    BY <1>10, <2>1, MoveOne DEF Advance
  <2> QED
    BY <1>10, <2>1, <2>2, MoveOne DEF Advance, Listed, Accounted
<1>11. CASE Fail(r)
  <2>1. PICK e \in Faults : exc' = [exc EXCEPT ![r] = e] /\ (pc[r] = "commit" => e # "rejected")
    BY <1>11 DEF Fail
  <2>2. exc'[r] = e
    BY <2>1 DEF TypeOK
  <2>3. txn'[r] = txn[r] \/ (pc[r] = "commit" /\ txn'[r] = "committed")
    BY <1>11, UnansweredSays DEF Fail
  <2>4. pc'[r] = IF pc[r] = "fetch" THEN "cursorclose" ELSE "rollback"
    BY <1>11, MoveOne DEF Fail
  <2> QED
    BY <1>11, <2>1, <2>2, <2>3, <2>4, MoveOne DEF Fail, Listed, Accounted, TypeOK
<1>12. CASE Commit(r)
  BY <1>12, MoveOne DEF Commit, Listed, Accounted, TypeOK
<1>13. CASE RolledBack(r)
  BY <1>13, MoveOne DEF RolledBack, Listed, Accounted, TypeOK
<1>14. CASE CancelSafe(r)
  BY <1>14, MoveOne DEF CancelSafe, Listed, Accounted
<1>15. CASE CancelSafeFails(r)
  BY <1>15, MoveOne DEF CancelSafeFails, Listed, Accounted, TypeOK
<1>16. CASE Return(r)
  BY <1>16, EndLedger DEF Return, Listed
<1>17. CASE Timer(r) \/ Interrupt(r)
  BY <1>17 DEF Timer, Interrupt, Listed, Accounted
<1>18. CASE CancelUnleased(r)
  BY <1>18, EndLedger DEF CancelUnleased, Listed
<1>19. CASE CancelClosing(r)
  BY <1>19, MoveOne DEF CancelClosing, Delivered, Listed, Accounted, TypeOK
<1>22. CASE CancelStatement(r)
  <2>1. exc'[r] = "cancelled"
    BY <1>22 DEF CancelStatement, Delivered, TypeOK
  <2>2. txn'[r] = txn[r] \/ (pc[r] = "commit" /\ txn'[r] = "committed")
    BY <1>22, UnansweredSays DEF CancelStatement
  <2>3. pc'[r] = IF pc[r] = "fetch" THEN "cursorclose" ELSE "cancelsafe"
    BY <1>22, MoveOne DEF CancelStatement, Delivered
  <2> QED
    BY <1>22, <2>1, <2>2, <2>3, MoveOne DEF CancelStatement, Delivered, Listed, Accounted, TypeOK
<1>23. CASE CursorClosed(r)
  <2>1. pc'[r] = AfterCursor(r)
    BY <1>23, MoveOne DEF CursorClosed
  <2> QED
    BY <1>23, <2>1, MoveOne DEF CursorClosed, AfterCursor, Listed, Accounted, TypeOK
<1>20. CASE CancelCleanup(r)
  BY <1>20, MoveOne DEF CancelCleanup, Delivered, Listed, Accounted, TypeOK
<1>21. CASE CancelReturn(r)
  BY <1>21, EndLedger DEF CancelReturn, Listed
<1> QED
  BY <1>1, <1>2, <1>3, <1>4, <1>5, <1>6, <1>7, <1>8, <1>9, <1>10, <1>11, <1>12, <1>13,
     <1>14, <1>15, <1>16, <1>17, <1>18, <1>19, <1>20, <1>21, <1>22, <1>23
     DEF Request, Deliver

-----------------------------------------------------------------------------
(* The invariant is inductive.                                             *)

(* What the drain and the close leave alone.                               *)
LEMMA ShutdownKeepsCalls ==
    ASSUME StopAccepting \/ Drain \/ Shutdown \/ Terminated
    PROVE  UNCHANGED <<pc, exc, txn, result, inflight, active, lock>>
BY DEF Shutdown, StopAccepting, Drain, DrainEmpty, DrainDeadline, CancelInflight, Gathered,
       WaitDone, FirstWaitOver, SecondWaitOver, Close, ClosePool, ClosePoolFails,
       ClosedAll, Terminated,
       unlessShut, taskVars, dataVars, poolVars, vars

(* The registers stay right.                                               *)
LEMMA LedgerKept ==
    ASSUME TypeOK, Ledger, [Next]_vars
    PROVE  Ledger'
<1>1. ASSUME NEW r \in Requests, Request(r)
      PROVE  Ledger'
  <2>1. ASSUME NEW q \in Requests, q # r
        PROVE  Listed(q)' /\ Accounted(q)'
    BY <1>1, <2>1, OthersApart, ApartKeepsLedger DEF Ledger
  <2>2. Listed(r)' /\ Accounted(r)'
    BY <1>1, SelfLedger DEF Ledger
  <2> QED
    BY <2>1, <2>2 DEF Ledger
<1>2. CASE UNCHANGED <<pc, exc, txn, result, inflight, active, lock>>
  BY <1>2 DEF Ledger, Listed, Accounted
<1>3. UNCHANGED vars => UNCHANGED <<pc, exc, txn, result, inflight, active, lock>>
  BY DEF vars, taskVars, dataVars, poolVars
<1> QED
  BY <1>1, <1>2, <1>3, ShutdownKeepsCalls DEF Next

(* A call that comes to open a pool has seen that there is none.           *)
LEMMA NewOpenerIsAlone ==
    ASSUME TypeOK, Ledger, NEW r \in Requests, Request(r),
           pc'[r] = "poolopen", pc[r] # "poolopen"
    PROVE  SourceOf[r] \notin pools /\ pools' = pools
<1> USE DEF poolVars
<1>1. CASE Admit(r)
  BY <1>1 DEF Admit, Register, AfterPermit, TypeOK
<1>2. CASE Resume(r)
  <2> DEFINE next == AfterPermit(r)
             free == sem[SourceOf[r]]
  <2>1. MoveAndWake(r, next, free) /\ pools' = pools
    BY <1>2 DEF Resume
  <2>2. next = "poolopen" => SourceOf[r] \notin pools
    BY DEF AfterPermit
  <2> HIDE DEF next, free
  <2> QED
    BY <2>1, <2>2, WakeOne
<1>3. CASE LockPools(r)
  BY <1>3, MoveOne DEF LockPools
<1>4. CASE Refuse(r) \/ PoolOpened(r)
  BY <1>4, MoveOne DEF Refuse, Turned, PoolOpened, TypeOK
<1>5. CASE PoolOpenFails(r) \/ LeaseFails(r) \/ Return(r)
  BY <1>5, EndOne DEF PoolOpenFails, LeaseFails, Return
<1>6. CASE \/ Lease(r) \/ PolicyClosed(r) \/ Advance(r) \/ CursorClosed(r) \/ Fail(r)
          \/ Commit(r) \/ RolledBack(r)
  BY <1>6, MoveOne DEF Lease, PolicyClosed, Advance, Following, CursorClosed, AfterCursor, Fail,
                       Commit, RolledBack
<1>7. CASE CancelSafe(r) \/ CancelSafeFails(r)
  BY <1>7, MoveOne DEF CancelSafe, CancelSafeFails
<1>8. CASE Timer(r) \/ Interrupt(r)
  BY <1>8 DEF Timer, Interrupt
<1>9. CASE CancelUnleased(r) \/ CancelReturn(r)
  BY <1>9, EndOne DEF CancelUnleased, CancelReturn
<1>10. CASE CancelClosing(r) \/ CancelStatement(r) \/ CancelCleanup(r)
  BY <1>10, MoveOne DEF CancelClosing, CancelStatement, CancelCleanup, Delivered
<1> QED
  BY <1>1, <1>2, <1>3, <1>4, <1>5, <1>6, <1>7, <1>8, <1>9, <1>10 DEF Request, Deliver

(* Only a call that opened a pool adds one.                                *)
LEMMA PoolsGrow ==
    ASSUME NEW r \in Requests, Request(r), pools' # pools
    PROVE  PoolOpened(r)
BY DEF Request, Deliver, Refuse, Turned, Admit, Register, Resume, LockPools, PoolOpenFails,
       Lease, LeaseFails, PolicyClosed, Advance, CursorClosed, Fail, Commit, RolledBack, CancelSafe,
       CancelSafeFails, Return, Timer, Interrupt, CancelUnleased, CancelClosing,
       CancelStatement, CancelCleanup, CancelReturn, poolVars

(* A pool is opened only where there is none, and by one call at a time.   *)
LEMMA VacantKept ==
    ASSUME TypeOK, Ledger, Vacant, [Next]_vars
    PROVE  Vacant'
<1>1. ASSUME NEW r \in Requests, Request(r)
      PROVE  Vacant'
  <2> SUFFICES ASSUME NEW q \in Requests, pc'[q] = "poolopen"
               PROVE  SourceOf[q] \notin pools'
    BY DEF Vacant
  <2>1. CASE pc[q] # "poolopen"
    <3>1. q = r
      BY <1>1, <2>1, OthersApart DEF Apart, Awaits
    <3> QED
      BY <1>1, <2>1, <3>1, NewOpenerIsAlone
  <2>2. CASE pc[q] = "poolopen"
    <3>1. SourceOf[q] \notin pools /\ lock = q
      BY <2>2 DEF Vacant, Ledger, Listed
    <3>2. ~PoolOpened(r)
      BY <3>1, MoveOne DEF PoolOpened, Ledger, Listed
    <3> QED
      BY <1>1, <3>1, <3>2, PoolsGrow
  <2> QED
    BY <2>1, <2>2
<1>2. CASE StopAccepting \/ Drain \/ Shutdown \/ Terminated
  <2>1. pc' = pc /\ pools' \subseteq pools
    BY <1>2 DEF Shutdown, StopAccepting, Drain, DrainEmpty, DrainDeadline, CancelInflight,
         Gathered, WaitDone, FirstWaitOver, SecondWaitOver, Close, ClosePool,
         ClosePoolFails, ClosedAll,
         Terminated, unlessShut, taskVars, poolVars, vars
  <2> QED
    BY <2>1 DEF Vacant
<1>3. CASE UNCHANGED vars
  BY <1>3 DEF Vacant, vars, taskVars, poolVars
<1> QED
  BY <1>1, <1>2, <1>3 DEF Next

-----------------------------------------------------------------------------
(* The shutdown.                                                           *)

(* A call moves no part of the shutdown.                                   *)
LEMMA RequestKeepsShutdown ==
    ASSUME NEW r \in Requests, Request(r)
    PROVE  UNCHANGED shutVars
BY DEF Request, Deliver, Refuse, Turned, Admit, Register, Resume, LockPools, PoolOpened,
       PoolOpenFails, Lease, LeaseFails, PolicyClosed, Advance, CursorClosed, Fail, Commit, RolledBack,
       CancelSafe, CancelSafeFails, Return, Timer, Interrupt, CancelUnleased, CancelClosing,
       CancelStatement, CancelCleanup, CancelReturn

(* Where a call can go once the gate is closed: no newcomer gets in, a     *)
(* cancel is obeyed, and cleaning up only ends.                            *)
LEMMA StepNarrows ==
    ASSUME TypeOK, Ledger, NEW r \in Requests, Request(r), ~accepting
    PROVE  /\ inflight' \subseteq inflight
           /\ pc'[r] \in Unleased => pc[r] \in Unleased
           /\ pc'[r] \in Leasing => pc[r] \in Leasing \/ Lease(r)
           /\ pending[r] => \/ pc'[r] = pc[r] /\ pending'[r]
                            \/ Cleaning(r)' \/ pc'[r] = "done"
           /\ Cleaning(r) => Cleaning(r)' \/ pc'[r] = "done"
<1> USE DEF Unleased, Cleaning, Ready
<1>1. CASE Refuse(r)
  BY <1>1 DEF Refuse, Turned, TypeOK
<1>2. ~Admit(r)
  BY DEF Admit
<1>3. CASE Resume(r)
  <2> DEFINE next == AfterPermit(r)
             free == sem[SourceOf[r]]
  <2>1. MoveAndWake(r, next, free)
    BY <1>3 DEF Resume
  <2> HIDE DEF next, free
  <2>2. pc'[r] = next
    BY <2>1, WakeOne
  <2>3. next \in {"lease", "poolopen", "poollock"}
    BY DEF next, AfterPermit
  <2> QED
    BY <1>3, <2>2, <2>3 DEF Resume
<1>4. CASE LockPools(r) \/ PoolOpened(r)
  BY <1>4, MoveOne DEF LockPools, PoolOpened, Move
<1>5. CASE PoolOpenFails(r) \/ LeaseFails(r) \/ Return(r) \/ CancelUnleased(r) \/ CancelReturn(r)
  <2>1. inflight' \subseteq inflight /\ pc'[r] = "done"
    BY <1>5, EndOne DEF PoolOpenFails, LeaseFails, Return, CancelUnleased, CancelReturn, End
  <2> QED
    BY <2>1
<1>6. CASE Lease(r) \/ PolicyClosed(r) \/ Fail(r) \/ Commit(r) \/ RolledBack(r)
  BY <1>6, MoveOne DEF Lease, PolicyClosed, Fail, Commit, RolledBack, Move
<1>11. CASE CursorClosed(r)
  BY <1>11, MoveOne DEF CursorClosed, AfterCursor, Move
<1>7. CASE Advance(r)
  <2>1. /\ pc[r] \in {"session", "plan", "fetch"} /\ ~pending[r]
        /\ pc'[r] \in {"plan", "fetch", "cursorclose"} /\ inflight' = inflight
    <3>1. pc[r] \in {"session", "plan", "fetch"}
          /\ Following[pc[r]] \in {"plan", "fetch", "cursorclose"}
      BY <1>7 DEF Advance, Following
    <3> QED
      BY <1>7, <3>1, MoveOne DEF Advance, Move
  <2> QED
    BY <2>1
<1>8. CASE CancelSafe(r) \/ CancelSafeFails(r)
  BY <1>8, MoveOne DEF CancelSafe, CancelSafeFails, Move
<1>9. CASE Timer(r) \/ Interrupt(r)
  BY <1>9 DEF Timer, Interrupt, TypeOK
<1>10. CASE CancelClosing(r) \/ CancelStatement(r) \/ CancelCleanup(r)
  <2>1. exc'[r] = "cancelled" /\ inflight' = inflight
    BY <1>10 DEF CancelClosing, CancelStatement, CancelCleanup, Delivered, Move, TypeOK
  <2>2. /\ pc[r] \in Leasing
        /\ pc'[r] \in {"return", "cursorclose", "cancelsafe"}
    BY <1>10, MoveOne DEF CancelClosing, CancelStatement, CancelCleanup, Delivered
  <2> QED
    BY <2>1, <2>2
<1> QED
  BY <1>1, <1>2, <1>3, <1>4, <1>5, <1>6, <1>7, <1>8, <1>9, <1>10, <1>11 DEF Request, Deliver

(* So the steps of the calls undo nothing the shutdown has reached.        *)
LEMMA RequestEnding ==
    ASSUME TypeOK, Ledger, Ending, NEW r \in Requests, Request(r)
    PROVE  Ending'
<1>1. UNCHANGED shutVars
  BY RequestKeepsShutdown
<1>2. \A q \in Requests \ {r} : Apart(q)
  BY OthersApart
<1>3. Gated'
  BY <1>1 DEF Ending, Gated, shutVars
<1>4. CASE shut = "run"
  BY <1>1, <1>3, <1>4 DEF Ending, Told, Targeted, Second, Over, Iterated, Forcing, shutVars
<1>5. CASE shut # "run"
  <2>1. /\ inflight' \subseteq inflight
        /\ pc'[r] \in Unleased => pc[r] \in Unleased
        /\ pending[r] => \/ pc'[r] = pc[r] /\ pending'[r]
                         \/ Cleaning(r)' \/ pc'[r] = "done"
        /\ Cleaning(r) => Cleaning(r)' \/ pc'[r] = "done"
    BY <1>5, StepNarrows DEF Ending, Gated
  <2>2. \A q \in inflight' : pc'[q] # "done"
    <3>1. Next
      BY DEF Next
    <3>2. Ledger'
      BY <3>1, LedgerKept
    <3> QED
      BY <2>1, <3>2 DEF Ledger, Listed, TypeOK
  <2>3. Told'
    <3> SUFFICES ASSUME Forcing, NEW q \in Requests, pc'[q] \in Unleased
                 PROVE  pending'[q]
      BY <1>1 DEF Told, Forcing, shutVars
    <3>1. CASE q = r
      BY <2>1, <3>1 DEF Ending, Told, Unleased, Cleaning
    <3>2. CASE q # r
      BY <1>2, <3>2 DEF Ending, Told, Apart, Awaits, Unleased
    <3> QED
      BY <3>1, <3>2
  <2>4. Targeted'
    BY <1>1, <2>1 DEF Ending, Targeted, shutVars
  <2>5. Second'
    <3> SUFFICES ASSUME shut = "wait2", NEW q \in inflight'
                 PROVE  Cleaning(q)' \/ pending'[q]
      BY <1>1 DEF Second, shutVars
    <3>1. q \in inflight /\ q \in Requests /\ (Cleaning(q) \/ pending[q])
      BY <2>1 DEF Ending, Second, TypeOK
    <3>2. CASE q = r
      BY <2>1, <2>2, <3>1, <3>2
    <3>3. CASE q # r
      BY <1>2, <3>1, <3>3 DEF Apart, Awaits, Cleaning
    <3> QED
      BY <3>2, <3>3
  <2>6. Over'
    <3> SUFFICES ASSUME shut \in {"pools", "closed", "aborted"}, NEW q \in inflight'
                 PROVE  Cleaning(q)'
      BY <1>1 DEF Over, shutVars
    <3>1. q \in inflight /\ q \in Requests /\ Cleaning(q)
      BY <2>1 DEF Ending, Over, TypeOK
    <3>2. CASE q = r
      BY <2>1, <2>2, <3>1, <3>2
    <3>3. CASE q # r
      BY <1>2, <3>1, <3>3 DEF Apart, Awaits, Cleaning
    <3> QED
      BY <3>2, <3>3
  <2>7. Iterated'
    <3>1. CASE PoolOpened(r)
      <4>1. r \in inflight /\ ~Cleaning(r)
        BY <3>1 DEF PoolOpened, Ledger, Listed, Cleaning
      <4> QED
        BY <1>1, <4>1 DEF Ending, Over, Iterated, shutVars
    <3>2. CASE pools' = pools
      BY <1>1, <3>2 DEF Ending, Iterated, shutVars
    <3> QED
      BY <3>1, <3>2, PoolsGrow
  <2> QED
    BY <1>3, <2>3, <2>4, <2>5, <2>6, <2>7 DEF Ending
<1> QED
  BY <1>4, <1>5

(* The step of _cancel_inflight that cancels: whoever has no registered    *)
(* connection is told.                                                     *)
LEMMA CancelEnding ==
    ASSUME TypeOK, Ledger, Ending, CancelInflight, shut # "run"
    PROVE  Ending'
<1>1. \A q \in Requests : pc[q] \in Unleased => pending'[q]
  BY DEF CancelInflight, Unregistered, Ledger, Listed, Unleased
<1> QED
  BY <1>1 DEF CancelInflight, Ending, Gated, Told, Targeted, Second, Over, Iterated

(* Going on to the pools needs that nobody is left but who cleans up.      *)
LEMMA FinishEnding ==
    ASSUME TypeOK, Ending, NEW how \in {"drained", "forced"}, Finish(how), shut # "run",
           UNCHANGED <<accepting, pc, exc, pending, inflight, pools>>,
           Forcing \/ inflight = {}, \A q \in inflight : Cleaning(q),
           \A q \in Requests : pc[q] \in Unleased => q \in inflight
    PROVE  Ending'
<1>1. shut' \in {"drained", "forced", "pools"} /\ (shut' = "pools" => closing' = pools)
  BY DEF Finish, BeginPools
<1>2. Gated' /\ Targeted' /\ Second' /\ Over' /\ Iterated'
  BY <1>1 DEF Ending, Gated, Targeted, Second, Over, Cleaning, Iterated
<1>3. Told'
  BY DEF Ending, Told, Cleaning, Unleased
<1> QED
  BY <1>2, <1>3 DEF Ending

(* Every step of the shutdown keeps what the shutdown has reached.         *)
LEMMA ShutdownEnding ==
    ASSUME TypeOK, Ledger, Ending, StopAccepting \/ Drain \/ Shutdown \/ Terminated
    PROVE  Ending'
<1> USE DEF unlessShut, taskVars, dataVars, poolVars, shutVars
<1>1. \A q \in Requests : pc[q] \in Unleased => q \in inflight
  BY DEF Ledger, Listed, Unleased
<1>2. CASE StopAccepting \/ Terminated
  BY <1>2 DEF StopAccepting, Terminated, vars, Ending, Gated, Told, Targeted, Second, Over,
       Cleaning, Iterated, Forcing
<1>3. CASE Drain
  BY <1>3 DEF Drain, Ending, Gated, Told, Targeted, Second, Over, Cleaning, Iterated, Forcing
<1>4. CASE DrainEmpty
  BY <1>1, <1>4, FinishEnding DEF DrainEmpty
<1>5. CASE DrainDeadline
  BY <1>5, CancelEnding DEF DrainDeadline
<1>6. CASE Gathered
  BY <1>6 DEF Gathered, Ending, Gated, Told, Targeted, Second, Over, Cleaning, Iterated, Forcing
<1>7. CASE WaitDone
  <2>1. inflight = {} /\ Forcing
    BY <1>7 DEF WaitDone, Ending, Targeted, Forcing
  <2> QED
    BY <1>1, <1>7, <2>1, FinishEnding DEF WaitDone
<1>8. CASE FirstWaitOver
  <2>1. \A q \in inflight : pending'[q]
    BY <1>8 DEF FirstWaitOver, Stuck, Ending, Targeted, TypeOK
  <2>2. \A q \in Requests : pending[q] => pending'[q]
    BY <1>8 DEF FirstWaitOver
  <2> QED
    BY <1>8, <2>1, <2>2
       DEF FirstWaitOver, Ending, Gated, Told, Targeted, Second, Over, Cleaning, Iterated, Forcing
<1>9. CASE SecondWaitOver
  <2>1. Forcing /\ \A q \in inflight : Cleaning(q)
    BY <1>9 DEF SecondWaitOver, Settled, Ending, Second, Forcing, TypeOK
  <2> QED
    BY <1>1, <1>9, <2>1, FinishEnding DEF SecondWaitOver
<1>10. CASE Close
  <2>1. CASE inflight = {}
    BY <1>1, <1>10, <2>1
       DEF Close, BeginPools, Ending, Gated, Told, Targeted, Second, Over, Cleaning, Iterated, Forcing
  <2>2. CASE inflight # {}
    BY <1>10, <2>2, CancelEnding DEF Close
  <2> QED
    BY <2>1, <2>2
<1>11. CASE ClosedAll
  BY <1>11 DEF ClosedAll, Ending, Gated, Told, Targeted, Second, Over, Cleaning, Iterated, Forcing
<1>12. ASSUME NEW s \in Sources, ClosePool(s) \/ ClosePoolFails(s)
       PROVE  Ending'
  BY <1>12 DEF ClosePool, ClosePoolFails,
               Ending, Gated, Told, Targeted, Second, Over, Cleaning, Iterated, Forcing
<1> QED
  BY <1>2, <1>3, <1>4, <1>5, <1>6, <1>7, <1>8, <1>9, <1>10, <1>11, <1>12 DEF Shutdown

-----------------------------------------------------------------------------
(* The theorems.                                                           *)

(* The invariant holds when the process starts,                            *)
LEMMA InitIInv ==
    ASSUME Init
    PROVE  IInv
<1>1. TypeOK
  BY InitTypes
<1>2. Ledger /\ Vacant
  BY RequestsAssumption DEF Init, Ledger, Listed, Accounted, Vacant, Unleased
<1>3. Ending
  BY DEF Init, Ending, Gated, Told, Targeted, Second, Over, Iterated, Forcing
<1> QED
  BY <1>1, <1>2, <1>3 DEF IInv

(* and every step keeps it.                                                *)
LEMMA NextIInv ==
    ASSUME IInv, [Next]_vars
    PROVE  IInv'
<1>1. TypeOK' /\ Ledger' /\ Vacant'
  BY NextTypes, LedgerKept, VacantKept DEF IInv
<1>2. Ending'
  <2>1. CASE UNCHANGED vars
    BY <2>1 DEF IInv, Ending, Gated, Told, Targeted, Second, Over, Cleaning, Iterated, Forcing,
         vars, taskVars, poolVars, shutVars
  <2> QED
    BY <2>1, RequestEnding, ShutdownEnding DEF IInv, Next
<1> QED
  BY <1>1, <1>2 DEF IInv

(* Hence every reachable state satisfies it.                               *)
THEOREM Invariance == Spec => []IInv
BY InitIInv, NextIInv, PTL DEF Spec

(* _inflight and _active are exact in every state: the drain polls and     *)
(* cancels all that has begun and not ended, and cancel_safe never reaches *)
(* the query of the connection's next user.                                *)
THEOREM RegistersAreExact == Spec => []RegistrationsExact
<1>1. IInv => RegistrationsExact
  BY DEF IInv, TypeOK, Ledger, Listed, RegistrationsExact, InflightExact, ActiveOwnsLease
<1> QED
  BY <1>1, Invariance, PTL

(* _get_pool never replaces a pool: nobody opens one for a source that has *)
(* one, and whoever opens one is alone with _pool_lock.                    *)
THEOREM PoolsAreUnique == Spec => []OnePoolPerSource
<1>1. IInv => OnePoolPerSource
  BY DEF IInv, Ledger, Listed, Vacant, OnePoolPerSource
<1> QED
  BY <1>1, Invariance, PTL

(* A cancel is never answered like a success or a refusal; only waiting for*)
(* a permit can end in "overloaded".                                       *)
LEMMA CancelledSays ==
    ASSUME NEW r \in Requests
    PROVE  /\ Cancelled(r) \notin {"ok", "rejected"}
           /\ Cancelled(r) = "overloaded" => pc[r] \in {"queued", "granted"}
BY DEF Cancelled

(* The step in which a call is answered.                                   *)
LEMMA StepAgrees ==
    ASSUME TypeOK, NEW r \in Requests, Accounted(r), Request(r), result'[r] # result[r]
    PROVE  Agrees(r, result'[r])
<1> USE DEF Agrees, Accounted, Unleased
<1>1. CASE Refuse(r)
  BY <1>1 DEF Refuse, Turned, TypeOK
<1>2. CASE PoolOpenFails(r) \/ LeaseFails(r)
  BY <1>2, EndOne DEF PoolOpenFails, LeaseFails
<1>3. CASE CancelUnleased(r) \/ CancelReturn(r)
  <2>1. result'[r] = Cancelled(r)
    BY <1>3, EndOne DEF CancelUnleased, CancelReturn
  <2> QED
    BY <1>3, <2>1, CancelledSays DEF CancelUnleased, CancelReturn
<1>4. CASE Return(r)
  <2>1. result'[r] = Raised(r) /\ pc[r] = "return"
    BY <1>4, EndOne DEF Return
  <2> QED
    BY <2>1, CancelledSays DEF Raised
<1>5. CASE Admit(r) \/ Resume(r) \/ Timer(r) \/ Interrupt(r)
  BY <1>5 DEF Admit, Register, Resume, Timer, Interrupt
<1>6. CASE LockPools(r) \/ PoolOpened(r) \/ Lease(r) \/ PolicyClosed(r) \/ Advance(r)
  BY <1>6, MoveOne DEF LockPools, PoolOpened, Lease, PolicyClosed, Advance
<1>7. CASE \/ CursorClosed(r) \/ Fail(r) \/ Commit(r) \/ RolledBack(r)
          \/ CancelSafe(r) \/ CancelSafeFails(r)
  BY <1>7, MoveOne DEF CursorClosed, Fail, Commit, RolledBack, CancelSafe, CancelSafeFails
<1>8. CASE CancelClosing(r) \/ CancelStatement(r) \/ CancelCleanup(r)
  BY <1>8, MoveOne DEF CancelClosing, CancelStatement, CancelCleanup, Delivered
<1> QED
  BY <1>1, <1>2, <1>3, <1>4, <1>5, <1>6, <1>7, <1>8 DEF Request, Deliver

(* What execute() answers agrees with what became of the transaction.      *)
THEOREM AnswersAreTrue == Spec => AnswerMatchesTransaction
<1>1. ASSUME IInv, [Next]_vars
      PROVE  [\A r \in Requests : result'[r] # result[r] => Agrees(r, result'[r])]_vars
  <2>1. ASSUME NEW r \in Requests, Request(r), NEW q \in Requests, result'[q] # result[q]
        PROVE  Agrees(q, result'[q])
    <3>1. q = r
      BY <1>1, <2>1, OthersApart DEF IInv, Apart
    <3> QED
      BY <1>1, <2>1, <3>1, StepAgrees DEF IInv, Ledger
  <2> QED
    BY <1>1, <2>1, ShutdownKeepsCalls DEF Next
<1> QED
  BY <1>1, Invariance, PTL DEF Spec, AnswerMatchesTransaction

(* When close() gets to the pools, whatever is left only cleans up.        *)
THEOREM LeftoversCleanUp == Spec => []LeftoversOnlyCleanUp
<1>1. IInv => LeftoversOnlyCleanUp
  BY DEF IInv, Ending, Over, Cleaning, LeftoversOnlyCleanUp
<1> QED
  BY <1>1, Invariance, PTL

(* So the loop over _pools meets no new pool, and closes them all.         *)
THEOREM ClosedPoolsStayClosed == Spec => []PoolsStayClosed
<1>1. IInv => PoolsStayClosed
  BY DEF IInv, TypeOK, Ledger, Listed, Ending, Over, Iterated, Cleaning, Mutated, PoolsStayClosed
<1> QED
  BY <1>1, Invariance, PTL

(* From the cancelling on nobody gets a connection any more.               *)
THEOREM NobodyLeasesAnyMore == Spec => NoLeaseAfterForce
<1>1. ASSUME IInv, [Next]_vars
      PROVE  [Forcing => \A r \in Requests : pc'[r] \in Leasing => pc[r] \in Leasing]_vars
  <2>1. ASSUME Forcing, NEW r \in Requests, Request(r), NEW q \in Requests, pc'[q] \in Leasing
        PROVE  pc[q] \in Leasing
    <3>1. ~Lease(r) /\ ~accepting
      BY <1>1, <2>1 DEF IInv, Ending, Gated, Told, Lease, Ready, Unleased, Forcing
    <3>2. CASE q = r
      BY <1>1, <2>1, <3>1, <3>2, StepNarrows DEF IInv
    <3>3. CASE q # r
      BY <1>1, <2>1, <3>3, OthersApart DEF IInv, Apart, Awaits
    <3> QED
      BY <3>2, <3>3
  <2> QED
    BY <1>1, <2>1, ShutdownKeepsCalls DEF Next
<1> QED
  BY <1>1, Invariance, PTL DEF Spec, NoLeaseAfterForce
=============================================================================
