--------------------------- MODULE QueryAdmission ---------------------------
(***************************************************************************)
(* What PostgresQueryExecutor promises its callers about admission: at     *)
(* most Limit[s] queries of a source run at once, the others wait, a       *)
(* closed executor refuses every newcomer, and a query that has left never *)
(* comes back.  How permits, pools, cancellation and the drain achieve it  *)
(* is QueryExecutor's business, which implements this module.              *)
(***************************************************************************)
EXTENDS Naturals, FiniteSets

CONSTANTS
    Requests,   \* calls of execute()
    Sources,    \* reviewed sources
    SourceOf,   \* the source a request queries
    Limit       \* budget.max_concurrent_queries of a source

VARIABLES
    open,       \* new queries are admitted
    phase       \* how far each request has got

vars == <<open, phase>>

Phases == {"new", "waiting", "running", "gone"}

Running(s) == {r \in Requests : phase[r] = "running" /\ SourceOf[r] = s}

Init ==
    /\ open = TRUE
    /\ phase = [r \in Requests |-> "new"]

(* An open executor takes a request in: it waits, or runs at once.         *)
Admit(r) ==
    /\ open /\ phase[r] = "new"
    /\ \E p \in {"waiting", "running"} : phase' = [phase EXCEPT ![r] = p]
    /\ UNCHANGED open

(* A closed executor refuses it.                                           *)
Refuse(r) ==
    /\ ~open /\ phase[r] = "new"
    /\ phase' = [phase EXCEPT ![r] = "gone"]
    /\ UNCHANGED open

(* Some waiting requests start and some waiting or running ones leave: a   *)
(* permit that is given back goes to a waiter in the same step.            *)
Steps ==
    {<<p, p>> : p \in Phases} \union
    {<<"waiting", "running">>, <<"waiting", "gone">>, <<"running", "gone">>}

HandOver ==
    /\ phase' \in [Requests -> Phases]
    /\ \A r \in Requests : <<phase[r], phase'[r]>> \in Steps
    /\ UNCHANGED open

Shut ==
    /\ open' = FALSE
    /\ UNCHANGED phase

WithinLimit == \A s \in Sources : Cardinality(Running(s)) <= Limit[s]

Next ==
    /\ \/ \E r \in Requests : Admit(r) \/ Refuse(r)
       \/ HandOver
       \/ Shut
    /\ WithinLimit'

Spec == Init /\ [][Next]_vars

-----------------------------------------------------------------------------
(* No admitted query is left, and none can be admitted any more.           *)
Drained == ~open /\ \A r \in Requests : phase[r] \in {"new", "gone"}

(* Once the executor is closed and empty it stays so: what a shutdown that *)
(* has seen the in-flight set empty relies on when it closes the pools.    *)
DrainedIsFinal == [][Drained => Drained']_vars
=============================================================================
