------------------------- MODULE CatalogReadProofs -------------------------
(***************************************************************************)
(* What holds of CatalogRead for every catalog and all limits.             *)
(***************************************************************************)
EXTENDS CatalogRead, FiniteSetTheorems, WellFoundedInduction, TLAPS

-----------------------------------------------------------------------------
(* The inductive invariant.                                                *)

\* The awaits of a load that has met nothing.
Fresh == {"pool", "lease", "connection", "begin", "settings", "session", "query",
          "commit", "publish"}

Kinds == {"none", "transient", "policy", "invalid", "cancelled"}

(* What the exception on its way has to do with what the load met.         *)
Blamed ==
    /\ pc \in Fresh \union {"idle", "rollback", "exit"}
    /\ pc \in Fresh => seen = {} /\ error = "none" /\ outcome = "none"
    /\ pc \in {"rollback", "exit"} =>
        /\ outcome = "none" /\ error \in Kinds
        /\ error = "none" => pc = "exit" /\ seen = {}
        /\ error = "transient" => seen = {"fault"}
        /\ error \in {"policy", "invalid"} => seen \in {{error}, {"settings"}}
    /\ pc = "idle" => error = "none" /\ RefusalsStick

(* In whose hands the connection is, and what is known of it there: nobody *)
(* but the check looks at a new one, and a transaction is only ever open   *)
(* on one that has passed.                                                 *)
Sound == ConnectionMatches(connection, SslMode)

Handled ==
    /\ pc \in {"idle", "pool", "lease", "publish"} /\ connection # NoConnection
          => link = "idle" /\ Sound
    /\ pc \in {"begin", "settings", "session", "query", "commit", "rollback"} => Sound
    /\ pc = "exit" => link = "broken" \/ Sound

(* From the query on the rows are those of one catalog, and they passed.   *)
Accepted(c) == ~SnapshotRefused(c) /\ ~Issues(c) /\ ~(ContextBytes(c) > MaxBytes)

Queried ==
    /\ pc \in {"commit", "publish"} \/ (pc = "exit" /\ error = "none")
          => catalog \in Catalogs /\ ~RowsRefused(catalog)
    /\ outcome = "published" =>
          pc = "idle" /\ catalog \in Catalogs /\ ~RowsRefused(catalog) /\ Accepted(catalog)

(* Where a load ends as invalid, something was wrong with its catalog.     *)
Refused ==
    /\ error = "invalid" => catalog \in Catalogs /\ RowsRefused(catalog)
    /\ outcome = "invalid" =>
        /\ pc = "idle" /\ catalog \in Catalogs
        /\ RowsRefused(catalog) \/ ~Accepted(catalog) \/ Restructured(catalog)

(* What clients see is one catalog's.                                      *)
Snapshot(c) == [revision |-> Revision(c), context |-> Context(c), structure |-> Structure(c)]

Shows == published # Nothing => \E c \in Catalogs : published = Snapshot(c)

IInv == Blamed /\ Handled /\ Queried /\ Refused /\ Shows

-----------------------------------------------------------------------------
(* It is inductive.                                                        *)

(* Before the first load there is nothing to be wrong.                     *)
LEMMA InitIInv ==
    ASSUME Init
    PROVE  IInv
BY DEF Init, IInv, Blamed, Handled, Queried, Refused, Shows, Fresh, RefusalsStick

(* The first exception decides what the load is blamed for.                *)
LEMMA NextBlamed ==
    ASSUME Blamed, [Next]_vars
    PROVE  Blamed'
<1> USE DEF Blamed, Fresh, Kinds, RefusalsStick, databaseVars
<1>1. CASE Load
  BY <1>1 DEF Load
<1>2. CASE GetPool
  BY <1>2 DEF GetPool, Over
<1>3. CASE Lease
  BY <1>3 DEF Lease, Over
<1>4. CASE CheckConnection
  BY <1>4 DEF CheckConnection, Raise
<1>5. CASE CheckFails
  BY <1>5 DEF CheckFails, Raise
<1>6. CASE Begin \/ ApplySettings \/ Commit
  BY <1>6 DEF Begin, ApplySettings, Commit, Statement
<1>7. CASE CheckSession
  BY <1>7 DEF CheckSession, Raise
<1>8. CASE Query
  BY <1>8 DEF Query, Raise
<1>9. CASE StatementFails
  BY <1>9 DEF StatementFails, Raise
<1>10. CASE Rollback
  BY <1>10 DEF Rollback, ErrorAfterRollback
<1>11. CASE Cancel
  BY <1>11 DEF Cancel, Over
<1>12. CASE Exit \/ ExitFails
  BY <1>12 DEF Exit, ExitFails, Over
<1>13. CASE Publish
  BY <1>13 DEF Publish
<1>14. CASE Close
  BY <1>14 DEF Close
<1>15. CASE UNCHANGED vars
  BY <1>15 DEF vars
<1> QED
  BY <1>1, <1>2, <1>3, <1>4, <1>5, <1>6, <1>7, <1>8, <1>9, <1>10, <1>11, <1>12, <1>13,
     <1>14, <1>15 DEF Next

(* Whatever is not idle or not wanted is closed on its way to the pool.    *)
LEMMA NextHandled ==
    ASSUME Blamed, Handled, [Next]_vars
    PROVE  Handled'
<1> USE DEF Handled, Sound, databaseVars
<1>1. CASE Load
  BY <1>1 DEF Load
<1>2. CASE GetPool
  BY <1>2 DEF GetPool, Over
<1>3. CASE Lease
  BY <1>3 DEF Lease, Over
<1>4. CASE CheckConnection
  BY <1>4 DEF CheckConnection, Raise, LinkOfMismatch
<1>5. CASE CheckFails
  BY <1>5 DEF CheckFails, Raise
<1>6. CASE Begin \/ ApplySettings \/ Commit
  BY <1>6 DEF Begin, ApplySettings, Commit, Statement
<1>7. CASE CheckSession
  BY <1>7 DEF CheckSession, Raise
<1>8. CASE Query
  BY <1>8 DEF Query, Raise
<1>9. CASE StatementFails
  BY <1>9 DEF StatementFails, Raise
<1>10. CASE Rollback
  BY <1>10 DEF Rollback
<1>11. CASE Cancel
  BY <1>11 DEF Cancel, Over
<1>12. CASE Exit \/ ExitFails
  BY <1>12 DEF Exit, ExitFails, Over
<1>13. CASE Publish
  BY <1>13 DEF Publish
<1>14. CASE Close
  BY <1>14 DEF Close
<1>15. CASE UNCHANGED vars
  BY <1>15 DEF vars
<1> QED
  BY <1>1, <1>2, <1>3, <1>4, <1>5, <1>6, <1>7, <1>8, <1>9, <1>10, <1>11, <1>12, <1>13,
     <1>14, <1>15 DEF Next

(* The catalog that is published is the one whose rows were checked.       *)
LEMMA NextQueried ==
    ASSUME Blamed, Queried, [Next]_vars
    PROVE  Queried'
<1> USE DEF Queried, Blamed, Fresh, Kinds, databaseVars
<1>1. CASE Load
  BY <1>1 DEF Load
<1>2. CASE GetPool
  BY <1>2 DEF GetPool, Over
<1>3. CASE Lease
  BY <1>3 DEF Lease, Over
<1>4. CASE CheckConnection
  BY <1>4 DEF CheckConnection, Raise
<1>5. CASE CheckFails
  BY <1>5 DEF CheckFails, Raise
<1>6. CASE Begin \/ ApplySettings \/ Commit
  BY <1>6 DEF Begin, ApplySettings, Commit, Statement
<1>7. CASE CheckSession
  BY <1>7 DEF CheckSession, Raise
<1>8. CASE Query
  BY <1>8 DEF Query, Raise
<1>9. CASE StatementFails
  BY <1>9 DEF StatementFails, Raise
<1>10. CASE Rollback
  BY <1>10 DEF Rollback, ErrorAfterRollback
<1>11. CASE Cancel
  BY <1>11 DEF Cancel, Over
<1>12. CASE Exit \/ ExitFails
  BY <1>12 DEF Exit, ExitFails, Over
<1>13. CASE Publish
  BY <1>13 DEF Publish, Accepted
<1>14. CASE Close
  BY <1>14 DEF Close
<1>15. CASE UNCHANGED vars
  BY <1>15 DEF vars
<1> QED
  BY <1>1, <1>2, <1>3, <1>4, <1>5, <1>6, <1>7, <1>8, <1>9, <1>10, <1>11, <1>12, <1>13,
     <1>14, <1>15 DEF Next

LEMMA NextRefused ==
    ASSUME Blamed, Queried, Refused, [Next]_vars
    PROVE  Refused'
<1> USE DEF Refused, Blamed, Fresh, Kinds, databaseVars
<1>1. CASE Load
  BY <1>1 DEF Load
<1>2. CASE GetPool
  BY <1>2 DEF GetPool, Over, Restructured
<1>3. CASE Lease
  BY <1>3 DEF Lease, Over, Restructured
<1>4. CASE CheckConnection \/ CheckFails \/ CheckSession
  BY <1>4 DEF CheckConnection, CheckFails, CheckSession, Raise, Restructured
<1>5. CASE Begin \/ ApplySettings \/ Commit
  BY <1>5 DEF Begin, ApplySettings, Commit, Statement, Restructured
<1>6. CASE Query
  BY <1>6 DEF Query, Raise, Restructured
<1>7. CASE StatementFails
  BY <1>7 DEF StatementFails, Raise, Restructured
<1>8. CASE Rollback
  BY <1>8 DEF Rollback, ErrorAfterRollback, Restructured
<1>9. CASE Cancel
  BY <1>9 DEF Cancel, Over, Restructured
<1>10. CASE Exit \/ ExitFails
  <2>1. /\ pc = "exit" /\ catalog' = catalog /\ published' = published
        /\ pc' \in {"publish", "idle"} /\ error' \in {error, "none"}
        /\ outcome' \in {outcome, "transient"} \/ (outcome' = error /\ pc' = "idle")
    BY <1>10 DEF Exit, ExitFails, Over
  <2>2. outcome = "none"
    BY <2>1
  <2>3. error' = "invalid" => error = "invalid"
    BY <2>1
  <2>4. outcome' = "invalid" => error = "invalid" /\ pc' = "idle"
    BY <2>1, <2>2
  <2> QED
    BY <2>1, <2>3, <2>4
<1>11. CASE Publish
  <2>1. /\ pc = "publish" /\ catalog' = catalog /\ error' = error /\ pc' = "idle"
        /\ outcome' = "invalid" =>
              /\ published' = published
              /\ ~Accepted(catalog) \/ Restructured(catalog)
    BY <1>11 DEF Publish, Accepted
  <2>2. catalog \in Catalogs
    BY <2>1 DEF Queried
  <2>3. outcome' = "invalid" => ~Accepted(catalog') \/ Restructured(catalog)'
    BY <2>1 DEF Restructured
  <2> QED
    BY <2>1, <2>2, <2>3
<1>12. CASE Close
  BY <1>12 DEF Close, Restructured
<1>13. CASE UNCHANGED vars
  BY <1>13 DEF vars, Restructured
<1> QED
  BY <1>1, <1>2, <1>3, <1>4, <1>5, <1>6, <1>7, <1>8, <1>9, <1>10, <1>11, <1>12, <1>13 DEF Next

(* Only Publish changes what clients see.                                  *)
LEMMA PublishedOnlyThere ==
    ASSUME [Next]_vars, published' # published
    PROVE  Publish /\ published' = Snapshot(catalog)
BY DEF Next, Load, GetPool, Lease, CheckConnection, CheckFails, Begin, ApplySettings,
       CheckSession, Query, Commit, StatementFails, Rollback, Cancel, Exit, ExitFails, Publish,
       Close, Over, Raise, Statement, Snapshot, vars

(* Every step keeps the invariant.                                         *)
LEMMA NextIInv ==
    ASSUME IInv, [Next]_vars
    PROVE  IInv'
<1>1. Shows'
  <2>1. CASE published' = published
    BY <2>1 DEF IInv, Shows, Snapshot, Revision, Context, Structure
  <2>2. CASE published' # published
    <3>1. catalog \in Catalogs /\ published' = Snapshot(catalog)
      BY <2>2, PublishedOnlyThere DEF Publish, IInv, Queried
    <3> QED
      BY <3>1 DEF Shows
  <2> QED
    BY <2>1, <2>2
<1> QED
  BY <1>1, NextBlamed, NextHandled, NextQueried, NextRefused DEF IInv

(* So it holds in every reachable state.                                   *)
THEOREM Invariance == Spec => []IInv
BY InitIInv, NextIInv, PTL DEF Spec

(* A refusal stays a refusal and an outage an outage, whatever fails or is *)
(* cancelled on the way out of the load: MetadataService serves the old    *)
(* snapshot after the one and not after the other.                         *)
THEOREM BlameIsRight == Spec => []RefusalsStick
<1>1. IInv => RefusalsStick
  BY DEF IInv, Blamed, Fresh, Kinds, RefusalsStick
<1> QED
  BY <1>1, Invariance, PTL

(* The pool never keeps a connection in a transaction, nor one the reader  *)
(* policy refused.                                                         *)
THEOREM ConnectionsAreClean == Spec => []CleanConnection
<1>1. IInv => CleanConnection
  BY DEF IInv, Handled, Sound, CleanConnection
<1> QED
  BY <1>1, Invariance, PTL

-----------------------------------------------------------------------------
(* The revision.                                                           *)

(* Two catalogs with one revision have the same views, with the same       *)
(* comments, definitions and columns.                                      *)
LEMMA RevisionDetermines ==
    ASSUME NEW c \in Catalogs, NEW d \in Catalogs, Revision(c) = Revision(d)
    PROVE  /\ Loaded(c) = Loaded(d)
           /\ \A r \in Loaded(c) :
                /\ c[r].description = d[r].description /\ c[r].definition = d[r].definition
                /\ ColumnsOf(c, r) = ColumnsOf(d, r)
                /\ \A i \in ColumnsOf(c, r) : c[r].columns[i] = d[r].columns[i]
<1> DEFINE Cols(e, r) == {<<i, e[r].columns[i]>> : i \in ColumnsOf(e, r)}
           Entry(e, r) == [name |-> r, comment |-> e[r].description,
                           definition |-> e[r].definition, columns |-> Cols(e, r)]
<1>1. Revision(c) = {Entry(c, r) : r \in Loaded(c)} /\ Revision(d) = {Entry(d, r) : r \in Loaded(d)}
  BY DEF Revision
<1>2. \A r, q : Entry(c, r) = Entry(d, q) =>
          /\ r = q /\ c[r].description = d[q].description
          /\ c[r].definition = d[q].definition /\ Cols(c, r) = Cols(d, q)
  OBVIOUS
<1>3. \A r : Cols(c, r) = Cols(d, r) =>
          /\ ColumnsOf(c, r) = ColumnsOf(d, r)
          /\ \A i \in ColumnsOf(c, r) : c[r].columns[i] = d[r].columns[i]
  <2> SUFFICES ASSUME NEW r, Cols(c, r) = Cols(d, r)
               PROVE  /\ ColumnsOf(c, r) = ColumnsOf(d, r)
                      /\ \A i \in ColumnsOf(c, r) : c[r].columns[i] = d[r].columns[i]
    OBVIOUS
  <2>1. ASSUME NEW i \in ColumnsOf(c, r)
        PROVE  i \in ColumnsOf(d, r) /\ c[r].columns[i] = d[r].columns[i]
    <3>1. <<i, c[r].columns[i]>> \in Cols(d, r)
      OBVIOUS
    <3>2. PICK j \in ColumnsOf(d, r) : <<i, c[r].columns[i]>> = <<j, d[r].columns[j]>>
      BY <3>1
    <3> QED
      BY <3>2
  <2>2. ASSUME NEW i \in ColumnsOf(d, r)
        PROVE  i \in ColumnsOf(c, r)
    <3>1. <<i, d[r].columns[i]>> \in Cols(c, r)
      OBVIOUS
    <3>2. PICK j \in ColumnsOf(c, r) : <<i, d[r].columns[i]>> = <<j, c[r].columns[j]>>
      BY <3>1
    <3> QED
      BY <3>2
  <2> QED
    BY <2>1, <2>2
<1> HIDE DEF Entry, Cols
<1>4. ASSUME NEW r \in Loaded(c)
      PROVE  r \in Loaded(d) /\ Entry(c, r) = Entry(d, r)
  <2>1. PICK q \in Loaded(d) : Entry(c, r) = Entry(d, q)
    BY <1>1
  <2> QED
    BY <1>2, <2>1
<1>5. ASSUME NEW q \in Loaded(d)
      PROVE  q \in Loaded(c)
  <2>1. PICK r \in Loaded(c) : Entry(c, r) = Entry(d, q)
    BY <1>1
  <2> QED
    BY <1>2, <2>1
<1>6. Loaded(c) = Loaded(d)
  BY <1>4, <1>5
<1>7. ASSUME NEW r \in Loaded(c)
      PROVE  /\ c[r].description = d[r].description /\ c[r].definition = d[r].definition
             /\ ColumnsOf(c, r) = ColumnsOf(d, r)
             /\ \A i \in ColumnsOf(c, r) : c[r].columns[i] = d[r].columns[i]
  <2>1. /\ c[r].description = d[r].description /\ c[r].definition = d[r].definition
        /\ Cols(c, r) = Cols(d, r)
    BY <1>2, <1>4
  <2> QED
    BY <1>3, <2>1
<1> QED
  BY <1>6, <1>7

(* So they show clients the same context and have the same structure.      *)
LEMMA SameRevisionSameSnapshot ==
    ASSUME NEW c \in Catalogs, NEW d \in Catalogs, Revision(c) = Revision(d)
    PROVE  Snapshot(c) = Snapshot(d)
<1>1. /\ Loaded(c) = Loaded(d)
      /\ \A r \in Loaded(c) :
            /\ c[r].description = d[r].description /\ c[r].definition = d[r].definition
            /\ ColumnsOf(c, r) = ColumnsOf(d, r)
            /\ \A i \in ColumnsOf(c, r) : c[r].columns[i] = d[r].columns[i]
  BY RevisionDetermines
<1>2. \A r \in Loaded(c) : Shown(c, r) = Shown(d, r) /\ Shown(c, r) \subseteq ColumnsOf(c, r)
  BY <1>1 DEF Shown
<1> DEFINE First(e, r) == {<<i, e[r].columns[i]>> : i \in Shown(e, r)}
           Types(e, r) == {<<i, e[r].columns[i].type>> : i \in ColumnsOf(e, r)}
           Relation(e, r) == [name |-> r, description |-> e[r].description,
                              count |-> Cardinality(ColumnsOf(e, r)), columns |-> First(e, r)]
           View(e, r) == [name |-> r, definition |-> e[r].definition, columns |-> Types(e, r)]
<1>3. \A r \in Loaded(c) : First(c, r) = First(d, r) /\ Types(c, r) = Types(d, r)
  BY <1>1, <1>2
<1>4. \A r \in Loaded(c) : Relation(c, r) = Relation(d, r) /\ View(c, r) = View(d, r)
  BY <1>1, <1>3
<1>5. /\ Context(c) = {Relation(c, r) : r \in Loaded(c)}
      /\ Context(d) = {Relation(d, r) : r \in Loaded(d)}
      /\ Structure(c) = {View(c, r) : r \in Loaded(c)}
      /\ Structure(d) = {View(d, r) : r \in Loaded(d)}
  BY DEF Context, Structure
<1> HIDE DEF Relation, View
<1>6. Context(c) = Context(d) /\ Structure(c) = Structure(d)
  BY <1>1, <1>4, <1>5
<1> QED
  BY <1>6 DEF Snapshot

(* A client that holds the revision in force has seen the context in       *)
(* force: no comment, column or definition that a response shows is left   *)
(* out of what create_metadata_revision hashes.                            *)
THEOREM RevisionIsEnough == Spec => RevisionNamesTheContext
<1>1. ASSUME IInv, [Next]_vars
      PROVE  [published # Nothing /\ published'.revision = published.revision
                => published' = published]_published
  <2> SUFFICES ASSUME published' # published, published # Nothing,
                      published'.revision = published.revision
               PROVE  published' = published
    OBVIOUS
  <2>1. catalog \in Catalogs /\ published' = Snapshot(catalog)
    BY <1>1, PublishedOnlyThere DEF Publish, IInv, Queried
  <2>2. PICK c \in Catalogs : published = Snapshot(c)
    BY <1>1 DEF IInv, Shows
  <2>3. Revision(c) = Revision(catalog)
    BY <2>1, <2>2 DEF Snapshot
  <2> QED
    BY <2>1, <2>2, <2>3, SameRevisionSameSnapshot
<1> QED
  BY <1>1, Invariance, PTL DEF Spec, RevisionNamesTheContext

-----------------------------------------------------------------------------
(* The LIMIT of the catalog query.                                         *)

(* A non-empty set of naturals has a least element.                        *)
LEMMA LeastNatural ==
    ASSUME NEW S \in SUBSET Nat, S # {}
    PROVE  \E n \in S : \A m \in S : n <= m
<1> DEFINE Less == OpToRel(<, Nat)
<1>1. \A m, n \in Nat : m < n => <<m, n>> \in Less
  BY DEF OpToRel
<1>2. IsWellFoundedOn(Less, Nat)
  BY NatLessThanWellFounded
<1> HIDE DEF Less
<1>3. PICK n \in S : \A m \in S : <<m, n>> \notin Less
  BY <1>2, WFMin
<1>4. ASSUME NEW m \in S
      PROVE  n <= m
  <2>1. m \in Nat /\ n \in Nat
    OBVIOUS
  <2>2. <<m, n>> \notin Less
    BY <1>3
  <2>3. ~(m < n)
    BY <1>1, <2>1, <2>2
  <2> QED
    BY <2>1, <2>3
<1> QED
  BY <1>4

(* There are finitely many rows, each a view and an ordinal.               *)
LEMMA SelectableRows ==
    ASSUME NEW c \in Catalogs
    PROVE  /\ IsFiniteSet(Selectable(c))
           /\ \A p : p \in Selectable(c) <=>
                \E r \in DOMAIN c : \E i \in DOMAIN c[r].columns : p = <<r, i>>
           /\ \A p \in Selectable(c) : p[1] \in Nat /\ p[2] \in Nat
<1> DEFINE part == [r \in DOMAIN c |-> {r} \X DOMAIN c[r].columns]
           parts == {part[r] : r \in DOMAIN c}
<1>1. IsFiniteSet(DOMAIN c) /\ DOMAIN c \subseteq Nat
  BY CatalogAssumption
<1>2. \A r \in DOMAIN c : DOMAIN c[r].columns \subseteq Nat /\ IsFiniteSet(DOMAIN c[r].columns)
  BY CatalogAssumption
<1>3. part \in Surjection(DOMAIN c, parts)
  BY DEF Surjection
<1>4. IsFiniteSet(parts)
  BY <1>1, <1>3, FS_Surjection
<1>5. \A r \in DOMAIN c : IsFiniteSet(part[r])
  BY <1>2, FS_Singleton, FS_Product
<1>6. \A part_ \in parts : IsFiniteSet(part_)
  BY <1>5
<1>7. Selectable(c) = UNION parts
  BY DEF Selectable
<1>8. IsFiniteSet(Selectable(c))
  BY <1>4, <1>6, <1>7, FS_UNION
<1>9. \A p : p \in Selectable(c) <=>
          \E r \in DOMAIN c : \E i \in DOMAIN c[r].columns : p = <<r, i>>
  BY DEF Selectable
<1> QED
  BY <1>1, <1>2, <1>8, <1>9

(* The query asks for one row more than the budget allows: if it gets no   *)
(* more than those, it got every row there is.                             *)
LEMMA LimitIsNotReached ==
    ASSUME NEW c \in Catalogs, Cardinality(Rows(c)) <= MaxColumns
    PROVE  Rows(c) = Selectable(c)
<1> DEFINE Prev(p) == {q \in Selectable(c) : Before(q, p)}
           Rank(p) == Cardinality(Prev(p))
           Cut == Selectable(c) \ Rows(c)
<1>1. Rows(c) = {p \in Selectable(c) : Rank(p) < MaxColumns + 1}
  BY DEF Rows, RowLimit
<1>2. \A p : Prev(p) \in SUBSET Selectable(c) /\ IsFiniteSet(Prev(p)) /\ Rank(p) \in Nat
  BY SelectableRows, FS_Subset, FS_CardinalityType
<1>3. ASSUME NEW p \in Selectable(c), NEW q \in Prev(p)
      PROVE  Rank(q) < Rank(p)
  <2>1. Prev(q) \subseteq Prev(p) /\ q \in Prev(p) /\ q \notin Prev(q)
    BY <1>3, SelectableRows DEF Before
  <2> HIDE DEF Prev
  <2>2. Cardinality(Prev(q)) <= Cardinality(Prev(p)) /\ Cardinality(Prev(q)) # Cardinality(Prev(p))
    BY <1>2, <2>1, FS_Subset
  <2> QED
    BY <1>2, <2>2
<1> SUFFICES ASSUME Cut # {}
             PROVE  FALSE
  BY <1>1
<1> DEFINE Ranks == {Rank(p) : p \in Cut}
<1>4. Ranks \in SUBSET Nat /\ Ranks # {}
  BY <1>2
<1>5. PICK p \in Cut : \A q \in Cut : Rank(p) <= Rank(q)
  <2> HIDE DEF Ranks
  <2>1. \E n \in Ranks : \A m \in Ranks : n <= m
    BY <1>4, LeastNatural
  <2> QED
    BY <2>1 DEF Ranks
<1> HIDE DEF Prev, Rank
<1>6. Prev(p) \subseteq Rows(c)
  <2> SUFFICES ASSUME NEW q \in Prev(p)
               PROVE  q \in Rows(c)
    OBVIOUS
  <2>1. Rank(q) < Rank(p) /\ q \in Selectable(c)
    BY <1>2, <1>3
  <2> QED
    BY <1>2, <1>5, <2>1
<1>7. IsFiniteSet(Rows(c))
  <2>1. Rows(c) \in SUBSET Selectable(c)
    BY <1>1
  <2> QED
    BY <2>1, SelectableRows, FS_Subset
<1>8. Rank(p) <= Cardinality(Rows(c)) /\ Cardinality(Rows(c)) \in Nat
  BY <1>6, <1>7, FS_Subset, FS_CardinalityType DEF Rank
<1>9. ~(Rank(p) < MaxColumns + 1)
  BY <1>1, <1>5
<1> QED
  BY <1>2, <1>8, <1>9, LimitsAssumption

(* Rows that are all there are show every view and every column.           *)
LEMMA AllIsLoaded ==
    ASSUME NEW c \in Catalogs, Rows(c) = Selectable(c)
    PROVE  /\ Loaded(c) = Visible(c)
           /\ \A r \in Visible(c) : ColumnsOf(c, r) = DOMAIN c[r].columns
<1>1. ASSUME NEW r \in Loaded(c)
      PROVE  r \in Visible(c)
  <2>1. PICK p \in Selectable(c) : p[1] = r
    BY DEF Loaded
  <2>2. PICK q \in DOMAIN c : \E i \in DOMAIN c[q].columns : p = <<q, i>>
    BY SelectableRows
  <2> QED
    BY <2>1, <2>2 DEF Visible
<1>2. ASSUME NEW r \in Visible(c), NEW i \in DOMAIN c[r].columns
      PROVE  r \in Loaded(c) /\ i \in ColumnsOf(c, r)
  <2>1. <<r, i>> \in Rows(c)
    BY SelectableRows DEF Visible
  <2>2. <<r, i>>[1] = r /\ <<r, i>>[2] = i
    OBVIOUS
  <2>3. r \in Loaded(c)
    BY <2>1, <2>2 DEF Loaded
  <2>4. <<r, i>> \in {q \in Rows(c) : q[1] = r}
    BY <2>1, <2>2
  <2> QED
    BY <2>2, <2>3, <2>4 DEF ColumnsOf
<1>3. ASSUME NEW r \in Visible(c), NEW i \in ColumnsOf(c, r)
      PROVE  i \in DOMAIN c[r].columns
  <2>1. PICK p \in Selectable(c) : p[1] = r /\ p[2] = i
    BY DEF ColumnsOf
  <2>2. PICK q \in DOMAIN c : \E j \in DOMAIN c[q].columns : p = <<q, j>>
    BY SelectableRows
  <2> QED
    BY <2>1, <2>2
<1>4. \A r \in Visible(c) : r \in Loaded(c)
  BY <1>2 DEF Visible
<1> QED
  BY <1>1, <1>2, <1>3, <1>4

-----------------------------------------------------------------------------
(* Sums over finite sets.                                                  *)

(* Among the subsets with some property one is minimal.                    *)
LEMMA MinimalSet ==
    ASSUME NEW S, IsFiniteSet(S), NEW B \in SUBSET SUBSET S, B # {}
    PROVE  \E T \in B : \A x \in T : T \ {x} \notin B
<1> DEFINE Sizes == {Cardinality(T) : T \in B}
<1>1. \A T \in SUBSET S : IsFiniteSet(T) /\ Cardinality(T) \in Nat
  BY FS_Subset, FS_CardinalityType
<1>2. Sizes \in SUBSET Nat /\ Sizes # {}
  BY <1>1
<1>3. PICK T \in B : \A U \in B : Cardinality(T) <= Cardinality(U)
  <2> HIDE DEF Sizes
  <2>1. \E n \in Sizes : \A m \in Sizes : n <= m
    BY <1>2, LeastNatural
  <2> QED
    BY <2>1 DEF Sizes
<1>4. ASSUME NEW x \in T
      PROVE  T \ {x} \notin B
  <2>1. Cardinality(T \ {x}) = Cardinality(T) - 1 /\ Cardinality(T) \in Nat
    BY <1>1, FS_RemoveElement
  <2>2. ~(Cardinality(T) <= Cardinality(T \ {x}))
    BY <2>1
  <2> QED
    BY <1>3, <2>2
<1> QED
  BY <1>4

One(T) == CHOOSE x \in T : TRUE

Level(S, n) == {T \in SUBSET S : Cardinality(T) <= n}

(* The fold of SumFunction, for the sets of up to n members.               *)
Folds(S, f, n, g) ==
    /\ g \in [Level(S, n) -> Nat]
    /\ \A T \in Level(S, n) : g[T] = IF T = {} THEN 0 ELSE f[One(T)] + g[T \ {One(T)}]

LEMMA FoldsExist ==
    ASSUME NEW S, IsFiniteSet(S), NEW f \in [S -> Nat], NEW N \in Nat
    PROVE  \E g : Folds(S, f, N, g)
<1> DEFINE Bad == {n \in Nat : ~\E g : Folds(S, f, n, g)}
<1> SUFFICES ASSUME Bad # {}
             PROVE  FALSE
  OBVIOUS
<1>1. \A T \in SUBSET S : IsFiniteSet(T) /\ Cardinality(T) \in Nat
  BY FS_Subset, FS_CardinalityType
<1>2. PICK n \in Bad : \A m \in Bad : n <= m
  <2>1. Bad \in SUBSET Nat
    OBVIOUS
  <2> HIDE DEF Bad
  <2> QED
    BY <2>1, LeastNatural
<1>3. \A T \in SUBSET S : T # {} => One(T) \in T /\ One(T) \in S /\ T \ {One(T)} \in SUBSET S
  BY DEF One
<1>4. n # 0
  <2>1. SUFFICES ASSUME n = 0
                 PROVE  FALSE
    OBVIOUS
  <2>2. \A T \in Level(S, 0) : T = {}
    BY <1>1, FS_EmptySet DEF Level
  <2>3. Folds(S, f, 0, [T \in Level(S, 0) |-> 0])
    BY <2>2 DEF Folds
  <2> QED
    BY <2>1, <2>3
<1>5. PICK g : Folds(S, f, n - 1, g)
  <2>1. n - 1 \in Nat /\ ~(n <= n - 1)
    BY <1>4
  <2> QED
    BY <1>2, <2>1
<1> DEFINE h == [T \in Level(S, n) |-> IF T = {} THEN 0 ELSE f[One(T)] + g[T \ {One(T)}]]
<1>6. \A T \in Level(S, n) : T # {} => T \ {One(T)} \in Level(S, n - 1)
  <2> SUFFICES ASSUME NEW T \in Level(S, n), T # {}
               PROVE  T \ {One(T)} \in Level(S, n - 1)
    OBVIOUS
  <2>1. Cardinality(T \ {One(T)}) = Cardinality(T) - 1
    BY <1>1, <1>3, FS_RemoveElement DEF Level
  <2>2. Cardinality(T) \in Nat /\ Cardinality(T) <= n
    BY <1>1 DEF Level
  <2>3. Cardinality(T \ {One(T)}) <= n - 1
    BY <2>1, <2>2
  <2> QED
    BY <1>3, <2>3 DEF Level
<1>7. \A T \in Level(S, n - 1) : T \in Level(S, n) /\ h[T] = g[T]
  <2> SUFFICES ASSUME NEW T \in Level(S, n - 1)
               PROVE  T \in Level(S, n) /\ h[T] = g[T]
    OBVIOUS
  <2>1. T \in Level(S, n)
    BY <1>1 DEF Level
  <2>2. g[T] = IF T = {} THEN 0 ELSE f[One(T)] + g[T \ {One(T)}]
    BY <1>5 DEF Folds
  <2> QED
    BY <2>1, <2>2
<1>8. h \in [Level(S, n) -> Nat]
  <2>1. \A T \in Level(S, n) : T # {} => f[One(T)] \in Nat /\ g[T \ {One(T)}] \in Nat
    BY <1>3, <1>5, <1>6 DEF Folds, Level
  <2>2. \A T \in Level(S, n) :
            (IF T = {} THEN 0 ELSE f[One(T)] + g[T \ {One(T)}]) \in Nat
    BY <2>1
  <2> QED
    BY <2>2
<1>9. \A T \in Level(S, n) : h[T] = IF T = {} THEN 0 ELSE f[One(T)] + h[T \ {One(T)}]
  BY <1>6, <1>7
<1>10. Folds(S, f, n, h)
  BY <1>8, <1>9 DEF Folds
<1> QED
  BY <1>10

(* What the sums of f over the subsets of S satisfy.                       *)
SumsUp(S, f, g) ==
    /\ g \in [SUBSET S -> Nat] /\ g[{}] = 0
    /\ \A T \in SUBSET S : T # {} => \E x \in T : g[T] = f[x] + g[T \ {x}]

(* A sum over the empty set is 0, any other is one term more than another. *)
LEMMA SumUnfolds ==
    ASSUME NEW S, IsFiniteSet(S), NEW f \in [S -> Nat]
    PROVE  \E g : SumFunction(f) = g[S] /\ SumsUp(S, f, g)
<1> DEFINE IsFold(h) == h = [T \in SUBSET S |-> IF T = {} THEN 0 ELSE f[One(T)] + h[T \ {One(T)}]]
           sum == CHOOSE h : IsFold(h)
<1>1. SumFunction(f) = sum[S]
  BY DEF SumFunction, SumFunctionOnSet, FoldFunctionOnSet, MapThenFoldSet, One
<1>2. Level(S, Cardinality(S)) = SUBSET S /\ Cardinality(S) \in Nat
  BY FS_Subset, FS_CardinalityType DEF Level
<1>3. PICK g : Folds(S, f, Cardinality(S), g)
  BY <1>2, FoldsExist
<1>4. IsFold(g)
  BY <1>2, <1>3 DEF Folds
<1>5. IsFold(sum)
  BY <1>4
<1> HIDE DEF sum
<1>6. \A T \in SUBSET S : sum[T] = IF T = {} THEN 0 ELSE f[One(T)] + sum[T \ {One(T)}]
  BY <1>5
<1>7. \A T \in SUBSET S : g[T] \in Nat /\ g[T] = IF T = {} THEN 0 ELSE f[One(T)] + g[T \ {One(T)}]
  BY <1>2, <1>3 DEF Folds
<1>8. \A T \in SUBSET S : sum[T] = g[T]
  <2> DEFINE Bad == {T \in SUBSET S : sum[T] # g[T]}
  <2> SUFFICES ASSUME Bad # {}
               PROVE  FALSE
    OBVIOUS
  <2>1. PICK T \in Bad : \A x \in T : T \ {x} \notin Bad
    <3>1. Bad \in SUBSET SUBSET S
      OBVIOUS
    <3> HIDE DEF Bad
    <3> QED
      BY <3>1, MinimalSet
  <2>2. T # {}
    BY <1>6, <1>7
  <2>3. One(T) \in T
    BY <2>2 DEF One
  <2>4. sum[T \ {One(T)}] = g[T \ {One(T)}]
    BY <2>1, <2>3
  <2> QED
    BY <1>6, <1>7, <2>2, <2>4
<1>9. \A T \in SUBSET S : T # {} => \E x \in T : g[T] = f[x] + g[T \ {x}]
  BY <1>7 DEF One
<1>10. g \in [SUBSET S -> Nat] /\ g[{}] = 0
  BY <1>2, <1>3, <1>7 DEF Folds
<1>11. SumsUp(S, f, g)
  BY <1>9, <1>10 DEF SumsUp
<1> QED
  BY <1>1, <1>8, <1>11

-----------------------------------------------------------------------------
(* What a catalog has to be.                                               *)

(* The rows of a set of views are counted view by view.                    *)
LEMMA RowsAreCounted ==
    ASSUME NEW c \in Catalogs
    PROVE  Cardinality(Selectable(c)) =
             SumFunction([r \in Visible(c) |-> Cardinality(DOMAIN c[r].columns)])
<1> DEFINE V == Visible(c)
           R == Selectable(c)
           f == [r \in V |-> Cardinality(DOMAIN c[r].columns)]
           Of(T) == {p \in R : p[1] \in T}
<1>1. IsFiniteSet(V) /\ \A r \in V : r \in DOMAIN c /\ IsFiniteSet(DOMAIN c[r].columns)
  <2>1. V \in SUBSET DOMAIN c /\ IsFiniteSet(DOMAIN c)
    BY CatalogAssumption DEF Visible
  <2> QED
    BY <2>1, FS_Subset, CatalogAssumption
<1>2. /\ IsFiniteSet(R)
      /\ \A p : p \in R <=> \E r \in DOMAIN c : \E i \in DOMAIN c[r].columns : p = <<r, i>>
  BY SelectableRows
<1>3. f \in [V -> Nat]
  BY <1>1, FS_CardinalityType
<1>4. Of(V) = R
  BY <1>2 DEF Visible
<1>5. \A r \in V : Of({r}) = {r} \X DOMAIN c[r].columns
  BY <1>1, <1>2
<1>6. \A T : IsFiniteSet(Of(T)) /\ Cardinality(Of(T)) \in Nat
  <2>1. \A T : Of(T) \in SUBSET R
    OBVIOUS
  <2> QED
    BY <1>2, <2>1, FS_Subset, FS_CardinalityType
<1>7. \A r \in V : Cardinality(Of({r})) = f[r]
  <2> SUFFICES ASSUME NEW r \in V
               PROVE  Cardinality(Of({r})) = f[r]
    OBVIOUS
  <2>1. Cardinality({r} \X DOMAIN c[r].columns) = 1 * Cardinality(DOMAIN c[r].columns)
    <3>1. IsFiniteSet({r}) /\ Cardinality({r}) = 1
      BY FS_Singleton
    <3>2. IsFiniteSet(DOMAIN c[r].columns)
      BY <1>1
    <3>3. Cardinality({r} \X DOMAIN c[r].columns) = Cardinality({r}) * Cardinality(DOMAIN c[r].columns)
      BY <3>1, <3>2, FS_Product
    <3> QED
      BY <3>1, <3>3
  <2>2. Cardinality(DOMAIN c[r].columns) \in Nat
    BY <1>1, FS_CardinalityType
  <2>3. 1 * Cardinality(DOMAIN c[r].columns) = Cardinality(DOMAIN c[r].columns)
    BY <2>2
  <2> QED
    BY <1>5, <2>1, <2>3
<1>8. \A T : \A x \in T : Cardinality(Of(T)) = Cardinality(Of({x})) + Cardinality(Of(T \ {x}))
  <2> SUFFICES ASSUME NEW T, NEW x \in T
               PROVE  Cardinality(Of(T)) = Cardinality(Of({x})) + Cardinality(Of(T \ {x}))
    OBVIOUS
  <2>1. Of(T) = Of({x}) \union Of(T \ {x}) /\ Of({x}) \intersect Of(T \ {x}) = {}
    OBVIOUS
  <2> HIDE DEF Of
  <2>2. Cardinality(Of(T)) =
          Cardinality(Of({x})) + Cardinality(Of(T \ {x})) - Cardinality({})
    BY <1>6, <2>1, FS_Union
  <2> QED
    BY <1>6, <2>2, FS_EmptySet
<1>9. Of({}) = {}
  OBVIOUS
<1>10. PICK g : SumFunction(f) = g[V] /\ SumsUp(V, f, g)
  <2>1. IsFiniteSet(V)
    BY <1>1
  <2> HIDE DEF f, V
  <2> QED
    BY <2>1, <1>3, SumUnfolds
<1> HIDE DEF Of, f, V
<1>11. \A T \in SUBSET V : g[T] = Cardinality(Of(T))
  <2> DEFINE Bad == {T \in SUBSET V : g[T] # Cardinality(Of(T))}
  <2> SUFFICES ASSUME Bad # {}
               PROVE  FALSE
    OBVIOUS
  <2>1. PICK T \in Bad : \A x \in T : T \ {x} \notin Bad
    <3>1. Bad \in SUBSET SUBSET V
      OBVIOUS
    <3> HIDE DEF Bad
    <3> QED
      BY <1>1, <3>1, MinimalSet
  <2>2. T # {}
    BY <1>9, <1>10, FS_EmptySet DEF SumsUp
  <2>3. PICK x \in T : g[T] = f[x] + g[T \ {x}]
    BY <1>10, <2>2 DEF SumsUp
  <2>4. g[T \ {x}] = Cardinality(Of(T \ {x}))
    BY <2>1
  <2>5. Cardinality(Of(T)) = f[x] + Cardinality(Of(T \ {x}))
    BY <1>7, <1>8
  <2> QED
    BY <2>3, <2>4, <2>5
<1>12. g[V] = Cardinality(R)
  BY <1>4, <1>11
<1> QED
  BY <1>10, <1>12 DEF f, V

(* Of a finite set of numbers, those with less than k before them are k,   *)
(* or all.                                                                 *)
LEMMA FirstOnes ==
    ASSUME NEW S \in SUBSET Nat, IsFiniteSet(S), NEW k \in Nat
    PROVE  Cardinality({i \in S : Cardinality({j \in S : j < i}) < k}) = Least(Cardinality(S), k)
<1> DEFINE n == Cardinality(S)
           Prev(i) == {j \in S : j < i}
           rank == [i \in S |-> Cardinality(Prev(i))]
           T == {rank[i] : i \in S}
           F == {i \in S : rank[i] < k}
           front == [i \in F |-> rank[i]]
           H == {front[i] : i \in F}
           m == Least(n, k)
<1>1. n \in Nat
  BY FS_CardinalityType
<1>2. \A i \in S : Prev(i) \in SUBSET S /\ IsFiniteSet(Prev(i)) /\ rank[i] \in Nat
  BY FS_Subset, FS_CardinalityType
<1>3. \A i \in S : rank[i] < n
  <2> SUFFICES ASSUME NEW i \in S
               PROVE  rank[i] < n
    OBVIOUS
  <2>1. Prev(i) # S
    OBVIOUS
  <2> HIDE DEF Prev
  <2>2. Cardinality(Prev(i)) <= Cardinality(S) /\ Cardinality(Prev(i)) # Cardinality(S)
    BY <1>2, <2>1, FS_Subset
  <2> QED
    BY <1>1, <1>2, <2>2
<1>4. \A i, j \in S : i < j => rank[i] < rank[j]
  <2> SUFFICES ASSUME NEW i \in S, NEW j \in S, i < j
               PROVE  rank[i] < rank[j]
    OBVIOUS
  <2>1. Prev(i) \in SUBSET Prev(j) /\ i \in Prev(j) /\ i \notin Prev(i)
    <3>1. \A x \in S : x \in Nat
      OBVIOUS
    <3>2. \A x \in S : x < i => x < j
      BY <3>1
    <3>3. ~(i < i)
      BY <3>1
    <3> QED
      BY <3>2, <3>3
  <2> HIDE DEF Prev
  <2>2. Cardinality(Prev(i)) <= Cardinality(Prev(j)) /\ Cardinality(Prev(i)) # Cardinality(Prev(j))
    BY <1>2, <2>1, FS_Subset
  <2> QED
    BY <1>2, <2>2
<1>5. \A i, j \in S : rank[i] = rank[j] => i = j
  <2> SUFFICES ASSUME NEW i \in S, NEW j \in S, rank[i] = rank[j]
               PROVE  i = j
    OBVIOUS
  <2>1. i < j \/ j < i \/ i = j
    OBVIOUS
  <2>2. rank[i] \in Nat
    BY <1>2
  <2> HIDE DEF rank
  <2> QED
    BY <1>4, <2>1, <2>2
<1>6. rank \in [S -> Nat] /\ \A i \in S : rank[i] \in 0..(n - 1)
  BY <1>1, <1>2, <1>3
<1> HIDE DEF rank, n
<1>7. T = 0..(n - 1)
  <2>1. rank \in Surjection(S, T) /\ rank \in Injection(S, T)
    <3>1. rank \in [S -> T] /\ \A t \in T : \E i \in S : rank[i] = t
      BY <1>6
    <3> HIDE DEF T
    <3> QED
      BY <3>1, <1>5 DEF Surjection, Injection, IsInjective
  <2>2. Cardinality(T) = n
    BY <2>1, FS_Surjection DEF n
  <2>3. IsFiniteSet(0..(n - 1)) /\ Cardinality(0..(n - 1)) = n
    BY <1>1, FS_Interval
  <2>4. T \in SUBSET (0..(n - 1))
    BY <1>6
  <2> HIDE DEF T
  <2> QED
    BY <2>2, <2>3, <2>4, FS_Subset
<1>8. m \in Nat /\ \A x \in Nat : x < m <=> x < n /\ x < k
  BY <1>1 DEF Least
<1>9. H = 0..(m - 1)
  <2>1. H = {x \in T : x < k}
    OBVIOUS
  <2> HIDE DEF m, H, T
  <2>2. \A x : x \in T <=> x \in Nat /\ x < n
    BY <1>1, <1>7
  <2>3. \A x : x \in 0..(m - 1) <=> x \in Nat /\ x < m
    BY <1>8
  <2>4. \A x : x \in H <=> x \in 0..(m - 1)
    BY <1>8, <2>1, <2>2, <2>3
  <2> QED
    BY <2>4
<1>10. IsFiniteSet(F)
  BY FS_Subset
<1>11. front \in Surjection(F, H) /\ front \in Injection(F, H)
  <2>1. \A i, j \in F : front[i] = front[j] => i = j
    BY <1>5
  <2>2. front \in [F -> H] /\ \A x \in H : \E i \in F : front[i] = x
    OBVIOUS
  <2> HIDE DEF F, H, front
  <2> QED
    BY <2>1, <2>2 DEF Surjection, Injection, IsInjective
<1>12. Cardinality(F) = Cardinality(H)
  BY <1>10, <1>11, FS_Surjection
<1> HIDE DEF m
<1>13. Cardinality(H) = m
  <2>1. m \in Nat /\ 0 \in Int /\ m - 1 \in Int
    BY <1>8
  <2>2. Cardinality(0..(m - 1)) = IF 0 > m - 1 THEN 0 ELSE (m - 1) - 0 + 1
    BY <2>1, FS_Interval
  <2>3. Cardinality(0..(m - 1)) = m
    BY <2>1, <2>2
  <2> QED
    BY <1>9, <2>3
<1>14. F = {i \in S : Cardinality({j \in S : j < i}) < k}
  BY DEF rank
<1> QED
  BY <1>12, <1>13, <1>14 DEF m, n

(* The size of the response is that of the whole catalog's.                *)
LEMMA BytesAreThose ==
    ASSUME NEW c \in Catalogs, Rows(c) = Selectable(c)
    PROVE  /\ ContextBytes(c) =
                SumFunction([r \in Visible(c) |-> 2 + Least(Cardinality(DOMAIN c[r].columns), MaxContext)])
           /\ ContextBytes(c) \in Nat
<1> DEFINE f == [r \in Visible(c) |-> 2 + Least(Cardinality(DOMAIN c[r].columns), MaxContext)]
           h == [r \in Loaded(c) |-> 2 + Cardinality(Shown(c, r))]
<1>1. Loaded(c) = Visible(c) /\ \A r \in Visible(c) : ColumnsOf(c, r) = DOMAIN c[r].columns
  BY AllIsLoaded
<1>2. IsFiniteSet(Visible(c)) /\ \A r \in Visible(c) :
          DOMAIN c[r].columns \in SUBSET Nat /\ IsFiniteSet(DOMAIN c[r].columns)
  <2>1. Visible(c) \in SUBSET DOMAIN c /\ IsFiniteSet(DOMAIN c)
    BY CatalogAssumption DEF Visible
  <2> QED
    BY <2>1, FS_Subset, CatalogAssumption
<1>3. ASSUME NEW r \in Visible(c)
      PROVE  /\ Cardinality(Shown(c, r)) = Least(Cardinality(DOMAIN c[r].columns), MaxContext)
             /\ Least(Cardinality(DOMAIN c[r].columns), MaxContext) \in Nat
  <2> DEFINE D == DOMAIN c[r].columns
  <2>1. D \in SUBSET Nat /\ IsFiniteSet(D) /\ MaxContext \in Nat
    BY <1>2, LimitsAssumption
  <2>2. Shown(c, r) = {i \in D : Cardinality({j \in D : j < i}) < MaxContext}
    BY <1>1 DEF Shown
  <2> HIDE DEF D
  <2>3. Cardinality(D) \in Nat
    BY <2>1, FS_CardinalityType
  <2>4. Cardinality(Shown(c, r)) = Least(Cardinality(D), MaxContext)
    BY <2>1, <2>2, FirstOnes
  <2>5. Least(Cardinality(D), MaxContext) \in Nat
    BY <2>1, <2>3 DEF Least
  <2> QED
    BY <2>4, <2>5 DEF D
<1>4. h = f
  BY <1>1, <1>3
<1>5. f \in [Visible(c) -> Nat]
  BY <1>3
<1>6. ContextBytes(c) = SumFunction(h)
  BY DEF ContextBytes
<1> HIDE DEF f, h
<1>7. PICK g : SumFunction(f) = g[Visible(c)] /\ SumsUp(Visible(c), f, g)
  BY <1>2, <1>5, SumUnfolds
<1>8. SumFunction(f) \in Nat
  BY <1>7 DEF SumsUp
<1> QED
  BY <1>4, <1>6, <1>8 DEF f

(* The checks on the rows that were read accept a catalog just when it     *)
(* keeps the contract and the limits as a whole.                           *)
LEMMA ValidIsAccepted ==
    ASSUME NEW c \in Catalogs
    PROVE  /\ Valid(c) <=> ~RowsRefused(c) /\ Accepted(c)
           /\ Valid(c) => Complete(c)
<1> DEFINE columns(r) == Cardinality(DOMAIN c[r].columns)
<1>1. /\ Rows(c) \in SUBSET Selectable(c) /\ IsFiniteSet(Selectable(c))
      /\ Cardinality(Rows(c)) \in Nat /\ Cardinality(Selectable(c)) \in Nat
      /\ Cardinality(Rows(c)) <= Cardinality(Selectable(c))
  <2>1. Rows(c) \in SUBSET Selectable(c) /\ IsFiniteSet(Selectable(c))
    BY SelectableRows DEF Rows
  <2> QED
    BY <2>1, FS_Subset, FS_CardinalityType
<1>2. Cardinality(Selectable(c)) = SumFunction([r \in Visible(c) |-> columns(r)])
  BY RowsAreCounted
<1>3. /\ IsFiniteSet(Visible(c)) /\ Cardinality(Visible(c)) \in Nat
      /\ \A r \in Visible(c) : columns(r) \in Nat
  <2>1. Visible(c) \in SUBSET DOMAIN c /\ IsFiniteSet(DOMAIN c)
    BY CatalogAssumption DEF Visible
  <2> QED
    BY <2>1, FS_Subset, FS_CardinalityType, CatalogAssumption
<1>4. CASE Cardinality(Rows(c)) > MaxColumns
  <2>1. ~(SumFunction([r \in Visible(c) |-> columns(r)]) <= MaxColumns)
    BY <1>1, <1>2, <1>4, LimitsAssumption
  <2>2. ~Valid(c)
    BY <2>1 DEF Valid
  <2> QED
    BY <1>4, <2>2 DEF RowsRefused
<1>5. CASE ~(Cardinality(Rows(c)) > MaxColumns)
  <2>1. Rows(c) = Selectable(c)
    BY <1>1, <1>5, LimitIsNotReached, LimitsAssumption
  <2>2. Loaded(c) = Visible(c) /\ \A r \in Visible(c) : ColumnsOf(c, r) = DOMAIN c[r].columns
    BY <2>1, AllIsLoaded
  <2>3. Complete(c)
    <3> DEFINE Got(r) == [name |-> r, definition |-> c[r].definition,
                          columns |-> {<<i, c[r].columns[i].type>> : i \in ColumnsOf(c, r)}]
               All(r) == [name |-> r, definition |-> c[r].definition,
                          columns |-> {<<i, c[r].columns[i].type>> : i \in DOMAIN c[r].columns}]
    <3>1. \A r \in Visible(c) : Got(r) = All(r)
      BY <2>2
    <3>2. Structure(c) = {Got(r) : r \in Loaded(c)}
      BY DEF Structure
    <3>3. Complete(c) <=> Structure(c) = {All(r) : r \in Visible(c)}
      BY DEF Complete
    <3> HIDE DEF Got, All
    <3> QED
      BY <2>2, <3>1, <3>2, <3>3
  <2> DEFINE typed == \A r \in Visible(c) : \A i \in DOMAIN c[r].columns : c[r].columns[i].type # "domain"
             signed == \A r \in Visible(c) : c[r].marker = "own" /\ c[r].description # ""
             short == \A r \in Visible(c) : columns(r) <= MaxPerRelation
             few == Cardinality(Visible(c)) <= MaxRelations
             small == ContextBytes(c) <= MaxBytes
  <2>4. RowsRefused(c) <=> ~typed
    <3>1. RowsRefused(c) <=> \E p \in Selectable(c) : Type(c, p) = "domain"
      BY <1>5, <2>1 DEF RowsRefused
    <3>2. ASSUME NEW p \in Selectable(c), Type(c, p) = "domain"
          PROVE  ~typed
      <4>1. PICK r \in DOMAIN c : \E i \in DOMAIN c[r].columns : p = <<r, i>>
        BY SelectableRows
      <4> QED
        BY <3>2, <4>1 DEF Type, Visible
    <3>3. ASSUME NEW r \in Visible(c), NEW i \in DOMAIN c[r].columns, c[r].columns[i].type = "domain"
          PROVE  <<r, i>> \in Selectable(c) /\ Type(c, <<r, i>>) = "domain"
      BY <3>3, SelectableRows DEF Type, Visible
    <3> QED
      BY <3>1, <3>2, <3>3
  <2>5. Issues(c) <=> Visible(c) = {} \/ ~signed
    BY <2>2 DEF Issues
  <2>6. ~Issues(c) => (SnapshotRefused(c) <=> ~few \/ ~short)
    <3>1. ~Issues(c) => \A r \in Visible(c) : ~CommentRefused(c[r])
      BY <2>5 DEF CommentRefused
    <3>2. (Cardinality(Loaded(c)) > MaxRelations) <=> ~few
      BY <2>2, <1>3, LimitsAssumption
    <3>3. (\E r \in Loaded(c) : Cardinality(ColumnsOf(c, r)) > MaxPerRelation) <=> ~short
      <4>1. \A r \in Visible(c) : (columns(r) > MaxPerRelation) <=> ~(columns(r) <= MaxPerRelation)
        <5> HIDE DEF columns
        <5> QED
          BY <1>3, LimitsAssumption
      <4> QED
        BY <2>2, <4>1
    <3> QED
      BY <2>2, <3>1, <3>2, <3>3 DEF SnapshotRefused
  <2>7. /\ (ContextBytes(c) > MaxBytes) <=> ~small
        /\ ContextBytes(c) =
             SumFunction([r \in Visible(c) |-> 2 + Least(columns(r), MaxContext)])
    <3>1. ContextBytes(c) \in Nat
      BY <2>1, BytesAreThose
    <3> QED
      BY <2>1, <3>1, BytesAreThose, LimitsAssumption
  <2>8. SumFunction([r \in Visible(c) |-> columns(r)]) <= MaxColumns
    <3>1. Cardinality(Selectable(c)) <= MaxColumns
      BY <1>1, <1>5, <2>1, LimitsAssumption
    <3> QED
      BY <1>2, <3>1
  <2>9. Valid(c) <=> Visible(c) # {} /\ few /\ small /\ signed /\ short /\ typed
    BY <2>7, <2>8 DEF Valid
  <2> HIDE DEF typed, signed, short, few, small
  <2> QED
    BY <2>3, <2>4, <2>5, <2>6, <2>7, <2>9 DEF Accepted
<1> QED
  BY <1>4, <1>5

(* A snapshot is published only if the whole catalog keeps the contract    *)
(* and the limits, although the query stops reading one row beyond the     *)
(* budget, and none that keeps them is called invalid: load with           *)
(* _load_and_validate, for all catalogs and all limits.                    *)
THEOREM AdmissionIsExact == Spec => []AdmittedIffValid
<1>1. IInv => AdmittedIffValid
  <2> SUFFICES ASSUME IInv
               PROVE  AdmittedIffValid
    OBVIOUS
  <2>1. outcome = "published" => catalog \in Catalogs /\ ~RowsRefused(catalog) /\ Accepted(catalog)
    BY DEF IInv, Queried
  <2>2. outcome = "invalid" =>
          /\ catalog \in Catalogs
          /\ RowsRefused(catalog) \/ ~Accepted(catalog) \/ Restructured(catalog)
    BY DEF IInv, Refused
  <2> QED
    BY <2>1, <2>2, ValidIsAccepted DEF AdmittedIffValid
<1> QED
  BY <1>1, Invariance, PTL
=============================================================================
