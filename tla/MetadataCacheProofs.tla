------------------------ MODULE MetadataCacheProofs ------------------------
(* Proofs about MetadataCache, for every number of callers and snapshots    *)
(* and every setting of the three times.                                    *)
EXTENDS MetadataCache, TLAPS

(* What the entry remembers of the snapshot it was published with: its next *)
(* refresh is put off only after its TTL.                                   *)
Dated ==
    /\ born <= now
    /\ Cached => /\ cache.loadedAt = born /\ cache.expiresAt = born + Ttl
                 /\ cache.nextRefreshAt = cache.expiresAt \/ cache.expiresAt <= now

(* Nothing is published before a structure was accepted, and a load that    *)
(* has read holds a snapshot.                                               *)
Founded ==
    /\ \A r \in Readers : pc[r] = "read" => held[r] \in Snapshots
    /\ \A r \in Readers : Served(r) => reply[r].value \in Snapshots
    /\ pinned = None => ~Cached /\ \A r \in Readers : ~Served(r)

IInv ==
    /\ TypeOK
    /\ Dated
    /\ Founded
    /\ ServedInTime
    /\ RevokedStaysOut
    /\ OneStructure
    /\ LoadsWhenDue
    /\ HealthTruthful

(* A published entry is an entry.                                           *)
LEMMA EntryType ==
    ASSUME TypeOK, NEW v \in Snapshots
    PROVE  /\ Entry(v) \in Entries
           /\ Entry(v).value = v
           /\ Entry(v).loadedAt = now
           /\ Entry(v).expiresAt = now + Ttl
           /\ Entry(v).nextRefreshAt = now + Ttl
  BY TimesAssumption DEF TypeOK, Entry, Entries, Times

(* A postponed refresh changes an entry in nothing else.                    *)
LEMMA PostponedType ==
    ASSUME TypeOK, Cached
    PROVE  /\ Postponed \in Entries
           /\ Postponed.value = cache.value
           /\ Postponed.loadedAt = cache.loadedAt
           /\ Postponed.expiresAt = cache.expiresAt
  <1>1. cache \in Entries
    BY DEF TypeOK, Cached
  <1>2. now + Retry \in Nat
    BY TimesAssumption DEF TypeOK, Times
  <1> QED
    BY <1>1, <1>2 DEF Postponed, Entries

(* A call that ends leaves the other callers as they are.                   *)
LEMMA LeaveEffect ==
    ASSUME TypeOK, NEW r \in Readers, Leave(r)
    PROVE  /\ pc' \in [Readers -> Pcs]
           /\ ahead' \in [Readers -> SUBSET Readers]
           /\ held' \in [Readers -> Snapshots \union {None}]
           /\ lock' \in Readers \union {None}
           /\ pc'[r] = "idle"
           /\ \A q \in Readers \ {r} : pc'[q] = pc[q] /\ held'[q] = held[q]
           /\ \A q \in Readers \ {r} : lock = q => lock' = q
  BY DEF TypeOK, Leave, Unqueued, Pcs, Loading

(* The answer of a call that is served is the published snapshot and its    *)
(* age; the other answers stay.                                             *)
LEMMA ServeEffect ==
    ASSUME TypeOK, NEW r \in Readers, NEW kind \in {"fresh", "stale"},
           NEW value \in Snapshots, NEW since \in Nat, since <= now,
           Serve(r, kind, value, since)
    PROVE  /\ reply' \in [Readers -> [kind : Kinds, value : Snapshots \union {None}, age : Nat]]
           /\ reply'[r].kind = kind
           /\ reply'[r].value = value
           /\ reply'[r].age = now - since
           /\ \A q \in Readers \ {r} : reply'[q] = reply[q]
           /\ Leave(r)
  <1>1. now - since \in Nat
    BY DEF TypeOK, Times
  <1> QED
    BY <1>1 DEF TypeOK, Serve, Kinds

(* A call that raises serves nothing.                                       *)
LEMMA RaiseEffect ==
    ASSUME TypeOK, NEW r \in Readers, NEW kind \in {"unavailable", "cancelled"},
           Raise(r, kind)
    PROVE  /\ reply' \in [Readers -> [kind : Kinds, value : Snapshots \union {None}, age : Nat]]
           /\ reply'[r].kind = kind
           /\ \A q \in Readers \ {r} : reply'[q] = reply[q]
           /\ Leave(r)
  BY DEF TypeOK, Raise, Kinds

(* Init establishes the invariant.                                          *)
LEMMA InitIInv == Init => IInv
  <1> SUFFICES ASSUME Init PROVE IInv
    OBVIOUS
  <1>a. 0 \in Times
    BY TimesAssumption DEF Times
  <1>b. reply \in [Readers -> [kind : Kinds, value : Snapshots \union {None}, age : Nat]]
    BY DEF Init, Kinds
  <1>1. TypeOK
    BY <1>a, <1>b DEF Init, TypeOK, Pcs, Loading
  <1>2. ~Cached /\ pinned = None /\ (\A r \in Readers : ~Served(r) /\ pc[r] = "idle")
    BY DEF Init, Cached, Served
  <1>3. Dated /\ Founded
    BY <1>2 DEF Init, Dated, Founded
  <1>4. ServedInTime /\ OneStructure
    BY <1>2 DEF Init, ServedInTime, OneStructure, Served
  <1>5. RevokedStaysOut /\ LoadsWhenDue /\ HealthTruthful
    BY <1>2 DEF Init, RevokedStaysOut, LoadsWhenDue, HealthTruthful, Loading
  <1> QED
    BY <1>1, <1>3, <1>4, <1>5 DEF IInv

-----------------------------------------------------------------------------
(* What IInv says of the present entry, in the form the steps use.          *)
LEMMA EntryFacts ==
    ASSUME IInv, Cached
    PROVE  /\ cache \in Entries
           /\ cache.value \in Snapshots
           /\ cache.loadedAt = born
           /\ cache.expiresAt = born + Ttl
           /\ cache.nextRefreshAt = cache.expiresAt \/ cache.expiresAt <= now
           /\ born \in Nat
           /\ born <= now
           /\ now \in Nat
           /\ Structure[cache.value] = pinned
           /\ pinned # None
           /\ ~revoked
  <1>1. cache \in Entries
    BY DEF IInv, TypeOK, Cached
  <1>2. born \in Nat /\ now \in Nat
    BY TimesAssumption DEF IInv, TypeOK, Times
  <1>3. cache.value \in Snapshots
    BY <1>1 DEF Entries
  <1>4. /\ cache.loadedAt = born /\ cache.expiresAt = born + Ttl /\ born <= now
        /\ cache.nextRefreshAt = cache.expiresAt \/ cache.expiresAt <= now
    BY DEF IInv, Dated
  <1>5. Structure[cache.value] = pinned /\ pinned # None
    BY DEF IInv, OneStructure, Founded
  <1>6. ~revoked
    BY DEF IInv, RevokedStaysOut
  <1> QED
    BY <1>1, <1>2, <1>3, <1>4, <1>5, <1>6

(* While the lock is free or another caller's, r's end disturbs no load.    *)
LEMMA LeaveKeepsLoads ==
    ASSUME IInv, NEW r \in Readers, Leave(r), UNCHANGED <<now, cache>>
    PROVE  LoadsWhenDue'
  <1> SUFFICES ASSUME NEW q \in Readers, (pc[q] \in Loading)'
               PROVE  (/\ lock = q
                       /\ Cached => cache.expiresAt <= now /\ cache.nextRefreshAt <= now)'
    BY DEF LoadsWhenDue
  <1>1. TypeOK
    BY DEF IInv
  <1>2. q # r
    BY <1>1, LeaveEffect DEF Loading
  <1>3. pc[q] \in Loading
    BY <1>1, <1>2, LeaveEffect DEF Loading
  <1>4. lock = q /\ (Cached => cache.expiresAt <= now /\ cache.nextRefreshAt <= now)
    BY <1>3 DEF IInv, LoadsWhenDue
  <1>5. lock' = q
    BY <1>1, <1>2, <1>4, LeaveEffect
  <1> QED
    BY <1>4, <1>5 DEF Cached

(* Serving the present entry.                                               *)
LEMMA CachedServeStep ==
    ASSUME IInv, NEW r \in Readers,
           ServeFresh(r) \/ ServeStale(r),
           UNCHANGED <<now, db, cache, pinned, born, revoked>>
    PROVE  IInv'
  <1>1. PICK kind \in {"fresh", "stale"} :
             /\ Cached
             /\ Serve(r, kind, cache.value, born)
             /\ kind = "fresh" => cache.expiresAt > now
             /\ kind = "stale" => Age <= MaxStale /\ ~Fresh
             /\ health' = (IF kind = "fresh" THEN "healthy" ELSE "stale") /\ told' = now
    BY DEF ServeFresh, ServeStale, Says, Fresh, Backoff, Usable
  <1>2. TypeOK
    BY DEF IInv
  <1>3. /\ cache.value \in Snapshots /\ born \in Nat /\ now \in Nat /\ born <= now
        /\ cache.loadedAt = born /\ cache.expiresAt = born + Ttl
        /\ cache.nextRefreshAt = cache.expiresAt \/ cache.expiresAt <= now
        /\ Structure[cache.value] = pinned /\ pinned # None
    BY <1>1, EntryFacts
  <1>4. /\ reply' \in [Readers -> [kind : Kinds, value : Snapshots \union {None}, age : Nat]]
        /\ reply'[r].kind = kind /\ reply'[r].value = cache.value /\ reply'[r].age = now - born
        /\ \A q \in Readers \ {r} : reply'[q] = reply[q]
        /\ Leave(r)
    BY <1>1, <1>2, <1>3, ServeEffect
  <1>5. TypeOK'
    BY <1>1, <1>2, <1>4, LeaveEffect DEF TypeOK
  <1>6. Dated' /\ RevokedStaysOut'
    BY DEF IInv, Dated, RevokedStaysOut, Cached
  <1>7. Founded'
    <2>1. \A q \in Readers : pc'[q] = "read" => held'[q] \in Snapshots
      BY <1>2, <1>4, LeaveEffect DEF IInv, Founded
    <2>2. \A q \in Readers : Served(q)' => reply'[q].value \in Snapshots
      BY <1>3, <1>4 DEF IInv, Founded, Served
    <2> QED
      BY <1>3, <2>1, <2>2 DEF Founded
  <1>8. ServedInTime'
    <2>1. kind = "fresh" => now - born < Ttl
      BY <1>1, <1>3, TimesAssumption
    <2>2. kind = "stale" => now - born <= MaxStale
      BY <1>1, <1>3 DEF Age
    <2> QED
      BY <1>4, <2>1, <2>2 DEF IInv, ServedInTime
  <1>9. OneStructure'
    BY <1>3, <1>4 DEF IInv, OneStructure, Served, Cached
  <1>10. LoadsWhenDue'
    BY <1>4, LeaveKeepsLoads
  <1>11. HealthTruthful'
    <2>1. CASE kind = "fresh"
      <3>1. /\ health' = "healthy" /\ told' - born' < Ttl /\ Cached'
            /\ cache'.nextRefreshAt = cache'.expiresAt
        BY <1>1, <1>3, <2>1, TimesAssumption DEF Cached
      <3> QED
        BY <3>1 DEF HealthTruthful
    <2>2. CASE kind = "stale"
      <3>1. health' = "stale" /\ told' - born' <= MaxStale /\ Cached' /\ ~Fresh'
        BY <1>1, <1>3, <2>2 DEF Cached, Fresh, Age
      <3> QED
        BY <3>1 DEF HealthTruthful
    <2> QED
      BY <2>1, <2>2
  <1> QED
    BY <1>5, <1>6, <1>7, <1>8, <1>9, <1>10, <1>11 DEF IInv

(* Whoever raises while the entry stays keeps every part of IInv but what   *)
(* is said of the health.                                                   *)
LEMMA RaiseStep ==
    ASSUME IInv, NEW r \in Readers, NEW kind \in {"unavailable", "cancelled"},
           Raise(r, kind),
           UNCHANGED <<now, db, cache, pinned, born, revoked>>,
           health' \in {"initializing", "healthy", "stale", "unavailable"}, told' \in Times,
           HealthTruthful'
    PROVE  IInv'
  <1>1. TypeOK
    BY DEF IInv
  <1>2. /\ reply' \in [Readers -> [kind : Kinds, value : Snapshots \union {None}, age : Nat]]
        /\ reply'[r].kind = kind
        /\ \A q \in Readers \ {r} : reply'[q] = reply[q]
        /\ Leave(r)
    BY <1>1, RaiseEffect
  <1>3. TypeOK'
    BY <1>1, <1>2, LeaveEffect DEF TypeOK
  <1>4. Dated' /\ RevokedStaysOut'
    BY DEF IInv, Dated, RevokedStaysOut, Cached
  <1>5. ~Served(r)'
    BY <1>2 DEF Served
  <1>6. Founded'
    <2>1. \A q \in Readers : pc'[q] = "read" => held'[q] \in Snapshots
      BY <1>1, <1>2, LeaveEffect DEF IInv, Founded
    <2> QED
      BY <1>2, <1>5, <2>1 DEF IInv, Founded, Served, Cached
  <1>7. ServedInTime' /\ OneStructure'
    BY <1>2, <1>5 DEF IInv, ServedInTime, OneStructure, Served, Cached
  <1>8. LoadsWhenDue'
    BY <1>2, LeaveKeepsLoads
  <1> QED
    BY <1>3, <1>4, <1>6, <1>7, <1>8 DEF IInv

(* The backoff of an entry that is too old: the call fails.                 *)
LEMMA TooStaleStep ==
    ASSUME IInv, NEW r \in Readers, TooStale(r),
           UNCHANGED <<now, db, cache, pinned, born, revoked>>
    PROVE  IInv'
  <1>1. /\ Raise(r, "unavailable") /\ health' = "unavailable" /\ told' = now
        /\ ~Fresh /\ ~Usable
    BY DEF TooStale, Says, Backoff
  <1>2. HealthTruthful'
    BY <1>1 DEF HealthTruthful, Usable, Fresh, Cached, Age
  <1> QED
    BY <1>1, <1>2, RaiseStep DEF IInv, TypeOK

(* The lock is free and the entry is due: a load begins.                    *)
LEMMA StartLoadStep ==
    ASSUME IInv, NEW r \in Readers, lock = None, StartLoad(r),
           UNCHANGED <<now, db, cache, pinned, born, revoked>>
    PROVE  IInv'
  <1>1. TypeOK'
    BY DEF IInv, TypeOK, StartLoad, Unqueued, Pcs, Loading
  <1>2. Dated' /\ RevokedStaysOut' /\ HealthTruthful'
    BY DEF IInv, Dated, RevokedStaysOut, HealthTruthful, Cached, Usable, Fresh, Age, StartLoad
  <1>3. Founded'
    BY DEF IInv, TypeOK, Founded, StartLoad, Served, Cached
  <1>4. ServedInTime' /\ OneStructure'
    BY DEF IInv, ServedInTime, OneStructure, StartLoad, Served, Cached
  <1>5. \A q \in Readers : pc[q] \notin Loading
    BY ReadersAssumption DEF IInv, LoadsWhenDue
  <1>6. Cached => cache.expiresAt <= now /\ cache.nextRefreshAt <= now
    <2> SUFFICES ASSUME Cached
                 PROVE  cache.expiresAt <= now /\ cache.nextRefreshAt <= now
      OBVIOUS
    <2>1. cache.expiresAt \in Nat /\ cache.nextRefreshAt \in Nat /\ now \in Nat
      BY EntryFacts DEF Entries
    <2> QED
      BY <2>1 DEF StartLoad, Fresh, Backoff
  <1>7. LoadsWhenDue'
    BY <1>5, <1>6 DEF LoadsWhenDue, StartLoad, IInv, TypeOK, Cached
  <1> QED
    BY <1>1, <1>2, <1>3, <1>4, <1>7 DEF IInv

(* What happens under a lock that was free.                                 *)
LEMMA UnderLockStep ==
    ASSUME IInv, NEW r \in Readers, lock = None, UnderLock(r)
    PROVE  IInv'
  <1>1. CASE ServeFresh(r) \/ ServeStale(r)
    BY <1>1, CachedServeStep DEF UnderLock
  <1>2. CASE TooStale(r)
    BY <1>2, TooStaleStep DEF UnderLock
  <1>3. CASE StartLoad(r)
    BY <1>3, StartLoadStep DEF UnderLock
  <1> QED
    BY <1>1, <1>2, <1>3 DEF UnderLock

(* Steps that touch neither entry, answers nor health and start no load.    *)
LEMMA QuietStep ==
    ASSUME IInv, TypeOK',
           UNCHANGED <<lock, cache, pinned, health, told, reply, born, revoked, now>>,
           \A q \in Readers : pc'[q] \in Loading => pc[q] \in Loading,
           \A q \in Readers : pc'[q] = "read" => held'[q] \in Snapshots
    PROVE  IInv'
  <1>1. Dated' /\ RevokedStaysOut' /\ HealthTruthful'
    BY DEF IInv, Dated, RevokedStaysOut, HealthTruthful, Cached, Usable, Fresh, Age
  <1>2. Founded' /\ ServedInTime' /\ OneStructure'
    BY DEF IInv, Founded, ServedInTime, OneStructure, Served, Cached
  <1>3. LoadsWhenDue'
    BY DEF IInv, LoadsWhenDue, Cached
  <1> QED
    BY <1>1, <1>2, <1>3 DEF IInv

(* A call takes the lock or queues for it.                                  *)
LEMMA CallStep ==
    ASSUME IInv, NEW r \in Readers, Call(r)
    PROVE  IInv'
  <1>1. CASE lock = None /\ Waiting = {}
    BY <1>1, UnderLockStep DEF Call
  <1>2. CASE ~(lock = None /\ Waiting = {})
    <2>a. /\ pc' = [pc EXCEPT ![r] = "waiting"]
          /\ ahead' = [ahead EXCEPT ![r] = Waiting]
          /\ UNCHANGED <<now, db, held, lock, cache, pinned, health, told, reply, born, revoked>>
      BY <1>2 DEF Call
    <2>b. Waiting \in SUBSET Readers /\ "waiting" \in Pcs
      BY DEF Waiting, Pcs
    <2>c. pc' \in [Readers -> Pcs] /\ ahead' \in [Readers -> SUBSET Readers]
      BY <2>a, <2>b DEF IInv, TypeOK
    <2>1. TypeOK'
      BY <2>a, <2>c DEF IInv, TypeOK
    <2>2. \A q \in Readers : /\ pc'[q] \in Loading => pc[q] \in Loading
                             /\ pc'[q] = "read" => held'[q] \in Snapshots
      BY <1>2 DEF IInv, TypeOK, Call, Loading, Founded
    <2> QED
      BY <1>2, <2>1, <2>2, QuietStep DEF Call
  <1> QED
    BY <1>1, <1>2

(* The transaction reads its snapshot.                                      *)
LEMMA ReadStep ==
    ASSUME IInv, NEW r \in Readers, Read(r)
    PROVE  IInv'
  <1>1. TypeOK'
    BY DEF IInv, TypeOK, Read, Pcs, Loading
  <1>2. \A q \in Readers : /\ pc'[q] \in Loading => pc[q] \in Loading
                           /\ pc'[q] = "read" => held'[q] \in Snapshots
    BY DEF IInv, TypeOK, Read, Loading, Founded
  <1> QED
    BY <1>1, <1>2, QuietStep DEF Read

(* A catalog that passes is published.                                      *)
LEMMA PublishStep ==
    ASSUME IInv, NEW r \in Readers, Publish(r)
    PROVE  IInv'
  <1> DEFINE v == held[r]
  <1>1. TypeOK /\ now \in Nat
    BY TimesAssumption DEF IInv, TypeOK, Times
  <1>2. v \in Snapshots /\ (pinned = None \/ pinned = Structure[v])
    BY DEF IInv, Founded, Publish, Acceptable
  <1>3. /\ cache' = Entry(v) /\ born' = now /\ pinned' = Structure[v]
        /\ health' = "healthy" /\ told' = now /\ revoked' = FALSE
        /\ Serve(r, "fresh", v, now)
        /\ UNCHANGED <<now, db>>
    BY DEF Publish, Says
  <1>4. /\ Entry(v) \in Entries /\ Entry(v).value = v
        /\ Entry(v).loadedAt = now /\ Entry(v).expiresAt = now + Ttl
        /\ Entry(v).nextRefreshAt = now + Ttl
    BY <1>1, <1>2, EntryType
  <1>5. /\ reply' \in [Readers -> [kind : Kinds, value : Snapshots \union {None}, age : Nat]]
        /\ reply'[r].kind = "fresh" /\ reply'[r].value = v /\ reply'[r].age = now - now
        /\ \A q \in Readers \ {r} : reply'[q] = reply[q]
        /\ Leave(r)
    <2>1. now <= now
      BY <1>1
    <2> HIDE DEF v
    <2> QED
      BY <1>1, <1>2, <1>3, <2>1, ServeEffect
  <1>6. TypeOK'
    BY <1>1, <1>2, <1>3, <1>4, <1>5, LeaveEffect DEF TypeOK
  <1>7. Dated' /\ RevokedStaysOut' /\ HealthTruthful'
    BY <1>1, <1>3, <1>4, EntriesAssumption
    DEF Dated, RevokedStaysOut, HealthTruthful, Cached
  <1>8. Structure[v] # None
    BY <1>2, SnapshotsAssumption
  <1>9. \A q \in Readers \ {r} : pc'[q] = pc[q] /\ held'[q] = held[q] /\ pc'[r] = "idle"
    BY <1>1, <1>5, LeaveEffect
  <1>10. Founded'
    <2>1. \A q \in Readers : pc'[q] = "read" => held'[q] \in Snapshots
      BY <1>1, <1>5, LeaveEffect DEF IInv, Founded
    <2>2. \A q \in Readers : Served(q)' => reply'[q].value \in Snapshots
      BY <1>2, <1>5 DEF IInv, Founded, Served
    <2> QED
      BY <1>3, <1>8, <2>1, <2>2 DEF Founded
  <1>11. ServedInTime'
    BY <1>1, <1>5 DEF IInv, ServedInTime
  <1>12. OneStructure'
    <2>1. \A q \in Readers \ {r} : Served(q) => Structure[reply[q].value] = Structure[v]
      BY <1>2 DEF IInv, OneStructure, Founded
    <2> QED
      BY <1>3, <1>4, <1>5, <2>1 DEF OneStructure, Served, Cached
  <1>13. LoadsWhenDue'
    <2>1. \A q \in Readers : pc[q] \in Loading => q = r
      BY DEF IInv, LoadsWhenDue, Publish, Loading
    <2>2. \A q \in Readers : pc'[q] \notin Loading
      BY <1>1, <1>5, <2>1, LeaveEffect DEF Loading
    <2> QED
      BY <2>2 DEF LoadsWhenDue
  <1> QED
    BY <1>6, <1>7, <1>10, <1>11, <1>12, <1>13 DEF IInv

(* A loading caller is the only one.                                        *)
LEMMA OneLoad ==
    ASSUME IInv, NEW r \in Readers, pc[r] \in Loading, Leave(r)
    PROVE  \A q \in Readers : pc'[q] \notin Loading
  <1>1. \A q \in Readers : pc[q] \in Loading => q = r
    BY DEF IInv, LoadsWhenDue
  <1> QED
    BY <1>1, LeaveEffect DEF IInv, Loading

(* A refresh is rejected: the entry is withdrawn.                           *)
LEMMA RejectStep ==
    ASSUME IInv, NEW r \in Readers, Reject(r)
    PROVE  IInv'
  <1>1. TypeOK
    BY DEF IInv
  <1>2. /\ pc[r] \in Loading /\ cache' = None /\ revoked' = TRUE
        /\ health' = "unavailable" /\ told' = now
        /\ Raise(r, "unavailable")
        /\ UNCHANGED <<now, db, pinned, born>>
    BY DEF Reject, Says, Withdrawn, Loading
  <1>3. /\ reply' \in [Readers -> [kind : Kinds, value : Snapshots \union {None}, age : Nat]]
        /\ reply'[r].kind = "unavailable"
        /\ \A q \in Readers \ {r} : reply'[q] = reply[q]
        /\ Leave(r)
    BY <1>1, <1>2, RaiseEffect
  <1>4. TypeOK'
    BY <1>1, <1>2, <1>3, LeaveEffect DEF TypeOK
  <1>5. ~Cached' /\ ~Served(r)'
    BY <1>2, <1>3 DEF Cached, Served
  <1>6. Dated' /\ RevokedStaysOut' /\ HealthTruthful'
    BY <1>2, <1>5 DEF IInv, Dated, RevokedStaysOut, HealthTruthful, Usable, Fresh
  <1>7. \A q \in Readers : pc'[q] \notin Loading
    BY <1>2, <1>3, OneLoad
  <1>8. Founded'
    <2>1. \A q \in Readers : Served(q)' => Served(q) /\ reply'[q] = reply[q]
      BY <1>3, <1>5 DEF Served
    <2> QED
      BY <1>2, <1>5, <1>7, <2>1 DEF IInv, Founded, Loading
  <1>9. ServedInTime' /\ OneStructure'
    BY <1>2, <1>3, <1>5 DEF IInv, ServedInTime, OneStructure, Served
  <1>10. LoadsWhenDue'
    BY <1>7 DEF LoadsWhenDue
  <1> QED
    BY <1>4, <1>6, <1>8, <1>9, <1>10 DEF IInv

(* A refresh fails while the entry is young enough: it is served stale.     *)
LEMMA StaleAfterFailureStep ==
    ASSUME IInv, NEW r \in Readers, pc[r] \in Loading, Usable,
           cache' = Postponed, health' = "stale", told' = now,
           Serve(r, "stale", cache.value, born),
           UNCHANGED <<now, db, pinned, born, revoked>>
    PROVE  IInv'
  <1>1. TypeOK /\ Cached
    BY DEF IInv, Usable
  <1>2. /\ cache.value \in Snapshots /\ born \in Nat /\ now \in Nat /\ born <= now
        /\ cache.loadedAt = born /\ cache.expiresAt = born + Ttl
        /\ Structure[cache.value] = pinned /\ pinned # None /\ ~revoked
    BY <1>1, EntryFacts
  <1>3. /\ Postponed \in Entries /\ Postponed.value = cache.value
        /\ Postponed.loadedAt = born /\ Postponed.expiresAt = born + Ttl
    BY <1>1, <1>2, PostponedType
  <1>4. /\ reply' \in [Readers -> [kind : Kinds, value : Snapshots \union {None}, age : Nat]]
        /\ reply'[r].kind = "stale" /\ reply'[r].value = cache.value
        /\ reply'[r].age = now - born
        /\ \A q \in Readers \ {r} : reply'[q] = reply[q]
        /\ Leave(r)
    BY <1>1, <1>2, ServeEffect
  <1>5. TypeOK'
    BY <1>1, <1>3, <1>4, LeaveEffect DEF TypeOK
  <1>6. Cached'
    BY <1>3, EntriesAssumption DEF Cached
  <1>a. cache.expiresAt <= now
    BY <1>1 DEF IInv, LoadsWhenDue
  <1>b. ~Fresh' /\ now - born <= MaxStale
    BY <1>2, <1>3, <1>a, TimesAssumption DEF Fresh, Usable, Age
  <1>7. Dated' /\ RevokedStaysOut' /\ HealthTruthful'
    BY <1>2, <1>3, <1>6, <1>a, <1>b DEF Dated, RevokedStaysOut, HealthTruthful
  <1>8. \A q \in Readers : pc'[q] \notin Loading
    BY <1>4, OneLoad
  <1>9. Founded'
    <2>1. \A q \in Readers : Served(q)' => reply'[q].value \in Snapshots
      BY <1>2, <1>4 DEF IInv, Founded, Served
    <2> QED
      BY <1>2, <1>8, <2>1 DEF Founded, Loading
  <1>10. ServedInTime'
    BY <1>2, <1>4 DEF IInv, ServedInTime, Usable, Age
  <1>11. OneStructure'
    BY <1>2, <1>3, <1>4 DEF IInv, OneStructure, Served
  <1>12. LoadsWhenDue'
    BY <1>8 DEF LoadsWhenDue
  <1> QED
    BY <1>5, <1>7, <1>9, <1>10, <1>11, <1>12 DEF IInv

(* Any other failure of a refresh.                                          *)
LEMMA LoadFailsStep ==
    ASSUME IInv, NEW r \in Readers, LoadFails(r)
    PROVE  IInv'
  <1>1. CASE Usable
    BY <1>1, StaleAfterFailureStep DEF LoadFails, Says
  <1>2. CASE ~Usable
    <2>1. /\ Raise(r, "unavailable") /\ health' = "unavailable" /\ told' = now
          /\ UNCHANGED <<now, db, cache, pinned, born, revoked>>
          /\ pc[r] \in Loading
      BY <1>2 DEF LoadFails, Says
    <2>2. ~Fresh
      <3>1. ASSUME Cached PROVE cache.expiresAt <= now /\ cache.expiresAt \in Nat /\ now \in Nat
        BY <2>1, <3>1, EntryFacts DEF IInv, LoadsWhenDue, Entries
      <3> QED
        BY <3>1 DEF Fresh
    <2>3. HealthTruthful'
      BY <1>2, <2>1, <2>2 DEF HealthTruthful, Usable, Fresh, Cached, Age
    <2> QED
      BY <2>1, <2>3, RaiseStep DEF IInv, TypeOK
  <1> QED
    BY <1>1, <1>2

(* A cancelled caller leaves entry and health alone.                        *)
LEMMA CancelStep ==
    ASSUME IInv, NEW r \in Readers, Cancel(r)
    PROVE  IInv'
  <1>1. /\ Raise(r, "cancelled")
        /\ UNCHANGED <<now, db, cache, pinned, health, told, born, revoked>>
    BY DEF Cancel
  <1>2. /\ HealthTruthful' /\ told' \in Times
        /\ health' \in {"initializing", "healthy", "stale", "unavailable"}
    BY <1>1 DEF IInv, TypeOK, HealthTruthful, Usable, Fresh, Cached, Age
  <1> QED
    BY <1>1, <1>2, RaiseStep

(* Time passes: entries only become older.                                  *)
LEMMA TickStep ==
    ASSUME IInv, Tick
    PROVE  IInv'
  <1>1. now \in Nat /\ now' = now + 1 /\ now < MaxTime
    BY TimesAssumption DEF IInv, TypeOK, Times, Tick
  <1>2. TypeOK'
    BY <1>1, TimesAssumption DEF IInv, TypeOK, Times, Tick
  <1>3. Dated' /\ RevokedStaysOut'
    <2>1. born \in Nat
      BY DEF IInv, TypeOK, Times
    <2> QED
      BY <1>1, <2>1, TimesAssumption DEF IInv, Dated, RevokedStaysOut, Cached, Tick
  <1>4. Founded' /\ ServedInTime' /\ OneStructure'
    BY DEF IInv, Founded, ServedInTime, OneStructure, Served, Cached, Tick
  <1>5. Cached => cache.loadedAt \in Nat /\ cache.expiresAt \in Nat /\ cache.nextRefreshAt \in Nat
    BY EntryFacts DEF Entries
  <1>6. LoadsWhenDue'
    BY <1>1, <1>5 DEF IInv, LoadsWhenDue, Cached, Tick
  <1>7. HealthTruthful'
    BY <1>1, <1>5, TimesAssumption DEF IInv, HealthTruthful, Cached, Usable, Fresh, Age, Tick
  <1> QED
    BY <1>2, <1>3, <1>4, <1>6, <1>7 DEF IInv

(* The database changes behind the cache's back.                            *)
LEMMA AlterStep ==
    ASSUME IInv, Alter
    PROVE  IInv'
  <1>1. TypeOK'
    BY DEF IInv, TypeOK, Alter
  <1>2. \A q \in Readers : pc'[q] = "read" => held'[q] \in Snapshots
    BY DEF IInv, Founded, Alter
  <1> QED
    BY <1>1, <1>2, QuietStep DEF Alter

-----------------------------------------------------------------------------
(* Every step of MetadataCache keeps IInv.                                  *)
LEMMA Inductive == IInv /\ [Next]_vars => IInv'
  <1> SUFFICES ASSUME IInv, [Next]_vars PROVE IInv'
    OBVIOUS
  <1>1. ASSUME NEW r \in Readers, Call(r) \/ Acquire(r) \/ Read(r) \/ LoadEnds(r) \/ Cancel(r)
        PROVE  IInv'
    <2>1. CASE Call(r)
      BY <2>1, CallStep
    <2>2. CASE Acquire(r)
      BY <2>2, UnderLockStep DEF Acquire
    <2>3. CASE Read(r)
      BY <2>3, ReadStep
    <2>4. CASE LoadEnds(r)
      BY <2>4, PublishStep, RejectStep, LoadFailsStep DEF LoadEnds
    <2>5. CASE Cancel(r)
      BY <2>5, CancelStep
    <2> QED
      BY <1>1, <2>1, <2>2, <2>3, <2>4, <2>5
  <1>2. CASE Tick
    BY <1>2, TickStep
  <1>3. CASE Alter
    BY <1>3, AlterStep
  <1>4. CASE UNCHANGED vars
    <2>1. TypeOK'
      BY <1>4 DEF IInv, TypeOK, vars
    <2>2. \A q \in Readers : pc'[q] = "read" => held'[q] \in Snapshots
      BY <1>4 DEF IInv, Founded, vars
    <2> QED
      BY <1>4, <2>1, <2>2, QuietStep DEF vars
  <1> QED
    BY <1>1, <1>2, <1>3, <1>4 DEF Next

(* The cache's guarantees hold in every reachable state.                    *)
LEMMA AlwaysIInv == Spec => []IInv
  BY InitIInv, Inductive, PTL DEF Spec

(* No retry of a failing refresh stretches a snapshot's life, for any TTL,  *)
(* any max_stale_ms and any refresh_retry_ms (_get_prepared).               *)
THEOREM AnswersAreInTime == Spec => []ServedInTime
  <1>1. IInv => ServedInTime
    BY DEF IInv
  <1> QED
    BY <1>1, AlwaysIInv, PTL

(* What a rejected refresh withdrew stays withdrawn (_get_prepared).        *)
THEOREM RevokedStays == Spec => []RevokedStaysOut
  <1>1. IInv => RevokedStaysOut
    BY DEF IInv
  <1> QED
    BY <1>1, AlwaysIInv, PTL

(* Every answer ever served has the one accepted view structure             *)
(* (_view_structure_signatures in _load_and_validate).                      *)
THEOREM StructureIsPinned == Spec => []OneStructure
  <1>1. IInv => OneStructure
    BY DEF IInv
  <1> QED
    BY <1>1, AlwaysIInv, PTL

(* One load at a time and none that is not due (the lock of _get_prepared). *)
THEOREM LoadsAreDue == Spec => []LoadsWhenDue
  <1>1. IInv => LoadsWhenDue
    BY DEF IInv
  <1> QED
    BY <1>1, AlwaysIInv, PTL

(* The published health agrees with the entry: nothing can be served while  *)
(* it says unavailable; healthy and stale were said of the entry that is    *)
(* still there, at an age at which it was served as that                    *)
(* (set_source_health in _get_prepared and _load_and_validate).             *)
THEOREM HealthIsTrue == Spec => []HealthTruthful
  <1>1. IInv => HealthTruthful
    BY DEF IInv
  <1> QED
    BY <1>1, AlwaysIInv, PTL
=============================================================================
