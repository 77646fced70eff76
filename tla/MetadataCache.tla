--------------------------- MODULE MetadataCache ---------------------------
(***************************************************************************)
(* MetadataService (metadata/service.py) for one source: the snapshot it   *)
(* publishes to get_context() and get_published(), when it is reused, when *)
(* it is refreshed, served stale, or withdrawn.  Cache, refresh lock and   *)
(* structure signature are kept per source, so sources do not meet.        *)
(*                                                                         *)
(* A caller suspends in two places: at the refresh lock and at             *)
(* catalog.load().  The load reads one REPEATABLE READ snapshot at some    *)
(* moment and returns it later; the catalog may change at any time.        *)
(***************************************************************************)
EXTENDS Naturals, FiniteSets

CONSTANTS
    Readers,     \* calls of _get_prepared
    Snapshots,   \* catalogs a load can return
    Structure,   \* create_view_structure_signature of a snapshot
    Valid,       \* those that pass _validate_snapshot and the response limit
    Ttl,         \* cache_ttl_ms
    MaxStale,    \* max_stale_ms
    Retry,       \* refresh_retry_ms
    MaxTime,     \* bound on the clock
    None         \* no entry, no signature, no holder

ASSUME ReadersAssumption == None \notin Readers
ASSUME SnapshotsAssumption ==
    /\ Valid \subseteq Snapshots
    /\ \A v \in Snapshots : Structure[v] # None
ASSUME TimesAssumption == Ttl \in Nat /\ MaxStale \in Nat /\ Retry \in Nat /\ MaxTime \in Nat

VARIABLES
    now,      \* _now(), monotonic
    db,       \* the catalog as the database has it
    pc,       \* where a caller is suspended
    ahead,    \* who waited for the lock when it joined
    held,     \* the snapshot its load has read
    lock,     \* holder of the refresh lock
    cache,    \* _cache: the entry or None
    pinned,   \* _view_structure_signatures: the accepted structure or None
    health,   \* the metadata health published to operations
    told,     \* history: when that health was last set
    reply,    \* the last answer of each caller
    born,     \* history: when the last snapshot was published
    revoked   \* history: the last refresh that was decided was a rejection

vars == <<now, db, pc, ahead, held, lock, cache, pinned, health, told, reply, born, revoked>>

Times == 0..MaxTime
Entries == [value : Snapshots, loadedAt : Nat, expiresAt : Nat, nextRefreshAt : Nat]
ASSUME EntriesAssumption == None \notin Entries

Loading == {"loading", "read"}
Pcs == Loading \union {"idle", "waiting"}
Kinds == {"none", "fresh", "stale", "unavailable", "cancelled"}

Init ==
    /\ now = 0
    /\ db \in Snapshots
    /\ pc = [r \in Readers |-> "idle"]
    /\ ahead = [r \in Readers |-> {}]
    /\ held = [r \in Readers |-> None]
    /\ lock = None
    /\ cache = None
    /\ pinned = None
    /\ health = "initializing"
    /\ told = 0
    /\ reply = [r \in Readers |-> [kind |-> "none", value |-> None, age |-> 0]]
    /\ born = 0
    /\ revoked = FALSE

-----------------------------------------------------------------------------
Cached == cache # None
Age    == now - cache.loadedAt
Fresh  == Cached /\ cache.expiresAt > now
Usable == Cached /\ Age <= MaxStale
Backoff == Cached /\ ~Fresh /\ cache.nextRefreshAt > now

Entry(v) ==
    [value |-> v, loadedAt |-> now, expiresAt |-> now + Ttl, nextRefreshAt |-> now + Ttl]

Says(status) == health' = status /\ told' = now

(* r is in nobody's way at the lock any more.                              *)
Unqueued(r) == [q \in Readers |-> IF q = r THEN {} ELSE ahead[q] \ {r}]

(* The call returns the entry, or raises; its lock is free again.          *)
Leave(r) ==
    /\ pc' = [pc EXCEPT ![r] = "idle"]
    /\ ahead' = Unqueued(r)
    /\ held' = [held EXCEPT ![r] = None]
    /\ lock' = IF lock = r THEN None ELSE lock

Serve(r, kind, value, since) ==
    /\ Leave(r)
    /\ reply' = [reply EXCEPT ![r] = [kind |-> kind, value |-> value, age |-> now - since]]

Raise(r, kind) ==
    /\ Leave(r)
    /\ reply' = [reply EXCEPT ![r] = [kind |-> kind, value |-> None, age |-> 0]]

(* Under the lock: reuse, serve stale during the backoff, or load.         *)
ServeFresh(r) ==
    /\ Fresh
    /\ Serve(r, "fresh", cache.value, born)
    /\ Says("healthy")

ServeStale(r) ==
    /\ Backoff /\ Usable
    /\ Serve(r, "stale", cache.value, born)
    /\ Says("stale")

TooStale(r) ==
    /\ Backoff /\ ~Usable
    /\ Raise(r, "unavailable")
    /\ Says("unavailable")

StartLoad(r) ==
    /\ ~Fresh /\ ~Backoff
    /\ pc' = [pc EXCEPT ![r] = "loading"]
    /\ lock' = r
    /\ ahead' = Unqueued(r)
    /\ UNCHANGED <<held, reply, health, told>>

UnderLock(r) ==
    /\ ServeFresh(r) \/ ServeStale(r) \/ TooStale(r) \/ StartLoad(r)
    /\ UNCHANGED <<now, db, cache, pinned, born, revoked>>

(* asyncio.Lock is taken at once only if nobody holds it or waits for it.  *)
Waiting == {r \in Readers : pc[r] = "waiting"}

Call(r) ==
    /\ pc[r] = "idle"
    /\ IF lock = None /\ Waiting = {}
         THEN UnderLock(r)
         ELSE /\ pc' = [pc EXCEPT ![r] = "waiting"]
              /\ ahead' = [ahead EXCEPT ![r] = Waiting]
              /\ UNCHANGED <<now, db, held, lock, cache, pinned, health, told, reply, born, revoked>>

Acquire_NoSecondLook(r) ==  \* variant: the cache is read before the lock is awaited
    /\ pc[r] = "waiting" /\ lock = None /\ ahead[r] \intersect Waiting = {}
    /\ pc' = [pc EXCEPT ![r] = "loading"]
    /\ lock' = r
    /\ ahead' = Unqueued(r)
    /\ UNCHANGED <<now, db, held, cache, pinned, health, told, reply, born, revoked>>

Acquire(r) ==
    /\ pc[r] = "waiting" /\ lock = None /\ ahead[r] \intersect Waiting = {}
    /\ UnderLock(r)

(* The catalog transaction reads its snapshot.                             *)
Read(r) ==
    /\ pc[r] = "loading"
    /\ pc' = [pc EXCEPT ![r] = "read"]
    /\ held' = [held EXCEPT ![r] = db]
    /\ UNCHANGED <<now, db, ahead, lock, cache, pinned, health, told, reply, born, revoked>>

Acceptable_AnyStructure(v) ==  \* variant: the accepted signature is not compared
    v \in Valid

Acceptable(v) == v \in Valid /\ pinned \in {None, Structure[v]}

(* The load comes back with a catalog that passes: it is published.        *)
Publish(r) ==
    LET v == held[r] IN
    /\ pc[r] = "read" /\ Acceptable(v)
    /\ cache' = Entry(v)
    /\ born' = now
    /\ pinned' = Structure[v]
    /\ Says("healthy")
    /\ revoked' = FALSE
    /\ Serve(r, "fresh", v, now)
    /\ UNCHANGED <<now, db>>

Withdrawn_Kept == cache  \* variant: a rejection leaves the entry in the cache

Withdrawn == None

(* A catalog that does not pass, a reader that breaks its policy, a catalog*)
(* that cannot be taken apart: what was published is withdrawn.            *)
Reject(r) ==
    /\ \/ pc[r] = "read" /\ ~Acceptable(held[r])
       \/ pc[r] \in Loading
    /\ cache' = Withdrawn
    /\ Says("unavailable")
    /\ revoked' = TRUE
    /\ Raise(r, "unavailable")
    /\ UNCHANGED <<now, db, pinned, born>>

Postponed_AsIfLoaded ==  \* variant: a failed refresh renews the entry's age
    [cache EXCEPT !.nextRefreshAt = now + Retry, !.loadedAt = now]

Postponed == [cache EXCEPT !.nextRefreshAt = now + Retry]

LoadFails_Silent(r) ==  \* variant: serving the old entry leaves the health as it was
    /\ pc[r] \in Loading
    /\ \/ /\ Usable
          /\ cache' = Postponed
          /\ Serve(r, "stale", cache.value, born)
          /\ UNCHANGED <<health, told>>
       \/ /\ ~Usable
          /\ Says("unavailable")
          /\ Raise(r, "unavailable")
          /\ UNCHANGED cache
    /\ UNCHANGED <<now, db, pinned, born, revoked>>

(* Any other failure: the entry is served while it is not too old, and the *)
(* next refresh waits; otherwise the call fails and the entry stays.       *)
LoadFails(r) ==
    /\ pc[r] \in Loading
    /\ \/ /\ Usable
          /\ cache' = Postponed
          /\ Says("stale")
          /\ Serve(r, "stale", cache.value, born)
       \/ /\ ~Usable
          /\ Says("unavailable")
          /\ Raise(r, "unavailable")
          /\ UNCHANGED cache
    /\ UNCHANGED <<now, db, pinned, born, revoked>>

Cancel_KeepsLock(r) ==  \* variant: the lock is not released by a context manager
    /\ pc[r] # "idle"
    /\ pc' = [pc EXCEPT ![r] = "idle"]
    /\ ahead' = Unqueued(r)
    /\ held' = [held EXCEPT ![r] = None]
    /\ UNCHANGED <<now, db, lock, cache, pinned, health, told, reply, born, revoked>>

(* The caller's task is cancelled, at the lock or in the load.             *)
Cancel(r) ==
    /\ pc[r] # "idle"
    /\ Raise(r, "cancelled")
    /\ UNCHANGED <<now, db, cache, pinned, health, told, born, revoked>>

(* The environment.                                                        *)
Tick ==
    /\ now < MaxTime
    /\ now' = now + 1
    /\ UNCHANGED <<db, pc, ahead, held, lock, cache, pinned, health, told, reply, born, revoked>>

Alter ==
    /\ db' \in Snapshots
    /\ UNCHANGED <<now, pc, ahead, held, lock, cache, pinned, health, told, reply, born, revoked>>

LoadEnds(r) == Publish(r) \/ Reject(r) \/ LoadFails(r)

Next ==
    \/ \E r \in Readers :
          Call(r) \/ Acquire(r) \/ Read(r) \/ LoadEnds(r) \/ Cancel(r)
    \/ Tick \/ Alter

Spec == Init /\ [][Next]_vars

(* The lock is handed on, and a load ends: its statements and its          *)
(* connection have timeouts of their own.                                  *)
FairSpec ==
    Spec /\ \A r \in Readers : WF_vars(Acquire(r)) /\ WF_vars(LoadEnds(r))

-----------------------------------------------------------------------------
(* Correctness.                                                            *)

(* The variables stay in their domains.                                    *)
TypeOK ==
    /\ now \in Times
    /\ db \in Snapshots
    /\ pc \in [Readers -> Pcs]
    /\ ahead \in [Readers -> SUBSET Readers]
    /\ held \in [Readers -> Snapshots \union {None}]
    /\ lock \in Readers \union {None}
    /\ cache \in Entries \union {None}
    /\ pinned \in {Structure[v] : v \in Snapshots} \union {None}
    /\ health \in {"initializing", "healthy", "stale", "unavailable"}
    /\ reply \in [Readers -> [kind : Kinds, value : Snapshots \union {None}, age : Nat]]
    /\ told \in Times
    /\ born \in Times
    /\ revoked \in BOOLEAN

Served(r) == reply[r].kind \in {"fresh", "stale"}

(* A refresh that keeps failing never stretches a snapshot's life: fresh   *)
(* answers come from within the TTL, stale ones from within max_stale_ms   *)
(* of its publication, however many retries there were.                    *)
ServedInTime ==
    \A r \in Readers :
        /\ reply[r].kind = "fresh" => reply[r].age < Ttl \/ reply[r].age = 0
        /\ reply[r].kind = "stale" => reply[r].age <= MaxStale

(* Once a refresh has been rejected, what was published before is out of   *)
(* reach: no later connection error may bring it back as a stale answer.   *)
RevokedStaysOut == revoked => ~Cached

(* Everything ever served has one view structure: a source's views cannot  *)
(* change under an unchanged contract version, not even after the entry    *)
(* that carried the structure was withdrawn.                               *)
OneStructure ==
    /\ Cached => Structure[cache.value] = pinned
    /\ \A r \in Readers : Served(r) => Structure[reply[r].value] = pinned

(* One load at a time, and none while the entry is fresh or backing off: a *)
(* caller that waited for the lock looks again.                            *)
LoadsWhenDue ==
    \A r \in Readers : pc[r] \in Loading =>
        /\ lock = r
        /\ Cached => cache.expiresAt <= now /\ cache.nextRefreshAt <= now

(* The published health agrees with the entry, whichever caller set it.    *)
(* Unavailable: there is nothing to serve, neither fresh nor as stale.     *)
(* Healthy: the entry is there, was within its TTL when this was said, and *)
(* no refresh of it has failed since it was published.  Stale: the entry   *)
(* is there, past its TTL, and was within max_stale_ms when this was said. *)
(* Only callers set the health: a source nobody asks keeps the word        *)
(* "healthy" or "stale" while its entry grows too old to be served.        *)
HealthTruthful ==
    /\ health = "unavailable" => ~Fresh /\ ~Usable
    /\ health = "healthy" =>
          /\ Cached /\ cache.nextRefreshAt = cache.expiresAt
          /\ told - born < Ttl \/ told = born
    /\ health = "stale" => Cached /\ ~Fresh /\ told - born <= MaxStale

(* A caller that waits for the refresh lock gets an answer as long as      *)
(* loads end, whoever is cancelled meanwhile.                              *)
Answered == \A r \in Readers : pc[r] = "waiting" ~> pc[r] = "idle"
=============================================================================
