--------------------------- MODULE StartupProofs ---------------------------
(***************************************************************************)
(* What holds of Startup for every environment, inventory and access       *)
(* policy.                                                                 *)
(***************************************************************************)
EXTENDS Startup, SequenceTheorems, WellFoundedInduction, TLAPS

-----------------------------------------------------------------------------
(* The inductive invariant.                                                *)

Begun == {"sources", "access", "callers", "serving"}

(* What _resolve_source has let through.                                   *)
Usable == {Resolved(p) : p \in {q \in Packages : ~SourceRefused(q)}}

(* The sources that are loaded are the directories that are not left.      *)
Inventory ==
    /\ stage \in {"settings", "profiles"} => sources = <<>>
    /\ stage \in Begun =>
        /\ ~BudgetRefused(budget) /\ ~DatabaseRefused(database) /\ database \in Databases
        /\ listing # {} /\ listing \subseteq Names /\ left \subseteq listing
        /\ sources \in Seq(listing \X Usable)
        /\ {s[1] : s \in Range(sources)} = listing \ left
    /\ stage \in Begun \ {"sources"} => registry \in [listing -> Usable]

Configured ==
    /\ settings \in Settings
    /\ stage \notin {"settings", "failed"} => ~SettingsRefused

(* The credential of a caller of the access policy.                        *)
Credential(c) == [token |-> secrets[c.env], caller |-> Caller(c.id, c.operator)]

PolicyRead ==
    /\ settings.access_policy_file = "set" /\ policy \in Policies /\ policy # <<>>
    /\ secrets \in [{c.env : c \in Range(policy)} -> Tokens]

(* The first callers of the policy have their credentials, in its order.   *)
Ordered ==
    /\ credentials \in Seq({Credential(c) : c \in Range(policy)})
    /\ Len(credentials) <= Len(policy)
    /\ \A i \in 1..Len(credentials) : credentials[i] = Credential(policy[i])

(* No two credentials have one token, and each token can be received.      *)
Distinct ==
    \A i \in DOMAIN credentials :
        /\ TokenLength(credentials[i].token)
        /\ \A j \in DOMAIN credentials : credentials[i].token = credentials[j].token => i = j

(* Who is known once the process serves: the owners of the tokens, or      *)
(* anyone as the local developer.                                          *)
Known ==
    /\ Distinct /\ credentials \in Seq(Owners)
    /\ Range(credentials) = Owners /\ None \notin {o.caller : o \in Owners}
    /\ \A o \in Owners : o.token \in Tokens
    /\ anonymous = IF Owners = {} THEN Caller("local-development", FALSE) ELSE None

Access ==
    /\ stage \in {"settings", "profiles", "sources", "access", "callers"} => anonymous = None
    /\ stage \in {"settings", "profiles", "sources", "access"} => credentials = <<>>
    /\ stage = "callers" => PolicyRead /\ Ordered /\ Distinct
    /\ stage = "serving" => Known

Answered ==
    request # None => stage = "serving" /\ request \in Requests /\ response = Answer(request)

-----------------------------------------------------------------------------
(* Sequences and numbers.                                                  *)

(* What appending does to the elements.                                    *)
LEMMA AppendRange ==
    ASSUME NEW S, NEW q \in Seq(S), NEW e \in S
    PROVE  Append(q, e) \in Seq(S) /\ Range(Append(q, e)) = Range(q) \union {e}
<1>1. /\ Append(q, e) \in Seq(S) /\ Len(Append(q, e)) = Len(q) + 1
      /\ \A i \in 1..Len(q) : Append(q, e)[i] = q[i]
      /\ Append(q, e)[Len(q) + 1] = e
  BY AppendProperties
<1>2. DOMAIN q = 1..Len(q) /\ DOMAIN Append(q, e) = 1..(Len(q) + 1) /\ Len(q) \in Nat
  BY <1>1
<1> DEFINE a == Append(q, e)
           n == Len(q)
<1>3. \A i \in 1..(n + 1) : i \in 1..n \/ i = n + 1
  BY <1>2
<1> HIDE DEF a, n
<1> QED
  BY <1>1, <1>2, <1>3 DEF Range, a, n

(* The least of some naturals is one of them.                              *)
LEMMA MinIsMember ==
    ASSUME NEW S \in SUBSET Nat, S # {}
    PROVE  Min(S) \in S
<1> DEFINE Less == OpToRel(<, Nat)
<1>1. \A m, n \in Nat : m < n => <<m, n>> \in Less
  BY DEF OpToRel
<1>2. IsWellFoundedOn(Less, Nat)
  BY NatLessThanWellFounded
<1> HIDE DEF Less
<1>3. PICK n \in S : \A m \in S : <<m, n>> \notin Less
  BY <1>2, WFMin
<1>4. ASSUME NEW m \in S
      PROVE  n <= m
  <2>1. m \in Nat /\ n \in Nat
    OBVIOUS
  <2>2. <<m, n>> \notin Less
    BY <1>3
  <2>3. ~(m < n)
    BY <1>1, <2>1, <2>2
  <2> QED
    BY <2>1, <2>3
<1> QED
  BY <1>4 DEF Min

(* The greatest of one number is that number.                              *)
LEMMA MaxOfOne ==
    ASSUME NEW i \in Nat
    PROVE  Max({i}) = i
BY DEF Max

-----------------------------------------------------------------------------
(* The inventory.                                                          *)

(* Usable depends on what is read before the first source is loaded.       *)
LEMMA UsableStays ==
    ASSUME UNCHANGED <<environment, database, budget>>
    PROVE  Usable' = Usable
BY DEF Usable, Resolved, SourceRefused, PortRefused, Port, Host

(* Nothing touches the inventory once it is there.                         *)
LEMMA InventoryStays ==
    ASSUME Inventory, UNCHANGED inventoryVars,
           \/ stage' = stage \/ stage' = "failed"
           \/ stage \in Begun \ {"sources"} /\ stage' \in {"callers", "serving"}
    PROVE  Inventory'
<1>1. Usable' = Usable
  BY UsableStays DEF inventoryVars
<1> QED
  BY <1>1 DEF Inventory, inventoryVars, Begun

(* A directory is loaded: it is not left any more.                         *)
LEMMA LoadInventory ==
    ASSUME Inventory, LoadSource
    PROVE  Inventory'
<1>1. Usable' = Usable
  BY UsableStays DEF LoadSource
<1>2. CASE stage' = "failed"
  BY <1>2 DEF Inventory, Begun
<1>3. CASE stage' # "failed"
  <2> DEFINE n == Min(left)
  <2>1. PICK p \in Packages : ~SourceRefused(p) /\ left' = left \ {n}
            /\ sources' = Append(sources, <<n, Resolved(p)>>) /\ stage' = stage
    BY <1>3 DEF LoadSource
  <2>2. n \in left /\ n \in listing
    BY MinIsMember, NamesAssumption DEF LoadSource, Inventory, Begun
  <2>3. Resolved(p) \in Usable
    BY <2>1 DEF Usable
  <2>4. /\ sources \in Seq(listing \X Usable) /\ listing' = listing /\ left \subseteq listing
        /\ {s[1] : s \in Range(sources)} = listing \ left
    BY DEF Inventory, LoadSource, Begun
  <2> DEFINE new == <<n, Resolved(p)>>
  <2>5. new \in listing \X Usable /\ new[1] = n
    BY <2>2, <2>3
  <2> HIDE DEF n, new
  <2>6. sources' \in Seq(listing \X Usable) /\ Range(sources') = Range(sources) \union {new}
    BY <2>1, <2>4, <2>5, AppendRange DEF new
  <2>7. {s[1] : s \in Range(sources')} = listing \ left'
    BY <2>1, <2>2, <2>4, <2>5, <2>6
  <2> QED
    BY <1>1, <2>1, <2>4, <2>6, <2>7
       DEF Inventory, LoadSource, Begun
<1> QED
  BY <1>2, <1>3

(* The registry has an entry for every directory.                          *)
LEMMA BuildInventory ==
    ASSUME Inventory, BuildRegistry
    PROVE  Inventory'
<1>1. Usable' = Usable
  BY UsableStays DEF BuildRegistry
<1>2. sources \in Seq(listing \X Usable) /\ {s[1] : s \in Range(sources)} = listing
  BY DEF Inventory, BuildRegistry, Begun
<1>3. ASSUME NEW n \in listing
      PROVE  (CHOOSE s \in Range(sources) : s[1] = n)[2] \in Usable
  <2>1. \E s \in Range(sources) : s[1] = n
    BY <1>2
  <2>2. Range(sources) \subseteq listing \X Usable
    BY <1>2 DEF Range
  <2> DEFINE it == CHOOSE s \in Range(sources) : s[1] = n
  <2>3. it \in Range(sources)
    BY <2>1
  <2> QED
    BY <2>2, <2>3
<1>4. registry' \in [listing -> Usable]
  BY <1>2, <1>3 DEF BuildRegistry
<1> QED
  BY <1>1, <1>4 DEF Inventory, BuildRegistry, Begun

(* Every step keeps the inventory.                                         *)
LEMMA NextInventory ==
    ASSUME Inventory, [Next]_vars
    PROVE  Inventory'
<1>1. CASE Configure
  BY <1>1 DEF Configure, Inventory, Begun, inventoryVars
<1>2. CASE ReadProfiles
  <2>1. CASE stage' = "failed"
    BY <2>1 DEF Inventory, Begun
  <2>2. CASE stage' # "failed"
    <3>1. /\ stage' = "sources" /\ ~BudgetRefused(budget') /\ ~DatabaseRefused(database')
          /\ database' \in Databases /\ listing' # {} /\ listing' \subseteq Names
          /\ left' = listing' /\ sources' = <<>>
      BY <1>2, <2>2 DEF ReadProfiles, Inventory
    <3>2. Range(sources') = {}
      BY <3>1 DEF Range
    <3>3. sources' \in Seq(listing' \X Usable')
      BY <3>1
    <3> QED
      BY <3>1, <3>2, <3>3 DEF Inventory, Begun
  <2> QED
    BY <2>1, <2>2
<1>3. CASE LoadSource
  BY <1>3, LoadInventory
<1>4. CASE BuildRegistry
  BY <1>4, BuildInventory
<1>5. CASE ReadPolicy \/ LoadCaller \/ DefaultPolicy \/ Serve
  BY <1>5, InventoryStays DEF ReadPolicy, LoadCaller, DefaultPolicy, Serve, Begun, inventoryVars
<1>6. CASE UNCHANGED vars
  BY <1>6, InventoryStays DEF vars
<1> QED
  BY <1>1, <1>2, <1>3, <1>4, <1>5, <1>6 DEF Next

(* Before the first file is read nothing is loaded.                        *)
LEMMA InitInventory ==
    ASSUME Init
    PROVE  Inventory
BY DEF Init, Inventory, Begun

(* There is no service without the whole inventory, and each source in it  *)
(* has a real address, certificates that are checked or a password under   *)
(* test, and a pool for all its queries, whatever the environment holds.   *)
THEOREM InventoryIsComplete == Spec => []InventoryIsWhole
<1>1. ASSUME Inventory
      PROVE  InventoryIsWhole
  <2> SUFFICES ASSUME stage \in {"access", "callers", "serving"}
               PROVE  /\ DOMAIN registry = listing /\ listing # {}
                      /\ \A n \in listing : Safe(registry[n])
    BY DEF InventoryIsWhole
  <2>1. /\ registry \in [listing -> Usable] /\ listing # {}
        /\ ~BudgetRefused(budget) /\ ~DatabaseRefused(database) /\ database \in Databases
    BY <1>1 DEF Inventory, Begun
  <2>2. budget.concurrent \in 1..budget.pool
    BY <2>1 DEF BudgetRefused
  <2>3. database.authentication # "password" => database.sslmode = "verify-full"
    <3>1. database.authentication \in {"password", "client-certificate"}
      BY <2>1, StartupAssumption
    <3> QED
      BY <2>1, <3>1 DEF DatabaseRefused
  <2>4. ASSUME NEW p \in Packages, ~SourceRefused(p)
        PROVE  Safe(Resolved(p))
    <3>1. Host \in UsableHosts /\ ~PortRefused /\ p.schemas = "allowed"
      BY <2>4 DEF SourceRefused
    <3>2. database.authentication = "password" => p.environment = "test"
      BY <2>4 DEF SourceRefused
    <3> QED
      BY <2>2, <2>3, <3>1, <3>2 DEF Resolved, Safe, PortRefused
  <2> QED
    BY <2>1, <2>4 DEF Usable
<1> QED
  BY <1>1, InitInventory, NextInventory, PTL DEF Spec

-----------------------------------------------------------------------------
(* The callers.                                                            *)

(* The settings are what they were, and refused ones end the process.      *)
LEMMA NextConfigured ==
    ASSUME Configured, [Next]_vars
    PROVE  Configured'
<1>1. SettingsRefused' = SettingsRefused \/ settings' # settings
  BY DEF SettingsRefused, ApiToken
<1>2. settings' = settings
  BY DEF Next, Configure, ReadProfiles, LoadSource, BuildRegistry, ReadPolicy, LoadCaller,
         DefaultPolicy, Serve, vars
<1>3. CASE Configure
  BY <1>2, <1>3 DEF Configure, Configured, SettingsRefused, ApiToken
<1>4. CASE ~Configure
  <2>1. stage' \notin {"settings", "failed"} => stage \notin {"settings", "failed"}
    BY <1>4 DEF Next, ReadProfiles, LoadSource, BuildRegistry, ReadPolicy, LoadCaller,
           DefaultPolicy, Serve, vars
  <2> QED
    BY <1>2, <2>1 DEF Configured, SettingsRefused, ApiToken
<1> QED
  BY <1>3, <1>4

(* What is known of the callers depends on these variables only.           *)
LEMMA AccessStays ==
    ASSUME Access, UNCHANGED <<settings, accessVars>>,
           \/ stage' = stage \/ stage' = "failed"
           \/ /\ stage \in {"settings", "profiles", "sources"}
              /\ stage' \in {"profiles", "sources", "access"}
    PROVE  Access'
<1> USE DEF accessVars
<1>1. Owners' = Owners /\ \A c : Credential(c)' = Credential(c)
  BY DEF Owners, ApiToken, Credential
<1>2. Distinct' = Distinct
  BY DEF Distinct
<1>3. Ordered => Ordered'
  BY <1>1 DEF Ordered, Credential
<1>4. PolicyRead => PolicyRead'
  BY DEF PolicyRead
<1>5. Known => Known'
  BY <1>1, <1>2 DEF Known
<1> QED
  BY <1>2, <1>3, <1>4, <1>5 DEF Access

(* A caller is added whose token nobody has and which has a usable length. *)
LEMMA LoadCallerAccess ==
    ASSUME Access, LoadCaller
    PROVE  Access'
<1>1. /\ PolicyRead /\ Ordered /\ Distinct /\ anonymous = None
      /\ UNCHANGED <<settings, secrets, policy, anonymous>>
  BY DEF Access, LoadCaller
<1>2. /\ policy \in Seq(Range(policy)) /\ Len(policy) \in Nat /\ Len(credentials) \in Nat
      /\ DOMAIN policy = 1..Len(policy) /\ DOMAIN credentials = 1..Len(credentials)
  BY <1>1, PolicyAssumption DEF PolicyRead, Ordered
<1>3. CASE stage' = "failed"
  BY <1>3 DEF Access
<1>4. CASE Len(credentials) = Len(policy)
  <2>1. stage' = "serving" /\ credentials' = credentials
    BY <1>4 DEF LoadCaller
  <2>2. Owners = {Credential(c) : c \in Range(policy)}
    BY <1>1 DEF Owners, Credential, PolicyRead
  <2>3. Range(credentials) = {Credential(c) : c \in Range(policy)}
    BY <1>1, <1>2, <1>4 DEF Range, Ordered
  <2>4. Owners # {}
    <3>1. policy # <<>>
      BY <1>1 DEF PolicyRead
    <3>2. Len(policy) # 0
      BY <1>2, <3>1, EmptySeq
    <3>3. 1 \in DOMAIN policy
      BY <1>2, <3>2
    <3> QED
      BY <2>2, <3>3 DEF Range
  <2>5. \A o \in Owners : o.token \in Tokens /\ o.caller # None
    BY <1>1, <2>2, NoneAssumption DEF PolicyRead, Credential
  <2>6. Owners' = Owners
    BY <1>1 DEF Owners, ApiToken
  <2>7. credentials \in Seq(Owners)
    BY <1>1, <2>2 DEF Ordered
  <2> QED
    BY <1>1, <2>1, <2>2, <2>3, <2>4, <2>5, <2>6, <2>7 DEF Access, Known, Distinct
<1>5. CASE stage' # "failed" /\ Len(credentials) # Len(policy)
  <2> DEFINE n == Len(credentials) + 1
             c == policy[n]
             Creds == {Credential(d) : d \in Range(policy)}
  <2>1. /\ ~SecretRefused(secrets[c.env]) /\ stage' = stage
        /\ credentials' = Append(credentials, Credential(c))
    BY <1>5 DEF LoadCaller, Credential
  <2>2. n \in 1..Len(policy)
    <3>1. Len(credentials) <= Len(policy)
      BY <1>1 DEF Ordered
    <3> DEFINE had == Len(credentials)
               all == Len(policy)
    <3>2. had \in Nat /\ all \in Nat /\ had <= all /\ had # all
      BY <1>2, <1>5, <3>1
    <3> HIDE DEF had, all
    <3>3. had + 1 \in 1..all
      BY <3>2
    <3> QED
      BY <3>3 DEF had, all
  <2>3. c \in Range(policy) /\ Credential(c) \in Creds
    BY <1>2, <2>2 DEF Range
  <2>4. credentials \in Seq(Creds)
    BY <1>1 DEF Ordered
  <2> DEFINE new == Credential(c)
  <2>5. TokenLength(new.token) /\ \A i \in DOMAIN credentials : credentials[i].token # new.token
    BY <2>1 DEF SecretRefused, Range, Credential
  <2> HIDE DEF new, Creds
  <2>6. /\ credentials' \in Seq(Creds) /\ Len(credentials') = n
        /\ DOMAIN credentials' = 1..n
        /\ \A i \in 1..Len(credentials) : credentials'[i] = credentials[i]
        /\ credentials'[n] = new
    <3>1. credentials' = Append(credentials, new) /\ new \in Creds
      BY <2>1, <2>3 DEF new
    <3> QED
      BY <1>2, <2>4, <3>1, AppendProperties
  <2>7. \A i \in 1..n : i \in 1..Len(credentials) \/ i = n
    BY <1>2
  <2>8. Distinct'
    BY <1>1, <1>2, <2>5, <2>6, <2>7 DEF Distinct
  <2>9. Ordered'
    <3>1. Creds' = Creds /\ \A d : Credential(d)' = Credential(d)
      BY <1>1 DEF Creds, Credential
    <3>2. \A i \in 1..n : credentials'[i] = Credential(policy[i])
      BY <1>1, <2>6, <2>7 DEF Ordered, new
    <3>3. Len(credentials') <= Len(policy')
      BY <1>1, <2>2, <2>6
    <3> QED
      BY <1>1, <2>6, <3>1, <3>2, <3>3 DEF Ordered, Creds, Credential
  <2>10. PolicyRead'
    BY <1>1 DEF PolicyRead
  <2>11. stage' = "callers" /\ anonymous' = None
    BY <1>1, <2>1 DEF LoadCaller
  <2> QED
    BY <2>8, <2>9, <2>10, <2>11 DEF Access
<1> QED
  BY <1>3, <1>4, <1>5

(* Without a policy the one token is the legacy caller's, if there is one. *)
LEMMA DefaultAccess ==
    ASSUME Access, Configured, DefaultPolicy
    PROVE  Access'
<1>1. /\ stage = "access" /\ stage' = "serving" /\ settings.access_policy_file # "set"
      /\ settings' = settings /\ credentials = <<>> /\ anonymous = None /\ ~SettingsRefused
      /\ settings.api_token \in Tokens \union {None}
  BY DEF DefaultPolicy, Access, Configured, Settings
<1> DEFINE cred == [token |-> ApiToken, caller |-> Caller("legacy-api-token", FALSE)]
<1>2. Owners' = {[caller |-> Caller("legacy-api-token", FALSE), token |-> t] : t \in {ApiToken} \ {None}}
  BY <1>1 DEF Owners, ApiToken
<1>3. CASE ApiToken # None
  <2>1. credentials' = <<cred>> /\ anonymous' = None
    BY <1>1, <1>3 DEF DefaultPolicy
  <2>2. Owners' = {cred}
    BY <1>2, <1>3
  <2>3. TokenLength(ApiToken) /\ ApiToken \in Tokens
    BY <1>1, <1>3 DEF SettingsRefused, ApiToken
  <2>4. cred.token = ApiToken /\ cred.caller # None
    BY NoneAssumption
  <2> HIDE DEF cred
  <2>5. DOMAIN credentials' = {1} /\ credentials'[1] = cred
    BY <2>1
  <2>6. Range(credentials') = {cred}
    BY <2>5 DEF Range
  <2>7. Distinct'
    BY <2>3, <2>4, <2>5 DEF Distinct
  <2>8. credentials' \in Seq(Owners')
    BY <2>1, <2>2
  <2>9. Known'
    BY <2>1, <2>2, <2>3, <2>4, <2>6, <2>7, <2>8 DEF Known
  <2> QED
    BY <1>1, <2>9 DEF Access
<1>4. CASE ApiToken = None
  <2>1. credentials' = <<>> /\ anonymous' = Caller("local-development", FALSE)
    BY <1>1, <1>4 DEF DefaultPolicy
  <2>2. Owners' = {}
    BY <1>2, <1>4
  <2>3. DOMAIN credentials' = {}
    BY <2>1
  <2>4. Distinct' /\ Range(credentials') = {} /\ credentials' \in Seq(Owners')
    BY <2>1, <2>3 DEF Distinct, Range
  <2>5. Known'
    BY <2>1, <2>2, <2>4 DEF Known
  <2> QED
    BY <1>1, <2>5 DEF Access
<1> QED
  BY <1>3, <1>4

(* The callers' file is read before the first credential is made.          *)
LEMMA ReadPolicyAccess ==
    ASSUME Access, ReadPolicy
    PROVE  Access'
<1>1. stage = "access" /\ credentials' = <<>> /\ anonymous' = None
  BY DEF ReadPolicy, Access
<1>2. CASE stage' = "failed"
  BY <1>2 DEF Access
<1>3. CASE stage' # "failed"
  <2>1. stage' = "callers" /\ policy' # <<>>
    BY <1>3 DEF ReadPolicy
  <2>2. PolicyRead'
    BY <2>1 DEF ReadPolicy, PolicyRead
  <2>3. Len(policy') \in Nat
    BY <2>2, PolicyAssumption DEF PolicyRead
  <2>4. DOMAIN credentials' = {} /\ Len(credentials') = 0
    BY <1>1
  <2>5. Distinct'
    BY <2>4 DEF Distinct
  <2>6. Ordered'
    BY <1>1, <2>3, <2>4 DEF Ordered
  <2> QED
    BY <1>1, <2>1, <2>2, <2>5, <2>6 DEF Access
<1> QED
  BY <1>2, <1>3

(* Every step keeps what is known of the callers.                          *)
LEMMA NextAccess ==
    ASSUME Access, Configured, [Next]_vars
    PROVE  Access'
<1>1. CASE Configure \/ ReadProfiles \/ LoadSource \/ BuildRegistry
  BY <1>1, AccessStays DEF Configure, ReadProfiles, LoadSource, BuildRegistry
<1>2. CASE Serve
  BY <1>2, AccessStays DEF Serve
<1>3. CASE UNCHANGED vars
  BY <1>3, AccessStays DEF vars
<1> QED
  BY <1>1, <1>2, <1>3, ReadPolicyAccess, LoadCallerAccess, DefaultAccess DEF Next

(* The response that is there is the one to the request that is there.     *)
LEMMA NextAnswered ==
    ASSUME Answered, [Next]_vars
    PROVE  Answered'
<1>1. CASE Serve
  <2>1. response' = Answer(request') /\ request' \in Requests /\ stage' = "serving"
        /\ UNCHANGED <<credentials, anonymous>>
    BY <1>1 DEF Serve, accessVars
  <2>2. response' = Answer(request)'
    BY <2>1 DEF Answer, CallerOf, Authenticate
  <2> QED
    BY <2>1, <2>2 DEF Answered
<1>2. CASE Next /\ ~Serve
  <2>1. UNCHANGED requestVars /\ stage # "serving"
    BY <1>2 DEF Next, Configure, ReadProfiles, LoadSource, BuildRegistry, ReadPolicy,
           LoadCaller, DefaultPolicy
  <2> QED
    BY <2>1 DEF Answered, requestVars
<1>3. CASE UNCHANGED vars
  <2>1. Answer(request)' = Answer(request)
    BY <1>3 DEF vars, requestVars, accessVars, Answer, CallerOf, Authenticate
  <2> QED
    BY <1>3, <2>1 DEF Answered, vars, requestVars
<1> QED
  BY <1>1, <1>2, <1>3

(* The invariant of the callers and the requests.                          *)
LEMMA CallersInvariant == Spec => [](Configured /\ Access /\ Answered)
<1>1. Init => Configured /\ Access /\ Answered
  BY DEF Init, Configured, Access, Answered
<1>2. Configured /\ Access /\ Answered /\ [Next]_vars => (Configured /\ Access /\ Answered)'
  BY NextConfigured, NextAccess, NextAnswered
<1> QED
  BY <1>1, <1>2, PTL DEF Spec

-----------------------------------------------------------------------------
(* Who a request is taken for.                                             *)

(* A token that can be received is its owner's or nobody's: the loop over  *)
(* the credentials that takes the last match has one to take at most.      *)
LEMMA TokenIsOwners ==
    ASSUME Known, NEW t \in Tokens
    PROVE  \/ \E o \in Owners : o.token = t /\ Authenticate(t) = o.caller
           \/ t \notin {o.token : o \in Owners} /\ Authenticate(t) = None
<1> DEFINE matching == {i \in DOMAIN credentials : credentials[i].token = t}
<1>1. t # None
  BY NoneAssumption
<1>2. Range(credentials) = Owners /\ Distinct
  BY DEF Known
<1>3. DOMAIN credentials \subseteq Nat
  BY DEF Known
<1>4. CASE matching = {}
  <2>1. Authenticate(t) = None
    BY <1>1, <1>4 DEF Authenticate
  <2>2. t \notin {o.token : o \in Owners}
    BY <1>2, <1>4 DEF Range
  <2> QED
    BY <2>1, <2>2
<1>5. CASE matching # {}
  <2>1. PICK i \in DOMAIN credentials : credentials[i].token = t
    BY <1>5
  <2>2. matching = {i} /\ TokenLength(t)
    BY <1>2, <2>1 DEF Distinct
  <2>3. Max(matching) = i
    BY <1>3, <2>1, <2>2, MaxOfOne
  <2>4. Authenticate(t) = credentials[i].caller
    BY <1>1, <1>5, <2>2, <2>3 DEF Authenticate
  <2>5. credentials[i] \in Owners
    BY <1>2, <2>1 DEF Range
  <2> QED
    BY <2>1, <2>4, <2>5
<1> QED
  BY <1>4, <1>5

(* The empty token is nobody's: it is too short.                           *)
LEMMA EmptyIsNobodys ==
    ASSUME Known
    PROVE  Empty \notin {o.token : o \in Owners}
<1>1. ~TokenLength(Empty)
  BY StartupAssumption DEF TokenLength
<1>2. \A o \in Owners : TokenLength(o.token)
  BY DEF Known, Distinct, Range
<1> QED
  BY <1>1, <1>2

(* Whoever a request is taken for brought that caller's token, or is the   *)
(* local developer; a request taken for nobody brought no usable token.    *)
LEMMA CallerIsOwner ==
    ASSUME Known, NEW r \in Requests
    PROVE  /\ CallerOf(r) # None =>
                \/ [caller |-> CallerOf(r), token |-> r.token] \in Owners
                \/ Owners = {} /\ CallerOf(r) = Caller("local-development", FALSE)
           /\ CallerOf(r) = None => r.token \notin {o.token : o \in Owners} \ Spaced
<1>1. /\ r.token \in Tokens \union {None}
      /\ r.authorizations # 1 => r.token = None
  BY DEF Requests
<1>2. None \notin {o.token : o \in Owners}
  BY NoneAssumption DEF Known
<1>3. anonymous = IF Owners = {} THEN Caller("local-development", FALSE) ELSE None
  BY DEF Known
<1>4. CASE r.authorizations > 1
  <2>1. r.authorizations = 2
    BY <1>4 DEF Requests
  <2> QED
    BY <1>1, <1>2, <2>1 DEF CallerOf
<1>5. CASE r.authorizations <= 1 /\ Received(r) = None
  <2>1. CallerOf(r) = anonymous
    BY <1>5 DEF CallerOf, Authenticate
  <2>2. r.token \in Spaced \union {Empty, None}
    BY <1>1, <1>5 DEF Received
  <2>3. r.token \notin {o.token : o \in Owners} \ Spaced
    BY <1>2, <2>2, EmptyIsNobodys
  <2> QED
    BY <1>3, <2>1, <2>3
<1>6. CASE r.authorizations <= 1 /\ Received(r) # None
  <2>1. Received(r) = r.token /\ r.token \in Tokens
    BY <1>1, <1>6 DEF Received
  <2>2. CallerOf(r) = Authenticate(r.token)
    BY <1>6, <2>1 DEF CallerOf
  <2>3. CASE \E o \in Owners : o.token = r.token /\ Authenticate(r.token) = o.caller
    <3>1. PICK o \in Owners : o.token = r.token /\ Authenticate(r.token) = o.caller
      BY <2>3
    <3>2. o = [caller |-> o.caller, token |-> o.token]
      <4>1. CASE settings.access_policy_file = "set"
        <5>1. PICK c \in Range(policy) :
                o = [caller |-> Caller(c.id, c.operator), token |-> secrets[c.env]]
          BY <4>1 DEF Owners
        <5> QED
          BY <5>1
      <4>2. CASE settings.access_policy_file # "set"
        <5>1. PICK t \in {ApiToken} \ {None} :
                o = [caller |-> Caller("legacy-api-token", FALSE), token |-> t]
          BY <4>2 DEF Owners
        <5> QED
          BY <5>1
      <4> QED
        BY <4>1, <4>2
    <3>3. o.caller # None
      BY DEF Known
    <3> QED
      BY <2>2, <3>1, <3>2, <3>3
  <2>4. CASE r.token \notin {o.token : o \in Owners} /\ Authenticate(r.token) = None
    BY <2>2, <2>4
  <2> QED
    BY <2>1, <2>3, <2>4, TokenIsOwners
<1>7. r.authorizations > 1 \/ r.authorizations <= 1
  BY DEF Requests
<1> QED
  BY <1>4, <1>5, <1>6, <1>7

(* Each caller has its own token, and a request is served as the owner of  *)
(* the token it brings or, where no token is configured, as the local      *)
(* developer, and gets the operations of an operator only as one.          *)
THEOREM TokensNameTheirCallers == Spec => []TokenNamesItsCaller
<1>1. ASSUME Access, Answered
      PROVE  TokenNamesItsCaller
  <2> SUFFICES ASSUME stage = "serving"
               PROVE  TokenNamesItsCaller
    BY DEF TokenNamesItsCaller
  <2>1. Known
    BY <1>1 DEF Access
  <2>2. ASSUME NEW o \in Owners, NEW p \in Owners, o.token = p.token
        PROVE  o = p
    <3>1. Range(credentials) = Owners /\ Distinct
      BY <2>1 DEF Known
    <3>2. PICK i \in DOMAIN credentials, j \in DOMAIN credentials :
            o = credentials[i] /\ p = credentials[j]
      BY <3>1 DEF Range
    <3> QED
      BY <2>2, <3>1, <3>2 DEF Distinct
  <2>3. ASSUME request # None, request.path # "health"
        PROVE  /\ response.status = 200 =>
                    \/ [caller |-> response.caller, token |-> request.token] \in Owners
                    \/ Owners = {} /\ response.caller.id = "local-development"
               /\ response.status = 200 /\ request.path = "admin" => response.caller.operator
               /\ response.status = 401 => request.token \notin {o.token : o \in Owners} \ Spaced
    <3> DEFINE caller == CallerOf(request)
    <3>1. request \in Requests /\ response = Answer(request)
      BY <1>1, <2>3 DEF Answered
    <3>2. /\ caller # None =>
                \/ [caller |-> caller, token |-> request.token] \in Owners
                \/ Owners = {} /\ caller = Caller("local-development", FALSE)
          /\ caller = None => request.token \notin {o.token : o \in Owners} \ Spaced
      BY <2>1, <3>1, CallerIsOwner
    <3> HIDE DEF caller
    <3>3. CASE caller = None
      <4>1. response = Refusal(401)
        BY <2>3, <3>1, <3>3 DEF Answer, caller
      <4> QED
        BY <3>2, <3>3, <4>1 DEF Refusal
    <3>4. CASE caller # None /\ request.path = "admin" /\ ~caller.operator
      <4>1. response = Refusal(403)
        BY <3>1, <3>4 DEF Answer, caller
      <4> QED
        BY <4>1 DEF Refusal
    <3>5. CASE caller # None /\ ~(request.path = "admin" /\ ~caller.operator)
      <4>1. response = [status |-> 200, caller |-> caller]
        BY <2>3, <3>1, <3>5 DEF Answer, caller
      <4>2. request.path = "admin" => caller.operator
        BY <3>5
      <4>3. Caller("local-development", FALSE).id = "local-development"
        BY DEF Caller
      <4>4. response.caller = caller /\ response.status = 200
        BY <4>1
      <4>5. \/ [caller |-> response.caller, token |-> request.token] \in Owners
            \/ Owners = {} /\ response.caller.id = "local-development"
        BY <3>2, <3>5, <4>3, <4>4
      <4>6. request.path = "admin" => response.caller.operator
        BY <4>2, <4>4
      <4> QED
        BY <4>4, <4>5, <4>6
    <3> QED
      BY <3>3, <3>4, <3>5
  <2> QED
    BY <2>2, <2>3 DEF TokenNamesItsCaller
<1> QED
  BY <1>1, CallersInvariant, PTL
=============================================================================
