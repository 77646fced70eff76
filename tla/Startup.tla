------------------------------- MODULE Startup -------------------------------
(***************************************************************************)
(* From the process's environment to the first request: the settings       *)
(* (runtime/config.py), the source inventory (source_catalog/registry.py), *)
(* the callers (delivery/access.py) in the order of build_app, and then    *)
(* who each request is taken for (delivery/app.py).  All of it happens     *)
(* before Runtime's lifespan, with nothing concurrent; an error at any     *)
(* point ends the process.                                                 *)
(*                                                                         *)
(* Files are read when a step needs them: what they hold is chosen there.  *)
(***************************************************************************)
EXTENDS Naturals, FiniteSetsExt, SequencesExt

CONSTANTS
    Names,         \* names of source directories, as numbers in their order
    Tokens,        \* values a token setting or a header may have
    Length,        \* the length of each
    Spaced,        \* those with white space in them
    Empty,         \* the empty one
    Policies,      \* access policy files: sequences of [id, env, operator]; <<>> is an invalid file
    Environments,  \* [host, port, password] the environment gives, each may be None
    Hosts,         \* forms of a host
    UsableHosts,   \* host names or addresses, or lists of them
    Databases,     \* database profiles
    Budgets,       \* budget profiles: [pool, concurrent]
    Packages,      \* source directories
    None

ASSUME StartupAssumption ==
    /\ Length \in [Tokens -> Nat] /\ Empty \in Tokens /\ Length[Empty] = 0
    /\ Spaced \subseteq Tokens /\ UsableHosts \subseteq Hosts
    /\ \A d \in Databases :
        /\ d.host \in Hosts /\ d.port \in Nat
        /\ d.sslmode \in {"disable", "require", "verify-full"}
        /\ d.authentication \in {"password", "client-certificate"}

Caller(id, operator) == [id |-> id, operator |-> operator]

ASSUME NamesAssumption == Names \subseteq Nat
ASSUME PolicyAssumption == \A p \in Policies : p \in Seq(Range(p))
ASSUME NoneAssumption ==
    /\ None \notin Tokens
    /\ None \notin {Caller("legacy-api-token", FALSE), Caller("local-development", FALSE)}
    /\ \A p \in Policies : \A c \in Range(p) : None # Caller(c.id, c.operator)

VARIABLES
    stage,         \* what is read next; serving or failed at the end
    settings,      \* the settings of load_runtime_config
    environment,   \* the variables that profiles name
    secrets,       \* the variables that the access policy names
    budget,
    database,      \* the one profile of each file
    listing,       \* history: the source directories
    left,          \* those still to be loaded
    sources,       \* those loaded, as the list in SourceRegistry.load
    registry,      \* the registry that build_app has; empty before it exists
    policy,        \* the callers of the access policy
    credentials,   \* AccessPolicy._credentials
    anonymous,     \* AccessPolicy._anonymous
    request,
    response

inventoryVars == <<environment, budget, database, listing, left, sources, registry>>
accessVars == <<secrets, policy, credentials, anonymous>>
requestVars == <<request, response>>
vars == <<stage, settings, inventoryVars, accessVars, requestVars>>

Settings ==
    [loopback : BOOLEAN, api_token : Tokens \union {None}, access_policy_file : {"unset", "empty", "set"},
     others : {"valid", "invalid", "retired"}]

Init ==
    /\ stage = "settings" /\ settings \in Settings /\ environment \in Environments
    /\ secrets = <<>> /\ budget = None /\ database = None
    /\ listing = {} /\ left = {} /\ sources = <<>> /\ registry = <<>>
    /\ policy = <<>> /\ credentials = <<>> /\ anonymous = None
    /\ request = None /\ response = None

-----------------------------------------------------------------------------
(* Settings.                                                               *)
TokenLength(t) == Length[t] \in 32..512

(* An API token that is empty is dropped; an empty file name is not.       *)
ApiToken == IF settings.api_token = Empty THEN None ELSE settings.api_token

SettingsRefused ==
    \/ settings.others # "valid"
    \/ ApiToken # None /\ ~TokenLength(ApiToken)
    \/ ApiToken # None /\ settings.access_policy_file # "unset"
    \/ ~settings.loopback /\ ApiToken = None /\ settings.access_policy_file = "unset"

Configure ==
    /\ stage = "settings"
    /\ stage' = IF SettingsRefused THEN "failed" ELSE "profiles"
    /\ UNCHANGED <<settings, inventoryVars, accessVars, requestVars>>

-----------------------------------------------------------------------------
(* The inventory.                                                          *)
Ports == 1..65535

BudgetRefused(b) == ~(b.pool \in 1..20 /\ b.concurrent \in 1..20 /\ b.concurrent <= b.pool)

DatabaseRefused(d) ==
    \/ d.port \notin Ports \/ d.host = "blank"
    \/ d.authentication = "client-certificate" /\ d.sslmode # "verify-full"

ReadProfiles ==
    /\ stage = "profiles"
    /\ budget' \in Budgets /\ database' \in Databases /\ listing' \in SUBSET Names
    /\ left' = listing'
    /\ stage' = IF BudgetRefused(budget') \/ DatabaseRefused(database') \/ listing' = {}
                  THEN "failed" ELSE "sources"
    /\ UNCHANGED <<settings, environment, sources, registry, accessVars, requestVars>>

(* A directory with exactly its two files, a valid manifest of that name   *)
(* that references the views beside it.                                    *)
PackageRefused(p) ==
    \/ p.entry # "directory" \/ p.files # "exact" \/ ~p.manifest
    \/ ~p.named_like_directory \/ ~p.references_sibling

(* An override is stripped of the white space around it.                   *)
Host ==
    CASE environment.host = None -> database.host
      [] environment.host = "padded" -> "plain"
      [] OTHER -> environment.host

Port == IF environment.port = None THEN database.port ELSE environment.port

PortRefused_OfProfile ==  \* variant: an override of the port is taken as it is
    database.port \notin Ports

PortRefused == Port \notin Ports

(* _resolve_source: a password is for test sources only, and not empty.    *)
SourceRefused(p) ==
    \/ ~p.known_budget \/ ~p.known_database
    \/ Host \notin UsableHosts \/ PortRefused
    \/ p.schemas # "allowed"
    \/ database.authentication = "password" /\ (p.environment # "test" \/ environment.password \in {None, "empty"})

Resolved(p) ==
    [host |-> Host, port |-> Port, sslmode |-> database.sslmode, authentication |-> database.authentication,
     budget |-> budget, schemas |-> p.schemas, environment |-> p.environment]

(* The registry exists when the last package is in: all or none.           *)
LoadSource ==
    /\ stage = "sources" /\ left # {}
    /\ \E p \in Packages :
        IF PackageRefused(p) \/ SourceRefused(p)
          THEN stage' = "failed" /\ UNCHANGED <<left, sources>>
          ELSE /\ left' = left \ {Min(left)}
               /\ sources' = Append(sources, <<Min(left), Resolved(p)>>)
               /\ UNCHANGED stage
    /\ UNCHANGED <<settings, environment, budget, database, listing, registry, accessVars, requestVars>>

BuildRegistry ==
    /\ stage = "sources" /\ left = {}
    /\ registry' = [n \in {s[1] : s \in Range(sources)} |-> (CHOOSE s \in Range(sources) : s[1] = n)[2]]
    /\ stage' = "access"
    /\ UNCHANGED <<settings, environment, budget, database, listing, left, sources, accessVars, requestVars>>

-----------------------------------------------------------------------------
(* The callers.                                                            *)
Unique(callers) ==
    \A i, j \in DOMAIN callers : i # j => callers[i].id # callers[j].id /\ callers[i].env # callers[j].env

ReadPolicy ==
    /\ stage = "access" /\ settings.access_policy_file = "set"
    /\ policy' \in Policies
    /\ secrets' \in [{c.env : c \in Range(policy')} -> Tokens]
    /\ stage' = IF policy' # <<>> /\ Unique(policy') THEN "callers" ELSE "failed"
    /\ UNCHANGED <<settings, inventoryVars, credentials, anonymous, requestVars>>

SecretRefused_Repeated(t) ==  \* variant: two callers may have the same token
    ~TokenLength(t)

SecretRefused(t) == ~TokenLength(t) \/ \E c \in Range(credentials) : c.token = t

(* The callers in their order, each with the token its variable holds.     *)
LoadCaller ==
    /\ stage = "callers"
    /\ IF Len(credentials) = Len(policy) THEN stage' = "serving" /\ UNCHANGED credentials
       ELSE LET c == policy[Len(credentials) + 1] IN
            IF SecretRefused(secrets[c.env]) THEN stage' = "failed" /\ UNCHANGED credentials
            ELSE /\ credentials' = Append(credentials,
                        [token |-> secrets[c.env], caller |-> Caller(c.id, c.operator)])
                 /\ UNCHANGED stage
    /\ UNCHANGED <<settings, inventoryVars, secrets, policy, anonymous, requestVars>>

(* Without a policy: the one token's caller, or anyone.  Neither is an     *)
(* operator.                                                               *)
DefaultPolicy ==
    /\ stage = "access" /\ settings.access_policy_file # "set"
    /\ stage' = "serving"
    /\ IF ApiToken # None
         THEN /\ credentials' = <<[token |-> ApiToken, caller |-> Caller("legacy-api-token", FALSE)]>>
              /\ UNCHANGED anonymous
         ELSE anonymous' = Caller("local-development", FALSE) /\ UNCHANGED credentials
    /\ UNCHANGED <<settings, inventoryVars, secrets, policy, requestVars>>

-----------------------------------------------------------------------------
(* Requests.  The token is None if the header has another scheme.          *)
Requests ==
    {r \in [authorizations : 0..2, token : Tokens \union {None}, path : {"health", "query", "admin"}] :
        r.authorizations # 1 => r.token = None}

(* _bearer_token of the only header.                                       *)
Received(r) == IF r.authorizations = 1 /\ r.token \notin Spaced \union {Empty} THEN r.token ELSE None

Authenticate(token) ==
    LET matching == {i \in DOMAIN credentials : credentials[i].token = token}
    IN CASE token = None -> anonymous
         [] token # None /\ (~TokenLength(token) \/ matching = {}) -> None
         [] OTHER -> credentials[Max(matching)].caller

(* More than one header is nobody's.                                       *)
CallerOf(r) == IF r.authorizations <= 1 THEN Authenticate(Received(r)) ELSE None

Refusal(status) == [status |-> status, caller |-> None]

(* What the request gets: only the operations need an operator.            *)
Answer(r) ==
    LET caller == CallerOf(r) IN
    CASE r.path = "health" -> Refusal(200)
      [] r.path # "health" /\ caller = None -> Refusal(401)
      [] r.path = "admin" /\ caller # None /\ ~caller.operator -> Refusal(403)
      [] OTHER -> [status |-> 200, caller |-> caller]

Serve ==
    /\ stage = "serving"
    /\ request' \in Requests
    /\ response' = Answer(request')
    /\ UNCHANGED <<stage, settings, inventoryVars, accessVars>>

Next ==
    \/ Configure \/ ReadProfiles \/ LoadSource \/ BuildRegistry
    \/ ReadPolicy \/ LoadCaller \/ DefaultPolicy \/ Serve

Spec == Init /\ [][Next]_vars

-----------------------------------------------------------------------------
(* Correctness.                                                            *)

(* A source as the other modules take it for.                              *)
Safe(s) ==
    /\ s.host \in UsableHosts /\ s.port \in Ports /\ s.schemas = "allowed"
    /\ s.budget.concurrent \in 1..s.budget.pool
    /\ s.authentication = "password" => s.environment = "test"
    /\ s.authentication # "password" => s.sslmode = "verify-full"

(* docs/modules/source-catalog/README.md: the inventory is every directory *)
(* or there is no service, and each of its sources is what the other       *)
(* modules take it for: reachable at a real address whatever the           *)
(* environment overrides, with certificates checked and passwords only     *)
(* under test, with a pool that holds all queries that may run.            *)
InventoryIsWhole ==
    stage \in {"access", "callers", "serving"} =>
        /\ DOMAIN registry = listing /\ listing # {}
        /\ \A n \in listing : Safe(registry[n])

(* Who holds which token, as the settings and the policy say.              *)
Owners ==
    IF settings.access_policy_file = "set"
      THEN {[caller |-> Caller(c.id, c.operator), token |-> secrets[c.env]] : c \in Range(policy)}
      ELSE {[caller |-> Caller("legacy-api-token", FALSE), token |-> t] : t \in {ApiToken} \ {None}}

(* docs/modules/delivery/README.md: a token is one caller's, and a request *)
(* with that token, once, is served as that caller and for no more than it *)
(* may; any other is nobody's, unless no token is configured at all.  (A   *)
(* token with white space in it can be configured, but not received.)      *)
TokenNamesItsCaller ==
    stage = "serving" =>
        /\ \A o, p \in Owners : o.token = p.token => o = p
        /\ request # None /\ request.path # "health" =>
            /\ response.status = 200 =>
                \/ [caller |-> response.caller, token |-> request.token] \in Owners
                \/ Owners = {} /\ response.caller.id = "local-development"
            /\ response.status = 200 /\ request.path = "admin" => response.caller.operator
            /\ response.status = 401 => request.token \notin {o.token : o \in Owners} \ Spaced

(* docs/modules/delivery/README.md:19: a server on an address that is not  *)
(* loopback asks for a token, or its start fails.                          *)
NoAnonymousRemote ==
    request # None /\ request.path = "query" /\ request.token = None /\ response.status = 200 =>
        settings.loopback
=============================================================================
