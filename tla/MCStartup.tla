------------------------------ MODULE MCStartup ------------------------------
(* An instance of Startup small enough for TLC: each file is valid or has  *)
(* one defect, each variable is absent or has one value of each kind.      *)
EXTENDS Startup

CONSTANTS T1, T2, Short, Long, WithSpace, Garbled

MCTokens == {T1, T2, Short, Long, WithSpace, Empty}

MCLength ==
    [t \in MCTokens |-> CASE t = Short -> 31 [] t = Long -> 513 [] t = T1 -> 32 [] t = T2 -> 512
                          [] t = WithSpace -> 40 [] OTHER -> 0]

MCSpaced == {WithSpace}

MCPolicies ==
    LET c(id, env, operator) == [id |-> id, env |-> env, operator |-> operator]
    IN {<<>>, <<c("a", "A", TRUE)>>, <<c("a", "A", FALSE), c("b", "B", TRUE)>>,
        <<c("a", "A", FALSE), c("a", "B", TRUE)>>, <<c("a", "A", FALSE), c("b", "A", TRUE)>>}

MCEnvironments ==
    [host : {None, "padded", "list", "blank", "socket"}, port : {None}, password : {"given"}]
    \union [host : {None}, port : {1, 65535, 0, 65536, Garbled}, password : {"given"}]
    \union [host : {None}, port : {None}, password : {None, "empty"}]

MCHosts == {"plain", "padded", "list", "blank", "socket"}

MCUsableHosts == {"plain", "list"}

MCDatabases ==
    [host : {"plain", "blank", "socket"}, port : {5432}, sslmode : {"disable"}, authentication : {"password"}]
    \union [host : {"plain"}, port : {0, 65536}, sslmode : {"require"}, authentication : {"password"}]
    \union [host : {"plain"}, port : {5432}, sslmode : {"require", "verify-full"}, authentication : {"client-certificate"}]

MCBudgets == {[pool |-> 2, concurrent |-> 2], [pool |-> 2, concurrent |-> 3], [pool |-> 21, concurrent |-> 2], [pool |-> 2, concurrent |-> 0]}

Good ==
    [entry |-> "directory", files |-> "exact", manifest |-> TRUE, named_like_directory |-> TRUE,
     references_sibling |-> TRUE, known_budget |-> TRUE, known_database |-> TRUE, schemas |-> "allowed",
     environment |-> "test"]

MCPackages ==
    {Good, [Good EXCEPT !.environment = "production"], [Good EXCEPT !.entry = "symlink"], [Good EXCEPT !.entry = "file"],
     [Good EXCEPT !.files = "extra"], [Good EXCEPT !.manifest = FALSE], [Good EXCEPT !.named_like_directory = FALSE],
     [Good EXCEPT !.references_sibling = FALSE], [Good EXCEPT !.known_budget = FALSE],
     [Good EXCEPT !.known_database = FALSE], [Good EXCEPT !.schemas = "system"], [Good EXCEPT !.schemas = "duplicate"]}
=============================================================================
