---------------------------- MODULE ReaderPolicy ----------------------------
(***************************************************************************)
(* What a reader's connection and a reader's session have to be            *)
(* (source_catalog/reader_policy.py).  The catalog reader and the executor *)
(* ask both questions before they read anything.                           *)
(***************************************************************************)
EXTENDS Naturals

(* A connection as libpq and its start-up parameters describe it.          *)
Connections == [version : {17, 18, 19}, utf8 : BOOLEAN, tls : BOOLEAN]

ConnectionMatches(connection, sslmode) ==
    /\ connection.version = 18 /\ connection.utf8
    /\ sslmode \in {"disable", "require", "verify-full"}
    /\ connection.tls = (sslmode # "disable")

(* The columns of the one row of _READER_SESSION_POLICY_QUERY.             *)
SessionFacts ==
    {"database", "user", "read_only", "repeatable_read", "utc_timezone", "defaults_read_only",
     "restricted_role", "no_create_privilege", "work_mem", "temp_file_limit",
     "parallel_workers", "jit", "search_path", "row_security", "tenant", "client_certificate"}

(* The facts that hold; none if there is no row, that is no such role.     *)
Sessions == {SessionFacts, {}} \union {SessionFacts \ {f} : f \in SessionFacts}

SessionMatches(session) == session = SessionFacts
=============================================================================
