----------------------------- MODULE MCApiService -----------------------------
(* One user whose role changes between starts, two secrets besides the     *)
(* development and the empty one, two tables.                              *)
EXTENDS ApiService

MCTables   == <<"movies", "reviews">>
MCSources  == {"env", "vault", "none", "files"}
MCBackends == {"duckdb", "postgres"}
MCRoles    == {"viewer", "admin"}
MCRoutes   == {"query", "chat", "docs", "erase", "scores"}
=============================================================================
