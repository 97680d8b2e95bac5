-------------------------------- MODULE StartUp --------------------------------
(***************************************************************************)
(* The life of the API process: lifespan in main.py with what it calls in  *)
(* auth/vault_client.py, pipeline/db.py and pipeline/schema.py.  A start   *)
(* finds the signing secret, connects the database, loads into DuckDB what *)
(* is not loaded yet and describes the tables for the agent's prompts; the *)
(* process may end at any step and is started again.  What starts besides  *)
(* (prompt registry, few-shot examples, Phoenix, the watchdog) is left out.*)
(***************************************************************************)
EXTENDS Naturals, Sequences, SequencesExt

CONSTANTS
  Tables,       (* the tables of _ensure_duckdb_data, in its order         *)
  Secrets, DevSecret, EmptySecret,
  NoKey,
  Sources,      (* where JWT_SECRET is: "env", "vault", "none", or "files" *)
                (* of keys (RS256), read at every use                      *)
  Backends      (* DB_BACKEND                                              *)

ASSUME StartUpAssumption ==
  /\ Tables \in Seq(ToSet(Tables)) /\ IsInjective(Tables)
  /\ {DevSecret, EmptySecret} \subseteq Secrets /\ NoKey \notin Secrets
  /\ Sources \subseteq {"env", "vault", "none", "files"}
  /\ Backends \subseteq {"duckdb", "postgres"}

VARIABLES
  source, backend,        (* the deployment                                *)
  secret,                 (* what is in the environment, Vault or files    *)
  csvs,                   (* tables whose CSV file is there                *)
  populated,              (* tables with rows in the DuckDB file           *)
  phase,                  (* of the process                                *)
  key,                    (* its JWT_SECRET                                *)
  todo,                   (* tables not yet looked at                      *)
  schema,                 (* tables in schema_ddl                          *)
  left, blind             (* history: tables this start could not load,    *)
                          (* and whether it could not describe them        *)

deployment  == <<source, backend>>
startUpVars == <<deployment, secret, csvs, populated, phase, key, todo, schema, left, blind>>

AllTables == ToSet(Tables)

StartUpInit ==
  /\ source \in Sources /\ backend \in Backends
  /\ secret \in Secrets \ {DevSecret, EmptySecret}
  /\ csvs \in {{}, AllTables} /\ populated = {}
  /\ phase = "down" /\ key = NoKey
  /\ todo = <<>> /\ schema = {} /\ left = {} /\ blind = FALSE

(* What JWT_SECRET may be after the secrets were loaded: os.environ's wins *)
(* over Vault's; without either there is none, a Vault that does not have  *)
(* it gives the empty string, and without a Vault it is the development    *)
(* secret.                                                                 *)
Found == [env |-> {secret}, vault |-> {secret, EmptySecret, NoKey}, none |-> {DevSecret},
          files |-> {NoKey}]

LoadSecrets ==
  /\ phase = "down" /\ phase' = "connect"
  /\ key' \in Found[source]
  /\ UNCHANGED <<deployment, secret, csvs, populated, todo, schema, left, blind>>

(* get_db_connection or create_async_pool; that either fails is Stops.     *)
ConnectDuckDb ==
  /\ phase = "connect" /\ backend = "duckdb"
  /\ phase' = "load" /\ todo' = Tables
  /\ UNCHANGED <<deployment, secret, csvs, populated, key, schema, left, blind>>

ConnectPostgres ==
  /\ phase = "connect" /\ backend = "postgres"
  /\ phase' = "schema"
  /\ UNCHANGED <<deployment, secret, csvs, populated, key, todo, schema, left, blind>>

(* _ensure_duckdb_data, one table: CREATE OR REPLACE TABLE AS is one       *)
(* transaction, and its error only logged.                                 *)
SkipTable ==
  /\ phase = "load" /\ todo # <<>>
  /\ Head(todo) \notin csvs \/ Head(todo) \in populated
  /\ left' = IF Head(todo) \in populated THEN left ELSE left \cup {Head(todo)}
  /\ todo' = Tail(todo)
  /\ UNCHANGED <<deployment, secret, csvs, populated, phase, key, schema, blind>>

LoadTable ==
  /\ phase = "load" /\ todo # <<>>
  /\ Head(todo) \in csvs \ populated
  /\ \/ populated' = populated \cup {Head(todo)} /\ left' = left
     \/ populated' = populated /\ left' = left \cup {Head(todo)}
  /\ todo' = Tail(todo)
  /\ UNCHANGED <<deployment, secret, csvs, phase, key, schema, blind>>

(* Slip: the schema is computed before the data is loaded.                 *)
ComputeSchemaEarly ==
  /\ phase \in {"load", "schema"}
  /\ schema' = (IF backend = "duckdb" THEN populated ELSE {})
  /\ blind' = (backend = "postgres")
  /\ phase' = "up"
  /\ UNCHANGED <<deployment, secret, csvs, populated, key, todo, left>>

(* get_schema_ddl on a connection of its own.  psycopg2's connections have *)
(* no execute, so that nothing is ever described on PostgreSQL.            *)
ComputeSchema ==
  /\ phase \in {"load", "schema"} /\ todo = <<>>
  /\ \/ backend = "duckdb" /\ schema' = populated /\ blind' = FALSE
     \/ schema' = {} /\ blind' = TRUE
  /\ phase' = "up"
  /\ UNCHANGED <<deployment, secret, csvs, populated, key, todo, left>>

(* The process ends: a start fails, lifespan shuts down, or it is killed.  *)
Stops ==
  /\ phase # "down" /\ phase' = "down"
  /\ key' = NoKey /\ todo' = <<>> /\ schema' = {} /\ left' = {} /\ blind' = FALSE
  /\ UNCHANGED <<deployment, secret, csvs, populated>>

(* The operator changes the secret, which a running process with           *)
(* JWT_SECRET does not see; the generator writes the CSV files.            *)
Rotate ==
  /\ source # "none" /\ secret' \in Secrets \ {secret, DevSecret, EmptySecret}
  /\ UNCHANGED <<deployment, csvs, populated, phase, key, todo, schema, left, blind>>

CsvsArrive ==
  /\ csvs = {} /\ csvs' = AllTables
  /\ UNCHANGED <<deployment, secret, populated, phase, key, todo, schema, left, blind>>

StartUpStep == \/ LoadSecrets \/ ConnectDuckDb \/ ConnectPostgres
               \/ SkipTable \/ LoadTable \/ ComputeSchema
Operator    == Rotate \/ CsvsArrive
===============================================================================
