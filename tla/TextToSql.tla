------------------------------ MODULE TextToSql ------------------------------
(***************************************************************************)
(* From a question to rows: din_sql (pipeline/din_sql.py) asks a language  *)
(* model for SQL, in one call or in the four stages of DIN-SQL, sql_guard  *)
(* (pipeline/sql_guard.py) accepts or refuses what it wrote, and the       *)
(* query_sql branch of _dispatch_tool (agent.py) has the database run it.  *)
(*                                                                         *)
(* A text is a sequence of statements and the words of its comments; a     *)
(* statement has the type sqlglot gives it ("INVALID": it does not parse), *)
(* the tables it names and the words of its code.  Markdown fences and     *)
(* white space are left out.                                               *)
(***************************************************************************)
EXTENDS Naturals, Sequences, FiniteSets

CONSTANTS
  SqlTexts,     (* what the model may write                                *)
  FourStages    (* DIN_SQL_STAGES = "4", or a provider without single shot *)

AllowedTables  == {"movies", "viewers", "watch_activity", "reviews",
                   "marketing_spend", "regional_performance", "document_chunks"}
BannedKeywords == {"DROP", "DELETE", "INSERT", "UPDATE", "ALTER", "CREATE",
                   "TRUNCATE", "EXEC", "EXECUTE", "GRANT", "REVOKE", "COPY",
                   "VACUUM", "ANALYZE", "EXPLAIN", "SET", "RESET", "LOAD", "INSTALL"}
QueryTypes     == {"SELECT", "UNION"}
LlmTries       == 3
NoSql          == [code |-> <<>>, comment |-> {}]

ASSUME SqlAssumption ==
  /\ FourStages \in BOOLEAN
  /\ SqlTexts \subseteq
       [code : Seq([type : STRING, tables : SUBSET STRING, words : SUBSET STRING]),
        comment : SUBSET STRING]

VARIABLES
  backend,      (* DB_BACKEND                                              *)
  stage,        (* where din_sql or the execution stands                   *)
  tries,        (* attempts of the current call of the model               *)
  sql,          (* the last text the model wrote                           *)
  executed      (* every text the database was given to run                *)

sqlVars == <<backend, stage, tries, sql, executed>>

LlmStages == {"single", "link", "classify", "subquery", "assemble"}
SqlStages == LlmStages \cup {"idle", "guard", "execute", "rows", "sqlError", "raised"}

(* _strip_comments.                                                        *)
StripComments(t) == [code |-> t.code, comment |-> {}]

SqlTypeOK ==
  /\ backend \in {"duckdb", "postgres"}
  /\ stage \in SqlStages
  /\ tries \in 0 .. LlmTries - 1
  /\ sql \in SqlTexts \cup {NoSql}
  /\ executed \subseteq {StripComments(t) : t \in SqlTexts}

SqlInit ==
  /\ backend \in {"duckdb", "postgres"}
  /\ stage = "idle" /\ tries = 0
  /\ sql = NoSql
  /\ executed = {}

-----------------------------------------------------------------------------
(***************************************************************************)
(* sql_guard.  Comments are stripped first; what is left must be one       *)
(* statement without banned words, a query, of known tables only.          *)
(***************************************************************************)
Blank(t)        == t.code = <<>> /\ t.comment = {}
Words(t)        == t.comment \cup UNION {t.code[i].words : i \in DOMAIN t.code}
Parses(t)       == \A i \in DOMAIN t.code : t.code[i].type # "INVALID"

(* Slip: the check of the tables forgotten.                                *)
AnyTable(raw) ==
  LET t == StripComments(raw) IN
  /\ ~Blank(raw) /\ Words(t) \cap BannedKeywords = {} /\ Parses(t)
  /\ Len(t.code) = 1 /\ t.code[1].type \in QueryTypes

SqlGuard(raw) ==
  LET t == StripComments(raw) IN
  /\ ~Blank(raw)
  /\ Words(t) \cap BannedKeywords = {}
  /\ Parses(t)
  /\ Len(t.code) = 1
  /\ t.code[1].type \in QueryTypes
  /\ t.code[1].tables \subseteq AllowedTables

-----------------------------------------------------------------------------
(***************************************************************************)
(* din_sql.  Each stage is a call of the model; _call_llm tries again only *)
(* when the error reads like a rate limit, three attempts in all.          *)
(***************************************************************************)
StartSql ==
  /\ stage' = IF FourStages THEN "link" ELSE "single"
  /\ tries' = 0
  /\ UNCHANGED <<backend, sql, executed>>

NextStages(s) ==
  CASE s = "link"     -> {"classify"}
    [] s = "classify" -> {"subquery", "assemble"}
    [] s = "subquery" -> {"assemble"}
    [] OTHER          -> {"guard"}

LlmWrites ==
  /\ stage \in LlmStages
  /\ stage' \in NextStages(stage)
  /\ tries' = 0
  /\ IF stage \in {"single", "assemble"} THEN sql' \in SqlTexts ELSE sql' = sql
  /\ UNCHANGED <<backend, executed>>

LlmRateLimited ==
  /\ stage \in LlmStages
  /\ tries < LlmTries - 1
  /\ tries' = tries + 1
  /\ UNCHANGED <<backend, stage, sql, executed>>

LlmFails ==
  /\ stage \in LlmStages
  /\ stage' = "raised"
  /\ UNCHANGED <<backend, tries, sql, executed>>

Guard ==
  /\ stage = "guard"
  /\ stage' = IF SqlGuard(sql) THEN "execute" ELSE "raised"
  /\ UNCHANGED <<backend, tries, sql, executed>>

(***************************************************************************)
(* The execution.  DuckDB runs the text or reports an error.  An asyncpg   *)
(* pool has an execute method too, so it is taken for DuckDB: its execute  *)
(* gives a coroutine, which has no df(), and the text is never run.        *)
(***************************************************************************)
Execute ==
  /\ stage = "execute"
  /\ IF backend = "duckdb"
     THEN /\ executed' = executed \cup {StripComments(sql)}
          /\ stage' \in {"rows", "sqlError"}
     ELSE /\ executed' = executed
          /\ stage' = "sqlError"
  /\ UNCHANGED <<backend, tries, sql>>

SqlStep == LlmWrites \/ LlmRateLimited \/ LlmFails \/ Guard \/ Execute

=============================================================================
