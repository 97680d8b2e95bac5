------------------------------- MODULE ApiService ------------------------------
(***************************************************************************)
(* Requests to the API's protected routes (main.py, routers/query.py,      *)
(* routers/docs.py, routers/admin.py) with the token check, the input      *)
(* check and the audit rows around them, over the process of StartUp and   *)
(* the tokens of Tokens.  What the agent does is the subject of AgentLoop. *)
(***************************************************************************)
EXTENDS Tokens

CONSTANTS
  Requests,
  Routes,       (* a subset of DOMAIN Needs                                *)
  Nobody        (* no user                                                 *)

VARIABLES
  auditable,    (* can record's INSERT succeed: is there an audit_log with *)
                (* the columns it names?                                   *)
  stage,        (* of each request                                         *)
  route, bearer,  (* "none" and NoBearer for one that is idle              *)
  row           (* the status of its row in audit_log, or "none"           *)

requestVars == <<stage, route, bearer, row>>
vars == <<startUpVars, tokenVars, auditable, requestVars>>

(* The scope each route requires; "scores" takes any access token.         *)
Needs == [query |-> "query:read", chat |-> "query:read", docs |-> "docs:executive",
          erase |-> "admin:all", scores |-> "none"]

ASSUME ServiceAssumption == Routes \subseteq DOMAIN Needs /\ Nobody \notin Users

NoBearer == [sub |-> Nobody, role |-> "none", type |-> "none", key |-> NoKey, left |-> 0]
BadToken == [NoBearer EXCEPT !.type = "bad"]

Allows(t, scope) == scope = "none" \/ scope \in SCOPE_MAP[t.role]

Init ==
  /\ StartUpInit /\ TokensInit
  /\ auditable \in BOOLEAN
  /\ stage = [r \in Requests |-> "idle"]
  /\ route = [r \in Requests |-> "none"]
  /\ bearer = [r \in Requests |-> NoBearer]
  /\ row = [r \in Requests |-> "none"]

Goto(r, s) == stage' = [stage EXCEPT ![r] = s]
Frame      == UNCHANGED <<startUpVars, tokenVars, auditable>>

(* record, which never raises.                                             *)
Row(r, status) == row' = [row EXCEPT ![r] = IF auditable THEN status ELSE @]

-----------------------------------------------------------------------------
(* A request, with a token its client holds, an invalid one, or none.      *)
Arrive(r) ==
  /\ phase = "up" /\ stage[r] = "idle"
  /\ \E p \in Routes : route' = [route EXCEPT ![r] = p]
  /\ \E t \in tokens \cup {NoBearer, BadToken} : bearer' = [bearer EXCEPT ![r] = t]
  /\ Goto(r, "auth")
  /\ UNCHANGED row /\ Frame

(* HTTPBearer, verify_token and require_scope.  With no JWT_SECRET,        *)
(* verify_token raises KeyError.                                           *)
NoHeader(r) ==
  /\ stage[r] = "auth" /\ bearer[r] = NoBearer
  /\ Goto(r, "forbidden")
  /\ UNCHANGED <<route, bearer, row>> /\ Frame

KeyMissing(r) ==
  /\ stage[r] = "auth" /\ bearer[r] # NoBearer /\ SigningKey = NoKey
  /\ Goto(r, "failed")
  /\ UNCHANGED <<route, bearer, row>> /\ Frame

Unauthorized(r) ==
  /\ stage[r] = "auth" /\ bearer[r] # NoBearer /\ SigningKey # NoKey
  /\ ~VerifyToken(bearer[r])
  /\ Goto(r, "unauthorized")
  /\ UNCHANGED <<route, bearer, row>> /\ Frame

RequireScope(r) ==
  /\ stage[r] = "auth" /\ SigningKey # NoKey
  /\ VerifyToken(bearer[r])
  /\ Goto(r, IF Allows(bearer[r], Needs[route[r]]) THEN "granted" ELSE "forbidden")
  /\ UNCHANGED <<route, bearer, row>> /\ Frame

(* forbidden_handler verifies the token a second time.                     *)
Forbidden(r) ==
  /\ stage[r] = "forbidden"
  /\ IF VerifyToken(bearer[r]) THEN Row(r, "denied") ELSE row' = row
  /\ Goto(r, "refused")
  /\ UNCHANGED <<route, bearer>> /\ Frame

(* The limit of the route's decorator; /admin and the scores have none.    *)
Limited(r) ==
  /\ stage[r] = "granted" /\ route[r] \in {"query", "chat", "docs"}
  /\ Goto(r, "limited")
  /\ UNCHANGED <<route, bearer, row>> /\ Frame

-----------------------------------------------------------------------------
(* The handlers.  validate_query refuses a question, or api_chat one that  *)
(* is empty once the HTML is gone.                                         *)
Refuse(r) ==
  /\ stage[r] = "granted" /\ route[r] \in {"query", "chat"}
  /\ IF route[r] = "query" THEN Row(r, "error") ELSE row' = row
  /\ Goto(r, "invalid")
  /\ UNCHANGED <<route, bearer>> /\ Frame

(* Slip: the success is recorded before the agent has run.                 *)
AskAndRecord(r) ==
  /\ stage[r] = "granted" /\ route[r] \in {"query", "chat"}
  /\ IF route[r] = "query" THEN Row(r, "success") ELSE row' = row
  /\ Goto(r, "agent")
  /\ UNCHANGED <<route, bearer>> /\ Frame

Ask(r) ==
  /\ stage[r] = "granted" /\ route[r] \in {"query", "chat"}
  /\ Goto(r, "agent")
  /\ UNCHANGED <<route, bearer, row>> /\ Frame

AgentFails(r) ==
  /\ stage[r] = "agent"
  /\ Goto(r, "failed")
  /\ UNCHANGED <<route, bearer, row>> /\ Frame

(* The row is written before the response is made of the answer, which may *)
(* hold what cannot be.                                                    *)
AgentAnswers(r) ==
  /\ stage[r] = "agent"
  /\ IF route[r] = "query" THEN Row(r, "success") ELSE row' = row
  /\ Goto(r, "answered") \/ Goto(r, "unsent")
  /\ UNCHANGED <<route, bearer>> /\ Frame

(* executive_docs answers with the path; get_rag_scores reads only.        *)
ShowDocs(r) ==
  /\ stage[r] = "granted" /\ route[r] = "docs"
  /\ Goto(r, "answered")
  /\ UNCHANGED <<route, bearer, row>> /\ Frame

ShowScores(r) ==
  /\ stage[r] = "granted" /\ route[r] = "scores"
  /\ Goto(r, "answered")
  /\ UNCHANGED <<route, bearer, row>> /\ Frame

(* erase_user_data looks for app.state.db only: there is none with         *)
(* PostgreSQL, and DuckDB's execute cannot be awaited.                     *)
Erase(r) ==
  /\ stage[r] = "granted" /\ route[r] = "erase"
  /\ Goto(r, IF backend = "postgres" THEN "answered" ELSE "failed")
  /\ UNCHANGED <<route, bearer, row>> /\ Frame

Outcomes == {"answered", "unsent", "invalid", "failed", "refused", "unauthorized", "limited"}

(* The response is sent, and the client may ask again.                     *)
Respond(r) ==
  /\ stage[r] \in Outcomes
  /\ Goto(r, "idle")
  /\ route' = [route EXCEPT ![r] = "none"]
  /\ bearer' = [bearer EXCEPT ![r] = NoBearer]
  /\ row' = [row EXCEPT ![r] = "none"]
  /\ Frame

Serve(r) ==
  \/ Arrive(r) \/ NoHeader(r) \/ KeyMissing(r) \/ Unauthorized(r) \/ RequireScope(r)
  \/ Forbidden(r) \/ Limited(r) \/ Refuse(r) \/ Ask(r) \/ AgentFails(r) \/ AgentAnswers(r)
  \/ ShowDocs(r) \/ ShowScores(r) \/ Erase(r) \/ Respond(r)

-----------------------------------------------------------------------------
Start ==
  /\ StartUpStep
  /\ IF phase = "down" THEN ReadAccounts ELSE role' = role
  /\ UNCHANGED <<tokens, idle, auditable, requestVars>>

Stop ==
  /\ Stops
  /\ stage' = [r \in Requests |-> "idle"]
  /\ route' = [r \in Requests |-> "none"]
  /\ bearer' = [r \in Requests |-> NoBearer]
  /\ row' = [r \in Requests |-> "none"]
  /\ UNCHANGED <<tokenVars, auditable>>

Operate ==
  /\ Operator
  /\ UNCHANGED <<tokenVars, auditable, requestVars>>

Authenticate ==
  /\ (\E u \in Users : Login(u)) \/ (\E t \in tokens : Refresh(t))
  /\ UNCHANGED <<auditable, requestVars>>

Tick ==
  /\ TokensTick
  /\ bearer' = [r \in Requests |-> Aged(bearer[r])]
  /\ UNCHANGED <<startUpVars, auditable, stage, route, row>>

Next == Start \/ Stop \/ Operate \/ Authenticate \/ Tick \/ \E r \in Requests : Serve(r)

Spec == Init /\ [][Next]_vars

-----------------------------------------------------------------------------
(* Whoever is let through under a role was issued a token for it, under    *)
(* the present key, less than ACCESS_EXPIRE ago; and but for a login with  *)
(* an account of that role, tokens are issued for a role only to those who *)
(* were issued some under the same key less than REFRESH_EXPIRE ago: a     *)
(* session that was broken off, a role that was taken away and not kept    *)
(* up, or a change of the key cannot be got around (jwt_handler.py:91-94). *)
GrantsAreFresh ==
  [][/\ \A r \in Requests :
          stage[r] = "auth" /\ stage'[r] = "granted" =>
            /\ Needs[route[r]] = "none" \/ Needs[route[r]] \in SCOPE_MAP[bearer[r].role]
            /\ idle[<<bearer[r].sub, bearer[r].role, SigningKey>>] < ACCESS_EXPIRE
     /\ \A who \in DOMAIN idle :
          idle'[who] < idle[who] => role[who[1]] = who[2] \/ idle[who] < REFRESH_EXPIRE]_vars

(* What the audit log says happened did happen, though a question the      *)
(* agent answered may be one whose response then failed; and when its      *)
(* table can take rows every answered or rejected question of /query has   *)
(* its row and so has every request a role was refused: only a refusal     *)
(* whose token expired, or whose key was changed, before the handler       *)
(* looked at it again has none (audit.py, query.py:31-56, main.py:260-274).*)
AuditTellsTruth ==
  \A r \in Requests :
    LET refused == /\ stage[r] = "refused" /\ bearer[r] # NoBearer
                   /\ Needs[route[r]] \notin SCOPE_MAP[bearer[r].role]
        asked   == route[r] = "query"
        given   == stage[r] \in {"answered", "unsent"}
    IN  /\ row[r] = "success" => asked /\ given
        /\ row[r] = "error" => asked /\ stage[r] = "invalid"
        /\ row[r] = "denied" => refused
        /\ auditable /\ asked /\ (given \/ stage[r] = "invalid") => row[r] # "none"
        /\ auditable /\ refused /\ source # "files" /\ VerifyToken(bearer[r]) =>
             row[r] = "denied"

(* An agent that works on DuckDB is told of the tables there are, all of   *)
(* them but those this start could not load, however many starts before    *)
(* were broken off in the middle; or it is told nothing, because the       *)
(* description failed (main.py:104-117).                                   *)
AgentKnowsItsTables ==
  backend = "duckdb" /\ (\E r \in Requests : stage[r] = "agent") =>
    /\ populated \cup left = AllTables /\ populated \cap left = {}
    /\ IF blind THEN schema = {} ELSE schema = populated
===============================================================================
