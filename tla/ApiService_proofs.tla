-------------------------- MODULE ApiService_proofs --------------------------
(***************************************************************************)
(* Proofs about the requests to the API, for any number of requests and    *)
(* users, any tables, roles, secrets and lives of tokens, wherever the     *)
(* secret comes from and whenever the process ends.                        *)
(***************************************************************************)
EXTENDS ApiService, SequenceTheorems, TLAPS

RequestStages == {"idle", "auth", "forbidden", "granted", "agent"} \cup Outcomes
IssuedTokens  ==
  [sub : Users, role : Roles, type : {"access", "refresh"}, key : Secrets, left : Nat]
Bearers       == IssuedTokens \cup {NoBearer, BadToken}

RequestTypes ==
  /\ stage \in [Requests -> RequestStages]
  /\ route \in [Requests -> Routes \cup {"none"}]
  /\ bearer \in [Requests -> Bearers]
  /\ row \in [Requests -> {"none", "success", "error", "denied"}]

TokenTypes ==
  /\ source \in {"env", "vault", "none", "files"}
  /\ secret \in Secrets /\ key \in Secrets \cup {NoKey}
  /\ role \in [Users -> Roles] /\ tokens \subseteq IssuedTokens
  /\ idle \in [Users \X Roles \X Secrets -> 0 .. REFRESH_EXPIRE]

(* What the assumptions say of the constants, in single facts.             *)
LEMMA Constants ==
  /\ ACCESS_EXPIRE \in Nat \ {0} /\ REFRESH_EXPIRE \in Nat \ {0}
  /\ {DevSecret, EmptySecret} \subseteq Secrets /\ NoKey \notin Secrets /\ Nobody \notin Users
BY TokensAssumption, StartUpAssumption, ServiceAssumption

(* A request without a token, and one whose token is not one of ours.      *)
LEMMA NotOurs ==
  /\ NoBearer \notin IssuedTokens /\ BadToken \notin IssuedTokens
  /\ NoBearer.left = 0 /\ BadToken.left = 0
  /\ NoBearer.type = "none" /\ BadToken.type = "bad"
<1>1. NoBearer.left = 0 /\ NoBearer.type = "none" /\ NoBearer.sub = Nobody
  BY DEF NoBearer
<1>2. BadToken.left = 0 /\ BadToken.type = "bad" /\ BadToken.sub = Nobody
  BY Zenon DEF BadToken, NoBearer
<1>3. \A t \in IssuedTokens : t.sub \in Users
  BY DEF IssuedTokens
<1>4. QED
  BY <1>1, <1>2, <1>3, Constants

(* A unit of time makes an issued token no other, but older.               *)
LEMMA AgedToken ==
  ASSUME NEW t \in IssuedTokens
  PROVE  /\ Aged(t) \in IssuedTokens
         /\ Aged(t).sub = t.sub /\ Aged(t).role = t.role
         /\ Aged(t).type = t.type /\ Aged(t).key = t.key
         /\ Aged(t).left = IF t.left = 0 THEN 0 ELSE t.left - 1
<1>1. CASE t.left = 0
  BY <1>1 DEF Aged
<1>2. CASE t.left # 0
  <2>1. t.left \in Nat /\ t.left - 1 \in Nat
    BY <1>2 DEF IssuedTokens
  <2>2. Aged(t) = [t EXCEPT !.left = t.left - 1]
    BY <1>2 DEF Aged
  <2>3. [t EXCEPT !.left = t.left - 1] \in IssuedTokens
    BY <2>1, Zenon DEF IssuedTokens
  <2>4. /\ [t EXCEPT !.left = t.left - 1].left = t.left - 1
        /\ [t EXCEPT !.left = t.left - 1].sub = t.sub
        /\ [t EXCEPT !.left = t.left - 1].role = t.role
        /\ [t EXCEPT !.left = t.left - 1].type = t.type
        /\ [t EXCEPT !.left = t.left - 1].key = t.key
    BY Zenon DEF IssuedTokens
  <2>5. QED
    BY <1>2, <2>2, <2>3, <2>4
<1>3. QED
  BY <1>1, <1>2

(* The same of what a request may bear: it stays ours, or not ours.        *)
LEMMA AgedBearer ==
  ASSUME NEW t \in Bearers
  PROVE  /\ Aged(t) \in Bearers
         /\ Aged(t) = NoBearer <=> t = NoBearer
         /\ Aged(t).role = t.role /\ Aged(t).type = t.type /\ Aged(t).key = t.key
         /\ Aged(t).left > 0 => t.left > 0
         /\ t.left \in Nat
<1>1. CASE t \in IssuedTokens
  BY <1>1, AgedToken, NotOurs DEF Bearers, IssuedTokens
<1>2. CASE t \in {NoBearer, BadToken}
  <2>1. Aged(t) = t
    BY <1>2, NotOurs DEF Aged
  <2>2. QED
    BY <1>2, <2>1, NotOurs DEF Bearers
<1>3. QED
  BY <1>1, <1>2 DEF Bearers

-----------------------------------------------------------------------------
(***************************************************************************)
(* The start.  Until it is up, the tables of DuckDB are those that are     *)
(* populated, those this start could not load and those it has yet to look *)
(* at, which are none of the others: LoadInv(p, l, t) says so of the three.*)
(***************************************************************************)
LoadInv(p, l, t) ==
  /\ t \in Seq(AllTables) /\ IsInjective(t)
  /\ p \cup l \cup ToSet(t) = AllTables
  /\ l \cap (p \cup ToSet(t)) = {}

Loading ==
  /\ phase \in {"down", "connect", "load", "schema", "up"}
  /\ backend \in {"duckdb", "postgres"}
  /\ populated \subseteq AllTables
  /\ phase = "schema" => backend = "postgres"
  /\ phase = "load" => backend = "duckdb" /\ LoadInv(populated, left, todo)
  /\ phase \in {"down", "connect"} => left = {}
  /\ phase = "up" /\ backend = "duckdb" =>
       /\ LoadInv(populated, left, <<>>)
       /\ IF blind THEN schema = {} ELSE schema = populated

(* Taking the first of a sequence without repetitions.                     *)
LEMMA FirstTaken ==
  ASSUME NEW t \in Seq(AllTables), IsInjective(t), t # <<>>
  PROVE  /\ Tail(t) \in Seq(AllTables) /\ IsInjective(Tail(t))
         /\ Head(t) \in AllTables
         /\ ToSet(t) = {Head(t)} \cup ToSet(Tail(t)) /\ Head(t) \notin ToSet(Tail(t))
<1>1. /\ Tail(t) \in Seq(AllTables) /\ Head(t) \in AllTables /\ Head(t) = t[1]
      /\ Len(t) \in Nat /\ Len(t) >= 1 /\ Len(Tail(t)) = Len(t) - 1
      /\ \A i \in 1 .. Len(t) - 1 : Tail(t)[i] = t[i + 1]
  OBVIOUS
<1>2. DOMAIN t = 1 .. Len(t) /\ DOMAIN Tail(t) = 1 .. Len(t) - 1
  BY <1>1
<1>3. \A i, j \in 1 .. Len(t) : t[i] = t[j] => i = j
  BY <1>2 DEF IsInjective
<1>4. IsInjective(Tail(t))
  BY <1>1, <1>2, <1>3 DEF IsInjective
<1>5. Head(t) \notin ToSet(Tail(t))
  BY <1>1, <1>2, <1>3 DEF ToSet
<1>6. ToSet(t) \subseteq {Head(t)} \cup ToSet(Tail(t))
  <2> SUFFICES ASSUME NEW i \in 1 .. Len(t), i # 1 PROVE t[i] \in ToSet(Tail(t))
    BY <1>1, <1>2 DEF ToSet
  <2>1. i - 1 \in 1 .. Len(t) - 1 /\ t[i] = Tail(t)[i - 1]
    BY <1>1
  <2>2. QED
    BY <2>1, <1>2 DEF ToSet
<1>7. {Head(t)} \cup ToSet(Tail(t)) \subseteq ToSet(t)
  BY <1>1, <1>2 DEF ToSet
<1>8. QED
  BY <1>1, <1>4, <1>5, <1>6, <1>7

(* The first table goes to the populated ones or to those left behind.     *)
LEMMA TableDone ==
  ASSUME NEW p, NEW l, NEW t, LoadInv(p, l, t), t # <<>>
  PROVE  /\ Head(t) \in AllTables
         /\ Head(t) \in p => LoadInv(p, l, Tail(t))
         /\ LoadInv(p \cup {Head(t)}, l, Tail(t))
         /\ Head(t) \notin p => LoadInv(p, l \cup {Head(t)}, Tail(t))
<1>1. /\ Tail(t) \in Seq(AllTables) /\ IsInjective(Tail(t))
      /\ Head(t) \in AllTables
      /\ ToSet(t) = {Head(t)} \cup ToSet(Tail(t)) /\ Head(t) \notin ToSet(Tail(t))
  BY FirstTaken DEF LoadInv
<1> DEFINE h == Head(t)
           u == Tail(t)
           A == AllTables
<1>2. /\ p \cup l \cup ({h} \cup ToSet(u)) = A /\ l \cap (p \cup ({h} \cup ToSet(u))) = {}
      /\ h \notin ToSet(u) /\ u \in Seq(A) /\ IsInjective(u)
  BY <1>1 DEF LoadInv
<1>3. h \in p => LoadInv(p, l, u)
  <2> HIDE DEF h, u
  <2> QED
    BY <1>2 DEF LoadInv
<1>4. LoadInv(p \cup {h}, l, u)
  <2> HIDE DEF h, u
  <2> QED
    BY <1>2 DEF LoadInv
<1>5. h \notin p => LoadInv(p, l \cup {h}, u)
  <2> HIDE DEF h, u
  <2> QED
    BY <1>2 DEF LoadInv
<1>6. QED
  BY <1>1, <1>3, <1>4, <1>5

(* Nothing is loaded to begin with.                                        *)
LEMMA InitLoading == Init => Loading
  BY StartUpAssumption DEF Init, StartUpInit, Loading

(* Every step of the process and of its operator preserves Loading.        *)
LEMMA StepLoading == Loading /\ (StartUpStep \/ Stops \/ Operator) => Loading'
<1> SUFFICES ASSUME Loading, StartUpStep \/ Stops \/ Operator PROVE Loading'
  OBVIOUS
<1> USE DEF Loading, deployment
<1>1. CASE LoadSecrets
  BY <1>1 DEF LoadSecrets
<1>2. CASE ConnectDuckDb
  <2>1. LoadInv(populated, {}, Tables)
    BY StartUpAssumption DEF LoadInv, AllTables
  <2>2. QED
    BY <1>2, <2>1 DEF ConnectDuckDb
<1>3. CASE ConnectPostgres
  BY <1>3 DEF ConnectPostgres
<1>4. CASE SkipTable
  <2>1. LoadInv(populated, left, todo)
    BY <1>4 DEF SkipTable
  <2>2. LoadInv(populated', left', todo')
    BY <1>4, <2>1, TableDone DEF SkipTable
  <2>3. QED
    BY <1>4, <2>2 DEF SkipTable
<1>5. CASE LoadTable
  <2>1. LoadInv(populated, left, todo)
    BY <1>5 DEF LoadTable
  <2>2. /\ Head(todo) \in AllTables /\ Head(todo) \notin populated
        /\ LoadInv(populated \cup {Head(todo)}, left, Tail(todo))
        /\ LoadInv(populated, left \cup {Head(todo)}, Tail(todo))
    BY <1>5, <2>1, TableDone DEF LoadTable
  <2>3. LoadInv(populated', left', todo')
    BY <1>5, <2>2 DEF LoadTable
  <2>4. populated' \subseteq AllTables
    BY <1>5, <2>2 DEF LoadTable
  <2>5. QED
    BY <1>5, <2>3, <2>4 DEF LoadTable
<1>6. CASE ComputeSchema
  BY <1>6 DEF ComputeSchema
<1>7. CASE Stops
  BY <1>7 DEF Stops
<1>8. CASE Operator
  BY <1>8 DEF Operator, Rotate, CsvsArrive
<1>9. QED
  BY <1>1, <1>2, <1>3, <1>4, <1>5, <1>6, <1>7, <1>8 DEF StartUpStep

(* Requests, logins and time leave the tables alone.                       *)
LEMMA NextLoading == Loading /\ [Next]_vars => Loading'
<1> SUFFICES ASSUME Loading, [Next]_vars PROVE Loading'
  OBVIOUS
<1>1. CASE Start \/ Stop \/ Operate
  BY <1>1, StepLoading DEF Start, Stop, Operate
<1>2. ASSUME UNCHANGED startUpVars PROVE Loading'
  BY <1>2 DEF startUpVars, deployment, Loading
<1>3. CASE Authenticate
  BY <1>2, <1>3 DEF Authenticate, Login, Refresh
<1>4. CASE Tick
  BY <1>2, <1>4 DEF Tick
<1>5. ASSUME NEW r \in Requests, Serve(r) PROVE UNCHANGED startUpVars
  BY <1>5 DEF Serve, Arrive, NoHeader, KeyMissing, Unauthorized, RequireScope, Forbidden,
     Limited, Refuse, Ask, AgentFails, AgentAnswers, ShowDocs, ShowScores, Erase, Respond, Frame
<1>6. CASE UNCHANGED vars
  BY <1>2, <1>6 DEF vars
<1>7. QED
  BY <1>1, <1>2, <1>3, <1>4, <1>5, <1>6 DEF Next

(***************************************************************************)
(* Types are kept, and nothing is served by a process that is not up.      *)
(***************************************************************************)
Served == \A r \in Requests : stage[r] # "idle" => phase = "up"

ServiceInv == RequestTypes /\ TokenTypes /\ Served

(* Nothing is served to begin with.                                        *)
LEMMA InitServiceInv == Init => ServiceInv
<1> SUFFICES ASSUME Init PROVE ServiceInv
  OBVIOUS
<1>1. RequestTypes /\ Served
  BY DEF Init, RequestTypes, Served, RequestStages, Bearers
<1>2. TokenTypes
  BY Constants, StartUpAssumption DEF Init, StartUpInit, TokensInit, TokenTypes
<1>3. QED
  BY <1>1, <1>2 DEF ServiceInv

(* A request is served apart from the others, by a process that is up.     *)
LEMMA ServedApart ==
  ASSUME ServiceInv, NEW r \in Requests, Serve(r)
  PROVE  /\ phase = "up" /\ UNCHANGED <<startUpVars, tokenVars, auditable>>
         /\ RequestTypes'
         /\ \A q \in Requests \ {r} : /\ stage'[q] = stage[q] /\ route'[q] = route[q]
                                      /\ bearer'[q] = bearer[q] /\ row'[q] = row[q]
<1> USE DEF Goto, Row
<1>1. UNCHANGED <<startUpVars, tokenVars, auditable>>
  BY DEF Serve, Arrive, NoHeader, KeyMissing, Unauthorized, RequireScope, Forbidden,
     Limited, Refuse, Ask, AgentFails, AgentAnswers, ShowDocs, ShowScores, Erase, Respond, Frame
<1>2. \/ Arrive(r)
      \/ Respond(r)
      \/ /\ stage[r] # "idle" /\ UNCHANGED <<route, bearer>>
         /\ \E s \in RequestStages : Goto(r, s)
         /\ \E w \in {"success", "error", "denied", row[r]} : row' = [row EXCEPT ![r] = w]
  BY DEF ServiceInv, RequestTypes, RequestStages, Outcomes,
     Serve, NoHeader, KeyMissing, Unauthorized, RequireScope, Forbidden,
     Limited, Refuse, Ask, AgentFails, AgentAnswers, ShowDocs, ShowScores, Erase
<1>3. CASE Arrive(r)
  <2>1. PICK t \in tokens \cup {NoBearer, BadToken} : bearer' = [bearer EXCEPT ![r] = t]
    BY <1>3 DEF Arrive
  <2>2. t \in Bearers
    BY DEF ServiceInv, TokenTypes, Bearers
  <2>3. QED
    BY <1>1, <1>3, <2>1, <2>2 DEF Arrive, ServiceInv, RequestTypes, RequestStages
<1>4. CASE Respond(r)
  BY <1>1, <1>4 DEF Respond, ServiceInv, RequestTypes, RequestStages, Bearers, Outcomes, Served
<1>5. CASE /\ stage[r] # "idle" /\ UNCHANGED <<route, bearer>>
           /\ \E s \in RequestStages : Goto(r, s)
           /\ \E w \in {"success", "error", "denied", row[r]} : row' = [row EXCEPT ![r] = w]
  BY <1>1, <1>5 DEF ServiceInv, RequestTypes, Served
<1>6. QED
  BY <1>2, <1>3, <1>4, <1>5

(* Login and refresh: for a user, under the present key.                   *)
LEMMA TokensIssued ==
  ASSUME ServiceInv, Authenticate
  PROVE  \E u \in Users, r \in Roles :
           /\ SigningKey \in Secrets
           /\ Issued(u, r) \subseteq IssuedTokens
           /\ tokens' = tokens \cup Issued(u, r)
           /\ idle' = [idle EXCEPT ![<<u, r, SigningKey>>] = 0]
           /\ \/ r = role[u]
              \/ \E t \in tokens : VerifyRefreshToken(t) /\ t.sub = u /\ t.role = r
<1>1. SigningKey \in Secrets
  BY DEF Authenticate, Login, Refresh, SigningKey, ServiceInv, TokenTypes
<1>2. ASSUME NEW u \in Users, NEW r \in Roles PROVE Issued(u, r) \subseteq IssuedTokens
  BY <1>1, Constants DEF Issued, Token, IssuedTokens
<1>3. CASE \E u \in Users : Login(u)
  <2>1. PICK u \in Users : Login(u)
    BY <1>3
  <2>2. role[u] \in Roles
    BY DEF ServiceInv, TokenTypes
  <2>3. QED
    BY <1>1, <1>2, <2>1, <2>2 DEF Login, Issue
<1>4. CASE \E t \in tokens : Refresh(t)
  <2>1. PICK t \in tokens : Refresh(t)
    BY <1>4
  <2>2. t.sub \in Users /\ t.role \in Roles
    BY DEF ServiceInv, TokenTypes, IssuedTokens
  <2>3. QED
    BY <1>1, <1>2, <2>1, <2>2 DEF Refresh, Issue
<1>5. QED
  BY <1>3, <1>4 DEF Authenticate

(* Every step keeps the types, and serves only while the process is up.    *)
LEMMA NextServiceInv == ServiceInv /\ [Next]_vars => ServiceInv'
<1> SUFFICES ASSUME ServiceInv, [Next]_vars PROVE ServiceInv'
  OBVIOUS
<1>1. CASE Start
  <2>1. /\ phase # "up" /\ UNCHANGED <<source, secret>>
        /\ key' = key \/ key' \in Found[source]
    BY <1>1 DEF Start, StartUpStep, LoadSecrets, ConnectDuckDb, ConnectPostgres,
       SkipTable, LoadTable, ComputeSchema, deployment
  <2>2. Found[source] \subseteq Secrets \cup {NoKey}
    BY Constants DEF Found, ServiceInv, TokenTypes
  <2>3. QED
    BY <1>1, <2>1, <2>2 DEF Start, ReadAccounts, requestVars, ServiceInv, RequestTypes,
       TokenTypes, Served
<1>2. CASE Stop
  BY <1>2 DEF Stop, Stops, deployment, tokenVars, ServiceInv, RequestTypes, RequestStages, Bearers,
     TokenTypes, Served
<1>3. CASE Operate
  BY <1>3 DEF Operate, Operator, Rotate, CsvsArrive, deployment, tokenVars, requestVars,
     ServiceInv, RequestTypes, TokenTypes, Served
<1>4. CASE Authenticate
  <2>1. /\ UNCHANGED <<startUpVars, role, requestVars>>
    BY <1>4 DEF Authenticate, Login, Refresh
  <2>2. UNCHANGED <<source, secret, key, phase, role, stage, route, bearer, row>>
    BY <2>1 DEF startUpVars, deployment, requestVars
  <2>3. /\ tokens' \subseteq IssuedTokens
        /\ idle' \in [Users \X Roles \X Secrets -> 0 .. REFRESH_EXPIRE]
    <3>1. PICK u \in Users, r \in Roles :
            /\ SigningKey \in Secrets
            /\ Issued(u, r) \subseteq IssuedTokens
            /\ tokens' = tokens \cup Issued(u, r)
            /\ idle' = [idle EXCEPT ![<<u, r, SigningKey>>] = 0]
      BY <1>4, TokensIssued
    <3>2. QED
      BY <3>1, Constants DEF ServiceInv, TokenTypes
  <2>4. QED
    BY <2>2, <2>3 DEF ServiceInv, RequestTypes, TokenTypes, Served
<1>5. CASE Tick
  <2>1. UNCHANGED <<source, secret, key, phase, role, stage, route, row>>
    BY <1>5 DEF Tick, TokensTick, startUpVars, deployment
  <2>2. tokens' \subseteq IssuedTokens
    BY <1>5, AgedToken DEF Tick, TokensTick, ServiceInv, TokenTypes
  <2>3. idle' \in [Users \X Roles \X Secrets -> 0 .. REFRESH_EXPIRE]
    BY <1>5, Constants DEF Tick, TokensTick, ServiceInv, TokenTypes
  <2>4. bearer' \in [Requests -> Bearers]
    BY <1>5, AgedBearer DEF Tick, ServiceInv, RequestTypes
  <2>5. QED
    BY <2>1, <2>2, <2>3, <2>4 DEF ServiceInv, RequestTypes, TokenTypes, Served
<1>6. ASSUME NEW r \in Requests, Serve(r) PROVE ServiceInv'
  <2>1. /\ phase = "up" /\ UNCHANGED <<startUpVars, tokenVars, auditable>> /\ RequestTypes'
    BY <1>6, ServedApart
  <2>2. TokenTypes' /\ Served'
    BY <2>1 DEF ServiceInv, TokenTypes, Served, startUpVars, deployment, tokenVars
  <2>3. QED
    BY <2>1, <2>2 DEF ServiceInv
<1>7. CASE UNCHANGED vars
  BY <1>7 DEF vars, startUpVars, deployment, tokenVars, requestVars, ServiceInv, RequestTypes,
     TokenTypes, Served
<1>8. QED
  BY <1>1, <1>2, <1>3, <1>4, <1>5, <1>6, <1>7 DEF Next

-----------------------------------------------------------------------------
(***************************************************************************)
(* One request and its row.  Besides what AuditTellsTruth says of it: it   *)
(* has none before its end, and is forbidden for want of a token or of the *)
(* scope of its route.                                                     *)
(***************************************************************************)
Lacks(r) == bearer[r] # NoBearer /\ Needs[route[r]] \notin SCOPE_MAP[bearer[r].role]

RowTrue(r) ==
  /\ stage[r] \notin {"answered", "unsent", "invalid", "refused"} => row[r] = "none"
  /\ stage[r] = "forbidden" /\ bearer[r] # NoBearer => Lacks(r)
  /\ row[r] = "success" => route[r] = "query" /\ stage[r] \in {"answered", "unsent"}
  /\ row[r] = "error" => route[r] = "query" /\ stage[r] = "invalid"
  /\ row[r] = "denied" => stage[r] = "refused" /\ Lacks(r)
  /\ auditable /\ route[r] = "query" /\ stage[r] \in {"answered", "unsent", "invalid"} =>
       row[r] # "none"
  /\ auditable /\ stage[r] = "refused" /\ Lacks(r) /\ source # "files" /\ VerifyToken(bearer[r]) =>
       row[r] = "denied"

RowsInv == \A r \in Requests : RowTrue(r)

(* What AuditTellsTruth says is part of it.                                *)
LEMMA RowsTell == RowsInv => AuditTellsTruth
BY DEF RowsInv, RowTrue, Lacks, AuditTellsTruth

(* There are no rows to begin with.                                        *)
LEMMA InitRowsInv == Init => RowsInv
BY DEF Init, RowsInv, RowTrue

(* Every step keeps every request's row true.                              *)
LEMMA NextRowsInv == ServiceInv /\ RowsInv /\ [Next]_vars => RowsInv'
<1> SUFFICES ASSUME ServiceInv, RowsInv, [Next]_vars, NEW r \in Requests PROVE RowTrue(r)'
  BY DEF RowsInv
<1>1. RowTrue(r)
  BY DEF RowsInv
<1>2. ASSUME UNCHANGED <<stage, route, bearer, row, auditable, source>>, UNCHANGED SigningKey
      PROVE  RowTrue(r)'
  BY <1>1, <1>2 DEF RowTrue, Lacks, VerifyToken, Valid
<1>3. CASE Start
  <2>1. phase # "up" /\ UNCHANGED <<stage, row>>
    BY <1>3 DEF Start, StartUpStep, LoadSecrets, ConnectDuckDb, ConnectPostgres,
       SkipTable, LoadTable, ComputeSchema, requestVars
  <2>2. stage'[r] = "idle" /\ row'[r] = "none"
    BY <2>1, <1>1 DEF ServiceInv, Served, RowTrue
  <2>3. QED
    BY <2>2 DEF RowTrue
<1>4. CASE Stop
  BY <1>4 DEF Stop, RowTrue
<1>5. CASE Operate
  <2>1. UNCHANGED <<stage, route, bearer, row, auditable, source, key>>
    BY <1>5 DEF Operate, Operator, Rotate, CsvsArrive, deployment, requestVars
  <2>2. source # "files" => UNCHANGED SigningKey
    BY <2>1 DEF SigningKey
  <2>3. QED
    BY <1>1, <2>1, <2>2 DEF RowTrue, Lacks, VerifyToken, Valid
<1>6. CASE Authenticate
  BY <1>2, <1>6 DEF Authenticate, Login, Refresh, startUpVars, deployment, requestVars, SigningKey
<1>7. CASE Tick
  <2>1. /\ UNCHANGED <<stage, route, row, auditable, source>> /\ UNCHANGED SigningKey
        /\ bearer'[r] = Aged(bearer[r]) /\ bearer[r] \in Bearers
    BY <1>7 DEF Tick, startUpVars, deployment, SigningKey, ServiceInv, RequestTypes
  <2>2. /\ bearer'[r] = NoBearer <=> bearer[r] = NoBearer
        /\ bearer'[r].role = bearer[r].role
        /\ VerifyToken(bearer[r])' => VerifyToken(bearer[r])
    BY <2>1, AgedBearer DEF VerifyToken, Valid
  <2>3. Lacks(r)' <=> Lacks(r)
    BY <2>1, <2>2 DEF Lacks
  <2>4. QED
    BY <1>1, <2>1, <2>2, <2>3 DEF RowTrue
<1>8. ASSUME NEW s \in Requests, Serve(s), s # r PROVE RowTrue(r)'
  <2>1. /\ UNCHANGED <<startUpVars, tokenVars, auditable>>
        /\ stage'[r] = stage[r] /\ route'[r] = route[r] /\ bearer'[r] = bearer[r] /\ row'[r] = row[r]
    BY <1>8, ServedApart
  <2>2. UNCHANGED <<source, auditable>> /\ UNCHANGED SigningKey
    BY <2>1 DEF startUpVars, deployment, SigningKey
  <2>3. QED
    BY <1>1, <2>1, <2>2 DEF RowTrue, Lacks, VerifyToken, Valid
<1>9. CASE Serve(r)
  <2>1. /\ UNCHANGED <<source, auditable>> /\ UNCHANGED SigningKey
    BY <1>9, ServedApart DEF startUpVars, deployment, SigningKey
  <2>2. /\ stage \in [Requests -> RequestStages] /\ route \in [Requests -> Routes \cup {"none"}]
        /\ bearer \in [Requests -> Bearers]
        /\ row \in [Requests -> {"none", "success", "error", "denied"}]
    BY DEF ServiceInv, RequestTypes
  <2> USE <2>2, <1>1 DEF RowTrue, Goto, Row
  <2>3. CASE Arrive(r)
    BY <2>3 DEF Arrive
  <2>4. CASE Respond(r)
    BY <2>4 DEF Respond
  <2>5. CASE NoHeader(r) \/ KeyMissing(r) \/ Unauthorized(r)
    BY <2>5 DEF NoHeader, KeyMissing, Unauthorized
  <2>6. CASE RequireScope(r)
    <3>1. Allows(bearer[r], Needs[route[r]]) \/ Lacks(r)
      BY <2>6, NotOurs DEF RequireScope, Allows, Lacks, VerifyToken, Valid
    <3>2. UNCHANGED <<route, bearer>>
      BY <2>6 DEF RequireScope
    <3>3. Lacks(r)' <=> Lacks(r)
      BY <3>2 DEF Lacks
    <3>4. QED
      BY <2>6, <3>1, <3>2, <3>3 DEF RequireScope
  <2>7. CASE Forbidden(r)
    <3>1. UNCHANGED <<route, bearer>>
      BY <2>7 DEF Forbidden
    <3>2. /\ Lacks(r)' <=> Lacks(r)
          /\ VerifyToken(bearer[r])' <=> VerifyToken(bearer[r])
      BY <2>1, <3>1 DEF Lacks, VerifyToken, Valid
    <3>3. VerifyToken(bearer[r]) => bearer[r] # NoBearer
      BY NotOurs DEF VerifyToken, Valid
    <3>4. QED
      BY <2>1, <2>7, <3>1, <3>2, <3>3 DEF Forbidden
  <2>8. CASE Limited(r) \/ Ask(r) \/ AgentFails(r) \/ Erase(r)
    BY <2>1, <2>8 DEF Limited, Ask, AgentFails, Erase
  <2>9. CASE Refuse(r)
    BY <2>1, <2>9 DEF Refuse
  <2>10. CASE AgentAnswers(r)
    BY <2>1, <2>10 DEF AgentAnswers
  <2>11. CASE ShowDocs(r) \/ ShowScores(r)
    BY <2>1, <2>11 DEF ShowDocs, ShowScores
  <2>12. QED
    BY <1>9, <2>3, <2>4, <2>5, <2>6, <2>7, <2>8, <2>9, <2>10, <2>11 DEF Serve
<1>10. CASE UNCHANGED vars
  BY <1>2, <1>10 DEF vars, startUpVars, deployment, requestVars, SigningKey
<1>11. QED
  BY <1>3, <1>4, <1>5, <1>6, <1>7, <1>8, <1>9, <1>10 DEF Next

(***************************************************************************)
(* The audit log tells the truth (audit.py, query.py, main.py's            *)
(* forbidden_handler): however requests, logins, restarts and changes of   *)
(* the secret interleave.                                                  *)
(***************************************************************************)
THEOREM AuditIsTrue == Spec => []AuditTellsTruth
BY InitServiceInv, NextServiceInv, InitRowsInv, NextRowsInv, RowsTell, PTL DEF Spec

(* A process that is up and works on DuckDB has loaded what it could.      *)
LEMMA LoadedAreKnown == ServiceInv /\ Loading => AgentKnowsItsTables
<1> SUFFICES ASSUME Loading, backend = "duckdb", phase = "up"
             PROVE  /\ populated \cup left = AllTables /\ populated \cap left = {}
                    /\ IF blind THEN schema = {} ELSE schema = populated
  BY DEF ServiceInv, Served, AgentKnowsItsTables
<1>1. ToSet(<<>>) = {}
  BY DEF ToSet
<1>2. QED
  BY <1>1 DEF Loading, LoadInv

(***************************************************************************)
(* The agent on DuckDB is told of all its tables, or of none (main.py's    *)
(* lifespan): however many starts were broken off before.                  *)
(***************************************************************************)
THEOREM TablesAreKnown == Spec => []AgentKnowsItsTables
BY InitServiceInv, NextServiceInv, InitLoading, NextLoading, LoadedAreKnown, PTL DEF Spec

-----------------------------------------------------------------------------
(***************************************************************************)
(* The age of a token and that of its user's last login or refresh under   *)
(* its role and key.                                                       *)
(***************************************************************************)
Life(type) == IF type = "access" THEN ACCESS_EXPIRE ELSE REFRESH_EXPIRE
Young(t)   == t.left > 0 => idle[<<t.sub, t.role, t.key>>] + t.left <= Life(t.type)

YoungInv == \A t \in tokens \cup { bearer[r] : r \in Requests } : t \in IssuedTokens => Young(t)

(* There are no tokens to begin with.                                      *)
LEMMA InitYoungInv == Init => YoungInv
BY NotOurs DEF Init, TokensInit, YoungInv

(* Issuing tokens makes no token old, and the issued ones are new.         *)
LEMMA IssuedYoung ==
  ASSUME ServiceInv, Authenticate, NEW t \in IssuedTokens,
         t \in tokens' \/ Young(t), t \in tokens => Young(t)
  PROVE  Young(t)'
<1>1. PICK u \in Users, r \in Roles :
        /\ SigningKey \in Secrets
        /\ tokens' = tokens \cup Issued(u, r)
        /\ idle' = [idle EXCEPT ![<<u, r, SigningKey>>] = 0]
  BY TokensIssued
<1>2. /\ t.sub \in Users /\ t.role \in Roles /\ t.key \in Secrets /\ t.left \in Nat
  BY DEF IssuedTokens
<1> DEFINE who == <<t.sub, t.role, t.key>>
<1>3. who \in Users \X Roles \X Secrets
  BY <1>2
<1>4. idle[who] \in Nat /\ idle'[who] \in {0, idle[who]}
  BY <1>1, <1>3, Constants DEF ServiceInv, TokenTypes
<1>5. CASE Young(t)
  <2> HIDE DEF who
  <2>1. t.left > 0 => idle[who] + t.left <= Life(t.type)
    BY <1>5 DEF Young, who
  <2>2. Life(t.type) \in Nat
    BY Constants DEF Life
  <2>3. t.left > 0 => idle'[who] + t.left <= Life(t.type)
    BY <1>2, <1>4, <2>1, <2>2
  <2>4. QED
    BY <2>3 DEF Young, who
<1>6. CASE t \in Issued(u, r)
  <2>1. /\ t.sub = u /\ t.role = r /\ t.key = SigningKey /\ t.left = Life(t.type)
    BY <1>6 DEF Issued, Token, Life
  <2>2. idle'[who] = 0
    BY <1>1, <1>3, <2>1 DEF ServiceInv, TokenTypes
  <2>3. QED
    BY <1>2, <2>1, <2>2 DEF Young
<1>7. QED
  BY <1>1, <1>5, <1>6

(* A unit of time later the token is as much older as its user is idler.   *)
LEMMA AgedYoung ==
  ASSUME ServiceInv, TokensTick, NEW t \in IssuedTokens, Young(t)
  PROVE  Young(Aged(t))'
<1>1. /\ t.sub \in Users /\ t.role \in Roles /\ t.key \in Secrets /\ t.left \in Nat
  BY DEF IssuedTokens
<1> DEFINE who == <<t.sub, t.role, t.key>>
<1>2. who \in Users \X Roles \X Secrets
  BY <1>1
<1>3. /\ idle[who] \in 0 .. REFRESH_EXPIRE
      /\ idle'[who] = IF idle[who] < REFRESH_EXPIRE THEN idle[who] + 1 ELSE REFRESH_EXPIRE
  BY <1>2 DEF TokensTick, ServiceInv, TokenTypes
<1>4. Life(t.type) \in Nat
  BY Constants DEF Life
<1>5. t.left > 0 => idle[who] + t.left <= Life(t.type)
  BY DEF Young
<1>6. /\ Aged(t).sub = t.sub /\ Aged(t).role = t.role
      /\ Aged(t).type = t.type /\ Aged(t).key = t.key
      /\ Aged(t).left = IF t.left = 0 THEN 0 ELSE t.left - 1
  BY AgedToken
<1>7. Aged(t).left > 0 => idle'[who] + Aged(t).left <= Life(t.type)
  <2> HIDE DEF who
  <2> QED
    BY <1>1, <1>3, <1>4, <1>5, <1>6, Constants
<1>8. QED
  BY <1>6, <1>7 DEF Young

(* No step makes a token outlive the session it was issued for.            *)
LEMMA NextYoungInv == ServiceInv /\ ServiceInv' /\ YoungInv /\ [Next]_vars => YoungInv'
<1> SUFFICES ASSUME ServiceInv, ServiceInv', YoungInv, [Next]_vars, NEW t \in IssuedTokens,
                    t \in tokens' \/ \E r \in Requests : t = bearer'[r]
             PROVE  Young(t)'
  BY DEF YoungInv
<1>1. ASSUME UNCHANGED idle, Young(t) PROVE Young(t)'
  BY <1>1 DEF Young
<1>2. t \in tokens => Young(t)
  BY DEF YoungInv
<1>3. \A r \in Requests : t = bearer[r] => Young(t)
  BY DEF YoungInv
<1>4. CASE Start \/ Operate \/ UNCHANGED vars
  BY <1>1, <1>2, <1>3, <1>4 DEF Start, Operate, vars, tokenVars, requestVars
<1>5. CASE Stop
  BY <1>1, <1>2, <1>5, NotOurs DEF Stop, tokenVars
<1>6. CASE Authenticate
  <2>1. UNCHANGED bearer
    BY <1>6 DEF Authenticate, requestVars
  <2>2. t \in tokens' \/ Young(t)
    BY <1>3, <2>1
  <2>3. QED
    BY <1>2, <1>6, <2>2, IssuedYoung
<1>7. CASE Tick
  <2>1. CASE t \in tokens'
    <3>1. PICK u \in tokens : t = Aged(u)
      BY <1>7, <2>1 DEF Tick, TokensTick
    <3>2. u \in IssuedTokens /\ Young(u)
      BY DEF ServiceInv, TokenTypes, YoungInv
    <3>3. QED
      BY <1>7, <3>1, <3>2, AgedYoung DEF Tick
  <2>2. CASE \E r \in Requests : t = bearer'[r]
    <3>1. PICK r \in Requests : t = bearer'[r]
      BY <2>2
    <3>2. t = Aged(bearer[r]) /\ bearer[r] \in Bearers
      BY <1>7, <3>1 DEF Tick, ServiceInv, RequestTypes
    <3>3. bearer[r] \in IssuedTokens
      BY <3>2, NotOurs DEF Bearers, Aged
    <3>4. Young(bearer[r])
      BY <3>3 DEF YoungInv
    <3>5. QED
      BY <1>7, <3>2, <3>3, <3>4, AgedYoung DEF Tick
  <2>3. QED
    BY <2>1, <2>2
<1>8. ASSUME NEW s \in Requests, Serve(s) PROVE Young(t)'
  <2>1. UNCHANGED <<tokens, idle>>
    BY <1>8, ServedApart DEF tokenVars
  <2>2. t \in tokens \/ \E r \in Requests : t = bearer[r]
    <3>1. ASSUME NEW r \in Requests, t = bearer'[r], r # s PROVE t = bearer[r]
      BY <1>8, <3>1, ServedApart
    <3>2. ASSUME t = bearer'[s] PROVE t = bearer[s] \/ t \in tokens
      <4>1. CASE Arrive(s)
        <5>1. PICK b \in tokens \cup {NoBearer, BadToken} : bearer' = [bearer EXCEPT ![s] = b]
          BY <4>1 DEF Arrive
        <5>2. t = b
          BY <3>2, <5>1 DEF ServiceInv, RequestTypes
        <5>3. QED
          BY <5>2, NotOurs
      <4>2. CASE Respond(s)
        BY <3>2, <4>2, NotOurs DEF Respond, ServiceInv, RequestTypes
      <4>3. CASE UNCHANGED bearer
        BY <3>2, <4>3
      <4>4. QED
        BY <1>8, <4>1, <4>2, <4>3 DEF Serve, NoHeader, KeyMissing, Unauthorized, RequireScope,
           Forbidden, Limited, Refuse, Ask, AgentFails, AgentAnswers, ShowDocs, ShowScores, Erase
    <3>3. QED
      BY <2>1, <3>1, <3>2
  <2>3. QED
    BY <1>1, <1>2, <1>3, <2>1, <2>2
<1>9. QED
  BY <1>4, <1>5, <1>6, <1>7, <1>8 DEF Next

(***************************************************************************)
(* Grants are fresh (jwt_handler.py, rbac.py, routers/auth.py): whoever is *)
(* let through was issued a token for the role and the present key less    *)
(* than ACCESS_EXPIRE ago, and no one is issued tokens for a role without  *)
(* an account of that role or tokens less than REFRESH_EXPIRE old.         *)
(***************************************************************************)
THEOREM AccessIsFresh == Spec => GrantsAreFresh
<1> DEFINE Through(r) ==
             /\ Needs[route[r]] = "none" \/ Needs[route[r]] \in SCOPE_MAP[bearer[r].role]
             /\ idle[<<bearer[r].sub, bearer[r].role, SigningKey>>] < ACCESS_EXPIRE
           Step ==
             /\ \A r \in Requests : stage[r] = "auth" /\ stage'[r] = "granted" => Through(r)
             /\ \A who \in DOMAIN idle :
                  idle'[who] < idle[who] => role[who[1]] = who[2] \/ idle[who] < REFRESH_EXPIRE
<1>1. ASSUME ServiceInv, YoungInv, Next,
             NEW r \in Requests, stage[r] = "auth", stage'[r] = "granted"
      PROVE  Through(r)
  <2>1. RequireScope(r)
    <3>1. ASSUME NEW s \in Requests, Serve(s) PROVE s = r
      BY <1>1, <3>1, ServedApart
    <3>2. ~ (Start \/ Stop \/ Operate \/ Authenticate \/ Tick)
      BY <1>1 DEF Start, Stop, Operate, Authenticate, Tick, requestVars
    <3>3. Serve(r)
      BY <1>1, <3>1, <3>2 DEF Next
    <3>4. QED
      BY <1>1, <3>3 DEF ServiceInv, RequestTypes, Goto, Outcomes, Serve, Arrive, NoHeader, KeyMissing,
         Unauthorized, Forbidden, Limited, Refuse, Ask, AgentFails, AgentAnswers, ShowDocs,
         ShowScores, Erase, Respond
  <2>2. Needs[route[r]] = "none" \/ Needs[route[r]] \in SCOPE_MAP[bearer[r].role]
    BY <1>1, <2>1 DEF RequireScope, Goto, Allows, ServiceInv, RequestTypes
  <2>3. /\ bearer[r].key = SigningKey /\ bearer[r].left > 0 /\ bearer[r].type = "access"
    BY <2>1 DEF RequireScope, VerifyToken, Valid
  <2>4. bearer[r] \in IssuedTokens
    BY <1>1, <2>3, NotOurs DEF ServiceInv, RequestTypes, Bearers
  <2>5. Young(bearer[r])
    BY <1>1, <2>4 DEF YoungInv
  <2>6. idle[<<bearer[r].sub, bearer[r].role, SigningKey>>] + bearer[r].left <= ACCESS_EXPIRE
    BY <2>3, <2>5 DEF Young, Life
  <2>7. /\ bearer[r].left \in Nat
        /\ <<bearer[r].sub, bearer[r].role, SigningKey>> \in Users \X Roles \X Secrets
    BY <2>3, <2>4 DEF IssuedTokens
  <2>8. idle[<<bearer[r].sub, bearer[r].role, SigningKey>>] \in Nat
    BY <1>1, <2>7, Constants DEF ServiceInv, TokenTypes
  <2>9. idle[<<bearer[r].sub, bearer[r].role, SigningKey>>] < ACCESS_EXPIRE
    <3> DEFINE i == idle[<<bearer[r].sub, bearer[r].role, SigningKey>>]
               n == bearer[r].left
    <3>1. i + n <= ACCESS_EXPIRE /\ n > 0 /\ n \in Nat /\ i \in Nat
      BY <2>3, <2>6, <2>7, <2>8
    <3> HIDE DEF i, n
    <3>2. i < ACCESS_EXPIRE
      BY <3>1, Constants
    <3>3. QED
      BY <3>2 DEF i
  <2>10. QED
    BY <2>2, <2>9
<1>2. ASSUME ServiceInv, YoungInv, Next, NEW who \in DOMAIN idle, idle'[who] < idle[who]
      PROVE  role[who[1]] = who[2] \/ idle[who] < REFRESH_EXPIRE
  <2>1. who \in Users \X Roles \X Secrets /\ idle[who] \in Nat
    BY <1>2, Constants DEF ServiceInv, TokenTypes
  <2>2. ~ UNCHANGED idle
    BY <1>2, <2>1
  <2>3. ~ Tick
    BY <1>2, <2>1, Constants DEF Tick, TokensTick, ServiceInv, TokenTypes
  <2>4. Authenticate
    BY <1>2, <2>2, <2>3, ServedApart DEF Next, Start, Stop, Operate, tokenVars
  <2>5. PICK u \in Users, r \in Roles :
          /\ idle' = [idle EXCEPT ![<<u, r, SigningKey>>] = 0]
          /\ \/ r = role[u]
             \/ \E t \in tokens : VerifyRefreshToken(t) /\ t.sub = u /\ t.role = r
    BY <1>2, <2>4, TokensIssued
  <2>6. who = <<u, r, SigningKey>>
    BY <1>2, <2>1, <2>5 DEF ServiceInv, TokenTypes
  <2>7. CASE r = role[u]
    BY <2>6, <2>7
  <2>8. CASE \E t \in tokens : VerifyRefreshToken(t) /\ t.sub = u /\ t.role = r
    <3>1. PICK t \in tokens : VerifyRefreshToken(t) /\ t.sub = u /\ t.role = r
      BY <2>8
    <3>2. t \in IssuedTokens /\ t.left > 0 /\ t.left \in Nat /\ t.type = "refresh" /\ t.key = SigningKey
      BY <1>2, <3>1 DEF VerifyRefreshToken, Valid, ServiceInv, TokenTypes, IssuedTokens
    <3>3. idle[who] + t.left <= REFRESH_EXPIRE
      BY <1>2, <2>6, <3>1, <3>2 DEF YoungInv, Young, Life
    <3>4. QED
      BY <2>1, <3>2, <3>3, Constants
  <2>9. QED
    BY <2>5, <2>7, <2>8
<1>3. ServiceInv /\ YoungInv /\ [Next]_vars => [Step]_vars
  BY <1>1, <1>2
<1>4. Spec => [][Step]_vars
  <2> HIDE DEF Step
  <2> QED
    BY InitServiceInv, NextServiceInv, InitYoungInv, NextYoungInv, <1>3, PTL DEF Spec
<1>5. QED
  BY <1>4 DEF GrantsAreFresh
=============================================================================
