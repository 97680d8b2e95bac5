--------------------------------- MODULE Tokens --------------------------------
(***************************************************************************)
(* Access and refresh tokens: auth/jwt_handler.py, auth/rbac.py and the    *)
(* login and refresh routes of routers/auth.py.  Tokens are not stored     *)
(* anywhere: one is good as long as its signature matches the present key  *)
(* and it is not expired.  Time is counted in units of which an access     *)
(* token lives ACCESS_EXPIRE and a refresh token REFRESH_EXPIRE.           *)
(***************************************************************************)
EXTENDS StartUp

CONSTANTS
  Users,
  Roles,          (* roles an account may be given                         *)
  ACCESS_EXPIRE, REFRESH_EXPIRE,
  MaxTokens       (* tokens held at a time (bound of the model)            *)

ASSUME TokensAssumption == {ACCESS_EXPIRE, REFRESH_EXPIRE, MaxTokens} \subseteq Nat \ {0}

VARIABLES
  role,           (* of each account in DEV_USERS_JSON                     *)
  tokens,         (* tokens issued and not expired                         *)
  idle            (* history: time since a user was last issued tokens for *)
                  (* a role under a key, up to REFRESH_EXPIRE              *)

tokenVars == <<role, tokens, idle>>

TokensInit ==
  /\ role \in [Users -> Roles]
  /\ tokens = {}
  /\ idle = [who \in Users \X Roles \X Secrets |-> REFRESH_EXPIRE]

SCOPE_MAP == [viewer    |-> {"query:read"},
              analyst   |-> {"query:read", "tools:basic"},
              executive |-> {"query:read", "tools:basic", "docs:executive"},
              admin     |-> {"query:read", "tools:basic", "docs:executive", "admin:all"}]

SigningKey == IF source = "files" THEN secret ELSE key

Token(u, r, type, left_) ==
  [sub |-> u, role |-> r, type |-> type, key |-> SigningKey, left |-> left_]

Issued(u, r) == { Token(u, r, "access", ACCESS_EXPIRE), Token(u, r, "refresh", REFRESH_EXPIRE) }

Valid(t) == t.key = SigningKey /\ t.left > 0

(* Slip: the type of a token not looked at.                                *)
AnyType(t) == Valid(t)

(* verify_token and verify_refresh_token.                                  *)
VerifyToken(t)        == Valid(t) /\ t.type = "access"
VerifyRefreshToken(t) == Valid(t) /\ t.type = "refresh"

Issue(u, r) ==
  /\ Cardinality(tokens \cup Issued(u, r)) <= MaxTokens
  /\ tokens' = tokens \cup Issued(u, r)
  /\ idle' = [idle EXCEPT ![<<u, r, SigningKey>>] = 0]

(* login and refresh; without a key both raise KeyError and change nothing.*)
Login(u) ==
  /\ phase = "up" /\ SigningKey # NoKey
  /\ Issue(u, role[u])
  /\ UNCHANGED <<startUpVars, role>>

Refresh(t) ==
  /\ phase = "up" /\ SigningKey # NoKey
  /\ VerifyRefreshToken(t)
  /\ Issue(t.sub, t.role)
  /\ UNCHANGED <<startUpVars, role>>

(* routers/auth.py reads the accounts when it is imported.                 *)
ReadAccounts == role' \in [Users -> Roles]

Aged(t) == IF t.left = 0 THEN t ELSE [t EXCEPT !.left = @ - 1]

TokensTick ==
  /\ tokens' = { Aged(t) : t \in { u \in tokens : u.left > 1 } }
  /\ idle' = [who \in DOMAIN idle |-> IF idle[who] < REFRESH_EXPIRE THEN idle[who] + 1
                                      ELSE REFRESH_EXPIRE]
  /\ UNCHANGED role
===============================================================================
