---------------------------- MODULE RateLimiter ----------------------------
(***************************************************************************)
(* The per-client request counter of the SSE gateway                       *)
(* (backend-go/sse/main.go, RateLimiter.Allow): the Redis keys             *)
(* "sse:ratelimit:<ip>" and the INCR + EXPIRE pipelines that requests run. *)
(* The pipeline has no MULTI: other pipelines, and time, come between its  *)
(* two commands.                                                           *)
(*                                                                         *)
(* Redis is outside src/: a key is its counter and its time to live.  The  *)
(* counter is kept up to Limit + 1, which is exact, since Allow only       *)
(* compares it with Limit.                                                 *)
(***************************************************************************)
EXTENDS Integers

CONSTANTS
  Callers,      (* the requests that may be asking Allow at one time       *)
  Ips,          (* what realIP returns: the clients' keys                  *)
  Limit,        (* RATE_LIMIT_RPM                                          *)
  Window,       (* the 60 s that EXPIRE sets                               *)
  Faults        (* what may happen to Redis: a subset of FaultKinds        *)

FaultKinds ==
  { "unreachable",  (* neither command reaches Redis                       *)
    "cut",          (* the connection breaks once INCR has run             *)
    "restart",      (* Redis starts again without its keys                 *)
    "snapshot" }    (* Redis starts again from an older state              *)

ASSUME LimiterAssumption ==
  /\ Limit \in Nat
  /\ Window \in Nat \ {0}
  /\ Faults \subseteq FaultKinds

VARIABLES
  count,        (* value of the key, 0 if the key does not exist           *)
  ttl,          (* its time to live; NoTtl for a key that never expires    *)
  running       (* pipelines between INCR and EXPIRE: whose, of which      *)
                (* client, and what INCR returned                          *)

rlVars == <<count, ttl, running>>

NoTtl    == -1
MaxCount == Limit + 1
Pipeline == [by : Callers, ip : Ips, n : 1 .. MaxCount]

LimiterTypeOK ==
  /\ count \in [Ips -> 0 .. MaxCount]
  /\ ttl \in [Ips -> NoTtl .. Window]
  /\ running \subseteq Pipeline

LimiterInit ==
  /\ count = [ip \in Ips |-> 0]
  /\ ttl = [ip \in Ips |-> 0]
  /\ running = {}

(***************************************************************************)
(* INCR creates a missing key without a time to live and keeps that of an  *)
(* existing one; EXPIRE does nothing to a missing key.                     *)
(***************************************************************************)
Incremented(ip) == IF count[ip] < MaxCount THEN count[ip] + 1 ELSE MaxCount

Counted(c, ip) == [by |-> c, ip |-> ip, n |-> Incremented(ip)]

Count(c, ip) ==
  /\ \A p \in running : p.by # c
  /\ running' = running \cup {Counted(c, ip)}
  /\ count' = [count EXCEPT ![ip] = Incremented(ip)]
  /\ ttl' = [ttl EXCEPT ![ip] = IF count[ip] = 0 THEN NoTtl ELSE @]

(* Slips: a unit mistaken, EXPIRE only of a key that has no time to live.  *)
ExpireInMillis(ip) == ttl' = [ttl EXCEPT ![ip] = IF count[ip] = 0 THEN 0 ELSE 1000 * Window]
ExpireOnce(ip)     == ttl' = [ttl EXCEPT ![ip] = IF @ = NoTtl THEN Window ELSE @]

Expire(ip) == ttl' = [ttl EXCEPT ![ip] = IF count[ip] = 0 THEN 0 ELSE Window]

Ended(p) ==
  /\ p \in running
  /\ running' = running \ {p}
  /\ UNCHANGED count

(***************************************************************************)
(* RateLimiter.Allow returns, one action per result.                       *)
(***************************************************************************)
AllowOneMore(p) ==              (* a slip: the count before INCR compared   *)
  /\ p.n <= Limit + 1
  /\ Ended(p)
  /\ Expire(p.ip)

AllowWithin(p) ==
  /\ p.n <= Limit
  /\ Ended(p)
  /\ Expire(p.ip)

DenyOver(p) ==
  /\ p.n > Limit
  /\ Ended(p)
  /\ Expire(p.ip)

(* Exec returned an error, or rdb is nil: "fail open".  The EXPIRE of a    *)
(* pipeline that was cut off may have run or not.                          *)
FailsUncounted == "unreachable" \in Faults /\ UNCHANGED rlVars

FailsCounted(p) ==
  /\ "cut" \in Faults
  /\ Ended(p)
  /\ Expire(p.ip) \/ UNCHANGED ttl

(***************************************************************************)
(* Redis restarts, and every pipeline is cut off.  In production it saves  *)
(* nothing; elsewhere its last snapshot comes back: a key that has not     *)
(* expired meanwhile, with a lower counter that expires no later, or as it *)
(* was between an INCR that created it and the EXPIRE.                     *)
(***************************************************************************)
Before(ip) ==
  {<<0, 0>>} \cup IF "snapshot" \in Faults
                  THEN ((1 .. count[ip]) \X (1 .. ttl[ip])) \cup ((1 .. MaxCount) \X {NoTtl})
                  ELSE {}

RedisRestarts ==
  /\ Faults \cap {"restart", "snapshot"} # {}
  /\ \E old \in [Ips -> (0 .. MaxCount) \X (NoTtl .. Window)] :
       /\ \A ip \in Ips : old[ip] \in Before(ip)
       /\ count' = [ip \in Ips |-> old[ip][1]]
       /\ ttl' = [ip \in Ips |-> old[ip][2]]
  /\ running' = {}

(***************************************************************************)
(* One unit of time passes in Redis: a key whose time is up disappears.    *)
(***************************************************************************)
LimiterTick ==
  /\ ttl' = [ip \in Ips |-> IF ttl[ip] > 0 THEN ttl[ip] - 1 ELSE ttl[ip]]
  /\ count' = [ip \in Ips |-> IF ttl[ip] = 1 THEN 0 ELSE count[ip]]
  /\ UNCHANGED running
=============================================================================
