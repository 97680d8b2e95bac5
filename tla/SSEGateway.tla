----------------------------- MODULE SSEGateway -----------------------------
(***************************************************************************)
(* The SSE gateway (backend-go/sse/main.go): SSEHandler.ServeHTTP running  *)
(* in one goroutine per request, over the rate limiter and the circuit     *)
(* breaker that all of them share.  A handler holds no lock between its    *)
(* calls of Allow, client.Do and Record..., so every call is a step of its *)
(* own and the handlers interleave freely.                                 *)
(*                                                                         *)
(* Req is the set of goroutines that may be serving at one time; one that  *)
(* has answered is idle and takes the next request.                        *)
(***************************************************************************)
EXTENDS Integers, FiniteSets

CONSTANTS
  Req,                                  (* concurrent handlers             *)
  Threshold, WindowSecs, OpenSecs,      (* of the circuit breaker          *)
  Ips, Limit, Window, Faults            (* of the rate limiter             *)

VARIABLES
  pc,           (* where each handler is in ServeHTTP                      *)
  state, failures, windowAge, openLeft, (* the circuit breaker             *)
  count, ttl, running,                  (* the limiter's keys, pipelines   *)
  healthy,      (* does the Python API now answer in time, below 500?      *)
  lastFail,     (* history of BreakerClients                               *)
  late          (* history: upstream requests admitted before the breaker  *)
                (* last went from closed or half-open to open              *)

Upstream == {r \in Req : pc[r] = "upstream"}

RL == INSTANCE RateLimiter WITH Callers <- Req
CB == INSTANCE BreakerClients WITH
        MaxInFlight <- Cardinality(Req),
        inFlight    <- Cardinality(Upstream)

ASSUME GatewayAssumption ==
  /\ IsFiniteSet(Req) /\ Req # {}
  /\ Threshold \in Nat \ {0} /\ WindowSecs \in Nat /\ OpenSecs \in Nat
  /\ Limit \in Nat /\ Window \in Nat \ {0} /\ Faults \subseteq RL!FaultKinds

rlVars   == <<count, ttl, running>>
cbVars   == <<state, failures, windowAge, openLeft, lastFail>>
vars     == <<pc, late, cbVars, rlVars, healthy>>

Stages == {"idle", "counting", "breaker", "upstream", "streaming"}

TypeOK ==
  /\ pc \in [Req -> Stages]
  /\ RL!LimiterTypeOK
  /\ CB!BreakerTypeOK
  /\ lastFail \in [1 .. Threshold -> 0 .. CB!Expired]
  /\ late \subseteq Upstream
  /\ healthy \in BOOLEAN

Init ==
  /\ pc = [r \in Req |-> "idle"]
  /\ RL!LimiterInit
  /\ CB!BreakerInit
  /\ lastFail = CB!Forgiven
  /\ late = {}
  /\ healthy \in BOOLEAN

Goto(r, stage) == pc' = [pc EXCEPT ![r] = stage]

-----------------------------------------------------------------------------
(***************************************************************************)
(* A request of client ip arrives and is counted, unless Redis is away.    *)
(***************************************************************************)
RateCounts(r, ip) ==
  /\ pc[r] = "idle"
  /\ RL!Count(r, ip)
  /\ Goto(r, "counting")
  /\ UNCHANGED <<cbVars, late, healthy>>

RateUnreachable(r) ==
  /\ pc[r] = "idle"
  /\ RL!FailsUncounted
  /\ Goto(r, "breaker")
  /\ UNCHANGED <<cbVars, late, healthy>>

(***************************************************************************)
(* The limiter's answer.  429 ends the request.  A pipeline that was cut   *)
(* off, by a restart of Redis or otherwise, is an error and lets it pass.  *)
(***************************************************************************)
RateAllowed(r) ==
  /\ pc[r] = "counting"
  /\ \/ \E p \in running : p.by = r /\ (RL!AllowWithin(p) \/ RL!FailsCounted(p))
     \/ (\A p \in running : p.by # r) /\ UNCHANGED rlVars
  /\ Goto(r, "breaker")
  /\ UNCHANGED <<cbVars, late, healthy>>

RateDenied(r) ==
  /\ pc[r] = "counting"
  /\ \E p \in running : p.by = r /\ RL!DenyOver(p)
  /\ Goto(r, "idle")
  /\ UNCHANGED <<cbVars, late, healthy>>

(***************************************************************************)
(* The breaker is asked.  503 ends the request.                            *)
(***************************************************************************)
BreakerAdmits(r) ==
  /\ pc[r] = "breaker"
  /\ CB!AllowAdmits
  /\ Goto(r, "upstream")
  /\ UNCHANGED <<lastFail, rlVars, late, healthy>>

BreakerRejects(r) ==
  /\ pc[r] = "breaker"
  /\ CB!AllowRejects
  /\ Goto(r, "idle")
  /\ UNCHANGED <<lastFail, rlVars, late, healthy>>

(***************************************************************************)
(* client.Do is over: an error or a status of 500 and more is a failure,   *)
(* everything else a success, recorded before the first byte is streamed.  *)
(***************************************************************************)
ReportFailure(r) ==
  /\ pc[r] = "upstream"
  /\ CB!RecordFailure
  /\ lastFail' = [i \in 1 .. Threshold |->
                    IF i = 1 THEN 0 ELSE lastFail[i - 1]]
  /\ Goto(r, "idle")
  /\ late' = (IF state # "open" /\ state' = "open" THEN Upstream ELSE late) \ {r}
  /\ UNCHANGED <<rlVars, healthy>>

(* No connection, the 120 s client timeout, or a 5xx answer.               *)
UpstreamFails(r) ==
  /\ ~healthy
  /\ ReportFailure(r)

(* A slip: a cancelled request returns without a word to the breaker.      *)
LeavesUnreported(r) ==
  /\ pc[r] = "upstream"
  /\ Goto(r, "idle")
  /\ late' = late \ {r}
  /\ UNCHANGED <<cbVars, rlVars, healthy>>

(* The browser went away: r.Context() is cancelled and client.Do fails.    *)
ClientLeaves(r) == ReportFailure(r)

UpstreamAnswers(r) ==
  /\ healthy
  /\ pc[r] = "upstream"
  /\ CB!RecordSuccess
  /\ lastFail' = CB!Forgiven
  /\ Goto(r, "streaming")
  /\ late' = late \ {r}
  /\ UNCHANGED <<rlVars, healthy>>

(* The scan loop ends: end of body, scanner error or ctx.Done.             *)
StreamEnds(r) ==
  /\ pc[r] = "streaming"
  /\ Goto(r, "idle")
  /\ UNCHANGED <<cbVars, rlVars, late, healthy>>

-----------------------------------------------------------------------------
(* The environment: time, Redis, and the health of the Python API.         *)
Tick ==
  /\ RL!LimiterTick
  /\ CB!BreakerTick
  /\ lastFail' = [i \in 1 .. Threshold |->
                    IF lastFail[i] < CB!Expired THEN lastFail[i] + 1 ELSE CB!Expired]
  /\ UNCHANGED <<pc, late, healthy>>

RedisRestarts ==
  /\ RL!RedisRestarts
  /\ UNCHANGED <<pc, cbVars, late, healthy>>

HealthChanges ==
  /\ healthy' = ~healthy
  /\ UNCHANGED <<pc, late, cbVars, rlVars>>

HandlerStep(r) ==
  \/ RateAllowed(r)
  \/ RateDenied(r)
  \/ BreakerAdmits(r)
  \/ BreakerRejects(r)
  \/ UpstreamFails(r)
  \/ UpstreamAnswers(r)
  \/ StreamEnds(r)

SomeClientLeaves == \E r \in Req : ClientLeaves(r)

Next ==
  \/ \E r \in Req, ip \in Ips : RateCounts(r, ip)
  \/ \E r \in Req : RateUnreachable(r)
  \/ \E r \in Req : HandlerStep(r)
  \/ SomeClientLeaves
  \/ Tick
  \/ RedisRestarts
  \/ HealthChanges

Spec == Init /\ [][Next]_vars

(***************************************************************************)
(* Goroutines are scheduled, client.Do returns within its 120 s timeout,   *)
(* the Redis client within its own, and time passes.  Nothing makes        *)
(* clients send or leave, or the API change its health.                    *)
(***************************************************************************)
FairSpec ==
  /\ Spec
  /\ \A r \in Req : WF_vars(HandlerStep(r))
  /\ WF_vars(Tick)

-----------------------------------------------------------------------------
(***************************************************************************)
(* The handlers use the breaker as BreakerClients has it: each admitted    *)
(* request reports exactly one outcome, at whatever time, and nobody else  *)
(* reports; so what is shown there of the breaker holds in the gateway.    *)
(***************************************************************************)
UsesBreaker == CB!Spec

(***************************************************************************)
(* While the breaker is open, every request still upstream was admitted    *)
(* before it opened (Allow): an open breaker adds no load to the API.      *)
(***************************************************************************)
OpenAddsNoLoad == state = "open" => Upstream \subseteq late

(***************************************************************************)
(* Recovery: if the API stays healthy and no client leaves from some point *)
(* on, and requests keep getting past the rate limiter, the breaker ends   *)
(* up closed for good.                                                     *)
(***************************************************************************)
Recovery ==
  (/\ <>[]healthy
   /\ <>[][~SomeClientLeaves]_vars
   /\ []<>(\E r \in Req : pc[r] = "breaker"))
  => <>[](state = "closed")
=============================================================================
