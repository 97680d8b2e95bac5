-------------------------- MODULE SSEGateway_proofs --------------------------
(***************************************************************************)
(* Proofs about the gateway's handlers, for any finite number of them and  *)
(* every setting of the breaker and the limiter: that they use the breaker *)
(* as BreakerClients has it, so that what SharedState_proofs shows of the  *)
(* breaker holds in the gateway, and that an open breaker adds no load.    *)
(***************************************************************************)
EXTENDS SSEGateway, FiniteSetTheorems, TLAPS

IInv == TypeOK /\ OpenAddsNoLoad

(* The requests upstream can be counted, and r counts for one.             *)
LEMMA UpstreamCounted ==
  /\ IsFiniteSet(Upstream) /\ Cardinality(Upstream) \in 0 .. Cardinality(Req)
  /\ Cardinality(Req) \in Nat \ {0}
  /\ \A r \in Req \ Upstream : Cardinality(Upstream) < Cardinality(Req)
<1>1. IsFiniteSet(Req) /\ Upstream \subseteq Req /\ Cardinality(Req) \in Nat
  BY GatewayAssumption, FS_CardinalityType DEF Upstream
<1>2. /\ IsFiniteSet(Upstream) /\ Cardinality(Upstream) \in Nat
      /\ Cardinality(Upstream) <= Cardinality(Req)
      /\ Upstream # Req => Cardinality(Upstream) < Cardinality(Req)
  BY <1>1, FS_Subset, FS_CardinalityType
<1>3. Cardinality(Req) # 0
  BY <1>1, FS_EmptySet, GatewayAssumption
<1>4. QED
  BY <1>1, <1>2, <1>3

(* No request was made to begin with.                                      *)
LEMMA InitIInv == Init => IInv
<1> SUFFICES ASSUME Init PROVE IInv
  OBVIOUS
<1> USE GatewayAssumption
<1>1. pc \in [Req -> Stages] /\ Upstream = {} /\ late = {}
  BY DEF Init, Stages, Upstream
<1>2. RL!LimiterTypeOK
  BY DEF Init, RL!LimiterInit, RL!LimiterTypeOK, RL!MaxCount, RL!NoTtl
<1>3. CB!BreakerTypeOK /\ lastFail \in [1 .. Threshold -> 0 .. CB!Expired]
  BY DEF Init, CB!BreakerInit, CB!BreakerTypeOK, CB!Forgiven, CB!CBState, CB!Closed,
         CB!Expired, CB!Past
<1>4. healthy \in BOOLEAN
  BY DEF Init
<1>5. QED
  BY <1>1, <1>2, <1>3, <1>4 DEF IInv, TypeOK, OpenAddsNoLoad

-----------------------------------------------------------------------------
(***************************************************************************)
(* Types, part by part.                                                    *)
(***************************************************************************)
(* Whatever requests, restarts or the clock do to Redis' keys.             *)
LimiterStep ==
  \/ \E r \in Req, ip \in Ips : RL!Count(r, ip)
  \/ \E p \in running : RL!AllowWithin(p) \/ RL!FailsCounted(p) \/ RL!DenyOver(p)
  \/ RL!RedisRestarts
  \/ RL!LimiterTick
  \/ UNCHANGED rlVars

(* The limiter's operations keep its types.                                *)
LEMMA LimiterTypesKept == RL!LimiterTypeOK /\ LimiterStep => RL!LimiterTypeOK'
<1> SUFFICES ASSUME RL!LimiterTypeOK, LimiterStep PROVE RL!LimiterTypeOK'
  OBVIOUS
<1> USE GatewayAssumption DEF RL!LimiterTypeOK, RL!MaxCount, RL!NoTtl
<1>1. ASSUME NEW r \in Req, NEW ip \in Ips, RL!Count(r, ip) PROVE RL!LimiterTypeOK'
  <2>1. RL!Incremented(ip) \in 1 .. RL!MaxCount
    BY DEF RL!Incremented
  <2>2. RL!Counted(r, ip) \in RL!Pipeline
    BY <2>1 DEF RL!Counted, RL!Pipeline
  <2>3. QED
    BY <1>1, <2>1, <2>2 DEF RL!Count
<1>2. ASSUME NEW p \in running, RL!AllowWithin(p) \/ RL!FailsCounted(p) \/ RL!DenyOver(p)
      PROVE  RL!LimiterTypeOK'
  <2>1. RL!Ended(p) /\ (RL!Expire(p.ip) \/ UNCHANGED ttl)
    BY <1>2 DEF RL!AllowWithin, RL!FailsCounted, RL!DenyOver
  <2>2. p.ip \in Ips
    BY DEF RL!Pipeline
  <2>3. QED
    BY <2>1, <2>2 DEF RL!Ended, RL!Expire
<1>3. CASE RL!RedisRestarts
  BY <1>3 DEF RL!RedisRestarts
<1>4. CASE RL!LimiterTick
  BY <1>4 DEF RL!LimiterTick
<1>5. CASE UNCHANGED rlVars
  BY <1>5 DEF rlVars
<1>6. QED
  BY <1>1, <1>2, <1>3, <1>4, <1>5 DEF LimiterStep

(* Whatever a handler or the clock does to the breaker.                    *)
HistoryTypeOK == lastFail \in [1 .. Threshold -> 0 .. CB!Expired]

(* The breaker's operations keep its types.                                *)
LEMMA BreakerTypesKept ==
  ASSUME CB!BreakerTypeOK, HistoryTypeOK, Next \/ UNCHANGED vars
  PROVE  CB!BreakerTypeOK' /\ HistoryTypeOK'
<1> USE GatewayAssumption
    DEF CB!BreakerTypeOK, HistoryTypeOK, CB!CBState, CB!Closed, CB!Open, CB!HalfOpen,
        CB!Expired, CB!Past
<1>1. CASE UNCHANGED cbVars
  BY <1>1 DEF cbVars
<1>2. ASSUME NEW r \in Req, BreakerAdmits(r) PROVE CB!BreakerTypeOK' /\ HistoryTypeOK'
  BY <1>2 DEF BreakerAdmits, CB!AllowAdmits
<1>3. ASSUME NEW r \in Req, BreakerRejects(r) PROVE UNCHANGED cbVars
  BY <1>3 DEF BreakerRejects, CB!AllowRejects, CB!cbVars, cbVars
<1>4. ASSUME NEW r \in Req, ReportFailure(r) PROVE CB!BreakerTypeOK' /\ HistoryTypeOK'
  <2>1. CB!BreakerTypeOK'
    BY <1>4 DEF ReportFailure, CB!RecordFailure
  <2>2. HistoryTypeOK'
    BY <1>4 DEF ReportFailure
  <2>3. QED
    BY <2>1, <2>2
<1>5. ASSUME NEW r \in Req, UpstreamAnswers(r) PROVE CB!BreakerTypeOK' /\ HistoryTypeOK'
  BY <1>5 DEF UpstreamAnswers, CB!RecordSuccess, CB!Forgiven
<1>6. CASE Tick
  BY <1>6 DEF Tick, CB!BreakerTick
<1>7. \/ UNCHANGED cbVars \/ Tick
      \/ \E r \in Req : \/ BreakerAdmits(r) \/ BreakerRejects(r)
                        \/ ReportFailure(r) \/ UpstreamAnswers(r)
  BY DEF Next, HandlerStep, SomeClientLeaves, ClientLeaves, UpstreamFails, RateCounts,
         RateUnreachable, RateAllowed, RateDenied, StreamEnds, RedisRestarts, HealthChanges, vars
<1>8. QED
  BY <1>1, <1>2, <1>3, <1>4, <1>5, <1>6, <1>7

(* A handler's steps that neither begin nor end a request upstream.        *)
Elsewhere(r) ==
  \/ BreakerRejects(r) \/ StreamEnds(r)
  \/ RateUnreachable(r) \/ RateAllowed(r) \/ RateDenied(r)
  \/ \E ip \in Ips : RateCounts(r, ip)

(* What each step does to the handlers, and to which of them are upstream. *)
LEMMA HandlersMove ==
  ASSUME pc \in [Req -> Stages], Next \/ UNCHANGED vars
  PROVE  /\ pc' \in [Req -> Stages]
         /\ \/ Upstream' = Upstream /\ UNCHANGED late
            \/ \E r \in Req \ Upstream : BreakerAdmits(r) /\ Upstream' = Upstream \cup {r}
            \/ \E r \in Upstream : /\ ReportFailure(r) \/ UpstreamAnswers(r)
                                   /\ Upstream' = Upstream \ {r}
<1> USE DEF Stages
<1>1. ASSUME NEW r \in Req, NEW s \in Stages, Goto(r, s)
      PROVE  /\ pc' \in [Req -> Stages]
             /\ \A q \in Req : pc'[q] = IF q = r THEN s ELSE pc[q]
  BY <1>1 DEF Goto
<1>2. ASSUME NEW r \in Req, NEW s \in Stages \ {"upstream"}, pc[r] # "upstream", Goto(r, s)
      PROVE  pc' \in [Req -> Stages] /\ Upstream' = Upstream
  BY <1>1, <1>2 DEF Upstream
<1>3. ASSUME NEW r \in Req, NEW s \in Stages \ {"upstream"}, pc[r] = "upstream", Goto(r, s)
      PROVE  pc' \in [Req -> Stages] /\ Upstream' = Upstream \ {r} /\ r \in Upstream
  BY <1>1, <1>3 DEF Upstream
<1>4. ASSUME NEW r \in Req, BreakerAdmits(r)
      PROVE  pc' \in [Req -> Stages] /\ Upstream' = Upstream \cup {r} /\ r \in Req \ Upstream
  BY <1>1, <1>4 DEF Upstream, BreakerAdmits
<1>5. ASSUME NEW r \in Req, Elsewhere(r)
      PROVE  pc' \in [Req -> Stages] /\ Upstream' = Upstream /\ UNCHANGED late
  BY <1>2, <1>5 DEF Elsewhere, BreakerRejects, StreamEnds, RateCounts, RateUnreachable,
                    RateAllowed, RateDenied
<1>6. ASSUME NEW r \in Req, ReportFailure(r) \/ UpstreamAnswers(r)
      PROVE  pc' \in [Req -> Stages] /\ Upstream' = Upstream \ {r} /\ r \in Upstream
  BY <1>3, <1>6 DEF ReportFailure, UpstreamAnswers
<1>7. CASE UNCHANGED <<pc, late>>
  BY <1>7 DEF Upstream
<1>8. \/ UNCHANGED <<pc, late>>
      \/ \E r \in Req : Elsewhere(r)
      \/ \E r \in Req : BreakerAdmits(r) \/ ReportFailure(r) \/ UpstreamAnswers(r)
  BY DEF Elsewhere, Next, HandlerStep, SomeClientLeaves, ClientLeaves, UpstreamFails, Tick,
         RedisRestarts, HealthChanges, vars
<1>9. QED
  BY <1>4, <1>5, <1>6, <1>7, <1>8

(* Every step of a handler keeps the invariant.                            *)
LEMMA NextIInv == IInv /\ [Next]_vars => IInv'
<1> SUFFICES ASSUME IInv, [Next]_vars PROVE IInv'
  OBVIOUS
<1>1. /\ pc \in [Req -> Stages] /\ RL!LimiterTypeOK /\ CB!BreakerTypeOK /\ HistoryTypeOK
      /\ late \subseteq Upstream /\ healthy \in BOOLEAN
      /\ state = "open" => Upstream \subseteq late
  BY DEF IInv, TypeOK, OpenAddsNoLoad, HistoryTypeOK
<1>2. RL!LimiterTypeOK'
  <2>1. LimiterStep
    BY DEF LimiterStep, Next, HandlerStep, SomeClientLeaves, ClientLeaves, UpstreamFails,
           ReportFailure, UpstreamAnswers, BreakerAdmits, BreakerRejects, RateCounts,
           RateUnreachable, RateAllowed, RateDenied, StreamEnds, Tick, RedisRestarts,
           HealthChanges, vars, RL!FailsUncounted, rlVars, RL!rlVars
  <2>2. QED
    BY <1>1, <2>1, LimiterTypesKept
<1>3. CB!BreakerTypeOK' /\ HistoryTypeOK'
  BY <1>1, BreakerTypesKept
<1>4. healthy' \in BOOLEAN
  <2>1. healthy' = healthy \/ healthy' = ~healthy
    BY DEF Next, HandlerStep, SomeClientLeaves, ClientLeaves, UpstreamFails, ReportFailure,
           UpstreamAnswers, BreakerAdmits, BreakerRejects, RateCounts, RateUnreachable, RateAllowed,
           RateDenied, StreamEnds, Tick, RedisRestarts, HealthChanges, vars
  <2>2. QED
    BY <1>1, <2>1
<1>5. late' \subseteq Upstream' /\ (state' = "open" => Upstream' \subseteq late')
  <2>1. CASE Upstream' = Upstream /\ UNCHANGED late
    <3>1. state' = "open" => state = "open" \/ \E r \in Req : ReportFailure(r)
      BY DEF Next, HandlerStep, SomeClientLeaves, ClientLeaves, UpstreamFails, UpstreamAnswers,
             BreakerAdmits, BreakerRejects, RateCounts, RateUnreachable, RateAllowed,
             RateDenied, StreamEnds, Tick, RedisRestarts, HealthChanges, vars, cbVars, CB!AllowAdmits, CB!AllowRejects, CB!cbVars,
             CB!RecordSuccess, CB!BreakerTick, CB!Closed, CB!HalfOpen, CB!Open
    <3>2. ~\E r \in Req : ReportFailure(r)
      BY <1>1, <2>1 DEF ReportFailure, Goto, Upstream, Stages
    <3>3. QED
      BY <1>1, <2>1, <3>1, <3>2
  <2>2. ASSUME NEW r \in Req \ Upstream, BreakerAdmits(r), Upstream' = Upstream \cup {r}
        PROVE  late' \subseteq Upstream' /\ (state' = "open" => Upstream' \subseteq late')
    <3>1. late' = late /\ state' # "open"
      BY <2>2 DEF BreakerAdmits, CB!AllowAdmits, CB!Open, CB!HalfOpen
    <3>2. QED
      BY <1>1, <2>2, <3>1
  <2>3. ASSUME NEW r \in Upstream, ReportFailure(r), Upstream' = Upstream \ {r}
        PROVE  late' \subseteq Upstream' /\ (state' = "open" => Upstream' \subseteq late')
    BY <1>1, <2>3 DEF ReportFailure
  <2>4. ASSUME NEW r \in Upstream, UpstreamAnswers(r), Upstream' = Upstream \ {r}
        PROVE  late' \subseteq Upstream' /\ (state' = "open" => Upstream' \subseteq late')
    BY <1>1, <2>4 DEF UpstreamAnswers, CB!RecordSuccess, CB!Closed
  <2>5. QED
    BY <1>1, <2>1, <2>2, <2>3, <2>4, HandlersMove
<1>6. pc' \in [Req -> Stages]
  BY <1>1, HandlersMove
<1>7. QED
  BY <1>2, <1>3, <1>4, <1>5, <1>6 DEF IInv, TypeOK, OpenAddsNoLoad, HistoryTypeOK

(***************************************************************************)
(* The gateway's variables keep their types.                               *)
(***************************************************************************)
THEOREM TypeCorrect == Spec => []TypeOK
<1>1. IInv => TypeOK
  BY DEF IInv
<1>2. QED
  BY InitIInv, NextIInv, <1>1, PTL DEF Spec

(***************************************************************************)
(* While the breaker is open every request upstream was admitted before it *)
(* opened (CircuitBreaker.Allow), however the handlers interleave.         *)
(***************************************************************************)
THEOREM OpenBreakerShedsLoad == Spec => []OpenAddsNoLoad
<1>1. IInv => OpenAddsNoLoad
  BY DEF IInv
<1>2. QED
  BY InitIInv, NextIInv, <1>1, PTL DEF Spec

-----------------------------------------------------------------------------
(***************************************************************************)
(* The handlers implement the breaker's clients.                           *)
(***************************************************************************)
LEMMA InitMaps == Init => CB!Init
<1> SUFFICES ASSUME Init PROVE CB!Init
  OBVIOUS
<1>1. Upstream = {}
  BY DEF Init, Upstream
<1>2. Cardinality(Upstream) = 0
  BY <1>1, FS_EmptySet
<1>3. QED
  BY <1>2 DEF Init, CB!Init

(* Every step of a handler is one of the breaker's clients, or none.       *)
LEMMA StepMaps == IInv /\ [Next]_vars => [CB!Next]_(CB!vars)
<1> SUFFICES ASSUME IInv, [Next]_vars PROVE [CB!Next]_(CB!vars)
  OBVIOUS
<1>1. pc \in [Req -> Stages]
  BY DEF IInv, TypeOK
<1>2. ASSUME NEW r \in Req \ Upstream, BreakerAdmits(r), Upstream' = Upstream \cup {r}
      PROVE  CB!Admitted
  <2>1. Cardinality(Upstream') = Cardinality(Upstream) + 1
    BY <1>2, UpstreamCounted, FS_AddElement
  <2>2. Cardinality(Upstream) < Cardinality(Req)
    BY UpstreamCounted
  <2>3. QED
    BY <1>2, <2>1, <2>2 DEF BreakerAdmits, CB!Admitted
<1>3. ASSUME NEW r \in Upstream, ReportFailure(r) \/ UpstreamAnswers(r), Upstream' = Upstream \ {r}
      PROVE  CB!Failed \/ CB!Succeeded
  <2>1. Cardinality(Upstream') = Cardinality(Upstream) - 1
    BY <1>3, UpstreamCounted, FS_RemoveElement
  <2>2. Cardinality(Upstream) > 0
    <3>1. Cardinality(Upstream) # 0
      BY UpstreamCounted, FS_EmptySet
    <3>2. QED
      BY <3>1, UpstreamCounted
  <2>3. CASE ReportFailure(r)
    BY <2>1, <2>2, <2>3 DEF ReportFailure, CB!Failed
  <2>4. CASE UpstreamAnswers(r)
    BY <2>1, <2>2, <2>4 DEF UpstreamAnswers, CB!Succeeded
  <2>5. QED
    BY <1>3, <2>3, <2>4
<1>4. ASSUME Upstream' = Upstream, UNCHANGED late PROVE [CB!Next]_(CB!vars)
  <2>1. ~\E r \in Req : BreakerAdmits(r) \/ ReportFailure(r) \/ UpstreamAnswers(r)
    BY <1>1, <1>4 DEF BreakerAdmits, ReportFailure, UpstreamAnswers, Goto, Upstream, Stages
  <2>2. UNCHANGED cbVars \/ Tick \/ \E r \in Req : BreakerRejects(r)
    BY <2>1 DEF Next, HandlerStep, SomeClientLeaves, ClientLeaves, UpstreamFails, RateCounts,
                RateUnreachable, RateAllowed, RateDenied, StreamEnds, RedisRestarts, HealthChanges, vars
  <2>3. CASE UNCHANGED cbVars
    BY <1>4, <2>3 DEF cbVars, CB!vars
  <2>4. CASE Tick
    BY <1>4, <2>4 DEF Tick, CB!Next, CB!Tick
  <2>5. CASE \E r \in Req : BreakerRejects(r)
    BY <1>4, <2>5 DEF BreakerRejects, CB!Next, CB!Rejected
  <2>6. QED
    BY <2>2, <2>3, <2>4, <2>5
<1>5. QED
  BY <1>1, <1>2, <1>3, <1>4, HandlersMove DEF CB!Next

(***************************************************************************)
(* Each admitted request reports exactly one outcome to the breaker, and   *)
(* nobody else reports (SSEHandler.ServeHTTP): the gateway implements      *)
(* BreakerClients.                                                         *)
(***************************************************************************)
THEOREM HandlersUseBreaker == Spec => UsesBreaker
<1>1. QED
  BY InitIInv, NextIInv, InitMaps, StepMaps, PTL DEF Spec, UsesBreaker, CB!Spec
=============================================================================
