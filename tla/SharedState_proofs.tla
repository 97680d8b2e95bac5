------------------------- MODULE SharedState_proofs --------------------------
(***************************************************************************)
(* Proofs about what the gateway's handlers share: the circuit breaker,    *)
(* for every threshold, window, open period and number of requests in      *)
(* flight; and the rate limiter, for every set of clients, limit, window   *)
(* and number of requests that ask it at once, whatever pipelines are cut  *)
(* off and however often Redis restarts.                                   *)
(***************************************************************************)
EXTENDS BreakerClients, LimiterClients, FiniteSetTheorems, TLAPS

(* The counter is inductive together with the types.                       *)
CounterInv == TypeOK /\ CountedAreRecent

(* Nothing is counted to begin with.                                       *)
LEMMA InitCounterInv == Init => CounterInv
  BY BreakerAssumption, ClientsAssumption
  DEF Init, CounterInv, TypeOK, BreakerTypeOK, BreakerInit, CountedAreRecent,
      Forgiven, CBState, Closed, Expired, Past

(* Every step of the breaker and of its clients preserves CounterInv.      *)
LEMMA NextCounterInv == CounterInv /\ [Next]_vars => CounterInv'
<1> SUFFICES ASSUME CounterInv, [Next]_vars PROVE CounterInv'
  OBVIOUS
<1> USE BreakerAssumption, ClientsAssumption
        DEF CounterInv, TypeOK, BreakerTypeOK, CountedAreRecent,
            CBState, Closed, Open, HalfOpen, Expired, Past
<1>1. CASE Admitted
  BY <1>1 DEF Admitted, AllowAdmits
<1>2. CASE Rejected
  BY <1>2 DEF Rejected, AllowRejects, cbVars
<1>3. CASE Succeeded
  BY <1>3 DEF Succeeded, RecordSuccess, Forgiven
<1>4. CASE Failed
  <2>1. TypeOK'
    BY <1>4 DEF Failed, RecordFailure
  <2>2. ASSUME NEW i \in 1 .. Threshold, i <= failures'
        PROVE  lastFail'[i] <= windowAge'
    <3>1. CASE i = 1
      BY <1>4, <3>1 DEF Failed, RecordFailure
    <3>2. CASE i # 1
      BY <1>4, <2>2, <3>2 DEF Failed, RecordFailure
    <3>3. QED
      BY <3>1, <3>2
  <2>3. QED
    BY <2>1, <2>2
<1>5. CASE Tick
  BY <1>5 DEF Tick, BreakerTick
<1>6. CASE UNCHANGED vars
  BY <1>6 DEF vars
<1>7. QED
  BY <1>1, <1>2, <1>3, <1>4, <1>5, <1>6 DEF Next

(***************************************************************************)
(* The breaker's variables keep their types.                               *)
(***************************************************************************)
THEOREM BreakerTypeCorrect == Spec => []TypeOK
<1>1. CounterInv => TypeOK
  BY DEF CounterInv
<1>2. QED
  BY InitCounterInv, NextCounterInv, <1>1, PTL DEF Spec

(***************************************************************************)
(* The failures the breaker counts are real, recent and consecutive        *)
(* (RecordFailure, RecordSuccess).                                         *)
(***************************************************************************)
THEOREM CounterIsSound == Spec => []CountedAreRecent
<1>1. CounterInv => CountedAreRecent
  BY DEF CounterInv
<1>2. QED
  BY InitCounterInv, NextCounterInv, <1>1, PTL DEF Spec

(***************************************************************************)
(* No false trip: whenever the breaker opens or re-opens, Threshold        *)
(* consecutive failures lie within WindowSecs of each other.               *)
(***************************************************************************)
THEOREM NoFalseTrip == Spec => TripJustified
<1>1. CounterInv /\ CounterInv' /\ [Next]_vars => [Trips => lastFail'[Threshold] <= WindowSecs]_vars
  <2> SUFFICES ASSUME CounterInv, CounterInv', Next, Trips
               PROVE  lastFail'[Threshold] <= WindowSecs
    OBVIOUS
  <2> USE BreakerAssumption, ClientsAssumption
          DEF CounterInv, TypeOK, BreakerTypeOK, CBState, Closed, Open, HalfOpen,
              Expired, Past, Trips
  <2>1. Failed
    BY DEF Next, Admitted, AllowAdmits, Rejected, AllowRejects, cbVars,
           Succeeded, RecordSuccess, Tick, BreakerTick
  <2>2. failures' >= Threshold /\ windowAge' <= WindowSecs
    BY <2>1 DEF Failed, RecordFailure
  <2>3. QED
    BY <2>2 DEF CountedAreRecent
<1>2. QED
  BY InitCounterInv, NextCounterInv, <1>1, PTL DEF Spec, TripJustified

-----------------------------------------------------------------------------
KeyInv == ClientsTypeOK /\ KeyCoversWindow

(***************************************************************************)
(* The arithmetic of one key: the counter c and time to live t of a client,*)
(* the ages a of its admissions, and the number d of its pipelines that    *)
(* are promised an admission.  Stated of constants, it can be used of the  *)
(* present state and of the next one.                                      *)
(***************************************************************************)
Least(c) == IF c < Limit THEN c ELSE Limit

KeyFacts(c, t, a, d) ==
  /\ c \in 0 .. Limit + 1
  /\ t \in -1 .. Window
  /\ a \in [1 .. Limit + 1 -> 0 .. Window]
  /\ d \in Nat /\ d <= Least(c)
  /\ c = 0 <=> t = 0
  /\ \A i \in 1 .. Limit + 1 : i > Least(c) - d => a[i] = Window
  /\ t # -1 => \A i \in 1 .. Limit + 1 : a[i] + t >= Window

Covered(q) == KeyFacts(count[q], ttl[q], admitAge[q], Cardinality(Promised(q)))

(* Of a finite set of pipelines, those promised can be counted.            *)
LEMMA PromisedCounted ==
  ClientsTypeOK => \A q \in Ips : IsFiniteSet(Promised(q)) /\ Cardinality(Promised(q)) \in Nat
<1> SUFFICES ASSUME ClientsTypeOK, NEW q \in Ips
             PROVE  IsFiniteSet(Promised(q)) /\ Cardinality(Promised(q)) \in Nat
  OBVIOUS
<1>1. IsFiniteSet(whole) /\ Promised(q) \subseteq whole
  BY DEF ClientsTypeOK, Promised
<1>2. QED
  BY <1>1, FS_Subset, FS_CardinalityType

(* KeyInv is Covered of every client.                                      *)
LEMMA PerKey == ClientsTypeOK => (KeyInv <=> \A q \in Ips : Covered(q))
<1> SUFFICES ASSUME ClientsTypeOK PROVE KeyInv <=> \A q \in Ips : Covered(q)
  OBVIOUS
<1> USE LimiterAssumption
<1>1. ASSUME NEW q \in Ips
      PROVE  /\ count[q] \in 0 .. Limit + 1 /\ ttl[q] \in -1 .. Window
             /\ admitAge[q] \in [1 .. Limit + 1 -> 0 .. Window]
             /\ Cardinality(Promised(q)) \in Nat
  BY PromisedCounted DEF ClientsTypeOK, LimiterTypeOK, MaxCount, NoTtl, Ages, Recent
<1>2. ASSUME NEW q \in Ips
      PROVE  Covered(q) <=>
             /\ count[q] = 0 <=> ttl[q] = 0
             /\ Taken(q) >= 0
             /\ \A i \in Recent : i > Taken(q) => admitAge[q][i] = Window
             /\ ttl[q] # NoTtl => \A i \in Recent : admitAge[q][i] + ttl[q] >= Window
  <2>1. Taken(q) = Least(count[q]) - Cardinality(Promised(q))
    BY DEF Taken, Least
  <2>2. Least(count[q]) \in Int
    BY <1>1 DEF Least
  <2>3. Taken(q) >= 0 <=> Cardinality(Promised(q)) <= Least(count[q])
    BY <1>1, <2>1, <2>2
  <2>4. QED
    BY <1>1, <2>1, <2>3 DEF Covered, KeyFacts, Recent, NoTtl
<1>3. QED
  BY <1>2 DEF KeyInv, KeyCoversWindow

(* The same of the next state.                                             *)
LEMMA PerKeyNext == ClientsTypeOK' /\ (\A q \in Ips : Covered(q)') => KeyInv'
<1>1. ClientsTypeOK' => (KeyInv' <=> (\A q \in Ips : Covered(q))')
  BY PerKey, PTL
<1>2. QED
  BY <1>1

(***************************************************************************)
(* An admission pushes the ages of its client one place back, and time     *)
(* moves them all up: both stay ages.                                      *)
(***************************************************************************)
LEMMA HistoryTypes ==
  /\ \A ages \in [Recent -> Ages] :
       Pushed(ages) \in [Recent -> Ages] /\ Older(ages) \in [Recent -> Ages]
  /\ \A age \in Ages : Aged(age) \in Ages
  /\ 0 \in Ages /\ Window \in Ages
  BY LimiterAssumption DEF Pushed, Older, Aged, Recent, Ages

(* A pipeline's INCR, within the limit and beyond it.                      *)
LEMMA CountKey ==
  ASSUME NEW c, NEW t, NEW a, NEW d, KeyFacts(c, t, a, d)
  PROVE  LET u == IF c = 0 THEN -1 ELSE t
         IN  /\ c < Limit => KeyFacts(c + 1, u, a, d + 1)
             /\ c >= Limit => KeyFacts(IF c < Limit + 1 THEN c + 1 ELSE Limit + 1, u, a, d)
  BY LimiterAssumption DEF KeyFacts, Least

(* A pipeline that ends without an admission, EXPIRE run or not.           *)
LEMMA EndKey ==
  ASSUME NEW c, NEW t, NEW a, NEW d, KeyFacts(c, t, a, d), NEW e \in Nat, e <= d
  PROVE  KeyFacts(c, IF c = 0 THEN 0 ELSE Window, a, e) /\ KeyFacts(c, t, a, e)
  BY LimiterAssumption DEF KeyFacts, Least

(* A pipeline that was promised an admission gets it.                      *)
LEMMA AdmitKey ==
  ASSUME NEW c, NEW t, NEW a, NEW d, KeyFacts(c, t, a, d), d > 0
  PROVE  KeyFacts(c, IF c = 0 THEN 0 ELSE Window, Pushed(a), d - 1)
<1> USE LimiterAssumption DEF KeyFacts
<1>1. Pushed(a) \in [1 .. Limit + 1 -> 0 .. Window]
  BY HistoryTypes DEF Recent, Ages
<1>2. c > 0 /\ Least(c) \in Nat /\ d - 1 \in Nat /\ d - 1 <= Least(c)
  BY DEF Least
<1>3. ASSUME NEW i \in 1 .. Limit + 1, i > Least(c) - (d - 1) PROVE Pushed(a)[i] = Window
  <2>1. i - 1 \in 1 .. Limit + 1 /\ i - 1 > Least(c) - d /\ i # 1
    BY <1>2, <1>3
  <2>2. QED
    BY <2>1 DEF Pushed, Recent
<1>4. QED
  BY <1>1, <1>2, <1>3

(* A unit of time: the key may expire, the ages grow.                      *)
LEMMA TickKey ==
  ASSUME NEW c, NEW t, NEW a, NEW d, KeyFacts(c, t, a, d)
  PROVE  KeyFacts(IF t = 1 THEN 0 ELSE c, IF t > 0 THEN t - 1 ELSE t, Older(a),
                  IF t = 1 THEN 0 ELSE d)
<1> USE LimiterAssumption DEF KeyFacts
<1>1. Older(a) \in [1 .. Limit + 1 -> 0 .. Window]
  BY HistoryTypes DEF Recent, Ages
<1>2. \A i \in 1 .. Limit + 1 :
        Older(a)[i] = IF a[i] < Window THEN a[i] + 1 ELSE Window
  BY DEF Older, Aged, Recent
<1>3. ASSUME NEW i \in 1 .. Limit + 1
      PROVE  /\ a[i] \in 0 .. Window
             /\ i > Least(c) - d => a[i] = Window
             /\ t # -1 => a[i] + t >= Window
  OBVIOUS
<1>4. ASSUME NEW i \in 1 .. Limit + 1
      PROVE  /\ t > 0 => Older(a)[i] + (t - 1) >= Window
             /\ t = 0 => Older(a)[i] = Window
             /\ t = 1 => Older(a)[i] = Window
             /\ i > Least(c) - d => Older(a)[i] = Window
  BY <1>2, <1>3
<1>5. CASE t = 1
  BY <1>1, <1>4, <1>5 DEF Least
<1>6. CASE t # 1
  BY <1>1, <1>4, <1>6
<1>7. QED
  BY <1>5, <1>6

(* What a restart leaves of a key, and of what is remembered of it.        *)
LEMMA RestartKey ==
  ASSUME NEW c \in 0 .. Limit + 1, NEW t \in -1 .. Window, c = 0 <=> t = 0
  PROVE  KeyFacts(c, t, [i \in Recent |-> Window], 0)
  BY LimiterAssumption DEF KeyFacts, Least, Recent

(* There are no keys to begin with.                                        *)
LEMMA InitKeyInv == ClientsInit => KeyInv
<1> SUFFICES ASSUME ClientsInit PROVE KeyInv
  OBVIOUS
<1> USE LimiterAssumption
<1>1. ClientsTypeOK
  <2>1. LimiterTypeOK
    BY DEF ClientsInit, LimiterInit, LimiterTypeOK, MaxCount, NoTtl
  <2>2. whole \subseteq running /\ IsFiniteSet(whole)
    BY FS_EmptySet DEF ClientsInit
  <2>3. QED
    BY <2>1, <2>2, HistoryTypes DEF ClientsInit, ClientsTypeOK, LongAgo
<1>2. ASSUME NEW q \in Ips PROVE Covered(q)
  <2>1. Promised(q) = {}
    BY DEF ClientsInit, Promised
  <2>2. Cardinality(Promised(q)) = 0
    BY <2>1, FS_EmptySet
  <2>3. QED
    BY <2>2, RestartKey DEF ClientsInit, LimiterInit, LongAgo, Covered
<1>3. QED
  BY <1>1, <1>2, PerKey

-----------------------------------------------------------------------------
(***************************************************************************)
(* What the steps do, one lemma each: to the types, and to each client's   *)
(* key and promises.                                                       *)
(***************************************************************************)
(* A pipeline's INCR.                                                      *)
LEMMA AskKeeps ==
  ASSUME KeyInv, NEW c \in Callers, NEW ip \in Ips, Ask(c, ip)
  PROVE  ClientsTypeOK' /\ \A q \in Ips : Covered(q)'
<1> USE LimiterAssumption DEF KeyInv
<1> DEFINE p == Counted(c, ip)
<1>1. /\ Incremented(ip) = IF count[ip] < Limit + 1 THEN count[ip] + 1 ELSE Limit + 1
      /\ Incremented(ip) \in 1 .. MaxCount
  BY DEF ClientsTypeOK, LimiterTypeOK, Incremented, MaxCount
<1>2. p \in Pipeline /\ p \notin running /\ p \notin whole /\ p.ip = ip /\ p.n = Incremented(ip)
  BY <1>1 DEF Ask, Count, Counted, Pipeline, ClientsTypeOK
<1>3. ClientsTypeOK'
  <2>1. LimiterTypeOK'
    BY <1>1, <1>2 DEF ClientsTypeOK, LimiterTypeOK, Ask, Count, NoTtl
  <2>2. whole' \subseteq running' /\ IsFiniteSet(whole')
    BY FS_AddElement DEF ClientsTypeOK, Ask, Count
  <2>3. QED
    BY <2>1, <2>2, HistoryTypes DEF ClientsTypeOK, Ask
<1>4. ASSUME NEW q \in Ips PROVE Covered(q)'
  <2>0. Covered(q) /\ IsFiniteSet(Promised(q)) /\ count[q] \in 0 .. Limit + 1
    BY PerKey, PromisedCounted DEF ClientsTypeOK, LimiterTypeOK, MaxCount
  <2>1. CASE q = ip /\ count[ip] < Limit
    <3>1. Promised(q)' = Promised(q) \cup {p} /\ p \notin Promised(q)
      BY <1>1, <1>2, <2>1, <2>0 DEF Ask, Promised
    <3>2. Cardinality(Promised(q)') = Cardinality(Promised(q)) + 1
      BY <2>0, <3>1, FS_AddElement
    <3>3. count'[q] = count[q] + 1 /\ ttl'[q] = (IF count[q] = 0 THEN -1 ELSE ttl[q])
          /\ admitAge' = admitAge
      BY <1>1, <2>0, <2>1 DEF Ask, Count, ClientsTypeOK, LimiterTypeOK, NoTtl
    <3>4. QED
      BY <2>0, <2>1, <3>2, <3>3, CountKey DEF Covered
  <2>2. CASE q = ip /\ ~(count[ip] < Limit)
    <3>1. Promised(q)' = Promised(q)
      BY <1>1, <1>2, <2>0, <2>2 DEF Ask, Promised
    <3>2. /\ count'[q] = (IF count[q] < Limit + 1 THEN count[q] + 1 ELSE Limit + 1)
          /\ ttl'[q] = (IF count[q] = 0 THEN -1 ELSE ttl[q])
          /\ admitAge' = admitAge
      BY <1>1, <2>2 DEF Ask, Count, ClientsTypeOK, LimiterTypeOK, NoTtl
    <3>3. count[q] >= Limit
      BY <2>0, <2>2
    <3>4. QED
      BY <2>0, <3>1, <3>2, <3>3, CountKey DEF Covered
  <2>3. CASE q # ip
    <3>1. Promised(q)' = Promised(q)
      BY <1>2, <2>3 DEF Ask, Promised
    <3>2. count'[q] = count[q] /\ ttl'[q] = ttl[q] /\ admitAge' = admitAge
      BY <2>3 DEF Ask, Count, ClientsTypeOK, LimiterTypeOK
    <3>3. QED
      BY <2>0, <3>1, <3>2 DEF Covered
  <2>4. QED
    BY <2>1, <2>2, <2>3
<1>5. QED
  BY <1>3, <1>4

(* The end of a pipeline takes away its own promise and nobody else's.     *)
LEMMA EndPromise ==
  ASSUME ClientsTypeOK, NEW p \in running, whole' = whole \ {p}, NEW q \in Ips
  PROVE  /\ Cardinality(Promised(q)') \in Nat
         /\ Cardinality(Promised(q)') <= Cardinality(Promised(q))
         /\ p \in Promised(q) => /\ Cardinality(Promised(q)) > 0
                                 /\ Cardinality(Promised(q)') = Cardinality(Promised(q)) - 1
<1>1. Promised(q)' = Promised(q) \ {p}
  BY DEF Promised
<1>2. IsFiniteSet(Promised(q)) /\ Cardinality(Promised(q)) \in Nat
  BY PromisedCounted
<1>3. CASE p \in Promised(q)
  <2>1. Cardinality(Promised(q)) # 0
    BY <1>2, <1>3, FS_EmptySet
  <2>2. Cardinality(Promised(q)') = Cardinality(Promised(q)) - 1
    BY <1>1, <1>2, <1>3, FS_RemoveElement
  <2>3. QED
    BY <1>2, <2>1, <2>2
<1>4. CASE p \notin Promised(q)
  <2>1. Promised(q)' = Promised(q)
    BY <1>1, <1>4
  <2>2. QED
    BY <1>2, <1>4, <2>1
<1>5. QED
  BY <1>3, <1>4

(* What every end of a pipeline does.                                      *)
EndsWith(p, after) ==
  /\ Ended(p) /\ Commanded(p)
  /\ Expire(p.ip) \/ UNCHANGED ttl
  /\ admitAge' = after

(* The types survive it.                                                   *)
LEMMA EndTypes ==
  ASSUME ClientsTypeOK, NEW p \in running, NEW after \in [Ips -> [Recent -> Ages]],
         EndsWith(p, after)
  PROVE  ClientsTypeOK'
<1> USE LimiterAssumption
<1>1. p.ip \in Ips
  BY DEF ClientsTypeOK, LimiterTypeOK, Pipeline
<1>2. LimiterTypeOK'
  BY DEF ClientsTypeOK, LimiterTypeOK, EndsWith, Ended, Expire, NoTtl
<1>3. whole' \subseteq running' /\ IsFiniteSet(whole')
  BY FS_RemoveElement DEF ClientsTypeOK, EndsWith, Ended, Commanded
<1>4. quiet' \in [Ips -> Ages]
  BY HistoryTypes DEF ClientsTypeOK, EndsWith, Commanded
<1>5. QED
  BY <1>2, <1>3, <1>4 DEF ClientsTypeOK, EndsWith

(* A pipeline that ends without an admission that counts.                  *)
LEMMA EndKeeps ==
  ASSUME KeyInv, NEW p \in running, EndsWith(p, admitAge)
  PROVE  ClientsTypeOK' /\ \A q \in Ips : Covered(q)'
<1>1. ClientsTypeOK /\ p.ip \in Ips
  BY DEF KeyInv, ClientsTypeOK, LimiterTypeOK, Pipeline
<1>2. ClientsTypeOK'
  BY <1>1, EndTypes DEF ClientsTypeOK
<1>3. ASSUME NEW q \in Ips PROVE Covered(q)'
  <2>1. Covered(q)
    BY <1>1, PerKey
  <2>2. /\ count' = count /\ admitAge' = admitAge
        /\ ttl'[q] = ttl[q] \/ ttl'[q] = IF count[q] = 0 THEN 0 ELSE Window
    BY <1>1 DEF EndsWith, Ended, Expire, ClientsTypeOK, LimiterTypeOK
  <2>3. /\ Cardinality(Promised(q)') \in Nat
        /\ Cardinality(Promised(q)') <= Cardinality(Promised(q))
    BY <1>1, EndPromise DEF EndsWith, Commanded
  <2>4. QED
    BY <2>1, <2>2, <2>3, EndKey DEF Covered
<1>4. QED
  BY <1>2, <1>3

(* A pipeline that is admitted and whose key is still the one it counted.  *)
LEMMA AdmitKeeps ==
  ASSUME KeyInv, NEW p \in running, Admit(p), p \in whole
  PROVE  ClientsTypeOK' /\ \A q \in Ips : Covered(q)'
<1> DEFINE after == [admitAge EXCEPT ![p.ip] = Pushed(@)]
<1>1. ClientsTypeOK /\ p.ip \in Ips /\ p \in Promised(p.ip)
  BY DEF KeyInv, ClientsTypeOK, LimiterTypeOK, Pipeline, Promised, Admit, AllowWithin
<1>2. admitAge' = after /\ after \in [Ips -> [Recent -> Ages]]
  BY <1>1, HistoryTypes DEF Admit, ClientsTypeOK
<1>3. EndsWith(p, after)
  BY <1>2 DEF EndsWith, Admit, AllowWithin
<1>4. ClientsTypeOK'
  BY <1>1, <1>2, <1>3, EndTypes
<1>5. ASSUME NEW q \in Ips PROVE Covered(q)'
  <2>1. Covered(q)
    BY <1>1, PerKey
  <2>2. whole' = whole \ {p}
    BY <1>3 DEF EndsWith, Commanded
  <2>3. CASE q = p.ip
    <3>1. /\ Cardinality(Promised(q)) > 0
          /\ Cardinality(Promised(q)') = Cardinality(Promised(q)) - 1
      BY <1>1, <2>2, <2>3, EndPromise
    <3>2. /\ count' = count /\ admitAge'[q] = Pushed(admitAge[q])
          /\ ttl'[q] = IF count[q] = 0 THEN 0 ELSE Window
      BY <1>1, <1>2, <2>3 DEF Admit, AllowWithin, Ended, Expire, ClientsTypeOK, LimiterTypeOK
    <3>3. QED
      BY <2>1, <3>1, <3>2, AdmitKey DEF Covered
  <2>4. CASE q # p.ip
    <3>1. count' = count /\ admitAge'[q] = admitAge[q] /\ ttl'[q] = ttl[q]
      BY <1>1, <1>2, <2>4 DEF Admit, AllowWithin, Ended, Expire, ClientsTypeOK, LimiterTypeOK
    <3>2. /\ Cardinality(Promised(q)') \in Nat
          /\ Cardinality(Promised(q)') <= Cardinality(Promised(q))
      BY <1>1, <2>2, EndPromise
    <3>3. QED
      BY <2>1, <3>1, <3>2, EndKey DEF Covered
  <2>5. QED
    BY <2>3, <2>4
<1>6. QED
  BY <1>4, <1>5

(* A unit of time.                                                         *)
LEMMA TickKeeps ==
  ASSUME KeyInv, ClientsTick
  PROVE  ClientsTypeOK' /\ \A q \in Ips : Covered(q)'
<1> USE LimiterAssumption
<1>1. ClientsTypeOK /\ LimiterTypeOK
  BY DEF KeyInv, ClientsTypeOK
<1>2. ClientsTypeOK'
  <2>1. LimiterTypeOK'
    BY <1>1 DEF ClientsTick, LimiterTick, LimiterTypeOK, NoTtl, MaxCount
  <2>2. whole' \subseteq whole /\ whole' \subseteq running'
    BY <1>1 DEF ClientsTick, LimiterTick, ClientsTypeOK
  <2>3. IsFiniteSet(whole')
    BY <1>1, <2>2, FS_Subset DEF ClientsTypeOK
  <2>4. QED
    BY <1>1, <2>1, <2>2, <2>3, HistoryTypes DEF ClientsTick, ClientsTypeOK
<1>3. ASSUME NEW q \in Ips PROVE Covered(q)'
  <2>1. /\ count'[q] = IF ttl[q] = 1 THEN 0 ELSE count[q]
        /\ ttl'[q] = IF ttl[q] > 0 THEN ttl[q] - 1 ELSE ttl[q]
        /\ admitAge'[q] = Older(admitAge[q])
    BY DEF ClientsTick, LimiterTick
  <2>2. Promised(q)' = IF ttl[q] = 1 THEN {} ELSE Promised(q)
    BY DEF ClientsTick, Promised
  <2>3. Cardinality(Promised(q)') = IF ttl[q] = 1 THEN 0 ELSE Cardinality(Promised(q))
    BY <2>2, FS_EmptySet
  <2>4. Covered(q)
    BY <1>1, PerKey
  <2>5. QED
    BY <2>1, <2>3, <2>4, TickKey DEF Covered
<1>4. QED
  BY <1>2, <1>3

(* A restart of Redis.                                                     *)
LEMMA RestartKeeps ==
  ASSUME KeyInv, Forgotten
  PROVE  ClientsTypeOK' /\ \A q \in Ips : Covered(q)'
<1> USE LimiterAssumption
<1>1. ClientsTypeOK /\ LimiterTypeOK
  BY DEF KeyInv, ClientsTypeOK
<1>2. PICK old \in [Ips -> (0 .. MaxCount) \X (NoTtl .. Window)] :
        /\ \A ip \in Ips : old[ip] \in Before(ip)
        /\ count' = [ip \in Ips |-> old[ip][1]]
        /\ ttl' = [ip \in Ips |-> old[ip][2]]
  BY DEF Forgotten, RedisRestarts
<1>3. \A ip \in Ips : old[ip][1] \in 0 .. MaxCount /\ old[ip][2] \in NoTtl .. Window
  BY <1>2
<1>4. \A ip \in Ips : count'[ip] = old[ip][1] /\ ttl'[ip] = old[ip][2]
  BY <1>2
<1>5. \A ip \in Ips : old[ip][1] = 0 <=> old[ip][2] = 0
  BY <1>2 DEF Before, NoTtl, MaxCount
<1>6. ClientsTypeOK'
  <2>1. LimiterTypeOK'
    <3>1. count' \in [Ips -> 0 .. MaxCount]
      BY <1>2, <1>3
    <3>2. ttl' \in [Ips -> NoTtl .. Window]
      BY <1>2, <1>3
    <3>3. QED
      BY <3>1, <3>2 DEF LimiterTypeOK, Forgotten, RedisRestarts
  <2>2. whole' \subseteq running' /\ IsFiniteSet(whole')
    BY FS_EmptySet DEF Forgotten
  <2>3. QED
    BY <1>1, <2>1, <2>2, HistoryTypes DEF Forgotten, ClientsTypeOK, LongAgo
<1>7. ASSUME NEW q \in Ips PROVE Covered(q)'
  <2>1. Promised(q)' = {}
    BY DEF Forgotten, Promised
  <2>2. Cardinality(Promised(q)') = 0
    BY <2>1, FS_EmptySet
  <2>3. admitAge'[q] = [i \in Recent |-> Window]
    BY DEF Forgotten, LongAgo
  <2>4. count'[q] \in 0 .. Limit + 1 /\ ttl'[q] \in -1 .. Window /\ (count'[q] = 0 <=> ttl'[q] = 0)
    BY <1>3, <1>4, <1>5 DEF MaxCount, NoTtl
  <2>5. QED
    BY <2>2, <2>3, <2>4, RestartKey DEF Covered
<1>8. QED
  BY <1>6, <1>7

(* Every step of the limiter and of its clients preserves KeyInv.          *)
LEMMA NextKeyInv == KeyInv /\ [ClientsNext]_clientsVars => KeyInv'
<1> SUFFICES ASSUME KeyInv, [ClientsNext]_clientsVars PROVE KeyInv'
  OBVIOUS
<1>0. ClientsTypeOK' /\ (\A q \in Ips : Covered(q)') => KeyInv'
  BY PerKeyNext
<1>1. ASSUME NEW c \in Callers, NEW ip \in Ips, Ask(c, ip) PROVE KeyInv'
  BY <1>0, <1>1, AskKeeps
<1>2. ASSUME NEW p \in running, Admit(p) PROVE KeyInv'
  <2>1. CASE p \in whole
    BY <1>0, <1>2, <2>1, AdmitKeeps
  <2>2. CASE p \notin whole
    <3>1. EndsWith(p, admitAge)
      BY <1>2, <2>2 DEF Admit, AllowWithin, EndsWith
    <3>2. QED
      BY <1>0, <3>1, EndKeeps
  <2>3. QED
    BY <2>1, <2>2
<1>3. ASSUME NEW p \in running, Deny(p) \/ AdmitUncounted(p) PROVE KeyInv'
  <2>1. EndsWith(p, admitAge)
    BY <1>3 DEF Deny, DenyOver, AdmitUncounted, FailsCounted, EndsWith
  <2>2. QED
    BY <1>0, <2>1, EndKeeps
<1>4. CASE ClientsTick
  BY <1>0, <1>4, TickKeeps
<1>5. CASE Forgotten
  BY <1>0, <1>5, RestartKeeps
<1>6. CASE UNCHANGED clientsVars
  BY <1>6 DEF clientsVars, rlVars, KeyInv, ClientsTypeOK, LimiterTypeOK, KeyCoversWindow,
              Taken, Promised
<1>7. QED
  BY <1>1, <1>2, <1>3, <1>4, <1>5, <1>6 DEF ClientsNext

(***************************************************************************)
(* The limiter's keys and its history keep their types.                    *)
(***************************************************************************)
THEOREM LimiterTypeCorrect == ClientsSpec => []ClientsTypeOK
<1>1. KeyInv => ClientsTypeOK
  BY DEF KeyInv
<1>2. QED
  BY InitKeyInv, NextKeyInv, <1>1, PTL DEF ClientsSpec

(***************************************************************************)
(* What a Redis key leaves out is a whole Window old, and what it counts   *)
(* reaches that age no later than the key expires (Allow's EXPIRE).        *)
(***************************************************************************)
THEOREM KeysCover == ClientsSpec => []KeyCoversWindow
<1>1. KeyInv => KeyCoversWindow
  BY DEF KeyInv
<1>2. QED
  BY InitKeyInv, NextKeyInv, <1>1, PTL DEF ClientsSpec

(***************************************************************************)
(* While Redis keeps running, no Window holds more than Limit requests     *)
(* that RateLimiter.Allow admitted for one client and whose EXPIRE found   *)
(* the key they had counted.                                               *)
(***************************************************************************)
THEOREM RateIsLimited == ClientsSpec => []AtMostLimitPerWindow
<1> DEFINE Bounded == KeyInv /\ AtMostLimitPerWindow
<1>1. ClientsInit => Bounded
  BY InitKeyInv, LimiterAssumption DEF ClientsInit, LongAgo, Recent, AtMostLimitPerWindow
<1>2. Bounded /\ [ClientsNext]_clientsVars => Bounded'
  <2> SUFFICES ASSUME Bounded, [ClientsNext]_clientsVars, NEW q \in Ips
               PROVE  admitAge'[q][Limit + 1] = Window
    BY NextKeyInv DEF AtMostLimitPerWindow
  <2> USE LimiterAssumption DEF AtMostLimitPerWindow
  <2>0. ClientsTypeOK /\ admitAge \in [Ips -> [Recent -> Ages]] /\ admitAge[q][Limit + 1] = Window
    BY DEF KeyInv, ClientsTypeOK
  <2>1. ASSUME NEW p \in running, Admit(p) PROVE admitAge'[q][Limit + 1] = Window
    (* The pipeline's own promise is part of what the key has taken, so the *)
    (* Limit-th most recent admission, if any, is already Window old.      *)
    <3>1. CASE p \in whole
      <4>1. p.ip \in Ips /\ p \in Promised(p.ip) /\ Covered(p.ip)
        BY <2>0, <2>1, <3>1, PerKey
        DEF Admit, AllowWithin, Promised, ClientsTypeOK, LimiterTypeOK, Pipeline
      <4>2. IsFiniteSet(Promised(p.ip)) /\ Cardinality(Promised(p.ip)) \in Nat
        BY <2>0, <4>1, PromisedCounted
      <4>3. Cardinality(Promised(p.ip)) > 0
        BY <4>1, <4>2, FS_EmptySet
      <4>4. Limit \in 1 .. Limit + 1 /\ Limit > Least(count[p.ip]) - Cardinality(Promised(p.ip))
        BY <4>1, <4>3 DEF Covered, KeyFacts, Least
      <4>5. admitAge[p.ip][Limit] = Window
        BY <4>1, <4>4 DEF Covered, KeyFacts
      <4>6. admitAge' = [admitAge EXCEPT ![p.ip] = Pushed(admitAge[p.ip])]
        BY <2>1, <3>1 DEF Admit
      <4>7. Pushed(admitAge[p.ip])[Limit + 1] = Window
        BY <4>4, <4>5 DEF Pushed, Recent
      <4>8. QED
        BY <2>0, <4>6, <4>7
    <3>2. CASE p \notin whole
      BY <2>0, <2>1, <3>2 DEF Admit
    <3>3. QED
      BY <3>1, <3>2
  <2>2. CASE UNCHANGED admitAge
    BY <2>0, <2>2
  <2>3. CASE ClientsTick
    BY <2>0, <2>3 DEF ClientsTick, Older, Aged, Recent
  <2>4. CASE Forgotten
    BY <2>4 DEF Forgotten, LongAgo, Recent
  <2>5. QED
    BY <2>1, <2>2, <2>3, <2>4 DEF ClientsNext, Ask, Deny, AdmitUncounted, clientsVars
<1>3. Bounded => AtMostLimitPerWindow
  OBVIOUS
<1>4. QED
  BY <1>1, <1>2, <1>3, PTL DEF ClientsSpec

(***************************************************************************)
(* What QuietClientAdmitted needs to know of a key that expires: its life  *)
(* ends no later than a Window after its client's last command.  EXPIRE    *)
(* makes the sum of the two Window, time moves it from one to the other,   *)
(* a command that leaves the life alone only makes the silence shorter,    *)
(* and no snapshot holds a longer life.                                    *)
(***************************************************************************)
LifeFollowsAsk ==
  \A ip \in Ips : ttl[ip] > 0 => quiet[ip] + ttl[ip] <= Window

(* Every step lets a key live on only while its client asks.               *)
LEMMA NextLife == KeyInv /\ LifeFollowsAsk /\ [ClientsNext]_clientsVars => LifeFollowsAsk'
<1> SUFFICES ASSUME KeyInv, LifeFollowsAsk, [ClientsNext]_clientsVars, NEW q \in Ips, ttl'[q] > 0
             PROVE  quiet'[q] + ttl'[q] <= Window
  BY DEF LifeFollowsAsk
<1> USE LimiterAssumption DEF NoTtl
<1>1. /\ quiet \in [Ips -> Ages] /\ ttl \in [Ips -> NoTtl .. Window]
      /\ quiet[q] \in 0 .. Window /\ ttl[q] \in -1 .. Window
      /\ ttl[q] > 0 => quiet[q] + ttl[q] <= Window
  BY DEF KeyInv, ClientsTypeOK, LimiterTypeOK, Ages, LifeFollowsAsk
<1>2. ASSUME NEW ip \in Ips, quiet' = [quiet EXCEPT ![ip] = 0],
             \/ ttl' = ttl
             \/ ttl' = [ttl EXCEPT ![ip] = IF count[ip] = 0 THEN 0 ELSE Window]
             \/ ttl' = [ttl EXCEPT ![ip] = IF count[ip] = 0 THEN -1 ELSE ttl[ip]]
      PROVE  quiet'[q] + ttl'[q] <= Window
  <2>1. CASE q = ip
    <3>1. quiet'[q] = 0
      BY <1>1, <1>2, <2>1
    <3>2. ttl'[q] \in -1 .. Window
      BY <1>1, <1>2, <2>1
    <3>3. QED
      BY <3>1, <3>2
  <2>2. CASE q # ip
    BY <1>1, <1>2, <2>2
  <2>3. QED
    BY <2>1, <2>2
<1>3. ASSUME NEW c \in Callers, NEW ip \in Ips, Ask(c, ip)
      PROVE  quiet'[q] + ttl'[q] <= Window
  BY <1>2, <1>3 DEF Ask, Count
<1>4. ASSUME NEW p \in running, Admit(p) \/ Deny(p) \/ AdmitUncounted(p)
      PROVE  quiet'[q] + ttl'[q] <= Window
  <2>1. p.ip \in Ips
    BY DEF KeyInv, ClientsTypeOK, LimiterTypeOK, Pipeline
  <2>2. QED
    BY <1>2, <1>4, <2>1 DEF Admit, AllowWithin, Deny, DenyOver, AdmitUncounted, FailsCounted,
                           Commanded, Expire
<1>5. CASE ClientsTick
  <2>1. /\ ttl'[q] = IF ttl[q] > 0 THEN ttl[q] - 1 ELSE ttl[q]
        /\ quiet'[q] = IF quiet[q] < Window THEN quiet[q] + 1 ELSE Window
    BY <1>5 DEF ClientsTick, LimiterTick, Aged
  <2>2. QED
    BY <1>1, <2>1
<1>6. CASE Forgotten
  <2>1. ttl'[q] \in 1 .. ttl[q]
    <3>1. PICK old \in [Ips -> (0 .. MaxCount) \X (NoTtl .. Window)] :
            /\ \A ip \in Ips : old[ip] \in Before(ip)
            /\ ttl' = [ip \in Ips |-> old[ip][2]]
      BY <1>6 DEF Forgotten, RedisRestarts
    <3>2. old[q] \in Before(q) /\ ttl'[q] = old[q][2]
      BY <3>1
    <3>3. old[q] \in (1 .. count[q]) \X (1 .. ttl[q])
      BY <3>2 DEF Before
    <3>4. QED
      BY <3>2, <3>3
  <2>2. QED
    BY <1>1, <1>6, <2>1 DEF Forgotten
<1>7. CASE UNCHANGED clientsVars
  BY <1>1, <1>7 DEF clientsVars, rlVars
<1>8. QED
  BY <1>3, <1>4, <1>5, <1>6, <1>7 DEF ClientsNext

(***************************************************************************)
(* RateLimiter.Allow denies no client for which Redis got no command for a *)
(* Window, unless the client's key never expires.  A limit of 0            *)
(* (RATE_LIMIT_RPM=0) denies everyone: the hypothesis is necessary.        *)
(***************************************************************************)
THEOREM QuietIsAdmitted == Limit > 0 => (ClientsSpec => QuietClientAdmitted)
<1> SUFFICES ASSUME Limit > 0 PROVE ClientsSpec => QuietClientAdmitted
  OBVIOUS
<1>1. ClientsInit => KeyInv /\ LifeFollowsAsk
  BY InitKeyInv DEF ClientsInit, LimiterInit, LifeFollowsAsk
<1>2. KeyInv /\ LifeFollowsAsk /\ [ClientsNext]_clientsVars => (KeyInv /\ LifeFollowsAsk)'
  BY NextKeyInv, NextLife
<1>3. KeyInv /\ LifeFollowsAsk /\ [ClientsNext]_clientsVars
      => [\A c \in Callers, ip \in Ips :
            Ask(c, ip) /\ Incremented(ip) > Limit
              => quiet[ip] < Window \/ ttl[ip] = NoTtl]_clientsVars
  <2> SUFFICES ASSUME KeyInv, LifeFollowsAsk, NEW ip \in Ips, Incremented(ip) > Limit,
                      ttl[ip] # NoTtl
               PROVE  quiet[ip] < Window
    OBVIOUS
  (* The key counts a request, so it exists and has time to live.           *)
  <2>1. /\ count[ip] \in 0 .. Limit + 1 /\ ttl[ip] \in -1 .. Window /\ quiet[ip] \in 0 .. Window
        /\ count[ip] = 0 <=> ttl[ip] = 0
    BY LimiterAssumption DEF KeyInv, ClientsTypeOK, LimiterTypeOK, KeyCoversWindow, Ages,
                             MaxCount, NoTtl
  <2>2. count[ip] > 0
    BY <2>1, LimiterAssumption DEF Incremented, MaxCount
  <2>3. ttl[ip] > 0
    BY <2>1, <2>2, LimiterAssumption DEF NoTtl
  <2>4. quiet[ip] + ttl[ip] <= Window
    BY <2>3 DEF LifeFollowsAsk
  <2>5. QED
    BY <2>1, <2>3, <2>4, LimiterAssumption
<1>4. QED
  BY <1>1, <1>2, <1>3, PTL DEF ClientsSpec, QuietClientAdmitted
=============================================================================
