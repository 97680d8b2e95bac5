--------------------------- MODULE LimiterClients ---------------------------
(***************************************************************************)
(* The rate limiter under clients that send requests at any time, with the *)
(* history its promise is about.                                           *)
(***************************************************************************)
EXTENDS RateLimiter, FiniteSets

VARIABLES
  admitAge,     (* history: age of the i-th most recent request that was   *)
                (* admitted and whose EXPIRE found the key it had counted; *)
                (* Window if it is that old or older, or Redis has         *)
                (* restarted since                                         *)
  quiet,        (* history: how long Redis got no command for this client, *)
                (* up to Window                                            *)
  whole         (* history: pipelines whose key has been there since INCR  *)

clientsVars == <<rlVars, admitAge, quiet, whole>>

Ages   == 0 .. Window
Recent == 1 .. Limit + 1

ClientsTypeOK ==
  /\ LimiterTypeOK
  /\ admitAge \in [Ips -> [Recent -> Ages]]
  /\ quiet \in [Ips -> Ages]
  /\ whole \subseteq running /\ IsFiniteSet(whole)

LongAgo == [ip \in Ips |-> [i \in Recent |-> Window]]

ClientsInit ==
  /\ LimiterInit
  /\ admitAge = LongAgo
  /\ quiet = [ip \in Ips |-> Window]
  /\ whole = {}

Pushed(ages) == [i \in Recent |-> IF i = 1 THEN 0 ELSE ages[i - 1]]
Aged(age)    == IF age < Window THEN age + 1 ELSE Window
Older(ages)  == [i \in Recent |-> Aged(ages[i])]

Ask(c, ip) ==
  /\ Count(c, ip)
  /\ quiet' = [quiet EXCEPT ![ip] = 0]
  /\ whole' = whole \cup {Counted(c, ip)}
  /\ UNCHANGED admitAge

Commanded(p) ==
  /\ quiet' = [quiet EXCEPT ![p.ip] = 0]
  /\ whole' = whole \ {p}

Admit(p) ==
  /\ AllowWithin(p)
  /\ Commanded(p)
  /\ admitAge' = IF p \in whole THEN [admitAge EXCEPT ![p.ip] = Pushed(@)] ELSE admitAge

Deny(p) ==
  /\ DenyOver(p)
  /\ Commanded(p)
  /\ UNCHANGED admitAge

AdmitUncounted(p) ==
  /\ FailsCounted(p)
  /\ Commanded(p)
  /\ UNCHANGED admitAge

ClientsTick ==
  /\ LimiterTick
  /\ admitAge' = [ip \in Ips |-> Older(admitAge[ip])]
  /\ quiet' = [ip \in Ips |-> Aged(quiet[ip])]
  /\ whole' = {p \in whole : ttl[p.ip] # 1}

Forgotten ==
  /\ RedisRestarts
  /\ admitAge' = LongAgo
  /\ whole' = {}
  /\ UNCHANGED quiet

ClientsNext ==
  \/ \E c \in Callers, ip \in Ips : Ask(c, ip)
  \/ \E p \in running : Admit(p)
  \/ \E p \in running : Deny(p)
  \/ \E p \in running : AdmitUncounted(p)
  \/ ClientsTick
  \/ Forgotten

ClientsSpec == ClientsInit /\ [][ClientsNext]_clientsVars

-----------------------------------------------------------------------------
(***************************************************************************)
(* The promise of RateLimiter.Allow: while Redis keeps running, and        *)
(* whatever pipelines are cut off, no interval of length Window holds more *)
(* than Limit requests that were admitted for one client and whose EXPIRE  *)
(* found the key they had counted.  A key that expires between the two     *)
(* commands lets its request escape.                                       *)
(***************************************************************************)
AtMostLimitPerWindow ==
  \A ip \in Ips : admitAge[ip][Limit + 1] = Window

(***************************************************************************)
(* What the key's life says about the past, and what makes the promise     *)
(* inductive: the counter covers the pipelines that will be admitted and   *)
(* have not yet been; the requests admitted before them that it leaves no  *)
(* room for are already Window old; and the others reach that age no later *)
(* than the key expires, because each of them ran an EXPIRE.               *)
(***************************************************************************)
Promised(ip) == {p \in whole : p.ip = ip /\ p.n <= Limit}
Taken(ip)    == (IF count[ip] < Limit THEN count[ip] ELSE Limit) - Cardinality(Promised(ip))

KeyCoversWindow ==
  \A ip \in Ips :
    /\ count[ip] = 0 <=> ttl[ip] = 0
    /\ Taken(ip) >= 0
    /\ \A i \in Recent : i > Taken(ip) => admitAge[ip][i] = Window
    /\ ttl[ip] # NoTtl => \A i \in Recent : admitAge[ip][i] + ttl[ip] >= Window

(***************************************************************************)
(* A client for which Redis got no command for Window is counted within    *)
(* the limit, unless a pipeline was cut off between INCR and EXPIRE and    *)
(* left its key without a time to live: such a key never expires.          *)
(***************************************************************************)
QuietClientAdmitted ==
  [][\A c \in Callers, ip \in Ips :
       Ask(c, ip) /\ Incremented(ip) > Limit => quiet[ip] < Window \/ ttl[ip] = NoTtl]_clientsVars
=============================================================================
