--------------------------- MODULE Evaluation_proofs ---------------------------
(***************************************************************************)
(* Proofs about Evaluation: its variables keep their types, alerts are few *)
(* and scores are recorded honestly, for any number of requests and        *)
(* processes, any interval and any caps.                                   *)
(***************************************************************************)
EXTENDS Evaluation, FiniteSetTheorems, SequenceTheorems, TLAPS

(* What follows from the assumption on the constants, in single facts.     *)
LEMMA Constants ==
  /\ Scores \subseteq 0 .. 100
  /\ QUEUE_SIZE \in Nat \ {0} /\ SCORES_MAX \in Nat \ {0} /\ INTERVAL \in Nat \ {0}
  /\ MIN_SAMPLES \in Nat /\ THRESHOLD \in Nat /\ MaxRetrievals \in Nat
BY EvaluationAssumption DEF EvaluationAssumption

(* Trimmed, which stands for LTRIM, gives a list of what it was given.     *)
LEMMA TrimmedType ==
  ASSUME NEW S, NEW list \in Seq(S), NEW max \in Nat
  PROVE  Trimmed(list, max) \in Seq(S)
<1>1. Len(list) \in Nat  OBVIOUS
<1> DEFINE n == IF Len(list) < max THEN Len(list) ELSE max
<1>2. n \in 0 .. Len(list)  BY <1>1
<1>3. \A i \in 1 .. n : list[i] \in S  BY <1>2, ElementOfSeq
<1>4. SubSeq(list, 1, n) \in Seq(S)  BY <1>2, <1>3
<1> QED  BY <1>4 DEF Trimmed

(* Pushing an entry in front and trimming keeps a list of entries one.     *)
LEMMA PushedType ==
  ASSUME NEW S, NEW list \in Seq(S), NEW e \in S, NEW max \in Nat
  PROVE  Trimmed(<<e>> \o list, max) \in Seq(S)
<1>1. <<e>> \in Seq(S)  OBVIOUS
<1>2. <<e>> \o list \in Seq(S)  BY <1>1
<1> QED  BY <1>2, TrimmedType

(* A mean is low or it is not.                                             *)
LEMMA LowIsBoolean == Low \in BOOLEAN
<1>1. CASE Window = <<>>
  <2>1. Low = (THRESHOLD > 0)
    BY <1>1 DEF Low
  <2>2. (THRESHOLD > 0) \in BOOLEAN
    OBVIOUS
  <2>3. QED
    BY <2>1, <2>2
<1>2. CASE Window # <<>>
  <2> DEFINE numbers == \A i \in DOMAIN Window : Window[i].score # NaN
             below   == 200 * Sum(Window) + Len(Window) < 200 * THRESHOLD * Len(Window)
  <2>1. Low = (numbers /\ below)
    BY <1>2 DEF Low
  <2> HIDE DEF numbers, below
  <2>2. (numbers /\ below) \in BOOLEAN
    OBVIOUS
  <2>3. QED
    BY <2>1, <2>2
<1>3. QED
  BY <1>1, <1>2

(* An entry of the relevance list.                                         *)
Entries == [of : Requests, score : 0 .. NaN]

(* TypeOK, the part of the requests apart from the part of the watchdogs;  *)
(* no more retrievals gave chunks than there were.                         *)
RequestsTyped ==
  /\ wiring \in Wirings /\ up \in BOOLEAN
  /\ stage \in [Requests -> Stages]
  /\ sampled \in [Requests -> BOOLEAN]
  /\ searched \in [Requests -> 0 .. MaxRetrievals]
  /\ retrieved \in [Requests -> 0 .. MaxRetrievals]
  /\ \A r \in Requests : retrieved[r] <= searched[r]
  /\ answer \in [Requests -> {"none", "empty", "text"}]
  /\ relevance \in Seq(Entries)
  /\ faithfulness \in Seq(Requests)
  /\ scores \in Nat /\ untrimmed \in SUBSET Requests

WatchdogsTyped ==
  /\ watch \in [Workers -> {"sleep", "check", "send", "cool"}]
  /\ timer \in [Workers -> 0 .. INTERVAL] /\ low \in [Workers -> BOOLEAN]
  /\ cooldown \in 0 .. INTERVAL
  /\ sinceAlert \in [Workers -> 0 .. INTERVAL] /\ uncooled \in BOOLEAN

(* The types, of the requests and of the watchdogs.                        *)
LEMMA TypedInParts == RequestsTyped /\ WatchdogsTyped => TypeOK
BY DEF TypeOK, RequestsTyped, WatchdogsTyped, Entries

(* The initial values have their types.                                    *)
LEMMA InitTyped == Init => RequestsTyped /\ WatchdogsTyped
<1> SUFFICES ASSUME Init PROVE RequestsTyped /\ WatchdogsTyped  OBVIOUS
<1>1. RequestsTyped
  BY Constants DEF Init, RequestsTyped, Stages
<1>2. WatchdogsTyped
  <2>1. INTERVAL \in 0 .. INTERVAL /\ 0 \in 0 .. INTERVAL  BY Constants
  <2> QED  BY <2>1 DEF Init, WatchdogsTyped
<1> QED  BY <1>1, <1>2

(* Every step of a request keeps the requests' types.                      *)
LEMMA RequestStepTyped ==
  ASSUME RequestsTyped, NEW r \in Requests, RequestStep(r)
  PROVE  RequestsTyped'
<1>1. CASE Enter(r)
  BY <1>1 DEF RequestsTyped, Enter, lists, Stages
<1>2. CASE RecordRelevance(r)
  <2>1. PICK found \in {0, 1} : retrieved' = [retrieved EXCEPT ![r] = @ + found]
    BY <1>2 DEF RecordRelevance
  <2>2. /\ searched[r] \in Nat /\ searched[r] < MaxRetrievals
        /\ retrieved[r] \in Nat /\ retrieved[r] <= searched[r]
        /\ searched' = [searched EXCEPT ![r] = @ + 1]
    BY <1>2, Constants DEF RequestsTyped, RecordRelevance
  <2>s. searched[r] + 1 \in 0 .. MaxRetrievals /\ retrieved[r] + found \in 0 .. MaxRetrievals
        /\ retrieved[r] + found <= searched[r] + 1
    BY <2>2, Constants
  <2>t. /\ searched' \in [Requests -> 0 .. MaxRetrievals]
        /\ retrieved' \in [Requests -> 0 .. MaxRetrievals]
        /\ \A q \in Requests : retrieved'[q] <= searched'[q]
    BY <2>1, <2>2, <2>s DEF RequestsTyped
  <2>3. relevance' \in Seq(Entries)
    <3>1. CASE Records(r) /\ up
      <4>1. PICK s \in Given : relevance' = Trimmed(<<[of |-> r, score |-> s]>> \o relevance, QUEUE_SIZE)
        BY <1>2, <3>1 DEF RecordRelevance
      <4>2. [of |-> r, score |-> s] \in Entries  BY Constants DEF Given, Entries, NaN
      <4> QED  BY <4>1, <4>2, PushedType, Constants DEF RequestsTyped
    <3>2. CASE ~(Records(r) /\ up)
      BY <1>2, <3>2 DEF RecordRelevance, RequestsTyped
    <3> QED  BY <3>1, <3>2
  <2> QED  BY <1>2, <2>3, <2>t DEF RequestsTyped, RecordRelevance
<1>3. CASE AnswerFound(r)
  <2>1. PICK a \in {"empty", "text"} :
          /\ answer' = [answer EXCEPT ![r] = a]
          /\ stage' = [stage EXCEPT ![r] = IF a = "text" /\ retrieved[r] > 0 THEN Evaluated ELSE "done"]
    BY <1>3 DEF AnswerFound
  <2>2. Evaluated \in Stages /\ "done" \in Stages
    BY DEF Evaluated, Stages
  <2>3. stage' \in [Requests -> Stages]
    BY <2>1, <2>2 DEF RequestsTyped
  <2>4. answer' \in [Requests -> {"none", "empty", "text"}]
    BY <2>1 DEF RequestsTyped
  <2> QED  BY <1>3, <2>3, <2>4 DEF AnswerFound, RequestsTyped, lists
<1>4. CASE PushScores(r)
  <2>1. stage' \in [Requests -> Stages]
    BY <1>4 DEF PushScores, RequestsTyped, Stages
  <2>2. scores' \in Nat /\ untrimmed' \in SUBSET Requests
    BY <1>4 DEF PushScores, RequestsTyped
  <2> QED  BY <1>4, <2>1, <2>2 DEF PushScores, RequestsTyped
<1>5. CASE TrimScores(r)
  <2>1. stage' \in [Requests -> Stages]
    BY <1>5 DEF TrimScores, Trims, RequestsTyped, Stages
  <2>2. scores' \in Nat /\ untrimmed' \in SUBSET Requests
    BY <1>5, Constants DEF TrimScores, Trims, RequestsTyped
  <2> QED  BY <1>5, <2>1, <2>2 DEF TrimScores, Trims, RequestsTyped
<1>6. CASE RecordFaithfulness(r)
  <2>1. faithfulness' \in Seq(Requests)
    BY <1>6, PushedType, Constants DEF RecordFaithfulness, RequestsTyped
  <2> QED  BY <1>6, <2>1 DEF RecordFaithfulness, RequestsTyped, Stages
<1>7. CASE Cancelled(r)
  <2>1. stage' \in [Requests -> Stages]
    BY <1>7 DEF Cancelled, RequestsTyped, Stages
  <2>2. scores' \in Nat /\ untrimmed' \in SUBSET Requests
    BY <1>7 DEF Cancelled, RequestsTyped
  <2> QED  BY <1>7, <2>1, <2>2 DEF Cancelled, RequestsTyped
<1> QED  BY <1>1, <1>2, <1>3, <1>4, <1>5, <1>6, <1>7 DEF RequestStep

(* ... and leaves the watchdogs alone.                                     *)
LEMMA RequestStepFrame ==
  ASSUME NEW r \in Requests, RequestStep(r)
  PROVE  UNCHANGED watchdogVars
BY DEF RequestStep, Enter, RecordRelevance, AnswerFound, PushScores, TrimScores, Trims,
       RecordFaithfulness, Cancelled

(* Every other step leaves the requests alone, or the lists empty.         *)
LEMMA WatchdogFrame ==
  ASSUME RequestsTyped,
         (\E w \in Workers : WatchdogStep(w) \/ Restart(w)) \/ Tick \/ RedisFails \/ RedisForgets
  PROVE  RequestsTyped'
<1>1. CASE RedisForgets
  <2>1. <<>> \in Seq(Entries) /\ <<>> \in Seq(Requests)  OBVIOUS
  <2> QED  BY <1>1, <2>1 DEF RedisForgets, RequestsTyped, requestVars
<1>2. CASE ~RedisForgets
  <2>1. UNCHANGED <<wiring, requestVars, lists>> /\ up' \in BOOLEAN
    BY <1>2 DEF WatchdogStep, Poll, Check, Send, Cool, Restart, Tick, RedisFails, RequestsTyped
  <2> QED  BY <2>1 DEF RequestsTyped, requestVars, lists
<1> QED  BY <1>1, <1>2

(* A watchdog that goes to sleep keeps the types.                          *)
LEMMA SleepTyped ==
  ASSUME WatchdogsTyped, NEW w \in Workers, Sleep(w)
  PROVE  /\ watch' \in [Workers -> {"sleep", "check", "send", "cool"}]
         /\ timer' \in [Workers -> 0 .. INTERVAL] /\ low' \in [Workers -> BOOLEAN]
BY Constants DEF WatchdogsTyped, Sleep

(* Every step keeps the watchdogs' types.                                  *)
LEMMA WatchdogsStayTyped ==
  ASSUME WatchdogsTyped,
         (\E w \in Workers : WatchdogStep(w) \/ Restart(w)) \/ Tick \/ RedisFails \/ RedisForgets
  PROVE  WatchdogsTyped'
<1>1. ASSUME NEW w \in Workers, Poll(w) PROVE WatchdogsTyped'
  <2>1. CASE wiring # "committed" /\ Enough
    <3>1. low' \in [Workers -> BOOLEAN]
      BY <1>1, <2>1, LowIsBoolean, Zenon DEF Poll, WatchdogsTyped
    <3>2. watch' = [watch EXCEPT ![w] = "check"] /\ timer' = timer
      BY <1>1, <2>1 DEF Poll
    <3> QED  BY <1>1, <3>1, <3>2 DEF Poll, WatchdogsTyped
  <2>2. CASE ~(wiring # "committed" /\ Enough)
    <3>1. Sleep(w)  BY <1>1, <2>2 DEF Poll
    <3> QED  BY <1>1, <3>1, SleepTyped DEF Poll, WatchdogsTyped
  <2> QED  BY <2>1, <2>2
<1>2. ASSUME NEW w \in Workers, Check(w) PROVE WatchdogsTyped'
  <2>1. CASE up /\ cooldown = 0 /\ low[w]
    BY <1>2, <2>1 DEF Check, WatchdogsTyped
  <2>2. CASE ~(up /\ cooldown = 0 /\ low[w])
    <3>1. Sleep(w)  BY <1>2, <2>2 DEF Check
    <3> QED  BY <1>2, <3>1, SleepTyped DEF Check, WatchdogsTyped
  <2> QED  BY <2>1, <2>2
<1>3. ASSUME NEW w \in Workers, Send(w) PROVE WatchdogsTyped'
  BY <1>3, Constants DEF Send, WatchdogsTyped
<1>4. ASSUME NEW w \in Workers, Cool(w) PROVE WatchdogsTyped'
  <2>1. cooldown' \in 0 .. INTERVAL /\ uncooled' \in BOOLEAN
    BY <1>4, Constants DEF Cool, WatchdogsTyped
  <2> QED  BY <1>4, <2>1, SleepTyped DEF Cool, WatchdogsTyped
<1>5. ASSUME NEW w \in Workers, Restart(w) PROVE WatchdogsTyped'
  BY <1>5, SleepTyped DEF Restart, WatchdogsTyped
<1>6. CASE Tick
  <2>1. \A n \in 0 .. INTERVAL : Less(n) \in 0 .. INTERVAL
    BY Constants DEF Less
  <2>2. timer' \in [Workers -> 0 .. INTERVAL]
    BY <1>6, <2>1 DEF Tick, WatchdogsTyped
  <2>3. sinceAlert' \in [Workers -> 0 .. INTERVAL]
    BY <1>6, Constants DEF Tick, WatchdogsTyped
  <2> QED  BY <1>6, <2>1, <2>2, <2>3 DEF Tick, WatchdogsTyped
<1>7. CASE RedisFails
  BY <1>7 DEF RedisFails, watchdogVars, WatchdogsTyped
<1>8. CASE RedisForgets
  BY <1>8, Constants DEF RedisForgets, WatchdogsTyped
<1> QED  BY <1>1, <1>2, <1>3, <1>4, <1>5, <1>6, <1>7, <1>8 DEF WatchdogStep

(* Every step keeps the types.                                             *)
LEMMA NextTyped ==
  ASSUME RequestsTyped /\ WatchdogsTyped, [Next]_vars
  PROVE  RequestsTyped' /\ WatchdogsTyped'
<1>1. ASSUME NEW r \in Requests, RequestStep(r) PROVE RequestsTyped' /\ WatchdogsTyped'
  <2>1. RequestsTyped'  BY <1>1, RequestStepTyped
  <2>2. UNCHANGED watchdogVars  BY <1>1, RequestStepFrame
  <2> QED  BY <2>1, <2>2 DEF watchdogVars, WatchdogsTyped
<1>2. CASE (\E w \in Workers : WatchdogStep(w) \/ Restart(w)) \/ Tick \/ RedisFails \/ RedisForgets
  BY <1>2, WatchdogFrame, WatchdogsStayTyped
<1>3. CASE UNCHANGED vars
  BY <1>3 DEF vars, requestVars, lists, watchdogVars, RequestsTyped, WatchdogsTyped
<1> QED  BY <1>1, <1>2, <1>3 DEF Next

(* Every variable keeps its type, whatever the wiring, the scores and the  *)
(* faults of Redis are.                                                    *)
THEOREM TypeCorrect == Spec => []TypeOK
<1>1. Init => RequestsTyped /\ WatchdogsTyped  BY InitTyped
<1>2. RequestsTyped /\ WatchdogsTyped /\ [Next]_vars => (RequestsTyped /\ WatchdogsTyped)'
  BY NextTyped
<1>3. RequestsTyped /\ WatchdogsTyped => TypeOK  BY TypedInParts
<1> QED  BY <1>1, <1>2, <1>3, PTL DEF Spec

-----------------------------------------------------------------------------
(* Why alerts are few.  A watchdog sleeps a whole interval after an alert  *)
(* (Rested), and has therefore slept it through when it polls (Awake); and *)
(* as long as an alert is younger than the interval, so is the cooldown    *)
(* set after it (Cooled), unless a process was restarted or Redis did not  *)
(* answer then.                                                            *)
Rested == \A w \in Workers : watch[w] = "sleep" => timer[w] + sinceAlert[w] >= INTERVAL
Awake  == \A w \in Workers : watch[w] \in {"check", "send"} => sinceAlert[w] = INTERVAL
Cooled == \A w \in Workers :
            sinceAlert[w] < INTERVAL /\ ~uncooled /\ watch[w] # "cool"
              => cooldown + sinceAlert[w] >= INTERVAL

Spaced == WatchdogsTyped /\ Rested /\ Awake /\ Cooled

(* No alert was sent to begin with.                                        *)
LEMMA InitSpaced == Init => Spaced
<1> SUFFICES ASSUME Init PROVE Spaced  OBVIOUS
<1>1. WatchdogsTyped  BY InitTyped
<1>2. Rested  BY Constants DEF Init, Rested
<1>3. Awake  BY DEF Init, Awake
<1>4. Cooled  BY Constants DEF Init, Cooled
<1> QED  BY <1>1, <1>2, <1>3, <1>4 DEF Spaced

(* What Sleep does to its own process and to the others.                   *)
LEMMA SleepSpaced ==
  ASSUME Spaced, NEW w \in Workers, Sleep(w), sinceAlert' = sinceAlert
  PROVE  Rested' /\ Awake'
<1>1. \A v \in Workers : watch'[v] = IF v = w THEN "sleep" ELSE watch[v]
  BY DEF Sleep, Spaced, WatchdogsTyped
<1>2. \A v \in Workers : timer'[v] = IF v = w THEN INTERVAL ELSE timer[v]
  BY DEF Sleep, Spaced, WatchdogsTyped
<1>3. \A v \in Workers : sinceAlert[v] \in 0 .. INTERVAL /\ timer[v] \in 0 .. INTERVAL
  BY DEF Spaced, WatchdogsTyped
<1>4. Rested'
  BY <1>1, <1>2, <1>3, Constants DEF Spaced, Rested
<1>5. Awake'
  BY <1>1 DEF Spaced, Awake
<1> QED  BY <1>4, <1>5

(* A process that falls asleep without having sent an alert.               *)
LEMMA SleepCooled ==
  ASSUME Spaced, NEW w \in Workers, Sleep(w), watch[w] # "cool",
         UNCHANGED <<sinceAlert, cooldown, uncooled>>
  PROVE  Cooled'
<1>1. \A v \in Workers : watch'[v] # "cool" => watch[v] # "cool"
  BY DEF Sleep, Spaced, WatchdogsTyped
<1> QED  BY <1>1 DEF Spaced, Cooled

(* A poll keeps the distances.                                             *)
LEMMA PollSpaced ==
  ASSUME Spaced, NEW w \in Workers, Poll(w)
  PROVE  Rested' /\ Awake' /\ Cooled'
<1>1. CASE wiring # "committed" /\ Enough
  <2>1. \A v \in Workers : watch'[v] = IF v = w THEN "check" ELSE watch[v]
    BY <1>1 DEF Poll, Spaced, WatchdogsTyped
  <2>2. sinceAlert[w] = INTERVAL
    BY Constants DEF Poll, Spaced, Rested, WatchdogsTyped
  <2>3. UNCHANGED <<timer, sinceAlert, cooldown, uncooled>>
    BY <1>1 DEF Poll
  <2>4. Rested'  BY <2>1, <2>3 DEF Spaced, Rested
  <2>5. Awake'  BY <2>1, <2>2, <2>3 DEF Spaced, Awake
  <2>6. Cooled'  BY <2>1, <2>2, <2>3, Constants DEF Spaced, Cooled
  <2> QED  BY <2>4, <2>5, <2>6
<1>2. CASE ~(wiring # "committed" /\ Enough)
  BY <1>2, SleepSpaced, SleepCooled DEF Poll
<1> QED  BY <1>1, <1>2

(* A check keeps the distances.                                            *)
LEMMA CheckSpaced ==
  ASSUME Spaced, NEW w \in Workers, Check(w)
  PROVE  Rested' /\ Awake' /\ Cooled'
<1>1. CASE up /\ cooldown = 0 /\ low[w]
  <2>1. \A v \in Workers : watch'[v] = IF v = w THEN "send" ELSE watch[v]
    BY <1>1 DEF Check, Spaced, WatchdogsTyped
  <2>2. watch[w] = "check" /\ UNCHANGED <<timer, sinceAlert, cooldown, uncooled>>
    BY <1>1 DEF Check
  <2>3. Rested'  BY <2>1, <2>2 DEF Spaced, Rested
  <2>4. Awake'  BY <2>1, <2>2 DEF Spaced, Awake
  <2>5. Cooled'  BY <2>1, <2>2 DEF Spaced, Cooled
  <2> QED  BY <2>3, <2>4, <2>5
<1>2. CASE ~(up /\ cooldown = 0 /\ low[w])
  BY <1>2, SleepSpaced, SleepCooled DEF Check
<1> QED  BY <1>1, <1>2

(* An alert keeps the distances: the last one is old enough.               *)
LEMMA SendSpaced ==
  ASSUME Spaced, NEW w \in Workers, Send(w)
  PROVE  Rested' /\ Awake' /\ Cooled'
<1>1. \A v \in Workers : watch'[v] = IF v = w THEN "cool" ELSE watch[v]
  BY DEF Send, Spaced, WatchdogsTyped
<1>2. \A v \in Workers : v # w => sinceAlert'[v] = sinceAlert[v]
  BY DEF Send, Spaced, WatchdogsTyped
<1>3. UNCHANGED <<timer, cooldown, uncooled>>
  BY DEF Send
<1>4. Rested'  BY <1>1, <1>2, <1>3 DEF Spaced, Rested
<1>5. Awake'  BY <1>1, <1>2 DEF Spaced, Awake
<1>6. Cooled'  BY <1>1, <1>2, <1>3 DEF Spaced, Cooled
<1> QED  BY <1>4, <1>5, <1>6

(* The end of a cool-down keeps the distances.                             *)
LEMMA CoolSpaced ==
  ASSUME Spaced, NEW w \in Workers, Cool(w)
  PROVE  Rested' /\ Awake' /\ Cooled'
<1>1. Rested' /\ Awake'  BY SleepSpaced DEF Cool
<1>2. \A v \in Workers : sinceAlert[v] \in 0 .. INTERVAL
  BY DEF Spaced, WatchdogsTyped
<1>3. sinceAlert' = sinceAlert /\ (~uncooled' => cooldown' = INTERVAL)
  BY DEF Cool
<1>4. Cooled'
  BY <1>2, <1>3, Constants DEF Cooled
<1> QED  BY <1>1, <1>4

(* A restart keeps the distances.                                          *)
LEMMA RestartSpaced ==
  ASSUME Spaced, NEW w \in Workers, Restart(w)
  PROVE  Rested' /\ Awake' /\ Cooled'
<1>1. Rested' /\ Awake'  BY SleepSpaced DEF Restart
<1>2. Cooled'  BY DEF Restart, Cooled
<1> QED  BY <1>1, <1>2

(* Time keeps the distances.                                               *)
LEMMA TickSpaced ==
  ASSUME Spaced, Tick
  PROVE  Rested' /\ Awake' /\ Cooled'
<1>1. \A w \in Workers : /\ sinceAlert[w] \in 0 .. INTERVAL /\ timer[w] \in 0 .. INTERVAL
                         /\ watch'[w] = watch[w]
  BY DEF Spaced, WatchdogsTyped, Tick
<1>2. \A w \in Workers :
        sinceAlert'[w] = IF sinceAlert[w] < INTERVAL THEN sinceAlert[w] + 1 ELSE INTERVAL
  BY DEF Tick, Spaced, WatchdogsTyped
<1>3. \A w \in Workers :
        watch[w] = "sleep" => timer'[w] = IF timer[w] = 0 THEN 0 ELSE timer[w] - 1
  BY DEF Tick, Less, Spaced, WatchdogsTyped
<1>4. cooldown \in 0 .. INTERVAL /\ cooldown' = IF cooldown = 0 THEN 0 ELSE cooldown - 1
  BY DEF Tick, Less, Spaced, WatchdogsTyped
<1>5. uncooled' = uncooled  BY DEF Tick
<1>6. Rested'
  BY <1>1, <1>2, <1>3, Constants DEF Spaced, Rested
<1>7. Awake'
  BY <1>1, <1>2, Constants DEF Spaced, Awake
<1>8. Cooled'
  BY <1>1, <1>2, <1>4, <1>5, Constants DEF Spaced, Cooled
<1> QED  BY <1>6, <1>7, <1>8

(* If Redis loses a cooldown, that is noted; without one, no alert is      *)
(* younger than an interval.                                               *)
LEMMA ForgetsSpaced ==
  ASSUME Spaced, RedisForgets
  PROVE  Rested' /\ Awake' /\ Cooled'
<1>1. UNCHANGED <<watch, timer, sinceAlert>>
  BY DEF RedisForgets
<1>2. cooldown' = 0 /\ (~uncooled' => ~uncooled /\ cooldown = 0)
  <2>1. cooldown' = 0 /\ uncooled' = (uncooled \/ cooldown > 0)
    BY DEF RedisForgets
  <2>2. cooldown \in Nat
    BY Constants DEF Spaced, WatchdogsTyped
  <2>3. cooldown > 0 \/ cooldown = 0
    BY <2>2
  <2>4. QED
    BY <2>1, <2>3
<1>3. Rested' /\ Awake'
  BY <1>1 DEF Spaced, Rested, Awake
<1>4. Cooled'
  BY <1>1, <1>2 DEF Spaced, Cooled
<1> QED  BY <1>3, <1>4

(* A step of something else keeps the distances.                           *)
LEMMA UnchangedSpaced ==
  ASSUME Spaced, UNCHANGED watchdogVars
  PROVE  Rested' /\ Awake' /\ Cooled'
BY DEF Spaced, Rested, Awake, Cooled, watchdogVars

(* Every step keeps the distances.                                         *)
LEMMA NextSpaced ==
  ASSUME RequestsTyped /\ Spaced, [Next]_vars
  PROVE  RequestsTyped' /\ Spaced'
<1>1. RequestsTyped' /\ WatchdogsTyped'  BY NextTyped DEF Spaced
<1>2. Rested' /\ Awake' /\ Cooled'
  <2>1. ASSUME NEW r \in Requests, RequestStep(r) PROVE Rested' /\ Awake' /\ Cooled'
    BY <2>1, RequestStepFrame, UnchangedSpaced
  <2>2. ASSUME NEW w \in Workers, WatchdogStep(w) PROVE Rested' /\ Awake' /\ Cooled'
    BY <2>2, PollSpaced, CheckSpaced, SendSpaced, CoolSpaced DEF WatchdogStep
  <2>3. ASSUME NEW w \in Workers, Restart(w) PROVE Rested' /\ Awake' /\ Cooled'
    BY <2>3, RestartSpaced
  <2>4. CASE Tick  BY <2>4, TickSpaced
  <2>5. CASE RedisFails  BY <2>5, UnchangedSpaced DEF RedisFails
  <2>6. CASE UNCHANGED vars  BY <2>6, UnchangedSpaced DEF vars
  <2>7. CASE RedisForgets  BY <2>7, ForgetsSpaced
  <2> QED  BY <2>1, <2>2, <2>3, <2>4, <2>5, <2>6, <2>7 DEF Next
<1> QED  BY <1>1, <1>2 DEF Spaced

(* A step of one process to an alert, from a state where alerts are spaced.*)
LEMMA AlertStep ==
  ASSUME Spaced, [Next]_vars, NEW w \in Workers, watch[w] = "check", watch'[w] = "send"
  PROVE  /\ low[w] /\ sinceAlert[w] = INTERVAL
         /\ \A v \in Workers \ {w} :
              sinceAlert[v] < INTERVAL => watch[v] = "cool" \/ uncooled
<1>1. Check(w)
  <2>1. ASSUME NEW r \in Requests, RequestStep(r) PROVE FALSE
    BY <2>1, RequestStepFrame DEF watchdogVars
  <2>2. ASSUME NEW u \in Workers, u # w, WatchdogStep(u) \/ Restart(u) PROVE FALSE
    BY <2>2 DEF WatchdogStep, Poll, Check, Send, Cool, Restart, Sleep, Spaced, WatchdogsTyped
  <2>3. ASSUME Poll(w) \/ Send(w) \/ Cool(w) \/ Restart(w) PROVE FALSE
    BY <2>3 DEF Poll, Send, Cool, Restart, Sleep, Spaced, WatchdogsTyped
  <2>4. ASSUME Tick \/ RedisFails \/ RedisForgets \/ UNCHANGED vars PROVE FALSE
    BY <2>4 DEF Tick, RedisFails, RedisForgets, vars, watchdogVars
  <2> QED  BY <2>1, <2>2, <2>3, <2>4 DEF Next, WatchdogStep
<1>2. up /\ cooldown = 0 /\ low[w]
  BY <1>1 DEF Check, Sleep, Spaced, WatchdogsTyped
<1>3. sinceAlert[w] = INTERVAL  BY DEF Spaced, Awake
<1>4. ASSUME NEW v \in Workers \ {w}, sinceAlert[v] < INTERVAL, watch[v] # "cool", ~uncooled
      PROVE  FALSE
  <2>1. cooldown + sinceAlert[v] >= INTERVAL  BY <1>4 DEF Spaced, Cooled
  <2>2. sinceAlert[v] \in 0 .. INTERVAL  BY DEF Spaced, WatchdogsTyped
  <2> QED  BY <1>2, <1>4, <2>1, <2>2, Constants
<1> QED  BY <1>2, <1>3, <1>4

(* An alert is raised on an average below the threshold, once in an        *)
(* interval by each process, and by a second process only if the first had *)
(* not yet set the cooldown, could not, or was restarted, or Redis lost it.*)
THEOREM AlertsAreFewHolds == Spec => AlertsAreFew
<1> DEFINE Few == \A w \in Workers :
             watch[w] = "check" /\ watch'[w] = "send" =>
               /\ low[w] /\ sinceAlert[w] = INTERVAL
               /\ \A v \in Workers \ {w} :
                    sinceAlert[v] < INTERVAL => watch[v] = "cool" \/ uncooled
<1>1. Init => RequestsTyped /\ Spaced  BY InitTyped, InitSpaced
<1>2. RequestsTyped /\ Spaced /\ [Next]_vars => (RequestsTyped /\ Spaced)'  BY NextSpaced
<1>3. RequestsTyped /\ Spaced /\ [Next]_vars => [Few]_vars
  BY AlertStep
<1>4. Spec => [][Few]_vars  BY <1>1, <1>2, <1>3, PTL DEF Spec
<1> QED  BY <1>4 DEF AlertsAreFew

-----------------------------------------------------------------------------
(***************************************************************************)
(* The lists of scores.                                                    *)
(***************************************************************************)
(* new is list with e in front, cut to max places.                         *)
PushedOnto(list, e, max, new) ==
  /\ Len(new) <= max /\ DOMAIN new = 1 .. Len(new) /\ Len(new) \in Nat
  /\ \A i \in DOMAIN new : i = 1 \/ i - 1 \in DOMAIN list
  /\ \A i \in DOMAIN new : new[i] = IF i = 1 THEN e ELSE list[i - 1]

(* Pushing an entry in front and trimming moves the others one place on.   *)
LEMMA PushedFront ==
  ASSUME NEW S, NEW list \in Seq(S), NEW e \in S, NEW max \in Nat \ {0},
         NEW new, new = Trimmed(<<e>> \o list, max)
  PROVE  PushedOnto(list, e, max, new)
<1> DEFINE long == <<e>> \o list
           n    == IF Len(long) < max THEN Len(long) ELSE max
<1>1. /\ long \in Seq(S) /\ Len(long) = Len(list) + 1 /\ Len(list) \in Nat
      /\ \A i \in 1 .. Len(list) + 1 : long[i] = IF i = 1 THEN e ELSE list[i - 1]
      /\ DOMAIN list = 1 .. Len(list)
  <2>1. <<e>> \in Seq(S) /\ Len(<<e>>) = 1 /\ <<e>>[1] = e
    OBVIOUS
  <2>2. QED
    BY <2>1, ConcatProperties
<1>2. n \in 1 .. Len(list) + 1 /\ n <= max
  BY <1>1
<1>3. \A i \in 1 .. n : long[i] \in S
  BY <1>1, <1>2, ElementOfSeq
<1>4. new = SubSeq(long, 1, n)
  BY DEF Trimmed
<1> HIDE DEF n, long
<1>5. /\ new \in Seq(S) /\ Len(new) = n
      /\ \A i \in 1 .. n : new[i] = long[i]
  BY <1>2, <1>3, <1>4, SubSeqProperties
<1>6. DOMAIN new = 1 .. n
  BY <1>5
<1>7. /\ \A i \in DOMAIN new : i = 1 \/ i - 1 \in DOMAIN list
      /\ \A i \in DOMAIN new : new[i] = IF i = 1 THEN e ELSE list[i - 1]
  <2>1. ASSUME NEW i \in 1 .. n PROVE i = 1 \/ i - 1 \in 1 .. Len(list)
    BY <1>1, <1>2
  <2>2. ASSUME NEW i \in 1 .. n PROVE new[i] = IF i = 1 THEN e ELSE list[i - 1]
    BY <1>1, <1>2, <1>5
  <2>3. QED
    BY <1>1, <1>6, <2>1, <2>2
<1>8. QED
  BY <1>2, <1>5, <1>6, <1>7 DEF PushedOnto

(* Places that are 1 or follow a place of another set.                     *)
LEMMA ShiftedSize ==
  ASSUME NEW B \in SUBSET Nat, IsFiniteSet(B), NEW A \in SUBSET Nat,
         \A i \in A : i = 1 \/ i - 1 \in B
  PROVE  /\ IsFiniteSet(A) /\ Cardinality(A) \in Nat /\ Cardinality(B) \in Nat
         /\ Cardinality(A) <= Cardinality(B) + 1
         /\ 1 \notin A => Cardinality(A) <= Cardinality(B)
<1> DEFINE later == A \ {1}
           f == [i \in later |-> i - 1]
<1>1. f \in Injection(later, B)
  BY DEF Injection, IsInjective
<1>2. IsFiniteSet(later) /\ Cardinality(later) <= Cardinality(B)
  <2> HIDE DEF f, later
  <2>1. QED
    BY <1>1, FS_Injection
<1>3. IsFiniteSet(later \cup {1}) /\ Cardinality(later \cup {1}) = Cardinality(later) + 1
  <2>1. 1 \notin later
    OBVIOUS
  <2> HIDE DEF later
  <2>2. QED
    BY <1>2, <2>1, FS_AddElement
<1>4. A = later \/ A = later \cup {1}
  OBVIOUS
<1>5. 1 \notin A => A = later
  OBVIOUS
<1>6. Cardinality(later) \in Nat /\ Cardinality(B) \in Nat
  BY <1>2, FS_CardinalityType
<1> HIDE DEF later
<1>7. CASE A = later
  BY <1>2, <1>6, <1>7
<1>8. CASE A = later \cup {1}
  <2>1. Cardinality(A) = Cardinality(later) + 1 /\ IsFiniteSet(A)
    BY <1>3, <1>8
  <2>2. 1 \in A
    BY <1>8
  <2>3. QED
    BY <1>2, <1>6, <2>1, <2>2
<1>9. QED
  BY <1>4, <1>7, <1>8

(***************************************************************************)
(* The inductive invariant.  An entry of a list belongs to a request that  *)
(* is sampled and past the point where that was decided; faithfulness is   *)
(* recorded last, so a request still to record has no entry.               *)
(***************************************************************************)
Marks(r) == {i \in DOMAIN relevance : relevance[i].of = r}

RelevanceHonest ==
  /\ \A i \in DOMAIN relevance :
       sampled[relevance[i].of] /\ stage[relevance[i].of] # "new"
  /\ \A r \in Requests : Cardinality(Marks(r)) <= searched[r]
  /\ Len(relevance) <= QUEUE_SIZE

FaithfulnessHonest ==
  /\ \A r \in Requests : stage[r] \in {"push", "trim", "faith"} =>
       answer[r] = "text" /\ retrieved[r] > 0
  /\ \A i \in DOMAIN faithfulness :
       /\ sampled[faithfulness[i]] /\ stage[faithfulness[i]] = "done"
       /\ answer[faithfulness[i]] = "text" /\ retrieved[faithfulness[i]] > 0
  /\ \A i, j \in DOMAIN faithfulness : faithfulness[i] = faithfulness[j] => i = j
  /\ Len(faithfulness) <= QUEUE_SIZE

Honest == RelevanceHonest /\ FaithfulnessHonest

(* A request's places in the list are finitely many numbers.               *)
LEMMA MarksFinite ==
  ASSUME RequestsTyped, NEW r \in Requests
  PROVE  IsFiniteSet(Marks(r)) /\ Marks(r) \in SUBSET Nat
<1>1. DOMAIN relevance = 1 .. Len(relevance) /\ Len(relevance) \in Nat
  BY DEF RequestsTyped
<1>2. IsFiniteSet(1 .. Len(relevance))
  BY <1>1, FS_Interval
<1>3. QED
  BY <1>1, <1>2, FS_Subset DEF Marks

(* Nothing is recorded to begin with.                                      *)
LEMMA InitHonest == Init => Honest
<1> SUFFICES ASSUME Init PROVE Honest
  OBVIOUS
<1>1. /\ relevance = <<>> /\ faithfulness = <<>>
      /\ searched = [r \in Requests |-> 0] /\ stage = [r \in Requests |-> "new"]
  BY DEF Init
<1>2. DOMAIN relevance = {} /\ DOMAIN faithfulness = {} /\ Len(relevance) = 0 /\ Len(faithfulness) = 0
  BY <1>1
<1>3. \A r : Marks(r) = {}
  BY <1>2 DEF Marks
<1>4. RelevanceHonest
  <2>1. \A r \in Requests : Cardinality(Marks(r)) = 0 /\ searched[r] = 0
    BY <1>1, <1>3, FS_EmptySet
  <2>2. Len(relevance) <= QUEUE_SIZE
    BY <1>2, Constants
  <2>3. QED
    BY <1>2, <2>1, <2>2 DEF RelevanceHonest
<1>5. FaithfulnessHonest
  BY <1>1, <1>2, Constants DEF FaithfulnessHonest
<1>6. QED
  BY <1>4, <1>5 DEF Honest

(* The relevance list changes with a retrieval only; what is known of the  *)
(* requests in it stays so.                                                *)
LEMMA RelevanceStays ==
  ASSUME RequestsTyped, RelevanceHonest, NEW r \in Requests, RequestStep(r)
  PROVE  RelevanceHonest'
<1>1. CASE RecordRelevance(r) /\ Records(r) /\ up
  <2>1. PICK s \in Given :
          relevance' = Trimmed(<<[of |-> r, score |-> s]>> \o relevance, QUEUE_SIZE)
    BY <1>1 DEF RecordRelevance
  <2>2. searched' = [searched EXCEPT ![r] = @ + 1] /\ sampled' = sampled /\ stage' = stage
        /\ stage[r] = "agent" /\ sampled[r]
    BY <1>1 DEF RecordRelevance, Records
  <2> DEFINE e == [of |-> r, score |-> s]
  <2>3. e \in Entries /\ relevance \in Seq(Entries)
    BY Constants DEF Given, Entries, RequestsTyped, NaN
  <2>e. relevance' = Trimmed(<<e>> \o relevance, QUEUE_SIZE) /\ e.of = r
    BY <2>1
  <2> HIDE DEF e
  <2>4. /\ Len(relevance') <= QUEUE_SIZE /\ DOMAIN relevance' = 1 .. Len(relevance')
        /\ Len(relevance') \in Nat
        /\ \A i \in DOMAIN relevance' : i = 1 \/ i - 1 \in DOMAIN relevance
        /\ \A i \in DOMAIN relevance' :
             relevance'[i] = IF i = 1 THEN e ELSE relevance[i - 1]
    <3>1. QUEUE_SIZE \in Nat \ {0}
      BY Constants
    <3>2. PushedOnto(relevance, e, QUEUE_SIZE, relevance')
      BY <2>3, <2>e, <3>1, PushedFront
    <3>3. QED
      BY <3>2 DEF PushedOnto
  <2>5. \A i \in DOMAIN relevance' :
          sampled'[relevance'[i].of] /\ stage'[relevance'[i].of] # "new"
    BY <2>2, <2>4, <2>e DEF RelevanceHonest
  <2>6. ASSUME NEW q \in Requests PROVE Cardinality(Marks(q)') <= searched'[q]
    <3>1. Marks(q)' = {i \in DOMAIN relevance' : relevance'[i].of = q}
      BY DEF Marks
    <3>2. Marks(q)' \in SUBSET Nat /\ \A i \in Marks(q)' : i = 1 \/ i - 1 \in Marks(q)
      BY <2>4, <3>1 DEF Marks
    <3>3. q # r => 1 \notin Marks(q)'
      BY <2>4, <2>e, <3>1
    <3>4. IsFiniteSet(Marks(q)) /\ Marks(q) \in SUBSET Nat
      BY MarksFinite
    <3> DEFINE A == Marks(q)'
    <3> HIDE DEF A
    <3>5. /\ Cardinality(A) \in Nat /\ Cardinality(Marks(q)) \in Nat
          /\ Cardinality(A) <= Cardinality(Marks(q)) + 1
          /\ q # r => Cardinality(A) <= Cardinality(Marks(q))
      BY <3>2, <3>3, <3>4, ShiftedSize DEF A
    <3>6. Cardinality(Marks(q)) <= searched[q] /\ searched[q] \in Nat
      BY DEF RelevanceHonest, RequestsTyped
    <3>7. searched'[q] = IF q = r THEN searched[q] + 1 ELSE searched[q]
      BY <2>2 DEF RequestsTyped
    <3>8. QED
      BY <3>5, <3>6, <3>7 DEF A
  <2>7. QED
    BY <2>4, <2>5, <2>6 DEF RelevanceHonest
<1>2. CASE relevance' = relevance
  <2>1. \A q \in Requests : Marks(q)' = Marks(q)
    BY <1>2 DEF Marks
  <2>2. ASSUME NEW q \in Requests
        PROVE  /\ searched'[q] \in Nat /\ searched[q] \in Nat /\ searched[q] <= searched'[q]
               /\ stage[q] # "new" => stage'[q] # "new" /\ sampled'[q] = sampled[q]
    <3>1. searched'[q] = searched[q] \/ searched'[q] = searched[q] + 1
      BY DEF RequestStep, Enter, RecordRelevance, AnswerFound, PushScores, TrimScores,
             RecordFaithfulness, Cancelled, Trims, RequestsTyped
    <3>2. searched[q] \in Nat
      BY Constants DEF RequestsTyped
    <3>3. CASE Enter(r)
      BY <3>1, <3>2, <3>3 DEF Enter, RequestsTyped
    <3>4. CASE AnswerFound(r)
      <4>1. stage'[q] # "new" \/ stage'[q] = stage[q]
        BY <3>4 DEF AnswerFound, Evaluated, RequestsTyped
      <4>2. QED
        BY <3>1, <3>2, <3>4, <4>1 DEF AnswerFound
    <3>5. CASE RecordRelevance(r) \/ PushScores(r) \/ TrimScores(r) \/ RecordFaithfulness(r)
               \/ Cancelled(r)
      <4>1. sampled' = sampled
        BY <3>5 DEF RecordRelevance, PushScores, TrimScores, Trims, RecordFaithfulness, Cancelled
      <4>2. stage' = stage \/ \E d \in {"trim", "faith", "done"} : stage' = [stage EXCEPT ![r] = d]
        BY <3>5 DEF RecordRelevance, PushScores, TrimScores, Trims, RecordFaithfulness, Cancelled
      <4>3. stage[q] # "new" => stage'[q] # "new"
        BY <4>2 DEF RequestsTyped
      <4>4. QED
        BY <3>1, <3>2, <4>1, <4>3
    <3>6. QED
      BY <3>3, <3>4, <3>5 DEF RequestStep
  <2>3. ASSUME NEW q \in Requests PROVE Cardinality(Marks(q)') <= searched'[q]
    <3>1. Cardinality(Marks(q)) \in Nat
      BY MarksFinite, FS_CardinalityType
    <3>2. QED
      BY <2>1, <2>2, <3>1 DEF RelevanceHonest
  <2>4. ASSUME NEW i \in DOMAIN relevance PROVE relevance[i].of \in Requests
    <3>1. relevance \in Seq(Entries) /\ i \in 1 .. Len(relevance)
      BY DEF RequestsTyped
    <3>2. relevance[i] \in Entries
      BY <3>1, ElementOfSeq
    <3>3. QED
      BY <3>2 DEF Entries
  <2>5. QED
    BY <1>2, <2>2, <2>3, <2>4 DEF RelevanceHonest
<1>3. QED
  BY <1>1, <1>2 DEF RequestStep, Enter, RecordRelevance, AnswerFound, PushScores, TrimScores,
                    RecordFaithfulness, Cancelled, Trims, lists

(* Faithfulness is recorded as a request's last step, and nothing that it  *)
(* rests on changes afterwards.                                            *)
LEMMA FaithfulnessStays ==
  ASSUME RequestsTyped, FaithfulnessHonest, NEW r \in Requests, RequestStep(r)
  PROVE  FaithfulnessHonest'
<1>1. ASSUME NEW q \in Requests, stage'[q] \in {"push", "trim", "faith"}
      PROVE  answer'[q] = "text" /\ retrieved'[q] > 0
  BY <1>1 DEF RequestStep, Enter, RecordRelevance, AnswerFound, PushScores, TrimScores,
         RecordFaithfulness, Cancelled, Trims, RequestsTyped, FaithfulnessHonest
<1>2. ASSUME NEW q \in Requests, stage[q] = "done"
      PROVE  /\ stage'[q] = "done" /\ sampled'[q] = sampled[q] /\ answer'[q] = answer[q]
             /\ retrieved'[q] = retrieved[q] /\ q # r
  BY <1>2 DEF RequestStep, Enter, RecordRelevance, AnswerFound, PushScores, TrimScores,
         RecordFaithfulness, Cancelled, Trims, RequestsTyped
<1>3. \A i \in DOMAIN faithfulness : faithfulness[i] \in Requests
  BY ElementOfSeq DEF RequestsTyped
<1>4. CASE RecordFaithfulness(r) /\ Records(r) /\ up
  <2>1. /\ faithfulness' = Trimmed(<<r>> \o faithfulness, QUEUE_SIZE)
        /\ stage[r] = "faith" /\ sampled[r] /\ stage' = [stage EXCEPT ![r] = "done"]
        /\ UNCHANGED <<sampled, answer, retrieved>>
    BY <1>4 DEF RecordFaithfulness, Records
  <2>2. /\ Len(faithfulness') <= QUEUE_SIZE /\ DOMAIN faithfulness' = 1 .. Len(faithfulness')
        /\ Len(faithfulness') \in Nat
        /\ \A i \in DOMAIN faithfulness' : i = 1 \/ i - 1 \in DOMAIN faithfulness
        /\ \A i \in DOMAIN faithfulness' :
             faithfulness'[i] = IF i = 1 THEN r ELSE faithfulness[i - 1]
    <3>1. faithfulness \in Seq(Requests)
      BY DEF RequestsTyped
    <3>2. faithfulness' = Trimmed(<<r>> \o faithfulness, QUEUE_SIZE)
      BY <2>1
    <3>3. QUEUE_SIZE \in Nat \ {0}
      BY Constants
    <3>4. PushedOnto(faithfulness, r, QUEUE_SIZE, faithfulness')
      BY <3>1, <3>2, <3>3, PushedFront
    <3>5. QED
      BY <3>4 DEF PushedOnto
  <2>3. stage'[r] = "done" /\ answer[r] = "text" /\ retrieved[r] > 0
    BY <2>1 DEF RequestsTyped, FaithfulnessHonest
  <2>4. ASSUME NEW i \in DOMAIN faithfulness'
        PROVE  /\ sampled'[faithfulness'[i]] /\ stage'[faithfulness'[i]] = "done"
               /\ answer'[faithfulness'[i]] = "text" /\ retrieved'[faithfulness'[i]] > 0
    BY <1>2, <1>3, <2>1, <2>2, <2>3 DEF FaithfulnessHonest
  <2>5. \A i \in DOMAIN faithfulness : faithfulness[i] # r
    BY <2>1 DEF FaithfulnessHonest
  <2>6. ASSUME NEW i \in DOMAIN faithfulness', NEW j \in DOMAIN faithfulness',
               faithfulness'[i] = faithfulness'[j]
        PROVE  i = j
    <3>1. i \in Nat /\ j \in Nat
      BY <2>2
    <3>2. CASE i = 1 \/ j = 1
      BY <2>2, <2>5, <2>6, <3>2
    <3>3. CASE i # 1 /\ j # 1
      <4>1. i - 1 = j - 1
        BY <2>2, <2>6, <3>3 DEF FaithfulnessHonest
      <4>2. QED
        BY <3>1, <4>1
    <3>4. QED
      BY <3>2, <3>3
  <2>7. QED
    BY <1>1, <2>2, <2>4, <2>6 DEF FaithfulnessHonest
<1>5. CASE faithfulness' = faithfulness
  BY <1>1, <1>2, <1>3, <1>5 DEF FaithfulnessHonest
<1>6. QED
  BY <1>4, <1>5 DEF RequestStep, Enter, RecordRelevance, AnswerFound, PushScores, TrimScores,
                    RecordFaithfulness, Cancelled, Trims, lists

(* Every step keeps the records honest.                                    *)
LEMMA NextHonest ==
  ASSUME RequestsTyped, Honest, [Next]_vars
  PROVE  Honest'
<1>1. CASE \E r \in Requests : RequestStep(r)
  BY <1>1, RelevanceStays, FaithfulnessStays DEF Honest
<1>2. CASE UNCHANGED <<requestVars, lists>>
  BY <1>2 DEF Honest, RelevanceHonest, FaithfulnessHonest, requestVars, lists, Marks
<1>3. CASE RedisForgets
  <2>1. /\ DOMAIN relevance' = {} /\ Len(relevance') = 0
        /\ DOMAIN faithfulness' = {} /\ Len(faithfulness') = 0
        /\ UNCHANGED requestVars
    BY <1>3 DEF RedisForgets
  <2>2. \A r \in Requests : Cardinality(Marks(r)') = 0 /\ searched'[r] \in Nat
    BY <2>1, FS_EmptySet, Constants DEF Marks, requestVars, RequestsTyped
  <2>3. RelevanceHonest'
    BY <2>1, <2>2, Constants DEF RelevanceHonest
  <2>4. FaithfulnessHonest'
    BY <2>1, Constants DEF FaithfulnessHonest, Honest, requestVars
  <2>5. QED
    BY <2>3, <2>4 DEF Honest
<1>4. (\E r \in Requests : RequestStep(r)) \/ UNCHANGED <<requestVars, lists>> \/ RedisForgets
  BY DEF Next, WatchdogStep, Poll, Check, Send, Cool, Restart, Tick, RedisFails, vars
<1>5. QED
  BY <1>1, <1>2, <1>3, <1>4

(***************************************************************************)
(* record_relevance and record_faithfulness record what happened, for      *)
(* sampled requests only: a relevance for each retrieval at most, found    *)
(* chunks or not, and a faithfulness of an answer given from chunks, once. *)
(***************************************************************************)
THEOREM ScoresAreHonest == Spec => []RecordedHonestly
<1>1. Init => RequestsTyped /\ WatchdogsTyped /\ Honest
  BY InitTyped, InitHonest
<1>2. RequestsTyped /\ WatchdogsTyped /\ Honest /\ [Next]_vars
        => (RequestsTyped /\ WatchdogsTyped /\ Honest)'
  BY NextTyped, NextHonest
<1>3. RequestsTyped /\ Honest => RecordedHonestly
  <2> SUFFICES ASSUME RequestsTyped, Honest PROVE RecordedHonestly
    OBVIOUS
  <2>1. ASSUME NEW r \in Requests
        PROVE  LET relevant == Cardinality({i \in DOMAIN relevance : relevance[i].of = r})
                   faithful == Cardinality({i \in DOMAIN faithfulness : faithfulness[i] = r})
               IN  /\ relevant <= searched[r] /\ faithful <= 1
                   /\ relevant + faithful > 0 => sampled[r]
                   /\ faithful = 1 => answer[r] = "text" /\ retrieved[r] > 0
    <3> DEFINE F == {i \in DOMAIN faithfulness : faithfulness[i] = r}
    <3>0. \A i, j \in F : i = j
      BY DEF Honest, FaithfulnessHonest
    <3>1. F = {} \/ \E i : F = {i}
      <4> HIDE DEF F
      <4>1. CASE F # {}
        <5>1. PICK i \in F : TRUE
          BY <4>1
        <5>2. F = {i}
          BY <3>0, <5>1
        <5>3. QED
          BY <5>2
      <4>2. QED
        BY <4>1
    <3>2. Cardinality(F) \in {0, 1} /\ (F = {} => Cardinality(F) = 0)
      BY <3>1, FS_EmptySet, FS_Singleton
    <3>3. F # {} => sampled[r] /\ answer[r] = "text" /\ retrieved[r] > 0
      BY DEF Honest, FaithfulnessHonest
    <3>4. Cardinality(Marks(r)) <= searched[r] /\ Cardinality(Marks(r)) \in Nat
      BY MarksFinite, FS_CardinalityType DEF Honest, RelevanceHonest
    <3>5. Marks(r) = {} => Cardinality(Marks(r)) = 0
      BY FS_EmptySet
    <3>6. Marks(r) # {} => sampled[r]
      BY DEF Honest, RelevanceHonest, Marks
    <3> HIDE DEF F
    <3>7. /\ Cardinality(Marks(r)) <= searched[r] /\ Cardinality(F) <= 1
          /\ Cardinality(Marks(r)) + Cardinality(F) > 0 => sampled[r]
          /\ Cardinality(F) = 1 => answer[r] = "text" /\ retrieved[r] > 0
      BY <3>2, <3>3, <3>4, <3>5, <3>6
    <3>8. QED
      BY <3>7 DEF F, Marks
  <2>2. QED
    BY <2>1 DEF RecordedHonestly, Count
<1>4. QED
  BY <1>1, <1>2, <1>3, PTL DEF Spec

-----------------------------------------------------------------------------
(***************************************************************************)
(* The third list.  A request whose push no trim has followed is between   *)
(* the two, or past them; each takes a place beyond the cap at most.       *)
(***************************************************************************)
Waiting == {r \in Requests : stage[r] = "trim"} \cup untrimmed

Capped ==
  /\ \A r \in untrimmed : stage[r] \in {"faith", "done"}
  /\ scores <= SCORES_MAX + Cardinality(Waiting)

(* One more waits, or they are as many or more.                            *)
LEMMA WaitingCounted ==
  ASSUME IsFiniteSet(Requests), RequestsTyped, RequestsTyped'
  PROVE  /\ Cardinality(Waiting) \in Nat /\ Cardinality(Waiting') \in Nat
         /\ Waiting \subseteq Waiting' => Cardinality(Waiting) <= Cardinality(Waiting')
         /\ \A r \in Requests : Waiting' = Waiting \cup {r} /\ r \notin Waiting
              => Cardinality(Waiting') = Cardinality(Waiting) + 1
<1>1. Waiting \subseteq Requests /\ Waiting' \subseteq Requests
  BY DEF Waiting, RequestsTyped
<1>2. IsFiniteSet(Waiting) /\ IsFiniteSet(Waiting')
  BY <1>1, FS_Subset
<1>3. QED
  BY <1>2, FS_Subset, FS_CardinalityType, FS_AddElement

(* A push makes the list one longer and its request one that waits.        *)
LEMMA RequestCapped ==
  ASSUME IsFiniteSet(Requests), RequestsTyped, RequestsTyped', Capped,
         NEW r \in Requests, RequestStep(r)
  PROVE  Capped'
<1>1. CASE stage[r] = "push" /\ scores' = scores + 1
  <2>1. /\ \/ stage' = [stage EXCEPT ![r] = "trim"] /\ untrimmed' = untrimmed
           \/ /\ \E d \in {"faith", "done"} : stage' = [stage EXCEPT ![r] = d]
              /\ untrimmed' = untrimmed \cup {r}
    BY <1>1 DEF RequestStep, Enter, RecordRelevance, AnswerFound, PushScores, TrimScores, Trims,
                RecordFaithfulness, Cancelled, RequestsTyped, lists
  <2>2. Waiting' = Waiting \cup {r} /\ r \notin Waiting
    <3>1. r \notin Waiting
      BY <1>1 DEF Waiting, Capped
    <3>2. \A q \in Requests : q # r => stage'[q] = stage[q]
      BY <2>1 DEF RequestsTyped
    <3>3. \/ stage'[r] = "trim" /\ untrimmed' = untrimmed
          \/ stage'[r] # "trim" /\ untrimmed' = untrimmed \cup {r}
      BY <2>1 DEF RequestsTyped
    <3>4. QED
      BY <3>1, <3>2, <3>3 DEF Waiting, RequestsTyped
  <2>3. Cardinality(Waiting') = Cardinality(Waiting) + 1
    BY <2>2, WaitingCounted
  <2>4. scores' <= SCORES_MAX + Cardinality(Waiting')
    <3>1. Cardinality(Waiting) \in Nat /\ scores \in Nat
      BY WaitingCounted DEF RequestsTyped
    <3>2. scores <= SCORES_MAX + Cardinality(Waiting)
      BY DEF Capped
    <3>3. QED
      BY <1>1, <2>3, <3>1, <3>2, Constants
  <2>5. \A q \in untrimmed' : stage'[q] \in {"faith", "done"}
    BY <1>1, <2>1 DEF Capped, RequestsTyped
  <2>6. QED
    BY <2>4, <2>5 DEF Capped
<1>2. CASE scores' <= SCORES_MAX /\ untrimmed' = {}
  <2>1. Cardinality(Waiting') \in Nat /\ scores' \in Nat
    BY WaitingCounted DEF RequestsTyped
  <2>2. scores' <= SCORES_MAX + Cardinality(Waiting')
    BY <1>2, <2>1, Constants
  <2>3. QED
    BY <1>2, <2>2 DEF Capped
<1>3. CASE UNCHANGED <<scores, untrimmed>> /\ stage[r] # "trim"
  <2>1. \A q \in Requests : q # r => stage'[q] = stage[q]
    BY DEF RequestStep, Enter, RecordRelevance, AnswerFound, PushScores, TrimScores, Trims,
           RecordFaithfulness, Cancelled, RequestsTyped
  <2>2. Waiting \subseteq Waiting'
    BY <1>3, <2>1 DEF Waiting
  <2>3. r \in untrimmed => stage'[r] \in {"faith", "done"}
    BY <1>3 DEF RequestStep, Enter, RecordRelevance, AnswerFound, PushScores, TrimScores, Trims,
           RecordFaithfulness, Cancelled, RequestsTyped, Capped
  <2>4. \A q \in untrimmed' : stage'[q] \in {"faith", "done"}
    BY <1>3, <2>1, <2>3 DEF Capped, RequestsTyped
  <2>5. QED
    <3>1. /\ Cardinality(Waiting) \in Nat /\ Cardinality(Waiting') \in Nat /\ scores \in Nat
          /\ Cardinality(Waiting) <= Cardinality(Waiting')
      BY <2>2, WaitingCounted DEF RequestsTyped
    <3>2. scores' = scores /\ scores <= SCORES_MAX + Cardinality(Waiting)
      BY <1>3 DEF Capped
    <3>3. scores' <= SCORES_MAX + Cardinality(Waiting')
      BY <3>1, <3>2, Constants
    <3>4. QED
      BY <2>4, <3>3 DEF Capped
<1>4. CASE /\ stage[r] = "trim" /\ scores' = scores /\ untrimmed' = untrimmed \cup {r}
           /\ \E d \in {"faith", "done"} : stage' = [stage EXCEPT ![r] = d]
  <2>1. Waiting \subseteq Waiting'
    BY <1>4 DEF Waiting, RequestsTyped
  <2>2. \A q \in untrimmed' : stage'[q] \in {"faith", "done"}
    BY <1>4 DEF Capped, RequestsTyped
  <2>3. QED
    <3>1. /\ Cardinality(Waiting) \in Nat /\ Cardinality(Waiting') \in Nat /\ scores \in Nat
          /\ Cardinality(Waiting) <= Cardinality(Waiting')
      BY <2>1, WaitingCounted DEF RequestsTyped
    <3>2. scores' = scores /\ scores <= SCORES_MAX + Cardinality(Waiting)
      BY <1>4 DEF Capped
    <3>3. scores' <= SCORES_MAX + Cardinality(Waiting')
      BY <3>1, <3>2, Constants
    <3>4. QED
      BY <2>2, <3>3 DEF Capped
<1>5. CASE Enter(r) \/ RecordRelevance(r) \/ AnswerFound(r) \/ RecordFaithfulness(r)
  BY <1>3, <1>5 DEF Enter, RecordRelevance, AnswerFound, RecordFaithfulness, lists
<1>6. CASE PushScores(r)
  BY <1>1, <1>3, <1>6 DEF PushScores
<1>7. CASE TrimScores(r)
  <2>1. CASE up /\ untrimmed' = {} /\ scores' = IF scores > SCORES_MAX THEN SCORES_MAX ELSE scores
    <3>1. scores' <= SCORES_MAX
      BY <2>1, Constants DEF RequestsTyped
    <3>2. QED
      BY <1>2, <2>1, <3>1
  <2>2. CASE scores' = scores /\ untrimmed' = untrimmed \cup {r}
    BY <1>4, <1>7, <2>2 DEF TrimScores, Trims
  <2>3. QED
    BY <1>7, <2>1, <2>2 DEF TrimScores, Trims
<1>8. CASE Cancelled(r)
  BY <1>1, <1>3, <1>4, <1>8 DEF Cancelled
<1>9. QED
  BY <1>5, <1>6, <1>7, <1>8 DEF RequestStep

(* Every step keeps the third list within its bound.                       *)
LEMMA NextCapped ==
  ASSUME IsFiniteSet(Requests), RequestsTyped, RequestsTyped', Capped, [Next]_vars
  PROVE  Capped'
<1>1. CASE \E r \in Requests : RequestStep(r)
  BY <1>1, RequestCapped
<1>2. CASE UNCHANGED <<requestVars, lists>>
  BY <1>2 DEF Capped, Waiting, requestVars, lists
<1>3. CASE RedisForgets
  <2>1. scores' = 0 /\ untrimmed' = {}
    BY <1>3 DEF RedisForgets
  <2>2. QED
    BY <2>1, WaitingCounted, Constants DEF Capped
<1>4. (\E r \in Requests : RequestStep(r)) \/ UNCHANGED <<requestVars, lists>> \/ RedisForgets
  BY DEF Next, WatchdogStep, Poll, Check, Send, Cool, Restart, Tick, RedisFails, vars
<1>5. QED
  BY <1>1, <1>2, <1>3, <1>4

(***************************************************************************)
(* _push_score and _push_scores_to_redis: however the requests' pushes and *)
(* trims overlap, fail and are cancelled, the first two lists keep within  *)
(* their cap, and the third goes beyond it only by the pushes that no trim *)
(* has followed.  There are finitely many requests: the bound counts them. *)
(***************************************************************************)
THEOREM ListsAreCapped == IsFiniteSet(Requests) => (Spec => []ListsCapped)
<1> SUFFICES ASSUME IsFiniteSet(Requests) PROVE Spec => []ListsCapped
  OBVIOUS
<1>1. Init => RequestsTyped /\ WatchdogsTyped /\ Honest /\ Capped
  <2> SUFFICES ASSUME Init PROVE Capped
    BY InitTyped, InitHonest
  <2>1. /\ untrimmed = {} /\ scores = 0
        /\ Waiting = {}
    BY DEF Init, Waiting
  <2>2. QED
    BY <2>1, FS_EmptySet, Constants DEF Capped
<1>2. RequestsTyped /\ WatchdogsTyped /\ Honest /\ Capped /\ [Next]_vars
        => (RequestsTyped /\ WatchdogsTyped /\ Honest /\ Capped)'
  BY NextTyped, NextHonest, NextCapped
<1>3. Honest /\ Capped => ListsCapped
  BY DEF Honest, RelevanceHonest, FaithfulnessHonest, Capped, Waiting, ListsCapped
<1>4. QED
  BY <1>1, <1>2, <1>3, PTL DEF Spec
===============================================================================
