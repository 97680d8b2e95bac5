------------------------------ MODULE Evaluation ------------------------------
(***************************************************************************)
(* Quality scores and the watchdog over them.  LoggingMiddleware decides   *)
(* whether a request is sampled; the agent's retrievals and its answer are *)
(* scored (observability/rag_eval.py, observability/phoenix_eval.py) into  *)
(* lists in Redis; in every API process a watchdog task                    *)
(* (observability/watchdog.py) polls them and raises an alert, with a      *)
(* cooldown key in Redis.  Scores are in percent.                          *)
(*                                                                         *)
(* How the modules find each other is a parameter.  "committed": only      *)
(* /app/api is on the path, and the bare imports of rag_eval, watchdog and *)
(* phoenix_setup fail.  "onPath": observability is on the path too, but    *)
(* `trace_context' is then a second module with a context of its own.      *)
(* "intended": there is one context, and chunks are the dictionaries       *)
(* phoenix_eval expects.                                                   *)
(***************************************************************************)
EXTENDS Naturals, Sequences, FiniteSets, SequencesExt

CONSTANTS
  Requests,
  Workers,        (* API processes                                         *)
  Wirings,
  Scores,         (* what an evaluation may give                           *)
  QUEUE_SIZE,     (* rag_eval's cap                                        *)
  SCORES_MAX,     (* phoenix_eval's cap                                    *)
  MIN_SAMPLES, THRESHOLD, INTERVAL,
  MaxRetrievals   (* retrievals of one request (bound of the model)        *)

ASSUME EvaluationAssumption ==
  /\ Wirings \subseteq {"committed", "onPath", "intended"}
  /\ Scores \subseteq 0 .. 100
  /\ {QUEUE_SIZE, SCORES_MAX, INTERVAL} \subseteq Nat \ {0}
  /\ {MIN_SAMPLES, THRESHOLD, MaxRetrievals} \subseteq Nat

VARIABLES
  wiring, up,     (* ... and whether Redis answers                         *)
  stage,          (* of each request                                       *)
  sampled,        (* TraceContext.sampled                                  *)
  searched,       (* retrievals that came to record_relevance              *)
  retrieved,      (* ... and gave chunks                                   *)
  answer,         (* final_answer: none yet, empty, or a text              *)
  relevance, faithfulness,            (* two lists, newest first           *)
  scores,         (* length of the third                                   *)
  untrimmed,      (* requests whose push was not followed by a trim, since *)
                  (* the last trim (history)                               *)
  watch, timer,   (* stage of each watchdog, and its sleep                 *)
  low,            (* what it read: the average is below THRESHOLD          *)
  cooldown,       (* time to live of COOLDOWN_KEY, 0 when there is none    *)
  sinceAlert,     (* time since a process's last alert, up to INTERVAL     *)
  uncooled        (* a process was restarted, or a cooldown could not be   *)
                  (* set, or was lost with Redis's memory                  *)

requestVars  == <<stage, sampled, searched, retrieved, answer>>
lists        == <<relevance, faithfulness, scores, untrimmed>>
watchdogVars == <<watch, timer, low, cooldown, sinceAlert, uncooled>>
vars == <<wiring, up, requestVars, lists, watchdogVars>>

(* What RAGAS gives for an evaluation that failed: a float that is no      *)
(* number, here one that is no score.                                      *)
NaN == 101

Stages == {"new", "agent", "push", "trim", "faith", "done"}

TypeOK ==
  /\ wiring \in Wirings /\ up \in BOOLEAN
  /\ stage \in [Requests -> Stages]
  /\ sampled \in [Requests -> BOOLEAN]
  /\ searched \in [Requests -> 0 .. MaxRetrievals]
  /\ retrieved \in [Requests -> 0 .. MaxRetrievals]
  /\ answer \in [Requests -> {"none", "empty", "text"}]
  /\ relevance \in Seq([of : Requests, score : 0 .. NaN])
  /\ faithfulness \in Seq(Requests)
  /\ scores \in Nat /\ untrimmed \in SUBSET Requests
  /\ watch \in [Workers -> {"sleep", "check", "send", "cool"}]
  /\ timer \in [Workers -> 0 .. INTERVAL] /\ low \in [Workers -> BOOLEAN]
  /\ cooldown \in 0 .. INTERVAL
  /\ sinceAlert \in [Workers -> 0 .. INTERVAL] /\ uncooled \in BOOLEAN

Init ==
  /\ wiring \in Wirings /\ up = TRUE
  /\ stage = [r \in Requests |-> "new"]
  /\ sampled = [r \in Requests |-> FALSE]
  /\ searched = [r \in Requests |-> 0]
  /\ retrieved = [r \in Requests |-> 0]
  /\ answer = [r \in Requests |-> "none"]
  /\ relevance = <<>> /\ faithfulness = <<>>
  /\ scores = 0 /\ untrimmed = {}
  /\ watch = [w \in Workers |-> "sleep"]
  /\ timer = [w \in Workers |-> INTERVAL]
  /\ low = [w \in Workers |-> FALSE]
  /\ cooldown = 0
  /\ sinceAlert = [w \in Workers |-> INTERVAL] /\ uncooled = FALSE

-----------------------------------------------------------------------------
(* Requests.                                                               *)
Trimmed(list, max) == SubSeq(list, 1, IF Len(list) < max THEN Len(list) ELSE max)

(* Slip: the sampling decision left out.                                   *)
RecordsUnsampled(r) == wiring = "intended"

(* rag_eval records a score: its context is the request's, and sampled.    *)
Records(r) == wiring = "intended" /\ sampled[r]

(* run_ragas_relevance: an evaluation that fails gives 0, like a bad       *)
(* score, or NaN.                                                          *)
Given == Scores \cup {0, NaN}

(* dispatch of LoggingMiddleware: one decision per request.                *)
Enter(r) ==
  /\ stage[r] = "new"
  /\ \E s \in BOOLEAN : sampled' = [sampled EXCEPT ![r] = s]
  /\ stage' = [stage EXCEPT ![r] = "agent"]
  /\ UNCHANGED <<wiring, up, searched, retrieved, answer, lists, watchdogVars>>

(* crag_retrieve records a relevance whether it found chunks or, after     *)
(* breaking the question up, none; record_relevance pushes with one        *)
(* transaction, and its failures are swallowed.                            *)
RecordRelevance(r) ==
  /\ stage[r] = "agent" /\ searched[r] < MaxRetrievals
  /\ searched' = [searched EXCEPT ![r] = @ + 1]
  /\ \E found \in {0, 1} : retrieved' = [retrieved EXCEPT ![r] = @ + found]
  /\ IF Records(r) /\ up
     THEN \E s \in Given :
            relevance' = Trimmed(<<[of |-> r, score |-> s]>> \o relevance, QUEUE_SIZE)
     ELSE relevance' = relevance
  /\ UNCHANGED <<wiring, up, stage, sampled, answer, faithfulness, scores, untrimmed, watchdogVars>>

(* log_rag_evaluation reads the chunks as dictionaries; they are not, and  *)
(* the agent swallows the error.  Whether RAGAS computes the scores or     *)
(* CRAG's stand in for them, there are some to push, sampled or not.       *)
Evaluated == IF wiring = "intended" THEN "push" ELSE "faith"

AnswerFound(r) ==
  /\ stage[r] = "agent"
  /\ \E a \in {"empty", "text"} :
       /\ answer' = [answer EXCEPT ![r] = a]
       /\ stage' = [stage EXCEPT ![r] = IF a = "text" /\ retrieved[r] > 0 THEN Evaluated ELSE "done"]
  /\ UNCHANGED <<wiring, up, sampled, searched, retrieved, lists, watchdogVars>>

(* _push_scores_to_redis: two commands, each awaited.  The first may be    *)
(* executed although its reply is lost; then the second is not sent.       *)
PushScores(r) ==
  /\ stage[r] = "push"
  /\ \/ /\ up
        /\ scores' = scores + 1
        /\ \/ stage' = [stage EXCEPT ![r] = "trim"] /\ UNCHANGED untrimmed
           \/ /\ stage' = [stage EXCEPT ![r] = "faith"]
              /\ untrimmed' = untrimmed \cup {r}
     \/ /\ stage' = [stage EXCEPT ![r] = "faith"]
        /\ UNCHANGED <<scores, untrimmed>>
  /\ UNCHANGED <<wiring, up, sampled, searched, retrieved, answer, relevance, faithfulness, watchdogVars>>

Trims(r, max) ==
  /\ stage[r] = "trim"
  /\ \/ /\ up
        /\ scores' = IF scores > max THEN max ELSE scores
        /\ untrimmed' = {}
     \/ /\ scores' = scores
        /\ untrimmed' = untrimmed \cup {r}
  /\ stage' = [stage EXCEPT ![r] = "faith"]
  /\ UNCHANGED <<wiring, up, sampled, searched, retrieved, answer, relevance, faithfulness, watchdogVars>>

(* Slip: LTRIM's last index taken for a length.                            *)
TrimOneTooFew(r) == Trims(r, SCORES_MAX + 1)
TrimScores(r)    == Trims(r, SCORES_MAX)

RecordFaithfulness(r) ==
  /\ stage[r] = "faith"
  /\ faithfulness' = IF Records(r) /\ up THEN Trimmed(<<r>> \o faithfulness, QUEUE_SIZE)
                     ELSE faithfulness
  /\ stage' = [stage EXCEPT ![r] = "done"]
  /\ UNCHANGED <<wiring, up, sampled, searched, retrieved, answer, relevance, scores, untrimmed, watchdogVars>>

(* The request is cancelled at one of these awaits, its command executed   *)
(* or not.                                                                 *)
Cancelled(r) ==
  /\ \/ stage[r] = "push" /\ UNCHANGED <<scores, untrimmed>>
     \/ /\ stage[r] = "push" /\ up
        /\ scores' = scores + 1
        /\ untrimmed' = untrimmed \cup {r}
     \/ /\ stage[r] = "trim"
        /\ scores' = scores
        /\ untrimmed' = untrimmed \cup {r}
  /\ stage' = [stage EXCEPT ![r] = "done"]
  /\ UNCHANGED <<wiring, up, sampled, searched, retrieved, answer, relevance, faithfulness, watchdogVars>>

RequestStep(r) == \/ Enter(r) \/ RecordRelevance(r) \/ AnswerFound(r)
                  \/ PushScores(r) \/ TrimScores(r) \/ RecordFaithfulness(r) \/ Cancelled(r)

-----------------------------------------------------------------------------
(* _watchdog_loop.                                                         *)
Sum(list) == FoldLeft(LAMBDA sum, e : sum + e.score, 0, list)

(* get_rolling_averages: the average, rounded to four places, which is 0   *)
(* of 0 samples when Redis does not answer; nothing is less than NaN, nor  *)
(* is NaN less than anything.                                              *)
Window == IF up THEN relevance ELSE <<>>
Low    == IF Window = <<>> THEN THRESHOLD > 0
          ELSE /\ \A i \in DOMAIN Window : Window[i].score # NaN
               /\ 200 * Sum(Window) + Len(Window) < 200 * THRESHOLD * Len(Window)
Enough == Len(Window) >= MIN_SAMPLES

Sleep(w) ==
  /\ watch' = [watch EXCEPT ![w] = "sleep"]
  /\ timer' = [timer EXCEPT ![w] = INTERVAL]
  /\ low' = [low EXCEPT ![w] = FALSE]

(* Slips: the cooldown not looked up; an error that ends the loop.         *)
CheckNothing(w) ==
  /\ watch[w] = "check"
  /\ IF low[w] THEN watch' = [watch EXCEPT ![w] = "send"] /\ UNCHANGED <<timer, low>>
     ELSE Sleep(w)
  /\ UNCHANGED <<wiring, up, requestVars, lists, cooldown, sinceAlert, uncooled>>

CheckDies(w) ==
  /\ watch[w] = "check"
  /\ IF up /\ cooldown = 0 /\ low[w]
     THEN watch' = [watch EXCEPT ![w] = "send"] /\ UNCHANGED <<timer, low>>
     ELSE IF up THEN Sleep(w)
     ELSE watch' = [watch EXCEPT ![w] = "dead"] /\ UNCHANGED <<timer, low>>
  /\ UNCHANGED <<wiring, up, requestVars, lists, cooldown, sinceAlert, uncooled>>

Poll(w) ==
  /\ watch[w] = "sleep" /\ timer[w] = 0
  /\ IF wiring # "committed" /\ Enough
     THEN /\ watch' = [watch EXCEPT ![w] = "check"]
          /\ low' = [low EXCEPT ![w] = Low]
          /\ timer' = timer
     ELSE Sleep(w)
  /\ UNCHANGED <<wiring, up, requestVars, lists, cooldown, sinceAlert, uncooled>>

(* The cooldown is looked up first; if that raises, the poll is over.      *)
Check(w) ==
  /\ watch[w] = "check"
  /\ IF up /\ cooldown = 0 /\ low[w]
     THEN watch' = [watch EXCEPT ![w] = "send"] /\ UNCHANGED <<timer, low>>
     ELSE Sleep(w)
  /\ UNCHANGED <<wiring, up, requestVars, lists, cooldown, sinceAlert, uncooled>>

(* _send_slack_alert and _write_audit_alert, whose failures are swallowed. *)
Send(w) ==
  /\ watch[w] = "send"
  /\ sinceAlert' = [sinceAlert EXCEPT ![w] = 0]
  /\ watch' = [watch EXCEPT ![w] = "cool"]
  /\ UNCHANGED <<wiring, up, requestVars, lists, timer, low, cooldown, uncooled>>

Cool(w) ==
  /\ watch[w] = "cool"
  /\ cooldown' = IF up THEN INTERVAL ELSE cooldown
  /\ uncooled' = (uncooled \/ ~up)
  /\ Sleep(w)
  /\ UNCHANGED <<wiring, up, requestVars, lists, sinceAlert>>

WatchdogStep(w) == Poll(w) \/ Check(w) \/ Send(w) \/ Cool(w)

(* A process ends, in the middle of anything, and starts again: once.      *)
Restart(w) ==
  /\ ~uncooled /\ uncooled' = TRUE
  /\ Sleep(w)
  /\ UNCHANGED <<wiring, up, requestVars, lists, cooldown, sinceAlert>>

-----------------------------------------------------------------------------
Less(n) == IF n = 0 THEN 0 ELSE n - 1

Tick ==
  /\ timer' = [w \in Workers |-> IF watch[w] = "sleep" THEN Less(timer[w]) ELSE timer[w]]
  /\ cooldown' = Less(cooldown)
  /\ sinceAlert' = [w \in Workers |-> IF sinceAlert[w] < INTERVAL THEN sinceAlert[w] + 1
                                      ELSE INTERVAL]
  /\ UNCHANGED <<wiring, up, requestVars, lists, watch, low, uncooled>>

RedisFails ==
  /\ up' = ~up
  /\ UNCHANGED <<wiring, requestVars, lists, watchdogVars>>

(* Redis starts again without what it held: it keeps it in memory only.    *)
RedisForgets ==
  /\ relevance' = <<>> /\ faithfulness' = <<>>
  /\ scores' = 0 /\ untrimmed' = {}
  /\ cooldown' = 0
  /\ uncooled' = (uncooled \/ cooldown > 0)
  /\ UNCHANGED <<wiring, up, requestVars, watch, timer, low, sinceAlert>>

Next == \/ \E r \in Requests : RequestStep(r)
        \/ \E w \in Workers : WatchdogStep(w) \/ Restart(w)
        \/ Tick \/ RedisFails \/ RedisForgets

Spec == Init /\ [][Next]_vars

(* The event loop runs the watchdog, and time passes.                      *)
FairSpec ==
  Spec /\ WF_watchdogVars(Tick) /\ \A w \in Workers : WF_watchdogVars(WatchdogStep(w))

-----------------------------------------------------------------------------
(* Scores are of sampled requests, one for a retrieval, and faithfulness   *)
(* is of an answer, once (rag_eval.py:4-20).                               *)
Count(list, Test(_)) == Cardinality({i \in DOMAIN list : Test(list[i])})

RecordedHonestly ==
  \A r \in Requests :
    LET relevant == Count(relevance, LAMBDA e : e.of = r)
        faithful == Count(faithfulness, LAMBDA e : e = r)
    IN  /\ relevant <= searched[r] /\ faithful <= 1
        /\ relevant + faithful > 0 => sampled[r]
        /\ faithful = 1 => answer[r] = "text" /\ retrieved[r] > 0

(* rag_eval's lists never outgrow their cap; phoenix_eval's, where the     *)
(* pushes and trims of requests overlap, is longer only by a place for     *)
(* every request between its push and its trim, and for every one that     *)
(* pushed after the last trim and whose own trim was lost.                 *)
ListsCapped ==
  /\ Len(relevance) <= QUEUE_SIZE /\ Len(faithfulness) <= QUEUE_SIZE
  /\ scores <= SCORES_MAX + Cardinality({r \in Requests : stage[r] = "trim"} \cup untrimmed)

(* A process alerts on an average it read below the threshold, at most     *)
(* once in an interval, and another one only if the first had not yet set  *)
(* the cooldown when the other looked it up, or a process was restarted,   *)
(* could not set it or Redis lost it (watchdog.py:18-21).                  *)
AlertsAreFew ==
  [][\A w \in Workers :
       watch[w] = "check" /\ watch'[w] = "send" =>
         /\ low[w] /\ sinceAlert[w] = INTERVAL
         /\ \A v \in Workers \ {w} :
              sinceAlert[v] < INTERVAL => watch[v] = "cool" \/ uncooled]_vars

(* With the modules wired as intended, an average that stays low, and is a *)
(* number, goes on raising alerts once Redis answers.                      *)
LowScoresAlerted ==
  wiring = "intended" /\ <>[](Low /\ Enough /\ up) => []<>(\E w \in Workers : watch[w] = "cool")
===============================================================================
