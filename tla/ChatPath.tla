------------------------------ MODULE ChatPath ------------------------------
(***************************************************************************)
(* One question on its way through the system: the Next.js route           *)
(* (frontend/app/api/chat/route.ts) sends it to the Go gateway, the        *)
(* gateway to the Python API's /internal/query, whose SSE stream the       *)
(* gateway copies line by line (backend-go/sse/main.go).  If the gateway   *)
(* fails, the route asks Python's /api/chat instead, while the first       *)
(* request may still be running (backend-python/api/main.py).              *)
(*                                                                         *)
(* The agent's answer is Words words; the n-th run of the agent answers    *)
(* with the words <<n, 1>>, ..., <<n, Words>>.  Whether the gateway lets a *)
(* request through is the subject of SSEGateway, and either way here.      *)
(***************************************************************************)
EXTENDS Naturals, Sequences, SequencesExt

CONSTANTS
  Words,        (* words of an answer                                      *)
  Troubles      (* what may go wrong: a subset of TroubleKinds             *)

TroubleKinds ==
  { "refused",     (* the gateway answers 429 or 503, or is not there      *)
    "apiDown",     (* no connection to the Python API, or a 5xx answer     *)
    "limited",     (* the API's limit of 10 questions a minute, a 429      *)
    "apiDies",     (* the API process ends while it answers                *)
    "agentFails",  (* run_agent raises an exception                        *)
    "timeout",     (* the gateway's 120 s for a request are over           *)
    "gatewayDies", (* the gateway process ends while it copies             *)
    "pingRace",    (* a keep-alive ping is written together with a line    *)
    "redisDown" }  (* the history entry cannot be pushed                   *)

ASSUME PathAssumption == Words \in Nat \ {0} /\ Troubles \subseteq TroubleKinds

VARIABLES
  token,        (* "valid" or "expired": the api_token cookie              *)
  tooLong,      (* is the done event's line longer than the scanner's 64k? *)
  route,        (* Next route: "go", "fallback" or "done"                  *)
  status, shown,(* its response: HTTP status and the words of the answer   *)
  gw,           (* gateway handler: "admit", "stream", "refused", "ended"  *)
                (* (returned normally) or "broken" (connection lost)       *)
  copied,       (* event lines the gateway has written                     *)
  api,          (* /internal/query: "none", "agent", "emit", "ended" or    *)
                (* "broken"                                                *)
  sent,         (* events it has emitted                                   *)
  body,         (* emitted and not yet copied                              *)
  chat,         (* /api/chat: "none", "agent", "answered" or "failed"      *)
  chatRun,      (* the number of its agent run                             *)
  runs,         (* agent runs started                                      *)
  answers,      (* agent runs that came to an answer                       *)
  entries,      (* history entries pushed                                  *)
  trouble       (* history: what has gone wrong so far                     *)

envVars   == <<token, tooLong>>
routeVars == <<route, status, shown>>
gwVars    == <<gw, copied>>
apiVars   == <<api, sent, body>>
chatVars  == <<chat, chatRun>>
runVars   == <<runs, answers, entries>>
vars == <<envVars, routeVars, gwVars, apiVars, chatVars, runVars, trouble>>

(* Event lines: a word of run n; its done event; anything else ("error",   *)
(* the JSON of a refusal), which the route passes over.                    *)
Word(n, i) == <<n, i>>
DoneOf(n)  == <<n, Words + 1>>
Other      == <<0, 0>>
Answer(n)  == [i \in 1 .. Words |-> Word(n, i)]

TypeOK ==
  /\ token \in {"valid", "expired"} /\ tooLong \in BOOLEAN
  /\ route \in {"go", "fallback", "done"}
  /\ status \in {0, 200, 401, 502}
  /\ shown \in Seq((1 .. 2) \X (1 .. Words))
  /\ gw \in {"admit", "stream", "refused", "ended", "broken"}
  /\ copied \in Seq((0 .. 2) \X (0 .. Words + 1))
  /\ api \in {"none", "agent", "emit", "ended", "broken"}
  /\ sent \in 0 .. Words + 1
  /\ body \in Seq((0 .. 2) \X (0 .. Words + 1))
  /\ chat \in {"none", "agent", "answered", "failed"}
  /\ chatRun \in 0 .. 2
  /\ runs \in 0 .. 2 /\ answers \in 0 .. runs /\ entries \in 0 .. answers
  /\ trouble \subseteq Troubles

Init ==
  /\ token \in {"valid", "expired"} /\ tooLong \in BOOLEAN
  /\ route = "go" /\ status = 0 /\ shown = <<>>
  /\ gw = "admit" /\ copied = <<>>
  /\ api = "none" /\ sent = 0 /\ body = <<>>
  /\ chat = "none" /\ chatRun = 0
  /\ runs = 0 /\ answers = 0 /\ entries = 0
  /\ trouble = {}

Happens(kind) == kind \in Troubles /\ trouble' = trouble \cup {kind}
AllWell       == UNCHANGED trouble

-----------------------------------------------------------------------------
(***************************************************************************)
(* The gateway.  Headers go out with the first flush, so a request that it *)
(* turns away has a status of its own; everything later happens under 200. *)
(***************************************************************************)
GwRefuses ==
  /\ gw = "admit"
  /\ Happens("refused")
  /\ gw' = "refused"
  /\ UNCHANGED <<envVars, routeVars, copied, apiVars, chatVars, runVars>>

(* client.Do failed or the status is 500 and more: writeSSEError.          *)
GwReportsError ==
  /\ gw = "admit"
  /\ Happens("apiDown")
  /\ copied' = Append(copied, Other)
  /\ gw' = "ended"
  /\ UNCHANGED <<envVars, routeVars, apiVars, chatVars, runVars>>

(* Python takes the request and answers 200, or turns it away with a 401   *)
(* or 429, which are below 500: their JSON is copied like any stream.      *)
GwForwards ==
  /\ gw = "admit" /\ token = "valid"
  /\ gw' = "stream"
  /\ api' = "agent" /\ runs' = runs + 1
  /\ AllWell
  /\ UNCHANGED <<envVars, routeVars, copied, sent, body, chatVars, answers, entries>>

ApiTurnsAway ==
  /\ gw = "admit"
  /\ (token = "expired" /\ AllWell) \/ (token = "valid" /\ Happens("limited"))
  /\ gw' = "stream"
  /\ api' = "ended" /\ body' = Append(body, Other)
  /\ UNCHANGED <<envVars, routeVars, copied, sent, chatVars, runVars>>

Copyable == body # <<>> /\ ~(tooLong /\ Head(body)[2] = Words + 1)

GwCopies ==
  /\ gw = "stream"
  /\ Copyable
  /\ body' = Tail(body)
  /\ copied' = Append(copied, Head(body))
  /\ AllWell
  /\ UNCHANGED <<envVars, routeVars, gw, api, sent, chatVars, runVars>>

(* The ping goroutine writes to the same ResponseWriter without a lock:    *)
(* bytes of the line may be lost, or the chunked encoding broken.          *)
PingRaces ==
  /\ gw = "stream"
  /\ Copyable
  /\ Happens("pingRace")
  /\ body' = Tail(body)
  /\ gw' \in {"stream", "broken"}
  /\ UNCHANGED <<envVars, routeVars, copied, api, sent, chatVars, runVars>>

(* Slips: the gateway waits for a body that ends well.                     *)
GwAwaitsEnd ==
  /\ gw = "stream"
  /\ body = <<>> /\ api = "ended"
  /\ gw' = "ended"
  /\ AllWell
  /\ UNCHANGED <<envVars, routeVars, copied, apiVars, chatVars, runVars>>

(* The scan loop ends, at the end of the body, at an error of the          *)
(* connection or at a line that is too long; all look alike downstream.    *)
GwFinishes ==
  /\ gw = "stream"
  /\ \/ body = <<>> /\ api \in {"ended", "broken"}
     \/ body # <<>> /\ ~Copyable
  /\ gw' = "ended"
  /\ AllWell
  /\ UNCHANGED <<envVars, routeVars, copied, apiVars, chatVars, runVars>>

GwTimesOut ==
  /\ gw = "stream"
  /\ Happens("timeout")
  /\ gw' = "ended"
  /\ UNCHANGED <<envVars, routeVars, copied, apiVars, chatVars, runVars>>

GwDies ==
  /\ gw \in {"admit", "stream"}
  /\ Happens("gatewayDies")
  /\ gw' = "broken"
  /\ UNCHANGED <<envVars, routeVars, copied, apiVars, chatVars, runVars>>

-----------------------------------------------------------------------------
(***************************************************************************)
(* The Python API.  run_agent blocks the generator, so that it runs to its *)
(* end, and pushes its history entry, whether or not the gateway is still  *)
(* there to read.                                                          *)
(***************************************************************************)
Pushes ==
  \/ entries' = entries + 1 /\ AllWell
  \/ entries' = entries /\ Happens("redisDown")

AgentAnswers ==
  /\ api = "agent"
  /\ api' = "emit"
  /\ answers' = answers + 1
  /\ Pushes
  /\ UNCHANGED <<envVars, routeVars, gwVars, sent, body, chatVars, runs>>

AgentFails ==
  /\ api = "agent"
  /\ Happens("agentFails")
  /\ api' = "ended"
  /\ body' = Append(body, Other)
  /\ UNCHANGED <<envVars, routeVars, gwVars, sent, chatVars, runVars>>

(* The words one by one, then the done event with the whole answer.        *)
Emits ==
  /\ api = "emit"
  /\ sent' = sent + 1
  /\ body' = IF gw = "stream" THEN Append(body, Word(1, sent + 1)) ELSE body
  /\ api' = IF sent = Words THEN "ended" ELSE "emit"
  /\ AllWell
  /\ UNCHANGED <<envVars, routeVars, gwVars, chatVars, runVars>>

ApiDies ==
  /\ api \in {"agent", "emit"}
  /\ Happens("apiDies")
  /\ api' = "broken"
  /\ \E n \in 0 .. Len(body) : body' = SubSeq(body, 1, n)
  /\ UNCHANGED <<envVars, routeVars, gwVars, sent, chatVars, runVars>>

-----------------------------------------------------------------------------
(***************************************************************************)
(* The route.  callViaGo reads the whole reply, then takes the words of    *)
(* the done event if it is there and of the word events if not.            *)
(***************************************************************************)
IsWord(e) == e[1] > 0 /\ e[2] <= Words

WordsOf(lines) ==                 (* answer, after the first i lines       *)
  LET answer[i \in 0 .. Len(lines)] ==
        IF i = 0 THEN <<>>
        ELSE IF IsWord(lines[i]) THEN Append(answer[i - 1], lines[i]) ELSE answer[i - 1]
  IN  answer[Len(lines)]

ParsedOnlyDone(lines) ==          (* a slip: the word events passed over   *)
  IF \E i \in 1 .. Len(lines) : lines[i] = DoneOf(1) THEN Answer(1) ELSE <<>>

ParsedTwice(lines) ==             (* a slip: the done event's words added  *)
  WordsOf(lines) \o
    (IF \E i \in 1 .. Len(lines) : lines[i] = DoneOf(1) THEN Answer(1) ELSE <<>>)

Parsed(lines) ==
  IF \E i \in 1 .. Len(lines) : lines[i] = DoneOf(1) THEN Answer(1) ELSE WordsOf(lines)

Responds(code, words) == route' = "done" /\ status' = code /\ shown' = words

GoAnswers ==
  /\ route = "go"
  /\ gw = "ended"
  /\ Responds(200, Parsed(copied))
  /\ AllWell
  /\ UNCHANGED <<envVars, gwVars, apiVars, chatVars, runVars>>

(* Slips: an empty answer is taken for a failure; the gateway tried again. *)
FallsBackOnEmpty ==
  /\ route = "go"
  /\ gw \in {"refused", "broken"} \/ (gw = "ended" /\ Parsed(copied) = <<>>)
  /\ route' = "fallback"
  /\ AllWell
  /\ UNCHANGED <<envVars, status, shown, gwVars, apiVars, chatVars, runVars>>

TriesGoAgain ==
  /\ route = "go"
  /\ gw \in {"refused", "broken"}
  /\ gw' = "admit" /\ copied' = <<>>
  /\ AllWell
  /\ UNCHANGED <<envVars, routeVars, apiVars, chatVars, runVars>>

(* fetch or text() threw, or the status is not 2xx.                        *)
FallsBack ==
  /\ route = "go"
  /\ gw \in {"refused", "broken"}
  /\ route' = "fallback"
  /\ AllWell
  /\ UNCHANGED <<envVars, status, shown, gwVars, apiVars, chatVars, runVars>>

(* callViaPython's request reaches /api/chat, or does not.                 *)
ChatAccepts ==
  /\ route = "fallback" /\ chat = "none"
  /\ token = "valid"
  /\ chat' = "agent"
  /\ runs' = runs + 1 /\ chatRun' = runs + 1
  /\ AllWell
  /\ UNCHANGED <<envVars, routeVars, gwVars, apiVars, answers, entries>>

ChatUnauthorized ==
  /\ route = "fallback" /\ chat = "none"
  /\ token = "expired"
  /\ Responds(401, <<>>)
  /\ AllWell
  /\ UNCHANGED <<envVars, gwVars, apiVars, chatVars, runVars>>

ChatTurnsAway ==
  /\ route = "fallback" /\ chat = "none"
  /\ Happens("apiDown") \/ (token = "valid" /\ Happens("limited"))
  /\ Responds(502, <<>>)
  /\ UNCHANGED <<envVars, gwVars, apiVars, chatVars, runVars>>

ChatAgentAnswers ==
  /\ chat = "agent"
  /\ chat' = "answered"
  /\ answers' = answers + 1
  /\ Pushes
  /\ UNCHANGED <<envVars, routeVars, gwVars, apiVars, chatRun, runs>>

ChatFails ==
  /\ chat = "agent"
  /\ Happens("agentFails") \/ Happens("apiDies")
  /\ chat' = "failed"
  /\ UNCHANGED <<envVars, routeVars, gwVars, apiVars, chatRun, runVars>>

PythonAnswers ==
  /\ route = "fallback"
  /\ \/ chat = "answered" /\ Responds(200, Answer(chatRun))
     \/ chat = "failed" /\ Responds(502, <<>>)
  /\ AllWell
  /\ UNCHANGED <<envVars, gwVars, apiVars, chatVars, runVars>>

-----------------------------------------------------------------------------
Gateway == GwForwards \/ ApiTurnsAway \/ GwCopies \/ GwFinishes
Api     == AgentAnswers \/ Emits
Chat    == ChatAgentAnswers
Route   == GoAnswers \/ FallsBack \/ ChatAccepts \/ ChatUnauthorized \/ PythonAnswers
Failure == \/ GwRefuses \/ GwReportsError \/ PingRaces \/ GwTimesOut \/ GwDies
           \/ AgentFails \/ ApiDies \/ ChatTurnsAway \/ ChatFails

Next == Gateway \/ Api \/ Chat \/ Route \/ Failure

Spec == Init /\ [][Next]_vars

(* Goroutines and event loops are scheduled and LLM calls return; nothing  *)
(* has to go wrong.                                                        *)
FairSpec ==
  /\ Spec
  /\ WF_vars(Gateway) /\ WF_vars(Api) /\ WF_vars(Chat) /\ WF_vars(Route)

-----------------------------------------------------------------------------
(***************************************************************************)
(* What the browser shows was answered by one run of the agent: its words, *)
(* in order and none twice, never a mixture of the first run and the run   *)
(* of the fallback; and all of them if the fallback answered.              *)
(***************************************************************************)
OneRunsWords ==
  shown # <<>> =>
    \E n \in 1 .. runs :
      /\ \A i \in 1 .. Len(shown) : shown[i][1] = n
      /\ \A i, j \in 1 .. Len(shown) : i < j => shown[i][2] < shown[j][2]
      /\ chatRun = n => shown = Answer(n)

(***************************************************************************)
(* The agent is run a second time for one question only when the gateway's *)
(* connection broke after Python had taken the request, and never a third. *)
(***************************************************************************)
SecondRunIsAfterABreak == runs = 2 => gw = "broken" /\ chat # "none"

(***************************************************************************)
(* If nothing goes wrong on the way, the browser shows the whole answer of *)
(* one run, which is in the history, even if the done event's line is too  *)
(* long for the gateway to copy.                                           *)
(***************************************************************************)
UndisturbedAnswerShown ==
  (route = "done" /\ trouble = {} /\ token = "valid") =>
    status = 200 /\ shown = Answer(1) /\ runs = 1 /\ entries = 1

(***************************************************************************)
(* The route answers in the end, whatever goes wrong.                      *)
(***************************************************************************)
RouteAnswers == <>(route = "done")
=============================================================================
