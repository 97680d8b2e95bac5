------------------------------ MODULE AgentLoop ------------------------------
(***************************************************************************)
(* One run of the agent: run_agent and _dispatch_tool (agent.py) over the  *)
(* client of a provider (llm_client.py), the text-to-SQL pipeline          *)
(* (TextToSql) and the sandbox (tools/pal_sandbox.py).                     *)
(*                                                                         *)
(* The providers' services are outside src/.  A reply has text or not and  *)
(* asks for calls of tools by name, some of them perhaps unknown; a        *)
(* request may be refused for its rate or fail.  An element of asked is    *)
(* a call with its identifier: the tool and the position, which is what    *)
(* GeminiClient makes identifiers from and AnthropicClient is given.       *)
(***************************************************************************)
EXTENDS TextToSql

CONSTANTS
  Roles,        (* the roles of the users who ask                          *)
  MaxCalls,     (* calls of one reply (bound of the model)                 *)
  MaxRounds,    (* MAX_ROUNDS                                              *)
  Builds        (* which names agent.py and llm_client.py agree on: {} in  *)
                (* the code; the larger sets are the code with one or both *)
                (* of its slips repaired, to check what lies behind them   *)

Tools == {"query_sql", "retrieve_docs", "generate_chart", "compute_metric"}
ToolNames == Tools \cup {"unknown"}
SendTries == 4

(* The two structures that pass between the loop and the client: a call    *)
(* has tool_name, tool_input and tool_id where the loop reads name, input  *)
(* and id; a result has tool_use_id where the client reads id.             *)
Interfaces == {"call", "result"}

ASSUME AgentAssumption ==
  /\ MaxCalls \in Nat \ {0}
  /\ MaxRounds \in Nat \ {0}
  /\ Builds \subseteq SUBSET Interfaces

VARIABLES
  provider, role,       (* LLM_PROVIDER and the role in the user's token   *)
  agree,                (* the interfaces whose names agree                *)
  pc, round,            (* where run_agent stands                          *)
  asked, results,       (* calls of the last reply; results made for them  *)
  pending,      (* whether the client holds something to send              *)
  remembered,   (* GeminiClient._last_tool_calls                           *)
  forced,       (* GeminiClient._forced_first_call: a tool must be called  *)
  sendTries,    (* attempts of GeminiClient.complete                       *)
  given,        (* results put into the conversation since the last reply  *)
  trace, sources,       (* tools in tool_trace; kinds of sources           *)
  replies,      (* replies of the model, each charged by record_token_cost *)
  answer,       (* final_answer: "none", "empty", "text" or "fallback"     *)
  trouble       (* what failed for good: a request to the "provider", the  *)
                (* making of a "response" for it, or "none"                *)

clientVars == <<pending, remembered, forced, sendTries, given>>
resultVars == <<trace, sources>>
replyVars  == <<asked, replies, answer, trouble>>
fixedVars  == <<provider, role, agree>>
vars == <<fixedVars, pc, round, results, clientVars, resultVars, replyVars, sqlVars>>

Calls == [tool : ToolNames, at : 1 .. MaxCalls]

TypeOK ==
  /\ SqlTypeOK
  /\ provider \in {"anthropic", "gemini"} /\ role \in Roles /\ agree \in Builds
  /\ pc \in {"ask", "handle", "run", "last", "returned", "raised"}
  /\ round \in 0 .. MaxRounds
  /\ asked \in Seq(Calls) /\ results \in Seq(Calls) /\ given \in Seq(Calls)
  /\ pending \in BOOLEAN /\ forced \in BOOLEAN
  /\ trouble \in {"none", "provider", "response"}
  /\ remembered \subseteq Calls
  /\ sendTries \in 0 .. SendTries - 1
  /\ trace \subseteq Tools
  /\ sources \subseteq {"sql", "document", "pal"}
  /\ replies \in 0 .. MaxRounds + 1
  /\ answer \in {"none", "empty", "text", "fallback"}

(* run_agent up to its loop, and reset of the client.                      *)
Init ==
  /\ SqlInit
  /\ provider \in {"anthropic", "gemini"} /\ role \in Roles /\ agree \in Builds
  /\ pc = "ask" /\ round = 0
  /\ asked = <<>> /\ results = <<>> /\ given = <<>>
  /\ pending = TRUE /\ remembered = {} /\ forced = TRUE /\ sendTries = 0
  /\ trace = {} /\ sources = {}
  /\ replies = 0 /\ answer = "none" /\ trouble = "none"

-----------------------------------------------------------------------------
(* The call whose turn it is; a tool that has returned or raised: either   *)
(* way the call has a result and the trace an entry.                       *)
Call == asked[Len(results) + 1]
HasCall == pc = "handle" /\ Len(results) < Len(asked)
Running(tool) == pc = "run" /\ Call.tool = tool

Finish(newSources) ==
  /\ results' = Append(results, Call)
  /\ trace' = trace \cup {Call.tool}
  /\ sources' = sources \cup newSources
  /\ pc' = "handle"
  /\ UNCHANGED <<fixedVars, round, clientVars, replyVars>>

(* The results GeminiClient can send are those of calls it remembers.      *)
Known == {i \in DOMAIN results : provider = "gemini" => results[i] \in remembered}

-----------------------------------------------------------------------------
(* Slips: _pending_send cleared before the request instead of after it;    *)
(* one round too many before the last word; an exception of din_sql that   *)
(* leaves the call without its result.                                     *)
ClearedTooEarly ==
  /\ pc \in {"ask", "last"}
  /\ provider = "gemini" /\ pending
  /\ sendTries < SendTries - 1
  /\ sendTries' = sendTries + 1
  /\ pending' = FALSE
  /\ UNCHANGED <<fixedVars, pc, round, results, remembered, forced, given,
                 resultVars, replyVars, sqlVars>>

OneRoundMore ==
  /\ pc = "handle" /\ Len(results) = Len(asked)
  /\ results # <<>> => "result" \in agree
  /\ given' = [i \in Known |-> results[i]]
  /\ pending' = (pending \/ Known # {})
  /\ forced' = FALSE
  /\ pc' = IF round = MaxRounds THEN "last" ELSE "ask"
  /\ round' = round + 1
  /\ UNCHANGED <<fixedVars, results, remembered, sendTries, resultVars, replyVars, sqlVars>>

AsksAgain ==
  /\ Running("query_sql")
  /\ \/ SqlStep /\ UNCHANGED <<fixedVars, pc, round, results, clientVars, resultVars, replyVars>>
     \/ /\ stage = "raised"
        /\ pc' = "handle" /\ stage' = "idle" /\ sql' = NoSql
        /\ UNCHANGED <<fixedVars, round, results, clientVars, resultVars, replyVars,
                       backend, tries, executed>>
     \/ /\ stage \in {"rows", "sqlError"}
        /\ Finish(IF stage = "rows" THEN {"sql"} ELSE {})
        /\ stage' = "idle" /\ sql' = NoSql
        /\ UNCHANGED <<backend, tries, executed>>

-----------------------------------------------------------------------------
(***************************************************************************)
(* complete() of the two clients, normalised.  AnthropicClient takes every *)
(* stop but end_turn for a call of tools and drops the text beside it,     *)
(* even if no tool is called; GeminiClient looks for calls, and only while *)
(* mode ANY is set must there be one, unless the reply is blocked.         *)
(***************************************************************************)
Numbered(names) == [i \in DOMAIN names |-> [tool |-> names[i], at |-> i]]
NameSeqs == UNION {[1 .. n -> ToolNames] : n \in 0 .. MaxCalls}

AnthropicReplies ==
  [stop : {"end_turn"}, calls : {<<>>}, text : {"text", "empty"}]
    \cup [stop : {"tool_use"}, calls : NameSeqs, text : {"empty"}]

GeminiReplies ==
  [stop : {"end_turn"}, calls : {<<>>},
   text : IF forced THEN {"empty"} ELSE {"text", "empty"}]
    \cup [stop : {"tool_use"}, calls : NameSeqs \ {<<>>}, text : {"empty"}]

Replies == IF provider = "gemini" THEN GeminiReplies ELSE AnthropicReplies

Speak(reply) ==
  /\ pc \in {"ask", "last"}
  /\ provider = "gemini" => pending
  /\ asked' = Numbered(reply.calls)
  /\ replies' = replies + 1
  /\ IF provider = "gemini"
     THEN /\ pending' = FALSE /\ sendTries' = 0
          /\ remembered' = remembered \cup {asked'[i] : i \in DOMAIN asked'}
     ELSE UNCHANGED <<pending, sendTries, remembered>>
  /\ given' = <<>>
  /\ UNCHANGED <<fixedVars, round, forced, resultVars, trouble, sqlVars>>

(* The reply ends the turn: its text is the answer.                        *)
EndTurn ==
  /\ pc = "ask"
  /\ \E reply \in Replies :
       /\ reply.stop = "end_turn"
       /\ Speak(reply)
       /\ answer' = reply.text
  /\ pc' = "returned"
  /\ UNCHANGED results

ToolUse ==
  /\ pc = "ask"
  /\ \E reply \in Replies : reply.stop = "tool_use" /\ Speak(reply)
  /\ results' = <<>>
  /\ pc' = "handle"
  /\ UNCHANGED answer

(* The completion after the last round: whatever comes back, its text is   *)
(* the answer; calls it asks for are never made.                           *)
LastWord ==
  /\ pc = "last"
  /\ \E reply \in Replies :
       /\ Speak(reply)
       /\ answer' = IF reply.text = "text" THEN "text" ELSE "fallback"
  /\ pc' = "returned"
  /\ UNCHANGED results

(* A refused request: Gemini's is sent again, the same message, when the   *)
(* refusal reads like a rate limit.                                        *)
RateLimited ==
  /\ pc \in {"ask", "last"}
  /\ provider = "gemini" /\ pending
  /\ sendTries < SendTries - 1
  /\ sendTries' = sendTries + 1
  /\ UNCHANGED <<fixedVars, pc, round, results, pending, remembered, forced, given,
                 resultVars, replyVars, sqlVars>>

(* The provider's last refusal or its failure goes up; so does             *)
(* GeminiClient.complete's RuntimeError when it holds no message.          *)
CompleteRaises ==
  /\ pc \in {"ask", "last"}
  /\ pc' = "raised"
  /\ trouble' = IF provider = "gemini" => pending THEN "provider" ELSE "none"
  /\ UNCHANGED <<fixedVars, round, results, clientVars, resultVars,
                 asked, replies, answer, sqlVars>>

-----------------------------------------------------------------------------
(***************************************************************************)
(* The calls of a reply, one after the other.                              *)
(***************************************************************************)
RoleTools(r) ==
  IF r \in {"analyst", "executive"} THEN Tools
  ELSE IF r = "viewer" THEN {"retrieve_docs", "generate_chart"}
  ELSE {}

(* Reading a field the client does not build: AttributeError, outside the  *)
(* try of the loop.                                                        *)
UnknownField ==
  /\ HasCall /\ "call" \notin agree
  /\ pc' = "raised"
  /\ UNCHANGED <<fixedVars, round, results, clientVars, resultVars, replyVars, sqlVars>>

Deny ==
  /\ HasCall /\ "call" \in agree
  /\ Call.tool \notin RoleTools(role)
  /\ results' = Append(results, Call)
  /\ UNCHANGED <<fixedVars, pc, round, clientVars, resultVars, replyVars, sqlVars>>

Dispatch ==
  /\ HasCall /\ "call" \in agree
  /\ Call.tool \in RoleTools(role)
  /\ pc' = "run"
  /\ IF Call.tool = "query_sql" THEN StartSql ELSE UNCHANGED sqlVars
  /\ UNCHANGED <<fixedVars, round, results, clientVars, resultVars, replyVars>>

QuerySql ==
  /\ Running("query_sql")
  /\ \/ SqlStep /\ UNCHANGED <<fixedVars, pc, round, results, clientVars, resultVars, replyVars>>
     \/ /\ stage \in {"rows", "sqlError", "raised"}
        /\ Finish(IF stage = "rows" THEN {"sql"} ELSE {})
        /\ stage' = "idle" /\ sql' = NoSql
        /\ UNCHANGED <<backend, tries, executed>>

(* crag_retrieve finds chunks, finds none, or raises.                      *)
RetrieveDocs ==
  /\ Running("retrieve_docs")
  /\ \E found \in BOOLEAN : Finish(IF found THEN {"document"} ELSE {})
  /\ UNCHANGED sqlVars

GenerateChart ==
  /\ Running("generate_chart")
  /\ Finish({})
  /\ UNCHANGED sqlVars

(* exec_pal: code with a banned word is refused before a process is        *)
(* started; the process prints, exits with an error or is killed.          *)
PalEnds == {"printed", "banned", "failed", "timeout"}

ComputeMetric ==
  /\ Running("compute_metric")
  /\ \E end \in PalEnds : Finish(IF end = "printed" THEN {"pal"} ELSE {})
  /\ UNCHANGED sqlVars

(***************************************************************************)
(* add_tool_results: AnthropicClient appends one user message with every   *)
(* result; GeminiClient sends the results of calls it remembers, keeps     *)
(* nothing to send when there are none, and from the first results on      *)
(* leaves the choice of a tool to the model.  Either reads a field of      *)
(* each result that the loop does not build: KeyError, outside the try.    *)
(***************************************************************************)
AllHandled == pc = "handle" /\ Len(results) = Len(asked)

UnknownId ==
  /\ AllHandled
  /\ results # <<>> /\ "result" \notin agree
  /\ pc' = "raised"
  /\ UNCHANGED <<fixedVars, round, results, clientVars, resultVars, replyVars, sqlVars>>

(* What a tool gave does not fit the protobuf of a FunctionResponse.       *)
NoFunctionResponse ==
  /\ AllHandled
  /\ provider = "gemini" /\ "result" \in agree
  /\ \E i \in Known : results[i].tool \in RoleTools(role)
  /\ pc' = "raised" /\ trouble' = "response"
  /\ UNCHANGED <<fixedVars, round, results, clientVars, resultVars, asked, replies, answer, sqlVars>>

Deliver ==
  /\ AllHandled
  /\ results # <<>> => "result" \in agree
  /\ given' = [i \in Known |-> results[i]]
  /\ pending' = (pending \/ Known # {})
  /\ forced' = FALSE
  /\ pc' = IF round = MaxRounds - 1 THEN "last" ELSE "ask"
  /\ round' = round + 1
  /\ UNCHANGED <<fixedVars, results, remembered, sendTries, resultVars, replyVars, sqlVars>>

Handle  == \/ UnknownField \/ Deny \/ Dispatch
           \/ UnknownId \/ NoFunctionResponse \/ Deliver
RunTool == QuerySql \/ RetrieveDocs \/ GenerateChart \/ ComputeMetric
AskModel == EndTurn \/ ToolUse \/ LastWord \/ RateLimited \/ CompleteRaises

Next == AskModel \/ Handle \/ RunTool
Spec == Init /\ [][Next]_vars

(* run_agent is one coroutine that nothing holds back: its requests have   *)
(* timeouts, its tools return or raise.                                    *)
FairSpec == Spec /\ WF_vars(Next)

-----------------------------------------------------------------------------
(* The conversation is a Dialogue: whatever the provider, the roles and    *)
(* the tools do, no call is left without its result or given another's     *)
(* before the model speaks again, and the model speaks at most once more   *)
(* than there are rounds.  The code as it is (agree = {}) keeps to it by   *)
(* raising at the first call, so that only rounds without one go on; in    *)
(* the build with both slips repaired the results do enter it.             *)
ModelTurn == CASE pc \in {"ask", "last"}   -> "model"
               [] pc \in {"handle", "run"} -> "user"
               [] OTHER                    -> "over"

Conversation == INSTANCE Dialogue WITH
  Calls <- Calls, MaxReplies <- MaxRounds + 1,
  turn <- ModelTurn, open <- asked, given <- given, replies <- replies
Implements == Conversation!Spec

(* No tool runs for a role that may not use it, and the database is given  *)
(* nothing but one query over known tables without banned words, asked for *)
(* by a call the trace shows; rows are cited only if the database ran one. *)
Harmless(t) ==
  /\ Len(t.code) = 1 /\ t.comment = {}
  /\ t.code[1].type \in QueryTypes
  /\ t.code[1].tables \subseteq AllowedTables
  /\ t.code[1].words \cap BannedKeywords = {}

OnlyAllowedRuns ==
  /\ trace \subseteq RoleTools(role)
  /\ \A t \in executed : Harmless(t)
  /\ "sql" \in sources => executed # {}
  /\ executed # {} => \/ "query_sql" \in trace
                      \/ Running("query_sql") /\ "query_sql" \in RoleTools(role)

(* A run ends in an exception only for one of three causes: the provider   *)
(* failed it; what a tool gave does not fit the provider's message; or a   *)
(* tool was called and the names of a call or of its result do not agree,  *)
(* as in the code they do not.  Otherwise no reply, tool or refusal brings *)
(* a run down, and GeminiClient always has something to send, also when it *)
(* sends the same message again.                                           *)
RaisesWithCause ==
  pc = "raised" => trouble # "none" \/ (asked # <<>> /\ agree # Interfaces)

(* A run ends in an exception only if the provider failed it: "Dispatch    *)
(* to: query_sql | retrieve_docs | generate_chart | compute_metric"        *)
(* (agent.py:9), and "each of the 6 core questions returns a non-empty     *)
(* answer with tool_trace" (tests/test_integration.py:91).                 *)
RaisesOnlyInTrouble == pc = "raised" => trouble # "none"

(* Every run ends, whatever the model asks for.                            *)
Ends == <>(pc \in {"returned", "raised"})
=============================================================================
