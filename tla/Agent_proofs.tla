---------------------------- MODULE Agent_proofs -----------------------------
(***************************************************************************)
(* Proofs about the agent and what it searches: a run of its loop, for     *)
(* every set of SQL texts, every number of rounds and of calls in a reply, *)
(* every role, both providers and both databases; and uploads and          *)
(* retrieval, for any number of uploads, any files, window sizes, scores   *)
(* and sub-questions, whatever fails and whatever is tampered with.        *)
(***************************************************************************)
EXTENDS AgentLoop, Documents, FiniteSetTheorems, SequenceTheorems, WellFoundedInduction, TLAPS

(***************************************************************************)
(* The inductive invariant.  While the calls of a reply are handled, the   *)
(* results made so far are those of its first calls ...                    *)
(***************************************************************************)
HandledInOrder ==
  pc \in {"handle", "run"} =>
    /\ Len(results) <= Len(asked)
    /\ \A i \in 1 .. Len(results) : results[i] = asked[i]
    /\ pc = "run" => Len(results) < Len(asked) /\ Call.tool \in RoleTools(role)

(* ... a Gemini client remembers them, and has a message when it is asked  *)
(* for the next reply ...                                                  *)
GeminiReady ==
  provider = "gemini" =>
    /\ pc \in {"handle", "run"} => asked # <<>> /\ \A i \in 1 .. Len(asked) : asked[i] \in remembered
    /\ pc \in {"ask", "last"} => pending

(* ... there is one reply a round, and one after the last ...              *)
Counted ==
  /\ pc = "ask" => replies = round /\ round < MaxRounds
  /\ pc \in {"handle", "run"} => replies = round + 1 /\ round < MaxRounds
  /\ pc = "last" => replies = round /\ round = MaxRounds

(* ... and what is about to be executed has passed the guard.              *)
Guarded ==
  /\ stage = "execute" => SqlGuard(sql)
  /\ stage = "rows" => executed # {}

IInv == /\ TypeOK /\ HandledInOrder /\ GeminiReady /\ Counted /\ Guarded
        /\ OnlyAllowedRuns /\ RaisesWithCause

-----------------------------------------------------------------------------
(* Appending a result.                                                     *)
LEMMA Appended ==
  ASSUME NEW S, NEW q \in Seq(S), NEW e \in S
  PROVE  /\ Append(q, e) \in Seq(S)
         /\ Len(q) \in Nat
         /\ Len(Append(q, e)) = Len(q) + 1
         /\ \A i \in 1 .. Len(q) : Append(q, e)[i] = q[i]
         /\ Append(q, e)[Len(q) + 1] = e
  OBVIOUS

(* A reply's calls, numbered, are a sequence of calls.                     *)
LEMMA NumberedCalls ==
  ASSUME NEW names \in NameSeqs
  PROVE  /\ Numbered(names) \in Seq(Calls)
         /\ DOMAIN Numbered(names) = 1 .. Len(Numbered(names))
         /\ names # <<>> => Numbered(names) # <<>>
<1>1. PICK n \in 0 .. MaxCalls : names \in [1 .. n -> ToolNames]
  BY DEF NameSeqs
<1>2. n \in Nat /\ DOMAIN names = 1 .. n /\ 1 .. n \subseteq 1 .. MaxCalls
  BY <1>1, AgentAssumption DEF AgentAssumption
<1>3. Numbered(names) \in [1 .. n -> Calls]
  BY <1>1, <1>2 DEF Numbered, Calls
<1>4. Numbered(names) \in Seq(Calls) /\ Len(Numbered(names)) = n
  BY <1>2, <1>3
<1>5. names # <<>> => n # 0
  BY <1>1, <1>2
<1>6. Numbered(names) = <<>> => Len(Numbered(names)) = 0
  OBVIOUS
<1> QED BY <1>2, <1>3, <1>4, <1>5, <1>6

(* What every reply is.                                                    *)
LEMMA ReplyShape ==
  ASSUME NEW reply \in Replies
  PROVE  /\ reply.calls \in NameSeqs
         /\ reply.stop \in {"end_turn", "tool_use"}
         /\ reply.text \in {"text", "empty"}
         /\ provider = "gemini" /\ reply.stop = "tool_use" => reply.calls # <<>>
<1>1. <<>> \in NameSeqs
  <2>1. <<>> \in [1 .. 0 -> ToolNames]  OBVIOUS
  <2> QED BY <2>1, AgentAssumption DEF NameSeqs, AgentAssumption
<1> QED BY <1>1 DEF Replies, AnthropicReplies, GeminiReplies

(* What passes the guard is harmless once its comments are stripped.       *)
LEMMA GuardIsSafe ==
  ASSUME NEW t \in SqlTexts, SqlGuard(t)
  PROVE  Harmless(StripComments(t))
<1> DEFINE u == StripComments(t)
<1>1. t \in [code : Seq([type : STRING, tables : SUBSET STRING, words : SUBSET STRING]),
             comment : SUBSET STRING]
  BY SqlAssumption DEF SqlAssumption
<1>2. u.comment = {} /\ u.code = t.code
  BY <1>1 DEF StripComments
<1>3. Len(u.code) = 1 /\ u.code[1].type \in QueryTypes /\ u.code[1].tables \subseteq AllowedTables
  BY DEF SqlGuard
<1>4. 1 \in DOMAIN u.code
  BY <1>1, <1>2, <1>3
<1>5. u.code[1].words \subseteq Words(u)
  BY <1>4 DEF Words
<1>6. Words(u) \cap BannedKeywords = {}
  BY DEF SqlGuard
<1> QED BY <1>2, <1>3, <1>5, <1>6 DEF Harmless

-----------------------------------------------------------------------------
(* A run begins in the invariant.                                          *)
LEMMA InitHolds == Init => IInv
<1> SUFFICES ASSUME Init PROVE IInv  OBVIOUS
<1> USE AgentAssumption DEF AgentAssumption, Init, SqlInit
<1>1. SqlTypeOK
  BY DEF SqlTypeOK, SqlStages, LlmStages, LlmTries
<1>2. pending \in BOOLEAN /\ forced \in BOOLEAN
  OBVIOUS
<1>3. TypeOK
  BY <1>1, <1>2 DEF TypeOK, SendTries
<1> QED BY <1>3 DEF IInv, HandledInOrder, GeminiReady, Counted, Guarded, OnlyAllowedRuns,
                    RaisesWithCause

-----------------------------------------------------------------------------
(* The pipeline's own steps, under an agent that waits for them.           *)
LEMMA SqlStepSafe ==
  ASSUME IInv, SqlStep, Running("query_sql"),
         UNCHANGED <<fixedVars, pc, round, results, clientVars, resultVars, replyVars>>
  PROVE  IInv'
<1> USE DEF IInv, fixedVars, clientVars, resultVars, replyVars
<1>1. /\ SqlTypeOK'
      /\ Guarded'
      /\ \A t \in executed' : Harmless(t)
      /\ executed \subseteq executed'
  <2> USE DEF TypeOK, SqlTypeOK, Guarded, OnlyAllowedRuns, LlmTries, SqlStages, LlmStages
  <2>1. CASE LlmWrites
    BY <2>1 DEF LlmWrites, NextStages
  <2>2. CASE LlmRateLimited
    BY <2>2 DEF LlmRateLimited
  <2>3. CASE LlmFails
    BY <2>3 DEF LlmFails
  <2>4. CASE Guard
    BY <2>4 DEF Guard
  <2>5. CASE Execute
    <3>1. SqlGuard(sql) /\ sql \in SqlTexts
      <4>1. ~SqlGuard(NoSql)
        BY DEF SqlGuard, Blank, NoSql
      <4> QED BY <2>5, <4>1 DEF Execute
    <3>2. Harmless(StripComments(sql))
      BY <3>1, GuardIsSafe
    <3> QED BY <2>5, <3>1, <3>2 DEF Execute
  <2> QED BY <2>1, <2>2, <2>3, <2>4, <2>5 DEF SqlStep
<1>2. TypeOK'
  BY <1>1 DEF TypeOK
<1>3. HandledInOrder' /\ GeminiReady' /\ Counted' /\ RaisesWithCause'
  BY DEF HandledInOrder, GeminiReady, Counted, RaisesWithCause, Call, TypeOK
<1>4. OnlyAllowedRuns'
  BY <1>1 DEF OnlyAllowedRuns, HandledInOrder, Running, Call
<1> QED BY <1>1, <1>2, <1>3, <1>4

(* A tool ends: its call has a result, the trace an entry.                 *)
LEMMA FinishSafe ==
  ASSUME IInv, NEW S \in SUBSET {"sql", "document", "pal"}, pc = "run", Finish(S),
         SqlTypeOK', Guarded', executed' = executed,
         "sql" \in S => executed # {}
  PROVE  IInv'
<1> USE DEF IInv, Finish, fixedVars, clientVars, replyVars
<1>1. Call \in Calls /\ Call.tool \in RoleTools(role) /\ Call.tool \in Tools
      /\ Call = asked[Len(results) + 1]
      /\ Len(results) < Len(asked)
  <2>1. Len(results) < Len(asked) /\ Call.tool \in RoleTools(role)
    BY DEF HandledInOrder
  <2>2. RoleTools(role) \subseteq Tools
    BY DEF RoleTools, Tools
  <2>3. Call \in Calls
    BY <2>1 DEF TypeOK, Call
  <2> QED BY <2>1, <2>2, <2>3 DEF Call
<1>2. /\ results' \in Seq(Calls) /\ Len(results) \in Nat
      /\ Len(results') = Len(results) + 1
      /\ \A i \in 1 .. Len(results) : results'[i] = results[i]
      /\ results'[Len(results) + 1] = Call
  BY <1>1, Appended DEF TypeOK
<1>3. TypeOK'
  BY <1>1, <1>2 DEF TypeOK
<1>4. HandledInOrder'
  BY <1>1, <1>2 DEF HandledInOrder, TypeOK
<1>5. GeminiReady' /\ Counted' /\ RaisesWithCause'
  BY DEF GeminiReady, Counted, RaisesWithCause, TypeOK
<1>6. OnlyAllowedRuns'
  BY <1>1 DEF OnlyAllowedRuns, Running
<1> QED BY <1>3, <1>4, <1>5, <1>6

-----------------------------------------------------------------------------
(* Every step keeps the invariant.                                         *)
LEMMA SpeakSafe ==
  ASSUME IInv, NEW reply \in Replies, Speak(reply),
         pc' \in {"handle", "returned"},
         answer' \in {"none", "empty", "text", "fallback"},
         pc' = "handle" => pc = "ask" /\ results' = <<>> /\ reply.stop = "tool_use",
         pc' = "returned" => results' = results
  PROVE  IInv'
<1> USE AgentAssumption DEF AgentAssumption, IInv, Speak, fixedVars, resultVars, sqlVars
<1>1. /\ asked' \in Seq(Calls)
      /\ DOMAIN asked' = 1 .. Len(asked')
      /\ provider = "gemini" /\ pc' = "handle" => asked' # <<>>
  BY NumberedCalls, ReplyShape
<1>2. replies \in 0 .. MaxRounds /\ round \in 0 .. MaxRounds /\ replies = round
  BY DEF Counted, TypeOK
<1>3. SqlTypeOK' /\ Guarded'
  BY DEF SqlTypeOK, Guarded, TypeOK
<1>4. /\ remembered' \subseteq Calls
      /\ pending' \in BOOLEAN
      /\ sendTries' \in 0 .. SendTries - 1
  <2>1. pending' \in BOOLEAN
    BY DEF TypeOK
  <2>2. \A i \in DOMAIN asked' : asked'[i] \in Calls
    BY <1>1
  <2>3. remembered' \subseteq Calls
    BY <2>2 DEF TypeOK
  <2>4. sendTries' \in 0 .. SendTries - 1
    BY DEF TypeOK, SendTries
  <2> QED BY <2>1, <2>3, <2>4
<1>5. TypeOK'
  <2>1. results' \in Seq(Calls) /\ given' \in Seq(Calls)
    <3>1. results \in Seq(Calls) /\ <<>> \in Seq(Calls)
      BY DEF TypeOK
    <3>2. results' = <<>> \/ results' = results
      OBVIOUS
    <3> QED BY <3>1, <3>2
  <2>2. replies' \in 0 .. MaxRounds + 1 /\ round' \in 0 .. MaxRounds
    BY <1>2
  <2>3. forced' \in BOOLEAN /\ trouble' = trouble
    BY DEF TypeOK
  <2> QED BY <1>1, <1>3, <1>4, <2>1, <2>2, <2>3 DEF TypeOK
<1>6. HandledInOrder'
  BY <1>1 DEF HandledInOrder
<1>7. GeminiReady'
  BY <1>1 DEF GeminiReady
<1>8. Counted'
  BY <1>2 DEF Counted
<1>9. OnlyAllowedRuns' /\ RaisesWithCause'
  BY DEF OnlyAllowedRuns, RaisesWithCause, Running
<1> QED BY <1>3, <1>5, <1>6, <1>7, <1>8, <1>9

(* Delivering the results keeps the invariant, and all asked were given.   *)
LEMMA DeliverSafe ==
  ASSUME IInv, Deliver
  PROVE  IInv' /\ given' = asked
<1> USE AgentAssumption DEF AgentAssumption, IInv, Deliver, AllHandled, fixedVars, resultVars, replyVars, sqlVars
<1>1. results \in Seq(Calls) /\ asked \in Seq(Calls) /\ Len(results) = Len(asked)
  BY DEF TypeOK
<1>2. \A i \in 1 .. Len(results) : results[i] = asked[i]
  BY DEF HandledInOrder
<1>3. Known = 1 .. Len(results)
  BY <1>1, <1>2 DEF Known, GeminiReady
<1>4. results = asked
  BY <1>1, <1>2
<1>5. given' = asked
  BY <1>1, <1>3, <1>4
<1>6. TypeOK'
  <2>1. SqlTypeOK'  BY DEF SqlTypeOK, TypeOK
  <2>2. round' \in 0 .. MaxRounds  BY DEF TypeOK, Counted
  <2>3. pending' \in BOOLEAN  BY DEF TypeOK
  <2> QED BY <1>1, <1>5, <2>1, <2>2, <2>3 DEF TypeOK
<1>7. HandledInOrder' /\ Guarded' /\ RaisesWithCause'
  BY DEF HandledInOrder, Guarded, RaisesWithCause
<1>8. GeminiReady'
  <2>1. provider = "gemini" => Len(results) # 0
    BY <1>1, <1>4 DEF GeminiReady
  <2>2. provider = "gemini" => Known # {}
    BY <1>1, <1>3, <2>1
  <2> QED BY <2>2 DEF GeminiReady
<1>9. Counted' /\ OnlyAllowedRuns'
  BY DEF Counted, OnlyAllowedRuns, Running, TypeOK
<1> QED BY <1>5, <1>6, <1>7, <1>8, <1>9

(* Every step of a run keeps the invariant.                                *)
LEMMA StepKeeps == IInv /\ [Next]_vars => IInv'
<1> SUFFICES ASSUME IInv, [Next]_vars PROVE IInv'  OBVIOUS
<1> USE AgentAssumption DEF AgentAssumption, fixedVars, clientVars, resultVars, replyVars, sqlVars
<1>1. CASE EndTurn
  BY <1>1, SpeakSafe, ReplyShape DEF EndTurn
<1>2. CASE ToolUse
  BY <1>2, SpeakSafe DEF ToolUse, IInv, TypeOK
<1>3. CASE LastWord
  BY <1>3, SpeakSafe, ReplyShape DEF LastWord
<1>4. CASE RateLimited
  <2> USE DEF RateLimited
  <2>1. SqlTypeOK'  BY <1>4 DEF IInv, SqlTypeOK, TypeOK
  <2>2. trouble' = trouble  BY <1>4
  <2>3. sendTries' \in 0 .. SendTries - 1  BY <1>4 DEF IInv, TypeOK, SendTries
  <2>4. TypeOK'  BY <1>4, <2>1, <2>2, <2>3 DEF IInv, TypeOK
  <2> QED BY <1>4, <2>4 DEF IInv, HandledInOrder, GeminiReady, Counted, Guarded,
             OnlyAllowedRuns, RaisesWithCause, Running
<1>5. CASE CompleteRaises
  <2> USE DEF CompleteRaises
  <2>1. SqlTypeOK'  BY <1>5 DEF IInv, SqlTypeOK, TypeOK
  <2>2. trouble' = "provider"  BY <1>5 DEF IInv, GeminiReady
  <2>3. TypeOK'  BY <1>5, <2>1, <2>2 DEF IInv, TypeOK
  <2> QED BY <1>5, <2>2, <2>3 DEF IInv, HandledInOrder, GeminiReady, Counted, Guarded,
             OnlyAllowedRuns, RaisesWithCause, Running
<1>6. CASE UnknownField \/ UnknownId \/ NoFunctionResponse
  <2> USE <1>6 DEF UnknownField, UnknownId, NoFunctionResponse, HasCall, AllHandled
  <2>1. /\ UNCHANGED <<fixedVars, round, results, clientVars, resultVars, asked, replies,
                       answer, sqlVars>>
        /\ pc' = "raised" /\ trouble' \in {trouble, "response"}
    OBVIOUS
  <2>2. (asked # <<>> /\ agree # Interfaces) \/ trouble' = "response"
    <3>1. Len(results) < Len(asked) => asked # <<>>
      BY DEF IInv, TypeOK
    <3>2. results # <<>> /\ Len(results) = Len(asked) => asked # <<>>
      BY DEF IInv, TypeOK
    <3> QED BY <3>1, <3>2 DEF Interfaces
  <2>3. SqlTypeOK'  BY <2>1 DEF IInv, SqlTypeOK, TypeOK
  <2>4. TypeOK'  BY <2>1, <2>3 DEF IInv, TypeOK
  <2>5. HandledInOrder' /\ GeminiReady' /\ Counted' /\ Guarded'
    BY <2>1 DEF IInv, HandledInOrder, GeminiReady, Counted, Guarded
  <2>6. OnlyAllowedRuns'
    BY <2>1 DEF IInv, OnlyAllowedRuns, Running, TypeOK
  <2>7. RaisesWithCause'
    BY <2>1, <2>2 DEF IInv, RaisesWithCause, TypeOK
  <2> QED BY <2>4, <2>5, <2>6, <2>7 DEF IInv
<1>7. CASE Deny
  <2> USE <1>7 DEF Deny, HasCall
  <2>1. Call \in Calls /\ Call = asked[Len(results) + 1]
    BY DEF IInv, TypeOK, Call
  <2>2. /\ results' \in Seq(Calls) /\ Len(results) \in Nat
        /\ Len(results') = Len(results) + 1
        /\ \A i \in 1 .. Len(results) : results'[i] = results[i]
        /\ results'[Len(results) + 1] = Call
    BY <2>1, Appended DEF IInv, TypeOK
  <2>3. SqlTypeOK'  BY DEF IInv, SqlTypeOK, TypeOK
  <2>4. TypeOK'  BY <2>2, <2>3 DEF IInv, TypeOK
  <2>5. HandledInOrder'
    BY <2>1, <2>2 DEF IInv, HandledInOrder, TypeOK
  <2> QED BY <2>4, <2>5 DEF IInv, GeminiReady, Counted, Guarded, OnlyAllowedRuns,
             RaisesWithCause, Running
<1>8. CASE Dispatch
  <2> USE <1>8 DEF Dispatch, HasCall
  <2>1. SqlTypeOK' /\ Guarded' /\ executed' = executed
    BY DEF IInv, SqlTypeOK, TypeOK, Guarded, StartSql, SqlStages, LlmStages, LlmTries
  <2>2. TypeOK'  BY <2>1 DEF IInv, TypeOK
  <2>3. HandledInOrder'
    BY DEF IInv, HandledInOrder, TypeOK, Call
  <2>4. OnlyAllowedRuns'
    BY <2>1 DEF IInv, OnlyAllowedRuns, Running
  <2> QED BY <2>1, <2>2, <2>3, <2>4 DEF IInv, GeminiReady, Counted, RaisesWithCause
<1>9. CASE Deliver
  BY <1>9, DeliverSafe
<1>10. CASE QuerySql
  <2>1. CASE SqlStep
    <3>1. CASE UNCHANGED <<fixedVars, pc, round, results, clientVars, resultVars, replyVars>>
      BY <1>10, <2>1, <3>1, SqlStepSafe DEF QuerySql
    <3>2. CASE stage \in {"rows", "sqlError", "raised"}
      BY <2>1, <3>2 DEF SqlStep, LlmWrites, LlmRateLimited, LlmFails, Guard, Execute, LlmStages
    <3> QED BY <1>10, <3>1, <3>2 DEF QuerySql
  <2>2. CASE ~SqlStep
    <3>1. PICK S \in SUBSET {"sql", "document", "pal"} :
            Finish(S) /\ ("sql" \in S => stage = "rows")
      BY <1>10, <2>2 DEF QuerySql
    <3>2. /\ pc = "run" /\ stage' = "idle" /\ sql' = NoSql
          /\ UNCHANGED <<backend, tries, executed>>
      BY <1>10, <2>2 DEF QuerySql, Running
    <3>3. SqlTypeOK'
      BY <3>2 DEF IInv, TypeOK, SqlTypeOK, SqlStages
    <3> QED BY <3>1, <3>2, <3>3, FinishSafe DEF IInv, Guarded
  <2> QED BY <2>1, <2>2
<1>11. CASE RetrieveDocs \/ GenerateChart \/ ComputeMetric
  <2>1. PICK S \in SUBSET {"document", "pal"} : Finish(S)
    BY <1>11 DEF RetrieveDocs, GenerateChart, ComputeMetric
  <2>2. UNCHANGED sqlVars /\ pc = "run"
    BY <1>11 DEF RetrieveDocs, GenerateChart, ComputeMetric, Running
  <2>3. SqlTypeOK'
    BY <2>2 DEF IInv, TypeOK, SqlTypeOK
  <2>4. Guarded' /\ executed' = executed
    BY <2>2 DEF IInv, Guarded
  <2> QED BY <2>1, <2>2, <2>3, <2>4, FinishSafe
<1>12. CASE UNCHANGED vars
  <2> USE <1>12 DEF vars
  <2>1. SqlTypeOK'  BY DEF IInv, SqlTypeOK, TypeOK
  <2>2. TypeOK'  BY <2>1 DEF IInv, TypeOK
  <2> QED BY <2>2 DEF IInv, HandledInOrder, GeminiReady, Counted, Guarded,
             OnlyAllowedRuns, RaisesWithCause, Running, Call
<1> QED BY <1>1, <1>2, <1>3, <1>4, <1>5, <1>6, <1>7, <1>8, <1>9, <1>10, <1>11, <1>12
        DEF Next, AskModel, Handle, RunTool

THEOREM Invariance == Spec => []IInv
<1> QED BY InitHolds, StepKeeps, PTL DEF Spec

(* No tool runs for a role that may not use it, and the database is given  *)
(* only guarded SQL, in every run: _ROLE_TOOLS, sql_guard.                 *)
THEOREM OnlyAllowedRunsHolds == Spec => []OnlyAllowedRuns
<1>1. IInv => OnlyAllowedRuns
  BY DEF IInv
<1> QED BY <1>1, Invariance, PTL

(* In the code, with either of its slips repaired and with both: a run     *)
(* that raises was failed by the provider, could not put a tool's result   *)
(* into the provider's message, or called a tool where the names of a call *)
(* or of a result do not agree.  complete() never finds that it has        *)
(* nothing to send, whatever was refused and sent again.                   *)
THEOREM RaisesWithCauseHolds == Spec => []RaisesWithCause
<1>1. IInv => RaisesWithCause
  BY DEF IInv
<1> QED BY <1>1, Invariance, PTL

-----------------------------------------------------------------------------
(* The refinement of Dialogue.                                             *)
LEMMA InitMaps == Init => Conversation!Init
  BY DEF Init, Conversation!Init, ModelTurn

(* Every step of a run is one of the dialogue, or leaves it as it is.      *)
LEMMA StepMaps == IInv /\ [Next]_vars => [Conversation!Next]_(Conversation!vars)
<1> SUFFICES ASSUME IInv, [Next]_vars
             PROVE  [Conversation!Next]_(Conversation!vars)
  OBVIOUS
<1> USE AgentAssumption DEF AgentAssumption, Conversation!Next, Conversation!vars,
        fixedVars, clientVars, resultVars, replyVars, ModelTurn
<1>1. ASSUME NEW reply \in Replies, Speak(reply), pc' \in {"handle", "returned"}
      PROVE  Conversation!Reply
  <2>1. asked' \in Seq(Calls)
    BY <1>1, NumberedCalls, ReplyShape DEF Speak
  <2>2. replies < MaxRounds + 1
    BY <1>1 DEF Speak, IInv, Counted, TypeOK
  <2> QED BY <1>1, <2>1, <2>2 DEF Conversation!Reply, Speak
<1>2. CASE EndTurn \/ ToolUse \/ LastWord
  BY <1>1, <1>2 DEF EndTurn, ToolUse, LastWord
<1>3. CASE RateLimited
  BY <1>3 DEF RateLimited
<1>4. CASE CompleteRaises \/ UnknownField \/ UnknownId \/ NoFunctionResponse
  BY <1>4 DEF CompleteRaises, UnknownField, UnknownId, NoFunctionResponse, Conversation!GiveUp
<1>5. CASE Deny \/ Dispatch
  BY <1>5 DEF Deny, Dispatch, HasCall
<1>6. CASE Deliver
  <2>1. given' = asked
    BY <1>6, DeliverSafe
  <2> QED BY <1>6, <2>1 DEF Deliver, AllHandled, Conversation!Answer
<1>7. CASE RunTool
  <2>1. pc = "run" /\ pc' \in {"run", "handle"} /\ UNCHANGED <<asked, given, replies>>
    BY <1>7 DEF RunTool, QuerySql, RetrieveDocs, GenerateChart, ComputeMetric, Running, Finish
  <2> QED BY <2>1
<1>8. CASE UNCHANGED vars
  BY <1>8 DEF vars
<1> QED BY <1>2, <1>3, <1>4, <1>5, <1>6, <1>7, <1>8 DEF Next, AskModel, Handle

(* Every call of a reply is given its result, once and in order, before    *)
(* the model speaks again, and the loop of MAX_ROUNDS ends the talk: the   *)
(* run of the agent implements a Dialogue.                                 *)
THEOREM ImplementsDialogue == Spec => Implements
<1> QED BY InitMaps, StepMaps, Invariance, PTL DEF Implements, Conversation!Spec, Spec

-----------------------------------------------------------------------------
(***************************************************************************)
(* Uploads and retrieval (Documents).                                      *)
(***************************************************************************)
Genuine(S) == \A h \in S : h.chunk.genuine

(***************************************************************************)
(* The inductive invariant: the scored chunks kept so far are genuine and  *)
(* finitely many, the result is a sequence of genuine ones, behind which   *)
(* the last step may put GraphRAG's text.                                  *)
(***************************************************************************)
KeptGenuine ==
  /\ IsFiniteSet(merged) /\ Genuine(merged)
  /\ \E S : \E q \in Seq(S) :
       /\ Genuine(S)
       /\ \/ result = q
          \/ rpc = "done" /\ UseGraphRag /\ Len(q) < 2 /\ result = Append(q, FromGraphRag)

-----------------------------------------------------------------------------
(* The scored chunks of one call of LightRAG that are kept are finitely    *)
(* many and genuine.                                                       *)
LEMMA KeptOfAnAnswer ==
  ASSUME NEW hits \in Answers, NEW t
  PROVE  IsFiniteSet(Keep(hits, t)) /\ Genuine(Keep(hits, t))
<1>1. IsFiniteSet(hits)
  <2>1. CASE \E s \in Scores : hits = {[chunk |-> Wrapped, score |-> s]}
    BY <2>1, FS_Singleton
  <2>2. CASE \E S \in Lists : \E f \in [S -> Scores] :
               hits = {[chunk |-> c, score |-> f[c]] : c \in S}
    <3>0. PICK S \in Lists : \E f \in [S -> Scores] :
                 hits = {[chunk |-> c, score |-> f[c]] : c \in S}
      BY <2>2
    <3>1. PICK f \in [S -> Scores] : hits = {[chunk |-> c, score |-> f[c]] : c \in S}
      BY <3>0
    <3> DEFINE g == [c \in S |-> [chunk |-> c, score |-> f[c]]]
    <3>2. g \in Surjection(S, hits)
      <4>1. g \in [S -> hits]
        BY <3>1
      <4>2. \A h \in hits : \E c \in S : g[c] = h
        BY <3>1
      <4> QED
        BY <4>1, <4>2 DEF Surjection
    <3>3. IsFiniteSet(S)
      BY DEF Lists
    <3> QED
      BY <3>2, <3>3, FS_Surjection
  <2> QED
    BY <2>1, <2>2 DEF Answers
<1>2. Keep(hits, t) \subseteq hits
  BY DEF Keep
<1> QED
  BY <1>1, <1>2, FS_Subset DEF Keep, Genuine

(* An order of a finite set is a sequence of its members.                  *)
LEMMA OrderIsSequence ==
  ASSUME NEW S, IsFiniteSet(S), NEW q \in Orders(S)
  PROVE  q \in Seq(S)
<1>1. Cardinality(S) \in Nat
  BY FS_CardinalityType
<1>2. q \in [1 .. Cardinality(S) -> S]
  BY DEF Orders, Bijection, Injection
<1> QED
  BY <1>1, <1>2

(* KeptGenuine is inductive.                                               *)
LEMMA KeptGenuineInductive == DocumentsSpec => []KeptGenuine
<1>1. DocumentsInit => KeptGenuine
  <2> SUFFICES ASSUME DocumentsInit PROVE KeptGenuine
    OBVIOUS
  <2>1. merged = {} /\ result = <<>>
    BY DEF DocumentsInit, CragInit
  <2>2. Genuine({}) /\ <<>> \in Seq({})
    BY DEF Genuine
  <2> QED
    BY <2>1, <2>2, FS_EmptySet DEF KeptGenuine
<1>2. KeptGenuine /\ [DocumentsNext]_documentsVars => KeptGenuine'
  <2> SUFFICES ASSUME KeptGenuine, [DocumentsNext]_documentsVars PROVE KeptGenuine'
    OBVIOUS
  <2> USE DEF KeptGenuine
  <2>1. CASE FirstPass
    <3>1. PICK hits \in Answers :
            \/ \E q \in Orders(Keep(hits, RelevanceThreshold)) : result' = q
            \/ result' = result
      BY <2>1 DEF FirstPass
    <3>2. merged' = merged /\ rpc = "first"
      BY <2>1 DEF FirstPass
    <3>3. CASE result' = result
      BY <3>2, <3>3
    <3>4. CASE \E q \in Orders(Keep(hits, RelevanceThreshold)) : result' = q
      BY <3>2, <3>4, KeptOfAnAnswer, OrderIsSequence
    <3> QED
      BY <3>1, <3>3, <3>4
  <2>2. CASE RetrievePart
    <3>1. PICK hits \in Answers :
            merged' = Merged(merged, Keep(hits, FallbackThreshold))
      BY <2>2 DEF RetrievePart
    <3>2. result' = result /\ rpc = "parts"
      BY <2>2 DEF RetrievePart
    <3> DEFINE kept == Keep(hits, FallbackThreshold)
    <3>3. merged' \subseteq merged \cup kept
      BY <3>1 DEF Merged
    <3>4. IsFiniteSet(merged \cup kept) /\ Genuine(merged \cup kept)
      BY KeptOfAnAnswer, FS_Union DEF Genuine
    <3>5. IsFiniteSet(merged')
      BY <3>3, <3>4, FS_Subset
    <3>6. Genuine(merged')
      BY <3>3, <3>4 DEF Genuine
    <3>7. PICK S : Genuine(S) /\ result \in Seq(S)
      BY <3>2
    <3> QED
      BY <3>2, <3>5, <3>6, <3>7
  <2>3. CASE Sort
    <3>1. PICK q \in Orders(merged) : result' = q
      BY <2>3 DEF Sort
    <3>2. q \in Seq(merged)
      BY OrderIsSequence
    <3>3. merged' = merged
      BY <2>3 DEF Sort
    <3> QED
      BY <3>1, <3>2, <3>3 DEF Genuine
  <2>4. CASE Augment
    <3>1. merged' = merged
      BY <2>4 DEF Augment
    <3>2. CASE result' = result
      BY <2>4, <3>1, <3>2 DEF Augment
    <3>3. CASE result' = Append(result, FromGraphRag) /\ Len(result) < 2 /\ UseGraphRag
      <4>1. rpc = "augment" /\ rpc' = "done"
        BY <2>4 DEF Augment
      <4>2. PICK S : Genuine(S) /\ result \in Seq(S)
        BY <4>1
      <4> QED
        BY <3>1, <3>3, <4>1, <4>2
    <3> QED
      BY <2>4, <3>2, <3>3 DEF Augment
  <2>5. CASE UNCHANGED <<merged, result>> /\ (rpc # "done" \/ rpc' = rpc)
    BY <2>5
  <2>6. \/ FirstPass \/ RetrievePart \/ Sort \/ Augment
        \/ UNCHANGED <<merged, result>> /\ (rpc # "done" \/ rpc' = rpc)
    BY DEF DocumentsNext, documentsVars, cragVars, UploadStep, RetrieveStep, Tamper, Retrieve,
           Decompose, RetrievalFails
  <2> QED
    BY <2>1, <2>2, <2>3, <2>4, <2>5, <2>6
<1> QED
  BY <1>1, <1>2, PTL DEF DocumentsSpec

(* What a retrieval returns was genuine when it was read, whatever is      *)
(* stored, altered and answered meanwhile, but for GraphRAG's text behind  *)
(* at most one other chunk: _retrieve_and_score, _maybe_augment_graphrag.  *)
THEOREM UnsignedOnlyFromGraphRagHolds == DocumentsSpec => []UnsignedOnlyFromGraphRag
<1>1. KeptGenuine => UnsignedOnlyFromGraphRag
  <2> SUFFICES ASSUME KeptGenuine, NEW i \in DOMAIN result
               PROVE  \/ result[i].chunk.genuine
                      \/ UseGraphRag /\ result[i] = FromGraphRag /\ i = Len(result) /\ i <= 2
    BY DEF UnsignedOnlyFromGraphRag
  <2>1. PICK S : \E q \in Seq(S) :
          /\ Genuine(S)
          /\ \/ result = q
             \/ rpc = "done" /\ UseGraphRag /\ Len(q) < 2 /\ result = Append(q, FromGraphRag)
    BY DEF KeptGenuine
  <2>2. PICK q \in Seq(S) :
          /\ Genuine(S)
          /\ \/ result = q
             \/ rpc = "done" /\ UseGraphRag /\ Len(q) < 2 /\ result = Append(q, FromGraphRag)
    BY <2>1
  <2>3. CASE result = q
    BY <2>2, <2>3 DEF Genuine
  <2>4. CASE UseGraphRag /\ Len(q) < 2 /\ result = Append(q, FromGraphRag)
    <3> DEFINE g == FromGraphRag
    <3>1. /\ Len(q) \in Nat
          /\ DOMAIN result = 1 .. Len(q) + 1 /\ Len(result) = Len(q) + 1
          /\ \A j \in 1 .. Len(q) : result[j] = q[j] /\ q[j] \in S
          /\ result[Len(q) + 1] = g
      BY <2>2, <2>4
    <3> HIDE DEF g
    <3>2. CASE i \in 1 .. Len(q)
      BY <2>2, <3>1, <3>2 DEF Genuine
    <3>3. CASE i = Len(q) + 1
      BY <2>4, <3>1, <3>3 DEF g
    <3> QED
      BY <3>1, <3>2, <3>3
  <2> QED
    BY <2>2, <2>3, <2>4
<1> QED
  BY <1>1, KeptGenuineInductive, PTL

-----------------------------------------------------------------------------
(***************************************************************************)
(* The windows of a text.                                                  *)
(***************************************************************************)
(* A set of numbers that is not empty has a least element.                 *)
LEMMA Smallest ==
  ASSUME NEW T \in SUBSET Nat, T # {}
  PROVE  \E n \in T : \A m \in T : n <= m
<1> DEFINE R == {p \in Nat \X Nat : p[1] < p[2]}
<1>1. IsWellFoundedOn(R, Nat)
  <2>1. R = OpToRel(<, Nat)
    BY DEF OpToRel
  <2>2. QED
    BY <2>1, NatLessThanWellFounded
<1>2. PICK n \in T : \A m \in T : <<m, n>> \notin R
  <2> HIDE DEF R
  <2>1. QED
    BY <1>1, WFMin
<1>3. ASSUME NEW m \in T PROVE n <= m
  <2>1. m \in Nat /\ n \in Nat
    OBVIOUS
  <2>2. ~(m < n)
    BY <1>2, <2>1
  <2>3. QED
    BY <2>1, <2>2
<1>4. QED
  BY <1>3

(* Products grow by at least one factor from one multiple to the next.     *)
LEMMA Multiples ==
  ASSUME NEW s \in Nat, NEW j \in Nat, NEW k \in Nat, j < k
  PROVE  j * s \in Nat /\ k * s \in Nat /\ j * s + s <= k * s
<1>1. \A a, b \in Nat : a * b \in Nat
  OBVIOUS
<1>2. k - j - 1 \in Nat
  OBVIOUS
<1>3. (k - j - 1) * s \in Nat
  BY <1>1, <1>2
<1>4. k * s = (k - j - 1) * s + (j * s + s)
  OBVIOUS
<1>5. QED
  BY <1>1, <1>3, <1>4

(* A window is a stride and an overlap long, and a stride is not empty.    *)
LEMMA StrideType ==
  /\ ChunkTokens \in Nat /\ OverlapTokens \in Nat /\ Stride \in Nat
  /\ Stride >= 1 /\ Stride + OverlapTokens = ChunkTokens
  BY PdfAssumption DEF Stride

(* The windows of a text of n tokens are numbered; each but the one that   *)
(* ends with the text is ChunkTokens long.                                 *)
LEMMA WindowsNumbered ==
  ASSUME NEW n \in Nat, NEW w \in Windows(n)
  PROVE  /\ w.at \in Nat /\ w.first = w.at * Stride /\ w.first \in Nat
         /\ w.first < n /\ w.first < w.last /\ w.last \in 0 .. n
         /\ w.last = EndOf(w.first, n)
         /\ w = Window(w.at, n)
         /\ \A i \in 0 .. w.at - 1 : EndOf(i * Stride, n) # n
<1>1. PICK k \in 0 .. n : /\ k * Stride < n /\ w = Window(k, n)
                          /\ \A i \in 0 .. k - 1 : Window(i, n).last # n
  BY DEF Windows
<1>2. w.at = k /\ w.first = k * Stride /\ w.last = EndOf(k * Stride, n)
  BY <1>1 DEF Window
<1>3. \A i \in 0 .. k - 1 : EndOf(i * Stride, n) # n
  BY <1>1 DEF Window
<1>4. k * Stride \in Nat
  BY StrideType, k \in Nat
<1> DEFINE x == k * Stride
<1> HIDE DEF x
<1>5. EndOf(x, n) \in 0 .. n /\ x < EndOf(x, n)
  BY <1>1, <1>4, StrideType DEF EndOf, x
<1>6. QED
  BY <1>1, <1>2, <1>3, <1>4, <1>5 DEF x

(* Every token of a text is in one of its windows.                         *)
LEMMA TokensCovered ==
  ASSUME NEW n \in Nat, NEW i \in 0 .. n - 1
  PROVE  \E w \in Windows(n) : w.first <= i /\ i < w.last
<1> USE StrideType
<1> DEFINE T == {k \in Nat : i < EndOf(k * Stride, n)}
<1>1. i \in T
  <2>1. i * Stride \in Nat /\ i <= i * Stride
    <3>1. CASE i = 0
      BY <3>1
    <3>2. CASE i > 0
      <4>1. i * (Stride - 1) \in Nat /\ i * (Stride - 1) = i * Stride - i
        OBVIOUS
      <4>2. QED
        BY <4>1
    <3>3. QED
      BY <3>1, <3>2
  <2>2. QED
    BY <2>1 DEF EndOf
<1>2. PICK k \in T : \A j \in T : k <= j
  <2> HIDE DEF T
  <2>1. T \in SUBSET Nat /\ T # {}
    BY <1>1 DEF T
  <2>2. QED
    BY <2>1, Smallest
<1>3. k \in Nat /\ i < EndOf(k * Stride, n) /\ k <= i
  BY <1>1, <1>2
<1>4. \A j \in 0 .. k - 1 : ~(i < EndOf(j * Stride, n))
  BY <1>2
<1>5. k * Stride \in Nat /\ k * Stride <= i
  <2>1. CASE k = 0
    BY <2>1
  <2>2. CASE k # 0
    <3>1. k - 1 \in Nat /\ ~(i < EndOf((k - 1) * Stride, n))
      BY <1>3, <1>4, <2>2
    <3>2. (k - 1) * Stride \in Nat /\ k * Stride = (k - 1) * Stride + Stride
      BY <1>3, <3>1
    <3>3. (k - 1) * Stride + ChunkTokens <= i
      BY <3>1, <3>2 DEF EndOf
    <3>4. QED
      BY <3>2, <3>3
  <2>3. QED
    BY <2>1, <2>2
<1>6. \A j \in 0 .. k - 1 : Window(j, n).last # n
  BY <1>4 DEF Window
<1>7. Window(k, n) \in Windows(n)
  BY <1>3, <1>5, <1>6 DEF Windows
<1>8. Window(k, n).first <= i /\ i < Window(k, n).last
  BY <1>3, <1>5 DEF Window
<1>9. QED
  BY <1>7, <1>8

(* Neighbouring windows share OverlapTokens tokens.                        *)
LEMMA NeighboursOverlap ==
  ASSUME NEW n \in Nat, NEW c \in Windows(n), NEW d \in Windows(n), d.at = c.at + 1
  PROVE  c.last - d.first = OverlapTokens
<1>1. c.at \in Nat /\ c.first \in Nat /\ c.first = c.at * Stride
      /\ c.last = EndOf(c.first, n) /\ d.first = d.at * Stride
  BY WindowsNumbered
<1>2. d.first = c.first + Stride
  BY <1>1, StrideType
<1>3. EndOf(c.first, n) # n
  <2>1. c.at \in 0 .. d.at - 1
    BY <1>1
  <2>2. QED
    BY <1>1, <2>1, WindowsNumbered
<1>4. QED
  <2> DEFINE x == c.first
  <2>1. x \in Nat /\ c.last = EndOf(x, n) /\ EndOf(x, n) # n /\ d.first = x + Stride
    BY <1>1, <1>2, <1>3
  <2> HIDE DEF x
  <2>2. c.last = x + ChunkTokens
    BY <2>1 DEF EndOf
  <2>3. QED
    BY <2>1, <2>2, StrideType

(* No window lies within another.                                          *)
LEMMA NoneWithin ==
  ASSUME NEW n \in Nat, NEW c \in Windows(n), NEW d \in Windows(n), c # d
  PROVE  ~(c.first <= d.first /\ d.last <= c.last)
<1> USE StrideType
<1>1. /\ c.at \in Nat /\ c.first \in Nat /\ c.first = c.at * Stride
      /\ c.last = EndOf(c.first, n) /\ c = Window(c.at, n) /\ c.last \in 0 .. n
      /\ \A i \in 0 .. c.at - 1 : EndOf(i * Stride, n) # n
  BY WindowsNumbered
<1>2. /\ d.at \in Nat /\ d.first \in Nat /\ d.first = d.at * Stride
      /\ d.last = EndOf(d.first, n) /\ d = Window(d.at, n) /\ d.last \in 0 .. n
      /\ \A i \in 0 .. d.at - 1 : EndOf(i * Stride, n) # n
  BY WindowsNumbered
<1>0. ASSUME NEW j \in Nat, NEW k \in Nat, j < k PROVE j * Stride + Stride <= k * Stride
  BY <1>0, Multiples
<1>3. CASE d.at < c.at
  <2>1. d.first + Stride <= c.first
    <3>1. d.at * Stride + Stride <= c.at * Stride
      BY <1>0, <1>1, <1>2, <1>3
    <3>2. QED
      BY <1>1, <1>2, <3>1
  <2>2. QED
    BY <1>1, <1>2, <2>1
<1>4. CASE c.at < d.at
  <2>1. c.first + Stride <= d.first
    <3>1. c.at * Stride + Stride <= d.at * Stride
      BY <1>0, <1>1, <1>2, <1>4
    <3>2. QED
      BY <1>1, <1>2, <3>1
  <2>2. EndOf(c.first, n) # n
    BY <1>1, <1>2, <1>4
  <2> DEFINE x == c.first
             y == d.first
  <2>3. /\ x \in Nat /\ y \in Nat /\ x + Stride <= y
        /\ c.last = EndOf(x, n) /\ d.last = EndOf(y, n) /\ EndOf(x, n) # n
    BY <1>1, <1>2, <2>1, <2>2
  <2> HIDE DEF x, y
  <2>4. ~(d.last <= c.last)
    BY <2>3 DEF EndOf
  <2>5. QED
    BY <2>4
<1>5. c.at # d.at
  BY <1>1, <1>2
<1>6. QED
  BY <1>1, <1>2, <1>3, <1>4, <1>5

-----------------------------------------------------------------------------
(***************************************************************************)
(* Uploads.  Tampering changes a stored chunk, but not its place.          *)
(***************************************************************************)
Stages   == {"received", "load", "store", "index", "answered", "lost"}
ChunkSet == [source : Uploads, page : Nat, at : Nat, first : Nat, last : Nat,
             genuine : BOOLEAN]
Place(c) == <<c.source, c.page, c.at, c.first, c.last>>

TypesOK ==
  /\ file \in [Uploads -> Files]
  /\ upc \in [Uploads -> Stages]
  /\ status \in [Uploads -> {0, 200, 400, 413, 422, 500}]
  /\ todo \in [Uploads -> SUBSET ChunkSet]
  /\ temp \in SUBSET Uploads /\ table \in SUBSET ChunkSet /\ index \in SUBSET ChunkSet

(* What is indexed is a chunk of a file, at a place of its own, and is no  *)
(* longer to be indexed.                                                   *)
IndexedOnce ==
  /\ \A c \in index : \E o \in Chunks(c.source) : Place(o) = Place(c)
  /\ \A c, d \in index : Place(c) = Place(d) => c = d
  /\ \A u \in Uploads : todo[u] \subseteq Chunks(u)
  /\ \A c \in index : \A o \in todo[c.source] : Place(o) # Place(c)

(* Nothing of a file is stored before its stage, and from then on no chunk *)
(* of it is forgotten; an answer leaves no temporary file.                 *)
Remembered(u) ==
  \A o \in Chunks(u) : o \in todo[u] \/ \E c \in index : Place(c) = Place(o)

StageKnown(u) ==
  /\ upc[u] \in {"received", "load", "store"} => Stored(index, u) = {}
  /\ upc[u] \in {"received", "load"} => todo[u] = {} /\ Stored(table, u) = {}
  /\ upc[u] \in {"received", "load", "store", "index"} => status[u] = 0
  /\ upc[u] \in {"store", "index"} => Remembered(u)
  /\ upc[u] \in {"received", "answered"} => u \notin temp
  /\ status[u] = 200 => Remembered(u) /\ todo[u] = {}
  /\ status[u] \in {400, 413, 422} => Stored(index, u) = {} /\ Stored(table, u) = {}
  /\ status[u] \in {200, 400, 413, 422} => upc[u] = "answered"

UInv == TypesOK /\ IndexedOnce /\ \A u \in Uploads : StageKnown(u)

(* A chunk of a file is a window of one of its pages, and each window of   *)
(* each page is a chunk.                                                   *)
LEMMA ChunksAreWindows ==
  ASSUME TypesOK, NEW u \in Uploads
  PROVE  /\ \A p \in DOMAIN file[u].pages : p \in Nat /\ file[u].pages[p] \in Nat
         /\ \A c \in Chunks(u) :
              /\ c \in ChunkSet /\ c.source = u /\ c.genuine
              /\ c.page \in DOMAIN file[u].pages
              /\ \E w \in Windows(file[u].pages[c.page]) :
                   c.at = w.at /\ c.first = w.first /\ c.last = w.last
         /\ \A p \in DOMAIN file[u].pages : \A w \in Windows(file[u].pages[p]) :
              \E c \in Chunks(u) :
                c.page = p /\ c.at = w.at /\ c.first = w.first /\ c.last = w.last
<1>1. \A p \in DOMAIN file[u].pages : p \in Nat /\ file[u].pages[p] \in Nat
  <2>1. file[u].pages \in Seq(Nat)
    BY PdfAssumption DEF TypesOK
  <2> DEFINE q == file[u].pages
  <2> HIDE DEF q
  <2>2. \A p \in DOMAIN q : p \in Nat /\ q[p] \in Nat
    BY <2>1 DEF q
  <2>3. QED
    BY <2>2 DEF q
<1>2. ASSUME NEW c \in Chunks(u)
      PROVE  /\ c \in ChunkSet /\ c.source = u /\ c.genuine
             /\ c.page \in DOMAIN file[u].pages
             /\ \E w \in Windows(file[u].pages[c.page]) :
                  c.at = w.at /\ c.first = w.first /\ c.last = w.last
  <2>1. PICK p \in DOMAIN file[u].pages : \E w \in Windows(file[u].pages[p]) :
          c = [source |-> u, page |-> p, at |-> w.at, first |-> w.first, last |-> w.last,
               genuine |-> TRUE]
    BY DEF Chunks
  <2>2. PICK w \in Windows(file[u].pages[p]) :
          c = [source |-> u, page |-> p, at |-> w.at, first |-> w.first, last |-> w.last,
               genuine |-> TRUE]
    BY <2>1
  <2>3. w.at \in Nat /\ w.first \in Nat /\ w.last \in Nat
    BY <1>1, WindowsNumbered
  <2>4. QED
    BY <1>1, <2>2, <2>3 DEF ChunkSet
<1>3. ASSUME NEW p \in DOMAIN file[u].pages, NEW w \in Windows(file[u].pages[p])
      PROVE  \E c \in Chunks(u) :
               c.page = p /\ c.at = w.at /\ c.first = w.first /\ c.last = w.last
  <2> DEFINE c == [source |-> u, page |-> p, at |-> w.at, first |-> w.first,
                   last |-> w.last, genuine |-> TRUE]
             ofPage(q) == {[source |-> u, page |-> q, at |-> x.at, first |-> x.first,
                            last |-> x.last, genuine |-> TRUE] :
                             x \in Windows(file[u].pages[q])}
  <2>1. c \in ofPage(p)
    OBVIOUS
  <2>2. Chunks(u) = UNION {ofPage(q) : q \in DOMAIN file[u].pages}
    BY DEF Chunks
  <2> HIDE DEF ofPage
  <2>3. c \in Chunks(u)
    BY <2>1, <2>2
  <2>4. QED
    BY <2>3
<1>4. QED
  BY <1>1, <1>2, <1>3

(* A file's chunks are told apart by their page and number.                *)
LEMMA ChunksDiffer ==
  ASSUME TypesOK, NEW u \in Uploads, NEW c \in Chunks(u), NEW d \in Chunks(u),
         c.page = d.page, c.at = d.at
  PROVE  c = d
<1> DEFINE n == file[u].pages[c.page]
<1>1. n \in Nat
  BY ChunksAreWindows
<1>2. PICK v \in Windows(n) : c.at = v.at /\ c.first = v.first /\ c.last = v.last
  BY ChunksAreWindows
<1>3. PICK w \in Windows(n) : d.at = w.at /\ d.first = w.first /\ d.last = w.last
  BY ChunksAreWindows
<1>4. v = w
  <2>1. v = Window(v.at, n) /\ w = Window(w.at, n)
    BY <1>1, WindowsNumbered
  <2>2. QED
    BY <1>2, <1>3, <2>1
<1>5. /\ c \in ChunkSet /\ d \in ChunkSet /\ c.source = d.source
      /\ c.genuine = TRUE /\ d.genuine = TRUE
  BY ChunksAreWindows DEF ChunkSet
<1>6. QED
  BY <1>2, <1>3, <1>4, <1>5 DEF ChunkSet

(* So are the indexed ones.                                                *)
LEMMA IndexedDiffer ==
  ASSUME UInv, NEW c \in index, NEW d \in index,
         c.source = d.source, c.page = d.page, c.at = d.at
  PROVE  c = d
<1>1. PICK o \in Chunks(c.source) : Place(o) = Place(c)
  BY DEF UInv, IndexedOnce
<1>2. PICK q \in Chunks(d.source) : Place(q) = Place(d)
  BY DEF UInv, IndexedOnce
<1>3. c.source \in Uploads
  BY DEF UInv, TypesOK, ChunkSet
<1>4. o = q
  BY <1>1, <1>2, <1>3, ChunksDiffer DEF UInv, Place
<1>5. QED
  BY <1>1, <1>2, <1>4 DEF UInv, IndexedOnce

(* Nothing is uploaded to begin with.                                      *)
LEMMA InitUInv == DocumentsInit => UInv
<1> SUFFICES ASSUME DocumentsInit PROVE UInv
  OBVIOUS
<1>1. TypesOK
  BY DEF DocumentsInit, PdfInit, TypesOK, Stages
<1>2. IndexedOnce /\ \A u \in Uploads : StageKnown(u)
  BY DEF DocumentsInit, PdfInit, IndexedOnce, StageKnown, Stored
<1>3. QED
  BY <1>1, <1>2 DEF UInv

(* What a step of one upload may do to another one: nothing but add chunks *)
(* of its own file.                                                        *)
LEMMA OthersKeptByUpload ==
  ASSUME UInv, NEW u \in Uploads, NEW v \in Uploads, v # u,
         file' = file,
         upc'[v] = upc[v], status'[v] = status[v], todo'[v] = todo[v],
         v \in temp' <=> v \in temp,
         index \subseteq index', \A c \in index' \ index : c.source = u,
         \A c \in table' \ table : c.source = u
  PROVE  StageKnown(v)'
<1>1. Stored(index, v)' = Stored(index, v) /\ (Stored(table, v) = {} => Stored(table, v)' = {})
  BY DEF Stored
<1>2. Chunks(v)' = Chunks(v)
  BY DEF Chunks
<1>3. Remembered(v) => Remembered(v)'
  BY <1>2 DEF Remembered
<1>4. StageKnown(v)
  BY DEF UInv
<1>5. QED
  BY <1>1, <1>3, <1>4 DEF StageKnown

(* A step of an upload that indexes nothing.                               *)
LEMMA IndexKept ==
  ASSUME UInv, NEW u \in Uploads, file' = file, index' = index,
         \/ todo' = todo
         \/ Stored(index, u) = {} /\ todo' = [todo EXCEPT ![u] = Chunks(u)]
  PROVE  IndexedOnce'
<1>0. TypesOK /\ IndexedOnce
  BY DEF UInv
<1>1. \A v : Chunks(v)' = Chunks(v)
  BY DEF Chunks
<1>2. ASSUME NEW v \in Uploads
      PROVE  todo'[v] = todo[v] \/ (Stored(index, v) = {} /\ todo'[v] = Chunks(v))
  <2>1. CASE todo' = todo
    BY <2>1
  <2>2. CASE todo' # todo
    BY <1>0, <2>2 DEF TypesOK
  <2>3. QED
    BY <2>1, <2>2
<1>3. \A c \in index' : \A o \in todo'[c.source] : Place(o) # Place(c)
  <2> SUFFICES ASSUME NEW c \in index, NEW o \in todo'[c.source] PROVE Place(o) # Place(c)
    OBVIOUS
  <2>1. c.source \in Uploads /\ Stored(index, c.source) # {}
    BY <1>0 DEF TypesOK, ChunkSet, Stored
  <2>2. QED
    BY <1>0, <1>2, <2>1 DEF IndexedOnce
<1>4. \A v \in Uploads : todo'[v] \subseteq Chunks(v)'
  BY <1>0, <1>1, <1>2 DEF IndexedOnce
<1>5. QED
  BY <1>0, <1>1, <1>3, <1>4 DEF IndexedOnce

(* An upload's steps keep what is said of the index and the answers.       *)
LEMMA UploadUInv ==
  ASSUME UInv, NEW u \in Uploads, Upload(u)
  PROVE  UInv'
<1>0. /\ file' = file
      /\ TypesOK /\ IndexedOnce /\ StageKnown(u)
      /\ \A w : Chunks(w)' = Chunks(w)
  BY DEF Upload, Refuse, WriteTemp, WriteFails, LoadFails, NoText, Load, Store, IndexOne,
         IndexFails, UInv, Chunks
<1>1. Chunks(u) \in SUBSET ChunkSet /\ \A c \in Chunks(u) : c.source = u
  BY <1>0, ChunksAreWindows
<1>2. TypesOK'
  <2>1. \A code \in {200, 400, 413, 422, 500} : Answer(u, code) =>
          /\ status' \in [Uploads -> {0, 200, 400, 413, 422, 500}]
          /\ upc' \in [Uploads -> Stages] /\ temp' \in SUBSET Uploads
    BY <1>0 DEF TypesOK, Answer, Stages
  <2>2. CASE Refuse(u) \/ LoadFails(u) \/ NoText(u) \/ IndexFails(u)
    BY <1>0, <2>1, <2>2 DEF TypesOK, Refuse, LoadFails, NoText, IndexFails
  <2>3. CASE WriteTemp(u) \/ WriteFails(u) \/ Load(u)
    BY <1>0, <1>1, <2>3 DEF TypesOK, WriteTemp, WriteFails, Load, Stages
  <2>4. CASE Store(u)
    BY <1>0, <2>4 DEF TypesOK, Store, Stages
  <2>5. CASE IndexOne(u)
    <3>1. PICK c \in todo[u] : index' = index \cup {c} /\ todo' = [todo EXCEPT ![u] = @ \ {c}]
      BY <2>5 DEF IndexOne
    <3>2. index' \in SUBSET ChunkSet /\ todo' \in [Uploads -> SUBSET ChunkSet]
      BY <1>0, <3>1 DEF TypesOK
    <3>3. Answer(u, 200) \/ UNCHANGED <<status, upc, temp>>
      BY <2>5 DEF IndexOne
    <3>4. file' = file /\ table' = table
      BY <2>5 DEF IndexOne
    <3>5. QED
      BY <1>0, <2>1, <3>2, <3>3, <3>4 DEF TypesOK
  <2>6. QED
    BY <2>2, <2>3, <2>4, <2>5 DEF Upload
<1>3. CASE Refuse(u) \/ WriteTemp(u) \/ WriteFails(u) \/ LoadFails(u) \/ NoText(u)
           \/ Load(u) \/ Store(u) \/ IndexFails(u)
  <2>1. index' = index
    BY <1>3 DEF Refuse, WriteTemp, WriteFails, LoadFails, NoText, Load, Store, IndexFails
  <2>2. IndexedOnce'
    <3>1. \/ todo' = todo
          \/ Stored(index, u) = {} /\ todo' = [todo EXCEPT ![u] = Chunks(u)]
      <4>1. todo' = todo \/ Load(u)
        BY <1>3 DEF Refuse, WriteTemp, WriteFails, LoadFails, NoText, Store, IndexFails
      <4>2. QED
        BY <1>0, <4>1 DEF Load, StageKnown
    <3>2. QED
      BY <1>0, <2>1, <3>1, IndexKept
  <2>3. StageKnown(u)'
    <3>1. Stored(index, u)' = Stored(index, u)
      BY <2>1 DEF Stored
    <3>2. Remembered(u)' <=>
            \A o \in Chunks(u) : o \in todo'[u] \/ \E c \in index : Place(c) = Place(o)
      BY <1>0, <2>1 DEF Remembered
    <3>3. CASE Refuse(u) \/ LoadFails(u) \/ NoText(u) \/ IndexFails(u)
      <4>0. table' = table
        BY <3>3 DEF Refuse, LoadFails, NoText, IndexFails
      <4>1. Stored(table, u)' = Stored(table, u)
        BY <4>0 DEF Stored
      <4>2. upc'[u] = "answered" /\ u \notin temp' /\ status'[u] \in {400, 413, 422, 500}
        BY <1>0, <3>3 DEF Refuse, LoadFails, NoText, IndexFails, Answer, TypesOK
      <4>3. status'[u] # 500 => upc[u] \in {"received", "load"}
        BY <1>0, <3>3 DEF Refuse, LoadFails, NoText, IndexFails, Answer, TypesOK
      <4>4. QED
        BY <1>0, <3>1, <4>1, <4>2, <4>3 DEF StageKnown
    <3>4. CASE WriteTemp(u) \/ WriteFails(u)
      BY <1>0, <3>1, <3>4 DEF WriteTemp, WriteFails, StageKnown, TypesOK, Stored
    <3>5. CASE Load(u)
      <4>1. /\ upc[u] = "load" /\ todo'[u] = Chunks(u)
            /\ upc'[u] \in {"store", "index"} /\ status' = status /\ temp' = temp
        BY <1>0, <3>5 DEF Load, TypesOK
      <4>2. upc'[u] = "store" => Stored(index, u)' = {}
        BY <1>0, <3>1, <4>1 DEF StageKnown
      <4>3. status'[u] = 0
        BY <1>0, <4>1 DEF StageKnown
      <4>4. QED
        BY <3>2, <4>1, <4>2, <4>3 DEF StageKnown
    <3>6. CASE Store(u)
      <4>1. /\ upc[u] = "store" /\ todo' = todo
            /\ upc'[u] = "index" /\ status' = status /\ temp' = temp
        BY <1>0, <3>6 DEF Store, TypesOK
      <4>2. Remembered(u)' /\ status'[u] = 0
        BY <1>0, <3>2, <4>1 DEF StageKnown, Remembered
      <4>3. QED
        BY <4>1, <4>2 DEF StageKnown
    <3>7. QED
      BY <1>3, <3>3, <3>4, <3>5, <3>6
  <2>4. ASSUME NEW v \in Uploads, v # u PROVE StageKnown(v)'
    <3>1. upc'[v] = upc[v] /\ status'[v] = status[v] /\ todo'[v] = todo[v]
          /\ (v \in temp' <=> v \in temp)
      BY <1>0, <1>3, <2>4 DEF Refuse, WriteTemp, WriteFails, LoadFails, NoText, Load, Store,
                              IndexFails, Answer, TypesOK
    <3>2. \A c \in table' \ table : c.source = u
      <4>1. table' = table \/ table' = table \cup todo[u]
        BY <1>3 DEF Refuse, WriteTemp, WriteFails, LoadFails, NoText, Load, Store, IndexFails
      <4>2. QED
        BY <1>0, <1>1, <4>1 DEF IndexedOnce
    <3>3. QED
      BY <1>0, <2>1, <2>4, <3>1, <3>2, OthersKeptByUpload
  <2>5. QED
    BY <1>2, <2>2, <2>3, <2>4 DEF UInv
<1>4. CASE IndexOne(u)
  <2>1. PICK c \in todo[u] : index' = index \cup {c} /\ todo' = [todo EXCEPT ![u] = @ \ {c}]
    BY <1>4 DEF IndexOne
  <2>2. /\ upc[u] = "index" /\ table' = table
        /\ IF todo'[u] = {} THEN Answer(u, 200) ELSE UNCHANGED <<status, upc, temp>>
    BY <1>4 DEF IndexOne
  <2>3. c \in Chunks(u) /\ c.source = u /\ todo'[u] = todo[u] \ {c}
    BY <1>0, <1>1, <2>1 DEF IndexedOnce, TypesOK
  <2>4. \A o \in Chunks(u) : Place(o) = Place(c) => o = c
    BY <1>0, <2>3, ChunksDiffer DEF Place
  <2>5. \A d \in index : Place(d) # Place(c)
    BY <1>0, <2>1, <2>3 DEF IndexedOnce, Place
  <2>6. IndexedOnce'
    <3>1. \A d \in index' : \E o \in Chunks(d.source)' : Place(o) = Place(d)
      BY <1>0, <2>1, <2>3 DEF IndexedOnce
    <3>2. \A d, e \in index' : Place(d) = Place(e) => d = e
      BY <1>0, <2>1, <2>5 DEF IndexedOnce
    <3>3. \A v \in Uploads : todo'[v] \subseteq todo[v]
      BY <1>0, <2>1 DEF TypesOK
    <3>4. \A v \in Uploads : todo'[v] \subseteq Chunks(v)'
      BY <1>0, <3>3 DEF IndexedOnce
    <3>5. \A d \in index' : \A o \in todo'[d.source] : Place(o) # Place(d)
      <4> SUFFICES ASSUME NEW d \in index', NEW o \in todo'[d.source] PROVE Place(o) # Place(d)
        OBVIOUS
      <4>1. CASE d = c
        BY <1>0, <2>3, <2>4, <4>1 DEF IndexedOnce
      <4>2. CASE d # c
        <5>1. d \in index /\ d.source \in Uploads
          BY <1>0, <2>1, <4>2 DEF TypesOK, ChunkSet
        <5>2. QED
          BY <1>0, <3>3, <5>1 DEF IndexedOnce
      <4>3. QED
        BY <4>1, <4>2
    <3>6. QED
      BY <3>1, <3>2, <3>4, <3>5 DEF IndexedOnce
  <2>7. StageKnown(u)'
    <3>1. Remembered(u)'
      <4>1. Remembered(u)
        BY <1>0, <2>2 DEF StageKnown
      <4>2. \A o \in Chunks(u) : o \in todo'[u] \/ \E d \in index' : Place(d) = Place(o)
        BY <2>1, <2>3, <4>1 DEF Remembered
      <4>3. QED
        BY <1>0, <4>2 DEF Remembered
    <3>2. CASE todo'[u] = {}
      <4>1. upc'[u] = "answered" /\ status'[u] = 200 /\ u \notin temp'
        BY <1>0, <2>2, <3>2 DEF Answer, TypesOK
      <4>2. QED
        BY <3>1, <3>2, <4>1 DEF StageKnown
    <3>3. CASE todo'[u] # {}
      <4>1. upc'[u] = "index" /\ status'[u] = 0
        BY <1>0, <2>2, <3>3 DEF StageKnown
      <4>2. QED
        BY <3>1, <4>1 DEF StageKnown
    <3>4. QED
      BY <3>2, <3>3
  <2>8. ASSUME NEW v \in Uploads, v # u PROVE StageKnown(v)'
    <3>1. upc'[v] = upc[v] /\ status'[v] = status[v] /\ todo'[v] = todo[v]
          /\ (v \in temp' <=> v \in temp)
      BY <1>0, <2>1, <2>2, <2>8 DEF Answer, TypesOK
    <3>2. QED
      BY <1>0, <2>1, <2>2, <2>3, <2>8, <3>1, OthersKeptByUpload
  <2>9. QED
    BY <1>2, <2>6, <2>7, <2>8 DEF UInv
<1>5. QED
  BY <1>3, <1>4 DEF Upload

(* Tampering alters what is stored, not its place.                         *)
LEMMA TamperUInv ==
  ASSUME UInv, Tamper
  PROVE  UInv'
<1>1. PICK c \in index : index' = (index \ {c}) \cup {Altered(c)}
  BY DEF Tamper
<1>2. /\ UNCHANGED <<file, upc, status, temp, todo, table>>
      /\ TypesOK /\ IndexedOnce
      /\ \A w : Chunks(w)' = Chunks(w)
  BY DEF Tamper, UInv, Chunks
<1>3. Altered(c) \in ChunkSet /\ Altered(c).source = c.source /\ Place(Altered(c)) = Place(c)
  <2>1. c \in ChunkSet
    BY <1>2 DEF TypesOK
  <2>2. Altered(c) \in ChunkSet
    BY <2>1, Zenon DEF Altered, ChunkSet
  <2>3. /\ Altered(c).source = c.source /\ Altered(c).page = c.page /\ Altered(c).at = c.at
        /\ Altered(c).first = c.first /\ Altered(c).last = c.last
    BY <2>1, Zenon DEF Altered, ChunkSet
  <2>4. QED
    BY <2>2, <2>3 DEF Place
<1>4. TypesOK'
  BY <1>1, <1>2, <1>3 DEF TypesOK
<1>5. IndexedOnce'
  BY <1>1, <1>2, <1>3 DEF IndexedOnce
<1>6. ASSUME NEW u \in Uploads PROVE StageKnown(u)'
  <2>1. Stored(index, u) = {} => Stored(index, u)' = {}
    BY <1>1, <1>3 DEF Stored
  <2>2. Stored(table, u)' = Stored(table, u)
    BY <1>2 DEF Stored
  <2>3. \A d \in index : \E e \in index' : Place(e) = Place(d)
    BY <1>1, <1>3
  <2>4. Remembered(u) => Remembered(u)'
    BY <1>2, <2>3 DEF Remembered
  <2>5. StageKnown(u)
    BY DEF UInv
  <2>6. QED
    BY <1>2, <2>1, <2>2, <2>4, <2>5 DEF StageKnown
<1>7. QED
  BY <1>4, <1>5, <1>6 DEF UInv

(* Every step keeps UInv.                                                  *)
LEMMA NextUInv == UInv /\ [DocumentsNext]_documentsVars => UInv'
<1> SUFFICES ASSUME UInv, [DocumentsNext]_documentsVars PROVE UInv'
  OBVIOUS
<1>1. CASE UploadStep
  BY <1>1, UploadUInv DEF UploadStep
<1>2. CASE Tamper
  BY <1>2, TamperUInv
<1>3. CASE UNCHANGED pdfVars
  BY <1>3 DEF pdfVars, UInv, TypesOK, IndexedOnce, StageKnown, Stored, Remembered, Chunks
<1>4. UploadStep \/ Tamper \/ UNCHANGED pdfVars
  BY DEF DocumentsNext, documentsVars, pdfVars, RetrieveStep, Retrieve, FirstPass, Decompose, RetrievePart,
         Sort, RetrievalFails, Augment
<1>5. QED
  BY <1>1, <1>2, <1>3, <1>4

(***************************************************************************)
(* What an upload was told is true: ingest_pdf's 200 means that the whole  *)
(* text is indexed, in chunks that overlap as intended; its 400, 413 and   *)
(* 422 that nothing is stored; and its finally leaves no temporary file.   *)
(***************************************************************************)
THEOREM UploadsAnswerTruly == DocumentsSpec => []UploadAnswersTruly
<1>1. UInv => UploadAnswersTruly
  <2> SUFFICES ASSUME UInv, NEW u \in Uploads
               PROVE  /\ status[u] = 200 => Covers(index, u)
                      /\ status[u] \in {400, 413, 422} => Stored(index, u) = {} /\ Stored(table, u) = {}
                      /\ u \in temp => upc[u] \in {"load", "store", "index", "lost"}
    BY DEF UploadAnswersTruly
  <2>0. TypesOK /\ IndexedOnce /\ StageKnown(u)
    BY DEF UInv
  <2>1. ASSUME status[u] = 200, NEW p \in DOMAIN file[u].pages
        PROVE  LET ws == {c \in index : c.source = u /\ c.page = p} IN
               /\ \A i \in 0 .. file[u].pages[p] - 1 : \E c \in ws : c.first <= i /\ i < c.last
               /\ \A c, d \in ws : d.at = c.at + 1 => c.last - d.first = OverlapTokens
               /\ \A c, d \in ws : c # d => ~(c.first <= d.first /\ d.last <= c.last)
    <3> DEFINE ws == {c \in index : c.source = u /\ c.page = p}
               n  == file[u].pages[p]
    <3>1. n \in Nat
      BY <2>0, ChunksAreWindows
    <3>2. \A c \in ws : \E w \in Windows(n) :
            c.at = w.at /\ c.first = w.first /\ c.last = w.last
      <4> SUFFICES ASSUME NEW c \in ws
                   PROVE  \E w \in Windows(n) :
                            c.at = w.at /\ c.first = w.first /\ c.last = w.last
        OBVIOUS
      <4>1. PICK o \in Chunks(u) : Place(o) = Place(c)
        BY <2>0 DEF IndexedOnce
      <4>2. o.page = p /\ c.at = o.at /\ c.first = o.first /\ c.last = o.last
        BY <4>1 DEF Place
      <4>3. \E w \in Windows(n) : o.at = w.at /\ o.first = w.first /\ o.last = w.last
        BY <2>0, <4>2, ChunksAreWindows
      <4>4. QED
        BY <4>2, <4>3
    <3>3. \A w \in Windows(n) : \E c \in ws :
            c.at = w.at /\ c.first = w.first /\ c.last = w.last
      <4> SUFFICES ASSUME NEW w \in Windows(n)
                   PROVE  \E c \in ws : c.at = w.at /\ c.first = w.first /\ c.last = w.last
        OBVIOUS
      <4>1. PICK o \in Chunks(u) :
              o.page = p /\ o.at = w.at /\ o.first = w.first /\ o.last = w.last
        BY <2>0, ChunksAreWindows
      <4>2. PICK c \in index : Place(c) = Place(o)
        BY <2>0, <2>1 DEF StageKnown, Remembered
      <4>3. o.source = u
        BY <2>0, ChunksAreWindows
      <4>4. QED
        BY <4>1, <4>2, <4>3 DEF Place
    <3>4. \A c, d \in ws : c # d => c.at # d.at
      BY IndexedDiffer
    <3> HIDE DEF ws, n
    <3>5. \A i \in 0 .. n - 1 : \E c \in ws : c.first <= i /\ i < c.last
      <4> SUFFICES ASSUME NEW i \in 0 .. n - 1
                   PROVE  \E c \in ws : c.first <= i /\ i < c.last
        OBVIOUS
      <4>1. PICK w \in Windows(n) : w.first <= i /\ i < w.last
        BY <3>1, TokensCovered
      <4>2. QED
        BY <3>3, <4>1
    <3>6. ASSUME NEW c \in ws, NEW d \in ws, d.at = c.at + 1
          PROVE  c.last - d.first = OverlapTokens
      <4>1. PICK w \in Windows(n) : c.at = w.at /\ c.first = w.first /\ c.last = w.last
        BY <3>2
      <4>2. PICK x \in Windows(n) : d.at = x.at /\ d.first = x.first /\ d.last = x.last
        BY <3>2
      <4>3. QED
        BY <3>1, <3>6, <4>1, <4>2, NeighboursOverlap
    <3>7. ASSUME NEW c \in ws, NEW d \in ws, c # d
          PROVE  ~(c.first <= d.first /\ d.last <= c.last)
      <4>1. PICK w \in Windows(n) : c.at = w.at /\ c.first = w.first /\ c.last = w.last
        BY <3>2
      <4>2. PICK x \in Windows(n) : d.at = x.at /\ d.first = x.first /\ d.last = x.last
        BY <3>2
      <4>3. w # x
        BY <3>4, <3>7, <4>1, <4>2
      <4>4. QED
        BY <3>1, <4>1, <4>2, <4>3, NoneWithin
    <3>8. QED
      BY <3>5, <3>6, <3>7 DEF ws, n
  <2>2. u \in temp => upc[u] \in {"load", "store", "index", "lost"}
    BY <2>0 DEF StageKnown, TypesOK, Stages
  <2>3. QED
    BY <2>0, <2>1, <2>2 DEF StageKnown, Covers
<1>2. QED
  BY <1>1, InitUInv, NextUInv, PTL DEF DocumentsSpec

-----------------------------------------------------------------------------
(***************************************************************************)
(* Retrieval.  The best-scored version of every chunk that any part of the *)
(* question gave is in merged, once; Sort puts merged in order.            *)
(***************************************************************************)
BestKept ==
  /\ rpc \in {"first", "decompose"} => merged = {} /\ seen = {}
  /\ \A h \in seen : h.score \in Nat
  /\ merged \subseteq seen
  /\ \A h \in seen : \E g \in merged : Key(g) = Key(h) /\ h.score <= g.score
  /\ \A g, h \in merged : Key(g) = Key(h) => g = h
  /\ rpc = "augment" /\ seen # {} =>
       result \in Orders(merged) /\ BestFirst(result) /\ cited = Sources(result)

(* One call of LightRAG gives each chunk once.                             *)
LEMMA KeptOnce ==
  ASSUME UInv, NEW hits \in Answers, NEW t
  PROVE  /\ \A h \in Keep(hits, t) : h.score \in Nat
         /\ \A g, h \in Keep(hits, t) : Key(g) = Key(h) => g = h
<1>0. \A s \in Scores : s \in Nat
  BY CragAssumption
<1>1. CASE \E s \in Scores : hits = {[chunk |-> Wrapped, score |-> s]}
  BY <1>0, <1>1 DEF Keep
<1>2. CASE \E S \in Lists : \E f \in [S -> Scores] :
             hits = {[chunk |-> c, score |-> f[c]] : c \in S}
  <2>0. PICK S \in Lists : \E f \in [S -> Scores] :
               hits = {[chunk |-> c, score |-> f[c]] : c \in S}
    BY <1>2
  <2>1. PICK f \in [S -> Scores] : hits = {[chunk |-> c, score |-> f[c]] : c \in S}
    BY <2>0
  <2>2. \A h \in hits : h.chunk \in S /\ h = [chunk |-> h.chunk, score |-> f[h.chunk]]
    BY <2>1
  <2>3. S \subseteq index
    BY DEF Lists
  <2>4. \A h \in hits : h.score \in Nat
    BY <1>0, <2>1
  <2>5. ASSUME NEW g \in hits, NEW h \in hits, Key(g) = Key(h) PROVE g = h
    <3>1. g.chunk \in index /\ h.chunk \in index
      BY <2>2, <2>3
    <3>2. g.chunk.source = h.chunk.source /\ g.chunk.page = h.chunk.page
          /\ g.chunk.at = h.chunk.at
      BY <2>5 DEF Key
    <3>3. g.chunk = h.chunk
      BY <3>1, <3>2, IndexedDiffer
    <3>4. QED
      BY <2>2, <3>3
  <2>6. QED
    BY <2>4, <2>5 DEF Keep
<1>3. QED
  BY <1>1, <1>2 DEF Answers

(* Merging keeps the best version of every chunk, and only one.            *)
LEMMA MergeKeepsBest ==
  ASSUME NEW old, NEW all, NEW new,
         \A h \in all \cup new : h.score \in Nat,
         old \subseteq all,
         \A h \in all : \E g \in old : Key(g) = Key(h) /\ h.score <= g.score,
         \A g, h \in old : Key(g) = Key(h) => g = h,
         \A g, h \in new : Key(g) = Key(h) => g = h
  PROVE  /\ Merged(old, new) \subseteq all \cup new
         /\ \A h \in all \cup new : \E g \in Merged(old, new) :
              Key(g) = Key(h) /\ h.score <= g.score
         /\ \A g, h \in Merged(old, new) : Key(g) = Key(h) => g = h
<1>1. Merged(old, new) \subseteq all \cup new
  BY DEF Merged
<1>2. ASSUME NEW h \in all
      PROVE  \E g \in Merged(old, new) : Key(g) = Key(h) /\ h.score <= g.score
  <2>1. PICK g \in old : Key(g) = Key(h) /\ h.score <= g.score
    OBVIOUS
  <2>2. CASE g \in Merged(old, new)
    BY <2>1, <2>2
  <2>3. CASE g \notin Merged(old, new)
    <3>1. PICK k \in new : Key(k) = Key(g) /\ k.score > g.score
      BY <2>3 DEF Merged
    <3>2. k \in Merged(old, new)
      BY <3>1 DEF Merged
    <3>3. h.score \in Nat /\ g.score \in Nat /\ k.score \in Nat
      OBVIOUS
    <3>4. Key(k) = Key(h) /\ h.score <= k.score
      BY <2>1, <3>1, <3>3
    <3>5. QED
      BY <3>2, <3>4
  <2>4. QED
    BY <2>2, <2>3
<1>3. ASSUME NEW h \in new
      PROVE  \E g \in Merged(old, new) : Key(g) = Key(h) /\ h.score <= g.score
  <2>1. CASE h \in Merged(old, new)
    <3>1. h.score \in Nat
      OBVIOUS
    <3>2. QED
      BY <2>1, <3>1
  <2>2. CASE h \notin Merged(old, new)
    <3>1. PICK m \in old : Key(m) = Key(h) /\ ~(h.score > m.score)
      BY <2>2 DEF Merged
    <3>2. m.score \in Nat /\ h.score \in Nat
      OBVIOUS
    <3>3. m \in Merged(old, new)
      BY <3>1 DEF Merged
    <3>4. QED
      BY <3>1, <3>2, <3>3
  <2>3. QED
    BY <2>1, <2>2
<1>4. ASSUME NEW g \in Merged(old, new), NEW h \in Merged(old, new), Key(g) = Key(h)
      PROVE  g = h
  BY <1>4 DEF Merged
<1>5. QED
  BY <1>1, <1>2, <1>3, <1>4

(* Retrieval keeps the best score of each chunk at every step.             *)
LEMMA NextBestKept == UInv /\ BestKept /\ [DocumentsNext]_documentsVars => BestKept'
<1> SUFFICES ASSUME UInv, BestKept, [DocumentsNext]_documentsVars PROVE BestKept'
  OBVIOUS
<1>1. CASE FirstPass
  BY <1>1 DEF FirstPass, BestKept
<1>2. CASE Decompose
  BY <1>2 DEF Decompose, BestKept
<1>3. CASE RetrievePart
  <2>1. PICK hits \in Answers :
          /\ merged' = Merged(merged, Keep(hits, FallbackThreshold))
          /\ seen' = seen \cup Keep(hits, FallbackThreshold)
    BY <1>3 DEF RetrievePart
  <2> DEFINE new == Keep(hits, FallbackThreshold)
  <2>2. /\ \A h \in new : h.score \in Nat
        /\ \A g, h \in new : Key(g) = Key(h) => g = h
    BY KeptOnce
  <2>3. merged' = Merged(merged, new) /\ seen' = seen \cup new
    BY <2>1
  <2> HIDE DEF new
  <2>4. \A h \in seen \cup new : h.score \in Nat
    BY <2>2 DEF BestKept
  <2>5. /\ merged' \subseteq seen'
        /\ \A h \in seen' : \E g \in merged' : Key(g) = Key(h) /\ h.score <= g.score
        /\ \A g, h \in merged' : Key(g) = Key(h) => g = h
    BY <2>2, <2>3, <2>4, MergeKeepsBest DEF BestKept
  <2>6. rpc' = "parts"
    BY <1>3 DEF RetrievePart
  <2>7. QED
    BY <2>3, <2>4, <2>5, <2>6 DEF BestKept
<1>4. CASE Sort
  <2>1. PICK q \in Orders(merged) : BestFirst(q) /\ result' = q /\ cited' = Sources(q)
    BY <1>4 DEF Sort
  <2>2. merged' = merged /\ seen' = seen /\ rpc' = "augment"
    BY <1>4 DEF Sort
  <2>3. result' \in Orders(merged)' /\ BestFirst(result') /\ cited' = Sources(result')
    BY <2>1, <2>2 DEF Orders
  <2>4. QED
    BY <2>2, <2>3 DEF BestKept
<1>5. CASE RetrievalFails \/ Augment
  BY <1>5 DEF RetrievalFails, Augment, BestKept
<1>6. CASE UNCHANGED cragVars
  BY <1>6 DEF cragVars, BestKept, Orders, BestFirst, Sources
<1>7. QED
  BY <1>1, <1>2, <1>3, <1>4, <1>5, <1>6
  DEF DocumentsNext, documentsVars, UploadStep, RetrieveStep, Tamper, Retrieve

(***************************************************************************)
(* crag_retrieve returns every chunk that a part of the question gave,     *)
(* once, with the best of its scores, best first, and cites each page with *)
(* the score of its best chunk, while uploads go on.                       *)
(***************************************************************************)
THEOREM BestIsReturned == DocumentsSpec => []BestOfEachChunk
<1>1. DocumentsInit => BestKept
  <2> SUFFICES ASSUME DocumentsInit PROVE BestKept
    OBVIOUS
  <2>1. rpc = "first" /\ merged = {} /\ seen = {}
    BY DEF DocumentsInit, CragInit
  <2>2. QED
    BY <2>1 DEF BestKept
<1>2. KeptGenuine /\ BestKept => BestOfEachChunk
  <2> SUFFICES ASSUME KeptGenuine, BestKept, rpc = "augment", seen # {}
               PROVE  /\ BestFirst(result)
                      /\ \A h \in seen : \E i \in DOMAIN result :
                           /\ Key(result[i]) = Key(h)
                           /\ \A g \in {x \in seen : Key(x) = Key(h)} : g.score <= result[i].score
                           /\ \A j \in DOMAIN result : Key(result[j]) = Key(h) => j = i
                      /\ \A s \in cited : \A i \in DOMAIN result :
                           Page(result[i]) = s.page => result[i].score <= s.score
    BY DEF BestOfEachChunk
  <2> DEFINE n == Cardinality(merged)
  <2>1. result \in Orders(merged) /\ BestFirst(result) /\ cited = Sources(result)
    BY DEF BestKept
  <2>2. n \in Nat
    BY FS_CardinalityType DEF KeptGenuine
  <2>3. /\ result \in [1 .. n -> merged]
        /\ \A i, j \in 1 .. n : result[i] = result[j] => i = j
        /\ \A g \in merged : \E i \in 1 .. n : result[i] = g
    BY <2>1 DEF Orders, Bijection, Injection, Surjection, IsInjective
  <2>4. \A i \in DOMAIN result : result[i] \in merged /\ result[i].score \in Nat /\ i \in Nat
    BY <2>2, <2>3 DEF BestKept
  <2>5. DOMAIN result = 1 .. n
    BY <2>3
  <2> HIDE DEF n
  <2>6. ASSUME NEW h \in seen
        PROVE  \E i \in DOMAIN result :
                 /\ Key(result[i]) = Key(h)
                 /\ \A g \in {x \in seen : Key(x) = Key(h)} : g.score <= result[i].score
                 /\ \A j \in DOMAIN result : Key(result[j]) = Key(h) => j = i
    <3>1. PICK m \in merged : Key(m) = Key(h)
      BY DEF BestKept
    <3>2. PICK i \in 1 .. n : result[i] = m
      BY <2>3
    <3>3. ASSUME NEW g \in seen, Key(g) = Key(h) PROVE g.score <= m.score
      <4>1. PICK k \in merged : Key(k) = Key(g) /\ g.score <= k.score
        BY DEF BestKept
      <4>2. k = m
        BY <3>1, <3>3, <4>1 DEF BestKept
      <4>3. QED
        BY <4>1, <4>2
    <3>4. ASSUME NEW j \in DOMAIN result, Key(result[j]) = Key(h) PROVE j = i
      <4>1. result[j] = m
        BY <2>4, <3>1, <3>4 DEF BestKept
      <4>2. QED
        BY <2>3, <2>5, <3>2, <4>1
    <3>5. QED
      BY <2>5, <3>1, <3>2, <3>3, <3>4
  <2>7. ASSUME NEW s \in cited, NEW i \in DOMAIN result, Page(result[i]) = s.page
        PROVE  result[i].score <= s.score
    <3>1. PICK j \in DOMAIN result :
            /\ \A k \in 1 .. j - 1 : Page(result[k]) # Page(result[j])
            /\ s = [page |-> Page(result[j]), score |-> result[j].score]
      BY <2>1 DEF Sources
    <3>2. Page(result[i]) = Page(result[j]) /\ s.score = result[j].score
      BY <2>7, <3>1
    <3>3. ~(i < j)
      BY <2>2, <2>5, <3>1, <3>2
    <3>4. i = j \/ j < i
      BY <2>4, <3>3
    <3>5. result[i].score <= result[j].score
      BY <2>1, <2>4, <3>4 DEF BestFirst
    <3>6. QED
      BY <3>2, <3>5
  <2>8. QED
    BY <2>1, <2>6, <2>7
<1>3. QED
  BY <1>1, <1>2, InitUInv, NextUInv, NextBestKept, KeptGenuineInductive, PTL DEF DocumentsSpec
=============================================================================
