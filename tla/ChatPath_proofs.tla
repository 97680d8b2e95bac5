-------------------------- MODULE ChatPath_proofs ---------------------------
(***************************************************************************)
(* Proofs about one question's way through the system, for answers of any  *)
(* length and whatever goes wrong.                                         *)
(***************************************************************************)
EXTENDS ChatPath, WellFoundedInduction, TLAPS

(* Has the gateway taken the request, so that its run may have started?    *)
Taken  == gw \in {"stream", "ended", "broken"}
FallbackAsked == chat # "none"

(* Each request starts at most one run; the second request is made only    *)
(* once the gateway has refused or its connection is broken, and both are  *)
(* final.                                                                  *)
IInv ==
  /\ runs \in Nat
  /\ runs <= (IF Taken THEN 1 ELSE 0) + (IF FallbackAsked THEN 1 ELSE 0)
  /\ gw \in {"admit", "stream", "refused", "ended", "broken"}
  /\ gw = "admit" => runs = 0
  /\ route \in {"go", "fallback", "done"}
  /\ route = "go" => ~FallbackAsked
  /\ route = "fallback" \/ FallbackAsked => gw \in {"refused", "broken"}

(* No request was made to begin with.                                      *)
LEMMA InitIInv == Init => IInv
  BY DEF Init, IInv, Taken, FallbackAsked

(* Every step of the gateway, the API and the route preserves IInv.        *)
LEMMA NextIInv == IInv /\ [Next]_vars => IInv'
<1> SUFFICES ASSUME IInv, [Next]_vars PROVE IInv'
  OBVIOUS
<1> USE DEF IInv, Taken, FallbackAsked, envVars, routeVars, gwVars, apiVars, chatVars, runVars
<1>1. CASE Gateway
  <2>1. CASE GwForwards
    BY <2>1 DEF GwForwards
  <2>2. CASE ApiTurnsAway
    BY <2>2 DEF ApiTurnsAway
  <2>3. CASE GwCopies
    BY <2>3 DEF GwCopies
  <2>4. CASE GwFinishes
    BY <2>4 DEF GwFinishes
  <2>5. QED
    BY <1>1, <2>1, <2>2, <2>3, <2>4 DEF Gateway
<1>2. CASE Api
  BY <1>2 DEF Api, AgentAnswers, Emits
<1>3. CASE Chat
  BY <1>3 DEF Chat, ChatAgentAnswers
<1>4. CASE Route
  <2>1. CASE GoAnswers
    BY <2>1 DEF GoAnswers, Responds
  <2>2. CASE FallsBack
    BY <2>2 DEF FallsBack
  <2>3. CASE ChatAccepts
    BY <2>3 DEF ChatAccepts
  <2>4. CASE ChatUnauthorized
    BY <2>4 DEF ChatUnauthorized, Responds
  <2>5. CASE PythonAnswers
    BY <2>5 DEF PythonAnswers, Responds
  <2>6. QED
    BY <1>4, <2>1, <2>2, <2>3, <2>4, <2>5 DEF Route
<1>5. CASE Failure
  <2>1. CASE GwRefuses
    BY <2>1 DEF GwRefuses
  <2>2. CASE GwReportsError
    BY <2>2 DEF GwReportsError
  <2>3. CASE PingRaces
    BY <2>3 DEF PingRaces
  <2>4. CASE GwTimesOut
    BY <2>4 DEF GwTimesOut
  <2>5. CASE GwDies
    BY <2>5 DEF GwDies
  <2>6. CASE AgentFails \/ ApiDies
    BY <2>6 DEF AgentFails, ApiDies
  <2>7. CASE ChatTurnsAway
    BY <2>7 DEF ChatTurnsAway, Responds
  <2>8. CASE ChatFails
    BY <2>8 DEF ChatFails
  <2>9. QED
    BY <1>5, <2>1, <2>2, <2>3, <2>4, <2>5, <2>6, <2>7, <2>8 DEF Failure
<1>6. CASE UNCHANGED vars
  BY <1>6 DEF vars
<1>7. QED
  BY <1>1, <1>2, <1>3, <1>4, <1>5, <1>6 DEF Next

(***************************************************************************)
(* The fallback runs the agent a second time only after the gateway's      *)
(* connection broke (POST, callViaGo and callViaPython of the route).      *)
(***************************************************************************)
THEOREM TwoRunsNeedABreak == Spec => []SecondRunIsAfterABreak
<1>1. IInv => SecondRunIsAfterABreak
  BY DEF IInv, Taken, FallbackAsked, SecondRunIsAfterABreak
<1>2. QED
  BY InitIInv, NextIInv, <1>1, PTL DEF Spec

-----------------------------------------------------------------------------
(***************************************************************************)
(* Loops.  A set of numbers that is not empty has a least element; by it,  *)
(* a loop that starts at start and makes n steps has its n + 1 states.     *)
(***************************************************************************)
LEMMA Smallest ==
  ASSUME NEW T \in SUBSET Nat, T # {}
  PROVE  \E n \in T : \A m \in T : n <= m
<1> DEFINE R == {p \in Nat \X Nat : p[1] < p[2]}
<1>1. IsWellFoundedOn(R, Nat)
  <2>1. R = OpToRel(<, Nat)
    BY DEF OpToRel
  <2>2. QED
    BY <2>1, NatLessThanWellFounded
<1>2. PICK n \in T : \A m \in T : <<m, n>> \notin R
  <2> HIDE DEF R
  <2>1. QED
    BY <1>1, WFMin
<1>3. ASSUME NEW m \in T PROVE n <= m
  <2>1. m \in Nat /\ n \in Nat
    OBVIOUS
  <2>2. ~(m < n)
    BY <1>2, <2>1
  <2>3. QED
    BY <2>1, <2>2
<1>4. QED
  BY <1>3

(* What holds at 0 and is kept by every step holds up to n.                *)
LEMMA UpTo ==
  ASSUME NEW n \in Nat, NEW good \in SUBSET (0 .. n), 0 \in good,
         \A i \in 1 .. n : i - 1 \in good => i \in good
  PROVE  \A i \in 0 .. n : i \in good
<1> DEFINE T == (0 .. n) \ good
<1>1. CASE T = {}
  BY <1>1
<1>2. CASE T # {}
  <2>1. T \in SUBSET Nat
    OBVIOUS
  <2>2. PICK m \in T : \A i \in T : m <= i
    <3> HIDE DEF T
    <3>1. QED
      BY <1>2, <2>1, Smallest
  <2>3. m \in 1 .. n /\ m - 1 \in 0 .. n /\ m - 1 \notin T
    BY <2>2
  <2>4. QED
    BY <2>2, <2>3
<1>3. QED
  BY <1>1, <1>2

IsRun(f, n, S, start, step) ==
  /\ f \in [0 .. n -> S]
  /\ f[0] = start
  /\ \A i \in 1 .. n : f[i] = step[i][f[i - 1]]

(* A loop of n steps has a run.                                            *)
LEMMA Unrolled ==
  ASSUME NEW n \in Nat, NEW S, NEW start \in S, NEW step \in [1 .. n -> [S -> S]]
  PROVE  \E f : IsRun(f, n, S, start, step)
<1> DEFINE Runs(m) == \E f : IsRun(f, m, S, start, step)
           good == {m \in 0 .. n : Runs(m)}
<1>1. Runs(0)
  <2> DEFINE f == [i \in 0 .. 0 |-> start]
  <2>1. f \in [0 .. 0 -> S] /\ f[0] = start /\ \A i \in 1 .. 0 : FALSE
    OBVIOUS
  <2> HIDE DEF f
  <2>2. IsRun(f, 0, S, start, step)
    BY <2>1 DEF IsRun
  <2>3. QED
    BY <2>2
<1>2. ASSUME NEW m \in 1 .. n, Runs(m - 1) PROVE Runs(m)
  <2>1. PICK f : IsRun(f, m - 1, S, start, step)
    BY <1>2
  <2>0. /\ f \in [0 .. m - 1 -> S]
        /\ f[0] = start
        /\ \A i \in 1 .. m - 1 : f[i] = step[i][f[i - 1]]
    BY <2>1 DEF IsRun
  <2> DEFINE g == [i \in 0 .. m |-> IF i = m THEN step[m][f[m - 1]] ELSE f[i]]
  <2>2. m - 1 \in 0 .. m - 1 /\ f[m - 1] \in S
    BY <2>0
  <2>3. step[m][f[m - 1]] \in S
    BY <2>2
  <2>4. g \in [0 .. m -> S]
    BY <2>3, <2>0
  <2>5. g[0] = start
    BY <2>0
  <2>6. ASSUME NEW i \in 1 .. m PROVE g[i] = step[i][g[i - 1]]
    <3>1. i - 1 \in 0 .. m - 1 /\ g[i - 1] = f[i - 1]
      OBVIOUS
    <3>2. CASE i = m
      BY <3>1, <3>2
    <3>3. CASE i # m
      <4>1. i \in 1 .. m - 1
        BY <3>3
      <4>2. g[i] = f[i]
        BY <3>3
      <4>3. QED
        BY <2>0, <3>1, <4>1, <4>2
    <3>4. QED
      BY <3>2, <3>3
  <2> HIDE DEF g
  <2>7. IsRun(g, m, S, start, step)
    BY <2>4, <2>5, <2>6 DEF IsRun
  <2>8. QED
    BY <2>7
<1> HIDE DEF Runs
<1>3. good \in SUBSET (0 .. n) /\ 0 \in good /\ \A i \in 1 .. n : i - 1 \in good => i \in good
  BY <1>1, <1>2
<1>4. n \in good
  <2> HIDE DEF good
  <2>1. \A i \in 0 .. n : i \in good
    BY <1>3, UpTo
  <2>2. QED
    BY <2>1
<1>5. QED
  BY <1>4 DEF Runs

-----------------------------------------------------------------------------
(***************************************************************************)
(* callViaGo's loop over the lines.                                        *)
(***************************************************************************)
Lines == (0 .. 2) \X (0 .. Words + 1)

(* The loop's states: answer after each of the lines.                      *)
IsLoop(f, lines) ==
  /\ f \in [0 .. Len(lines) -> Seq(Lines)]
  /\ f[0] = <<>>
  /\ \A i \in 1 .. Len(lines) :
       f[i] = IF IsWord(lines[i]) THEN Append(f[i - 1], lines[i]) ELSE f[i - 1]

(* The loop over the lines is such a run, and ends with WordsOf.           *)
LEMMA LoopEnds ==
  ASSUME NEW lines \in Seq(Lines)
  PROVE  \E f : IsLoop(f, lines) /\ WordsOf(lines) = f[Len(lines)]
<1> DEFINE n == Len(lines)
           next1(i, words) == IF IsWord(lines[i]) THEN Append(words, lines[i]) ELSE words
           step == [i \in 1 .. n |-> [words \in Seq(Lines) |-> next1(i, words)]]
           loop(g) == [i \in 0 .. n |-> IF i = 0 THEN <<>> ELSE next1(i, g[i - 1])]
           answer == CHOOSE g : g = loop(g)
<1>1. n \in Nat /\ \A i \in 1 .. n : lines[i] \in Lines
  OBVIOUS
<1>2. \A i \in 1 .. n : \A words \in Seq(Lines) : next1(i, words) \in Seq(Lines)
  BY <1>1
<1>3. step \in [1 .. n -> [Seq(Lines) -> Seq(Lines)]]
  <2> HIDE DEF next1
  <2>1. QED
    BY <1>2
<1>4. \A i \in 1 .. n : \A words \in Seq(Lines) : step[i][words] = next1(i, words)
  <2> HIDE DEF next1, n
  <2>1. QED
    OBVIOUS
<1>5. <<>> \in Seq(Lines)
  OBVIOUS
<1> HIDE DEF step, next1, n
<1>6. PICK f : IsRun(f, n, Seq(Lines), <<>>, step)
  BY <1>1, <1>3, <1>5, Unrolled
<1>7. \A i \in 1 .. n : f[i] = next1(i, f[i - 1])
  <2>1. \A i \in 1 .. n : i - 1 \in 0 .. n
    BY <1>1
  <2>2. QED
    BY <1>4, <1>6, <2>1 DEF IsRun
<1>8. f = loop(f)
  <2>0. DOMAIN f = 0 .. n /\ f = [i \in 0 .. n |-> f[i]]
    BY <1>6 DEF IsRun
  <2>1. \A i \in 0 .. n : f[i] = IF i = 0 THEN <<>> ELSE next1(i, f[i - 1])
    BY <1>1, <1>6, <1>7 DEF IsRun
  <2>2. QED
    BY <2>0, <2>1
<1> HIDE DEF loop
<1>9. answer = loop(answer)
  BY <1>8
<1>10. /\ answer[0] = <<>>
       /\ \A i \in 1 .. n : answer[i] = next1(i, answer[i - 1])
  <2> HIDE DEF answer
  <2>1. \A i \in 0 .. n : loop(answer)[i] = IF i = 0 THEN <<>> ELSE next1(i, answer[i - 1])
    BY DEF loop
  <2>2. QED
    BY <1>1, <1>9, <2>1
<1>11. \A i \in 0 .. n : answer[i] = f[i]
  <2> DEFINE good == {i \in 0 .. n : answer[i] = f[i]}
  <2> HIDE DEF answer
  <2>1. good \in SUBSET (0 .. n) /\ 0 \in good
    BY <1>1, <1>6, <1>10 DEF IsRun
  <2>2. ASSUME NEW i \in 1 .. n, i - 1 \in good PROVE i \in good
    BY <1>1, <1>7, <1>10, <2>2
  <2> HIDE DEF good
  <2>3. \A i \in 0 .. n : i \in good
    BY <1>1, <2>1, <2>2, UpTo
  <2>4. QED
    BY <2>3 DEF good
<1>12. WordsOf(lines) = answer[n]
  BY DEF WordsOf, loop, next1, n
<1>13. WordsOf(lines) = f[n]
  BY <1>1, <1>11, <1>12
<1>14. IsLoop(f, lines)
  BY <1>6, <1>7 DEF IsLoop, IsRun, next1, n
<1>15. QED
  BY <1>13, <1>14 DEF n

(* The loop picks words of the lines and keeps their order ...             *)
Rising(lines) ==
  \A i, j \in 1 .. Len(lines) :
    i < j /\ lines[i][1] > 0 /\ lines[j][1] > 0 => lines[i][2] < lines[j][2]

(* WordsOf picks the words of the lines, in their order.                   *)
LEMMA Picked ==
  ASSUME NEW lines \in Seq(Lines), Rising(lines)
  PROVE  /\ WordsOf(lines) \in Seq(Lines)
         /\ \A a \in 1 .. Len(WordsOf(lines)) :
              /\ IsWord(WordsOf(lines)[a])
              /\ \E b \in 1 .. Len(lines) : WordsOf(lines)[a] = lines[b]
         /\ Rising(WordsOf(lines))
<1> DEFINE n == Len(lines)
           From(words, i) ==
             \A a \in 1 .. Len(words) :
               IsWord(words[a]) /\ \E b \in 1 .. i : words[a] = lines[b]
<1>1. n \in Nat /\ \A i \in 1 .. n : lines[i] \in Lines
  OBVIOUS
<1>2. PICK f : IsLoop(f, lines) /\ WordsOf(lines) = f[n]
  BY LoopEnds
<1> DEFINE good == {i \in 0 .. n : From(f[i], i) /\ Rising(f[i])}
<1>3. f \in [0 .. n -> Seq(Lines)]
  BY <1>2 DEF IsLoop
<1>4. 0 \in good
  <2>1. Len(f[0]) = 0
    BY <1>2 DEF IsLoop
  <2>2. QED
    BY <1>1, <2>1 DEF Rising
<1>5. ASSUME NEW i \in 1 .. n, i - 1 \in good PROVE i \in good
  <2> DEFINE words == f[i - 1]
             e     == lines[i]
             k     == Len(words)
  <2>1. i - 1 \in 0 .. n /\ words \in Seq(Lines) /\ e \in Lines /\ k \in Nat
    BY <1>1, <1>3
  <2>2. From(words, i - 1) /\ Rising(words)
    BY <1>5
  <2>3. From(words, i)
    <3> HIDE DEF words
    <3>1. \A b \in 1 .. i - 1 : b \in 1 .. i
      BY <1>1
    <3>2. QED
      BY <2>2, <3>1
  <2>4. CASE ~IsWord(e)
    <3>1. f[i] = words
      BY <1>2, <2>4 DEF IsLoop
    <3>2. QED
      BY <2>2, <2>3, <3>1
  <2>5. CASE IsWord(e)
    <3>1. f[i] = Append(words, e)
      BY <1>2, <2>5 DEF IsLoop
    <3>2. /\ Len(f[i]) = k + 1
          /\ \A a \in 1 .. k : f[i][a] = words[a]
          /\ f[i][k + 1] = e
      BY <2>1, <3>1
    <3>3. \A a \in 1 .. k + 1 : a \in 1 .. k \/ a = k + 1
      BY <2>1
    <3> HIDE DEF k, words, e
    <3>4. From(f[i], i)
      <4>1. \A a \in 1 .. k : IsWord(f[i][a]) /\ \E b \in 1 .. i : f[i][a] = lines[b]
        BY <2>3, <3>2 DEF k
      <4>2. IsWord(f[i][k + 1]) /\ \E b \in 1 .. i : f[i][k + 1] = lines[b]
        BY <1>1, <2>5, <3>2 DEF e
      <4>3. QED
        BY <3>2, <3>3, <4>1, <4>2
    <3>5. \A a \in 1 .. k : words[a][2] < e[2]
      <4> SUFFICES ASSUME NEW a \in 1 .. k PROVE words[a][2] < e[2]
        OBVIOUS
      <4>1. PICK b \in 1 .. i - 1 : words[a] = lines[b]
        BY <2>2 DEF k
      <4>2. IsWord(words[a])
        BY <2>2 DEF k
      <4>3. b \in 1 .. n /\ i \in 1 .. n /\ b < i
        BY <1>1
      <4>4. lines[b][1] > 0 /\ lines[i][1] > 0
        BY <2>5, <4>1, <4>2 DEF IsWord, e
      <4>5. QED
        BY <4>1, <4>3, <4>4 DEF Rising, e
    <3>6. Rising(f[i])
      <4> SUFFICES ASSUME NEW a \in 1 .. k + 1, NEW c \in 1 .. k + 1, a < c,
                          f[i][a][1] > 0, f[i][c][1] > 0
                   PROVE  f[i][a][2] < f[i][c][2]
        BY <3>2 DEF Rising
      <4>1. a \in 1 .. k
        BY <2>1
      <4>2. CASE c = k + 1
        BY <3>2, <3>5, <4>1, <4>2
      <4>3. CASE c \in 1 .. k
        BY <2>2, <3>2, <4>1, <4>3 DEF Rising, k
      <4>4. QED
        BY <3>3, <4>2, <4>3
    <3>7. QED
      BY <1>1, <3>4, <3>6
  <2>6. QED
    BY <2>4, <2>5
<1>6. n \in good
  <2>1. good \in SUBSET (0 .. n)
    OBVIOUS
  <2> HIDE DEF good, n
  <2>2. \A i \in 0 .. n : i \in good
    BY <1>1, <1>4, <1>5, <2>1, UpTo
  <2>3. QED
    BY <1>1, <2>2
<1>7. QED
  BY <1>1, <1>2, <1>3, <1>6

(* ... and picks all of them if every line is one.                         *)
LEMMA AllPicked ==
  ASSUME NEW lines \in Seq(Lines), \A i \in 1 .. Len(lines) : IsWord(lines[i])
  PROVE  WordsOf(lines) = lines
<1> DEFINE n == Len(lines)
<1>1. n \in Nat /\ \A i \in 1 .. n : lines[i] \in Lines
  OBVIOUS
<1>2. PICK f : IsLoop(f, lines) /\ WordsOf(lines) = f[n]
  BY LoopEnds
<1> DEFINE good == {i \in 0 .. n : Len(f[i]) = i /\ \A a \in 1 .. i : f[i][a] = lines[a]}
<1>3. f \in [0 .. n -> Seq(Lines)]
  BY <1>2 DEF IsLoop
<1>4. 0 \in good
  <2>1. Len(f[0]) = 0
    BY <1>2 DEF IsLoop
  <2>2. QED
    BY <1>1, <2>1
<1>5. ASSUME NEW i \in 1 .. n, i - 1 \in good PROVE i \in good
  <2> DEFINE words == f[i - 1]
  <2>1. words \in Seq(Lines) /\ lines[i] \in Lines
    BY <1>1, <1>3
  <2>2. Len(words) = i - 1 /\ \A a \in 1 .. i - 1 : words[a] = lines[a]
    BY <1>5
  <2>3. f[i] = Append(words, lines[i])
    BY <1>2 DEF IsLoop
  <2> HIDE DEF words
  <2>4. Len(f[i]) = i /\ \A a \in 1 .. i - 1 : f[i][a] = words[a]
    BY <2>1, <2>2, <2>3
  <2>5. f[i][i] = lines[i]
    BY <2>1, <2>2, <2>3
  <2>6. \A a \in 1 .. i : f[i][a] = lines[a]
    BY <2>2, <2>4, <2>5
  <2>7. QED
    BY <2>4, <2>6
<1>6. n \in good
  <2>1. good \in SUBSET (0 .. n)
    OBVIOUS
  <2> HIDE DEF good, n
  <2>2. \A i \in 0 .. n : i \in good
    BY <1>1, <1>4, <1>5, <2>1, UpTo
  <2>3. QED
    BY <1>1, <2>2
<1>7. f[n] \in Seq(Lines) /\ Len(f[n]) = n /\ \A a \in 1 .. n : f[n][a] = lines[a]
  BY <1>1, <1>3, <1>6
<1>8. QED
  BY <1>2, <1>7

-----------------------------------------------------------------------------
(***************************************************************************)
(* The inductive invariant of the words' way.  What was emitted and not    *)
(* lost comes, in order, first among the lines the gateway has written and *)
(* then among those it has not; only a run that was started emits ...      *)
(***************************************************************************)
Event(e, last) == e = Other \/ \E k \in 1 .. last : e = Word(1, k)

InOrder ==
  /\ \A i \in 1 .. Len(copied) : Event(copied[i], sent)
  /\ \A j \in 1 .. Len(body) : Event(body[j], sent)
  /\ Rising(copied) /\ Rising(body)
  /\ \A i \in 1 .. Len(copied), j \in 1 .. Len(body) :
       copied[i][1] > 0 /\ body[j][1] > 0 => copied[i][2] < body[j][2]
  /\ api = "agent" => sent = 0
  /\ api = "emit" => sent <= Words
  /\ sent > 0 \/ api \in {"agent", "emit"} => runs >= 1

(* ... the route shows nothing before it is done, and then one run's words *)
(* ...                                                                     *)
ShownOnce ==
  /\ route # "done" => shown = <<>>
  /\ chat = "none" => chatRun = 0
  /\ chat # "none" => chatRun \in 1 .. runs
  /\ OneRunsWords

(* ... a run that came to an answer was started, and one that is still     *)
(* under way has not answered ...                                          *)
RunsCounted ==
  /\ answers + (IF api = "agent" THEN 1 ELSE 0) + (IF chat = "agent" THEN 1 ELSE 0) <= runs
  /\ entries <= answers

(* ... and if nothing has gone wrong, nothing has been lost.               *)
Undisturbed == trouble = {} /\ token = "valid"

NothingLost ==
  Undisturbed =>
    /\ gw \in {"admit", "stream", "ended"} /\ route \in {"go", "done"} /\ chat = "none"
    /\ gw = "admit" => api = "none" /\ runs = 0 /\ copied = <<>> /\ body = <<>>
    /\ gw # "admit" => api \in {"agent", "emit", "ended"} /\ runs = 1
    /\ api \in {"none", "agent"} => sent = 0 /\ answers = 0 /\ entries = 0
    /\ api \in {"emit", "ended"} => answers = 1 /\ entries = 1
    /\ api = "ended" <=> sent = Words + 1
    /\ gw = "stream" => Len(copied) + Len(body) = sent
    /\ gw = "ended" => api = "ended" /\ Len(copied) \in {Words, Words + 1}
    /\ \A i \in 1 .. Len(copied) : copied[i] = Word(1, i)
    /\ \A j \in 1 .. Len(body) : body[j] = Word(1, Len(copied) + j)
    /\ route = "done" => status = 200 /\ shown = Answer(1) /\ runs = 1 /\ entries = 1

WInv == TypeOK /\ IInv /\ InOrder /\ ShownOnce /\ RunsCounted /\ NothingLost

(* Nothing is shown to begin with.                                         *)
LEMMA InitWInv == Init => WInv
<1> SUFFICES ASSUME Init PROVE WInv
  OBVIOUS
<1> USE PathAssumption DEF Init
<1>1. TypeOK
  <2>1. /\ shown \in Seq((1 .. 2) \X (1 .. Words))
        /\ copied \in Seq((0 .. 2) \X (0 .. Words + 1))
        /\ body \in Seq((0 .. 2) \X (0 .. Words + 1))
    OBVIOUS
  <2>2. QED
    BY <2>1 DEF TypeOK
<1>2. InOrder
  <2>1. Len(copied) = 0 /\ Len(body) = 0
    OBVIOUS
  <2>2. QED
    BY <2>1 DEF InOrder, Rising
<1>3. NothingLost
  <2>1. Len(copied) = 0 /\ Len(body) = 0
    OBVIOUS
  <2>2. QED
    BY <2>1 DEF NothingLost
<1>4. ShownOnce /\ RunsCounted
  BY DEF ShownOnce, OneRunsWords, RunsCounted
<1>5. QED
  BY InitIInv, <1>1, <1>2, <1>3, <1>4 DEF WInv

(* Writing a line, taking the first one and keeping the first m.           *)
LEMMA Queue ==
  ASSUME NEW S, NEW q \in Seq(S)
  PROVE  /\ Len(q) \in Nat
         /\ \A i \in 1 .. Len(q) : q[i] \in S
         /\ \A e \in S :
              /\ Append(q, e) \in Seq(S)
              /\ Len(Append(q, e)) = Len(q) + 1
              /\ \A i \in 1 .. Len(q) : Append(q, e)[i] = q[i]
              /\ Append(q, e)[Len(q) + 1] = e
         /\ q # <<>> =>
              /\ Len(q) >= 1
              /\ Head(q) = q[1]
              /\ Head(q) \in S
              /\ Tail(q) \in Seq(S)
              /\ Len(Tail(q)) = Len(q) - 1
              /\ \A i \in 1 .. Len(q) - 1 : Tail(q)[i] = q[i + 1]
         /\ \A m \in 0 .. Len(q) :
              /\ SubSeq(q, 1, m) \in Seq(S)
              /\ Len(SubSeq(q, 1, m)) = m
              /\ \A i \in 1 .. m : SubSeq(q, 1, m)[i] = q[i]
<1>1. Len(q) \in Nat /\ \A i \in 1 .. Len(q) : q[i] \in S
  OBVIOUS
<1>2. ASSUME NEW e \in S
      PROVE  /\ Append(q, e) \in Seq(S)
             /\ Len(Append(q, e)) = Len(q) + 1
             /\ \A i \in 1 .. Len(q) : Append(q, e)[i] = q[i]
             /\ Append(q, e)[Len(q) + 1] = e
  OBVIOUS
<1>3. ASSUME q # <<>>
      PROVE  /\ Len(q) >= 1
             /\ Head(q) = q[1]
             /\ Head(q) \in S
             /\ Tail(q) \in Seq(S)
             /\ Len(Tail(q)) = Len(q) - 1
             /\ \A i \in 1 .. Len(q) - 1 : Tail(q)[i] = q[i + 1]
  BY <1>3
<1>4. ASSUME NEW m \in 0 .. Len(q)
      PROVE  /\ SubSeq(q, 1, m) \in Seq(S)
             /\ Len(SubSeq(q, 1, m)) = m
             /\ \A i \in 1 .. m : SubSeq(q, 1, m)[i] = q[i]
  BY <1>1
<1>5. QED
  BY <1>1, <1>2, <1>3, <1>4

(* The answers and what the route makes of the lines are words.            *)
LEMMA ShownTypes ==
  /\ \A n \in 1 .. 2 : Answer(n) \in Seq((1 .. 2) \X (1 .. Words))
  /\ TypeOK /\ InOrder => Parsed(copied) \in Seq((1 .. 2) \X (1 .. Words))
<1> USE PathAssumption
<1>1. ASSUME NEW n \in 1 .. 2 PROVE Answer(n) \in Seq((1 .. 2) \X (1 .. Words))
  BY DEF Answer, Word
<1>2. ASSUME TypeOK, InOrder PROVE WordsOf(copied) \in Seq((1 .. 2) \X (1 .. Words))
  <2> DEFINE words == WordsOf(copied)
  <2>1. copied \in Seq(Lines) /\ Rising(copied)
    BY <1>2 DEF TypeOK, InOrder, Lines
  <2>2. /\ words \in Seq(Lines)
        /\ \A a \in 1 .. Len(words) :
             IsWord(words[a]) /\ \E b \in 1 .. Len(copied) : words[a] = copied[b]
    BY <2>1, Picked
  <2> HIDE DEF words
  <2>3. ASSUME NEW a \in 1 .. Len(words) PROVE words[a] \in (1 .. 2) \X (1 .. Words)
    <3>1. PICK b \in 1 .. Len(copied) : words[a] = copied[b]
      BY <2>2
    <3>2. Event(copied[b], sent) /\ IsWord(copied[b])
      BY <1>2, <2>2, <3>1 DEF InOrder
    <3>3. PICK k \in 1 .. sent : copied[b] = <<1, k>>
      BY <3>2 DEF Event, IsWord, Other, Word
    <3>4. k \in 1 .. Words
      BY <1>2, <3>2, <3>3 DEF IsWord, TypeOK
    <3>5. QED
      BY <3>1, <3>3, <3>4
  <2>4. Len(words) \in Nat /\ words \in [1 .. Len(words) -> Lines]
    BY <2>2
  <2>5. words \in [1 .. Len(words) -> (1 .. 2) \X (1 .. Words)]
    BY <2>3, <2>4
  <2>6. words \in Seq((1 .. 2) \X (1 .. Words))
    BY <2>4, <2>5
  <2>7. QED
    BY <2>6 DEF words
<1>3. QED
  BY <1>1, <1>2 DEF Parsed

(* Every step keeps the types.                                             *)
LEMMA TypesKept == WInv /\ [Next]_vars => TypeOK'
<1> SUFFICES ASSUME WInv, [Next]_vars PROVE TypeOK'
  OBVIOUS
<1> USE PathAssumption DEF envVars, routeVars, gwVars, apiVars, chatVars, runVars, AllWell, Happens
<1>1. TypeOK /\ InOrder /\ IInv' /\ RunsCounted /\ ShownOnce
  BY NextIInv DEF WInv
<1>2. Other \in (0 .. 2) \X (0 .. Words + 1)
  BY DEF Other
<1>3. CASE Gateway
  <2>1. CASE GwForwards
    BY <1>1, <2>1 DEF GwForwards, TypeOK, IInv, Taken, FallbackAsked
  <2>2. CASE ApiTurnsAway
    <3>1. body' \in Seq((0 .. 2) \X (0 .. Words + 1))
      BY <1>1, <1>2, <2>2 DEF ApiTurnsAway, TypeOK
    <3>2. QED
      BY <1>1, <2>2, <3>1 DEF ApiTurnsAway, TypeOK
  <2>3. CASE GwCopies
    <3>1. /\ body' \in Seq((0 .. 2) \X (0 .. Words + 1))
          /\ copied' \in Seq((0 .. 2) \X (0 .. Words + 1))
      BY <1>1, <2>3 DEF GwCopies, Copyable, TypeOK
    <3>2. QED
      BY <1>1, <2>3, <3>1 DEF GwCopies, TypeOK
  <2>4. CASE GwFinishes
    BY <1>1, <2>4 DEF GwFinishes, TypeOK
  <2>5. QED
    BY <1>3, <2>1, <2>2, <2>3, <2>4 DEF Gateway
<1>4. CASE AgentAnswers \/ ChatAgentAnswers
  <2>1. /\ UNCHANGED <<envVars, routeVars, gwVars, sent, body, chatRun, runs>>
        /\ api' \in {api, "emit"} /\ chat' \in {chat, "answered"}
        /\ answers' = answers + 1
        /\ entries' \in {entries, entries + 1}
        /\ trouble' \in {trouble, trouble \cup {"redisDown"}}
        /\ trouble' # trouble => "redisDown" \in Troubles
    BY <1>4 DEF AgentAnswers, ChatAgentAnswers, Pushes
  <2>2. answers + 1 <= runs
    BY <1>1, <1>4 DEF AgentAnswers, ChatAgentAnswers, RunsCounted, TypeOK
  <2>3. answers' \in 0 .. runs' /\ entries' \in 0 .. answers'
    BY <1>1, <2>1, <2>2 DEF TypeOK
  <2>4. trouble' \subseteq Troubles
    BY <1>1, <2>1 DEF TypeOK
  <2>5. QED
    BY <1>1, <2>1, <2>3, <2>4 DEF TypeOK
<1>5. CASE Emits
  <2>1. sent + 1 \in 0 .. Words + 1
    BY <1>1, <1>5 DEF Emits, TypeOK, InOrder
  <2>2. Word(1, sent + 1) \in (0 .. 2) \X (0 .. Words + 1)
    BY <2>1 DEF Word
  <2>3. body' \in Seq((0 .. 2) \X (0 .. Words + 1))
    BY <1>1, <1>5, <2>2 DEF Emits, TypeOK
  <2>4. QED
    BY <1>1, <1>5, <2>1, <2>3 DEF Emits, TypeOK
<1>6. CASE Route
  <2>1. CASE GoAnswers
    <3>1. shown' \in Seq((1 .. 2) \X (1 .. Words))
      BY <1>1, <2>1, ShownTypes DEF GoAnswers, Responds
    <3>2. QED
      BY <1>1, <2>1, <3>1 DEF GoAnswers, Responds, TypeOK
  <2>2. CASE FallsBack
    BY <1>1, <2>2 DEF FallsBack, TypeOK
  <2>3. CASE ChatAccepts
    BY <1>1, <2>3 DEF ChatAccepts, TypeOK, IInv, Taken, FallbackAsked
  <2>4. CASE ChatUnauthorized
    BY <1>1, <2>4 DEF ChatUnauthorized, Responds, TypeOK
  <2>5. CASE PythonAnswers
    <3>1. chat # "none" => chatRun \in 1 .. 2
      BY <1>1 DEF ShownOnce, TypeOK
    <3>2. shown' \in {<<>>, Answer(chatRun)} /\ chat # "none"
      BY <2>5 DEF PythonAnswers, Responds
    <3>3. shown' \in Seq((1 .. 2) \X (1 .. Words))
      <4>1. <<>> \in Seq((1 .. 2) \X (1 .. Words))
        OBVIOUS
      <4>2. Answer(chatRun) \in Seq((1 .. 2) \X (1 .. Words))
        BY <3>1, <3>2, ShownTypes
      <4>3. QED
        BY <3>2, <4>1, <4>2
    <3>4. QED
      BY <1>1, <2>5, <3>3 DEF PythonAnswers, Responds, TypeOK
  <2>6. QED
    BY <1>6, <2>1, <2>2, <2>3, <2>4, <2>5 DEF Route
<1>7. CASE Failure
  <2>1. CASE GwRefuses \/ GwTimesOut \/ GwDies
    BY <1>1, <2>1 DEF GwRefuses, GwTimesOut, GwDies, TypeOK
  <2>2. CASE GwReportsError
    <3>1. copied' \in Seq((0 .. 2) \X (0 .. Words + 1))
      BY <1>1, <1>2, <2>2 DEF GwReportsError, TypeOK
    <3>2. QED
      BY <1>1, <2>2, <3>1 DEF GwReportsError, TypeOK
  <2>3. CASE PingRaces
    <3>1. body' \in Seq((0 .. 2) \X (0 .. Words + 1))
      BY <1>1, <2>3 DEF PingRaces, Copyable, TypeOK
    <3>2. QED
      BY <1>1, <2>3, <3>1 DEF PingRaces, TypeOK
  <2>4. CASE AgentFails
    <3>1. body' \in Seq((0 .. 2) \X (0 .. Words + 1))
      BY <1>1, <1>2, <2>4 DEF AgentFails, TypeOK
    <3>2. QED
      BY <1>1, <2>4, <3>1 DEF AgentFails, TypeOK
  <2>5. CASE ApiDies
    <3>1. body' \in Seq((0 .. 2) \X (0 .. Words + 1))
      BY <1>1, <2>5, Queue DEF ApiDies, TypeOK
    <3>2. QED
      BY <1>1, <2>5, <3>1 DEF ApiDies, TypeOK
  <2>6. CASE ChatTurnsAway
    BY <1>1, <2>6 DEF ChatTurnsAway, Responds, TypeOK
  <2>7. CASE ChatFails
    BY <1>1, <2>7 DEF ChatFails, TypeOK
  <2>8. QED
    BY <1>7, <2>1, <2>2, <2>3, <2>4, <2>5, <2>6, <2>7 DEF Failure
<1>8. CASE UNCHANGED vars
  BY <1>1, <1>8 DEF vars, TypeOK
<1>9. QED
  BY <1>3, <1>4, <1>5, <1>6, <1>7, <1>8 DEF Next, Api, Chat

(* Every step keeps the events in order.                                   *)
LEMMA OrderKept == WInv /\ [Next]_vars => InOrder'
<1> SUFFICES ASSUME WInv, [Next]_vars PROVE InOrder'
  OBVIOUS
<1> USE PathAssumption DEF envVars, routeVars, gwVars, apiVars, chatVars, runVars
<1>1. TypeOK /\ InOrder /\ IInv
  BY DEF WInv
<1>2. /\ sent \in Nat /\ runs \in Nat
      /\ copied \in Seq(Lines) /\ body \in Seq(Lines)
  BY <1>1 DEF TypeOK, Lines
<1>3. ASSUME UNCHANGED <<copied, body, sent>>, runs' \in {runs, runs + 1},
             api' = "agent" => api = "agent" \/ runs = 0,
             api' = "emit" => api = "emit" \/ sent = 0,
             api' \in {"agent", "emit"} => api \in {"agent", "emit"} \/ runs' >= 1
      PROVE  InOrder'
  <2>1. (sent > 0 \/ api \in {"agent", "emit"} => runs >= 1)'
    BY <1>1, <1>2, <1>3 DEF InOrder
  <2>2. (api = "agent" => sent = 0)' /\ (api = "emit" => sent <= Words)'
    BY <1>1, <1>2, <1>3 DEF InOrder, IInv
  <2>3. QED
    BY <1>1, <1>3, <2>1, <2>2 DEF InOrder
(* A line that is no event may come last of either queue.                  *)
<1>4. ASSUME UNCHANGED <<copied, sent, runs>>, body' = Append(body, Other),
             api' \notin {"agent", "emit"}
      PROVE  InOrder'
  <2> DEFINE n == Len(body)
  <2>1. Other \in Lines
    BY DEF Other, Lines
  <2>2. /\ n \in Nat
        /\ Len(body') = n + 1
        /\ \A i \in 1 .. n : body'[i] = body[i]
        /\ body'[n + 1] = Other
    BY <1>2, <1>4, <2>1, Queue
  <2>3. \A i \in 1 .. n + 1 : i \in 1 .. n \/ i = n + 1
    BY <2>2
  <2>4. \A i \in 1 .. n + 1 : body'[i] = Other \/ (i \in 1 .. n /\ body'[i] = body[i])
    BY <2>2, <2>3
  <2>5. Other[1] = 0
    BY DEF Other
  <2> HIDE DEF n
  <2>6. Rising(body')
    BY <1>1, <2>2, <2>4, <2>5 DEF InOrder, Rising, n
  <2>7. \A j \in 1 .. n + 1 : Event(body'[j], sent)
    BY <1>1, <2>4 DEF InOrder, Event, n
  <2>8. \A i \in 1 .. Len(copied), j \in 1 .. n + 1 :
          copied[i][1] > 0 /\ body'[j][1] > 0 => copied[i][2] < body'[j][2]
    BY <1>1, <2>4, <2>5 DEF InOrder, n
  <2>9. QED
    BY <1>1, <1>4, <2>2, <2>6, <2>7, <2>8 DEF InOrder, Event
<1>5. CASE GwReportsError
  <2> DEFINE n == Len(copied)
  <2>1. Other \in Lines /\ Other[1] = 0
    BY DEF Other, Lines
  <2>2. /\ n \in Nat
        /\ Len(copied') = n + 1
        /\ \A i \in 1 .. n : copied'[i] = copied[i]
        /\ copied'[n + 1] = Other
    BY <1>2, <1>5, <2>1, Queue DEF GwReportsError
  <2>3. \A i \in 1 .. n + 1 : copied'[i] = Other \/ (i \in 1 .. n /\ copied'[i] = copied[i])
    BY <2>2
  <2>4. UNCHANGED <<body, sent, api, runs>>
    BY <1>5 DEF GwReportsError
  <2> HIDE DEF n
  <2>5. Rising(copied')
    BY <1>1, <2>1, <2>2, <2>3 DEF InOrder, Rising, n
  <2>6. \A i \in 1 .. n + 1 : Event(copied'[i], sent)
    BY <1>1, <2>3 DEF InOrder, Event, n
  <2>7. \A i \in 1 .. n + 1, j \in 1 .. Len(body) :
          copied'[i][1] > 0 /\ body[j][1] > 0 => copied'[i][2] < body[j][2]
    BY <1>1, <2>1, <2>3 DEF InOrder, n
  <2>8. QED
    BY <1>1, <2>2, <2>4, <2>5, <2>6, <2>7 DEF InOrder, Event
(* The first line of body is lost, or moves to the end of copied.          *)
<1>6. ASSUME body # <<>>, body' = Tail(body), UNCHANGED <<sent, runs, api>>
      PROVE  /\ Rising(body')
             /\ \A j \in 1 .. Len(body') : Event(body'[j], sent)
             /\ Len(body') = Len(body) - 1
             /\ \A j \in 1 .. Len(body) - 1 : body'[j] = body[j + 1] /\ j + 1 \in 1 .. Len(body)
             /\ Head(body) = body[1] /\ 1 \in 1 .. Len(body)
  <2>1. /\ Len(body) \in Nat /\ Len(body) >= 1
        /\ Len(body') = Len(body) - 1
        /\ \A j \in 1 .. Len(body) - 1 : body'[j] = body[j + 1]
        /\ Head(body) = body[1]
    BY <1>2, <1>6, Queue
  <2>2. \A j \in 1 .. Len(body) - 1 : j + 1 \in 1 .. Len(body)
    BY <2>1
  <2>3. Rising(body')
    <3>1. \A i, j \in 1 .. Len(body) - 1 : i < j => i + 1 < j + 1
      BY <2>1
    <3>2. QED
      BY <1>1, <2>1, <2>2, <3>1 DEF InOrder, Rising
  <2>4. QED
    BY <1>1, <2>1, <2>2, <2>3 DEF InOrder, Event
<1>7. CASE GwCopies
  <2> DEFINE n == Len(copied)
  <2>0. body # <<>> /\ body' = Tail(body) /\ UNCHANGED <<sent, runs, api>>
        /\ copied' = Append(copied, Head(body))
    BY <1>7 DEF GwCopies, Copyable
  <2>1. Head(body) \in Lines
    BY <1>2, <2>0, Queue
  <2>2. /\ n \in Nat
        /\ Len(copied') = n + 1
        /\ \A i \in 1 .. n : copied'[i] = copied[i]
        /\ copied'[n + 1] = body[1]
    BY <1>2, <1>6, <2>0, <2>1, Queue
  <2>3. \A i \in 1 .. n + 1 : i \in 1 .. n \/ i = n + 1
    BY <2>2
  <2> HIDE DEF n
  <2>4. \A i \in 1 .. n + 1 : Event(copied'[i], sent)
    BY <1>1, <1>6, <2>0, <2>2, <2>3 DEF InOrder, Event, n
  <2>5. Rising(copied')
    <3> SUFFICES ASSUME NEW i \in 1 .. n + 1, NEW j \in 1 .. n + 1, i < j,
                        copied'[i][1] > 0, copied'[j][1] > 0
                 PROVE  copied'[i][2] < copied'[j][2]
      BY <2>2 DEF Rising
    <3>1. i \in 1 .. n
      BY <2>2
    <3>2. CASE j = n + 1
      BY <1>1, <1>6, <2>0, <2>2, <3>1, <3>2 DEF InOrder, n
    <3>3. CASE j \in 1 .. n
      BY <1>1, <2>2, <3>1, <3>3 DEF InOrder, Rising, n
    <3>4. QED
      BY <2>3, <3>2, <3>3
  <2>6. ASSUME NEW i \in 1 .. n + 1, NEW j \in 1 .. Len(body) - 1,
               copied'[i][1] > 0, body'[j][1] > 0
        PROVE  copied'[i][2] < body'[j][2]
    <3>1. body'[j] = body[j + 1] /\ j + 1 \in 1 .. Len(body) /\ 1 \in 1 .. Len(body) /\ 1 < j + 1
      BY <1>6, <2>0
    <3>2. CASE i = n + 1
      BY <1>1, <2>2, <2>6, <3>1, <3>2 DEF InOrder, Rising
    <3>3. CASE i \in 1 .. n
      BY <1>1, <2>2, <2>6, <3>1, <3>3 DEF InOrder, n
    <3>4. QED
      BY <2>3, <3>2, <3>3
  <2>7. QED
    BY <1>1, <1>6, <2>0, <2>2, <2>4, <2>5, <2>6 DEF InOrder, Event
<1>8. CASE PingRaces
  <2>1. body # <<>> /\ body' = Tail(body) /\ UNCHANGED <<sent, runs, api, copied>>
    BY <1>8 DEF PingRaces, Copyable
  <2>2. ASSUME NEW i \in 1 .. Len(copied), NEW j \in 1 .. Len(body) - 1,
               copied[i][1] > 0, body'[j][1] > 0
        PROVE  copied[i][2] < body'[j][2]
    BY <1>1, <1>6, <2>1, <2>2 DEF InOrder
  <2>3. QED
    BY <1>1, <1>6, <2>1, <2>2 DEF InOrder, Event
<1>9. CASE Emits
  <2> DEFINE n == Len(body)
             e == Word(1, sent + 1)
  <2>1. sent <= Words /\ sent' = sent + 1 /\ UNCHANGED <<copied, runs>> /\ runs >= 1
    BY <1>1, <1>2, <1>9 DEF Emits, InOrder
  <2>2. e \in Lines /\ e = <<1, sent + 1>>
    BY <1>2, <2>1 DEF Word, Lines
  <2>3. \A x : Event(x, sent) => Event(x, sent') /\ (x[1] > 0 => x[2] < e[2])
    BY <1>2, <2>1, <2>2 DEF Event, Word, Other
  <2>4. Event(e, sent')
    BY <1>2, <2>1, <2>2 DEF Event, Word
  <2>5. api' = "emit" => sent' <= Words
    BY <1>2, <1>9, <2>1 DEF Emits
  <2>6. CASE body' = body
    BY <1>1, <1>9, <2>1, <2>3, <2>5, <2>6 DEF InOrder, Emits
  <2>7. CASE body' = Append(body, e)
    <3>1. /\ n \in Nat
          /\ Len(body') = n + 1
          /\ \A i \in 1 .. n : body'[i] = body[i]
          /\ body'[n + 1] = e
      BY <1>2, <2>2, <2>7, Queue
    <3>2. \A i \in 1 .. n + 1 : i \in 1 .. n \/ i = n + 1
      BY <3>1
    <3> HIDE DEF n, e
    <3>3. \A j \in 1 .. n + 1 : Event(body'[j], sent')
      BY <1>1, <2>3, <2>4, <3>1, <3>2 DEF InOrder, n
    <3>4. Rising(body')
      <4> SUFFICES ASSUME NEW i \in 1 .. n + 1, NEW j \in 1 .. n + 1, i < j,
                          body'[i][1] > 0, body'[j][1] > 0
                   PROVE  body'[i][2] < body'[j][2]
        BY <3>1 DEF Rising
      <4>1. i \in 1 .. n
        BY <3>1
      <4>2. CASE j = n + 1
        BY <1>1, <2>3, <3>1, <4>1, <4>2 DEF InOrder, n
      <4>3. CASE j \in 1 .. n
        BY <1>1, <3>1, <4>1, <4>3 DEF InOrder, Rising, n
      <4>4. QED
        BY <3>2, <4>2, <4>3
    <3>5. ASSUME NEW i \in 1 .. Len(copied), NEW j \in 1 .. n + 1,
                 copied[i][1] > 0, body'[j][1] > 0
          PROVE  copied[i][2] < body'[j][2]
      <4>1. CASE j = n + 1
        BY <1>1, <2>3, <3>1, <3>5, <4>1 DEF InOrder
      <4>2. CASE j \in 1 .. n
        BY <1>1, <3>1, <3>5, <4>2 DEF InOrder, n
      <4>3. QED
        BY <3>2, <4>1, <4>2
    <3>6. \A i \in 1 .. Len(copied) : Event(copied[i], sent')
      BY <1>1, <2>3 DEF InOrder
    <3>7. QED
      BY <1>1, <1>9, <2>1, <2>5, <3>1, <3>3, <3>4, <3>5, <3>6 DEF InOrder, Emits
  <2>8. QED
    BY <1>9, <2>6, <2>7 DEF Emits
<1>10. CASE ApiDies
  <2>1. PICK m \in 0 .. Len(body) : body' = SubSeq(body, 1, m)
    BY <1>10 DEF ApiDies
  <2>2. UNCHANGED <<copied, sent, runs>> /\ api' = "broken"
    BY <1>10 DEF ApiDies
  <2>3. Len(body') = m /\ \A i \in 1 .. m : body'[i] = body[i] /\ i \in 1 .. Len(body)
    BY <1>2, <2>1, Queue
  <2>4. QED
    BY <1>1, <2>2, <2>3 DEF InOrder, Event, Rising
<1>11. CASE ApiTurnsAway
  BY <1>4, <1>11 DEF ApiTurnsAway
<1>12. CASE AgentFails
  BY <1>4, <1>12 DEF AgentFails
<1>13. CASE \/ GwForwards \/ GwFinishes \/ AgentAnswers \/ Chat
            \/ GoAnswers \/ FallsBack \/ ChatAccepts \/ ChatUnauthorized \/ PythonAnswers
            \/ GwRefuses \/ GwTimesOut \/ GwDies \/ ChatTurnsAway \/ ChatFails \/ UNCHANGED vars
  <2>1. UNCHANGED <<copied, body, sent>> /\ runs' \in {runs, runs + 1}
    BY <1>13 DEF GwForwards, GwFinishes, AgentAnswers, Chat, ChatAgentAnswers, GoAnswers,
         FallsBack, ChatAccepts, ChatUnauthorized, PythonAnswers, GwRefuses, GwTimesOut,
         GwDies, ChatTurnsAway, ChatFails, Responds, vars
  <2>2. /\ api' = "agent" => api = "agent" \/ runs = 0
        /\ api' = "emit" => api = "emit" \/ sent = 0
        /\ api' \in {"agent", "emit"} => api \in {"agent", "emit"} \/ runs' >= 1
    BY <1>2, <1>1, <1>13 DEF InOrder, IInv, GwForwards, GwFinishes, AgentAnswers, Chat,
         ChatAgentAnswers, GoAnswers, FallsBack, ChatAccepts, ChatUnauthorized,
         PythonAnswers, GwRefuses, GwTimesOut, GwDies, ChatTurnsAway, ChatFails, Responds, vars
  <2>3. QED
    BY <1>3, <2>1, <2>2
<1>14. QED
  BY <1>5, <1>7, <1>8, <1>9, <1>10, <1>11, <1>12, <1>13
     DEF Next, Gateway, Api, Route, Failure

(* What callViaGo shows are words of the first run, in order.              *)
LEMMA ParsedInOrder ==
  ASSUME TypeOK, InOrder, Parsed(copied) # <<>>
  PROVE  /\ runs >= 1
         /\ \A i \in 1 .. Len(Parsed(copied)) : Parsed(copied)[i][1] = 1
         /\ \A i, j \in 1 .. Len(Parsed(copied)) :
              i < j => Parsed(copied)[i][2] < Parsed(copied)[j][2]
<1> USE PathAssumption
<1>1. copied \in Seq(Lines) /\ Rising(copied) /\ sent \in Nat
  BY DEF TypeOK, InOrder, Lines
<1>2. \A e : Event(e, sent) /\ e # Other => sent > 0 /\ e[1] = 1
  BY <1>1 DEF Event, Word
<1>3. CASE \E i \in 1 .. Len(copied) : copied[i] = DoneOf(1)
  <2>1. Parsed(copied) = Answer(1)
    BY <1>3 DEF Parsed
  <2>2. DoneOf(1) # Other
    BY DEF DoneOf, Other
  <2>3. runs >= 1
    BY <1>2, <1>3, <2>2 DEF InOrder
  <2>4. Len(Answer(1)) = Words /\ \A i \in 1 .. Words : Answer(1)[i] = <<1, i>>
    BY DEF Answer, Word
  <2>5. QED
    BY <2>1, <2>3, <2>4
<1>4. CASE ~ \E i \in 1 .. Len(copied) : copied[i] = DoneOf(1)
  <2> DEFINE words == WordsOf(copied)
  <2>1. Parsed(copied) = words
    BY <1>4 DEF Parsed
  <2>2. /\ words \in Seq(Lines)
        /\ \A a \in 1 .. Len(words) :
             IsWord(words[a]) /\ \E b \in 1 .. Len(copied) : words[a] = copied[b]
        /\ Rising(words)
    BY <1>1, Picked
  <2> HIDE DEF words
  <2>3. ASSUME NEW a \in 1 .. Len(words) PROVE sent > 0 /\ words[a][1] = 1
    <3>1. PICK b \in 1 .. Len(copied) : words[a] = copied[b]
      BY <2>2
    <3>2. Event(copied[b], sent) /\ IsWord(copied[b])
      BY <2>2, <3>1 DEF InOrder
    <3>3. copied[b] # Other
      BY <3>2 DEF IsWord, Other
    <3>4. QED
      BY <1>2, <3>1, <3>2, <3>3
  <2>4. Len(words) >= 1
    BY <2>1, <2>2
  <2>5. runs >= 1
    BY <2>2, <2>3, <2>4 DEF InOrder
  <2>6. \A i, j \in 1 .. Len(words) : i < j => words[i][2] < words[j][2]
    BY <2>2, <2>3 DEF Rising
  <2>7. QED
    BY <2>1, <2>3, <2>5, <2>6
<1>5. QED
  BY <1>3, <1>4

(* Every step keeps what is shown to one run's words.                      *)
LEMMA ShownKept == WInv /\ [Next]_vars => ShownOnce'
<1> SUFFICES ASSUME WInv, [Next]_vars PROVE ShownOnce'
  OBVIOUS
<1> USE PathAssumption DEF envVars, routeVars, gwVars, apiVars, chatVars, runVars
<1>1. TypeOK /\ InOrder /\ IInv /\ ShownOnce
  BY DEF WInv
<1>2. ASSUME UNCHANGED <<shown, chatRun>>, runs' \in {runs, runs + 1}
      PROVE  OneRunsWords'
  <2>1. CASE shown = <<>>
    BY <1>2, <2>1 DEF OneRunsWords
  <2>2. CASE shown # <<>>
    <3>1. PICK n \in 1 .. runs :
            /\ \A i \in 1 .. Len(shown) : shown[i][1] = n
            /\ \A i, j \in 1 .. Len(shown) : i < j => shown[i][2] < shown[j][2]
            /\ chatRun = n => shown = Answer(n)
      BY <1>1, <2>2 DEF ShownOnce, OneRunsWords
    <3>2. n \in 1 .. runs'
      BY <1>1, <1>2 DEF TypeOK
    <3>3. QED
      BY <1>2, <3>1, <3>2 DEF OneRunsWords
  <2>3. QED
    BY <2>1, <2>2
<1>3. CASE GoAnswers
  <2>1. shown' = Parsed(copied) /\ UNCHANGED <<chat, chatRun, runs>> /\ chat = "none"
    BY <1>1, <1>3 DEF GoAnswers, Responds, IInv, FallbackAsked
  <2>2. OneRunsWords'
    <3> DEFINE words == Parsed(copied)
    <3>1. CASE words = <<>>
      BY <2>1, <3>1 DEF OneRunsWords
    <3>2. CASE words # <<>>
      <4>1. /\ runs >= 1
            /\ \A i \in 1 .. Len(words) : words[i][1] = 1
            /\ \A i, j \in 1 .. Len(words) : i < j => words[i][2] < words[j][2]
        BY <1>1, <3>2, ParsedInOrder
      <4> HIDE DEF words
      <4>2. 1 \in 1 .. runs' /\ chatRun' = 0
        BY <1>1, <2>1, <4>1 DEF TypeOK, ShownOnce
      <4>3. shown' = words
        BY <2>1 DEF words
      <4>4. QED
        BY <4>1, <4>2, <4>3 DEF OneRunsWords
    <3>3. QED
      BY <3>1, <3>2
  <2>3. QED
    BY <1>1, <1>3, <2>1, <2>2 DEF ShownOnce, GoAnswers, Responds
<1>4. CASE PythonAnswers
  <2>1. UNCHANGED <<chat, chatRun, runs>> /\ route' = "done"
        /\ chat # "none" /\ shown' \in {<<>>, Answer(chatRun)}
    BY <1>4 DEF PythonAnswers, Responds
  <2>2. chatRun \in 1 .. runs
    BY <1>1, <2>1 DEF ShownOnce
  <2>3. \A n : Len(Answer(n)) = Words /\ \A i \in 1 .. Words : Answer(n)[i] = <<n, i>>
    BY DEF Answer, Word
  <2>4. CASE shown' = Answer(chatRun)
    <3>1. /\ \A i \in 1 .. Len(shown') : shown'[i][1] = chatRun
          /\ \A i, j \in 1 .. Len(shown') : i < j => shown'[i][2] < shown'[j][2]
      BY <2>3, <2>4
    <3>2. OneRunsWords'
      BY <2>1, <2>2, <2>4, <3>1 DEF OneRunsWords
    <3>3. QED
      BY <1>1, <2>1, <3>2 DEF ShownOnce
  <2>5. CASE shown' = <<>>
    BY <1>1, <2>1, <2>5 DEF ShownOnce, OneRunsWords
  <2>6. QED
    BY <2>1, <2>4, <2>5
<1>5. CASE ChatUnauthorized \/ ChatTurnsAway
  BY <1>1, <1>5 DEF ChatUnauthorized, ChatTurnsAway, Responds, ShownOnce, OneRunsWords
<1>6. CASE ChatAccepts
  <2>1. shown = <<>> /\ UNCHANGED shown
    BY <1>1, <1>6 DEF ChatAccepts, ShownOnce
  <2>2. chatRun' \in 1 .. runs' /\ chat' = "agent" /\ route' = route
    BY <1>1, <1>6 DEF ChatAccepts, TypeOK
  <2>3. QED
    BY <1>1, <2>1, <2>2 DEF ShownOnce, OneRunsWords
<1>7. CASE \/ Gateway \/ Api \/ Chat \/ FallsBack
           \/ GwRefuses \/ GwReportsError \/ PingRaces \/ GwTimesOut \/ GwDies
           \/ AgentFails \/ ApiDies \/ ChatFails \/ UNCHANGED vars
  <2>1. /\ UNCHANGED <<shown, chatRun>> /\ runs' \in {runs, runs + 1}
        /\ chat' = "none" <=> chat = "none"
        /\ route' # "done" => route # "done"
    BY <1>7 DEF Gateway, GwForwards, ApiTurnsAway, GwCopies, GwFinishes, Api, AgentAnswers,
         Emits, Chat, ChatAgentAnswers, FallsBack, GwRefuses, GwReportsError, PingRaces,
         GwTimesOut, GwDies, AgentFails, ApiDies, ChatFails, vars
  <2>2. chatRun \in 1 .. runs => chatRun' \in 1 .. runs'
    BY <1>1, <2>1 DEF TypeOK
  <2>3. QED
    BY <1>1, <1>2, <2>1, <2>2 DEF ShownOnce
<1>8. QED
  BY <1>3, <1>4, <1>5, <1>6, <1>7 DEF Next, Route, Failure

(* Every step keeps the count of runs and answers.                         *)
LEMMA CountKept == WInv /\ [Next]_vars => RunsCounted'
<1> SUFFICES ASSUME WInv, [Next]_vars PROVE RunsCounted'
  OBVIOUS
<1> USE DEF envVars, routeVars, gwVars, apiVars, chatVars, runVars
<1>1. /\ runs \in Nat /\ answers \in Nat /\ entries \in Nat /\ RunsCounted
  BY DEF WInv, TypeOK
<1>2. CASE GwForwards
  BY <1>1, <1>2 DEF GwForwards, RunsCounted
<1>3. CASE AgentAnswers
  BY <1>1, <1>3 DEF AgentAnswers, Pushes, RunsCounted
<1>4. CASE ChatAgentAnswers
  BY <1>1, <1>4 DEF ChatAgentAnswers, Pushes, RunsCounted
<1>5. CASE ChatAccepts
  BY <1>1, <1>5 DEF ChatAccepts, RunsCounted
<1>6. CASE \/ ApiTurnsAway \/ GwCopies \/ GwFinishes \/ Emits \/ GoAnswers \/ FallsBack
           \/ ChatUnauthorized \/ PythonAnswers \/ Failure \/ UNCHANGED vars
  <2>1. /\ UNCHANGED <<runs, answers, entries>>
        /\ api' = "agent" => api = "agent"
        /\ chat' = "agent" => chat = "agent"
    BY <1>6 DEF ApiTurnsAway, GwCopies, GwFinishes, Emits, GoAnswers, FallsBack,
         ChatUnauthorized, PythonAnswers, Responds, Failure, GwRefuses, GwReportsError,
         PingRaces, GwTimesOut, GwDies, AgentFails, ApiDies, ChatTurnsAway, ChatFails, vars
  <2>2. QED
    BY <1>1, <2>1 DEF RunsCounted
<1>7. QED
  BY <1>2, <1>3, <1>4, <1>5, <1>6 DEF Next, Gateway, Api, Chat, Route

(***************************************************************************)
(* As long as nothing goes wrong, nothing is lost on the way.              *)
(***************************************************************************)
LEMMA WholeAnswerParsed ==
  ASSUME copied \in Seq(Lines), Len(copied) \in {Words, Words + 1},
         \A i \in 1 .. Len(copied) : copied[i] = Word(1, i)
  PROVE  Parsed(copied) = Answer(1)
<1> USE PathAssumption
<1>1. CASE Len(copied) = Words + 1
  <2>1. Words + 1 \in 1 .. Len(copied) /\ copied[Words + 1] = DoneOf(1)
    BY <1>1 DEF Word, DoneOf
  <2>2. QED
    BY <2>1 DEF Parsed
<1>2. CASE Len(copied) = Words
  <2>1. \A i \in 1 .. Len(copied) : IsWord(copied[i])
    BY <1>2 DEF IsWord, Word
  <2>2. WordsOf(copied) = copied
    BY <2>1, AllPicked
  <2>3. copied = Answer(1)
    BY <1>2 DEF Answer
  <2>4. QED
    BY <2>2, <2>3 DEF Parsed
<1>3. QED
  BY <1>1, <1>2

(* No step loses a word of an undisturbed answer.                          *)
LEMMA LossKept == WInv /\ [Next]_vars => NothingLost'
<1> SUFFICES ASSUME WInv, [Next]_vars, Undisturbed' PROVE NothingLost'
  BY DEF NothingLost
<1> USE PathAssumption DEF envVars, routeVars, gwVars, apiVars, chatVars, runVars
<1>1. /\ TypeOK /\ InOrder
      /\ sent \in 0 .. Words + 1
      /\ copied \in Seq(Lines) /\ body \in Seq(Lines)
      /\ Len(copied) \in Nat /\ Len(body) \in Nat
  BY DEF WInv, TypeOK, Lines
<1>2. Undisturbed /\ trouble' = trouble
  <2>1. token' = token
    BY DEF Next, Gateway, GwForwards, ApiTurnsAway, GwCopies, GwFinishes, Api, AgentAnswers,
       Emits, Chat, ChatAgentAnswers, Route, GoAnswers, FallsBack, ChatAccepts,
       ChatUnauthorized, PythonAnswers, Failure, GwRefuses, GwReportsError, PingRaces,
       GwTimesOut, GwDies, AgentFails, ApiDies, ChatTurnsAway, ChatFails, vars
  <2>2. trouble \subseteq trouble'
    BY DEF Next, Gateway, GwForwards, ApiTurnsAway, GwCopies, GwFinishes, Api, AgentAnswers,
       Emits, Chat, ChatAgentAnswers, Route, GoAnswers, FallsBack, ChatAccepts,
       ChatUnauthorized, PythonAnswers, Failure, GwRefuses, GwReportsError, PingRaces,
       GwTimesOut, GwDies, AgentFails, ApiDies, ChatTurnsAway, ChatFails, vars, Pushes,
       AllWell, Happens
  <2>3. QED
    BY <2>1, <2>2 DEF Undisturbed
<1>3. trouble = {} /\ trouble' = {} /\ token = "valid"
  BY <1>2 DEF Undisturbed
<1>4. ~ \E kind : Happens(kind)
  BY <1>3 DEF Happens
<1>5. /\ gw \in {"admit", "stream", "ended"} /\ route \in {"go", "done"} /\ chat = "none"
      /\ gw = "admit" => api = "none" /\ runs = 0 /\ copied = <<>> /\ body = <<>>
      /\ gw # "admit" => api \in {"agent", "emit", "ended"} /\ runs = 1
      /\ api \in {"none", "agent"} => sent = 0 /\ answers = 0 /\ entries = 0
      /\ api \in {"emit", "ended"} => answers = 1 /\ entries = 1
      /\ api = "ended" <=> sent = Words + 1
      /\ gw = "stream" => Len(copied) + Len(body) = sent
      /\ gw = "ended" => api = "ended" /\ Len(copied) \in {Words, Words + 1}
      /\ \A i \in 1 .. Len(copied) : copied[i] = Word(1, i)
      /\ \A j \in 1 .. Len(body) : body[j] = Word(1, Len(copied) + j)
      /\ route = "done" => status = 200 /\ shown = Answer(1) /\ runs = 1 /\ entries = 1
  BY <1>2 DEF WInv, NothingLost
<1>6. CASE GwForwards
  <2>1. Len(copied) = 0 /\ Len(body) = 0 /\ sent = 0 /\ gw = "admit" /\ route = "go"
    BY <1>5, <1>6 DEF GwForwards
  <2>2. QED
    BY <1>5, <1>6, <2>1 DEF GwForwards, NothingLost
<1>7. CASE GwCopies
  <2> DEFINE n == Len(copied)
             m == Len(body)
  <2>1. gw = "stream" /\ body # <<>> /\ body' = Tail(body) /\ copied' = Append(copied, Head(body))
        /\ UNCHANGED <<envVars, routeVars, gw, api, sent, chatVars, runVars>>
    BY <1>7 DEF GwCopies, Copyable
  <2>2. /\ m >= 1 /\ Len(body') = m - 1 /\ Head(body) = body[1] /\ Head(body) \in Lines
        /\ \A j \in 1 .. m - 1 : body'[j] = body[j + 1]
    BY <1>1, <2>1, Queue
  <2>3. /\ Len(copied') = n + 1
        /\ \A i \in 1 .. n : copied'[i] = copied[i]
        /\ copied'[n + 1] = body[1]
    BY <1>1, <2>1, <2>2, Queue
  <2>4. body[1] = Word(1, n + 1)
    BY <1>1, <1>5, <2>2
  <2>5. \A i \in 1 .. n + 1 : copied'[i] = Word(1, i)
    BY <1>1, <1>5, <2>3, <2>4
  <2>6. \A j \in 1 .. m - 1 : body'[j] = Word(1, (n + 1) + j)
    <3> SUFFICES ASSUME NEW j \in 1 .. m - 1 PROVE body'[j] = Word(1, (n + 1) + j)
      OBVIOUS
    <3>1. j + 1 \in 1 .. m /\ n + (j + 1) = (n + 1) + j
      BY <1>1
    <3>2. QED
      BY <1>5, <2>2, <3>1
  <2>7. Len(copied') + Len(body') = sent
    <3>1. n + m = sent
      BY <1>5, <2>1
    <3>2. Len(copied') = n + 1 /\ Len(body') = m - 1
      BY <2>2, <2>3
    <3>3. n \in Nat /\ m \in Nat
      BY <1>1
    <3> HIDE DEF n, m
    <3>4. QED
      BY <3>1, <3>2, <3>3
  <2> HIDE DEF n, m
  <2>8. QED
    BY <1>5, <2>1, <2>2, <2>3, <2>5, <2>6, <2>7 DEF NothingLost
<1>8. CASE GwFinishes
  <2>1. Len(copied) \in {Words, Words + 1} /\ api = "ended"
    <3>1. CASE body = <<>>
      <4>1. Len(body) = 0 /\ api = "ended"
        BY <1>5, <1>8, <3>1 DEF GwFinishes
      <4>2. QED
        BY <1>1, <1>5, <1>8, <4>1 DEF GwFinishes
    <3>2. CASE body # <<>>
      <4>1. Head(body)[2] = Words + 1
        BY <1>8, <3>2 DEF GwFinishes, Copyable
      <4>2. Len(body) >= 1 /\ Head(body) = body[1]
        BY <1>1, <3>2, Queue
      <4>3. Head(body) = <<1, Len(copied) + 1>>
        BY <1>1, <1>5, <4>2 DEF Word
      <4>4. Len(copied) = Words
        BY <1>1, <4>1, <4>3
      <4>5. sent = Words + 1
        BY <1>1, <1>5, <1>8, <4>2, <4>4 DEF GwFinishes
      <4>6. QED
        BY <1>5, <4>4, <4>5
    <3>3. QED
      BY <3>1, <3>2
  <2>2. gw = "stream" /\ gw' = "ended"
        /\ UNCHANGED <<envVars, routeVars, copied, apiVars, chatVars, runVars>>
    BY <1>8 DEF GwFinishes
  <2>3. QED
    BY <1>5, <2>1, <2>2 DEF NothingLost
<1>9. CASE AgentAnswers
  <2>1. entries' = 1 /\ answers' = 1 /\ api' = "emit" /\ sent = 0
        /\ UNCHANGED <<envVars, routeVars, gwVars, sent, body, chatVars, runs>>
        /\ api = "agent"
    BY <1>4, <1>5, <1>9 DEF AgentAnswers, Pushes
  <2>2. route = "go"
    BY <1>5, <2>1
  <2>3. QED
    BY <1>5, <2>1, <2>2 DEF NothingLost
<1>10. CASE Emits
  <2> DEFINE m == Len(body)
             e == Word(1, sent + 1)
  <2>1. /\ api = "emit" /\ gw = "stream" /\ sent <= Words
        /\ sent' = sent + 1 /\ body' = Append(body, e)
        /\ api' = IF sent = Words THEN "ended" ELSE "emit"
        /\ UNCHANGED <<envVars, routeVars, gwVars, chatVars, runVars>>
    BY <1>1, <1>5, <1>10 DEF Emits, InOrder
  <2>2. e \in Lines
    BY <1>1, <2>1 DEF Word, Lines
  <2>3. /\ Len(body') = m + 1
        /\ \A j \in 1 .. m : body'[j] = body[j]
        /\ body'[m + 1] = Word(1, Len(copied) + (m + 1))
    <3>1. Len(copied) + (m + 1) = sent + 1
      BY <1>1, <1>5, <2>1
    <3>2. QED
      BY <1>1, <2>1, <2>2, <3>1, Queue
  <2>4. \A j \in 1 .. m + 1 : body'[j] = Word(1, Len(copied) + j)
    BY <1>1, <1>5, <2>3
  <2>5. Len(copied) + Len(body') = sent'
    BY <1>1, <1>5, <2>1, <2>3
  <2>6. api' = "ended" <=> sent' = Words + 1
    BY <1>1, <2>1
  <2> HIDE DEF m, e
  <2>7. QED
    BY <1>5, <2>1, <2>3, <2>4, <2>5, <2>6 DEF NothingLost
<1>11. CASE GoAnswers
  <2>1. shown' = Parsed(copied) /\ status' = 200 /\ route' = "done" /\ gw = "ended"
        /\ UNCHANGED <<envVars, gwVars, apiVars, chatVars, runVars>>
    BY <1>11 DEF GoAnswers, Responds
  <2>2. Parsed(copied) = Answer(1)
    BY <1>1, <1>5, <2>1, WholeAnswerParsed
  <2>3. QED
    BY <1>5, <2>1, <2>2 DEF NothingLost
<1>12. CASE ApiTurnsAway
  BY <1>3, <1>4, <1>12 DEF ApiTurnsAway
<1>13. CASE Chat \/ FallsBack \/ ChatAccepts \/ ChatUnauthorized \/ PythonAnswers
  BY <1>5, <1>13 DEF Chat, ChatAgentAnswers, FallsBack, ChatAccepts, ChatUnauthorized, PythonAnswers
<1>14. CASE Failure
  BY <1>3, <1>4, <1>5, <1>14 DEF Failure, GwRefuses, GwReportsError, PingRaces, GwTimesOut,
     GwDies, AgentFails, ApiDies, ChatTurnsAway, ChatFails
<1>15. CASE UNCHANGED vars
  BY <1>5, <1>15 DEF vars, NothingLost
<1>16. QED
  BY <1>6, <1>7, <1>8, <1>9, <1>10, <1>11, <1>12, <1>13, <1>14, <1>15
     DEF Next, Gateway, Api, Route

(* Every step keeps the invariant of the words.                            *)
LEMMA NextWInv == WInv /\ [Next]_vars => WInv'
  BY TypesKept, NextIInv, OrderKept, ShownKept, CountKept, LossKept DEF WInv

(***************************************************************************)
(* The variables of the chat path keep their types: in particular no       *)
(* question runs the agent a third time, and no run is answered or         *)
(* recorded twice.                                                         *)
(***************************************************************************)
THEOREM TypeCorrect == Spec => []TypeOK
<1>1. WInv => TypeOK
  BY DEF WInv
<1>2. QED
  BY InitWInv, NextWInv, <1>1, PTL DEF Spec

(***************************************************************************)
(* Whatever fails, what the browser shows are words of one run of the      *)
(* agent, in order (callViaGo's loop, the gateway's copying, the           *)
(* fallback).                                                              *)
(***************************************************************************)
THEOREM ShownIsOneRuns == Spec => []OneRunsWords
<1>1. WInv => OneRunsWords
  BY DEF WInv, ShownOnce
<1>2. QED
  BY InitWInv, NextWInv, <1>1, PTL DEF Spec

(***************************************************************************)
(* If nothing goes wrong, the browser shows the whole answer and the       *)
(* history holds it, though the gateway drops a done event whose line is   *)
(* too long for its scanner.                                               *)
(***************************************************************************)
THEOREM WholeAnswerShown == Spec => []UndisturbedAnswerShown
<1>1. WInv => UndisturbedAnswerShown
  BY DEF WInv, NothingLost, Undisturbed, UndisturbedAnswerShown
<1>2. QED
  BY InitWInv, NextWInv, <1>1, PTL DEF Spec
=============================================================================
