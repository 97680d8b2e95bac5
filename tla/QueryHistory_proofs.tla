------------------------ MODULE QueryHistory_proofs -------------------------
(***************************************************************************)
(* Proofs about the history: of the Redis list, whose pushes may overlap   *)
(* each other and DELETEs, command by command; and of what the tabs show,  *)
(* for any number of tabs, questions, loads and clears.                    *)
(***************************************************************************)
EXTENDS QueryHistory, FiniteSetTheorems, SequenceTheorems, TLAPS

Untrimmed == {q \in Questions : push[q] = "pushed"}

(* Every entry above MaxList has a push that will still trim, and a list   *)
(* without a time to live has one that will still set it.                  *)
IInv ==
  /\ now \in [Sources -> 0 .. MaxTime] /\ asked \in 0 .. MaxQuestions
  /\ push \in [Questions -> {"no", "pushed", "trimmed", "ended"}]
  /\ cut \in BOOLEAN /\ list \in Seq(Items)
  /\ ~cut => /\ Len(list) <= MaxList + Cardinality(Untrimmed)
             /\ list # <<>> => \/ expires
                               \/ \E q \in Questions : push[q] \in {"pushed", "trimmed"}
  /\ \A q \in Questions : q > asked => push[q] = "no"

(* A source's clock goes forward, the other one stands still.              *)
LEMMA ClockAdvances ==
  ASSUME now \in [Sources -> 0 .. MaxTime], NEW source \in Sources, TimePasses(source)
  PROVE  /\ now' \in [Sources -> 0 .. MaxTime] /\ now'[source] \in 0 .. MaxTime
         /\ \A s \in Sources : now[s] <= now'[s]
<1>1. PICK ts \in now[source] .. MaxTime : now' = [now EXCEPT ![source] = ts]
  BY DEF TimePasses
<1>2. now[source] \in 0 .. MaxTime /\ MaxTime \in Nat
  BY HistoryAssumption
<1>3. ts \in 0 .. MaxTime /\ now[source] <= ts
  BY <1>2
<1>4. \A s \in Sources : now'[s] = (IF s = source THEN ts ELSE now[s]) /\ now[s] \in 0 .. MaxTime
  BY <1>1
<1>5. QED
  BY <1>1, <1>3, <1>4

(* The pushes yet to trim can be counted.                                  *)
LEMMA UntrimmedFinite == IsFiniteSet(Untrimmed) /\ Cardinality(Untrimmed) \in Nat
<1>1. IsFiniteSet(Questions)
  BY FS_Interval, HistoryAssumption DEF Questions
<1>2. QED
  BY <1>1, FS_Subset, FS_CardinalityType DEF Untrimmed

(* What LTRIM leaves: a list no longer than it was told.                   *)
LEMMA FirstOfProperties ==
  ASSUME NEW s \in Seq(Items), NEW n \in Nat
  PROVE  /\ FirstOf(s, n) \in Seq(Items) /\ Len(FirstOf(s, n)) <= n
         /\ \A i \in DOMAIN FirstOf(s, n) :
              i \in DOMAIN s /\ i \in Nat /\ FirstOf(s, n)[i] = s[i]
<1> DEFINE m == IF Len(s) < n THEN Len(s) ELSE n
<1>1. m \in 0 .. Len(s) /\ m <= n
  OBVIOUS
<1>2. \A i \in 1 .. m : s[i] \in Items
  BY <1>1
<1>3. /\ SubSeq(s, 1, m) \in Seq(Items) /\ Len(SubSeq(s, 1, m)) = m
      /\ \A i \in 1 .. m : SubSeq(s, 1, m)[i] = s[i]
  <2> HIDE DEF m
  <2>1. QED
    BY <1>1, <1>2, SubSeqProperties
<1>4. FirstOf(s, n) = SubSeq(s, 1, m)
  BY DEF FirstOf
<1> HIDE DEF m
<1>5. QED
  BY <1>1, <1>3, <1>4

(* The list is empty to begin with.                                        *)
LEMMA InitIInv == Init => IInv
<1> SUFFICES ASSUME Init PROVE IInv
  OBVIOUS
<1>1. Cardinality(Untrimmed) \in Nat
  BY UntrimmedFinite
<1>2. list = <<>> /\ Len(list) = 0
  BY DEF Init
<1>3. Len(list) <= MaxList + Cardinality(Untrimmed)
  BY <1>1, <1>2, HistoryAssumption
<1>4. list \in Seq(Items)
  BY <1>2
<1>5. /\ now \in [Sources -> 0 .. MaxTime] /\ asked \in 0 .. MaxQuestions
      /\ push \in [Questions -> {"no", "pushed", "trimmed", "ended"}]
      /\ \A q \in Questions : q > asked => push[q] = "no"
  BY HistoryAssumption DEF Init
<1>6. cut \in BOOLEAN
  BY Zenon DEF Init
<1>7. QED
  BY <1>2, <1>3, <1>4, <1>5, <1>6, Zenon DEF IInv

(* A question answered: its push is under way, or was cut short at once.   *)
LEMMA AnswerIInv ==
  ASSUME IInv, NEW t \in Tabs, Pushes(t) \/ PushesNothing(t)
  PROVE  IInv'
<1> USE HistoryAssumption
<1> DEFINE q == asked + 1
<1>1. /\ q \in Questions /\ asked' = q /\ push[q] = "no"
      /\ now' \in [Sources -> 0 .. MaxTime] /\ now'["server"] \in 0 .. MaxTime
  <2>1. TimePasses("server") /\ now \in [Sources -> 0 .. MaxTime] /\ "server" \in Sources
    BY DEF IInv, Pushes, PushesNothing, Answered, Sources
  <2>2. q \in Questions /\ asked' = q /\ push[q] = "no"
    BY DEF IInv, Pushes, PushesNothing, Answered, Questions
  <2>3. QED
    BY <2>1, <2>2, ClockAdvances
<1>2. CASE Pushes(t)
  <2> DEFINE item == [q |-> q, source |-> "server", ts |-> now'["server"]]
  <2>1. /\ push' = [push EXCEPT ![q] = "pushed"] /\ list' = <<item>> \o list
        /\ UNCHANGED <<cut, expires>>
    BY <1>1, <1>2 DEF Pushes, Answered
  <2>2. item \in Items
    BY <1>1 DEF Items, Sources, IInv
  <2>3. list' \in Seq(Items) /\ Len(list') = Len(list) + 1
    BY <2>1, <2>2 DEF IInv
  <2>4. Untrimmed' = Untrimmed \cup {q} /\ q \notin Untrimmed
    BY <1>1, <2>1 DEF Untrimmed, IInv
  <2>5. Cardinality(Untrimmed') = Cardinality(Untrimmed) + 1
    BY <2>4, UntrimmedFinite, FS_AddElement
  <2>8. Len(list) \in Nat /\ Cardinality(Untrimmed) \in Nat
    BY UntrimmedFinite DEF IInv
  <2>9. ~cut' => Len(list') <= MaxList + Cardinality(Untrimmed')
    BY <2>1, <2>3, <2>5, <2>8 DEF IInv
  <2>10. push'[q] = "pushed"
    BY <1>1, <2>1 DEF IInv
  <2>11. push' \in [Questions -> {"no", "pushed", "trimmed", "ended"}]
    BY <1>1, <2>1 DEF IInv
  <2>12. \A r \in Questions : r > asked' => push'[r] = "no"
    BY <1>1, <2>1 DEF IInv, Questions
  <2>13. now' \in [Sources -> 0 .. MaxTime] /\ asked' \in 0 .. MaxQuestions
    BY <1>1 DEF IInv, Questions
  <2>14. QED
    BY <1>1, <2>1, <2>3, <2>9, <2>10, <2>11, <2>12, <2>13 DEF IInv
<1>3. CASE PushesNothing(t)
  <2>1. push' = [push EXCEPT ![q] = "ended"] /\ list' = list /\ cut' = TRUE
    BY <1>1, <1>3 DEF PushesNothing, Answered
  <2>2. \A r \in Questions : r > asked' => push'[r] = "no"
    BY <1>1, <2>1 DEF IInv, Questions
  <2>3. QED
    BY <1>1, <2>1, <2>2 DEF IInv, Questions
<1>4. QED
  BY <1>2, <1>3

(* The commands of a push that follow LPUSH.                               *)
LEMMA PushIInv ==
  ASSUME IInv, NEW q \in Questions, Trims(q) \/ Expires(q) \/ PushFails(q)
  PROVE  IInv'
<1> USE HistoryAssumption
<1>1. now' = now /\ asked' = asked
  BY DEF Trims, Expires, PushFails
<1>2. CASE Trims(q)
  <2>1. /\ push[q] = "pushed" /\ push' = [push EXCEPT ![q] = "trimmed"]
        /\ list' = FirstOf(list, MaxList) /\ cut' = cut
    BY <1>2 DEF Trims
  <2>2. list' \in Seq(Items) /\ Len(list') <= MaxList
    BY <2>1, FirstOfProperties DEF IInv
  <2>3. Len(list') \in Nat /\ Cardinality(Untrimmed)' \in Nat
    <3>1. Untrimmed' \subseteq Untrimmed
      BY <2>1 DEF Untrimmed, IInv
    <3>2. QED
      BY <2>2, <3>1, UntrimmedFinite, FS_Subset, FS_CardinalityType
  <2>4. Len(list') <= MaxList + Cardinality(Untrimmed)'
    BY <2>2, <2>3
  <2>5. push'[q] = "trimmed" /\ push' \in [Questions -> {"no", "pushed", "trimmed", "ended"}]
    BY <2>1 DEF IInv
  <2>6. \A r \in Questions : r > asked' => push'[r] = "no"
    BY <1>1, <2>1 DEF IInv
  <2>7. QED
    BY <1>1, <2>1, <2>2, <2>4, <2>5, <2>6 DEF IInv
<1>3. CASE Expires(q)
  <2>1. /\ push[q] = "trimmed" /\ push' = [push EXCEPT ![q] = "ended"]
        /\ list' = list /\ cut' = cut /\ expires' = (list # <<>>)
    BY <1>3 DEF Expires
  <2>2. Untrimmed' = Untrimmed
    BY <2>1 DEF Untrimmed, IInv
  <2>3. push' \in [Questions -> {"no", "pushed", "trimmed", "ended"}]
    BY <2>1 DEF IInv
  <2>4. \A r \in Questions : r > asked' => push'[r] = "no"
    BY <1>1, <2>1 DEF IInv
  <2>5. QED
    BY <1>1, <2>1, <2>2, <2>3, <2>4 DEF IInv
<1>4. CASE PushFails(q)
  <2>1. push' = [push EXCEPT ![q] = "ended"] /\ list' = list /\ cut' = TRUE /\ push[q] # "no"
    BY <1>4 DEF PushFails
  <2>2. QED
    BY <1>1, <2>1 DEF IInv
<1>5. QED
  BY <1>2, <1>3, <1>4

(* DELETE empties the list, whatever pushes are under way.                 *)
LEMMA DeleteIInv ==
  ASSUME IInv, NEW d \in deletes, DeleteHistory(d)
  PROVE  IInv'
<1>1. list' = <<>> /\ UNCHANGED <<now, asked, push, cut>>
  BY DEF DeleteHistory
<1>2. Untrimmed' = Untrimmed /\ Cardinality(Untrimmed) \in Nat
  BY <1>1, UntrimmedFinite DEF Untrimmed
<1>3. QED
  BY <1>1, <1>2, HistoryAssumption DEF IInv

(* A step that leaves the list and the pushes alone.                       *)
LEMMA OtherIInv ==
  ASSUME IInv, UNCHANGED <<asked, pushVars>>, now' \in [Sources -> 0 .. MaxTime]
  PROVE  IInv'
  BY DEF IInv, pushVars, Untrimmed

(* Every step keeps the list short.                                        *)
LEMMA NextIInv == IInv /\ [Next]_vars => IInv'
<1> SUFFICES ASSUME IInv, [Next]_vars PROVE IInv'
  OBVIOUS
<1> USE HistoryAssumption
<1>1. CASE Api
  BY <1>1, AnswerIInv, PushIInv DEF Api
<1>2. CASE Hook
  <2>1. UNCHANGED <<asked, pushVars>> /\ (UNCHANGED now \/ TimePasses("client"))
    BY <1>2 DEF Hook, AddHistoryItem, StartLoad, ClearHistory, Reload
  <2>2. now' \in [Sources -> 0 .. MaxTime]
    BY <2>1, ClockAdvances DEF IInv, Sources
  <2>3. QED
    BY <2>1, <2>2, OtherIInv
<1>3. CASE Net
  <2>1. CASE \E d \in deletes : DeleteHistory(d)
    BY <2>1, DeleteIInv
  <2>2. CASE \E d \in deletes : DeleteFails(d)
    BY <2>2, OtherIInv DEF DeleteFails, IInv
  <2>3. CASE \E l \in loads : GetHistory(l) \/ FinishLoad(l)
    BY <2>3, OtherIInv DEF GetHistory, FinishLoad, IInv
  <2>4. QED
    BY <1>3, <2>1, <2>2, <2>3 DEF Net
<1>4. CASE UNCHANGED vars
  BY <1>4, OtherIInv DEF vars, IInv
<1>5. QED
  BY <1>1, <1>2, <1>3, <1>4 DEF Next

(***************************************************************************)
(* However pushes and DELETEs overlap, the Redis list is left short and    *)
(* with a time to live (push_history_entry, clear_history).                *)
(***************************************************************************)
THEOREM ListStaysShort == Spec => []ListIsKeptShort
<1>1. IInv => ListIsKeptShort
  <2> SUFFICES ASSUME IInv, ~cut, \A q \in Questions : push[q] \in {"no", "ended"}
               PROVE  Len(list) <= MaxList /\ (list # <<>> => expires)
    BY DEF ListIsKeptShort
  <2>1. Untrimmed = {}
    BY DEF Untrimmed
  <2>2. Cardinality(Untrimmed) = 0
    BY <2>1, FS_EmptySet
  <2>3. ~\E q \in Questions : push[q] \in {"pushed", "trimmed"}
    OBVIOUS
  <2>4. QED
    BY <2>1, <2>2, <2>3, HistoryAssumption DEF IInv
<1>2. QED
  BY InitIInv, NextIInv, <1>1, PTL DEF Spec

-----------------------------------------------------------------------------
(***************************************************************************)
(* Merging.  Newer orders the places of a sequence strictly and totally,   *)
(* so counting the newer ones numbers the places of any set of them.       *)
(***************************************************************************)
Ahead(s, places, i) == {j \in places : Newer(s, j, i)}

(* Newer is a strict, total order of the places of a list.                 *)
LEMMA NewerIsOrder ==
  ASSUME NEW s \in Seq(Items), NEW i \in DOMAIN s, NEW j \in DOMAIN s, NEW k \in DOMAIN s
  PROVE  /\ ~Newer(s, i, i)
         /\ Newer(s, i, j) /\ Newer(s, j, k) => Newer(s, i, k)
         /\ i = j \/ Newer(s, i, j) \/ Newer(s, j, i)
<1>1. /\ s[i].ts \in Nat /\ s[j].ts \in Nat /\ s[k].ts \in Nat
      /\ i \in Nat /\ j \in Nat /\ k \in Nat
  <2>1. s[i] \in Items /\ s[j] \in Items /\ s[k] \in Items
    OBVIOUS
  <2>2. QED
    BY <2>1, HistoryAssumption DEF Items
<1>2. QED
  BY <1>1 DEF Newer

(* Every number below the size of the set numbers one place, and a newer   *)
(* place has a smaller number.                                             *)
LEMMA Numbering ==
  ASSUME NEW s \in Seq(Items), NEW places \in SUBSET DOMAIN s
  PROVE  /\ Cardinality(places) \in Nat
         /\ \A n \in 1 .. Cardinality(places) : \E i \in places :
              Cardinality(Ahead(s, places, i)) = n - 1
         /\ \A i, j \in places :
              Cardinality(Ahead(s, places, i)) < Cardinality(Ahead(s, places, j)) => Newer(s, i, j)
<1> DEFINE size    == Cardinality(places)
           rank(i) == Cardinality(Ahead(s, places, i))
<1>1. IsFiniteSet(places) /\ size \in Nat
  <2>1. IsFiniteSet(DOMAIN s)
    BY FS_Interval
  <2>2. QED
    BY <2>1, FS_Subset, FS_CardinalityType
<1>2. ASSUME NEW i \in places
      PROVE  IsFiniteSet(Ahead(s, places, i)) /\ rank(i) \in 0 .. size - 1
  <2>1. IsFiniteSet(places \ {i}) /\ Cardinality(places \ {i}) = size - 1
    BY <1>1, FS_RemoveElement
  <2>2. Ahead(s, places, i) \subseteq places \ {i}
    BY NewerIsOrder DEF Ahead
  <2>3. QED
    BY <1>1, <2>1, <2>2, FS_Subset, FS_CardinalityType
<1>3. ASSUME NEW i \in places, NEW j \in places, Newer(s, i, j) PROVE rank(i) < rank(j)
  <2>1. Ahead(s, places, i) \cup {i} \subseteq Ahead(s, places, j)
    BY <1>3, NewerIsOrder DEF Ahead
  <2>2. i \notin Ahead(s, places, i)
    BY NewerIsOrder DEF Ahead
  <2>3. Cardinality(Ahead(s, places, i) \cup {i}) = rank(i) + 1
    BY <1>2, <2>2, FS_AddElement
  <2>4. Cardinality(Ahead(s, places, i) \cup {i}) <= rank(j)
    BY <1>2, <2>1, FS_Subset
  <2>5. QED
    BY <1>2, <2>3, <2>4
<1>4. ASSUME NEW i \in places, NEW j \in places, rank(i) < rank(j) PROVE Newer(s, i, j)
  <2>1. i # j
    BY <1>2, <1>4
  <2>2. ~Newer(s, j, i)
    BY <1>2, <1>3, <1>4
  <2>3. QED
    BY <2>1, <2>2, NewerIsOrder
<1>5. ASSUME NEW n \in 1 .. size PROVE \E i \in places : rank(i) = n - 1
  <2> DEFINE f == [i \in places |-> rank(i)]
             T == 0 .. size - 1
  <2>1. f \in [places -> T]
    BY <1>2
  <2>2. \A i, j \in places : f[i] = f[j] => i = j
    <3> SUFFICES ASSUME NEW i \in places, NEW j \in places, rank(i) = rank(j) PROVE i = j
      OBVIOUS
    <3>1. ~Newer(s, i, j) /\ ~Newer(s, j, i)
      BY <1>2, <1>3
    <3>2. QED
      BY <3>1, NewerIsOrder
  <2>3. f \in Injection(places, T)
    BY <2>1, <2>2 DEF Injection, IsInjective
  <2>4. IsFiniteSet(T) /\ Cardinality(T) = size
    <3> HIDE DEF size
    <3>1. 0 \in Int /\ size - 1 \in Int /\ size \in Nat
      BY <1>1
    <3>2. IsFiniteSet(0 .. size - 1)
          /\ Cardinality(0 .. size - 1) = IF 0 > size - 1 THEN 0 ELSE size - 1 - 0 + 1
      BY <3>1, FS_Interval
    <3>3. QED
      BY <3>1, <3>2
  <2>5. f \in Surjection(places, T)
    <3> HIDE DEF f, T
    <3>1. QED
      BY <2>3, <2>4, FS_Injection
  <2>6. n - 1 \in T
    BY <1>1
  <2>7. QED
    BY <2>5, <2>6 DEF Surjection
<1>6. QED
  BY <1>1, <1>4, <1>5

(* Sorting puts the items of the places in order, each once.               *)
LEMMA SortedInOrder ==
  ASSUME NEW s \in Seq(Items), NEW places \in SUBSET DOMAIN s
  PROVE  /\ Sorted(s, places) \in Seq(Items)
         /\ \E place \in [DOMAIN Sorted(s, places) -> places] :
              /\ \A n \in DOMAIN Sorted(s, places) : Sorted(s, places)[n] = s[place[n]]
              /\ \A m, n \in DOMAIN Sorted(s, places) : m < n => Newer(s, place[m], place[n])
<1> DEFINE size  == Cardinality(places)
           place == [n \in 1 .. size |->
                       CHOOSE i \in places : Cardinality(Ahead(s, places, i)) = n - 1]
<1>1. size \in Nat
  BY Numbering
<1>2. ASSUME NEW n \in 1 .. size
      PROVE  place[n] \in places /\ Cardinality(Ahead(s, places, place[n])) = n - 1
  <2>1. \E i \in places : Cardinality(Ahead(s, places, i)) = n - 1
    BY Numbering
  <2>2. QED
    BY <2>1
<1>3. Sorted(s, places) = [n \in 1 .. size |-> s[place[n]]]
  BY DEF Sorted, Ahead
<1>4. \A i \in places : s[i] \in Items
  OBVIOUS
<1>5. ASSUME NEW m \in 1 .. size, NEW n \in 1 .. size, m < n
      PROVE  Newer(s, place[m], place[n])
  <2>1. m - 1 < n - 1
    BY <1>1, <1>5
  <2>2. QED
    BY <1>2, <2>1, Numbering
<1>6. place \in [1 .. size -> places]
  BY <1>2
<1> HIDE DEF place, size
<1>7. DOMAIN Sorted(s, places) = 1 .. size
  BY <1>3
<1>8. Sorted(s, places) \in Seq(Items)
  <2>1. Sorted(s, places) \in [1 .. size -> Items]
    BY <1>2, <1>3, <1>4
  <2>2. QED
    BY <1>1, <2>1
<1>9. QED
  BY <1>3, <1>5, <1>6, <1>7, <1>8

Ordered(s) == \A i, j \in DOMAIN s : i < j => s[i].ts >= s[j].ts

(* loadHistory's merge: items of the two lists, newest first, each once.   *)
LEMMA MergedInOrder ==
  ASSUME NEW a \in Seq(Items), NEW b \in Seq(Items)
  PROVE  /\ Merged(a, b) \in Seq(Items) /\ Len(Merged(a, b)) <= MaxItems
         /\ ToSet(Merged(a, b)) \subseteq ToSet(a) \cup ToSet(b)
         /\ Ordered(Merged(a, b)) /\ IsInjective(Merged(a, b))
<1> DEFINE s      == a \o b
           places == FirstOnes(s)
           all    == Sorted(s, places)
           m      == FirstOf(all, MaxItems)
<1>1. /\ s \in Seq(Items) /\ places \in SUBSET DOMAIN s
      /\ \A i \in DOMAIN s : s[i] \in ToSet(a) \cup ToSet(b) /\ s[i] \in Items /\ i \in Nat
  <2>1. s \in Seq(Items) /\ \A i \in DOMAIN s : s[i] \in ToSet(a) \cup ToSet(b)
    BY ConcatProperties DEF ToSet
  <2>2. QED
    BY <2>1 DEF FirstOnes
<1>2. \A i, j \in places : i < j => s[i] # s[j]
  <2> SUFFICES ASSUME NEW i \in places, NEW j \in places, i < j PROVE s[i] # s[j]
    OBVIOUS
  <2> HIDE DEF s
  <2>1. i \in 1 .. j - 1
    BY <1>1 DEF FirstOnes
  <2>2. ~SameKey(s[i], s[j])
    BY <2>1 DEF FirstOnes
  <2>3. QED
    BY <2>2 DEF SameKey
<1> HIDE DEF s, places
<1>3. all \in Seq(Items)
  BY <1>1, SortedInOrder
<1>4. PICK place \in [DOMAIN all -> places] :
        /\ \A n \in DOMAIN all : all[n] = s[place[n]]
        /\ \A k, n \in DOMAIN all : k < n => Newer(s, place[k], place[n])
  BY <1>1, SortedInOrder
<1> HIDE DEF all
<1>5. /\ m \in Seq(Items) /\ Len(m) <= MaxItems
      /\ \A i \in DOMAIN m : i \in DOMAIN all /\ m[i] = all[i] /\ i \in Nat
  BY <1>3, FirstOfProperties, HistoryAssumption
<1> HIDE DEF m
<1>6. ToSet(m) \subseteq ToSet(a) \cup ToSet(b)
  BY <1>1, <1>4, <1>5 DEF ToSet
<1>7. ASSUME NEW i \in DOMAIN m, NEW j \in DOMAIN m, i < j
      PROVE  m[i].ts >= m[j].ts /\ m[i] # m[j]
  <2>1. /\ place[i] \in places /\ place[j] \in places /\ Newer(s, place[i], place[j])
        /\ m[i] = s[place[i]] /\ m[j] = s[place[j]]
    BY <1>4, <1>5, <1>7
  <2>2. m[i].ts \in Nat /\ m[j].ts \in Nat
    BY <1>1, <2>1, HistoryAssumption DEF Items
  <2>3. m[i].ts >= m[j].ts
    BY <2>1, <2>2 DEF Newer
  <2>4. place[i] # place[j] /\ place[i] \in Nat /\ place[j] \in Nat
    BY <1>1, <2>1, NewerIsOrder
  <2>5. m[i] # m[j]
    BY <1>2, <2>1, <2>4
  <2>6. QED
    BY <2>3, <2>5
<1>8. IsInjective(m)
  BY <1>5, <1>7 DEF IsInjective
<1>9. Merged(a, b) = m
  BY DEF Merged, m, all, places, s
<1>10. QED
  BY <1>5, <1>6, <1>7, <1>8, <1>9 DEF Ordered

-----------------------------------------------------------------------------
(***************************************************************************)
(* Types.                                                                  *)
(***************************************************************************)
(* An item put in front of a list that is cut to n.                        *)
InFront(e, s, r, i) ==
  i \in Nat /\ (i = 1 \/ i - 1 \in DOMAIN s) /\ r[i] = IF i = 1 THEN e ELSE s[i - 1]

(* An item put in front of a list, of which the first n are kept.          *)
LEMMA PutInFront ==
  ASSUME NEW e \in Items, NEW s \in Seq(Items), NEW n \in Nat,
         NEW r, r = FirstOf(<<e>> \o s, n)
  PROVE  /\ r \in Seq(Items) /\ Len(r) <= n /\ ToSet(r) \subseteq {e} \cup ToSet(s)
         /\ \A i \in DOMAIN r : InFront(e, s, r, i)
<1> DEFINE long == <<e>> \o s
<1>1. /\ long \in Seq(Items)
      /\ \A i \in DOMAIN long : (i = 1 \/ i - 1 \in DOMAIN s)
                               /\ long[i] = IF i = 1 THEN e ELSE s[i - 1]
  <2>1. <<e>> \in Seq(Items) /\ Len(<<e>>) = 1 /\ <<e>>[1] = e
    OBVIOUS
  <2>2. QED
    BY <2>1, ConcatProperties
<1> HIDE DEF long
<1>2. /\ FirstOf(long, n) \in Seq(Items) /\ Len(FirstOf(long, n)) <= n
      /\ \A i \in DOMAIN FirstOf(long, n) :
           i \in DOMAIN long /\ i \in Nat /\ FirstOf(long, n)[i] = long[i]
  BY <1>1, FirstOfProperties
<1>3. r = FirstOf(long, n)
  BY DEF long
<1>4. \A i \in DOMAIN r : i \in Nat /\ (i = 1 \/ i - 1 \in DOMAIN s)
                         /\ r[i] = IF i = 1 THEN e ELSE s[i - 1]
  BY <1>1, <1>2, <1>3
<1>5. ToSet(r) \subseteq {e} \cup ToSet(s)
  BY <1>4 DEF ToSet
<1>6. \A i \in DOMAIN r : InFront(e, s, r, i)
  BY <1>4 DEF InFront
<1>7. QED
  BY <1>2, <1>3, <1>5, <1>6

(* The first of a list are of the list.                                    *)
LEMMA FirstOfSet ==
  ASSUME NEW s \in Seq(Items), NEW n \in Nat
  PROVE  ToSet(FirstOf(s, n)) \subseteq ToSet(s)
BY FirstOfProperties DEF ToSet

(* The items that an answer gives rise to.                                 *)
ServerItem(q, time) == [q |-> q, source |-> "server", ts |-> time]
ClientItem(q, time) == [q |-> q, source |-> "client", ts |-> time]

PushTypes ==
  /\ now \in [Sources -> 0 .. MaxTime] /\ asked \in 0 .. MaxQuestions
  /\ asking \in [Tabs -> 0 .. asked]
  /\ push \in [Questions -> {"no", "pushed", "trimmed", "ended"}] /\ cut \in BOOLEAN
  /\ list \in Seq(Items) /\ expires \in BOOLEAN
ViewTypes ==
  /\ state \in [Tabs -> Seq(Items)] /\ \A t \in Tabs : Len(state[t]) <= MaxItems
  /\ recent \in [Tabs -> 0 .. MaxItems]
  /\ storage \in Seq(Items) /\ Len(storage) <= MaxItems
LoadTypes   == loads \subseteq Loads /\ \A l \in loads : Len(l.reply) <= PageSize
DeleteTypes == deletes \subseteq Deletes /\ clears \in 0 .. MaxClears /\ gone \subseteq Items

(* The types, of the pushes, the tabs, the loads and the deletes.          *)
LEMMA TypesInParts == TypeOK <=> PushTypes /\ ViewTypes /\ LoadTypes /\ DeleteTypes
BY DEF TypeOK, PushTypes, ViewTypes, LoadTypes, DeleteTypes

(* The initial values have their types.                                    *)
LEMMA InitTypes == Init => TypeOK
<1> SUFFICES ASSUME Init PROVE TypeOK
  OBVIOUS
<1> USE HistoryAssumption
<1>1. PushTypes
  <2>1. cut \in BOOLEAN /\ expires \in BOOLEAN
    BY Zenon DEF Init
  <2>2. QED
    BY <2>1 DEF Init, PushTypes
<1>2. ViewTypes
  <2>1. <<>> \in Seq(Items) /\ Len(<<>>) = 0
    OBVIOUS
  <2>2. QED
    BY <2>1 DEF Init, ViewTypes
<1>3. LoadTypes /\ DeleteTypes
  BY DEF Init, LoadTypes, DeleteTypes
<1>4. QED
  BY <1>1, <1>2, <1>3, TypesInParts

(* What a merge of a load gives, and what a tab adds.                      *)
LEMMA LoadedLists ==
  ASSUME LoadTypes, NEW l \in loads
  PROVE  /\ l.id \in 1 .. MaxLoads /\ l.tab \in Tabs
         /\ l.local \in Seq(Items) /\ l.reply \in Seq(Items)
BY DEF LoadTypes, Loads

(* A question being asked makes an item of its client.                     *)
LEMMA AskedItem ==
  ASSUME TypeOK, NEW t \in Tabs, asking[t] # 0, TimePasses("client")
  PROVE  /\ ClientItem(asking[t], now'["client"]) \in Items /\ asking[t] \in 1 .. asked
         /\ now' \in [Sources -> 0 .. MaxTime] /\ now'["client"] \in 0 .. MaxTime
<1>1. now' \in [Sources -> 0 .. MaxTime] /\ now'["client"] \in 0 .. MaxTime
  BY ClockAdvances DEF TypeOK, Sources
<1>2. QED
  BY <1>1, HistoryAssumption DEF TypeOK, ClientItem, Items, Sources, Questions

(* The pushes keep their types.                                            *)
LEMMA PushTypesKept ==
  ASSUME TypeOK, [Next]_vars
  PROVE  PushTypes'
<1> USE HistoryAssumption
<1>1. PushTypes
  BY TypesInParts
<1>2. ASSUME NEW t \in Tabs, Pushes(t) \/ PushesNothing(t) PROVE PushTypes'
  <2>1. /\ asked' = asked + 1 /\ asked + 1 \in 1 .. MaxQuestions
        /\ asking' = [asking EXCEPT ![t] = asked + 1] /\ expires' = expires
        /\ TimePasses("server")
    BY <1>1, <1>2 DEF Pushes, PushesNothing, Answered, PushTypes
  <2>0. now' \in [Sources -> 0 .. MaxTime] /\ now'["server"] \in 0 .. MaxTime
    BY <1>1, <2>1, ClockAdvances DEF PushTypes, Sources
  <2>2. asking' \in [Tabs -> 0 .. asked']
    BY <1>1, <2>1 DEF PushTypes
  <2>3. CASE Pushes(t)
    <3>1. /\ push' = [push EXCEPT ![asked + 1] = "pushed"] /\ cut' = cut
          /\ list' = <<ServerItem(asked + 1, now'["server"])>> \o list
      BY <2>1, <2>3 DEF Pushes, ServerItem
    <3>2. ServerItem(asked + 1, now'["server"]) \in Items
      BY <2>0, <2>1 DEF ServerItem, Items, Sources, Questions
    <3>3. list' \in Seq(Items)
      BY <1>1, <3>1, <3>2 DEF PushTypes
    <3>4. QED
      BY <1>1, <2>0, <2>1, <2>2, <3>1, <3>3 DEF PushTypes, Questions
  <2>4. CASE PushesNothing(t)
    <3>1. push' = [push EXCEPT ![asked + 1] = "ended"] /\ cut' = TRUE /\ list' = list
      BY <2>1, <2>4 DEF PushesNothing
    <3>2. QED
      BY <1>1, <2>0, <2>1, <2>2, <3>1 DEF PushTypes, Questions
  <2>5. QED
    BY <1>2, <2>3, <2>4
<1>3. ASSUME NEW q \in Questions, Trims(q) \/ Expires(q) \/ PushFails(q) PROVE PushTypes'
  <2>1. UNCHANGED <<now, asked, asking>>
        /\ push' \in [Questions -> {"no", "pushed", "trimmed", "ended"}]
    BY <1>1, <1>3 DEF Trims, Expires, PushFails, PushTypes
  <2>2. list' \in Seq(Items)
    BY <1>1, <1>3, FirstOfProperties DEF Trims, Expires, PushFails, PushTypes
  <2>3. cut' \in BOOLEAN
    BY <1>1, <1>3 DEF Trims, Expires, PushFails, PushTypes
  <2>4. expires' \in BOOLEAN
    <3>1. CASE expires' = expires
      BY <1>1, <3>1 DEF PushTypes
    <3>2. CASE expires' = (list # <<>>)
      BY <3>2
    <3>3. QED
      BY <1>3, <3>1, <3>2 DEF Trims, Expires, PushFails
  <2>5. QED
    BY <1>1, <2>1, <2>2, <2>3, <2>4 DEF PushTypes
<1>4. ASSUME NEW t \in Tabs, AddHistoryItem(t) \/ Reload(t) PROVE PushTypes'
  <2>1. asking' = [asking EXCEPT ![t] = 0] /\ (UNCHANGED now \/ TimePasses("client"))
        /\ UNCHANGED <<asked, pushVars>>
    BY <1>4 DEF AddHistoryItem, Reload
  <2>2. now' \in [Sources -> 0 .. MaxTime]
    BY <1>1, <2>1, ClockAdvances DEF PushTypes, Sources
  <2>3. QED
    BY <1>1, <2>1, <2>2 DEF PushTypes, pushVars
<1>5. ASSUME NEW d \in deletes, DeleteHistory(d) PROVE PushTypes'
  <2>1. list' = <<>> /\ expires' = FALSE /\ UNCHANGED <<now, asked, asking, push, cut>>
    BY <1>5 DEF DeleteHistory
  <2>2. <<>> \in Seq(Items)
    OBVIOUS
  <2>3. expires' \in BOOLEAN
    BY <2>1, Zenon
  <2>4. list' \in Seq(Items)
    BY <2>1, <2>2, Zenon
  <2>5. QED
    BY <1>1, <2>1, <2>3, <2>4 DEF PushTypes
<1>6. CASE UNCHANGED <<now, asked, asking, pushVars>>
  BY <1>1, <1>6 DEF PushTypes, pushVars
<1>7. \/ UNCHANGED <<now, asked, asking, pushVars>>
      \/ \E t \in Tabs : Pushes(t) \/ PushesNothing(t)
      \/ \E q \in Questions : Trims(q) \/ Expires(q) \/ PushFails(q)
      \/ \E t \in Tabs : AddHistoryItem(t) \/ Reload(t)
      \/ \E d \in deletes : DeleteHistory(d)
  BY DEF Next, Api, Hook, Net, StartLoad, ClearHistory, GetHistory, FinishLoad, DeleteFails, vars
<1>8. QED
  BY <1>2, <1>3, <1>4, <1>5, <1>6, <1>7

(* What a step may do to what the tabs show and localStorage holds.        *)
LEMMA ViewSteps ==
  ASSUME [Next]_vars
  PROVE  \/ UNCHANGED viewVars
         \/ \E t \in Tabs : AddHistoryItem(t)
         \/ \E l \in loads : FinishLoad(l)
         \/ \E t \in Tabs : /\ state' = [state EXCEPT ![t] = <<>>]
                            /\ recent' = [recent EXCEPT ![t] = 0]
                            /\ storage' = storage \/ storage' = <<>>
BY DEF Next, Api, Hook, Net, Pushes, PushesNothing, Answered, Trims, Expires, PushFails,
       StartLoad, ClearHistory, Reload, GetHistory, DeleteHistory, DeleteFails, vars, viewVars

(* An answer more has been put in front, unless the list is full of them.  *)
LEMMA MoreRecent ==
  ASSUME ViewTypes, NEW t \in Tabs, AddHistoryItem(t)
  PROVE  /\ recent' = [recent EXCEPT ![t] = IF recent[t] < MaxItems THEN recent[t] + 1
                                                                  ELSE recent[t]]
         /\ \E n \in 0 .. MaxItems : recent' = [recent EXCEPT ![t] = n]
         /\ recent[t] \in 0 .. MaxItems
<1> DEFINE n == IF recent[t] < MaxItems THEN recent[t] + 1 ELSE recent[t]
<1>1. recent[t] \in 0 .. MaxItems
  BY DEF ViewTypes
<1>2. recent' = [recent EXCEPT ![t] = n]
  BY DEF AddHistoryItem
<1>3. n \in 0 .. MaxItems
  BY <1>1, HistoryAssumption
<1>4. QED
  BY <1>1, <1>2, <1>3

(* What the tabs show keeps its type.                                      *)
LEMMA ViewTypesKept ==
  ASSUME TypeOK, [Next]_vars
  PROVE  ViewTypes'
<1> USE HistoryAssumption
<1>1. ViewTypes /\ LoadTypes
  BY TypesInParts
<1>2. ASSUME NEW t \in Tabs, NEW r \in Seq(Items), Len(r) <= MaxItems,
             state' = [state EXCEPT ![t] = r], storage' = r \/ storage' = storage,
             NEW n \in 0 .. MaxItems, recent' = [recent EXCEPT ![t] = n]
      PROVE  ViewTypes'
  BY <1>1, <1>2 DEF ViewTypes
<1>3. ASSUME NEW t \in Tabs, AddHistoryItem(t) PROVE ViewTypes'
  <2> DEFINE e == ClientItem(asking[t], now'["client"])
             r == FirstOf(<<e>> \o state[t], MaxItems)
  <2>1. e \in Items /\ state[t] \in Seq(Items)
    BY <1>1, <1>3, AskedItem DEF AddHistoryItem, ViewTypes
  <2>2. state' = [state EXCEPT ![t] = r] /\ (storage' = r \/ storage' = storage)
    BY <1>3 DEF AddHistoryItem, Stores, ClientItem
  <2> HIDE DEF e
  <2>3. r \in Seq(Items) /\ Len(r) <= MaxItems
    BY <2>1, PutInFront
  <2> HIDE DEF r
  <2>4. PICK n \in 0 .. MaxItems : recent' = [recent EXCEPT ![t] = n]
    BY <1>1, <1>3, MoreRecent
  <2>5. QED
    BY <1>2, <2>2, <2>3, <2>4
<1>4. ASSUME NEW l \in loads, FinishLoad(l) PROVE ViewTypes'
  <2> DEFINE r == Merged(l.reply, l.local)
  <2>1. r \in Seq(Items) /\ Len(r) <= MaxItems /\ l.tab \in Tabs
    BY <1>1, LoadedLists, MergedInOrder
  <2>2. state' = [state EXCEPT ![l.tab] = r] /\ (storage' = r \/ storage' = storage)
        /\ recent' = [recent EXCEPT ![l.tab] = 0]
    BY <1>4 DEF FinishLoad, Stores
  <2> HIDE DEF r
  <2>3. 0 \in 0 .. MaxItems
    OBVIOUS
  <2>4. QED
    BY <1>2, <2>1, <2>2, <2>3
<1>5. ASSUME NEW t \in Tabs, state' = [state EXCEPT ![t] = <<>>],
             storage' = storage \/ storage' = <<>>, recent' = [recent EXCEPT ![t] = 0]
      PROVE  ViewTypes'
  <2> DEFINE r == <<>>
  <2>1. r \in Seq(Items) /\ Len(r) <= MaxItems
    OBVIOUS
  <2>2. state' = [state EXCEPT ![t] = r] /\ (storage' = r \/ storage' = storage)
    BY <1>5, Zenon
  <2> HIDE DEF r
  <2>3. 0 \in 0 .. MaxItems
    OBVIOUS
  <2>4. QED
    BY <1>2, <1>5, <2>1, <2>2, <2>3
<1>6. CASE UNCHANGED viewVars
  BY <1>1, <1>6 DEF ViewTypes, viewVars
<1>7. QED
  BY <1>3, <1>4, <1>5, <1>6, ViewSteps

(* What a step may do to the loads and the DELETEs under way.              *)
LEMMA FlightSteps ==
  ASSUME [Next]_vars
  PROVE  /\ \/ loads' \subseteq loads
            \/ \E t \in Tabs : StartLoad(t) \/ Reload(t)
            \/ \E l \in loads : GetHistory(l)
         /\ \/ deletes' \subseteq deletes /\ clears' = clears
            \/ deletes' = Disturbed /\ clears' = clears
            \/ \E t \in Tabs : ClearHistory(t)
         /\ gone' = gone \/ \E d \in deletes : DeleteHistory(d)
<1>1. \/ loads' \subseteq loads
      \/ \E t \in Tabs : StartLoad(t) \/ Reload(t)
      \/ \E l \in loads : GetHistory(l)
  BY DEF Next, Api, Hook, Net, Pushes, PushesNothing, Answered, Trims, Expires, PushFails,
         AddHistoryItem, ClearHistory, FinishLoad, DeleteHistory, DeleteFails, vars
<1>2. \/ deletes' \subseteq deletes /\ clears' = clears
      \/ deletes' = Disturbed /\ clears' = clears
      \/ \E t \in Tabs : ClearHistory(t)
  BY DEF Next, Api, Hook, Net, Pushes, PushesNothing, Answered, Trims, Expires, PushFails,
         AddHistoryItem, StartLoad, Reload, GetHistory, FinishLoad, DeleteHistory, DeleteFails, vars
<1>3. gone' = gone \/ \E d \in deletes : DeleteHistory(d)
  BY DEF Next, Api, Hook, Net, Pushes, PushesNothing, Answered, Trims, Expires, PushFails,
         AddHistoryItem, StartLoad, ClearHistory, Reload, GetHistory, FinishLoad, DeleteFails, vars
<1>4. QED
  BY <1>1, <1>2, <1>3

(* A load that starts holds what localStorage holds.                       *)
LEMMA StartedLoad ==
  ASSUME NEW t \in Tabs, StartLoad(t) \/ Reload(t)
  PROVE  \E n \in 1 .. MaxLoads : \E others \in SUBSET loads :
           loads' = others \cup {[id |-> n, tab |-> t, local |-> storage, replied |-> FALSE,
                                 reply |-> <<>>]}
<1>1. \A others \in SUBSET loads : LoadsWith(others, t) =>
        \E n \in 1 .. MaxLoads :
          loads' = others \cup {[id |-> n, tab |-> t, local |-> storage, replied |-> FALSE,
                                reply |-> <<>>]}
  BY DEF LoadsWith
<1>2. \E others \in SUBSET loads : LoadsWith(others, t)
  BY DEF StartLoad, Reload
<1>3. QED
  BY <1>1, <1>2

(* Loads and deletes in flight keep their types.                           *)
LEMMA FlightTypesKept ==
  ASSUME TypeOK, [Next]_vars
  PROVE  LoadTypes' /\ DeleteTypes'
<1> USE HistoryAssumption
<1>1. PushTypes /\ ViewTypes /\ LoadTypes /\ DeleteTypes
  BY TypesInParts
<1>2. ASSUME NEW t \in Tabs, StartLoad(t) \/ Reload(t) PROVE LoadTypes'
  <2>1. PICK n \in 1 .. MaxLoads : \E others \in SUBSET loads :
          loads' = others \cup {[id |-> n, tab |-> t, local |-> storage, replied |-> FALSE,
                                reply |-> <<>>]}
    BY <1>2, StartedLoad
  <2> DEFINE new == [id |-> n, tab |-> t, local |-> storage, replied |-> FALSE, reply |-> <<>>]
  <2>2. new \in Loads /\ Len(new.reply) <= PageSize
    <3>1. <<>> \in Seq(Items) /\ Len(<<>>) = 0 /\ storage \in Seq(Items)
      BY <1>1 DEF ViewTypes
    <3>2. QED
      BY <3>1 DEF Loads
  <2> HIDE DEF new
  <2>3. loads' \subseteq loads \cup {new}
    BY <2>1 DEF new
  <2>4. QED
    BY <1>1, <2>2, <2>3 DEF LoadTypes
<1>3. ASSUME NEW l \in loads, GetHistory(l) PROVE LoadTypes'
  <2>1. PICK reply \in {FirstOf(list, PageSize), <<>>} :
          loads' = (loads \ {l}) \cup {Replied(l, reply)}
    BY <1>3 DEF GetHistory
  <2>2. reply \in Seq(Items) /\ Len(reply) <= PageSize
    <3>1. CASE reply = FirstOf(list, PageSize)
      <4>1. list \in Seq(Items) /\ PageSize \in Nat
        BY <1>1 DEF PushTypes
      <4>2. QED
        BY <3>1, <4>1, FirstOfProperties
    <3>2. CASE reply = <<>>
      BY <3>2
    <3>3. QED
      BY <2>1, <3>1, <3>2
  <2>3. Replied(l, reply) \in Loads /\ Replied(l, reply).reply = reply
    BY <1>1, <2>2, LoadedLists DEF Replied, Loads
  <2>4. QED
    BY <1>1, <2>1, <2>2, <2>3 DEF LoadTypes
<1>4. LoadTypes'
  <2>1. CASE loads' \subseteq loads
    BY <1>1, <2>1 DEF LoadTypes
  <2>2. QED
    BY <1>2, <1>3, <2>1, FlightSteps
<1>5. deletes' \subseteq Deletes /\ clears' \in 0 .. MaxClears
  <2>1. CASE deletes' \subseteq deletes /\ clears' = clears
    BY <1>1, <2>1 DEF DeleteTypes
  <2>2. CASE deletes' = Disturbed /\ clears' = clears
    BY <1>1, <2>2 DEF DeleteTypes, Disturbed, Deletes
  <2>3. ASSUME NEW t \in Tabs, ClearHistory(t)
        PROVE  deletes' \subseteq Deletes /\ clears' \in 0 .. MaxClears
    <3>1. clears' \in 1 .. MaxClears
      BY <1>1, <2>3 DEF ClearHistory, DeleteTypes
    <3>2. ClearedItems(t) \subseteq Items
      BY <1>1 DEF ClearedItems, ToSet, PushTypes, ViewTypes
    <3>3. PICK items \in SUBSET Items : deletes' = deletes \cup {[click |-> clears', items |-> items]}
      BY <2>3, <3>2 DEF ClearHistory, SendDelete
    <3>4. [click |-> clears', items |-> items] \in Deletes
      BY <3>1 DEF Deletes
    <3>5. QED
      BY <1>1, <3>1, <3>3, <3>4 DEF DeleteTypes
  <2>4. QED
    BY <2>1, <2>2, <2>3, FlightSteps
<1>6. gone' \subseteq Items
  <2>1. ASSUME NEW d \in deletes, DeleteHistory(d) PROVE gone' \subseteq Items
    <3>1. gone' = gone \cup d.items /\ d.items \subseteq Items
      BY <1>1, <2>1 DEF DeleteHistory, DeleteTypes, Deletes
    <3>2. QED
      BY <1>1, <3>1 DEF DeleteTypes
  <2>2. QED
    BY <1>1, <2>1, FlightSteps DEF DeleteTypes
<1>7. QED
  BY <1>4, <1>5, <1>6 DEF DeleteTypes

(***************************************************************************)
(* The history's variables keep their types: above all, no tab and no      *)
(* localStorage holds more than MaxItems, whatever is loaded and added.    *)
(***************************************************************************)
THEOREM TypeCorrect == Spec => []TypeOK
<1>1. TypeOK /\ [Next]_vars => TypeOK'
  <2> SUFFICES ASSUME TypeOK, [Next]_vars PROVE TypeOK'
    OBVIOUS
  <2>1. PushTypes' /\ ViewTypes' /\ LoadTypes' /\ DeleteTypes'
    BY PushTypesKept, ViewTypesKept, FlightTypesKept
  <2>2. QED
    BY <2>1, TypesInParts DEF TypeOK, PushTypes, ViewTypes, LoadTypes, DeleteTypes
<1>2. QED
  BY <1>1, InitTypes, PTL DEF Spec

-----------------------------------------------------------------------------
(***************************************************************************)
(* Where an item can be: shown or kept by a tab, in a load, in the Redis   *)
(* list, or marked as removed by a clear, come through or on its way.      *)
(***************************************************************************)
View     == {x \in Items : x \in ToSet(storage) \/ \E t \in Tabs : x \in ToSet(state[t])}
InFlight == {x \in Items : \E l \in loads : x \in ToSet(l.local) \/ x \in ToSet(l.reply)}
Pending  == {x \in Items : \E d \in deletes : x \in d.items}
Marked   == gone \cup Pending
Held     == View \cup InFlight \cup Marked \cup ToSet(list)

(* A list of items holds items.                                            *)
LEMMA SetOfItems ==
  ASSUME NEW s \in Seq(Items)
  PROVE  ToSet(s) \subseteq Items
BY DEF ToSet

(* A tab shows, beyond what it did, what a load brought or its own answer. *)
LEMMA ViewGrows ==
  ASSUME TypeOK, [Next]_vars
  PROVE  \/ View' \subseteq View
         \/ \E l \in loads : FinishLoad(l) /\ View' \subseteq View \cup InFlight
         \/ \E t \in Tabs : /\ AddHistoryItem(t)
                            /\ View' \subseteq View \cup {ClientItem(asking[t], now'["client"])}
<1> USE HistoryAssumption
<1>1. ViewTypes /\ LoadTypes
  BY TypesInParts
<1>2. ASSUME NEW t \in Tabs, NEW r, NEW more,
             ToSet(r) \subseteq View \cup more,
             state' = [state EXCEPT ![t] = r], storage' = r \/ storage' = storage
      PROVE  View' \subseteq View \cup more
  <2> SUFFICES ASSUME NEW x \in View', x \notin more PROVE x \in View
    OBVIOUS
  <2>1. x \in Items /\ (x \in ToSet(storage') \/ \E u \in Tabs : x \in ToSet(state'[u]))
    BY DEF View
  <2>2. x \in ToSet(r) \/ x \in ToSet(storage) \/ \E u \in Tabs : x \in ToSet(state[u])
    <3>1. \A u \in Tabs : state'[u] = r \/ state'[u] = state[u]
      BY <1>1, <1>2 DEF ViewTypes
    <3>2. QED
      BY <1>2, <2>1, <3>1
  <2>3. QED
    BY <1>2, <2>1, <2>2 DEF View
<1>3. ASSUME NEW t \in Tabs, AddHistoryItem(t)
      PROVE  View' \subseteq View \cup {ClientItem(asking[t], now'["client"])}
  <2> DEFINE e == ClientItem(asking[t], now'["client"])
             r == FirstOf(<<e>> \o state[t], MaxItems)
  <2>1. e \in Items /\ state[t] \in Seq(Items)
    BY <1>1, <1>3, AskedItem DEF AddHistoryItem, ViewTypes
  <2>2. state' = [state EXCEPT ![t] = r] /\ (storage' = r \/ storage' = storage)
    BY <1>3 DEF AddHistoryItem, Stores, ClientItem
  <2> HIDE DEF e
  <2>3. r = FirstOf(<<e>> \o state[t], MaxItems) /\ MaxItems \in Nat
    OBVIOUS
  <2> HIDE DEF r
  <2>4. ToSet(r) \subseteq {e} \cup ToSet(state[t])
    BY <2>1, <2>3, PutInFront
  <2>5. ToSet(state[t]) \subseteq View
    BY <2>1, SetOfItems DEF View
  <2>6. View' \subseteq View \cup {e}
    BY <1>2, <2>2, <2>4, <2>5
  <2>7. QED
    BY <2>6 DEF e
<1>4. ASSUME NEW l \in loads, FinishLoad(l)
      PROVE  View' \subseteq View \cup InFlight
  <2> DEFINE r == Merged(l.reply, l.local)
  <2>1. /\ ToSet(r) \subseteq ToSet(l.reply) \cup ToSet(l.local) /\ l.tab \in Tabs
        /\ ToSet(l.reply) \cup ToSet(l.local) \subseteq Items
    BY <1>1, LoadedLists, MergedInOrder, SetOfItems
  <2>2. state' = [state EXCEPT ![l.tab] = r] /\ (storage' = r \/ storage' = storage)
    BY <1>4 DEF FinishLoad, Stores
  <2>3. ToSet(l.reply) \cup ToSet(l.local) \subseteq InFlight
    BY <2>1 DEF InFlight
  <2> HIDE DEF r
  <2>4. QED
    BY <1>2, <2>1, <2>2, <2>3
<1>5. ASSUME NEW t \in Tabs, state' = [state EXCEPT ![t] = <<>>],
             storage' = storage \/ storage' = <<>>
      PROVE  View' \subseteq View
  <2> DEFINE r == <<>>
  <2>1. ToSet(r) \subseteq View \cup {}
    BY DEF ToSet
  <2>2. state' = [state EXCEPT ![t] = r] /\ (storage' = r \/ storage' = storage)
    BY <1>5, Zenon
  <2> HIDE DEF r
  <2>3. View' \subseteq View \cup {}
    BY <1>2, <2>1, <2>2
  <2>4. QED
    BY <2>3
<1>6. CASE UNCHANGED viewVars
  BY <1>6 DEF View, viewVars
<1>7. QED
  BY <1>3, <1>4, <1>5, <1>6, ViewSteps

(* The Redis list gains the server's item of the question answered.        *)
LEMMA ListGrows ==
  ASSUME TypeOK, [Next]_vars
  PROVE  \/ ToSet(list') \subseteq ToSet(list)
         \/ \E t \in Tabs : /\ Pushes(t)
                            /\ ToSet(list') \subseteq ToSet(list) \cup {ServerItem(asked + 1, now'["server"])}
<1> USE HistoryAssumption
<1>1. list \in Seq(Items) /\ asked \in Nat
  BY DEF TypeOK
<1>2. ASSUME NEW t \in Tabs, Pushes(t)
      PROVE  ToSet(list') \subseteq ToSet(list) \cup {ServerItem(asked + 1, now'["server"])}
  <2> DEFINE e == ServerItem(asked + 1, now'["server"])
  <2>1. list' = <<e>> \o list
    BY <1>2 DEF Pushes, Answered, ServerItem
  <2>2. e \in Items
    <3>1. TimePasses("server") /\ asked + 1 \in Questions
      BY <1>1, <1>2 DEF Pushes, Answered, Questions
    <3>2. now'["server"] \in 0 .. MaxTime
      BY <3>1, ClockAdvances DEF Sources, TypeOK
    <3>3. QED
      BY <3>1, <3>2 DEF ServerItem, Items, Sources
  <2> HIDE DEF e
  <2>3. /\ <<e>> \in Seq(Items) /\ Len(<<e>>) = 1 /\ <<e>>[1] = e
    BY <2>2
  <2>4. \A i \in DOMAIN list' : list'[i] = e \/ \E j \in DOMAIN list : list'[i] = list[j]
    BY <1>1, <2>1, <2>3, ConcatProperties
  <2>5. ToSet(list') \subseteq ToSet(list) \cup {e}
    BY <2>4 DEF ToSet
  <2>6. QED
    BY <2>5 DEF e
<1>3. ASSUME NEW q \in Questions, Trims(q) PROVE ToSet(list') \subseteq ToSet(list)
  <2>1. list' = FirstOf(list, MaxList) /\ MaxList \in Nat
    BY <1>3 DEF Trims
  <2>2. QED
    BY <1>1, <2>1, FirstOfSet
<1>4. ASSUME NEW d \in deletes, DeleteHistory(d) PROVE ToSet(list') \subseteq ToSet(list)
  <2>1. list' = <<>>
    BY <1>4 DEF DeleteHistory
  <2>2. QED
    BY <2>1 DEF ToSet
<1>5. \/ list' = list
      \/ \E t \in Tabs : Pushes(t)
      \/ \E q \in Questions : Trims(q)
      \/ \E d \in deletes : DeleteHistory(d)
  BY DEF Next, Api, Hook, Net, PushesNothing, Expires, PushFails, AddHistoryItem, StartLoad,
         ClearHistory, Reload, GetHistory, FinishLoad, DeleteFails, vars, pushVars
<1>6. QED
  BY <1>2, <1>3, <1>4, <1>5

(* A load gains what localStorage holds, or what the API replies with.     *)
LEMMA FlightGrows ==
  ASSUME TypeOK, [Next]_vars
  PROVE  \/ InFlight' \subseteq InFlight
         \/ \E t \in Tabs : StartLoad(t) \/ Reload(t)
         \/ \E l \in loads : GetHistory(l)
<1>1. CASE loads' \subseteq loads
  BY <1>1 DEF InFlight
<1>2. QED
  BY <1>1, FlightSteps

(* What loads in flight carry comes from a tab or from the list.           *)
LEMMA FlightGains ==
  ASSUME TypeOK, [Next]_vars
  PROVE  /\ \A t \in Tabs : StartLoad(t) \/ Reload(t) => InFlight' \subseteq InFlight \cup View
         /\ \A l \in loads : GetHistory(l) => InFlight' \subseteq InFlight \cup ToSet(list)
<1> USE HistoryAssumption
<1>1. ViewTypes /\ LoadTypes /\ list \in Seq(Items)
  BY TypesInParts DEF PushTypes
<1>2. ToSet(<<>>) = {}
  BY DEF ToSet
<1>3. ASSUME NEW t \in Tabs, StartLoad(t) \/ Reload(t)
      PROVE  InFlight' \subseteq InFlight \cup View
  <2>1. PICK n \in 1 .. MaxLoads : \E others \in SUBSET loads :
          loads' = others \cup {[id |-> n, tab |-> t, local |-> storage, replied |-> FALSE,
                                reply |-> <<>>]}
    BY <1>3, StartedLoad
  <2> DEFINE new == [id |-> n, tab |-> t, local |-> storage, replied |-> FALSE, reply |-> <<>>]
  <2>2. new.local = storage /\ new.reply = <<>>
    OBVIOUS
  <2> HIDE DEF new
  <2>3. loads' \subseteq loads \cup {new}
    BY <2>1 DEF new
  <2>4. QED
    BY <1>2, <2>2, <2>3 DEF InFlight, View
<1>4. ASSUME NEW l \in loads, GetHistory(l)
      PROVE  InFlight' \subseteq InFlight \cup ToSet(list)
  <2>1. PICK reply \in {FirstOf(list, PageSize), <<>>} :
          loads' = (loads \ {l}) \cup {Replied(l, reply)}
    BY <1>4 DEF GetHistory
  <2>2. ToSet(reply) \subseteq ToSet(list)
    <3>1. PageSize \in Nat
      OBVIOUS
    <3>2. ToSet(FirstOf(list, PageSize)) \subseteq ToSet(list)
      BY <1>1, <3>1, FirstOfSet
    <3>3. QED
      BY <1>2, <2>1, <3>2
  <2>3. Replied(l, reply).local = l.local /\ Replied(l, reply).reply = reply
    BY DEF Replied
  <2>4. QED
    BY <2>1, <2>2, <2>3 DEF InFlight
<1>5. QED
  BY <1>3, <1>4

(* What is marked was there before: a clear marks what it removes.         *)
LEMMA MarkedGrows ==
  ASSUME TypeOK, [Next]_vars
  PROVE  Marked' \subseteq Held
<1> SUFFICES ASSUME NEW x \in Marked' PROVE x \in Held
  OBVIOUS
<1>1. PushTypes /\ ViewTypes /\ DeleteTypes
  BY TypesInParts
<1>2. CASE x \in gone'
  <2>1. gone' = gone \/ \E d \in deletes : gone' = gone \cup d.items
    BY FlightSteps DEF DeleteHistory
  <2>2. \A d \in deletes : d.items \subseteq Items
    BY <1>1 DEF DeleteTypes, Deletes
  <2>3. QED
    BY <1>2, <2>1, <2>2 DEF Marked, Pending, Held
<1>3. CASE \E d \in deletes' : x \in Items /\ x \in d.items
  <2>1. PICK d \in deletes' : x \in Items /\ x \in d.items
    BY <1>3
  <2>2. CASE d \in deletes
    BY <2>1, <2>2 DEF Marked, Pending, Held
  <2>3. CASE deletes' = Disturbed
    BY <2>1, <2>3 DEF Disturbed
  <2>4. ASSUME NEW t \in Tabs, ClearHistory(t), d \notin deletes PROVE x \in Held
    <3>1. d.items \subseteq ClearedItems(t)
      BY <2>4 DEF ClearHistory, SendDelete
    <3>2. QED
      BY <2>1, <3>1 DEF ClearedItems, Held, View
  <2>5. QED
    BY <2>2, <2>3, <2>4, FlightSteps
<1>4. QED
  BY <1>2, <1>3 DEF Marked, Pending

(***************************************************************************)
(* No item comes from nowhere: a step holds what was held, and the item of *)
(* a question being answered or recorded.                                  *)
(***************************************************************************)
LEMMA NothingNew ==
  ASSUME TypeOK, [Next]_vars
  PROVE  \/ Held' \subseteq Held
         \/ \E t \in Tabs : Pushes(t) /\ Held' \subseteq Held \cup {ServerItem(asked + 1, now'["server"])}
         \/ \E t \in Tabs : /\ AddHistoryItem(t)
                            /\ Held' \subseteq Held \cup {ClientItem(asking[t], now'["client"])}
<1>1. Marked' \subseteq Held
  BY MarkedGrows
<1>2. InFlight' \subseteq Held
  BY FlightGrows, FlightGains DEF Held
<1>3. \/ View' \subseteq Held
      \/ \E t \in Tabs : AddHistoryItem(t) /\ View' \subseteq Held \cup {ClientItem(asking[t], now'["client"])}
  BY ViewGrows DEF Held
<1>4. \/ ToSet(list') \subseteq Held
      \/ \E t \in Tabs : Pushes(t) /\ ToSet(list') \subseteq Held \cup {ServerItem(asked + 1, now'["server"])}
  BY ListGrows DEF Held
<1>5. Held' = View' \cup InFlight' \cup Marked' \cup ToSet(list')
  BY DEF Held
<1>6. (\E t \in Tabs : AddHistoryItem(t)) => ToSet(list') = ToSet(list)
  BY DEF AddHistoryItem, pushVars
<1>7. (\E t \in Tabs : Pushes(t)) => View' = View
  BY DEF Pushes, Answered, viewVars, View
<1>8. ToSet(list) \subseteq Held /\ View \subseteq Held
  BY DEF Held
<1>9. QED
  BY <1>1, <1>2, <1>3, <1>4, <1>5, <1>6, <1>7, <1>8


-----------------------------------------------------------------------------
(***************************************************************************)
(* What is held is of the past; an answer under way is one tab's, and only *)
(* the server has recorded it.                                             *)
(***************************************************************************)
Recorded ==
  /\ \A x \in Held : x.ts <= now[x.source] /\ x.q <= asked
  /\ \A t \in Tabs : asking[t] # 0 =>
       /\ \A x \in Held : x.q = asking[t] => x.source = "server"
       /\ \A u \in Tabs : asking[u] = asking[t] => u = t

(* Nothing is recorded to begin with.                                      *)
LEMMA InitRecorded == Init => Recorded
<1> SUFFICES ASSUME Init PROVE Recorded
  OBVIOUS
<1>1. ToSet(<<>>) = {}
  BY DEF ToSet
<1>2. View = {} /\ ToSet(list) = {}
  BY <1>1 DEF View, Init
<1>3. InFlight = {} /\ Marked = {}
  BY DEF InFlight, Marked, Pending, Init
<1>4. Held = {}
  BY <1>2, <1>3 DEF Held
<1>5. QED
  BY <1>4 DEF Recorded, Init

(* What is held anywhere is an item.                                       *)
LEMMA HeldTypes ==
  ASSUME TypeOK
  PROVE  /\ Held \subseteq Items
         /\ \A x \in Held : x.ts \in Nat /\ x.q \in Nat
         /\ \A x \in Held : x.source \in Sources /\ now[x.source] \in Nat
         /\ asked \in Nat /\ \A t \in Tabs : asking[t] \in 0 .. asked
<1>1. ToSet(list) \subseteq Items
  BY SetOfItems DEF TypeOK
<1>2. Held \subseteq Items
  BY <1>1 DEF TypeOK, Held, View, InFlight, Marked, Pending
<1>3. \A x \in Items : x.ts \in Nat /\ x.q \in Nat /\ x.source \in Sources
  BY HistoryAssumption DEF Items, Questions
<1>4. QED
  BY <1>2, <1>3, HistoryAssumption DEF TypeOK

(* The item an answer gives rise to was not held before.                   *)
LEMMA Fresh ==
  ASSUME TypeOK, Recorded
  PROVE  /\ \A t \in Tabs : Pushes(t) => ServerItem(asked + 1, now'["server"]) \notin Held
         /\ \A t \in Tabs : AddHistoryItem(t) => ClientItem(asking[t], now'["client"]) \notin Held
<1>1. ServerItem(asked + 1, now'["server"]) \notin Held
  BY HeldTypes DEF Recorded, ServerItem
<1>2. ASSUME NEW t \in Tabs, AddHistoryItem(t) PROVE ClientItem(asking[t], now'["client"]) \notin Held
  <2>1. asking[t] # 0
    BY <1>2 DEF AddHistoryItem
  <2>2. ClientItem(asking[t], now'["client"]).q = asking[t] /\ ClientItem(asking[t], now'["client"]).source = "client"
    BY DEF ClientItem
  <2>3. QED
    BY <2>1, <2>2 DEF Recorded
<1>3. QED
  BY <1>1, <1>2

(* Every step keeps what is held among what was asked.                     *)
LEMMA NextRecorded ==
  ASSUME TypeOK, Recorded, [Next]_vars
  PROVE  Recorded'
<1> USE HistoryAssumption
<1>1. /\ asking \in [Tabs -> 0 .. asked]
      /\ now \in [Sources -> 0 .. MaxTime] /\ asked \in Nat
      /\ \A x \in Held : x.ts \in Nat /\ x.q \in Nat /\ x.source \in Sources
  BY HeldTypes DEF TypeOK
<1>2. TimePasses("client") \/ TimePasses("server") \/ now' = now
  BY DEF Next, Api, Hook, Net, Pushes, PushesNothing, Answered, Trims, Expires, PushFails,
         AddHistoryItem, StartLoad, ClearHistory, Reload, GetHistory, FinishLoad,
         DeleteHistory, DeleteFails, vars
<1>3. /\ now' \in [Sources -> 0 .. MaxTime]
      /\ \A s \in Sources : now[s] \in Nat /\ now'[s] \in Nat /\ now[s] <= now'[s]
  <2>1. "client" \in Sources /\ "server" \in Sources
    BY DEF Sources
  <2>2. now' \in [Sources -> 0 .. MaxTime] /\ \A s \in Sources : now[s] <= now'[s]
    <3>1. CASE now' = now
      BY <1>1, <3>1
    <3>2. QED
      BY <1>1, <1>2, <2>1, <3>1, ClockAdvances
  <2>3. QED
    BY <1>1, <2>2
<1>4. ASSUME NEW t \in Tabs, Answered(t),
             Held' \subseteq Held \cup {ServerItem(asked + 1, now'["server"])}
      PROVE  Recorded'
  <2>1. asked' = asked + 1 /\ asking' = [asking EXCEPT ![t] = asked + 1]
    BY <1>4 DEF Answered
  <2>2. /\ ServerItem(asked + 1, now'["server"]).ts = now'["server"] /\ ServerItem(asked + 1, now'["server"]).q = asked + 1
        /\ ServerItem(asked + 1, now'["server"]).source = "server"
    BY DEF ServerItem
  <2>3. \A x \in Held' : x.ts <= now'[x.source] /\ x.q <= asked'
    <3> DEFINE e == ServerItem(asked + 1, now'["server"])
    <3>1. e.ts <= now'[e.source] /\ e.q <= asked'
      BY <1>1, <1>3, <2>1, <2>2 DEF Sources
    <3>2. ASSUME NEW x \in Held PROVE x.ts <= now'[x.source] /\ x.q <= asked'
      <4>1. x.ts <= now[x.source] /\ x.q <= asked
        BY DEF Recorded
      <4>2. x.ts \in Nat /\ x.q \in Nat /\ x.source \in Sources
        BY <1>1
      <4>3. now[x.source] \in Nat /\ now'[x.source] \in Nat
            /\ now[x.source] <= now'[x.source]
        BY <1>3, <4>2
      <4>4. QED
        BY <1>1, <2>1, <4>1, <4>2, <4>3
    <3> HIDE DEF e
    <3>3. Held' \subseteq Held \cup {e}
      BY <1>4 DEF e
    <3>4. QED
      BY <3>1, <3>2, <3>3
  <2>4. \A u \in Tabs : asking'[u] = (IF u = t THEN asked + 1 ELSE asking[u])
    BY <1>1, <2>1
  <2>5. ASSUME NEW u \in Tabs, asking'[u] # 0
        PROVE  /\ \A x \in Held' : x.q = asking'[u] => x.source = "server"
               /\ \A v \in Tabs : asking'[v] = asking'[u] => v = u
    <3>1. CASE u = t
      <4>1. \A x \in Held : x.q # asked + 1
        BY <1>1 DEF Recorded
      <4>2. \A v \in Tabs : v # t => asking'[v] # asked + 1
        BY <1>1, <2>4
      <4>3. QED
        BY <1>4, <2>2, <2>4, <3>1, <4>1, <4>2
    <3>2. CASE u # t
      <4>1. asking'[u] = asking[u] /\ asking[u] # asked + 1
        BY <1>1, <2>4, <3>2
      <4>2. QED
        BY <1>4, <2>2, <2>4, <2>5, <4>1 DEF Recorded
    <3>3. QED
      BY <3>1, <3>2
  <2>6. QED
    BY <2>3, <2>5 DEF Recorded
<1>5. ASSUME NEW t \in Tabs, AddHistoryItem(t),
             Held' \subseteq Held \cup {ClientItem(asking[t], now'["client"])}
      PROVE  Recorded'
  <2>1. asked' = asked /\ asking' = [asking EXCEPT ![t] = 0] /\ asking[t] # 0
    BY <1>5 DEF AddHistoryItem
  <2>2. /\ ClientItem(asking[t], now'["client"]).ts = now'["client"]
        /\ ClientItem(asking[t], now'["client"]).q = asking[t]
        /\ ClientItem(asking[t], now'["client"]).source = "client"
    BY DEF ClientItem
  <2>3. asking[t] \in 0 .. asked
    BY <1>1
  <2>4. \A x \in Held' : x.ts <= now'[x.source] /\ x.q <= asked'
    <3> DEFINE e == ClientItem(asking[t], now'["client"])
    <3>1. e.ts <= now'[e.source] /\ e.q <= asked'
      BY <1>1, <1>3, <2>1, <2>2, <2>3 DEF Sources
    <3>2. ASSUME NEW x \in Held PROVE x.ts <= now'[x.source] /\ x.q <= asked'
      <4>1. x.ts <= now[x.source] /\ x.q <= asked
        BY DEF Recorded
      <4>2. x.ts \in Nat /\ x.q \in Nat /\ x.source \in Sources
        BY <1>1
      <4>3. now[x.source] \in Nat /\ now'[x.source] \in Nat
            /\ now[x.source] <= now'[x.source]
        BY <1>3, <4>2
      <4>4. QED
        BY <2>1, <4>1, <4>2, <4>3
    <3> HIDE DEF e
    <3>3. Held' \subseteq Held \cup {e}
      BY <1>5 DEF e
    <3>4. QED
      BY <3>1, <3>2, <3>3
  <2>5. \A u \in Tabs : asking'[u] = (IF u = t THEN 0 ELSE asking[u])
    BY <1>1, <2>1
  <2>6. ASSUME NEW u \in Tabs, asking'[u] # 0
        PROVE  /\ \A x \in Held' : x.q = asking'[u] => x.source = "server"
               /\ \A v \in Tabs : asking'[v] = asking'[u] => v = u
    <3>1. u # t /\ asking'[u] = asking[u] /\ asking[u] # asking[t]
      BY <2>1, <2>5, <2>6 DEF Recorded
    <3>2. QED
      BY <1>5, <2>2, <2>5, <2>6, <3>1 DEF Recorded
  <2>7. QED
    BY <2>4, <2>6 DEF Recorded
<1>6. ASSUME Held' \subseteq Held, asked' = asked,
             asking' = asking \/ \E t \in Tabs : asking' = [asking EXCEPT ![t] = 0]
      PROVE  Recorded'
  <2>1. \A u \in Tabs : asking'[u] = 0 \/ asking'[u] = asking[u]
    BY <1>1, <1>6
  <2>2. \A x \in Held' : x.ts <= now'[x.source] /\ x.q <= asked'
    BY <1>1, <1>3, <1>6 DEF Recorded
  <2>3. QED
    BY <1>6, <2>1, <2>2 DEF Recorded
<1>7. \/ \E t \in Tabs : Answered(t)
      \/ \E t \in Tabs : AddHistoryItem(t)
      \/ /\ asked' = asked
         /\ asking' = asking \/ \E t \in Tabs : asking' = [asking EXCEPT ![t] = 0]
         /\ ~\E t \in Tabs : Answered(t)
         /\ ~\E t \in Tabs : AddHistoryItem(t)
  <2>1. \/ \E t \in Tabs : Answered(t)
        \/ \E t \in Tabs : AddHistoryItem(t)
        \/ asked' = asked /\ (asking' = asking \/ \E t \in Tabs : asking' = [asking EXCEPT ![t] = 0])
    BY DEF Next, Api, Hook, Net, Pushes, PushesNothing, Trims, Expires, PushFails,
           StartLoad, ClearHistory, Reload, GetHistory, FinishLoad, DeleteHistory, DeleteFails, vars
  <2>2. QED
    BY <2>1
<1>8. (\E t \in Tabs : Answered(t)) => Held' \subseteq Held \cup {ServerItem(asked + 1, now'["server"])}
  <2>1. (\E t \in Tabs : Answered(t)) => ~\E t \in Tabs : AddHistoryItem(t)
    BY <1>1 DEF Answered, AddHistoryItem
  <2>2. QED
    BY <2>1, NothingNew
<1>9. ASSUME NEW t \in Tabs, AddHistoryItem(t)
      PROVE  \E u \in Tabs : AddHistoryItem(u) /\ Held' \subseteq Held \cup {ClientItem(asking[u], now'["client"])}
  <2>1. ~\E u \in Tabs : Pushes(u)
    BY <1>1, <1>9 DEF Pushes, Answered, AddHistoryItem
  <2>2. QED
    BY <1>9, <2>1, NothingNew
<1>10. (~\E t \in Tabs : Answered(t)) /\ (~\E t \in Tabs : AddHistoryItem(t)) => Held' \subseteq Held
  BY NothingNew DEF Pushes
<1>11. QED
  BY <1>4, <1>5, <1>6, <1>7, <1>8, <1>9, <1>10

-----------------------------------------------------------------------------
(***************************************************************************)
(* What a tab shows is in order and has no item twice: an answer is newer  *)
(* than everything the browser recorded before, and its item is not held   *)
(* yet.                                                                    *)
(***************************************************************************)
InOrder(s, front) ==
  \A i, j \in DOMAIN s :
    (i < j /\ (i > front \/ s[i].source = s[j].source)) => s[i].ts >= s[j].ts

Shown == \A t \in Tabs : InOrder(state[t], recent[t]) /\ IsInjective(state[t])

(* An empty list is in order.                                              *)
LEMMA EmptyInOrder == InOrder(<<>>, 0) /\ IsInjective(<<>>)
BY DEF InOrder, IsInjective

(* Every step keeps what the tabs show in order and single.                *)
LEMMA NextShown ==
  ASSUME TypeOK, Recorded, Shown, [Next]_vars
  PROVE  Shown'
<1> USE HistoryAssumption
<1>1. ViewTypes /\ LoadTypes
  BY TypesInParts
<1>2. ASSUME NEW t \in Tabs, NEW r, NEW n, InOrder(r, n), IsInjective(r),
             state' = [state EXCEPT ![t] = r], recent' = [recent EXCEPT ![t] = n]
      PROVE  Shown'
  <2>1. \A u \in Tabs : \/ state'[u] = r /\ recent'[u] = n
                        \/ state'[u] = state[u] /\ recent'[u] = recent[u]
    BY <1>1, <1>2 DEF ViewTypes
  <2>2. QED
    BY <1>2, <2>1 DEF Shown
<1>3. ASSUME NEW t \in Tabs, AddHistoryItem(t) PROVE Shown'
  <2> DEFINE e == ClientItem(asking[t], now'["client"])
             s == state[t]
             r == FirstOf(<<e>> \o s, MaxItems)
             n == IF recent[t] < MaxItems THEN recent[t] + 1 ELSE recent[t]
  <2>0. now \in [Sources -> 0 .. MaxTime] /\ "client" \in Sources /\ TimePasses("client")
    BY <1>3 DEF AddHistoryItem, TypeOK, Sources
  <2>1. /\ e \in Items /\ s \in Seq(Items)
        /\ now'["client"] \in Nat /\ now["client"] \in Nat /\ now["client"] <= now'["client"]
    BY <1>1, <1>3, <2>0, AskedItem, ClockAdvances DEF AddHistoryItem, ViewTypes
  <2>2. /\ state' = [state EXCEPT ![t] = r] /\ recent' = [recent EXCEPT ![t] = n]
        /\ recent[t] \in 0 .. MaxItems
    BY <1>1, <1>3, MoreRecent DEF AddHistoryItem, ClientItem
  <2>3. e.ts = now'["client"] /\ e.source = "client" /\ e \notin Held
    BY <1>3, Fresh DEF ClientItem
  <2>4. InOrder(s, recent[t]) /\ IsInjective(s)
    BY DEF Shown
  <2>5. ToSet(s) \subseteq Held
    BY <2>1, SetOfItems DEF View, Held
  <2> HIDE DEF e, s
  <2>6. \A i \in DOMAIN s : s[i] \in Held
    BY <2>5 DEF ToSet
  <2>7. \A i \in DOMAIN s : /\ s[i].ts \in Nat /\ s[i] # e
                            /\ s[i].source = e.source => s[i].ts <= e.ts
    BY <2>1, <2>3, <2>6, HeldTypes DEF Recorded
  <2>8. r = FirstOf(<<e>> \o s, MaxItems) /\ MaxItems \in Nat
    OBVIOUS
  <2> HIDE DEF r
  <2>9. \A i \in DOMAIN r : i \in Nat /\ (i = 1 \/ i - 1 \in DOMAIN s)
                            /\ r[i] = IF i = 1 THEN e ELSE s[i - 1]
    <3>1. \A i \in DOMAIN r : InFront(e, s, r, i)
      BY <2>1, <2>8, PutInFront, Zenon
    <3>2. QED
      BY <3>1 DEF InFront
  <2>10. r \in Seq(Items) /\ Len(r) <= MaxItems
    BY <2>1, <2>8, PutInFront
  <2>11. \A i \in DOMAIN r : i \in Nat /\ i >= 1 /\ i <= MaxItems
    BY <2>8, <2>10
  <2>12. ASSUME NEW i \in DOMAIN r, NEW j \in DOMAIN r, i < j
         PROVE  /\ (i > n \/ r[i].source = r[j].source) => r[i].ts >= r[j].ts
                /\ r[i] # r[j]
    <3>1. j - 1 \in DOMAIN s /\ r[j] = s[j - 1] /\ i \in Nat /\ j \in Nat
      BY <2>9, <2>11, <2>12
    <3>2. CASE i = 1
      <4>1. r[i] = e /\ e.ts \in Nat
        BY <2>1, <2>3, <2>9, <3>2
      <4>2. ~(i > n)
        BY <2>2, <2>8, <3>2
      <4>3. QED
        BY <2>7, <3>1, <4>1, <4>2
    <3>3. CASE i # 1
      <4>1. i - 1 \in DOMAIN s /\ r[i] = s[i - 1] /\ i - 1 < j - 1 /\ i - 1 # j - 1
        BY <2>9, <2>12, <3>1, <3>3
      <4>2. i > n => i - 1 > recent[t]
        BY <2>2, <2>8, <2>11
      <4>3. QED
        BY <2>4, <3>1, <4>1, <4>2 DEF InOrder, IsInjective
    <3>4. QED
      BY <3>2, <3>3
  <2>13. InOrder(r, n)
    BY <2>12 DEF InOrder
  <2>14. IsInjective(r)
    <3>1. ASSUME NEW i \in DOMAIN r, NEW j \in DOMAIN r, r[i] = r[j] PROVE i = j
      BY <2>11, <2>12, <3>1
    <3>2. QED
      BY <3>1 DEF IsInjective
  <2> HIDE DEF n
  <2>15. QED
    BY <1>2, <2>2, <2>13, <2>14
<1>4. ASSUME NEW l \in loads, FinishLoad(l) PROVE Shown'
  <2> DEFINE r == Merged(l.reply, l.local)
  <2>1. Ordered(r) /\ IsInjective(r) /\ l.tab \in Tabs
    BY <1>1, LoadedLists, MergedInOrder
  <2>2. state' = [state EXCEPT ![l.tab] = r] /\ recent' = [recent EXCEPT ![l.tab] = 0]
    BY <1>4 DEF FinishLoad
  <2> HIDE DEF r
  <2>3. InOrder(r, 0)
    BY <2>1 DEF Ordered, InOrder
  <2>4. QED
    BY <1>2, <2>1, <2>2, <2>3
<1>5. ASSUME NEW t \in Tabs, state' = [state EXCEPT ![t] = <<>>], recent' = [recent EXCEPT ![t] = 0]
      PROVE  Shown'
  <2> DEFINE r == <<>>
  <2>1. InOrder(r, 0) /\ IsInjective(r)
    BY EmptyInOrder
  <2>2. state' = [state EXCEPT ![t] = r]
    BY <1>5, Zenon
  <2> HIDE DEF r
  <2>3. QED
    BY <1>2, <1>5, <2>1, <2>2
<1>6. CASE UNCHANGED viewVars
  BY <1>6 DEF Shown, viewVars
<1>7. QED
  BY <1>3, <1>4, <1>5, <1>6, ViewSteps


-----------------------------------------------------------------------------
(***************************************************************************)
(* A load under way leaves no clear that is sure of its items: so what is  *)
(* about to be gone is not shown, and what is gone is nowhere.             *)
(***************************************************************************)
Visible == View \cup InFlight \cup ToSet(list)

Cleared ==
  /\ gone \cap Visible = {}
  /\ Pending \cap View = {}
  /\ loads = {} \/ Pending = {}

(* Nothing was cleared to begin with.                                      *)
LEMMA InitCleared == Init => Cleared
BY DEF Init, Cleared, Pending

(* Whatever becomes visible was visible, or is new altogether.             *)
LEMMA VisibleGrows ==
  ASSUME TypeOK, Recorded, [Next]_vars, NEW x \in Visible'
  PROVE  x \in Visible \/ x \notin Held
<1>1. CASE x \in View'
  BY <1>1, ViewGrows, Fresh DEF Visible
<1>2. CASE x \in InFlight'
  BY <1>2, FlightGrows, FlightGains DEF Visible
<1>3. CASE x \in ToSet(list')
  BY <1>3, ListGrows, Fresh DEF Visible
<1>4. QED
  BY <1>1, <1>2, <1>3 DEF Visible

(* A click marks what it clears, if it is undisturbed.                     *)
LEMMA PendingGrows ==
  ASSUME TypeOK, [Next]_vars
  PROVE  \/ Pending' \subseteq Pending /\ loads' \subseteq loads
         \/ Pending' = {}
         \/ \E l \in loads : GetHistory(l) /\ Pending' = Pending
         \/ \E t \in Tabs : /\ ClearHistory(t) /\ Undisturbed(t)
                            /\ Pending' \subseteq Pending \cup ClearedItems(t)
<1>1. ASSUME NEW t \in Tabs, StartLoad(t) \/ Reload(t) PROVE Pending' = {}
  <2>1. deletes' = Disturbed
    BY <1>1 DEF StartLoad, Reload
  <2>2. QED
    BY <2>1 DEF Pending, Disturbed
<1>2. ASSUME NEW l \in loads, GetHistory(l) PROVE Pending' = Pending
  BY <1>2 DEF GetHistory, Pending
<1>3. ASSUME NEW t \in Tabs, ClearHistory(t)
      PROVE  \/ Pending' \subseteq Pending /\ loads' \subseteq loads
             \/ Undisturbed(t) /\ Pending' \subseteq Pending \cup ClearedItems(t)
  <2>1. loads' = loads
    BY <1>3 DEF ClearHistory
  <2>2. CASE Undisturbed(t)
    <3>1. deletes' = deletes \cup {[click |-> clears', items |-> ClearedItems(t)]}
      BY <1>3, <2>2 DEF ClearHistory, SendDelete
    <3>2. Pending' \subseteq Pending \cup ClearedItems(t)
      BY <3>1 DEF Pending
    <3>3. QED
      BY <2>2, <3>2
  <2>3. CASE ~Undisturbed(t)
    <3>1. deletes' = deletes \cup {[click |-> clears', items |-> {}]}
      BY <1>3, <2>3 DEF ClearHistory, SendDelete
    <3>2. Pending' \subseteq Pending
      BY <3>1 DEF Pending
    <3>3. QED
      BY <2>1, <3>2
  <2>4. QED
    BY <2>2, <2>3
<1>4. CASE deletes' \subseteq deletes /\ loads' \subseteq loads
  BY <1>4 DEF Pending
<1>5. \/ deletes' \subseteq deletes /\ loads' \subseteq loads
      \/ \E t \in Tabs : StartLoad(t) \/ Reload(t)
      \/ \E l \in loads : GetHistory(l)
      \/ \E t \in Tabs : ClearHistory(t)
  BY DEF Next, Api, Hook, Net, Pushes, PushesNothing, Answered, Trims, Expires, PushFails,
         AddHistoryItem, FinishLoad, DeleteHistory, DeleteFails, vars
<1>6. QED
  BY <1>1, <1>2, <1>3, <1>4, <1>5

(* A clear leaves nothing of it to be seen, if it is undisturbed.          *)
LEMMA ClearedFromView ==
  ASSUME TypeOK, NEW t \in Tabs, ClearHistory(t), Undisturbed(t)
  PROVE  View' \cap ClearedItems(t) = {} /\ View' \subseteq View
<1>1. /\ state \in [Tabs -> Seq(Items)]
      /\ state' = [state EXCEPT ![t] = <<>>] /\ storage' = <<>>
  BY DEF ClearHistory, TypeOK
<1>2. ToSet(<<>>) = {}
  BY DEF ToSet
<1>3. \A u \in Tabs : u = t \/ (state'[u] = state[u] /\ ToSet(state[u]) \cap ClearedItems(t) = {})
  BY <1>1 DEF Undisturbed
<1>4. ToSet(state'[t]) = {} /\ ToSet(storage') = {}
  <2>1. state'[t] = <<>>
    BY <1>1, Zenon
  <2>2. QED
    BY <1>1, <1>2, <2>1
<1>5. QED
  BY <1>3, <1>4 DEF View

(* No step brings back what an undisturbed clear removed.                  *)
LEMMA NextCleared ==
  ASSUME TypeOK, Recorded, Cleared, [Next]_vars
  PROVE  Cleared'
<1>1. loads = {} => InFlight = {}
  BY DEF InFlight
<1>2. Pending \cap (View \cup InFlight) = {}
  BY <1>1 DEF Cleared
<1>3. gone' \cap Visible' = {}
  <2>1. gone \cap Visible' = {}
    BY VisibleGrows DEF Cleared, Held, Marked
  <2>2. ASSUME NEW d \in deletes, DeleteHistory(d) PROVE gone' \cap Visible' = {}
    <3>1. gone' = gone \cup d.items /\ list' = <<>>
      BY <2>2 DEF DeleteHistory
    <3>2. d.items \subseteq Pending
      BY DEF Pending, TypeOK, Deletes
    <3>3. View' = View /\ InFlight' = InFlight
      BY <2>2 DEF DeleteHistory, View, InFlight, viewVars
    <3>4. ToSet(list') = {}
      BY <3>1 DEF ToSet
    <3>5. Visible' = View' \cup InFlight' \cup ToSet(list')
      BY DEF Visible
    <3>6. QED
      BY <1>2, <2>1, <3>1, <3>2, <3>3, <3>4, <3>5
  <2>3. QED
    BY <2>1, <2>2, FlightSteps
<1>4. Pending' \cap View' = {}
  <2>1. CASE Pending' \subseteq Pending
    <3>1. \A x \in View' : x \in View \/ x \in InFlight \/ x \notin Held
      BY ViewGrows, Fresh
    <3>2. QED
      BY <1>2, <2>1, <3>1 DEF Held, Marked
  <2>2. ASSUME NEW t \in Tabs, ClearHistory(t), Undisturbed(t),
               Pending' \subseteq Pending \cup ClearedItems(t)
        PROVE  Pending' \cap View' = {}
    BY <1>2, <2>2, ClearedFromView
  <2>3. QED
    BY <2>1, <2>2, PendingGrows
<1>5. loads' = {} \/ Pending' = {}
  <2>1. CASE Pending' \subseteq Pending /\ loads' \subseteq loads
    BY <2>1 DEF Cleared
  <2>2. ASSUME NEW t \in Tabs, ClearHistory(t), Undisturbed(t) PROVE loads' = {}
    BY <2>2 DEF ClearHistory, Undisturbed
  <2>3. ASSUME NEW l \in loads, Pending' = Pending PROVE Pending' = {}
    BY <2>3 DEF Cleared
  <2>4. QED
    BY <2>1, <2>2, <2>3, PendingGrows
<1>6. QED
  BY <1>3, <1>4, <1>5 DEF Cleared

(* Nothing is shown to begin with.                                         *)
LEMMA InitShown == Init => Shown
<1> SUFFICES ASSUME Init, NEW t \in Tabs
             PROVE  InOrder(state[t], recent[t]) /\ IsInjective(state[t])
  BY DEF Shown
<1>1. state[t] = <<>> /\ recent[t] = 0
  BY DEF Init
<1>2. QED
  BY <1>1, EmptyInOrder

(* All of it together is inductive.                                        *)
HInv == TypeOK /\ Recorded /\ Shown /\ Cleared

(* The four parts hold together in every behaviour.                        *)
LEMMA HistoryInvariant == Spec => []HInv
<1>1. Init => HInv
  BY InitTypes, InitRecorded, InitShown, InitCleared DEF HInv
<1>2. HInv /\ [Next]_vars => HInv'
  <2> SUFFICES ASSUME HInv, [Next]_vars PROVE HInv'
    OBVIOUS
  <2>1. TypeOK /\ Recorded /\ Shown /\ Cleared
    BY DEF HInv
  <2>2. TypeOK'
    <3>1. PushTypes' /\ ViewTypes' /\ LoadTypes' /\ DeleteTypes'
      BY <2>1, PushTypesKept, ViewTypesKept, FlightTypesKept
    <3>2. QED
      BY <3>1 DEF TypeOK, PushTypes, ViewTypes, LoadTypes, DeleteTypes
  <2>3. Recorded' /\ Shown' /\ Cleared'
    BY <2>1, NextRecorded, NextShown, NextCleared
  <2>4. QED
    BY <2>2, <2>3 DEF HInv
<1>3. QED
  BY <1>1, <1>2, PTL DEF Spec

(***************************************************************************)
(* Every tab shows its items newest first behind the answers put in front  *)
(* since it was loaded, and each source's items everywhere, whatever the   *)
(* two clocks show (loadHistory, addHistoryItem).                          *)
(***************************************************************************)
THEOREM NewestFirst == Spec => []ShownNewestFirst
<1>1. HInv => ShownNewestFirst
  BY DEF HInv, Shown, InOrder, ShownNewestFirst
<1>2. QED
  BY <1>1, HistoryInvariant, PTL

(***************************************************************************)
(* No tab shows one recording twice, however often it merges what it has   *)
(* merged before (loadHistory).                                            *)
(***************************************************************************)
THEOREM ShownOnce == Spec => []NoItemTwice
<1>1. HInv => NoItemTwice
  BY DEF HInv, Shown, NoItemTwice
<1>2. QED
  BY <1>1, HistoryInvariant, PTL

(***************************************************************************)
(* What an undisturbed clear removed never comes back, in no tab, neither  *)
(* store and no load (clearHistory).                                       *)
(***************************************************************************)
THEOREM ClearedStaysGone == Spec => []ClearedIsGone
<1>1. HInv => ClearedIsGone
  <2> SUFFICES ASSUME HInv, NEW x \in gone, x \in Everywhere PROVE FALSE
    BY DEF ClearedIsGone
  <2>1. TypeOK /\ gone \cap Visible = {}
    BY DEF HInv, Cleared
  <2>2. x \in Items
    BY <2>1 DEF TypeOK
  <2>3. \/ x \in ToSet(storage) \/ x \in ToSet(list)
        \/ \E t \in Tabs : x \in ToSet(state[t])
        \/ \E l \in loads : x \in ToSet(l.local) \/ x \in ToSet(l.reply)
    BY DEF Everywhere
  <2>4. x \in Visible
    BY <2>2, <2>3 DEF Visible, View, InFlight
  <2>5. QED
    BY <2>1, <2>4
<1>2. QED
  BY <1>1, HistoryInvariant, PTL
=============================================================================
