---------------------------- MODULE QueryHistory ----------------------------
(***************************************************************************)
(* The list of past questions.  Every browser tab keeps one in React state *)
(* and writes it through to the one localStorage                           *)
(* (frontend/hooks/use-query-history.ts); the Python API keeps the user's  *)
(* list in Redis (backend-python/api/routers/history.py) and pushes to it  *)
(* before it answers.  A tab loads by merging what localStorage held when  *)
(* the load began with what the API replies, and replaces both its state   *)
(* and localStorage by the result.                                         *)
(*                                                                         *)
(* An item is a question, the source that recorded it and the time it did: *)
(* time.time() of the API, or Date.now() of the browser.  These are two    *)
(* clocks; each goes forward only, and nothing else relates them.          *)
(***************************************************************************)
EXTENDS Naturals, FiniteSets, Sequences, SequencesExt

CONSTANTS
  Tabs,         (* browser tabs of one user                                *)
  MaxItems,     (* MAX_ITEMS of the hook, 50                               *)
  MaxList,      (* _MAX_ITEMS of the Redis list, 100                       *)
  PageSize,     (* entries GET /history returns, 50                        *)
  Faults,       (* what may fail: a subset of FaultKinds                   *)
  MaxQuestions, (* bound: questions asked                                  *)
  MaxTime,      (* bound: the clocks                                       *)
  MaxLoads,     (* bound: loads in flight at a time, over all tabs         *)
  MaxClears     (* bound: clicks on "clear"                                *)

FaultKinds ==
  { "redis",    (* a command of a push fails                               *)
    "get",      (* GET /history fails, is refused or has no token: []      *)
    "delete",   (* DELETE /history fails likewise; nobody looks            *)
    "quota",    (* localStorage.setItem throws                             *)
    "reload" }  (* the page is opened anew                                 *)

ASSUME HistoryAssumption ==
  /\ MaxItems \in Nat \ {0} /\ MaxList \in Nat \ {0} /\ PageSize \in Nat \ {0}
  /\ Faults \subseteq FaultKinds
  /\ MaxQuestions \in Nat /\ MaxTime \in Nat /\ MaxLoads \in Nat /\ MaxClears \in Nat

VARIABLES
  now,          (* per source: the time of its last recording              *)
  asked,        (* questions the agent has answered so far                 *)
  asking,       (* per tab: the question whose answer it receives, or 0    *)
  push,         (* per question: "no", "pushed", "trimmed" or "ended"      *)
  cut,          (* history: has a push ever been cut short?                *)
  list,         (* the Redis list, newest first                            *)
  expires,      (* has its key a time to live?                             *)
  state,        (* per tab: its React state                                *)
  recent,       (* history: answers put in front of it since it was loaded *)
  storage,      (* localStorage                                            *)
  loads,        (* loads in flight                                         *)
  deletes,      (* DELETE requests in flight                               *)
  clears,       (* clicks on "clear" so far                                *)
  gone          (* history: items that an undisturbed clear removed        *)

pushVars == <<push, cut, list, expires>>
viewVars == <<state, recent, storage>>
vars == <<now, asked, asking, pushVars, viewVars, loads, deletes, clears, gone>>

Questions == 1 .. MaxQuestions
Sources   == {"server", "client"}
Items     == [q : Questions, source : Sources, ts : 0 .. MaxTime]
(* A load: what localStorage held, and the API's reply once it is there.   *)
Loads     == [id : 1 .. MaxLoads, tab : Tabs, local : Seq(Items), replied : BOOLEAN,
              reply : Seq(Items)]
(* A DELETE: the items that are gone for good once it comes through, none  *)
(* if something has happened since the click that may bring them back.     *)
Deletes   == [click : 1 .. MaxClears, items : SUBSET Items]

TypeOK ==
  /\ now \in [Sources -> 0 .. MaxTime] /\ asked \in 0 .. MaxQuestions
  /\ asking \in [Tabs -> 0 .. asked]
  /\ push \in [Questions -> {"no", "pushed", "trimmed", "ended"}] /\ cut \in BOOLEAN
  /\ list \in Seq(Items) /\ expires \in BOOLEAN
  /\ state \in [Tabs -> Seq(Items)] /\ \A t \in Tabs : Len(state[t]) <= MaxItems
  /\ recent \in [Tabs -> 0 .. MaxItems]
  /\ storage \in Seq(Items) /\ Len(storage) <= MaxItems
  /\ loads \subseteq Loads /\ \A l \in loads : Len(l.reply) <= PageSize
  /\ deletes \subseteq Deletes
  /\ clears \in 0 .. MaxClears
  /\ gone \subseteq Items

Init ==
  /\ now = [s \in Sources |-> 0] /\ asked = 0 /\ asking = [t \in Tabs |-> 0]
  /\ push = [q \in Questions |-> "no"] /\ cut = FALSE
  /\ list = <<>> /\ expires = FALSE
  /\ state = [t \in Tabs |-> <<>>] /\ recent = [t \in Tabs |-> 0] /\ storage = <<>>
  /\ loads = {} /\ deletes = {} /\ clears = 0
  /\ gone = {}

FirstOf(s, n) == SubSeq(s, 1, IF Len(s) < n THEN Len(s) ELSE n)

(* Some time may have passed since the source's last recording, or none.   *)
TimePasses(source) ==
  \E ts \in now[source] .. MaxTime : now' = [now EXCEPT ![source] = ts]

(* localStorage.setItem, which throws when the quota is used up.           *)
Stores(items) == \/ storage' = items
                 \/ "quota" \in Faults /\ storage' = storage

-----------------------------------------------------------------------------
(***************************************************************************)
(* push_history_entry, when the agent has answered tab t's question:       *)
(* LPUSH, LTRIM and EXPIRE are three commands; the first that fails ends   *)
(* it, and the answer goes out all the same.                               *)
(***************************************************************************)
Answered(t) ==
  /\ asking[t] = 0 /\ asked < MaxQuestions
  /\ asked' = asked + 1
  /\ asking' = [asking EXCEPT ![t] = asked']
  /\ TimePasses("server")
  /\ UNCHANGED <<expires, viewVars, loads, deletes, clears, gone>>

Pushes(t) ==
  /\ Answered(t)
  /\ push' = [push EXCEPT ![asked'] = "pushed"]
  /\ list' = <<[q |-> asked', source |-> "server", ts |-> now'["server"]]>> \o list
  /\ UNCHANGED cut

PushesNothing(t) ==
  /\ "redis" \in Faults
  /\ Answered(t)
  /\ push' = [push EXCEPT ![asked'] = "ended"]
  /\ cut' = TRUE
  /\ UNCHANGED list

TrimsOneMore(q) ==                        (* a slip: LTRIM 0 _MAX_ITEMS    *)
  /\ push[q] = "pushed"
  /\ push' = [push EXCEPT ![q] = "trimmed"]
  /\ list' = FirstOf(list, MaxList + 1)
  /\ UNCHANGED <<now, asked, asking, cut, expires, viewVars, loads, deletes, clears, gone>>

Trims(q) ==
  /\ push[q] = "pushed"
  /\ push' = [push EXCEPT ![q] = "trimmed"]
  /\ list' = FirstOf(list, MaxList)
  /\ UNCHANGED <<now, asked, asking, cut, expires, viewVars, loads, deletes, clears, gone>>

Expires(q) ==
  /\ push[q] = "trimmed"
  /\ push' = [push EXCEPT ![q] = "ended"]
  /\ expires' = (list # <<>>)
  /\ UNCHANGED <<now, asked, asking, cut, list, viewVars, loads, deletes, clears, gone>>

PushFails(q) ==
  /\ "redis" \in Faults
  /\ push[q] \in {"pushed", "trimmed"}
  /\ push' = [push EXCEPT ![q] = "ended"]
  /\ cut' = TRUE
  /\ UNCHANGED <<now, asked, asking, list, expires, viewVars, loads, deletes, clears, gone>>

-----------------------------------------------------------------------------
(***************************************************************************)
(* The hook.                                                               *)
(***************************************************************************)
(* addHistoryItem, when the stream of tab t's answer is complete.  Its     *)
(* filter finds no item of the same id: an answer is recorded once.        *)
AddsWithoutLimit(t) ==                    (* a slip: no slice              *)
  /\ asking[t] # 0 /\ push[asking[t]] = "ended"
  /\ TimePasses("client")
  /\ asking' = [asking EXCEPT ![t] = 0]
  /\ LET next == <<[q |-> asking[t], source |-> "client", ts |-> now'["client"]]>> \o state[t]
     IN  state' = [state EXCEPT ![t] = next] /\ Stores(next)
  /\ recent' = [recent EXCEPT ![t] = IF @ < MaxItems THEN @ + 1 ELSE @]
  /\ UNCHANGED <<asked, pushVars, loads, deletes, clears, gone>>

AddHistoryItem(t) ==
  /\ asking[t] # 0 /\ push[asking[t]] = "ended"
  /\ TimePasses("client")
  /\ asking' = [asking EXCEPT ![t] = 0]
  /\ LET item == [q |-> asking[t], source |-> "client", ts |-> now'["client"]]
         next == FirstOf(<<item>> \o state[t], MaxItems)
     IN  state' = [state EXCEPT ![t] = next] /\ Stores(next)
  /\ recent' = [recent EXCEPT ![t] = IF @ < MaxItems THEN @ + 1 ELSE @]
  /\ UNCHANGED <<asked, pushVars, loads, deletes, clears, gone>>

Disturbed == {[click |-> d.click, items |-> {}] : d \in deletes}

LoadsWith(others, t) ==
  \E n \in 1 .. MaxLoads :
    /\ \A l \in others : l.id # n
    /\ loads' = others \cup {[id |-> n, tab |-> t, local |-> storage, replied |-> FALSE,
                             reply |-> <<>>]}

StartLoad(t) ==
  /\ LoadsWith(loads, t)
  /\ deletes' = Disturbed
  /\ UNCHANGED <<now, asked, asking, pushVars, viewVars, clears, gone>>

(* get_history; an error on the way is an empty list to the hook.          *)
Replied(l, reply) ==
  [id |-> l.id, tab |-> l.tab, local |-> l.local, replied |-> TRUE, reply |-> reply]

GetHistory(l) ==
  /\ ~l.replied
  /\ \E reply \in {FirstOf(list, PageSize)} \cup (IF "get" \in Faults THEN {<<>>} ELSE {}) :
       loads' = (loads \ {l}) \cup {Replied(l, reply)}
  /\ UNCHANGED <<now, asked, asking, pushVars, viewVars, deletes, clears, gone>>

SameKey(a, b) == a.q = b.q /\ a.ts = b.ts

(* The loop over [...backend, ...local]: the places whose key is new.      *)
FirstOnes(s) == {i \in DOMAIN s : \A j \in 1 .. i - 1 : ~SameKey(s[j], s[i])}

(* Array.sort is stable: of two items as new, the one in front stays there.*)
Newer(s, i, j) == s[i].ts > s[j].ts \/ (s[i].ts = s[j].ts /\ i < j)
Sorted(s, places) ==
  [n \in 1 .. Cardinality(places) |->
     s[CHOOSE i \in places : Cardinality({j \in places : Newer(s, j, i)}) = n - 1]]

(* Slips: no look at the keys; no sort.                                    *)
MergedAll(backend, local) ==
  LET s == backend \o local IN FirstOf(Sorted(s, DOMAIN s), MaxItems)
MergedUnsorted(backend, local) ==
  LET s      == backend \o local
      places == FirstOnes(s)
  IN  FirstOf([n \in 1 .. Cardinality(places) |->
                 s[CHOOSE i \in places : Cardinality({j \in places : j < i}) = n - 1]],
              MaxItems)

Merged(backend, local) ==
  LET s == backend \o local IN FirstOf(Sorted(s, FirstOnes(s)), MaxItems)

FinishLoad(l) ==
  /\ l.replied
  /\ LET sorted == Merged(l.reply, l.local)
     IN  state' = [state EXCEPT ![l.tab] = sorted] /\ Stores(sorted)
  /\ recent' = [recent EXCEPT ![l.tab] = 0]
  /\ loads' = loads \ {l}
  /\ UNCHANGED <<now, asked, asking, pushVars, deletes, clears, gone>>

(* clearHistory.  The click removes what tab t, localStorage and the API   *)
(* hold; it is disturbed by a load in flight and by another tab that shows *)
(* one of the items.                                                       *)
ClearedItems(t) == ToSet(state[t]) \cup ToSet(storage) \cup ToSet(list)

Undisturbed(t) ==
  loads = {} /\ \A u \in Tabs \ {t} : ToSet(state[u]) \cap ClearedItems(t) = {}

SendDelete(t) ==
  deletes' = deletes \cup {[click |-> clears',
                            items |-> IF Undisturbed(t) THEN ClearedItems(t) ELSE {}]}

ClearsStateOnly(t) ==                     (* a slip: localStorage is kept  *)
  /\ clears < MaxClears /\ clears' = clears + 1
  /\ state' = [state EXCEPT ![t] = <<>>] /\ recent' = [recent EXCEPT ![t] = 0]
  /\ SendDelete(t)
  /\ UNCHANGED <<now, asked, asking, pushVars, storage, loads, gone>>

ClearHistory(t) ==
  /\ clears < MaxClears /\ clears' = clears + 1
  /\ state' = [state EXCEPT ![t] = <<>>] /\ recent' = [recent EXCEPT ![t] = 0]
  /\ storage' = <<>>
  /\ SendDelete(t)
  /\ UNCHANGED <<now, asked, asking, pushVars, loads, gone>>

DeleteHistory(d) ==
  /\ list' = <<>> /\ expires' = FALSE
  /\ gone' = gone \cup d.items
  /\ deletes' = deletes \ {d}
  /\ UNCHANGED <<now, asked, asking, push, cut, viewVars, loads, clears>>

DeleteFails(d) ==
  /\ "delete" \in Faults
  /\ deletes' = deletes \ {d}
  /\ UNCHANGED <<now, asked, asking, pushVars, viewVars, loads, clears, gone>>

(* The page is opened anew: what it was waiting for is forgotten, and the  *)
(* first effect loads.                                                     *)
Reload(t) ==
  /\ "reload" \in Faults
  /\ asking' = [asking EXCEPT ![t] = 0]
  /\ state' = [state EXCEPT ![t] = <<>>] /\ recent' = [recent EXCEPT ![t] = 0]
  /\ LoadsWith({l \in loads : l.tab # t}, t)
  /\ deletes' = Disturbed
  /\ UNCHANGED <<now, asked, pushVars, storage, clears, gone>>

Api  == \/ \E t \in Tabs : Pushes(t) \/ PushesNothing(t)
        \/ \E q \in Questions : Trims(q) \/ Expires(q) \/ PushFails(q)
Hook == \E t \in Tabs : AddHistoryItem(t) \/ StartLoad(t) \/ ClearHistory(t) \/ Reload(t)
Net  == \/ \E l \in loads : GetHistory(l) \/ FinishLoad(l)
        \/ \E d \in deletes : DeleteHistory(d) \/ DeleteFails(d)

Next == Api \/ Hook \/ Net
Spec == Init /\ [][Next]_vars

-----------------------------------------------------------------------------
(***************************************************************************)
(* Every tab shows its items newest first, as far as the two clocks allow: *)
(* behind the answers that were put in front since its last load, which    *)
(* alone sorts, all items are in order; and everywhere the items that the  *)
(* browser recorded are in order among themselves, and so are the API's.   *)
(***************************************************************************)
ShownNewestFirst ==
  \A t \in Tabs : \A i, j \in DOMAIN state[t] :
    (i < j /\ (i > recent[t] \/ state[t][i].source = state[t][j].source)) =>
      state[t][i].ts >= state[t][j].ts

(***************************************************************************)
(* No tab shows one recording of a question twice, however often it loads  *)
(* what it has already merged into localStorage.                           *)
(***************************************************************************)
NoItemTwice == \A t \in Tabs : IsInjective(state[t])

(***************************************************************************)
(* Items that were cleared while no load was under way and no other tab    *)
(* showed them, and whose DELETE came through before the next load, are    *)
(* gone: no tab, neither store and no load has them ever again.            *)
(***************************************************************************)
Everywhere ==
  ToSet(storage) \cup ToSet(list)
    \cup (UNION {ToSet(state[t]) : t \in Tabs})
    \cup (UNION {ToSet(l.local) \cup ToSet(l.reply) : l \in loads})
ClearedIsGone == gone \cap Everywhere = {}

(***************************************************************************)
(* Between pushes the Redis list is no longer than MaxList and will        *)
(* expire, unless a push was cut short: overlapping pushes and DELETEs     *)
(* leave neither undone.                                                   *)
(***************************************************************************)
ListIsKeptShort ==
  (~cut /\ \A q \in Questions : push[q] \in {"no", "ended"}) =>
    Len(list) <= MaxList /\ (list # <<>> => expires)
=============================================================================
