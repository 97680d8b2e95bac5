--------------------------------- MODULE Crag ---------------------------------
(***************************************************************************)
(* crag_retrieve (pipeline/crag.py): retrieve chunks from LightRAG, drop   *)
(* those whose signature does not match, have a model score the others;    *)
(* if none is relevant, break the question up, retrieve for every part     *)
(* with a lower threshold, and merge.  Scores are in percent.              *)
(*                                                                         *)
(* LightRAG answers with a list of at most TopK chunks of the index in an  *)
(* order of its own, or with a text, which has no signature.               *)
(***************************************************************************)
EXTENDS PdfIngest, Functions

CONSTANTS
  TopK,
  Scores,       (* what the model may score a chunk: 0 for no number       *)
  MaxParts,     (* parts a question is broken into (bound of the model)    *)
  UseGraphRag   (* USE_GRAPHRAG                                            *)

RelevanceThreshold == 50
FallbackThreshold  == 30

ASSUME CragAssumption ==
  /\ TopK \in Nat /\ Scores \subseteq 0 .. 100
  /\ MaxParts \in Nat \ {0} /\ UseGraphRag \in BOOLEAN

VARIABLES
  rpc,          (* stage of the retrieval                                  *)
  parts,        (* sub-questions not yet retrieved for                     *)
  merged,       (* the scored chunks of the sub-questions so far           *)
  seen,         (* every scored chunk any sub-question gave                *)
  result,       (* CRAGResult.chunks                                       *)
  cited         (* CRAGResult.sources: score by page                       *)

cragVars == <<rpc, parts, merged, seen, result, cited>>

CragInit ==
  /\ rpc = "first" /\ parts = 0
  /\ merged = {} /\ seen = {}
  /\ result = <<>> /\ cited = {}

-----------------------------------------------------------------------------
(* _retrieve_and_score: what LightRAG may answer, scored, and what is kept.*)
Wrapped == [source |-> "lightrag", page |-> 0, at |-> 0, first |-> 0, last |-> 0,
            genuine |-> FALSE]

Lists   == {S \in SUBSET index : IsFiniteSet(S) /\ Cardinality(S) <= TopK}
Answers ==
  (UNION {{{[chunk |-> c, score |-> f[c]] : c \in S} : f \in [S -> Scores]} : S \in Lists})
    \cup {{[chunk |-> Wrapped, score |-> s]} : s \in Scores}

Key(h) == <<h.chunk.source, h.chunk.page, h.chunk.at>>

(* Slips: a missing signature taken for a good one; a chunk of a later     *)
(* sub-question that replaces a better one.                                *)
KeepUnsigned(hits, threshold) ==
  {h \in hits : (h.chunk.genuine \/ h.chunk.source = "lightrag") /\ h.score >= threshold}

MergedLast(old, new) == new \cup {h \in old : \A g \in new : Key(g) # Key(h)}

Keep(hits, threshold) == {h \in hits : h.chunk.genuine /\ h.score >= threshold}

(* The merge keeps the first of the best-scored versions of a chunk.       *)
Merged(old, new) ==
  {h \in old : ~ \E g \in new : Key(g) = Key(h) /\ g.score > h.score}
    \cup {g \in new : \A h \in old : Key(h) = Key(g) => g.score > h.score}

Orders(S) == Bijection(1 .. Cardinality(S), S)
BestFirst(q) == \A i, j \in DOMAIN q : i < j => q[i].score >= q[j].score

(* _build_sources: each page once, with the score of its first chunk.      *)
Page(h) == <<h.chunk.source, h.chunk.page>>
Sources(q) ==
  {[page |-> Page(q[i]), score |-> q[i].score] :
     i \in {j \in DOMAIN q : \A k \in 1 .. j - 1 : Page(q[k]) # Page(q[j])}}

-----------------------------------------------------------------------------
FirstPass ==
  /\ rpc = "first"
  /\ \E hits \in Answers :
       LET kept == Keep(hits, RelevanceThreshold) IN
       IF kept # {}
       THEN /\ \E q \in Orders(kept) : result' = q /\ cited' = Sources(q)
            /\ rpc' = "augment"
       ELSE /\ rpc' = "decompose"
            /\ UNCHANGED <<result, cited>>
  /\ UNCHANGED <<index, parts, merged, seen>>

Decompose ==
  /\ rpc = "decompose"
  /\ parts' \in 1 .. MaxParts
  /\ rpc' = "parts"
  /\ UNCHANGED <<index, merged, seen, result, cited>>

RetrievePart ==
  /\ rpc = "parts" /\ parts > 0
  /\ \E hits \in Answers :
       LET kept == Keep(hits, FallbackThreshold) IN
       /\ merged' = Merged(merged, kept)
       /\ seen' = seen \cup kept
  /\ parts' = parts - 1
  /\ UNCHANGED <<index, rpc, result, cited>>

Sort ==
  /\ rpc = "parts" /\ parts = 0
  /\ \E q \in Orders(merged) : BestFirst(q) /\ result' = q /\ cited' = Sources(q)
  /\ rpc' = "augment"
  /\ UNCHANGED <<index, parts, merged, seen>>

(* eval_llm or LightRAG raises: so does crag_retrieve.                     *)
RetrievalFails ==
  /\ rpc \in {"first", "decompose", "parts"}
  /\ rpc' = "raised"
  /\ UNCHANGED <<index, parts, merged, seen, result, cited>>

(* _maybe_augment_graphrag, whose failures are swallowed: a text of        *)
(* GraphRAG, which has no signature but is marked tamper_ok.               *)
FromGraphRag ==
  [chunk |-> [source |-> "graphrag", page |-> 0, at |-> 0, first |-> 0, last |-> 0,
              genuine |-> FALSE],
   score |-> 75]

Augment ==
  /\ rpc = "augment"
  /\ \/ /\ Len(result) < 2 /\ UseGraphRag
        /\ result' = Append(result, FromGraphRag)
        /\ cited' = cited \cup {[page |-> Page(FromGraphRag), score |-> FromGraphRag.score]}
     \/ UNCHANGED <<result, cited>>
  /\ rpc' = "done"
  /\ UNCHANGED <<index, parts, merged, seen>>

Retrieve == \/ FirstPass \/ Decompose \/ RetrievePart \/ Sort \/ RetrievalFails \/ Augment
=============================================================================
