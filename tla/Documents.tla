------------------------------ MODULE Documents ------------------------------
(***************************************************************************)
(* The documents' way in and out: uploads fill LightRAG's index while a    *)
(* retrieval reads it, and something outside the program may alter what is *)
(* stored, which the signatures are there for.                             *)
(***************************************************************************)
EXTENDS Crag

documentsVars == <<pdfVars, cragVars>>

DocumentsInit == PdfInit /\ CragInit

(* A stored text is altered; its signature no longer matches.              *)
Altered(c) == [c EXCEPT !.genuine = FALSE]

Tamper ==
  /\ "tamper" \in Troubles
  /\ \E c \in index :
       /\ c.genuine
       /\ index' = (index \ {c}) \cup {Altered(c)}
  /\ UNCHANGED <<file, upc, status, temp, todo, table, cragVars>>

UploadStep == (\E u \in Uploads : Upload(u)) /\ UNCHANGED cragVars
RetrieveStep == Retrieve /\ UNCHANGED <<file, upc, status, temp, todo, table>>

DocumentsNext == UploadStep \/ RetrieveStep \/ Tamper
DocumentsSpec == DocumentsInit /\ [][DocumentsNext]_documentsVars

-----------------------------------------------------------------------------
(* What an upload was told is true: with 200 every token of every page is  *)
(* in an indexed chunk, neighbouring chunks share OverlapTokens tokens and *)
(* none lies within another; with 400, 413 and 422 nothing was stored; and *)
(* whatever happened, no temporary file outlives its request, unless       *)
(* writing it failed.                                                      *)
Stored(S, u) == {c \in S : c.source = u}

Covers(S, u) ==
  \A p \in DOMAIN file[u].pages :
    LET ws == {c \in S : c.source = u /\ c.page = p} IN
    /\ \A i \in 0 .. file[u].pages[p] - 1 : \E c \in ws : c.first <= i /\ i < c.last
    /\ \A c, d \in ws : d.at = c.at + 1 => c.last - d.first = OverlapTokens
    /\ \A c, d \in ws : c # d => ~(c.first <= d.first /\ d.last <= c.last)

UploadAnswersTruly ==
  \A u \in Uploads :
    /\ status[u] = 200 => Covers(index, u)
    /\ status[u] \in {400, 413, 422} => Stored(index, u) = {} /\ Stored(table, u) = {}
    /\ u \in temp => upc[u] \in {"load", "store", "index", "lost"}

(* A decomposed retrieval returns every chunk its parts gave, once, with   *)
(* the best of its scores, best first; each page is cited with the score   *)
(* of its best chunk.                                                      *)
BestOfEachChunk ==
  rpc = "augment" /\ seen # {} =>
    LET Versions(h) == {g \in seen : Key(g) = Key(h)} IN
    /\ BestFirst(result)
    /\ \A h \in seen : \E i \in DOMAIN result :
         /\ Key(result[i]) = Key(h)
         /\ \A g \in Versions(h) : g.score <= result[i].score
         /\ \A j \in DOMAIN result : Key(result[j]) = Key(h) => j = i
    /\ \A s \in cited : \A i \in DOMAIN result :
         Page(result[i]) = s.page => result[i].score <= s.score

(* Whatever is altered in the index and whenever, a chunk is returned only *)
(* if its signature matched when it was read, in either pass; the one      *)
(* exception is GraphRAG's text, the last of at most two, which "signature *)
(* verified on every retrieved chunk" (README.md:269) does not allow for.  *)
UnsignedOnlyFromGraphRag ==
  \A i \in DOMAIN result :
    \/ result[i].chunk.genuine
    \/ UseGraphRag /\ result[i] = FromGraphRag /\ i = Len(result) /\ i <= 2
=============================================================================
