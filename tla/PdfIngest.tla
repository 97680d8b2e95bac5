------------------------------ MODULE PdfIngest ------------------------------
(***************************************************************************)
(* Uploads of PDF files: ingest_pdf (routers/ingest.py) writes the file to *)
(* a temporary one, load_pdf (ingestion/pdf_loader.py) cuts the scrubbed   *)
(* text of each page into overlapping signed chunks, embed_and_store       *)
(* (ingestion/embed_and_store.py) puts them into a table of PostgreSQL,    *)
(* index_chunks (pipeline/lightrag_setup.py) inserts them into LightRAG    *)
(* one by one.  Uploads overlap: the slow steps run in threads.            *)
(*                                                                         *)
(* A file has a kind and, for each page, its number of tokens.  PyMuPDF,   *)
(* Presidio, the embedding model, PostgreSQL and LightRAG are outside      *)
(* src/: a file is damaged or not, each insertion succeeds or fails.       *)
(***************************************************************************)
EXTENDS Naturals, Sequences, FiniteSets

CONSTANTS
  Uploads,      (* requests, each with a temporary file name of its own    *)
  Files,        (* what may be uploaded                                    *)
  ChunkTokens, OverlapTokens,
  Postgres,     (* whether DB_BACKEND is postgres                          *)
  Troubles      (* which of {"disk", "table", "index"} may fail            *)

ASSUME PdfAssumption ==
  /\ OverlapTokens \in Nat /\ ChunkTokens \in Nat /\ OverlapTokens < ChunkTokens
  /\ Files \subseteq [kind : {"pdf", "damaged", "other", "large"}, pages : Seq(Nat)]
  /\ Postgres \in BOOLEAN

VARIABLES
  file,         (* the file of each upload                                 *)
  upc, status,  (* its stage, and the status it was answered with          *)
  temp,         (* the uploads whose temporary file exists                 *)
  todo,         (* the chunks of each upload that are not yet indexed      *)
  table,        (* document_chunks                                         *)
  index         (* LightRAG                                                *)

pdfVars == <<file, upc, status, temp, todo, table, index>>

PdfInit ==
  /\ file \in [Uploads -> Files]
  /\ upc = [u \in Uploads |-> "received"]
  /\ status = [u \in Uploads |-> 0]
  /\ temp = {}
  /\ todo = [u \in Uploads |-> {}]
  /\ table = {} /\ index = {}

-----------------------------------------------------------------------------
(* Slips: the window after the last one, inside the overlap, kept; the     *)
(* stride taken for the whole chunk, so that windows do not overlap; the   *)
(* temporary file removed on success only.                                 *)
Stride == ChunkTokens - OverlapTokens
EndOf(start, n) == IF start + ChunkTokens < n THEN start + ChunkTokens ELSE n

WindowsToTheEnd(n) ==
  {[first |-> k * Stride, last |-> EndOf(k * Stride, n), at |-> k] :
     k \in {j \in 0 .. n : j * Stride < n}}

AnswerKeepsFile(u, code) ==
  /\ status' = [status EXCEPT ![u] = code]
  /\ upc' = [upc EXCEPT ![u] = "answered"]
  /\ temp' = IF code = 200 THEN temp \ {u} ELSE temp

-----------------------------------------------------------------------------
(* _chunk_text: windows of ChunkTokens tokens, each Stride further on,     *)
(* until one ends with the text.                                           *)
Window(k, n) == [first |-> k * Stride, last |-> EndOf(k * Stride, n), at |-> k]

Windows(n) ==
  {Window(k, n) :
     k \in {j \in 0 .. n : j * Stride < n /\ \A i \in 0 .. j - 1 : Window(i, n).last # n}}

(* load_pdf: pages without text are skipped; the temporary file's name is  *)
(* the source; a chunk is genuine while its text matches its signature.    *)
Chunks(u) ==
  UNION {{[source |-> u, page |-> p, at |-> w.at, first |-> w.first, last |-> w.last,
           genuine |-> TRUE] : w \in Windows(file[u].pages[p])} :
         p \in DOMAIN file[u].pages}

(* The end of ingest_pdf, with its finally.                                *)
Answer(u, code) ==
  /\ status' = [status EXCEPT ![u] = code]
  /\ upc' = [upc EXCEPT ![u] = "answered"]
  /\ temp' = temp \ {u}

Refuse(u) ==
  /\ upc[u] = "received"
  /\ file[u].kind \in {"other", "large"}
  /\ Answer(u, IF file[u].kind = "other" THEN 400 ELSE 413)
  /\ UNCHANGED <<file, todo, table, index>>

WriteTemp(u) ==
  /\ upc[u] = "received"
  /\ file[u].kind \in {"pdf", "damaged"}
  /\ temp' = temp \cup {u}
  /\ upc' = [upc EXCEPT ![u] = "load"]
  /\ UNCHANGED <<file, status, todo, table, index>>

(* The write fails before the try, whose finally would remove the file.    *)
WriteFails(u) ==
  /\ upc[u] = "received" /\ "disk" \in Troubles
  /\ file[u].kind \in {"pdf", "damaged"}
  /\ temp' = temp \cup {u}
  /\ upc' = [upc EXCEPT ![u] = "lost"]
  /\ status' = [status EXCEPT ![u] = 500]
  /\ UNCHANGED <<file, todo, table, index>>

LoadFails(u) ==
  /\ upc[u] = "load" /\ file[u].kind = "damaged"
  /\ Answer(u, 500)
  /\ UNCHANGED <<file, todo, table, index>>

NoText(u) ==
  /\ upc[u] = "load" /\ file[u].kind = "pdf" /\ Chunks(u) = {}
  /\ Answer(u, 422)
  /\ UNCHANGED <<file, todo, table, index>>

Load(u) ==
  /\ upc[u] = "load" /\ file[u].kind = "pdf" /\ Chunks(u) # {}
  /\ todo' = [todo EXCEPT ![u] = Chunks(u)]
  /\ upc' = [upc EXCEPT ![u] = IF Postgres THEN "store" ELSE "index"]
  /\ UNCHANGED <<file, status, temp, table, index>>

(* embed_and_store inserts all rows or fails; a failure is only logged.    *)
Store(u) ==
  /\ upc[u] = "store"
  /\ upc' = [upc EXCEPT ![u] = "index"]
  /\ \/ table' = table \cup todo[u]
     \/ "table" \in Troubles /\ table' = table
  /\ UNCHANGED <<file, status, temp, todo, index>>

Before(c, d) == c.page < d.page \/ (c.page = d.page /\ c.at < d.at)

IndexOne(u) ==
  /\ upc[u] = "index"
  /\ \E c \in todo[u] :
       /\ \A d \in todo[u] \ {c} : Before(c, d)
       /\ index' = index \cup {c}
       /\ todo' = [todo EXCEPT ![u] = @ \ {c}]
  /\ IF todo'[u] = {} THEN Answer(u, 200) ELSE UNCHANGED <<status, upc, temp>>
  /\ UNCHANGED <<file, table>>

(* An insertion fails, or get_rag returned None: what was inserted stays.  *)
IndexFails(u) ==
  /\ upc[u] = "index" /\ "index" \in Troubles
  /\ Answer(u, 500)
  /\ UNCHANGED <<file, todo, table, index>>

Upload(u) == \/ Refuse(u) \/ WriteTemp(u) \/ WriteFails(u) \/ LoadFails(u) \/ NoText(u)
             \/ Load(u) \/ Store(u) \/ IndexOne(u) \/ IndexFails(u)
=============================================================================
