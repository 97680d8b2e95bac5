----------------------------- MODULE IngestFile -----------------------------
(***************************************************************************)
(* ingestFile of the Go bulk loader (backend-go/ingestion/main.go): one    *)
(* goroutine reads the CSV file and sends batches over batchCh to a pool   *)
(* of workers; each worker copies a batch into PostgreSQL and sends the    *)
(* number of rows over insertedCh; the caller waits for the errgroup and   *)
(* only then receives from insertedCh.                                     *)
(*                                                                         *)
(* PostgreSQL and pgx are outside src/: a CopyFrom adds all rows of its    *)
(* batch or none, and an error may hide a commit whose answer was lost.    *)
(***************************************************************************)
EXTENDS Naturals, Sequences, FiniteSets

CONSTANTS
  NumRows,      (* data rows of the file, numbered in file order           *)
  BatchSize,    (* BATCH_SIZE                                              *)
  Workers,      (* the worker goroutines, WORKERS of them                  *)
  Faults        (* what may go wrong: a CopyFrom is refused, or its answer *)
                (* lost; the file cannot be opened, or not be read on      *)

ASSUME IngestAssumption ==
  /\ NumRows \in Nat
  /\ BatchSize \in Nat \ {0}
  /\ IsFiniteSet(Workers) /\ Workers # {}
  /\ Faults \subseteq {"refused", "answerLost", "unreadable"}

RowIds      == 1 .. NumRows
BatchCap    == 2 * Cardinality(Workers)
InsertedCap == Cardinality(Workers)

VARIABLES
  valid,        (* the rows that parse and pass validateRow                *)
  rpc, next, batch,     (* reader: stage, next row, rows collected so far  *)
  batchCh,      (* channel of batches                                      *)
  wpc, hold,    (* workers: stage and batch in hand                        *)
  insertedCh,   (* channel of row counts                                   *)
  mpc, failed, total,   (* caller: stage, error returned?, rows returned   *)
  copies        (* the table: how many times it holds each row             *)

readerVars == <<rpc, next, batch>>
workerVars == <<wpc, hold>>
callerVars == <<mpc, failed, total>>
vars == <<valid, readerVars, batchCh, workerVars, insertedCh, callerVars, copies>>

TypeOK ==
  /\ valid \subseteq RowIds
  /\ rpc \in {"unborn", "read", "send", "sendLast", "closed", "spin"}
  /\ next \in 1 .. NumRows + 1
  /\ batch \subseteq RowIds
  /\ batchCh \in Seq(SUBSET RowIds)
  /\ wpc \in [Workers -> {"unborn", "recv", "copy", "report", "done", "failed"}]
  /\ hold \in [Workers -> SUBSET RowIds]
  /\ insertedCh \in Seq(Nat)
  /\ mpc \in {"open", "wait", "drain", "returned"}
  /\ failed \in BOOLEAN
  /\ total \in Nat
  /\ copies \in [RowIds -> Nat]

Init ==
  /\ valid \in SUBSET RowIds
  /\ rpc = "unborn" /\ next = 1 /\ batch = {}
  /\ batchCh = <<>>
  /\ wpc = [w \in Workers |-> "unborn"]
  /\ hold = [w \in Workers |-> {}]
  /\ insertedCh = <<>>
  /\ mpc = "open" /\ failed = FALSE /\ total = 0
  /\ copies = [r \in RowIds |-> 0]

-----------------------------------------------------------------------------
(* Slips, each of which some property below must notice: io.EOF taken for  *)
(* a bad row; the rest of the file forgotten; the reader gone without      *)
(* closing batchCh; batch used again after it was sent; the error of       *)
(* g.Wait ignored.                                                         *)
ReadsOnAtEnd ==
  /\ rpc = "read"
  /\ next' = next + 1
  /\ batch' = batch \cup ({next} \cap valid)
  /\ rpc' = IF Cardinality(batch') >= BatchSize THEN "send" ELSE "read"
  /\ UNCHANGED <<valid, batchCh, workerVars, insertedCh, callerVars, copies>>

ForgetsRest ==
  /\ rpc = "read"
  /\ next > NumRows
  /\ rpc' = "closed"
  /\ UNCHANGED <<valid, next, batch, batchCh, workerVars, insertedCh, callerVars, copies>>

LeavesOpen ==
  /\ rpc = "read"
  /\ next > NumRows
  /\ rpc' = IF batch # {} THEN "sendLast" ELSE "unborn"
  /\ UNCHANGED <<valid, next, batch, batchCh, workerVars, insertedCh, callerVars, copies>>

KeepsBatch ==
  /\ rpc \in {"send", "sendLast"}
  /\ Len(batchCh) < BatchCap
  /\ batchCh' = Append(batchCh, batch)
  /\ rpc' = IF rpc = "send" THEN "read" ELSE "closed"
  /\ UNCHANGED <<valid, next, batch, workerVars, insertedCh, callerVars, copies>>

IgnoresError ==
  /\ mpc = "wait"
  /\ \A w \in Workers : wpc[w] \in {"done", "failed"}
  /\ mpc' = "returned"
  /\ UNCHANGED <<valid, readerVars, batchCh, workerVars, insertedCh, failed, total, copies>>

-----------------------------------------------------------------------------
(***************************************************************************)
(* The reader.  A row that does not parse or validate is skipped; a full   *)
(* batch is sent, which blocks while batchCh is full; at the end of the    *)
(* file the rest is sent and the channel closed.                           *)
(***************************************************************************)
ReadRow ==
  /\ rpc = "read"
  /\ next <= NumRows
  /\ next' = next + 1
  /\ batch' = batch \cup ({next} \cap valid)
  /\ rpc' = IF Cardinality(batch') >= BatchSize THEN "send" ELSE "read"
  /\ UNCHANGED <<valid, batchCh, workerVars, insertedCh, callerVars, copies>>

EndOfFile ==
  /\ rpc = "read"
  /\ next > NumRows
  /\ rpc' = IF batch # {} THEN "sendLast" ELSE "closed"
  /\ UNCHANGED <<valid, next, batch, batchCh, workerVars, insertedCh, callerVars, copies>>

SendBatch ==
  /\ rpc \in {"send", "sendLast"}
  /\ Len(batchCh) < BatchCap
  /\ batchCh' = Append(batchCh, batch)
  /\ batch' = {}
  /\ rpc' = IF rpc = "send" THEN "read" ELSE "closed"
  /\ UNCHANGED <<valid, next, workerVars, insertedCh, callerVars, copies>>

(* Read fails, and not with io.EOF, each time it is called: the loop goes  *)
(* on for ever.  ingestFile has returned and closed the file, or the file  *)
(* cannot be read on.                                                      *)
ReadErrorLasts ==
  /\ rpc = "read"
  /\ mpc = "returned" \/ "unreadable" \in Faults
  /\ rpc' = "spin"
  /\ UNCHANGED <<valid, next, batch, batchCh, workerVars, insertedCh, callerVars, copies>>

-----------------------------------------------------------------------------
(***************************************************************************)
(* A worker.  The first error cancels the errgroup's context: a CopyFrom   *)
(* started later fails at once, one under way may still go either way.     *)
(***************************************************************************)
Cancelled == \E w \in Workers : wpc[w] = "failed"

TakeBatch(w) ==
  /\ wpc[w] = "recv"
  /\ batchCh # <<>>
  /\ batchCh' = Tail(batchCh)
  /\ hold' = [hold EXCEPT ![w] = Head(batchCh)]
  /\ wpc' = [wpc EXCEPT ![w] = IF Cancelled THEN "failed" ELSE "copy"]
  /\ UNCHANGED <<valid, readerVars, insertedCh, callerVars, copies>>

NoMoreBatches(w) ==
  /\ wpc[w] = "recv"
  /\ batchCh = <<>>
  /\ rpc = "closed"
  /\ wpc' = [wpc EXCEPT ![w] = "done"]
  /\ UNCHANGED <<valid, readerVars, batchCh, hold, insertedCh, callerVars, copies>>

Committed(w) ==
  copies' = [r \in RowIds |-> IF r \in hold[w] THEN copies[r] + 1 ELSE copies[r]]

CopySucceeds(w) ==
  /\ wpc[w] = "copy"
  /\ Committed(w)
  /\ wpc' = [wpc EXCEPT ![w] = "report"]
  /\ UNCHANGED <<valid, readerVars, batchCh, hold, insertedCh, callerVars>>

CopyFails(w) ==
  /\ wpc[w] = "copy"
  /\ \/ ("refused" \in Faults \/ Cancelled) /\ UNCHANGED copies
     \/ "answerLost" \in Faults /\ Committed(w)
  /\ wpc' = [wpc EXCEPT ![w] = "failed"]
  /\ UNCHANGED <<valid, readerVars, batchCh, hold, insertedCh, callerVars>>

ReportRows(w) ==
  /\ wpc[w] = "report"
  /\ Len(insertedCh) < InsertedCap
  /\ insertedCh' = Append(insertedCh, Cardinality(hold[w]))
  /\ hold' = [hold EXCEPT ![w] = {}]
  /\ wpc' = [wpc EXCEPT ![w] = "recv"]
  /\ UNCHANGED <<valid, readerVars, batchCh, callerVars, copies>>

-----------------------------------------------------------------------------
(***************************************************************************)
(* The caller.  os.Open or the header may fail before any goroutine is     *)
(* launched.  g.Wait returns when every worker has; with an error the call *)
(* returns at once, and totalInserted is still 0.                          *)
(***************************************************************************)
OpenFails ==
  /\ mpc = "open"
  /\ "unreadable" \in Faults
  /\ mpc' = "returned"
  /\ failed' = TRUE
  /\ UNCHANGED <<valid, readerVars, batchCh, workerVars, insertedCh, total, copies>>

Launch ==
  /\ mpc = "open"
  /\ mpc' = "wait"
  /\ rpc' = "read"
  /\ wpc' = [w \in Workers |-> "recv"]
  /\ UNCHANGED <<valid, next, batch, batchCh, hold, insertedCh, failed, total, copies>>

AllExited == \A w \in Workers : wpc[w] \in {"done", "failed"}

WaitFails ==
  /\ mpc = "wait"
  /\ AllExited
  /\ Cancelled
  /\ mpc' = "returned"
  /\ failed' = TRUE
  /\ UNCHANGED <<valid, readerVars, batchCh, workerVars, insertedCh, total, copies>>

WaitSucceeds ==
  /\ mpc = "wait"
  /\ AllExited
  /\ ~Cancelled
  /\ mpc' = "drain"
  /\ UNCHANGED <<valid, readerVars, batchCh, workerVars, insertedCh, failed, total, copies>>

AddRows ==
  /\ mpc = "drain"
  /\ insertedCh # <<>>
  /\ total' = total + Head(insertedCh)
  /\ insertedCh' = Tail(insertedCh)
  /\ UNCHANGED <<valid, readerVars, batchCh, workerVars, mpc, failed, copies>>

Return ==
  /\ mpc = "drain"
  /\ insertedCh = <<>>
  /\ mpc' = "returned"
  /\ UNCHANGED <<valid, readerVars, batchCh, workerVars, insertedCh, failed, total, copies>>

Reader    == ReadRow \/ EndOfFile \/ SendBatch \/ ReadErrorLasts
Worker(w) == \/ TakeBatch(w) \/ NoMoreBatches(w) \/ CopySucceeds(w)
             \/ CopyFails(w) \/ ReportRows(w)
Caller    == OpenFails \/ Launch \/ WaitFails \/ WaitSucceeds \/ AddRows \/ Return

Next == Reader \/ (\E w \in Workers : Worker(w)) \/ Caller

Spec == Init /\ [][Next]_vars

(* Goroutines are scheduled, and a CopyFrom returns.                       *)
FairSpec ==
  /\ Spec
  /\ WF_vars(Reader)
  /\ \A w \in Workers : WF_vars(Worker(w))
  /\ WF_vars(Caller)

-----------------------------------------------------------------------------
(***************************************************************************)
(* No row is loaded twice, and no invalid row at all, however batches,     *)
(* workers, cancellation and lost answers interleave.                      *)
(***************************************************************************)
AtMostOnce == \A r \in RowIds : copies[r] <= (IF r \in valid THEN 1 ELSE 0)

(***************************************************************************)
(* A return without error means that the whole file is in the table, the   *)
(* partly filled last batch included, and that the reader is finished, so  *)
(* that the caller reads skippedRows after its last write.                 *)
(***************************************************************************)
SuccessIsComplete ==
  (mpc \in {"drain", "returned"} /\ ~failed) =>
    /\ rpc = "closed"
    /\ \A r \in valid : copies[r] = 1

(***************************************************************************)
(* ingestFile keeps the promise of BulkLoad: what it returns without an    *)
(* error is the number of the file's valid rows, all of them in the table, *)
(* and no row is added once it has returned.                               *)
(***************************************************************************)
BL == INSTANCE BulkLoad WITH
        ended <- (mpc = "returned"),
        total <- IF mpc = "returned" THEN total ELSE 0

Implements == BL!Spec

(***************************************************************************)
(* ingestFile ends, whatever fails, except in two ways: every worker that  *)
(* has not exited waits for room in insertedCh, which nobody receives from *)
(* before all workers have exited; or the file cannot be read on, so that  *)
(* the reader never closes batchCh.                                        *)
(***************************************************************************)
Jammed ==
  /\ Len(insertedCh) = InsertedCap
  /\ \E w \in Workers : wpc[w] = "report"
  /\ \A w \in Workers : wpc[w] \in {"report", "done", "failed"}

Stranded == rpc = "spin" /\ \E w \in Workers : wpc[w] = "recv"

ReturnsOrHangs == <>(mpc = "returned" \/ Jammed \/ Stranded)
=============================================================================
