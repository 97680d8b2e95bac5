-------------------------- MODULE BulkLoader_proofs --------------------------
(***************************************************************************)
(* Proofs about the bulk loader: ingestFile, for every file, batch size    *)
(* and number of workers and every way a CopyFrom may fail; and main's     *)
(* pass, for every set of tables, keys and order of the files.             *)
(***************************************************************************)
EXTENDS IngestFile, IngestService, FiniteSetTheorems, SequenceTheorems, TLAPS

(***************************************************************************)
(* The inductive invariant.  A row that was read and is not in the table   *)
(* is in exactly one of the reader's batch, one place of the channel, and  *)
(* the hands of one copying worker ...                                     *)
(***************************************************************************)
Waiting(r) == r < next /\ r \in valid /\ copies[r] = 0

InOnePlace ==
  /\ \A r \in batch : Waiting(r)
  /\ \A i \in 1 .. Len(batchCh) : \A r \in batchCh[i] : Waiting(r) /\ r \notin batch
  /\ \A i, j \in 1 .. Len(batchCh) : i # j => batchCh[i] \cap batchCh[j] = {}
  /\ \A w \in Workers : wpc[w] = "copy" =>
       \A r \in hold[w] :
         /\ Waiting(r)
         /\ r \notin batch
         /\ \A i \in 1 .. Len(batchCh) : r \notin batchCh[i]
  /\ \A w, v \in Workers :
       (wpc[w] = "copy" /\ wpc[v] = "copy" /\ w # v) => hold[w] \cap hold[v] = {}
  /\ \A r \in RowIds : copies[r] # 0 => copies[r] = 1 /\ r \in valid /\ r < next

(* ... or in none if a worker failed.                                      *)
Accounted(r) ==
  \/ copies[r] = 1
  \/ r \in batch
  \/ \E i \in 1 .. Len(batchCh) : r \in batchCh[i]
  \/ \E w \in Workers : wpc[w] = "copy" /\ r \in hold[w]
  \/ \E w \in Workers : wpc[w] = "failed"

NoneLost == \A r \in valid : r < next => Accounted(r)

(* What the stages of the reader, the workers and the caller imply.        *)
Stages ==
  /\ rpc \in {"sendLast", "closed"} => next = NumRows + 1
  /\ rpc = "closed" => batch = {}
  /\ \A w \in Workers : wpc[w] = "done" => rpc = "closed" /\ batchCh = <<>>
  /\ mpc = "open" => \A w \in Workers : wpc[w] = "unborn"
  /\ mpc \in {"drain", "returned"} => \A w \in Workers :
       \/ wpc[w] = "done"
       \/ wpc[w] \in {"unborn", "failed"} /\ failed /\ mpc = "returned"

IInv == TypeOK /\ InOnePlace /\ NoneLost /\ Stages

-----------------------------------------------------------------------------
(* Sending to the channel and receiving from it.                           *)
LEMMA Sent ==
  ASSUME NEW S, NEW q \in Seq(S), NEW e \in S
  PROVE  /\ Append(q, e) \in Seq(S)
         /\ Len(q) \in Nat
         /\ Len(Append(q, e)) = Len(q) + 1
         /\ \A i \in 1 .. Len(q) : Append(q, e)[i] = q[i]
         /\ Append(q, e)[Len(q) + 1] = e
  OBVIOUS

(* Taking the first of a queue.                                            *)
LEMMA Received ==
  ASSUME NEW S, NEW q \in Seq(S), q # <<>>
  PROVE  /\ Tail(q) \in Seq(S)
         /\ Len(q) \in Nat
         /\ Len(q) >= 1
         /\ Len(Tail(q)) = Len(q) - 1
         /\ \A i \in 1 .. Len(q) - 1 : Tail(q)[i] = q[i + 1]
         /\ Head(q) = q[1]
         /\ Head(q) \in S
  OBVIOUS

(* A batch has a size.                                                     *)
LEMMA BatchIsFinite ==
  ASSUME NEW part \in SUBSET RowIds
  PROVE  Cardinality(part) \in Nat
<1>1. IsFiniteSet(RowIds)
  BY IngestAssumption, FS_Interval DEF RowIds
<1>2. IsFiniteSet(part)
  BY <1>1, FS_Subset
<1>3. QED
  BY <1>2, FS_CardinalityType

(* Nothing is read to begin with.                                          *)
LEMMA InitIInv == Init => IInv
<1> SUFFICES ASSUME Init PROVE IInv
  OBVIOUS
<1> USE IngestAssumption DEF Init, RowIds
<1>1. TypeOK
  <2>1. batchCh \in Seq(SUBSET RowIds) /\ insertedCh \in Seq(Nat)
    BY EmptySeq
  <2>2. hold \in [Workers -> SUBSET RowIds] /\ copies \in [RowIds -> Nat]
    OBVIOUS
  <2>3. valid \subseteq RowIds /\ batch \subseteq RowIds
    OBVIOUS
  <2>4. next \in 1 .. NumRows + 1 /\ total \in Nat
    OBVIOUS
  <2>5. failed \in BOOLEAN
    OBVIOUS
  <2>6. QED
    BY <2>1, <2>2, <2>3, <2>4, <2>5 DEF TypeOK
<1>2. InOnePlace
  BY DEF InOnePlace
<1>3. NoneLost
  BY DEF NoneLost
<1>4. Stages
  BY DEF Stages
<1>5. QED
  BY <1>1, <1>2, <1>3, <1>4 DEF IInv

(* The reader's steps.                                                     *)
LEMMA ReaderIInv == IInv /\ Reader => IInv'
<1> SUFFICES ASSUME IInv, Reader PROVE IInv'
  OBVIOUS
<1> USE IngestAssumption DEF IInv, TypeOK, RowIds, workerVars, callerVars
<1>1. CASE ReadRow
  <2> USE <1>1 DEF ReadRow
  <2>1. next \in RowIds /\ next' = next + 1 /\ batch' = batch \cup ({next} \cap valid)
    OBVIOUS
  <2>2. TypeOK'
    OBVIOUS
  <2>3. InOnePlace'
    <3>1. \A r \in RowIds : Waiting(r) => Waiting(r)' /\ r # next
      BY <2>1 DEF Waiting
    <3>2. \A r \in batch' : Waiting(r)'
      BY <2>1, <3>1 DEF InOnePlace, Waiting
    <3>3. \A i \in 1 .. Len(batchCh) : \A r \in batchCh[i] : r \in RowIds
      OBVIOUS
    <3>4. \A i \in 1 .. Len(batchCh) : \A r \in batchCh[i] :
            Waiting(r)' /\ r \notin batch'
      BY <2>1, <3>1, <3>3 DEF InOnePlace
    <3>5. \A w \in Workers : wpc[w] = "copy" =>
            \A r \in hold[w] : Waiting(r)' /\ r \notin batch'
      BY <2>1, <3>1 DEF InOnePlace
    <3>6. \A r \in RowIds : copies[r] # 0 => r < next'
      BY <2>1 DEF InOnePlace
    <3>7. QED
      BY <3>2, <3>4, <3>5, <3>6 DEF InOnePlace
  <2>4. NoneLost'
    <3> SUFFICES ASSUME NEW r \in valid, r < next' PROVE Accounted(r)'
      BY DEF NoneLost
    <3>1. CASE r = next
      BY <2>1, <3>1 DEF Accounted
    <3>2. CASE r # next
      BY <2>1, <3>2 DEF NoneLost, Accounted
    <3>3. QED
      BY <3>1, <3>2
  <2>5. Stages'
    BY DEF Stages
  <2>6. QED
    BY <2>2, <2>3, <2>4, <2>5
<1>2. CASE EndOfFile
  BY <1>2 DEF EndOfFile, InOnePlace, Waiting, NoneLost, Accounted, Stages
<1>3. CASE SendBatch
  <2> USE <1>3 DEF SendBatch
  <2> DEFINE n == Len(batchCh)
  <2>1. /\ batchCh' \in Seq(SUBSET RowIds)
        /\ n \in Nat
        /\ Len(batchCh') = n + 1
        /\ \A i \in 1 .. n : batchCh'[i] = batchCh[i]
        /\ batchCh'[n + 1] = batch
        /\ batch' = {}
    BY Sent
  <2>2. TypeOK'
    BY <2>1
  <2>3. InOnePlace'
    <3> HIDE DEF n
    <3>1. \A i \in 1 .. n + 1 : i \in 1 .. n \/ i = n + 1
      BY <2>1
    <3>2. \A r : Waiting(r)' <=> Waiting(r)
      BY DEF Waiting
    <3>3. \A i \in 1 .. n + 1 : \A r \in batchCh'[i] : Waiting(r)' /\ r \notin batch'
      BY <2>1, <3>1, <3>2 DEF InOnePlace, n
    <3>4. \A i, j \in 1 .. n + 1 : i # j => batchCh'[i] \cap batchCh'[j] = {}
      BY <2>1, <3>1 DEF InOnePlace, n
    <3>5. \A w \in Workers : wpc'[w] = "copy" =>
            \A r \in hold'[w] : Waiting(r)' /\ \A i \in 1 .. n + 1 : r \notin batchCh'[i]
      BY <2>1, <3>1, <3>2 DEF InOnePlace, n
    <3>6. QED
      BY <2>1, <3>3, <3>4, <3>5 DEF InOnePlace, Waiting
  <2>4. NoneLost'
    <3> SUFFICES ASSUME NEW r \in valid, r < next PROVE Accounted(r)'
      BY DEF NoneLost
    <3>1. CASE r \in batch
      BY <2>1, <3>1 DEF Accounted
    <3>2. CASE r \notin batch
      <4>1. \A i \in 1 .. n : i \in 1 .. Len(batchCh') /\ batchCh'[i] = batchCh[i]
        BY <2>1
      <4>2. Accounted(r)
        BY DEF NoneLost
      <4>3. QED
        BY <3>2, <4>1, <4>2 DEF Accounted
    <3>3. QED
      BY <3>1, <3>2
  <2>5. Stages'
    BY <2>1 DEF Stages
  <2>6. QED
    BY <2>2, <2>3, <2>4, <2>5
<1>4. CASE ReadErrorLasts
  BY <1>4 DEF ReadErrorLasts, InOnePlace, Waiting, NoneLost, Accounted, Stages
<1>5. QED
  BY <1>1, <1>2, <1>3, <1>4 DEF Reader

(***************************************************************************)
(* A worker's steps.                                                       *)
(***************************************************************************)
LEMMA TakeIInv == ASSUME NEW w \in Workers, IInv, TakeBatch(w) PROVE IInv'
<1> USE IngestAssumption DEF IInv, TypeOK, TakeBatch, readerVars, callerVars
<1> DEFINE n == Len(batchCh)
<1>1. /\ batchCh' \in Seq(SUBSET RowIds)
      /\ n \in Nat /\ n >= 1
      /\ Len(batchCh') = n - 1
      /\ \A i \in 1 .. n - 1 : batchCh'[i] = batchCh[i + 1]
      /\ Head(batchCh) = batchCh[1]
      /\ Head(batchCh) \in SUBSET RowIds
  BY Received
<1>2. /\ hold' = [hold EXCEPT ![w] = batchCh[1]]
      /\ wpc' = [wpc EXCEPT ![w] = IF Cancelled THEN "failed" ELSE "copy"]
      /\ \A v \in Workers \ {w} : wpc'[v] = wpc[v] /\ hold'[v] = hold[v]
      /\ hold'[w] = batchCh[1] /\ wpc'[w] \in {"failed", "copy"}
      /\ wpc'[w] = "failed" <=> Cancelled
      /\ wpc[w] = "recv"
  BY <1>1
<1>3. TypeOK'
  BY <1>1, <1>2
<1>4. InOnePlace'
  <2> HIDE DEF n
  <2>1. \A r : Waiting(r)' <=> Waiting(r)
    BY DEF Waiting
  <2>2. \A i \in 1 .. n - 1 : i + 1 \in 1 .. n /\ i + 1 # 1
    BY <1>1
  <2>3. 1 \in 1 .. n
    BY <1>1
  <2>4. \A i \in 1 .. n - 1 : \A r \in batchCh'[i] : Waiting(r)' /\ r \notin batch'
    BY <1>1, <2>1, <2>2 DEF InOnePlace, n
  <2>5. \A i, j \in 1 .. n - 1 : i # j => batchCh'[i] \cap batchCh'[j] = {}
    <3> SUFFICES ASSUME NEW i \in 1 .. n - 1, NEW j \in 1 .. n - 1, i # j
                 PROVE  batchCh'[i] \cap batchCh'[j] = {}
      OBVIOUS
    <3>1. i + 1 # j + 1
      BY <1>1
    <3>2. QED
      BY <1>1, <2>2, <3>1 DEF InOnePlace, n
  <2>6. ASSUME NEW v \in Workers, wpc'[v] = "copy", NEW r \in hold'[v]
        PROVE  /\ Waiting(r)'
               /\ r \notin batch'
               /\ \A i \in 1 .. n - 1 : r \notin batchCh'[i]
    <3>1. CASE v = w
      BY <1>1, <1>2, <2>1, <2>2, <2>3, <2>6, <3>1 DEF InOnePlace, n
    <3>2. CASE v # w
      BY <1>1, <1>2, <2>1, <2>2, <2>6, <3>2 DEF InOnePlace, n
    <3>3. QED
      BY <3>1, <3>2
  <2>7. ASSUME NEW u \in Workers, NEW v \in Workers,
               wpc'[u] = "copy", wpc'[v] = "copy", u # v
        PROVE  hold'[u] \cap hold'[v] = {}
    BY <1>2, <2>3, <2>7 DEF InOnePlace, n
  <2>8. QED
    BY <1>1, <2>1, <2>4, <2>5, <2>6, <2>7 DEF InOnePlace, n, Waiting
<1>5. NoneLost'
  <2> SUFFICES ASSUME NEW r \in valid, r < next PROVE Accounted(r)'
    BY DEF NoneLost
  <2>1. Accounted(r)
    BY DEF NoneLost
  <2>2. CASE \E i \in 1 .. n : r \in batchCh[i]
    <3>1. PICK i \in 1 .. n : r \in batchCh[i]
      BY <2>2
    <3>2. CASE i = 1
      BY <1>2, <3>1, <3>2 DEF Accounted
    <3>3. CASE i # 1
      <4>1. i - 1 \in 1 .. n - 1 /\ batchCh'[i - 1] = batchCh[i]
        BY <1>1, <3>3
      <4>2. QED
        BY <1>1, <3>1, <4>1 DEF Accounted
    <3>4. QED
      BY <3>2, <3>3
  <2>3. CASE copies[r] = 1 \/ r \in batch
    BY <2>3 DEF Accounted
  <2>4. CASE \E v \in Workers : wpc[v] = "copy" /\ r \in hold[v]
    BY <1>2, <2>4 DEF Accounted
  <2>5. CASE \E v \in Workers : wpc[v] = "failed"
    BY <1>2, <2>5 DEF Accounted
  <2>6. QED
    BY <2>1, <2>2, <2>3, <2>4, <2>5 DEF Accounted
<1>6. Stages'
  BY <1>1, <1>2 DEF Stages
<1>7. QED
  BY <1>3, <1>4, <1>5, <1>6

(* A commit moves the rows of one batch from a worker into the table.      *)
LEMMA CommitIInv ==
  ASSUME NEW w \in Workers, IInv, wpc[w] = "copy", Committed(w),
         NEW after \in {"report", "failed"},
         wpc' = [wpc EXCEPT ![w] = after],
         UNCHANGED <<valid, readerVars, batchCh, hold, insertedCh, callerVars>>
  PROVE  IInv'
<1> USE IngestAssumption DEF IInv, TypeOK, Committed, readerVars, callerVars
<1>1. /\ \A v \in Workers \ {w} : wpc'[v] = wpc[v]
      /\ wpc'[w] = after
      /\ \A r \in RowIds : copies'[r] = IF r \in hold[w] THEN copies[r] + 1 ELSE copies[r]
      /\ \A r \in hold[w] : r \in RowIds
  OBVIOUS
<1>2. TypeOK'
  OBVIOUS
<1>3. \A r \in hold[w] : copies[r] = 0 /\ r \in valid /\ r < next
  BY DEF InOnePlace, Waiting
<1>4. \A r \in RowIds : Waiting(r) /\ r \notin hold[w] => Waiting(r)'
  BY <1>1 DEF Waiting
<1>5. InOnePlace'
  <2>1. \A r \in batch : Waiting(r)'
    BY <1>4 DEF InOnePlace
  <2>2. \A i \in 1 .. Len(batchCh) : \A r \in batchCh[i] : r \in RowIds
    OBVIOUS
  <2>3. \A i \in 1 .. Len(batchCh) : \A r \in batchCh[i] : Waiting(r)' /\ r \notin batch
    BY <1>4, <2>2 DEF InOnePlace
  <2>4. \A v \in Workers : wpc'[v] = "copy" => v # w /\ wpc[v] = "copy"
    BY <1>1
  <2>5. \A v \in Workers : wpc'[v] = "copy" => \A r \in hold[v] : Waiting(r)'
    BY <1>4, <2>4 DEF InOnePlace
  <2>6. \A r \in RowIds : copies'[r] # 0 => copies'[r] = 1 /\ r \in valid /\ r < next
    BY <1>1, <1>3 DEF InOnePlace
  <2>7. QED
    BY <2>1, <2>3, <2>4, <2>5, <2>6 DEF InOnePlace
<1>6. NoneLost'
  <2> SUFFICES ASSUME NEW r \in valid, r < next PROVE Accounted(r)'
    BY DEF NoneLost
  <2>1. Accounted(r) /\ r \in RowIds
    BY DEF NoneLost
  <2>2. CASE r \in hold[w]
    BY <1>1, <1>3, <2>1, <2>2 DEF Accounted
  <2>3. CASE r \notin hold[w]
    BY <1>1, <2>1, <2>3 DEF Accounted
  <2>4. QED
    BY <2>2, <2>3
<1>7. Stages'
  BY <1>1 DEF Stages
<1>8. QED
  BY <1>2, <1>5, <1>6, <1>7

(* The workers' steps keep the invariant.                                  *)
LEMMA WorkerIInv == ASSUME NEW w \in Workers, IInv, Worker(w) PROVE IInv'
<1> USE IngestAssumption
<1>1. CASE TakeBatch(w)
  BY <1>1, TakeIInv
<1>2. CASE NoMoreBatches(w)
  BY <1>2 DEF NoMoreBatches, IInv, TypeOK, InOnePlace, Waiting, NoneLost,
              Accounted, Stages, readerVars, callerVars
<1>3. CASE CopySucceeds(w)
  BY <1>3, CommitIInv DEF CopySucceeds
<1>4. CASE CopyFails(w)
  <2>1. CASE Committed(w)
    BY <1>4, <2>1, CommitIInv DEF CopyFails
  <2>2. CASE UNCHANGED copies
    BY <1>4, <2>2 DEF CopyFails, IInv, TypeOK, InOnePlace, Waiting, NoneLost,
                      Accounted, Stages, readerVars, callerVars
  <2>3. QED
    BY <1>4, <2>1, <2>2 DEF CopyFails
<1>5. CASE ReportRows(w)
  <2> USE <1>5 DEF ReportRows, IInv, TypeOK, readerVars, callerVars
  <2>1. insertedCh' \in Seq(Nat)
    BY BatchIsFinite, Sent
  <2>2. TypeOK'
    BY <2>1
  <2>3. \A v \in Workers : wpc'[v] = "copy" => wpc[v] = "copy" /\ hold'[v] = hold[v]
    OBVIOUS
  <2>4. InOnePlace'
    BY <2>3 DEF InOnePlace, Waiting
  <2>5. NoneLost'
    BY DEF NoneLost, Accounted
  <2>6. Stages'
    BY DEF Stages
  <2>7. QED
    BY <2>2, <2>4, <2>5, <2>6
<1>6. QED
  BY <1>1, <1>2, <1>3, <1>4, <1>5 DEF Worker

(* The caller's steps change no row.                                       *)
LEMMA CallerIInv == IInv /\ Caller => IInv'
<1> SUFFICES ASSUME IInv, Caller PROVE IInv'
  OBVIOUS
<1> USE IngestAssumption DEF IInv, Caller, readerVars, workerVars
<1>1. TypeOK'
  <2>1. CASE AddRows
    <3>1. Tail(insertedCh) \in Seq(Nat) /\ Head(insertedCh) \in Nat
      BY <2>1, Received DEF AddRows, TypeOK
    <3>2. QED
      BY <2>1, <3>1 DEF AddRows, TypeOK
  <2>2. QED
    BY <2>1 DEF OpenFails, Launch, WaitFails, WaitSucceeds, Return, TypeOK
<1>2. /\ UNCHANGED <<valid, next, batch, batchCh, hold, copies>>
      /\ Launch \/ UNCHANGED <<rpc, wpc>>
  BY DEF OpenFails, Launch, WaitFails, WaitSucceeds, AddRows, Return
<1>3. InOnePlace' /\ NoneLost'
  <2>1. CASE Launch
    BY <1>2, <2>1 DEF Launch, Stages, InOnePlace, Waiting, NoneLost, Accounted
  <2>2. CASE UNCHANGED <<rpc, wpc>>
    BY <1>2, <2>2 DEF InOnePlace, Waiting, NoneLost, Accounted
  <2>3. QED
    BY <1>2, <2>1, <2>2
<1>4. Stages'
  BY <1>2 DEF Stages, TypeOK, OpenFails, Launch, WaitFails, WaitSucceeds, AddRows, Return,
              AllExited, Cancelled
<1>5. QED
  BY <1>1, <1>3, <1>4

(* Every step of ingestFile keeps the invariant.                           *)
LEMMA NextIInv == IInv /\ [Next]_vars => IInv'
<1> SUFFICES ASSUME IInv, [Next]_vars PROVE IInv'
  OBVIOUS
<1>1. CASE UNCHANGED vars
  BY <1>1 DEF vars, readerVars, workerVars, callerVars, IInv, TypeOK,
              InOnePlace, Waiting, NoneLost, Accounted, Stages
<1>2. QED
  BY <1>1, ReaderIInv, WorkerIInv, CallerIInv DEF Next

-----------------------------------------------------------------------------
(***************************************************************************)
(* The loader's variables keep their types.                                *)
(***************************************************************************)
THEOREM TypeCorrect == Spec => []TypeOK
<1>1. IInv => TypeOK
  BY DEF IInv
<1>2. QED
  BY InitIInv, NextIInv, <1>1, PTL DEF Spec

(***************************************************************************)
(* However its goroutines interleave and CopyFrom fails, ingestFile loads  *)
(* no row twice and no invalid row.                                        *)
(***************************************************************************)
THEOREM NoRowTwice == Spec => []AtMostOnce
<1>1. IInv => AtMostOnce
  BY DEF IInv, TypeOK, InOnePlace, AtMostOnce
<1>2. QED
  BY InitIInv, NextIInv, <1>1, PTL DEF Spec

(***************************************************************************)
(* A return without error means that every valid row of the file is in the *)
(* table and the reader has finished.                                      *)
(***************************************************************************)
THEOREM SuccessLoadsFile == Spec => []SuccessIsComplete
<1>1. IInv => SuccessIsComplete
  <2> SUFFICES ASSUME IInv, mpc \in {"drain", "returned"}, ~failed
               PROVE  rpc = "closed" /\ \A r \in valid : copies[r] = 1
    BY DEF SuccessIsComplete
  <2> USE IngestAssumption DEF IInv, TypeOK, RowIds
  <2>1. \A w \in Workers : wpc[w] = "done"
    BY DEF Stages
  <2>2. rpc = "closed" /\ batchCh = <<>> /\ next = NumRows + 1 /\ batch = {}
    BY <2>1 DEF Stages
  <2>3. ASSUME NEW r \in valid PROVE copies[r] = 1
    <3>1. Accounted(r)
      BY <2>2 DEF NoneLost
    <3>2. QED
      BY <2>1, <2>2, <3>1 DEF Accounted
  <2>4. QED
    BY <2>2, <2>3
<1>2. QED
  BY InitIInv, NextIInv, <1>1, PTL DEF Spec

-----------------------------------------------------------------------------
(***************************************************************************)
(* For the refinement of BulkLoad, where the rows stand that were copied:  *)
(* a worker about to report holds rows that are in the table, and no two   *)
(* such workers the same; every other copied row has been sent to          *)
(* insertedCh as part of one of its numbers, or received from it.          *)
(***************************************************************************)
Reporting(w) == wpc[w] = "report"

Handed == {r \in RowIds : copies[r] # 0 /\ \A w \in Workers : Reporting(w) => r \notin hold[w]}

InOneHand ==
  /\ \A w \in Workers : Reporting(w) => \A r \in hold[w] : copies[r] # 0
  /\ \A w, v \in Workers :
       (Reporting(w) /\ Reporting(v) /\ w # v) => hold[w] \cap hold[v] = {}

(* place[r] says which number counts row r: that at place[r] of insertedCh *)
(* or, if it is 0, total.                                                  *)
CountedBy(place) ==
  /\ Cardinality({r \in Handed : place[r] = 0}) = total
  /\ \A i \in 1 .. Len(insertedCh) :
       Cardinality({r \in Handed : place[r] = i}) = insertedCh[i]

Counted == Cancelled \/ \E place \in [RowIds -> 0 .. Len(insertedCh)] : CountedBy(place)

(* No batch is empty, and nothing is received before all workers exited.   *)
NoneEmpty ==
  /\ rpc \in {"send", "sendLast"} => batch # {}
  /\ \A i \in 1 .. Len(batchCh) : batchCh[i] # {}
  /\ \A w \in Workers : wpc[w] = "copy" => hold[w] # {}
  /\ mpc \in {"open", "wait"} => total = 0 /\ ~failed
  /\ failed => total = 0 /\ mpc = "returned"

RInv == IInv /\ InOneHand /\ Counted /\ NoneEmpty

(* Sizes of sets without a common element.                                 *)
LEMMA EmptySize == Cardinality({}) = 0
  BY FS_EmptySet

(* Sizes of disjoint finite sets add up.                                   *)
LEMMA DisjointSize ==
  ASSUME NEW S, NEW T, IsFiniteSet(S), IsFiniteSet(T), S \cap T = {}
  PROVE  Cardinality(S \cup T) = Cardinality(S) + Cardinality(T)
<1>1. Cardinality(S) \in Nat /\ Cardinality(T) \in Nat
  BY FS_CardinalityType
<1>2. Cardinality(S \cup T) = Cardinality(S) + Cardinality(T) - Cardinality(S \cap T)
  BY FS_Union
<1>3. Cardinality(S \cap T) = 0
  BY EmptySize, Zenon
<1>4. QED
  BY <1>1, <1>2, <1>3

(* At the start no row is copied and no number sent.                       *)
LEMMA InitRInv == Init => RInv
<1> SUFFICES ASSUME Init PROVE RInv
  OBVIOUS
<1> USE IngestAssumption DEF Init
<1>1. IInv
  BY InitIInv
<1>2. InOneHand /\ NoneEmpty
  BY DEF InOneHand, NoneEmpty, Reporting
<1>3. Counted
  <2> DEFINE place == [r \in RowIds |-> 0]
  <2>1. Handed = {}
    BY DEF Handed
  <2>2. place \in [RowIds -> 0 .. Len(insertedCh)]
    OBVIOUS
  <2>3. {r \in Handed : place[r] = 0} = {}
    BY <2>1
  <2>4. Cardinality({r \in Handed : place[r] = 0}) = total
    BY <2>3, EmptySize
  <2>5. \A i \in 1 .. Len(insertedCh) : FALSE
    OBVIOUS
  <2>6. CountedBy(place)
    BY <2>4, <2>5 DEF CountedBy
  <2>7. QED
    BY <2>2, <2>6 DEF Counted
<1>4. QED
  BY <1>1, <1>2, <1>3 DEF RInv

(* A step that hands over no row, and leaves the numbers sent and received *)
(* alone, leaves the account as it is.                                     *)
LEMMA SameAccount ==
  ASSUME Counted, Cancelled => Cancelled',
         UNCHANGED <<insertedCh, total>>,
         Handed' = Handed
  PROVE  Counted'
  BY DEF Counted, CountedBy

(* The reader's steps copy no row and send no empty batch.                 *)
LEMMA ReaderRInv == RInv /\ IInv' /\ Reader => RInv'
<1> SUFFICES ASSUME RInv, IInv', Reader PROVE RInv'
  OBVIOUS
<1> USE IngestAssumption DEF RInv, IInv, workerVars, callerVars
<1>1. UNCHANGED <<valid, wpc, hold, insertedCh, mpc, failed, total, copies>>
  BY DEF Reader, ReadRow, EndOfFile, SendBatch, ReadErrorLasts
<1>2. InOneHand'
  BY <1>1 DEF InOneHand, Reporting
<1>3. Counted'
  <2>1. Handed' = Handed /\ Cancelled' = Cancelled
    BY <1>1 DEF Handed, Reporting, Cancelled
  <2>2. QED
    BY <1>1, <2>1, SameAccount
<1>4. NoneEmpty'
  <2>1. CASE ReadRow
    <3>1. Cardinality(batch') >= BatchSize => batch' # {}
      BY EmptySize
    <3>2. QED
      BY <1>1, <2>1, <3>1 DEF ReadRow, NoneEmpty
  <2>2. CASE EndOfFile
    BY <1>1, <2>2 DEF EndOfFile, NoneEmpty
  <2>3. CASE SendBatch
    <3> DEFINE n == Len(batchCh)
    <3>1. /\ n \in Nat
          /\ Len(batchCh') = n + 1
          /\ \A i \in 1 .. n : batchCh'[i] = batchCh[i]
          /\ batchCh'[n + 1] = batch
      BY <2>3, Sent DEF SendBatch, TypeOK
    <3>2. \A i \in 1 .. n + 1 : i \in 1 .. n \/ i = n + 1
      BY <3>1
    <3>3. batch # {}
      BY <2>3 DEF SendBatch, NoneEmpty
    <3>4. \A i \in 1 .. Len(batchCh') : batchCh'[i] # {}
      <4> HIDE DEF n
      <4>1. \A i \in 1 .. n : batchCh[i] # {}
        BY DEF n, NoneEmpty
      <4>2. QED
        BY <3>1, <3>2, <3>3, <4>1
    <3>5. rpc' \in {"read", "closed"}
      BY <2>3 DEF SendBatch
    <3>6. QED
      BY <1>1, <3>4, <3>5 DEF NoneEmpty
  <2>4. CASE ReadErrorLasts
    BY <1>1, <2>4 DEF ReadErrorLasts, NoneEmpty
  <2>5. QED
    BY <2>1, <2>2, <2>3, <2>4 DEF Reader
<1>5. QED
  BY <1>2, <1>3, <1>4

(* The worker's steps.                                                     *)
LEMMA TakeRInv == ASSUME NEW w \in Workers, RInv, IInv', TakeBatch(w) PROVE RInv'
<1> USE DEF RInv, TakeBatch, readerVars, callerVars
<1>1. TypeOK
  BY DEF IInv
<1>2. /\ wpc[w] = "recv"
      /\ wpc'[w] \in {"failed", "copy"}
      /\ hold'[w] = Head(batchCh)
      /\ \A v \in Workers \ {w} : wpc'[v] = wpc[v] /\ hold'[v] = hold[v]
  BY <1>1 DEF TypeOK
<1>3. /\ Len(batchCh) \in Nat /\ Len(batchCh) >= 1
      /\ Len(batchCh') = Len(batchCh) - 1
      /\ \A i \in 1 .. Len(batchCh) - 1 : batchCh'[i] = batchCh[i + 1]
      /\ Head(batchCh) = batchCh[1]
  BY <1>1, Received DEF TypeOK
<1>4. \A v \in Workers : Reporting(v)' <=> Reporting(v) /\ v # w
  BY <1>2 DEF Reporting
<1>5. \A v \in Workers : Reporting(v) => v # w
  BY <1>2 DEF Reporting
<1>6. InOneHand'
  BY <1>2, <1>4 DEF InOneHand
<1>7. Handed' = Handed
  BY <1>2, <1>4, <1>5 DEF Handed
<1>8. Counted'
  <2>1. Cancelled => Cancelled'
    BY <1>2 DEF Cancelled
  <2>2. QED
    BY <1>7, <2>1, SameAccount
<1>9. NoneEmpty'
  <2>1. \A i \in 1 .. Len(batchCh) - 1 : i + 1 \in 1 .. Len(batchCh)
    BY <1>3
  <2>2. 1 \in 1 .. Len(batchCh)
    BY <1>3
  <2>3. \A i \in 1 .. Len(batchCh') : batchCh'[i] # {}
    BY <1>3, <2>1 DEF NoneEmpty
  <2>4. \A v \in Workers : wpc'[v] = "copy" => hold'[v] # {}
    BY <1>2, <1>3, <2>2 DEF NoneEmpty
  <2>5. QED
    BY <2>3, <2>4 DEF NoneEmpty
<1>10. QED
  BY <1>6, <1>8, <1>9

(* A batch that is copied counts once.                                     *)
LEMMA CopyRInv == ASSUME NEW w \in Workers, RInv, IInv', CopySucceeds(w) PROVE RInv'
<1> USE DEF RInv, CopySucceeds, Committed, readerVars, callerVars
<1>1. TypeOK /\ InOnePlace
  BY DEF IInv
<1>2. /\ wpc'[w] = "report"
      /\ wpc[w] = "copy"
      /\ \A v \in Workers \ {w} : wpc'[v] = wpc[v]
      /\ \A r \in RowIds : copies'[r] = IF r \in hold[w] THEN copies[r] + 1 ELSE copies[r]
      /\ hold[w] \subseteq RowIds
      /\ \A r \in RowIds : copies[r] \in Nat
      /\ hold' = hold
  BY <1>1 DEF TypeOK
<1>3. \A r \in hold[w] : copies[r] = 0
  BY <1>1, <1>2 DEF InOnePlace, Waiting
<1>4. \A r \in RowIds : copies'[r] # 0 <=> copies[r] # 0 \/ r \in hold[w]
  BY <1>2
<1>5. \A v \in Workers : Reporting(v)' <=> Reporting(v) \/ v = w
  BY <1>2 DEF Reporting
<1>6. \A v \in Workers : Reporting(v) => hold[v] \cap hold[w] = {}
  BY <1>2, <1>3 DEF InOneHand
<1>7. InOneHand'
  <2>1. \A v \in Workers : hold[v] \subseteq RowIds
    BY <1>1 DEF TypeOK
  <2>2. QED
    BY <1>2, <1>4, <1>5, <1>6, <2>1 DEF InOneHand
<1>8. Handed' = Handed
  <2>1. \A r \in RowIds : r \in Handed' <=> r \in Handed
    <3> SUFFICES ASSUME NEW r \in RowIds PROVE r \in Handed' <=> r \in Handed
      OBVIOUS
    <3>1. CASE r \in hold[w]
      BY <1>2, <1>3, <1>5, <3>1 DEF Handed
    <3>2. CASE r \notin hold[w]
      BY <1>2, <1>4, <1>5, <3>2 DEF Handed
    <3>3. QED
      BY <3>1, <3>2
  <2>2. QED
    BY <2>1 DEF Handed
<1>9. Counted'
  <2>1. UNCHANGED <<insertedCh, total>>
    OBVIOUS
  <2>2. Cancelled => Cancelled'
    BY <1>2 DEF Cancelled
  <2>3. QED
    BY <1>8, <2>1, <2>2, SameAccount
<1>10. NoneEmpty'
  BY <1>2 DEF NoneEmpty
<1>11. QED
  BY <1>7, <1>9, <1>10

(* A report hands the rows of one worker over to the last number sent.     *)
LEMMA ReportRInv == ASSUME NEW w \in Workers, RInv, IInv', ReportRows(w) PROVE RInv'
<1> USE DEF RInv, ReportRows, readerVars, callerVars
<1> DEFINE n == Len(insertedCh)
<1>1. TypeOK
  BY DEF IInv
<1>2. /\ wpc[w] = "report"
      /\ wpc'[w] = "recv"
      /\ hold'[w] = {}
      /\ hold[w] \subseteq RowIds
      /\ \A v \in Workers \ {w} : wpc'[v] = wpc[v] /\ hold'[v] = hold[v]
  BY <1>1 DEF TypeOK
<1>3. /\ n \in Nat
      /\ Len(insertedCh') = n + 1
      /\ \A i \in 1 .. n : insertedCh'[i] = insertedCh[i]
      /\ insertedCh'[n + 1] = Cardinality(hold[w])
  BY <1>1, <1>2, BatchIsFinite, Sent DEF TypeOK
<1> HIDE DEF n
<1>4. \A v \in Workers : Reporting(v)' <=> Reporting(v) /\ v # w
  BY <1>2 DEF Reporting
<1>5. Reporting(w)
  BY <1>2 DEF Reporting
<1>6. InOneHand'
  BY <1>2, <1>4 DEF InOneHand
<1>7. /\ \A r \in hold[w] : r \notin Handed
      /\ Handed' = Handed \cup hold[w]
  <2>1. \A r \in hold[w] : r \notin Handed
    BY <1>5 DEF Handed
  <2>2. \A r \in hold[w] : r \in Handed'
    BY <1>2, <1>4, <1>5 DEF InOneHand, Handed
  <2>3. \A r \in RowIds \ hold[w] : r \in Handed' <=> r \in Handed
    BY <1>2, <1>4 DEF Handed
  <2>4. QED
    BY <1>2, <2>1, <2>2, <2>3 DEF Handed
<1>8. Counted'
  <2>1. CASE Cancelled
    BY <1>2, <2>1 DEF Cancelled, Counted
  <2>2. CASE ~Cancelled
    <3>1. PICK place \in [RowIds -> 0 .. n] : CountedBy(place)
      BY <2>2 DEF Counted, n
    <3>2. [r \in RowIds |-> IF r \in hold[w] THEN n + 1 ELSE place[r]] \in [RowIds -> 0 .. n + 1]
      BY <1>3
    <3>3. PICK after \in [RowIds -> 0 .. n + 1] :
            \A r \in RowIds : after[r] = IF r \in hold[w] THEN n + 1 ELSE place[r]
      BY <3>2
    <3>4. Handed \subseteq RowIds
      BY DEF Handed
    <3>5. ASSUME NEW i \in 0 .. n
          PROVE  {r \in Handed' : after[r] = i} = {r \in Handed : place[r] = i}
      BY <1>2, <1>3, <1>7, <3>3, <3>4
    <3>6. {r \in Handed' : after[r] = n + 1} = hold[w]
      BY <1>2, <1>3, <1>7, <3>1, <3>3, <3>4
    <3>7. Cardinality({r \in Handed' : after[r] = 0}) = total'
      <4>1. 0 \in 0 .. n
        BY <1>3
      <4>2. {r \in Handed' : after[r] = 0} = {r \in Handed : place[r] = 0}
        BY <3>5, <4>1
      <4>3. QED
        BY <3>1, <4>2 DEF CountedBy
    <3>8. ASSUME NEW i \in 1 .. n + 1
          PROVE  Cardinality({r \in Handed' : after[r] = i}) = insertedCh'[i]
      <4>1. CASE i = n + 1
        BY <1>3, <3>6, <4>1
      <4>2. CASE i # n + 1
        <5>1. i \in 1 .. n /\ i \in 0 .. n
          BY <1>3, <4>2
        <5>2. QED
          BY <1>3, <3>1, <3>5, <5>1 DEF CountedBy, n
      <4>3. QED
        BY <4>1, <4>2
    <3>9. CountedBy(after)'
      BY <1>3, <3>7, <3>8 DEF CountedBy
    <3>10. QED
      BY <1>3, <3>3, <3>9 DEF Counted
  <2>3. QED
    BY <2>1, <2>2
<1>9. NoneEmpty'
  BY <1>2 DEF NoneEmpty
<1>10. QED
  BY <1>6, <1>8, <1>9

(* The workers' steps keep the counts.                                     *)
LEMMA WorkerRInv == ASSUME NEW w \in Workers, RInv, IInv', Worker(w) PROVE RInv'
<1>1. CASE TakeBatch(w)
  BY <1>1, TakeRInv
<1>2. CASE NoMoreBatches(w)
  <2> USE <1>2 DEF NoMoreBatches, readerVars, callerVars
  <2>1. \A v \in Workers : wpc'[v] = IF v = w THEN "done" ELSE wpc[v]
    BY DEF RInv, IInv, TypeOK
  <2>2. \A v \in Workers : Reporting(v)' <=> Reporting(v)
    BY <2>1 DEF Reporting
  <2>3. Handed' = Handed /\ InOneHand'
    BY <2>2 DEF RInv, Handed, InOneHand
  <2>4. Cancelled => Cancelled'
    BY <2>1 DEF Cancelled
  <2>5. Counted'
    BY <2>3, <2>4, SameAccount DEF RInv
  <2>6. NoneEmpty'
    BY <2>1 DEF RInv, NoneEmpty
  <2>7. QED
    BY <2>3, <2>5, <2>6 DEF RInv
<1>3. CASE CopySucceeds(w)
  BY <1>3, CopyRInv
<1>4. CASE CopyFails(w)
  <2> USE <1>4 DEF CopyFails, readerVars, callerVars
  <2>1. \A v \in Workers : wpc'[v] = IF v = w THEN "failed" ELSE wpc[v]
    BY DEF RInv, IInv, TypeOK
  <2>2. \A v \in Workers : Reporting(v)' <=> Reporting(v)
    BY <2>1 DEF Reporting
  <2>3. \A r \in RowIds : copies[r] # 0 => copies'[r] # 0
    BY DEF Committed, RInv, IInv, TypeOK
  <2>4. \A v \in Workers : hold[v] \subseteq RowIds
    BY DEF RInv, IInv, TypeOK
  <2>5. InOneHand'
    BY <2>2, <2>3, <2>4 DEF RInv, InOneHand
  <2>6. Counted'
    BY <2>1 DEF Counted, Cancelled
  <2>7. NoneEmpty'
    BY <2>1 DEF RInv, NoneEmpty
  <2>8. QED
    BY <2>5, <2>6, <2>7 DEF RInv
<1>5. CASE ReportRows(w)
  BY <1>5, ReportRInv
<1>6. QED
  BY <1>1, <1>2, <1>3, <1>4, <1>5 DEF Worker

(* The caller adds the first number of insertedCh to total.                *)
LEMMA AddRInv == RInv /\ IInv' /\ AddRows => RInv'
<1> SUFFICES ASSUME RInv, IInv', AddRows PROVE RInv'
  OBVIOUS
<1> USE IngestAssumption DEF RInv, AddRows, readerVars, workerVars
<1> DEFINE n == Len(insertedCh)
<1>1. TypeOK
  BY DEF IInv
<1>2. InOneHand' /\ Handed' = Handed /\ Cancelled' = Cancelled
  BY DEF InOneHand, Handed, Reporting, Cancelled
<1>3. NoneEmpty'
  BY DEF NoneEmpty
<1>4. /\ n \in Nat /\ n >= 1
      /\ Len(insertedCh') = n - 1
      /\ \A i \in 1 .. n - 1 : insertedCh'[i] = insertedCh[i + 1]
      /\ Head(insertedCh) = insertedCh[1]
  BY <1>1, Received DEF TypeOK
<1> HIDE DEF n
<1>5. CASE ~Cancelled
  <2>1. PICK place \in [RowIds -> 0 .. n] : CountedBy(place)
    BY <1>5 DEF Counted, n
  <2> DEFINE at(i) == {r \in Handed : place[r] = i}
  <2>2. [r \in RowIds |-> IF place[r] = 0 THEN 0 ELSE place[r] - 1] \in [RowIds -> 0 .. n - 1]
    BY <1>4
  <2>3. PICK after \in [RowIds -> 0 .. n - 1] :
          \A r \in RowIds : after[r] = IF place[r] = 0 THEN 0 ELSE place[r] - 1
    BY <2>2
  <2>4. Handed \subseteq RowIds
    BY DEF Handed
  <2>5. \A r \in RowIds : place[r] \in 0 .. n
    OBVIOUS
  <2>6. {r \in Handed : after[r] = 0} = at(0) \cup at(1)
    BY <2>3, <2>4, <2>5
  <2>7. ASSUME NEW i \in 1 .. n - 1
        PROVE  {r \in Handed : after[r] = i} = at(i + 1)
    <3>1. ASSUME NEW p \in Nat
          PROVE  (IF p = 0 THEN 0 ELSE p - 1) = i <=> p = i + 1
      BY <2>7
    <3>2. \A r \in Handed : /\ place[r] \in Nat
                             /\ after[r] = IF place[r] = 0 THEN 0 ELSE place[r] - 1
      BY <2>3, <2>4, <2>5
    <3>3. \A r \in Handed : after[r] = i <=> place[r] = i + 1
      BY <3>1, <3>2
    <3>4. QED
      BY <3>3
  <2>8. Cardinality(at(0) \cup at(1)) = Cardinality(at(0)) + Cardinality(at(1))
    <3>1. IsFiniteSet(RowIds)
      BY FS_Interval DEF RowIds
    <3>2. at(0) \subseteq RowIds /\ at(1) \subseteq RowIds /\ at(0) \cap at(1) = {}
      BY <2>4
    <3> HIDE DEF at
    <3>3. IsFiniteSet(at(0)) /\ IsFiniteSet(at(1))
      BY <3>1, <3>2, FS_Subset
    <3>4. QED
      BY <3>2, <3>3, DisjointSize
  <2>9. Cardinality(at(0)) = total /\ Cardinality(at(1)) = Head(insertedCh)
    <3>1. 1 \in 1 .. n
      BY <1>4
    <3>2. QED
      BY <1>4, <2>1, <3>1 DEF CountedBy, n
  <2>10. Cardinality({r \in Handed : after[r] = 0}) = total'
    BY <2>6, <2>8, <2>9
  <2>11. ASSUME NEW i \in 1 .. n - 1
         PROVE  Cardinality({r \in Handed : after[r] = i}) = insertedCh'[i]
    <3>1. i + 1 \in 1 .. n
      BY <1>4
    <3>2. QED
      BY <1>4, <2>1, <2>7, <3>1 DEF CountedBy, n
  <2>12. CountedBy(after)'
    BY <1>2, <1>4, <2>10, <2>11 DEF CountedBy
  <2>13. QED
    BY <1>2, <1>3, <1>4, <2>3, <2>12 DEF Counted
<1>6. CASE Cancelled
  BY <1>2, <1>3, <1>6 DEF Counted
<1>7. QED
  BY <1>5, <1>6

(* The caller's steps keep the counts.                                     *)
LEMMA CallerRInv == RInv /\ IInv' /\ Caller => RInv'
<1> SUFFICES ASSUME RInv, IInv', Caller PROVE RInv'
  OBVIOUS
<1>1. CASE AddRows
  BY <1>1, AddRInv
<1>2. CASE OpenFails \/ WaitFails \/ WaitSucceeds \/ Return
  <2>1. UNCHANGED <<copies, wpc, hold, batchCh, rpc, batch, insertedCh, total>>
    BY <1>2 DEF OpenFails, WaitFails, WaitSucceeds, Return, readerVars, workerVars
  <2>2. InOneHand' /\ Handed' = Handed /\ Cancelled' = Cancelled
    BY <2>1 DEF RInv, InOneHand, Handed, Reporting, Cancelled
  <2>3. Counted'
    BY <2>1, <2>2, SameAccount DEF RInv
  <2>4. NoneEmpty'
    BY <1>2, <2>1 DEF OpenFails, WaitFails, WaitSucceeds, Return, RInv, NoneEmpty
  <2>5. QED
    BY <2>2, <2>3, <2>4 DEF RInv
<1>3. CASE Launch
  <2>1. /\ \A w \in Workers : wpc[w] = "unborn" /\ wpc'[w] = "recv"
        /\ mpc' = "wait" /\ mpc = "open" /\ rpc' = "read"
        /\ UNCHANGED <<copies, hold, batchCh, batch, insertedCh, total, failed>>
    BY <1>3 DEF Launch, RInv, IInv, Stages
  <2>2. \A w \in Workers : ~Reporting(w) /\ ~Reporting(w)'
    BY <2>1 DEF Reporting
  <2>3. Handed' = Handed /\ InOneHand'
    BY <2>1, <2>2 DEF Handed, InOneHand
  <2>4. ~Cancelled
    BY <2>1 DEF Cancelled
  <2>5. Counted'
    BY <2>1, <2>3, <2>4, SameAccount DEF RInv
  <2>6. NoneEmpty'
    BY <2>1 DEF RInv, NoneEmpty
  <2>7. QED
    BY <2>3, <2>5, <2>6 DEF RInv
<1>4. QED
  BY <1>1, <1>2, <1>3 DEF Caller

(* Every step of ingestFile keeps the counts.                              *)
LEMMA NextRInv == RInv /\ [Next]_vars => RInv'
<1> SUFFICES ASSUME RInv, [Next]_vars PROVE RInv'
  OBVIOUS
<1>1. IInv'
  BY NextIInv DEF RInv
<1>2. CASE UNCHANGED vars
  <2>1. UNCHANGED <<copies, wpc, hold, batchCh, rpc, batch, insertedCh, total, mpc, failed>>
    BY <1>2 DEF vars, readerVars, workerVars, callerVars
  <2>2. InOneHand' /\ Handed' = Handed /\ Cancelled' = Cancelled /\ NoneEmpty'
    BY <2>1 DEF RInv, InOneHand, Handed, Reporting, Cancelled, NoneEmpty
  <2>3. QED
    BY <1>1, <2>1, <2>2, SameAccount DEF RInv
<1>3. QED
  BY <1>1, <1>2, ReaderRInv, WorkerRInv, CallerRInv DEF Next

-----------------------------------------------------------------------------
(***************************************************************************)
(* Every step of ingestFile is a step of BulkLoad or none: a commit adds   *)
(* the rows of one batch, a return ends the load, the rest is unseen.      *)
(***************************************************************************)
LEMMA CommitIsAdd ==
  ASSUME NEW w \in Workers, RInv, wpc[w] = "copy", Committed(w),
         UNCHANGED <<valid, mpc, failed, total>>
  PROVE  BL!Add
<1> USE DEF RInv, IInv
<1>1. mpc # "returned"
  BY DEF Stages
<1>2. hold[w] \subseteq RowIds /\ hold[w] # {}
  BY DEF TypeOK, NoneEmpty
<1>3. \A r \in hold[w] : copies[r] = 0 /\ r \in valid
  BY DEF InOnePlace, Waiting
<1>4. hold[w] \in (SUBSET BL!Missing) \ {{}}
  BY <1>2, <1>3 DEF BL!Missing
<1>5. copies' = [r \in RowIds |-> IF r \in hold[w] THEN 1 ELSE copies[r]]
  BY <1>2, <1>3 DEF Committed
<1>6. RowIds = BL!RowIds
  BY DEF RowIds, BL!RowIds
<1>7. QED
  BY <1>1, <1>4, <1>5, <1>6 DEF BL!Add

(* A return without error is the abstract success.                         *)
LEMMA ReturnIsSucceed == RInv /\ Return => BL!Succeed
<1> SUFFICES ASSUME RInv, Return PROVE BL!Succeed
  OBVIOUS
<1> USE IngestAssumption DEF RInv, IInv, Return, readerVars, workerVars
<1>1. \A w \in Workers : wpc[w] = "done"
  BY DEF Stages
<1>2. /\ rpc = "closed" /\ batchCh = <<>> /\ batch = {} /\ next = NumRows + 1
      /\ ~Cancelled
  BY <1>1 DEF Stages, Cancelled
<1>3. ASSUME NEW r \in valid PROVE copies[r] = 1
  <2>1. r \in RowIds
    BY DEF TypeOK
  <2>2. Accounted(r)
    BY <1>2, <2>1 DEF NoneLost, RowIds
  <2>3. QED
    BY <1>1, <1>2, <2>2 DEF Accounted
<1>4. Handed = valid
  BY <1>1, <1>3 DEF TypeOK, InOnePlace, Handed, Reporting
<1>5. total = Cardinality(valid)
  <2>1. Len(insertedCh) = 0
    OBVIOUS
  <2>2. PICK place \in [RowIds -> 0 .. 0] : CountedBy(place)
    BY <1>2, <2>1 DEF Counted
  <2>3. {r \in Handed : place[r] = 0} = valid
    BY <1>4 DEF TypeOK
  <2>4. QED
    BY <2>2, <2>3 DEF CountedBy
<1>6. BL!Missing = {}
  BY <1>3 DEF BL!Missing
<1>7. Cardinality(valid) = BL!Cardinality(valid)
  BY DEF Cardinality, BL!Cardinality
<1>8. QED
  BY <1>5, <1>6, <1>7 DEF BL!Succeed

(* Every step of ingestFile is one of BulkLoad, or leaves it as it is.     *)
LEMMA StepRefines == RInv /\ [Next]_vars => [BL!Next]_(BL!vars)
<1> SUFFICES ASSUME RInv, [Next]_vars PROVE BL!Next \/ UNCHANGED BL!vars
  OBVIOUS
<1> USE DEF BL!vars, readerVars, workerVars, callerVars
<1>1. CASE Reader \/ UNCHANGED vars
  BY <1>1 DEF Reader, ReadRow, EndOfFile, SendBatch, ReadErrorLasts, vars
<1>2. ASSUME NEW w \in Workers, Worker(w) PROVE BL!Next \/ UNCHANGED BL!vars
  <2>1. CASE TakeBatch(w) \/ NoMoreBatches(w) \/ ReportRows(w)
    BY <2>1 DEF TakeBatch, NoMoreBatches, ReportRows
  <2>2. CASE CopySucceeds(w)
    BY <2>2, CommitIsAdd DEF CopySucceeds, BL!Next
  <2>3. CASE CopyFails(w)
    BY <2>3, CommitIsAdd DEF CopyFails, BL!Next
  <2>4. QED
    BY <1>2, <2>1, <2>2, <2>3 DEF Worker
<1>3. CASE Caller
  <2>1. CASE OpenFails \/ WaitFails
    BY <2>1 DEF OpenFails, WaitFails, RInv, NoneEmpty, BL!Next, BL!Fail
  <2>2. CASE Launch \/ WaitSucceeds \/ AddRows
    BY <2>2 DEF Launch, WaitSucceeds, AddRows
  <2>3. CASE Return
    BY <2>3, ReturnIsSucceed DEF BL!Next
  <2>4. QED
    BY <1>3, <2>1, <2>2, <2>3 DEF Caller
<1>4. QED
  BY <1>1, <1>2, <1>3 DEF Next

(***************************************************************************)
(* ingestFile implements BulkLoad: what it returns without an error is the *)
(* number of the file's valid rows, all of them in the table by then, and  *)
(* nothing is added to the table after a return.                           *)
(***************************************************************************)
THEOREM LoadsAsPromised == Spec => Implements
<1>1. Init => BL!Init
  BY DEF Init, BL!Init, RowIds, BL!RowIds
<1>2. QED
  BY InitRInv, NextRInv, StepRefines, <1>1, PTL DEF Spec, BL!Spec, Implements
-----------------------------------------------------------------------------
(***************************************************************************)
(* main's pass over the files (IngestService).                             *)
(***************************************************************************)
(* Why main may leave the file at place i behind: its table is complete,   *)
(* or was filled in part by an earlier run, or has a parent that is not    *)
(* complete or comes at place i or later.                                  *)
LeftBehind(i) ==
  \/ Full(Files[i])
  \/ Partial(Files[i])
  \/ \E p \in Parents[Files[i]] : ~Full(p) \/ \E j \in i .. Len(Files) : Files[j] = p

(* An undisturbed run has itself copied all that the table it loads holds, *)
(* and left nothing behind without a reason.                               *)
PassInv ==
  /\ ServiceTypeOK
  /\ stage = "load" => pos <= Len(Files)
  /\ stage = "load" /\ undisturbed => rows[Table] = copied
  /\ stage # "down" /\ undisturbed => \A i \in 1 .. pos - 1 : LeftBehind(i)

(* What the assumptions say of the files, in single facts.                 *)
LEMMA PlaceOfTable ==
  /\ Len(Files) \in Nat
  /\ \A i \in 1 .. Len(Files) :
       /\ Files[i] \in Tables /\ Batches[Files[i]] \in Nat \ {0}
       /\ Parents[Files[i]] \subseteq Tables
  /\ WorkerCount \in Nat \ {0} /\ MaxFaults \in Nat
  /\ \A t \in Tables : Batches[t] \in Nat \ {0}
BY ServiceAssumption

(* No pass has begun.                                                      *)
LEMMA InitPassInv == ServiceInit => PassInv
<1> SUFFICES ASSUME ServiceInit PROVE PassInv
  OBVIOUS
<1>1. stage = "down" /\ pos = 1 /\ copied = 0 /\ faults = 0 /\ undisturbed = TRUE
  BY DEF ServiceInit
<1>2. rows \in [Tables -> Nat] /\ \A t \in Tables : rows[t] <= Batches[t]
  BY PlaceOfTable DEF ServiceInit
<1>3. undisturbed \in BOOLEAN
  BY <1>1, Zenon
<1>4. ServiceTypeOK
  BY <1>1, <1>2, <1>3, PlaceOfTable DEF ServiceTypeOK
<1>5. QED
  BY <1>1, <1>4 DEF PassInv

(* A fault, or none: what either does to the count and the history.        *)
LEMMA FaultOrNot ==
  ASSUME ServiceTypeOK, NEW kind, Fault(kind) \/ NoFault
  PROVE  /\ faults' \in 0 .. MaxFaults /\ undisturbed' \in BOOLEAN
         /\ undisturbed' => undisturbed /\ NoFault
<1>1. faults \in 0 .. MaxFaults /\ undisturbed \in BOOLEAN /\ MaxFaults \in Nat
  BY PlaceOfTable DEF ServiceTypeOK
<1>2. CASE Fault(kind)
  <2>1. faults < MaxFaults /\ faults' = faults + 1 /\ undisturbed' = FALSE
    BY <1>2 DEF Fault
  <2>2. undisturbed' \in BOOLEAN
    BY <2>1, Zenon
  <2>3. QED
    BY <1>1, <2>1, <2>2
<1>3. CASE NoFault
  BY <1>1, <1>3 DEF NoFault
<1>4. QED
  BY <1>2, <1>3

(* A reason to leave a file behind outlasts the batches copied later on.   *)
LEMMA CopyKeepsReasons ==
  ASSUME PassInv, CopyBatch, NEW i \in 1 .. pos - 1, LeftBehind(i)
  PROVE  LeftBehind(i)'
<1>1. /\ pos \in 1 .. Len(Files) /\ Len(Files) \in Nat /\ i \in 1 .. Len(Files)
      /\ rows \in [Tables -> Nat]
  BY PlaceOfTable DEF PassInv, ServiceTypeOK, CopyBatch
<1>2. Table \in Tables /\ Files[i] \in Tables
  BY <1>1, PlaceOfTable DEF Table
<1>3. /\ rows' = [rows EXCEPT ![Table] = rows[Table] + 1]
      /\ rows[Table] < Batches[Table]
  BY <1>2, PlaceOfTable DEF CopyBatch, Full, PassInv, ServiceTypeOK
<1>4. \A t \in Tables : /\ t # Table => rows'[t] = rows[t]
                        /\ t = Table => rows'[t] = rows[t] + 1 /\ rows[t] < Batches[t]
                        /\ rows[t] \in Nat /\ Batches[t] \in Nat
  BY <1>1, <1>3, PlaceOfTable
<1>5. CASE Full(Files[i])
  BY <1>2, <1>4, <1>5 DEF Full, LeftBehind
<1>6. CASE Partial(Files[i])
  BY <1>2, <1>4, <1>6 DEF Full, Partial, LeftBehind
<1>7. CASE \E p \in Parents[Files[i]] : ~Full(p) \/ \E j \in i .. Len(Files) : Files[j] = p
  <2>1. PICK p \in Parents[Files[i]] : ~Full(p) \/ \E j \in i .. Len(Files) : Files[j] = p
    BY <1>7
  <2>2. p \in Tables
    BY <1>1, PlaceOfTable
  <2>3. CASE p = Table
    <3>1. pos \in i .. Len(Files) /\ Files[pos] = p
      BY <1>1, <2>3 DEF Table
    <3>2. QED
      BY <3>1 DEF LeftBehind
  <2>4. CASE p # Table
    BY <1>4, <2>1, <2>2, <2>4 DEF Full, LeftBehind
  <2>5. QED
    BY <2>3, <2>4
<1>8. QED
  BY <1>5, <1>6, <1>7 DEF LeftBehind

(* main goes on to the next file, with a reason if it is undisturbed.      *)
LEMMA NextFilePassInv ==
  ASSUME PassInv, stage \in {"check", "load"}, pos <= Len(Files), stage' = "check",
         pos' = pos + 1, UNCHANGED <<rows, copied>>,
         faults' \in 0 .. MaxFaults, undisturbed' \in BOOLEAN,
         undisturbed' => undisturbed /\ LeftBehind(pos)
  PROVE  PassInv'
<1>1. pos \in 1 .. Len(Files) /\ Len(Files) \in Nat
  BY PlaceOfTable DEF PassInv, ServiceTypeOK
<1>2. ServiceTypeOK'
  BY <1>1 DEF PassInv, ServiceTypeOK
<1>3. \A i : LeftBehind(i)' <=> LeftBehind(i)
  BY DEF LeftBehind, Full, Partial
<1>4. undisturbed' => \A i \in 1 .. pos' - 1 : LeftBehind(i)
  BY <1>1 DEF PassInv
<1>5. QED
  BY <1>2, <1>3, <1>4 DEF PassInv

(* Every step of main keeps what is said of its pass.                      *)
LEMMA NextPassInv == PassInv /\ [ServiceNext]_serviceVars => PassInv'
<1> SUFFICES ASSUME PassInv, [ServiceNext]_serviceVars PROVE PassInv'
  OBVIOUS
<1> USE PlaceOfTable
<1>1. /\ pos \in 1 .. Len(Files) + 1 /\ rows \in [Tables -> Nat]
      /\ copied \in 0 .. 2 * WorkerCount /\ faults \in 0 .. MaxFaults
      /\ undisturbed \in BOOLEAN /\ stage \in {"down", "check", "load", "stranded"}
  BY DEF PassInv, ServiceTypeOK
<1>2. CASE Start
  <2>1. /\ stage' = "check" /\ pos' = 1 /\ undisturbed' = TRUE
        /\ UNCHANGED <<rows, copied, faults>>
    BY <1>2 DEF Start
  <2>2. undisturbed' \in BOOLEAN
    BY <2>1, Zenon
  <2>3. QED
    BY <1>1, <2>1, <2>2 DEF PassInv, ServiceTypeOK
<1>3. CASE SkipPopulated
  <2>1. LeftBehind(pos)
    BY <1>1, <1>3 DEF SkipPopulated, LeftBehind, Full, Partial, Table, PassInv, ServiceTypeOK
  <2>2. QED
    BY <1>1, <1>3, <2>1, NextFilePassInv DEF SkipPopulated, NoFault
<1>4. CASE BeginLoad
  <2>1. /\ stage' = "load" /\ pos <= Len(Files) /\ copied' = 0 /\ UNCHANGED <<pos, rows>>
        /\ stage = "check"
    BY <1>4 DEF BeginLoad
  <2>2. /\ faults' \in 0 .. MaxFaults /\ undisturbed' \in BOOLEAN
        /\ undisturbed' => undisturbed /\ NoFault
    BY <1>4, FaultOrNot DEF BeginLoad, PassInv
  <2>3. undisturbed' => rows[Table] = 0
    <3>1. Fault("countFails") => ~undisturbed'
      BY DEF Fault
    <3>2. QED
      BY <1>4, <3>1 DEF BeginLoad
  <2>4. \A i : LeftBehind(i)' <=> LeftBehind(i)
    BY <2>1 DEF LeftBehind, Full, Partial
  <2>5. QED
    BY <1>1, <2>1, <2>2, <2>3, <2>4 DEF PassInv, ServiceTypeOK, Table
<1>5. CASE CopyBatch
  <2>1. /\ stage = "load" /\ stage' = "load" /\ pos <= Len(Files) /\ pos' = pos
        /\ copied < 2 * WorkerCount /\ copied' = copied + 1 /\ UNCHANGED <<faults, undisturbed>>
    BY <1>5 DEF CopyBatch, NoFault, PassInv
  <2>2. Table \in Tables
    BY <1>1, <2>1 DEF Table
  <2>3. /\ rows' = [rows EXCEPT ![Table] = rows[Table] + 1]
        /\ rows[Table] < Batches[Table]
    BY <1>5, <2>2 DEF CopyBatch, Full, PassInv, ServiceTypeOK
  <2>4. ServiceTypeOK'
    BY <1>1, <2>1, <2>2, <2>3 DEF PassInv, ServiceTypeOK
  <2>5. undisturbed' => rows'[Table'] = copied'
    <3>1. Table' = Table
      BY <2>1 DEF Table
    <3>2. rows'[Table] = rows[Table] + 1
      BY <1>1, <2>2, <2>3
    <3>3. undisturbed' => rows[Table] = copied
      BY <2>1 DEF PassInv
    <3>4. QED
      BY <2>1, <3>1, <3>2, <3>3
  <2>6. undisturbed' => \A i \in 1 .. pos' - 1 : LeftBehind(i)'
    BY <1>5, <2>1, CopyKeepsReasons DEF PassInv
  <2>7. QED
    BY <2>1, <2>4, <2>5, <2>6 DEF PassInv
<1>6. CASE LoadSucceeds
  <2>1. undisturbed => LeftBehind(pos)
    BY <1>6 DEF LoadSucceeds, LeftBehind, Full, Table, PassInv
  <2>2. QED
    BY <1>1, <1>6, <2>1, NextFilePassInv DEF LoadSucceeds, NextFile, NoFault, PassInv
<1>7. CASE LoadFails
  <2>1. stage = "load" /\ pos <= Len(Files) /\ FailureOf(Table) /\ NextFile
    BY <1>7 DEF LoadFails, PassInv
  <2>2. /\ faults' \in 0 .. MaxFaults /\ undisturbed' \in BOOLEAN
        /\ undisturbed' => undisturbed /\ NoFault
    BY <2>1, FaultOrNot DEF FailureOf, PassInv
  <2>3. Fault("copyFails") => ~undisturbed'
    BY DEF Fault
  <2>4. undisturbed' => LeftBehind(pos)
    <3>1. undisturbed' => ~(rows[Table] > copied)
      BY <1>1, <2>1, <2>2 DEF PassInv
    <3>2. undisturbed' => \E p \in Parents[Table] : ~Full(p)
      BY <2>1, <2>3, <3>1 DEF FailureOf
    <3>3. QED
      BY <3>2 DEF LeftBehind, Table
  <2>5. QED
    BY <2>1, <2>2, <2>4, NextFilePassInv DEF NextFile
<1>8. CASE Exit \/ Killed \/ Strands
  <2>1. stage' \in {"down", "stranded"} /\ UNCHANGED <<pos, rows, copied>>
    BY <1>8 DEF Exit, Killed, Strands
  <2>2. faults' \in 0 .. MaxFaults /\ undisturbed' \in BOOLEAN
    BY <1>8, FaultOrNot DEF Exit, Killed, Strands, PassInv
  <2>3. stage' = "stranded" => ~undisturbed'
    BY <1>8 DEF Exit, Killed, Strands, Fault
  <2>4. QED
    BY <1>1, <2>1, <2>2, <2>3 DEF PassInv, ServiceTypeOK
<1>9. CASE UNCHANGED serviceVars
  <2>1. \A i : LeftBehind(i)' <=> LeftBehind(i)
    BY <1>9 DEF serviceVars, LeftBehind, Full, Partial
  <2>2. QED
    BY <1>9, <2>1 DEF serviceVars, PassInv, ServiceTypeOK, Table
<1>10. QED
  BY <1>2, <1>3, <1>4, <1>5, <1>6, <1>7, <1>8, <1>9 DEF ServiceNext, Main

(***************************************************************************)
(* main's variables keep their types; no table ever holds more than its    *)
(* file, whatever is killed and run again.                                 *)
(***************************************************************************)
THEOREM ServiceTypeCorrect == ServiceSpec => []ServiceTypeOK
<1>1. PassInv => ServiceTypeOK
  BY DEF PassInv
<1>2. QED
  BY InitPassInv, NextPassInv, <1>1, PTL DEF ServiceSpec

(***************************************************************************)
(* For every set of tables, keys and order of the files, one undisturbed   *)
(* run leaves out only what an earlier run left half filled and what its   *)
(* parents keep from being loaded (main).                                  *)
(***************************************************************************)
THEOREM OnlyThoseAreLeft == ServiceSpec => []LeftForLater
<1>1. PassInv => LeftForLater
  <2> SUFFICES ASSUME PassInv, Finished, undisturbed, NEW i \in 1 .. Len(Files)
               PROVE  LeftBehind(i)
    BY DEF LeftForLater, LeftBehind
  <2>1. i \in 1 .. pos - 1 /\ stage = "check"
    BY PlaceOfTable DEF Finished, PassInv, ServiceTypeOK
  <2>2. QED
    BY <2>1 DEF PassInv
<1>2. QED
  BY InitPassInv, NextPassInv, <1>1, PTL DEF ServiceSpec

(***************************************************************************)
(* A table that held rows when its turn came is not added to, unless the   *)
(* COUNT query failed in that run (main's skip).                           *)
(***************************************************************************)
THEOREM PopulatedIsSkipped == ServiceSpec => PopulatedLeftAlone
<1>1. PassInv /\ [ServiceNext]_serviceVars =>
        [(CopyBatch /\ undisturbed) => rows[Table] = copied]_serviceVars
  BY DEF PassInv, CopyBatch
<1>2. QED
  BY InitPassInv, NextPassInv, <1>1, PTL DEF ServiceSpec, PopulatedLeftAlone
=============================================================================
