---------------------------- MODULE IngestService ----------------------------
(***************************************************************************)
(* main of the Go bulk loader (backend-go/ingestion/main.go): one pass     *)
(* over the CSV files in directory order, skipping the tables that already *)
(* have rows, over a database that outlives the process.  The container    *)
(* exits after the pass, or is killed during it, and is started again by   *)
(* hand ("make ingest-csv").                                               *)
(*                                                                         *)
(* A table is the number of its file's batches that it holds.  ingestFile  *)
(* is the load that BulkLoad describes: it adds missing batches, returns   *)
(* without error only when the table is complete, and does not return at   *)
(* all once more batches than insertedCh can take have been copied, or     *)
(* when the file cannot be read on (see IngestFile).  The tables' keys are *)
(* PostgreSQL's: a batch that is already there, or whose parent rows are   *)
(* missing, is refused.                                                    *)
(***************************************************************************)
EXTENDS Naturals, Sequences, SequencesExt

CONSTANTS
  Files,        (* the CSV files' tables, in the order of os.ReadDir       *)
  Parents,      (* the tables each table references                        *)
  Batches,      (* number of batches of each table's file                  *)
  WorkerCount,  (* WORKERS                                                 *)
  RunFaults,    (* what may go wrong: some of FaultKinds                   *)
  MaxFaults     (* bound: faults in one behaviour                          *)

Tables == ToSet(Files)

FaultKinds ==
  { "countFails",       (* the query that counts a table's rows            *)
    "copyFails",        (* opening the file, or a CopyFrom                 *)
    "unreadable",       (* the file, from some row on                      *)
    "killed" }          (* the container                                   *)

ASSUME ServiceAssumption ==
  /\ Files \in Seq(Tables) /\ Parents \in [Tables -> SUBSET Tables]
  /\ Batches \in [Tables -> Nat \ {0}]
  /\ WorkerCount \in Nat \ {0}
  /\ RunFaults \subseteq FaultKinds
  /\ MaxFaults \in Nat

VARIABLES
  stage,        (* "down", or what main does now: "check", "load", or      *)
                (* "stranded" in a load whose file cannot be read on       *)
  pos,          (* the entry of Files it is at                             *)
  rows,         (* batches in each table                                   *)
  copied,       (* batches copied by the ingestFile under way              *)
  faults,       (* faults so far                                           *)
  undisturbed   (* history: this run has met no fault so far               *)

serviceVars == <<stage, pos, rows, copied, faults, undisturbed>>

Full(t)  == rows[t] = Batches[t]
AllFull  == \A t \in Tables : Full(t)
Table    == Files[pos]
Finished == stage = "check" /\ pos > Len(Files)

ServiceTypeOK ==
  /\ stage \in {"down", "check", "load", "stranded"}
  /\ pos \in 1 .. Len(Files) + 1
  /\ rows \in [Tables -> Nat] /\ \A t \in Tables : rows[t] <= Batches[t]
  /\ copied \in 0 .. 2 * WorkerCount
  /\ faults \in 0 .. MaxFaults
  /\ undisturbed \in BOOLEAN

(* The schema has been applied; each table is empty or was loaded before.  *)
ServiceInit ==
  /\ stage = "down"
  /\ pos = 1
  /\ rows \in {f \in [Tables -> {0} \cup {Batches[t] : t \in Tables}] :
                 \A t \in Tables :
                   /\ f[t] \in {0, Batches[t]}
                   /\ f[t] > 0 => \A p \in Parents[t] : f[p] = Batches[p]}
  /\ copied = 0
  /\ faults = 0
  /\ undisturbed = TRUE

Fault(kind) ==
  /\ kind \in RunFaults
  /\ faults < MaxFaults
  /\ faults' = faults + 1
  /\ undisturbed' = FALSE

NoFault == UNCHANGED <<faults, undisturbed>>

Start ==
  /\ stage = "down"
  /\ stage' = "check"
  /\ pos' = 1
  /\ undisturbed' = TRUE
  /\ UNCHANGED <<rows, copied, faults>>

(* Why ingestFile returns an error: a batch of t was there already, or a   *)
(* parent table is incomplete, and no worker waits for room in insertedCh; *)
(* or CopyFroms failed, and what more was copied than insertedCh can take  *)
(* are batches of theirs whose answers were lost.                          *)
FailureOf(t) ==
  \/ /\ rows[t] > copied \/ \E p \in Parents[t] : ~Full(p)
     /\ copied <= WorkerCount
     /\ NoFault
  \/ Fault("copyFails")

(* Slips: every file ingested, whatever its table holds; tables without    *)
(* their keys; the pass given up at the first error; the file tried again. *)
BeginsAlways ==
  /\ stage = "check"
  /\ pos <= Len(Files)
  /\ stage' = "load"
  /\ copied' = 0
  /\ UNCHANGED <<pos, rows>>
  /\ NoFault

CopyWithoutKeys ==
  /\ stage = "load"
  /\ copied < 2 * WorkerCount
  /\ rows' = [rows EXCEPT ![Table] = @ + 1]
  /\ copied' = copied + 1
  /\ UNCHANGED <<stage, pos>>
  /\ NoFault

GivesUp ==
  /\ stage = "load"
  /\ FailureOf(Table)
  /\ stage' = "check"
  /\ pos' = Len(Files) + 1
  /\ UNCHANGED <<rows, copied>>

TriesAgain ==
  /\ stage = "load"
  /\ FailureOf(Table)
  /\ stage' = "check"
  /\ UNCHANGED <<pos, rows, copied>>

(* SELECT COUNT finds rows: the table is skipped.                          *)
SkipPopulated ==
  /\ stage = "check"
  /\ pos <= Len(Files)
  /\ rows[Table] > 0
  /\ pos' = pos + 1
  /\ UNCHANGED <<stage, rows, copied>>
  /\ NoFault

(* The table is empty, or the query failed: its file is ingested.          *)
BeginLoad ==
  /\ stage = "check"
  /\ pos <= Len(Files)
  /\ \/ rows[Table] = 0 /\ NoFault
     \/ Fault("countFails")
  /\ stage' = "load"
  /\ copied' = 0
  /\ UNCHANGED <<pos, rows>>

(* A worker copies a batch that is missing and whose parents may be there. *)
CopyBatch ==
  /\ stage = "load"
  /\ ~Full(Table)
  /\ \A p \in Parents[Table] : rows[p] > 0
  /\ copied < 2 * WorkerCount
  /\ rows' = [rows EXCEPT ![Table] = @ + 1]
  /\ copied' = copied + 1
  /\ UNCHANGED <<stage, pos>>
  /\ NoFault

NextFile ==
  /\ stage' = "check"
  /\ pos' = pos + 1
  /\ UNCHANGED <<rows, copied>>

(* Every batch of the file was copied by this call, and reported.          *)
LoadSucceeds ==
  /\ stage = "load"
  /\ copied = Batches[Table]
  /\ copied <= WorkerCount
  /\ NextFile
  /\ NoFault

(* ingestFile returns an error, which main logs before it goes on.         *)
LoadFails ==
  /\ stage = "load"
  /\ FailureOf(Table)
  /\ NextFile

(* The reader goroutine fails for ever; ingestFile does not return.        *)
Strands ==
  /\ stage = "load"
  /\ Fault("unreadable")
  /\ stage' = "stranded"
  /\ UNCHANGED <<pos, rows, copied>>

Exit ==
  /\ Finished
  /\ stage' = "down"
  /\ UNCHANGED <<pos, rows, copied>>
  /\ NoFault

Killed ==
  /\ stage # "down"
  /\ Fault("killed")
  /\ stage' = "down"
  /\ UNCHANGED <<pos, rows, copied>>

Main == SkipPopulated \/ BeginLoad \/ CopyBatch \/ LoadSucceeds \/ LoadFails \/ Exit

ServiceNext == Start \/ Main \/ Strands \/ Killed

ServiceSpec == ServiceInit /\ [][ServiceNext]_serviceVars

(* The process is scheduled, and the service is started again and again.   *)
RerunSpec == ServiceSpec /\ WF_serviceVars(Main) /\ WF_serviceVars(Start)

-----------------------------------------------------------------------------
Partial(t) == rows[t] \in 1 .. Batches[t] - 1

(* A load that never returns: more batches were copied than insertedCh can *)
(* take, or the file cannot be read on.                                    *)
Hangs == stage = "stranded" \/ (stage = "load" /\ copied > WorkerCount)

(***************************************************************************)
(* Re-running converges: whatever the order of the files and whatever      *)
(* fails, the runs end with every table complete but those that an         *)
(* interrupted load left partly filled, and those that reference them; or  *)
(* a run hangs in a load until it is killed.                               *)
(***************************************************************************)
RerunsConverge ==
  \/ <>[](\A t \in Tables : Full(t) \/ Partial(t) \/ \E p \in Parents[t] : Partial(p))
  \/ <>[]Hangs

(***************************************************************************)
(* What one undisturbed run leaves out: a table that an earlier run left   *)
(* partly filled, and a table with a parent that is incomplete or sorts    *)
(* behind it, so that this run loaded it only later.  Nothing else.        *)
(***************************************************************************)
LeftForLater ==
  (Finished /\ undisturbed) =>
    \A i \in 1 .. Len(Files) :
      \/ Full(Files[i])
      \/ Partial(Files[i])
      \/ \E p \in Parents[Files[i]] : ~Full(p) \/ \E j \in i .. Len(Files) : Files[j] = p

(***************************************************************************)
(* Whatever fails or is killed, a table that already held rows when its    *)
(* turn came is not added to ("safe to re-run"), unless the COUNT query    *)
(* itself failed in that run, which main takes for an empty table.         *)
(***************************************************************************)
PopulatedLeftAlone ==
  [][(CopyBatch /\ undisturbed) => rows[Table] = copied]_serviceVars
=============================================================================
