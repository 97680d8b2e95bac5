------------------------------ MODULE BulkLoad ------------------------------
(***************************************************************************)
(* What loading one CSV file into its table promises, whatever happens     *)
(* inside: rows are added in groups, none twice; the load ends at most     *)
(* once; it ends well only when every valid row is in the table, and then  *)
(* reports their number; and nothing is added after its end.               *)
(***************************************************************************)
EXTENDS Naturals, FiniteSets

CONSTANT NumRows      (* data rows of the file, numbered in file order     *)

RowIds == 1 .. NumRows

VARIABLES
  valid,        (* the rows that parse and validate                        *)
  copies,       (* how many times the table holds each row                 *)
  ended,        (* has the load returned?                                  *)
  failed,       (* did it return an error?                                 *)
  total         (* the number of rows it returned                          *)

vars == <<valid, copies, ended, failed, total>>

TypeOK ==
  /\ valid \subseteq RowIds
  /\ copies \in [RowIds -> 0 .. 1]
  /\ ended \in BOOLEAN
  /\ failed \in BOOLEAN
  /\ total \in 0 .. NumRows

Init ==
  /\ valid \in SUBSET RowIds
  /\ copies = [r \in RowIds |-> 0]
  /\ ended = FALSE
  /\ failed = FALSE
  /\ total = 0

Missing == {r \in valid : copies[r] = 0}

Add ==
  /\ ~ended
  /\ \E rows \in (SUBSET Missing) \ {{}} :
       copies' = [r \in RowIds |-> IF r \in rows THEN 1 ELSE copies[r]]
  /\ UNCHANGED <<valid, ended, failed, total>>

Succeed ==
  /\ ~ended
  /\ Missing = {}
  /\ ended' = TRUE
  /\ total' = Cardinality(valid)
  /\ UNCHANGED <<valid, copies, failed>>

Fail ==
  /\ ~ended
  /\ ended' = TRUE
  /\ failed' = TRUE
  /\ UNCHANGED <<valid, copies, total>>

Next == Add \/ Succeed \/ Fail

Spec == Init /\ [][Next]_vars
=============================================================================
