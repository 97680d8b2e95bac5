--------------------------- MODULE BreakerClients ---------------------------
(***************************************************************************)
(* The circuit breaker under the most general use the handlers make of it: *)
(* any number (up to MaxInFlight) of admitted requests are under way, each *)
(* of them reports one success or one failure, at any later time.          *)
(***************************************************************************)
EXTENDS CircuitBreaker

CONSTANT MaxInFlight    (* bound: admitted requests not yet reported       *)

ASSUME ClientsAssumption == MaxInFlight \in Nat \ {0}

VARIABLES
  inFlight,     (* requests admitted whose outcome is not yet recorded     *)
  lastFail      (* history: age of the i-th most recent failure recorded   *)
                (* since the last success; Expired if there is none        *)

vars == <<state, failures, windowAge, openLeft, inFlight, lastFail>>

TypeOK ==
  /\ BreakerTypeOK
  /\ inFlight \in 0 .. MaxInFlight
  /\ lastFail \in [1 .. Threshold -> 0 .. Expired]

Forgiven == [i \in 1 .. Threshold |-> Expired]

Init ==
  /\ BreakerInit
  /\ inFlight = 0
  /\ lastFail = Forgiven

Admitted ==
  /\ inFlight < MaxInFlight
  /\ AllowAdmits
  /\ inFlight' = inFlight + 1
  /\ UNCHANGED lastFail

Rejected ==
  /\ AllowRejects
  /\ UNCHANGED <<inFlight, lastFail>>

Succeeded ==
  /\ inFlight > 0
  /\ RecordSuccess
  /\ inFlight' = inFlight - 1
  /\ lastFail' = Forgiven

Failed ==
  /\ inFlight > 0
  /\ RecordFailure
  /\ inFlight' = inFlight - 1
  /\ lastFail' = [i \in 1 .. Threshold |->
                    IF i = 1 THEN 0 ELSE lastFail[i - 1]]

Tick ==
  /\ BreakerTick
  /\ lastFail' = [i \in 1 .. Threshold |->
                    IF lastFail[i] < Expired THEN lastFail[i] + 1 ELSE Expired]
  /\ UNCHANGED inFlight

Next ==
  \/ Admitted
  \/ Rejected
  \/ Succeeded
  \/ Failed
  \/ Tick

Spec == Init /\ [][Next]_vars

-----------------------------------------------------------------------------
(***************************************************************************)
(* What the breaker's counter means: each failure it counts is a real      *)
(* failure, recorded after the last success and after windowStart          *)
(* (RecordFailure's reset, RecordSuccess's reset).                         *)
(***************************************************************************)
CountedAreRecent ==
  \A i \in 1 .. Threshold : i <= failures => lastFail[i] <= windowAge

(***************************************************************************)
(* No false trip: the step that opens the breaker, or re-opens it while    *)
(* late reports arrive, has just recorded the last of Threshold failures   *)
(* that lie within WindowSecs of each other with no success between them   *)
(* (RecordFailure; "3 failures / 30 s").                                   *)
(***************************************************************************)
Trips == state' = Open /\ (state # Open \/ openLeft' > openLeft)

TripJustified ==
  [][Trips => lastFail'[Threshold] <= WindowSecs]_vars
=============================================================================
