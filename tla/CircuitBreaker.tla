--------------------------- MODULE CircuitBreaker ---------------------------
(***************************************************************************)
(* The circuit breaker of the SSE gateway (backend-go/sse/main.go): the    *)
(* four fields its mutex protects and one action per critical section.     *)
(* Each method holds the mutex from its first to its last statement, so a  *)
(* call is one step.                                                       *)
(*                                                                         *)
(* Time.  The code only ever asks "is now - windowStart > windowSecs?" and *)
(* "is now after openUntil?".  The module therefore keeps the age of       *)
(* windowStart, saturated one past the window, and the time left until     *)
(* openUntil, saturated at -1 ("past").  One Tick is one unit of time; any *)
(* number of calls may happen between two ticks.  No bound on the length   *)
(* of a run is needed.                                                     *)
(***************************************************************************)
EXTENDS Integers

CONSTANTS
  Threshold,    (* CB_THRESHOLD: failures that open the breaker            *)
  WindowSecs,   (* CB_WINDOW_SECONDS: length of the failure window         *)
  OpenSecs      (* CB_OPEN_SECONDS: how long an open breaker rejects       *)

ASSUME BreakerAssumption ==
  /\ Threshold \in Nat \ {0}
  /\ WindowSecs \in Nat
  /\ OpenSecs \in Nat

VARIABLES
  state,        (* CBClosed, CBOpen or CBHalfOpen                          *)
  failures,     (* failures counted in the current window                  *)
  windowAge,    (* now - windowStart, at most Expired                      *)
  openLeft      (* openUntil - now, -1 once it has passed                  *)

cbVars == <<state, failures, windowAge, openLeft>>

Closed   == "closed"
Open     == "open"
HalfOpen == "half-open"
CBState  == {Closed, Open, HalfOpen}

Expired == WindowSecs + 1
Past    == -1

BreakerTypeOK ==
  /\ state \in CBState
  /\ failures \in Nat
  /\ windowAge \in 0 .. Expired
  /\ openLeft \in Past .. OpenSecs

(***************************************************************************)
(* NewCircuitBreaker: openUntil is the zero time, long past.               *)
(***************************************************************************)
BreakerInit ==
  /\ state = Closed
  /\ failures = 0
  /\ windowAge = 0
  /\ openLeft = Past

-----------------------------------------------------------------------------
(* Slips in the methods, each of which some property below must notice.    *)

(* Allow without its CBOpen case.                                          *)
AllowForgetsOpen == UNCHANGED cbVars

(* RecordSuccess that starts a window but keeps the count.                 *)
RecordSuccessKeepsCount ==
  /\ state' = Closed
  /\ windowAge' = 0
  /\ UNCHANGED <<failures, openLeft>>

(* RecordSuccess that does not close the breaker.                          *)
RecordSuccessKeepsState ==
  /\ failures' = 0
  /\ windowAge' = 0
  /\ UNCHANGED <<state, openLeft>>

(* RecordFailure that restarts the window but keeps its failures.          *)
RecordFailureKeepsOld ==
  LET trips == failures + 1 >= Threshold
  IN  /\ failures' = failures + 1
      /\ windowAge' = IF windowAge > WindowSecs THEN 0 ELSE windowAge
      /\ state' = IF trips THEN Open ELSE state
      /\ openLeft' = IF trips THEN OpenSecs ELSE openLeft

-----------------------------------------------------------------------------
(***************************************************************************)
(* Allow: the call that admits and the call that rejects.  An open breaker *)
(* whose time is up turns half-open; a half-open one admits every caller.  *)
(***************************************************************************)
AllowAdmits ==
  /\ state = Open => openLeft = Past
  /\ state' = IF state = Open THEN HalfOpen ELSE state
  /\ UNCHANGED <<failures, windowAge, openLeft>>

AllowRejects ==
  /\ state = Open
  /\ openLeft # Past
  /\ UNCHANGED cbVars

(***************************************************************************)
(* RecordSuccess closes the breaker from whatever state it is in; it does  *)
(* not touch openUntil.                                                    *)
(***************************************************************************)
RecordSuccess ==
  /\ failures' = 0
  /\ state' = Closed
  /\ windowAge' = 0
  /\ UNCHANGED openLeft

(***************************************************************************)
(* RecordFailure: an expired window restarts at this failure; reaching the *)
(* threshold opens (or re-opens) the breaker.                              *)
(***************************************************************************)
RecordFailure ==
  LET windowOver == windowAge > WindowSecs
      counted    == IF windowOver THEN 1 ELSE failures + 1
      trips      == counted >= Threshold
  IN  /\ failures' = counted
      /\ windowAge' = IF windowOver THEN 0 ELSE windowAge
      /\ state' = IF trips THEN Open ELSE state
      /\ openLeft' = IF trips THEN OpenSecs ELSE openLeft

(***************************************************************************)
(* One unit of time passes (time.Now as the methods read it).              *)
(***************************************************************************)
BreakerTick ==
  /\ windowAge' = IF windowAge < Expired THEN windowAge + 1 ELSE Expired
  /\ openLeft' = IF openLeft = Past THEN Past ELSE openLeft - 1
  /\ UNCHANGED <<state, failures>>
=============================================================================
