------------------------------- MODULE Dialogue -------------------------------
(***************************************************************************)
(* What the conversation of a run with a language model has to be, told    *)
(* without rounds, roles, tools or providers: the model speaks at most     *)
(* MaxReplies times; each of its replies asks for calls; before it speaks  *)
(* again it is given the result of every call, once and in order.          *)
(***************************************************************************)
EXTENDS Naturals, Sequences

CONSTANTS
  Calls,        (* the calls a reply may ask for                           *)
  MaxReplies    (* how often the model may speak                           *)

VARIABLES
  turn,         (* whose turn it is                                        *)
  open,         (* the calls of the model's last reply                     *)
  given,        (* the results it was given since then                     *)
  replies       (* how often it spoke                                      *)

vars == <<turn, open, given, replies>>

Init ==
  /\ turn = "model"
  /\ open = <<>> /\ given = <<>>
  /\ replies = 0

Reply ==
  /\ turn = "model"
  /\ replies < MaxReplies
  /\ replies' = replies + 1
  /\ open' \in Seq(Calls)
  /\ turn' \in {"user", "over"}
  /\ given' = <<>>

Answer ==
  /\ turn = "user"
  /\ turn' = "model"
  /\ given' = open
  /\ UNCHANGED <<open, replies>>

GiveUp ==
  /\ turn' = "over"
  /\ UNCHANGED <<open, given, replies>>

Next == Reply \/ Answer \/ GiveUp
Spec == Init /\ [][Next]_vars

=============================================================================
