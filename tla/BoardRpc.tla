------------------------------ MODULE BoardRpc ------------------------------
(***************************************************************************)
(* What Board<T>::request promises its callers, with no wire in sight.     *)
(*                                                                         *)
(* The host numbers its calls 1, 2, 3, ...  The board executes commands in *)
(* the order they were issued: it may execute one several times, may skip  *)
(* one, and may execute one after its caller has given up, but it never    *)
(* goes back.  A call that returns the board's answer, good or bad, is the *)
(* last command the board executed.                                        *)
(***************************************************************************)
EXTENDS Integers

VARIABLES
  cur,       \* number of the latest call (0: none yet)
  execd,     \* number of the latest command the board executed
  outcome    \* "none" while a call is running, else how the last one ended

vars == <<cur, execd, outcome>>

Answers == {"ok", "refused"}            \* the board's answer was read
Errors  == {"timeout", "badframe", "io"}

Init ==
  /\ cur = 0
  /\ execd = 0
  /\ outcome = "idle"

\* A caller starts the next request.
Call ==
  /\ outcome # "none"
  /\ cur' = cur + 1
  /\ outcome' = "none"
  /\ UNCHANGED execd

\* The board executes the latest command it executed again, or a later one.
Execute ==
  /\ \E i \in execd .. cur : execd' = i
  /\ UNCHANGED <<cur, outcome>>

\* An answer is returned only when the board's latest execution is this call's.
ReturnAnswer ==
  /\ outcome = "none"
  /\ execd = cur
  /\ outcome' \in Answers
  /\ UNCHANGED <<cur, execd>>

\* Any error may be returned at any time and says nothing about the board.
ReturnErr ==
  /\ outcome = "none"
  /\ outcome' \in Errors
  /\ UNCHANGED <<cur, execd>>

\* The process restarts and numbers its calls from the beginning again.
Restart ==
  /\ cur' = 0
  /\ execd' = 0
  /\ outcome' = "idle"

Next == Call \/ Execute \/ ReturnAnswer \/ ReturnErr \/ Restart

Spec == Init /\ [][Next]_vars
=============================================================================
