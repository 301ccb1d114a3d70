---------------------------- MODULE ChildHandle -----------------------------
(***************************************************************************)
(* What ChildWrapper promises of wait() and try_wait() (std/core.rs and    *)
(* tokio/core.rs), whatever a wrapper does underneath: a call answers with *)
(* the child's exit status, or "running" if the child had not exited when  *)
(* the call was made, and once a status has been given it is given again.  *)
(* No call fails, and none ever answers anything else.                     *)
(***************************************************************************)

CONSTANTS Handles, Codes, None

VARIABLES
  exit,     \* the exit status of the child, None while it runs
  late,     \* the child had exited when the handle's last call was made
  answer    \* what the handle's last call returned, "never" before the first

promiseVars == <<exit, late, answer>>

Init ==
  /\ exit = [h \in Handles |-> None]
  /\ late = [h \in Handles |-> FALSE]
  /\ answer = [h \in Handles |-> "never"]

ChildExits(h) ==
  /\ exit[h] = None
  /\ \E s \in Codes : exit' = [exit EXCEPT ![h] = s]
  /\ UNCHANGED <<late, answer>>

AnswerStatus(h) ==
  /\ exit[h] # None
  /\ answer' = [answer EXCEPT ![h] = exit[h]]

AnswerRunning(h) ==
  /\ ~late[h]
  /\ answer[h] \notin Codes
  /\ answer' = [answer EXCEPT ![h] = "running"]

\* A call is made; it may answer at once with the status.
Call(h) ==
  /\ late' = [late EXCEPT ![h] = exit[h] # None]
  /\ AnswerStatus(h) \/ UNCHANGED answer
  /\ UNCHANGED exit

Reply(h) ==
  /\ AnswerStatus(h) \/ AnswerRunning(h)
  /\ UNCHANGED <<exit, late>>

Next == \E h \in Handles : ChildExits(h) \/ Call(h) \/ Reply(h)

Spec == Init /\ [][Next]_promiseVars

=============================================================================
