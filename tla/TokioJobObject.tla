---------------------------- MODULE TokioJobObject ----------------------------
(***************************************************************************)
(* tokio/job_object.rs: JobObjectChild over tokio's Child.  It is made and  *)
(* killed as the one of std is, but its wait is a future that may be        *)
(* dropped: it looks at the port a few times and then waits on a blocking   *)
(* thread, which goes on without the future.  The std handle of JobObject   *)
(* is here too, as the other side.                                          *)
(*                                                                         *)
(* Of Windows: a thread that waits on a port is let go when it is closed.   *)
(***************************************************************************)
EXTENDS JobObject

CONSTANTS
  Sides,     \* of "std" and "tokio", the handles to look at
  Rounds,    \* MAX_RETRY_ATTEMPT - 1
  KillOnDrop \* kill_on_drop is set on the command

ASSUME TokioJobAssumption ==
  /\ Sides \subseteq {"std", "tokio"}
  /\ Rounds \in Nat \ {0}
  /\ KillOnDrop \in BOOLEAN

VARIABLES
  side,    \* the handle's
  round,   \* how often this wait has looked at the port
  threads  \* how many blocking threads wait on the port

tokioVars == <<side, round, threads>>
allVars == <<vars, tokioVars>>

TokioTypeOK ==
  /\ DataOK /\ pc \in Pcs \cup {"join"}
  /\ side \in Sides /\ round \in 0..Rounds /\ threads \in Nat

TokioInit ==
  /\ Init
  /\ side \in Sides
  /\ round = 0 /\ threads = 0

-----------------------------------------------------------------------------
(* wait, from where the child has exited and its status is cached. *)

\* wait_on_job(port, 0): any packet ends the wait.
Poll ==
  /\ pc = "port_wait" /\ round < Rounds
  /\ IF packets > 0
     THEN packets' = packets - 1 /\ round' = 0 /\ Return(exitStatus)
     ELSE round' = round + 1 /\ UNCHANGED <<packets, pc, answer>>
  /\ UNCHANGED <<state, code, open, exitStatus, late, killed, polled, side,
                 threads>>

\* spawn_blocking.
Block ==
  /\ pc = "port_wait" /\ round = Rounds
  /\ pc' = "join" /\ round' = 0 /\ threads' = threads + 1
  /\ UNCHANGED <<jobVars, open, exitStatus, answer, late, killed, polled,
                 side>>

\* wait_on_job(port, INFINITE) on the thread ends with a packet, or with the
\* port, which it takes for one.
ThreadEnds ==
  /\ threads > 0
  /\ packets > 0 \/ "port" \notin open
  /\ threads' = threads - 1
  /\ packets' = IF "port" \in open THEN packets - 1 ELSE packets
  /\ UNCHANGED <<state, code, open, pc, exitStatus, answer, late, killed,
                 polled, side, round>>

Join ==
  /\ pc = "join" /\ threads = 0
  /\ Return(exitStatus)
  /\ UNCHANGED <<jobVars, open, exitStatus, late, killed, polled, tokioVars>>

\* The future of wait or kill is dropped at one of its awaits.
Cancel ==
  /\ pc \in {"inner_wait", "join"}
  /\ pc' = "idle"
  /\ UNCHANGED <<jobVars, open, exitStatus, answer, late, killed, polled,
                 tokioVars>>

-----------------------------------------------------------------------------
(* The Child is dropped. *)

\* Only the child is killed: the job would be too if its limits said so, but
\* wrap_child asks its core for KillOnDrop and finds nothing (CommandWrap).
DropChild ==
  IF KillOnDrop /\ state[Leader] # "dead"
  THEN /\ state' = [state EXCEPT ![Leader] = "dead"]
       /\ code' = [code EXCEPT ![Leader] = Terminated]
  ELSE UNCHANGED <<state, code>>

\* The packets no longer matter, as the port is closed or the child is not in
\* the job.
TokioDrop ==
  /\ pc = "idle"
  /\ pc' = "dropped" /\ open' = {}
  /\ DropChild
  /\ UNCHANGED <<packets, exitStatus, answer, late, killed, polled, tokioVars>>

TokioSetupErr ==
  /\ pc \in {"create_job", "create_port", "assign", "resume"}
  /\ pc' = "failed"
  /\ open' = IF pc = "resume" THEN {} ELSE open
  /\ DropChild
  /\ UNCHANGED <<packets, exitStatus, answer, late, killed, polled, tokioVars>>

-----------------------------------------------------------------------------
\* What is the same on both sides.
SameCallStep ==
  /\ \/ pc = "killing" /\ WaitCall
     \/ InnerWait \/ InnerTry
  /\ UNCHANGED tokioVars

SameStep ==
  /\ \/ CreateJob \/ CreatePort \/ Assign \/ ResumeThread \/ Resume
     \/ \E p \in Procs : Spawn(p) \/ \E c \in Codes : Exit(p, c)
     \/ StartKill \/ Kill \/ TryWaitCall \/ IntoInner
     \/ pc = "idle" /\ WaitCall
  /\ UNCHANGED tokioVars

StdCallStep == side = "std" /\ PortWait /\ UNCHANGED tokioVars
TokioCallStep == side = "tokio" /\ (Poll \/ Block \/ Join)

TokioNext ==
  \/ SameStep \/ SameCallStep
  \/ StdCallStep
  \/ side = "std" /\ (SetupErr \/ Drop) /\ UNCHANGED tokioVars
  \/ TokioCallStep
  \/ side = "tokio" /\ (Cancel \/ TokioSetupErr \/ TokioDrop)
  \/ ThreadEnds

\* A thread in a call and a blocking thread run on when they can, and a future
\* that is not dropped is polled.
TokioSpec ==
  /\ TokioInit /\ [][TokioNext]_allVars
  /\ WF_allVars(SameCallStep \/ StdCallStep \/ TokioCallStep)
  /\ WF_allVars(ThreadEnds)

-----------------------------------------------------------------------------
(* Properties *)

\* However often wait is begun, dropped and begun again, at most one blocking
\* thread of the handle is on the port.
OneThread == threads <= 1

\* A blocking thread does not outlive the handle for long, dropped or taken
\* apart by into_inner: its port is closed.
ThreadLetGo == (threads > 0 /\ pc \in {"dropped", "unwrapped"}) ~> threads = 0

-----------------------------------------------------------------------------
(* Inductive invariants. *)

BeforeAssign == {"create_job", "create_port", "assign"}
SettingUp == BeforeAssign \cup {"resume"}

\* Until it is resumed the child is alone in its job, and until wrap_child is
\* done nothing is asked of the handle.
SetupInv ==
  /\ pc \in SettingUp => exitStatus = None /\ ~killed /\ ~polled
  /\ pc \in BeforeAssign => packets = 0 /\ state[Leader] = "suspended"
  /\ state[Leader] = "suspended" =>
       state = [p \in Procs |-> IF p = Leader THEN "suspended" ELSE "unborn"]

\* A process joins its job and dies once each, and the job becomes empty once.
Joined == {p \in Procs : state[p] # "unborn"}
Dead == {p \in Procs : state[p] = "dead"}

PacketBound ==
  packets <= Cardinality(Joined) + Cardinality(Dead)
               + IF Running = {} /\ Dead # {} THEN 1 ELSE 0

\* The status is cached while the future has more to do than return it.
CachedInv ==
  /\ pc \in {"port_wait", "join"} => exitStatus # None
  /\ pc = "inner_wait" => exitStatus = None

\* Only the wait that caches the status gets to the port, so only it can leave
\* a blocking thread there.
ThreadInv ==
  /\ threads <= 1
  /\ exitStatus = None \/ pc = "port_wait" => threads = 0

\* What the last call found is still so: nothing brings the child back.
LateInv == late => code[Leader] # None

\* Just the dead have an exit code.
DeadHaveCode == \A p \in Procs : state[p] = "dead" <=> code[p] # None

\* What the types rest on.
TokioTypeInv ==
  TokioTypeOK /\ SetupInv /\ PacketBound /\ CachedInv /\ DeadHaveCode

=============================================================================
