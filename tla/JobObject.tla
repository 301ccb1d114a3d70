------------------------------ MODULE JobObject ------------------------------
(***************************************************************************)
(* std/job_object.rs and windows.rs: a child put into a Windows job object *)
(* whose events arrive on a completion port, and the JobObjectChild handle *)
(* over a bare std Child.                                                  *)
(*                                                                         *)
(* Of Windows, from the calls made: a job posts a packet to its port when  *)
(* a process joins it, when one exits, and when the last one has exited;   *)
(* GetQueuedCompletionStatus takes one packet.  wait_on_job does not look  *)
(* at which packet it took, so only their number is kept.  The exit code   *)
(* of a process can be read any number of times.                           *)
(***************************************************************************)
EXTENDS Naturals, FiniteSets

CONSTANTS
  Procs,      \* the processes there may be in the job
  Leader,     \* the one that is spawned
  Codes,      \* exit codes
  Terminated, \* the exit code start_kill gives: 1
  None,       \* no code
  MayTryWait  \* the caller also uses try_wait

ASSUME JobAssumption ==
  /\ IsFiniteSet(Procs) /\ Leader \in Procs
  /\ Terminated \in Codes
  /\ None \notin Codes
  /\ MayTryWait \in BOOLEAN

Answers == {"never", "running"}
ASSUME JobAnswersAssumption == Codes \cap Answers = {} /\ None \notin Answers

VARIABLES
  state,       \* of each process
  code,        \* its exit code, once it is dead
  packets,     \* how many packets wait on the completion port
  open,        \* the handles open: "job", "port"
  pc,          \* where wrap_child or the handle's current call is
  exitStatus,  \* JobObjectChild.exit_status, None while Running
  answer,      \* what the last wait or try_wait returned
  late,        \* the child had exited when the last such call was made
  killed,      \* start_kill succeeded
  polled       \* try_wait was called

jobVars == <<state, code, packets>>
vars == <<jobVars, open, pc, exitStatus, answer, late, killed, polled>>

Running == {p \in Procs : state[p] = "running"}

Pcs == {"create_job", "create_port", "assign", "resume", "failed", "idle",
        "killing", "inner_wait", "port_wait", "inner_try", "dropped",
        "unwrapped"}

DataOK ==
  /\ state \in [Procs -> {"unborn", "suspended", "running", "dead"}]
  /\ code \in [Procs -> Codes \cup {None}]
  /\ packets \in 0..(2 * Cardinality(Procs) + 1)
  /\ open \subseteq {"job", "port"}
  /\ exitStatus \in Codes \cup {None}
  /\ answer \in Codes \cup Answers
  /\ late \in BOOLEAN /\ killed \in BOOLEAN /\ polled \in BOOLEAN

TypeOK == DataOK /\ pc \in Pcs

\* The child has been created suspended (JobObject::pre_spawn), and wrap_child
\* begins.
Init ==
  /\ state = [p \in Procs |-> IF p = Leader THEN "suspended" ELSE "unborn"]
  /\ code = [p \in Procs |-> None]
  /\ packets = 0
  /\ open = {}
  /\ pc = "create_job"
  /\ exitStatus = None
  /\ answer = "never"
  /\ late = FALSE
  /\ killed = FALSE
  /\ polled = FALSE

Return(a) == pc' = "idle" /\ answer' = a

\* A wait or try_wait is called.
NoteCall == late' = (code[Leader] # None)

-----------------------------------------------------------------------------
(* wrap_child: make_job_object and resume_threads. *)

CreateJob ==
  /\ pc = "create_job"
  /\ pc' = "create_port" /\ open' = {"job"}
  /\ UNCHANGED <<jobVars, exitStatus, answer, late, killed, polled>>

CreatePort ==
  /\ pc = "create_port"
  /\ pc' = "assign" /\ open' = {"job", "port"}
  /\ UNCHANGED <<jobVars, exitStatus, answer, late, killed, polled>>

\* The port is associated with the job before the process is assigned to it,
\* so the first packet says that the child itself has joined.
PacketsOnJoin == 1

Assign ==
  /\ pc = "assign"
  /\ pc' = "resume"
  /\ packets' = PacketsOnJoin
  /\ UNCHANGED <<state, code, open, exitStatus, answer, late, killed, polled>>

\* From its first thread that is resumed the process runs, ...
ResumeThread ==
  /\ pc = "resume" /\ state[Leader] = "suspended"
  /\ state' = [state EXCEPT ![Leader] = "running"]
  /\ UNCHANGED <<code, packets, open, pc, exitStatus, answer, late, killed,
                 polled>>

\* ... whether or not resume_threads gets to its end.
Resume ==
  /\ pc = "resume" /\ state[Leader] # "suspended"
  /\ pc' = "idle"
  /\ UNCHANGED <<jobVars, open, exitStatus, answer, late, killed, polled>>

\* A call fails.  JobPort, which closes the handles when dropped, exists only
\* once make_job_object has returned.
SetupErr ==
  /\ pc \in {"create_job", "create_port", "assign", "resume"}
  /\ pc' = "failed"
  /\ open' = IF pc = "resume" THEN {} ELSE open
  /\ UNCHANGED <<jobVars, exitStatus, answer, late, killed, polled>>

-----------------------------------------------------------------------------
(* The job's processes. *)

Spawn(p) ==
  /\ Running # {} /\ state[p] = "unborn"
  /\ state' = [state EXCEPT ![p] = "running"]
  /\ packets' = packets + PacketsOnJoin
  /\ UNCHANGED <<code, open, pc, exitStatus, answer, late, killed, polled>>

\* The processes of set S die with code c.
Die(S, c) ==
  /\ state' = [p \in Procs |-> IF p \in S THEN "dead" ELSE state[p]]
  /\ code' = [p \in Procs |-> IF p \in S THEN c ELSE code[p]]
  /\ packets' = packets + Cardinality(S)
                  + IF S # {} /\ Running \subseteq S THEN 1 ELSE 0

Exit(p, c) ==
  /\ state[p] = "running"
  /\ Die({p}, c)
  /\ UNCHANGED <<open, pc, exitStatus, answer, late, killed, polled>>

-----------------------------------------------------------------------------
(* The handle. *)

\* Mutant: TerminateProcess on the child.
KillTargetsChildOnly == Running \cap {Leader}

\* TerminateJobObject.
KillTargets == Running

StartKill ==
  /\ pc = "idle"
  /\ Die(KillTargets, Terminated)
  /\ killed' = TRUE
  /\ UNCHANGED <<open, pc, exitStatus, answer, late, polled>>

Kill ==
  /\ pc = "idle"
  /\ Die(KillTargets, Terminated)
  /\ killed' = TRUE
  /\ pc' = "killing"
  /\ UNCHANGED <<open, exitStatus, answer, late, polled>>

\* Mutant: wait does not look at the status it keeps.
WaitCallUncached ==
  /\ pc \in {"idle", "killing"} /\ pc' = "inner_wait"
  /\ NoteCall
  /\ UNCHANGED <<jobVars, open, exitStatus, answer, killed, polled>>

WaitCall ==
  /\ pc \in {"idle", "killing"}
  /\ NoteCall
  /\ IF exitStatus # None
     THEN Return(exitStatus)
     ELSE pc' = "inner_wait" /\ UNCHANGED answer
  /\ UNCHANGED <<jobVars, open, exitStatus, killed, polled>>

\* Mutant: the exit of any process of the job is taken for the child's.
InnerWaitAny ==
  /\ pc = "inner_wait"
  /\ \E p \in Procs : state[p] = "dead" /\ exitStatus' = code[p]
  /\ pc' = "port_wait"
  /\ UNCHANGED <<jobVars, open, answer, late, killed, polled>>

\* Mutant: what has piled up on the port meanwhile is thrown away.
InnerWaitDrains ==
  /\ pc = "inner_wait" /\ state[Leader] = "dead"
  /\ exitStatus' = code[Leader]
  /\ pc' = "port_wait"
  /\ packets' = 0
  /\ UNCHANGED <<state, code, open, answer, late, killed, polled>>

\* Mutant: the status is not kept for PortWait to return.
InnerWaitUncached ==
  /\ pc = "inner_wait" /\ state[Leader] = "dead"
  /\ pc' = "port_wait"
  /\ UNCHANGED <<jobVars, open, exitStatus, answer, late, killed, polled>>

InnerWait ==
  /\ pc = "inner_wait" /\ state[Leader] = "dead"
  /\ exitStatus' = code[Leader]
  /\ pc' = "port_wait"
  /\ UNCHANGED <<jobVars, open, answer, late, killed, polled>>

\* wait_on_job(port, INFINITE): any packet ends it, and wait with it.
PortWait ==
  /\ pc = "port_wait" /\ packets > 0
  /\ packets' = packets - 1
  /\ Return(exitStatus)
  /\ UNCHANGED <<state, code, open, exitStatus, late, killed, polled>>

\* wait_on_job(port, 0), whose result is ignored ...
TryWaitCall ==
  /\ MayTryWait
  /\ pc = "idle"
  /\ NoteCall
  /\ packets' = IF packets = 0 THEN 0 ELSE packets - 1
  /\ pc' = "inner_try"
  /\ polled' = TRUE
  /\ UNCHANGED <<state, code, open, exitStatus, answer, killed>>

\* Mutant: only a status that a wait has cached is answered.
InnerTryCached ==
  /\ pc = "inner_try"
  /\ Return(IF exitStatus # None THEN exitStatus ELSE "running")
  /\ UNCHANGED <<jobVars, open, exitStatus, late, killed, polled>>

\* ... and the inner try_wait, whose status is not cached.
InnerTry ==
  /\ pc = "inner_try"
  /\ Return(IF state[Leader] = "dead" THEN code[Leader] ELSE "running")
  /\ UNCHANGED <<jobVars, open, exitStatus, late, killed, polled>>

\* JobPort is dropped; no flag of the job ties its processes to the handle.
Drop ==
  /\ pc = "idle"
  /\ pc' = "dropped" /\ open' = {}
  /\ UNCHANGED <<jobVars, exitStatus, answer, late, killed, polled>>

\* Mutant: into_inner leaves the port as it is, too.
IntoInnerOnly ==
  /\ pc = "idle"
  /\ pc' = "unwrapped"
  /\ UNCHANGED <<jobVars, open, exitStatus, answer, late, killed, polled>>

\* into_inner closes the port and keeps the job.
IntoInner ==
  /\ pc = "idle"
  /\ pc' = "unwrapped" /\ open' = {"job"}
  /\ UNCHANGED <<jobVars, exitStatus, answer, late, killed, polled>>

-----------------------------------------------------------------------------
CallStep ==
  \/ pc = "killing" /\ WaitCall
  \/ InnerWait \/ PortWait \/ InnerTry

Next ==
  \/ CreateJob \/ CreatePort \/ Assign \/ ResumeThread \/ Resume \/ SetupErr
  \/ \E p \in Procs : Spawn(p) \/ \E c \in Codes : Exit(p, c)
  \/ StartKill \/ Kill \/ TryWaitCall \/ Drop \/ IntoInner
  \/ pc = "idle" /\ WaitCall
  \/ CallStep

\* A thread inside a call runs on when it can.  No process has to exit.
Spec == Init /\ [][Next]_vars /\ WF_vars(CallStep)

-----------------------------------------------------------------------------
(* Properties *)

\* Whatever mix of wait, try_wait and kill is used, a status answered or cached
\* is the exit code of the child, which is dead, even if others of its job
\* live.
JobStatusIsTrue ==
  /\ exitStatus # None => state[Leader] = "dead" /\ exitStatus = code[Leader]
  /\ answer \in Codes => state[Leader] = "dead" /\ answer = code[Leader]

\* The handle keeps what ChildHandle promises of wait and try_wait, whichever
\* calls are mixed, cancelled and begun again: wait caches the status and
\* try_wait does not, and both have to tell the same from the exit on.
Promise == INSTANCE ChildHandle
             WITH Handles <- {Leader},
                  exit <- [h \in {Leader} |-> code[h]],
                  late <- [h \in {Leader} |-> late],
                  answer <- [h \in {Leader} |-> answer]

JobKeepsPromise == Promise!Spec

\* Once start_kill has succeeded nothing of the job runs, ever.
KillStopsJob == killed => Running = {}

\* kill() returns, if try_wait was never called before it: the deaths it waits
\* for have left a packet on the port.
UnpolledKillReturns == (pc = "killing" /\ ~polled) ~> pc = "idle"

\* "Always wait for parent to exit first ... nevertheless, now wait and make
\* sure we reap all children" (wait): when wait first returns the job is over.
WaitOutlivesJob ==
  [][pc = "port_wait" /\ pc' = "idle" => Running' = {}]_vars

\* "Repeatedly calling this (or other wait methods) after the child has exited
\* will always return the same result" (std/core.rs): so it returns.
WaitReturns == pc = "port_wait" ~> pc = "idle"

=============================================================================
