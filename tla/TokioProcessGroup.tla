-------------------------- MODULE TokioProcessGroup --------------------------
(***************************************************************************)
(* tokio/process_group.rs.  Spawning, killing and try_wait are those of    *)
(* the std side, and wait begins as it does there.  But it is a future: it *)
(* reaps the group with a few WNOHANG rounds, then on a blocking thread,   *)
(* and it may be dropped at either of its two awaits, at which the thread  *)
(* lives on.  Dropping the handle may kill, and leaves the child to        *)
(* tokio's orphan queue.                                                   *)
(*                                                                         *)
(* pc is "drain" in the WNOHANG rounds and "join" at the second await.     *)
(***************************************************************************)
EXTENDS ProcessGroup, Naturals

CONSTANTS
  Rounds,      \* WNOHANG rounds, MAX_RETRY_ATTEMPT - 1
  KillOnDrop   \* the command was wrapped in KillOnDrop

ASSUME TokioAssumption == Rounds \in Nat \ {0} /\ KillOnDrop \in BOOLEAN

VARIABLES
  round,     \* the WNOHANG round wait is in
  drainer,   \* the blocking thread of the handle
  drainers   \* how many blocking threads the handle has started

tokioVars == <<round, drainer, drainers>>
allVars == <<vars, tokioVars>>

TokioTypeOK ==
  /\ ProcTypeOK /\ pc \in [Children -> Pcs \cup {"join"}] /\ HandlesOK
  /\ round \in [Children -> 1..Rounds]
  /\ drainer \in [Children -> {"none", "running", "ok", "failed"}]
  /\ drainers \in [Children -> Nat]

TokioInit ==
  /\ Init
  /\ round = [h \in Children |-> 1]
  /\ drainer = [h \in Children |-> "none"]
  /\ drainers = [h \in Children |-> 0]

-----------------------------------------------------------------------------
(* wait() *)

InnerWait(h) ==
  /\ InnerWaitCached(h) \/ InnerWaitReap(h)
  /\ round' = [round EXCEPT ![h] = 1]
  /\ UNCHANGED <<drainer, drainers>>

\* wait_imp(WNOHANG) found the group empty or reaped one of it.
Drain(h) == (DrainReap(h) \/ DrainDone(h)) /\ UNCHANGED tokioVars

StillAlive(h) ==
  /\ pc[h] = "drain"
  /\ Waitable(pgid[h]) # {} /\ Zombies(Waitable(pgid[h])) = {}

\* Mutant: the rounds are not bounded.
NextRoundAgain(h) ==
  /\ StillAlive(h)
  /\ round' = [round EXCEPT ![h] = @ + 1]
  /\ UNCHANGED <<vars, drainer, drainers>>

NextRound(h) ==
  /\ StillAlive(h) /\ round[h] < Rounds
  /\ round' = [round EXCEPT ![h] = @ + 1]
  /\ UNCHANGED <<vars, drainer, drainers>>

\* Mutant: wait does not await the thread it starts.
StartDrainerDetached(h) ==
  /\ StillAlive(h) /\ round[h] = Rounds
  /\ ReturnFromWait(h, exitStatus[h])
  /\ drainer' = [drainer EXCEPT ![h] = "running"]
  /\ drainers' = [drainers EXCEPT ![h] = @ + 1]
  /\ UNCHANGED <<procVars, pgid, exitStatus, innerStatus, parentStatus,
                 lateCall, plain, killed, round>>

\* The last round found some still alive: spawn_blocking(wait_imp).
StartDrainer(h) ==
  /\ StillAlive(h) /\ round[h] = Rounds
  /\ Goto(h, "join")
  /\ drainer' = [drainer EXCEPT ![h] = "running"]
  /\ drainers' = [drainers EXCEPT ![h] = @ + 1]
  /\ UNCHANGED <<procVars, pgid, exitStatus, innerStatus, parentStatus,
                 historyVars, round>>

\* Mutant: the group is reaped by the future when polled, not on a thread.
DrainerReapAwaited(h) ==
  /\ drainer[h] = "running" /\ pc[h] = "join"
  /\ \E p \in Zombies(Waitable(pgid[h])) : Reap(p)
  /\ UNCHANGED <<handleVars, historyVars, tokioVars>>

DrainerReap(h) ==
  /\ drainer[h] = "running"
  /\ \E p \in Zombies(Waitable(pgid[h])) : Reap(p)
  /\ UNCHANGED <<handleVars, historyVars, tokioVars>>

DrainerDone(h) ==
  /\ drainer[h] = "running" /\ Waitable(pgid[h]) = {}
  /\ drainer' = [drainer EXCEPT ![h] = "ok"]
  /\ UNCHANGED <<vars, round, drainers>>

DrainerInterrupted(h) ==
  /\ Interruptible
  /\ drainer[h] = "running"
  /\ Waitable(pgid[h]) # {} /\ Zombies(Waitable(pgid[h])) = {}
  /\ drainer' = [drainer EXCEPT ![h] = "failed"]
  /\ UNCHANGED <<vars, round, drainers>>

\* Mutant: an error of the thread is not passed on.
JoinOk(h) ==
  /\ pc[h] = "join" /\ drainer[h] = "ok"
  /\ ReturnFromWait(h, exitStatus[h])
  /\ UNCHANGED <<procVars, pgid, exitStatus, innerStatus, parentStatus,
                 lateCall, plain, killed, tokioVars>>

Join(h) ==
  /\ pc[h] = "join"
  /\ \/ /\ drainer[h] = "ok" /\ ReturnFromWait(h, exitStatus[h])
        /\ UNCHANGED plain
     \/ drainer[h] = "failed" /\ FailWait(h) /\ UNCHANGED waited
  /\ UNCHANGED <<procVars, pgid, exitStatus, innerStatus, parentStatus,
                 lateCall, killed, tokioVars>>

\* The future is dropped at an await.
Cancel(h) ==
  /\ pc[h] \in {"inner_wait", "join"}
  /\ Goto(h, "idle")
  /\ NotPlain(h)
  /\ UNCHANGED <<procVars, pgid, exitStatus, innerStatus, parentStatus, answer,
                 lateCall, waited, killed, tokioVars>>

-----------------------------------------------------------------------------
(* Dropping the handle.  tokio's Child kills its own process only, and not *)
(* if it has seen it exit; whatever is not reaped yet goes to the orphan   *)
(* queue.                                                                  *)

Drop(h) ==
  /\ pc[h] = "idle"
  /\ Goto(h, "dropped")
  /\ IF KillOnDrop /\ innerStatus[h] = None
     THEN Doom({h})
     ELSE UNCHANGED procVars
  /\ UNCHANGED <<pgid, exitStatus, innerStatus, parentStatus, historyVars,
                 tokioVars>>

OrphanQueueReap(h) ==
  /\ pc[h] = "dropped" /\ innerStatus[h] = None
  /\ state[h] = "zombie"
  /\ Reap(h)
  /\ UNCHANGED <<handleVars, historyVars, tokioVars>>

-----------------------------------------------------------------------------
(* The rest is as on the std side. *)

Spawn(h) == (SpawnOk(h) \/ SpawnErr(h)) /\ UNCHANGED tokioVars

StartKillOrKill(h) == (StartKill(h) \/ Kill(h)) /\ UNCHANGED tokioVars

BeginWait(h) == WaitCall(h) /\ UNCHANGED tokioVars

BeginTryWait(h) == TryWaitCall(h) /\ UNCHANGED tokioVars

TryWaitStep(h) ==
  /\ \/ TryReap(h) \/ TryBreak(h) \/ TryContinue(h)
     \/ TryInnerCached(h) \/ TryInnerReap(h) \/ TryInnerNone(h)
     \/ TryInnerErr(h)
  /\ UNCHANGED tokioVars

InnerWaitFails(h) == InnerWaitErr(h) /\ UNCHANGED tokioVars

TokioUserStep(h) ==
  \/ Spawn(h) \/ StartKillOrKill(h) \/ BeginTryWait(h)
  \/ pc[h] = "idle" /\ BeginWait(h)
  \/ Cancel(h) \/ Drop(h)

TokioCallStep(h) ==
  \/ pc[h] = "killing" /\ BeginWait(h)
  \/ InnerWait(h) \/ InnerWaitFails(h)
  \/ Drain(h) \/ NextRound(h) \/ StartDrainer(h) \/ Join(h)
  \/ TryWaitStep(h)

DrainerStep(h) == DrainerReap(h) \/ DrainerDone(h)

TokioEnvironment ==
  \/ ProcStep /\ UNCHANGED <<handleVars, historyVars, tokioVars>>
  \/ \E h \in Children : DrainerInterrupted(h) \/ OrphanQueueReap(h)

TokioNext ==
  \/ TokioEnvironment
  \/ \E h \in Children : TokioUserStep(h) \/ TokioCallStep(h) \/ DrainerStep(h)

\* The executor polls a future that is ready and the blocking pool runs its
\* threads; a SIGKILL gets delivered.
TokioFairness ==
  /\ \A h \in Children : /\ WF_allVars(TokioCallStep(h))
                         /\ WF_allVars(DrainerStep(h))
  /\ \A p \in Pids :
       WF_allVars(p \in doomed /\ Exit(p, SigKilled)
                    /\ UNCHANGED <<handleVars, historyVars, tokioVars>>)

TokioSpec == TokioInit /\ [][TokioNext]_allVars /\ TokioFairness

-----------------------------------------------------------------------------
(* Properties *)

\* A handle starts one blocking thread at most, however many waits are begun,
\* dropped and begun again: the pool cannot be filled by one child.
OneDrainer == \A h \in Children : drainers[h] <= 1

\* Where no process leaves its group and the caller adopts orphans, the first
\* wait for a leader that was neither preceded by a try_wait nor by a wait that
\* failed or was cancelled returns only when no process of the group exists any
\* more, whichever of the rounds or the thread found that.
PlainWaitOutlivesGroup ==
  [][\A h \in Children :
       AttachTo[h] = None /\ plain[h] /\ ~waited[h] /\ waited'[h]
         => Members(group[h])' = {}]_allVars

\* The blocking thread works on when nobody awaits it any more: if the group
\* was killed, the thread ends.
DrainerEnds ==
  \A h \in Children :
    (drainer[h] = "running" /\ killed[h]) ~> drainer[h] # "running"

\* kill() returns or is cancelled, through the rounds or through the thread.
KillSettles == \A h \in Children : pc[h] = "killing" ~> pc[h] = "idle"

-----------------------------------------------------------------------------
(* Inductive invariants. *)

\* What the types rest on.
TokioTypeInv ==
  /\ TokioTypeOK /\ ExitHasCode /\ DrainHasStatus
  /\ \A h \in Children :
       /\ pc[h] = "join" \/ drainer[h] # "none" => exitStatus[h] # None
       /\ exitStatus[h] # None => Live(h)

\* Only the wait that caches the status gets to drain the group, so only it can
\* start the thread.
DrainerInv ==
  \A h \in Children :
    /\ drainers[h] <= 1
    /\ exitStatus[h] = None \/ pc[h] = "drain" => drainers[h] = 0
    /\ pc[h] \in {"inner_wait", "try_reap", "try_inner"}
       => exitStatus[h] = None

\* Where no process leaves its group and the caller adopts orphans: a process
\* whose parent is not the caller is in the group of a parent that runs, and
\* from every process the parents lead to the caller ...
KinInv ==
  /\ \A p \in Pids :
       /\ parent[p] \in Pids
          => state[parent[p]] = "running" /\ group[parent[p]] = group[p]
       /\ Present(p) => parent[p] \in Pids \cup {Caller}
  /\ \A S \in (SUBSET Pids) \ {{}} : \E p \in S : parent[p] \notin S

\* ... so that a thread that ended without an error left no process in its
\* group, and there never is one again.
EmptyInv == \A h \in Children : drainer[h] = "ok" => Members(h) = {}

\* No thread fails.
NoFailureInv == \A h \in Children : drainer[h] # "failed"

=============================================================================
