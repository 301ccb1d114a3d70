---------------------------- MODULE ProcessGroup ----------------------------
(***************************************************************************)
(* std/process_group.rs: the ProcessGroup wrapper and the                  *)
(* ProcessGroupChild handle it makes, over a bare std::process::Child.     *)
(*                                                                         *)
(* A handle is named by the pid of its child.  Its methods take &mut self, *)
(* so a handle is in at most one call, but the handles of different        *)
(* children are used by different threads and their calls interleave.      *)
(* Every waitpid or killpg is a step of its own, and between two of them   *)
(* the processes run, fork, die and leave the group.                       *)
(***************************************************************************)
EXTENDS UnixProcs

CONSTANTS
  AttachTo,       \* per child, the pid given to attach_to; None for leader()
  MayTryWait,     \* the caller also uses try_wait
  Interruptible,  \* the caller has signal handlers without SA_RESTART
  RawAccess       \* the caller also waits on the Child under inner_mut()

ASSUME CallerAssumption ==
  /\ AttachTo \in [Children -> Pids \cup {None}]
  /\ MayTryWait \in BOOLEAN
  /\ Interruptible \in BOOLEAN
  /\ RawAccess \in BOOLEAN

Answers == {"never", "running", "error"}
ASSUME AnswersAssumption == Codes \cap Answers = {} /\ None \notin Answers

VARIABLES
  pc,            \* where the handle's current call is
  pgid,          \* ProcessGroupChild.pgid
  exitStatus,    \* ProcessGroupChild.exit_status, None while Running
  innerStatus,   \* the status the inner std Child has cached
  parentStatus,  \* parent_exit_status of the wait_imp in progress
  answer,        \* what the last wait or try_wait returned
  lateCall,      \* the child had exited when the last such call was made
  waited,        \* wait has returned Ok on this handle
  plain,         \* no try_wait was made, and no wait failed or was cancelled
  killed         \* start_kill succeeded on this handle

handleVars == <<pc, pgid, exitStatus, innerStatus, parentStatus>>
historyVars == <<answer, lateCall, waited, plain, killed>>
vars == <<procVars, handleVars, historyVars>>

Pcs == {"unspawned", "failed", "idle", "killing", "inner_wait", "drain",
        "try_reap", "try_inner", "dropped"}

HandlesOK ==
  /\ pgid \in [Children -> Pids \cup {None}]
  /\ exitStatus \in [Children -> Codes \cup {None}]
  /\ innerStatus \in [Children -> Codes \cup {None}]
  /\ parentStatus \in [Children -> Codes \cup {None}]
  /\ answer \in [Children -> Codes \cup Answers]
  /\ lateCall \in [Children -> BOOLEAN]
  /\ waited \in [Children -> BOOLEAN]
  /\ plain \in [Children -> BOOLEAN]
  /\ killed \in [Children -> BOOLEAN]

TypeOK == ProcTypeOK /\ pc \in [Children -> Pcs] /\ HandlesOK

Init ==
  /\ ProcInit
  /\ pc = [h \in Children |-> "unspawned"]
  /\ pgid = [h \in Children |-> None]
  /\ exitStatus = [h \in Children |-> None]
  /\ innerStatus = [h \in Children |-> None]
  /\ parentStatus = [h \in Children |-> None]
  /\ answer = [h \in Children |-> "never"]
  /\ lateCall = [h \in Children |-> FALSE]
  /\ waited = [h \in Children |-> FALSE]
  /\ plain = [h \in Children |-> TRUE]
  /\ killed = [h \in Children |-> FALSE]

-----------------------------------------------------------------------------
Goto(h, label) == pc' = [pc EXCEPT ![h] = label]

\* The call in progress returns a.
Return(h, a) == Goto(h, "idle") /\ answer' = [answer EXCEPT ![h] = a]

\* The call in progress is a wait, and returns Ok(s).
ReturnFromWait(h, s) == Return(h, s) /\ waited' = [waited EXCEPT ![h] = TRUE]

NotPlain(h) == plain' = [plain EXCEPT ![h] = FALSE]

\* The call in progress is a wait, and returns an error.
FailWait(h) == Return(h, "error") /\ NotPlain(h)

\* self.exit_status = ChildExitStatus::Exited(s)
Cache(h, s) == exitStatus' = [exitStatus EXCEPT ![h] = s]

\* A wait or try_wait is called.
NoteCall(h) == lateCall' = [lateCall EXCEPT ![h] = HasExited(h)]

-----------------------------------------------------------------------------
(* Spawning. *)

\* The group ProcessGroup::pre_spawn has the child join, a new one for 0.
GroupToJoin(h) == IF AttachTo[h] = None THEN h ELSE AttachTo[h]

\* ProcessGroup::wrap_child: the handle's group is the child's own pid.
WrapChildPgid(h) == h

SpawnOk(h) ==
  /\ pc[h] = "unspawned"
  /\ AttachTo[h] # None => Members(AttachTo[h]) # {}
  /\ StartChild(h, GroupToJoin(h))
  /\ pgid' = [pgid EXCEPT ![h] = WrapChildPgid(h)]
  /\ Goto(h, "idle")
  /\ UNCHANGED <<exitStatus, innerStatus, parentStatus, historyVars>>

\* setpgid fails with EPERM: there is no such group.
SpawnErr(h) ==
  /\ pc[h] = "unspawned"
  /\ AttachTo[h] # None /\ Members(AttachTo[h]) = {}
  /\ Goto(h, "failed")
  /\ UNCHANGED <<procVars, pgid, exitStatus, innerStatus, parentStatus,
                 historyVars>>

-----------------------------------------------------------------------------
(* Killing.  killpg fails with ESRCH on an empty group; signal() with      *)
(* SIGKILL is the same call, and other signals change nothing here.        *)

\* Mutant: only the child itself is killed, as by Child::kill.
KillTargetsChildOnly(h) == Members(pgid[h]) \cap {h}

KillTargets(h) == Members(pgid[h])

StartKill(h) ==
  /\ pc[h] = "idle"
  /\ KillTargets(h) # {}
  /\ Doom(KillTargets(h))
  /\ killed' = [killed EXCEPT ![h] = TRUE]
  /\ UNCHANGED <<handleVars, answer, lateCall, waited, plain>>

\* kill() is start_kill and, unless that fails, wait.
Kill(h) ==
  /\ pc[h] = "idle"
  /\ KillTargets(h) # {}
  /\ Doom(KillTargets(h))
  /\ killed' = [killed EXCEPT ![h] = TRUE]
  /\ Goto(h, "killing")
  /\ UNCHANGED <<pgid, exitStatus, innerStatus, parentStatus, answer, lateCall,
                 waited, plain>>

-----------------------------------------------------------------------------
(* wait() *)

\* Mutant: exit_status is not looked at.
WaitCallUncached(h) ==
  /\ pc[h] \in {"idle", "killing"}
  /\ NoteCall(h)
  /\ Goto(h, "inner_wait")
  /\ UNCHANGED <<procVars, pgid, exitStatus, innerStatus, parentStatus, answer,
                 waited, plain, killed>>

\* The cached status answers at once; otherwise the inner child is waited for.
WaitCall(h) ==
  /\ pc[h] \in {"idle", "killing"}
  /\ NoteCall(h)
  /\ IF exitStatus[h] # None
     THEN ReturnFromWait(h, exitStatus[h])
     ELSE Goto(h, "inner_wait") /\ UNCHANGED <<answer, waited>>
  /\ UNCHANGED <<procVars, pgid, exitStatus, innerStatus, parentStatus, plain,
                 killed>>

\* Child::wait answers from its own cache, ...
InnerWaitCached(h) ==
  /\ pc[h] = "inner_wait" /\ innerStatus[h] # None
  /\ Cache(h, innerStatus[h])
  /\ Goto(h, "drain")
  /\ UNCHANGED <<procVars, pgid, innerStatus, parentStatus, historyVars>>

\* Mutant: wait waits for its child by itself, not through the inner Child.
InnerWaitReapItself(h) ==
  /\ pc[h] = "inner_wait" /\ innerStatus[h] = None
  /\ state[h] = "zombie"
  /\ Reap(h)
  /\ Cache(h, code[h])
  /\ Goto(h, "drain")
  /\ UNCHANGED <<pgid, innerStatus, parentStatus, historyVars>>

\* ... or blocks in waitpid(pid, 0), retried on EINTR, until it can reap, ...
InnerWaitReap(h) ==
  /\ pc[h] = "inner_wait" /\ innerStatus[h] = None
  /\ state[h] = "zombie"
  /\ Reap(h)
  /\ innerStatus' = [innerStatus EXCEPT ![h] = code[h]]
  /\ Cache(h, code[h])
  /\ Goto(h, "drain")
  /\ UNCHANGED <<pgid, parentStatus, historyVars>>

\* ... or fails with ECHILD: someone else's waitpid has reaped the child.
InnerWaitErr(h) ==
  /\ pc[h] = "inner_wait" /\ innerStatus[h] = None
  /\ state[h] = "reaped"
  /\ FailWait(h)
  /\ UNCHANGED <<procVars, pgid, exitStatus, innerStatus, parentStatus,
                 lateCall, waited, killed>>

\* One turn of the blocking wait_imp: a child of the group is reaped.
DrainReap(h) ==
  /\ pc[h] = "drain"
  /\ \E p \in Zombies(Waitable(pgid[h])) : Reap(p)
  /\ UNCHANGED <<handleVars, historyVars>>

\* Mutant: wait returns with the child's status whatever is left of its group.
DrainDoneAtOnce(h) ==
  /\ pc[h] = "drain"
  /\ ReturnFromWait(h, exitStatus[h])
  /\ UNCHANGED <<procVars, pgid, exitStatus, innerStatus, parentStatus,
                 lateCall, plain, killed>>

\* Mutant: wait goes on until killpg finds no group, not until ECHILD.
DrainDoneWhenGroupGone(h) ==
  /\ pc[h] = "drain" /\ Members(pgid[h]) = {}
  /\ ReturnFromWait(h, exitStatus[h])
  /\ UNCHANGED <<procVars, pgid, exitStatus, innerStatus, parentStatus,
                 lateCall, plain, killed>>

\* ECHILD: wait_imp breaks out of its loop and wait returns the status.
DrainDone(h) ==
  /\ pc[h] = "drain" /\ Waitable(pgid[h]) = {}
  /\ ReturnFromWait(h, exitStatus[h])
  /\ UNCHANGED <<procVars, pgid, exitStatus, innerStatus, parentStatus,
                 lateCall, plain, killed>>

\* EINTR: wait_imp fails, and so does wait, with the status already cached.
DrainInterrupted(h) ==
  /\ Interruptible
  /\ pc[h] = "drain"
  /\ Waitable(pgid[h]) # {} /\ Zombies(Waitable(pgid[h])) = {}
  /\ FailWait(h)
  /\ UNCHANGED <<procVars, pgid, exitStatus, innerStatus, parentStatus,
                 lateCall, waited, killed>>

-----------------------------------------------------------------------------
(* try_wait() *)

TryWaitCall(h) ==
  /\ MayTryWait
  /\ pc[h] = "idle"
  /\ NoteCall(h)
  /\ NotPlain(h)
  /\ IF exitStatus[h] # None
     THEN Return(h, exitStatus[h]) /\ UNCHANGED parentStatus
     ELSE /\ Goto(h, "try_reap")
          /\ parentStatus' = [parentStatus EXCEPT ![h] = None]
          /\ UNCHANGED answer
  /\ UNCHANGED <<procVars, pgid, exitStatus, innerStatus, waited, killed>>

\* Mutant: whatever pid is reaped, its status is kept as the parent's.
TryReapAny(h) ==
  /\ pc[h] = "try_reap"
  /\ \E p \in Zombies(Waitable(pgid[h])) :
       Reap(p) /\ parentStatus' = [parentStatus EXCEPT ![h] = code[p]]
  /\ UNCHANGED <<pc, pgid, exitStatus, innerStatus, historyVars>>

\* Mutant: wait_imp does not loop after a pid it has reaped.
TryReapOnce(h) ==
  /\ pc[h] = "try_reap"
  /\ \E p \in Zombies(Waitable(pgid[h])) : Reap(p)
  /\ Goto(h, "try_inner")
  /\ UNCHANGED <<pgid, exitStatus, innerStatus, parentStatus, historyVars>>

\* One turn of wait_imp with WNOHANG: a child of the group is reaped, and its
\* status kept if it is the leader's.
TryReap(h) ==
  /\ pc[h] = "try_reap"
  /\ \E p \in Zombies(Waitable(pgid[h])) :
       /\ Reap(p)
       /\ parentStatus' = IF p = pgid[h]
                          THEN [parentStatus EXCEPT ![h] = code[p]]
                          ELSE parentStatus
  /\ UNCHANGED <<pc, pgid, exitStatus, innerStatus, historyVars>>

\* Mutant: Break is taken for Break(None).
TryBreakEmpty(h) ==
  /\ pc[h] = "try_reap" /\ Waitable(pgid[h]) = {}
  /\ Return(h, "running")
  /\ UNCHANGED <<procVars, pgid, exitStatus, innerStatus, parentStatus,
                 lateCall, waited, plain, killed>>

\* ECHILD: Break(parent_exit_status), which try_wait caches and returns.
TryBreak(h) ==
  /\ pc[h] = "try_reap" /\ Waitable(pgid[h]) = {}
  /\ IF parentStatus[h] # None
     THEN Cache(h, parentStatus[h]) /\ Return(h, parentStatus[h])
     ELSE UNCHANGED exitStatus /\ Return(h, "running")
  /\ UNCHANGED <<procVars, pgid, innerStatus, parentStatus, lateCall, waited,
                 plain, killed>>

\* Mutant: Continue is answered like Break, with parent_exit_status.
TryContinueAsBreak(h) ==
  /\ pc[h] = "try_reap"
  /\ Waitable(pgid[h]) # {} /\ Zombies(Waitable(pgid[h])) = {}
  /\ Return(h, parentStatus[h])
  /\ UNCHANGED <<procVars, pgid, exitStatus, innerStatus, parentStatus,
                 lateCall, waited, plain, killed>>

\* 0: some child of the group still runs; parent_exit_status is dropped.
TryContinue(h) ==
  /\ pc[h] = "try_reap"
  /\ Waitable(pgid[h]) # {} /\ Zombies(Waitable(pgid[h])) = {}
  /\ Goto(h, "try_inner")
  /\ parentStatus' = [parentStatus EXCEPT ![h] = None]
  /\ UNCHANGED <<procVars, pgid, exitStatus, innerStatus, historyVars>>

\* Child::try_wait: its cache, waitpid(pid, WNOHANG), or ECHILD.
TryInnerCached(h) ==
  /\ pc[h] = "try_inner" /\ innerStatus[h] # None
  /\ Cache(h, innerStatus[h])
  /\ Return(h, innerStatus[h])
  /\ UNCHANGED <<procVars, pgid, innerStatus, parentStatus, lateCall, waited,
                 plain, killed>>

TryInnerReap(h) ==
  /\ pc[h] = "try_inner" /\ innerStatus[h] = None
  /\ state[h] = "zombie"
  /\ Reap(h)
  /\ innerStatus' = [innerStatus EXCEPT ![h] = code[h]]
  /\ Cache(h, code[h])
  /\ Return(h, code[h])
  /\ UNCHANGED <<pgid, parentStatus, lateCall, waited, plain, killed>>

TryInnerNone(h) ==
  /\ pc[h] = "try_inner" /\ innerStatus[h] = None
  /\ state[h] = "running"
  /\ Return(h, "running")
  /\ UNCHANGED <<procVars, pgid, exitStatus, innerStatus, parentStatus,
                 lateCall, waited, plain, killed>>

TryInnerErr(h) ==
  /\ pc[h] = "try_inner" /\ innerStatus[h] = None
  /\ state[h] = "reaped"
  /\ Return(h, "error")
  /\ UNCHANGED <<procVars, pgid, exitStatus, innerStatus, parentStatus,
                 lateCall, waited, plain, killed>>

-----------------------------------------------------------------------------
(* The rest of what the caller may do with a handle. *)

\* inner_mut().wait() or .try_wait() on the bare Child.
RawWait(h) ==
  /\ RawAccess
  /\ pc[h] = "idle" /\ innerStatus[h] = None
  /\ state[h] = "zombie"
  /\ Reap(h)
  /\ innerStatus' = [innerStatus EXCEPT ![h] = code[h]]
  /\ UNCHANGED <<pc, pgid, exitStatus, parentStatus, historyVars>>

\* The handle is dropped, or consumed by into_inner.  Neither kills nor waits.
Release(h) ==
  /\ pc[h] = "idle"
  /\ Goto(h, "dropped")
  /\ UNCHANGED <<procVars, pgid, exitStatus, innerStatus, parentStatus,
                 historyVars>>

-----------------------------------------------------------------------------
\* What the caller decides to do with a handle.
UserStep(h) ==
  \/ SpawnOk(h) \/ SpawnErr(h)
  \/ StartKill(h) \/ Kill(h)
  \/ TryWaitCall(h)
  \/ pc[h] = "idle" /\ WaitCall(h)
  \/ RawWait(h) \/ Release(h)

\* A call in progress goes on.
CallStep(h) ==
  \/ pc[h] = "killing" /\ WaitCall(h)
  \/ InnerWaitCached(h) \/ InnerWaitReap(h) \/ InnerWaitErr(h)
  \/ DrainReap(h) \/ DrainDone(h)
  \/ TryReap(h) \/ TryBreak(h) \/ TryContinue(h)
  \/ TryInnerCached(h) \/ TryInnerReap(h) \/ TryInnerNone(h) \/ TryInnerErr(h)

Environment ==
  \/ ProcStep /\ UNCHANGED <<handleVars, historyVars>>
  \/ \E h \in Children : DrainInterrupted(h)

Next == Environment \/ \E h \in Children : UserStep(h) \/ CallStep(h)

\* A thread inside a call runs on when it can, and a SIGKILL gets delivered.
\* Nothing obliges the caller to make a call, or a process to exit by itself.
Fairness ==
  /\ \A h \in Children : WF_vars(CallStep(h))
  /\ \A p \in Pids :
       WF_vars(p \in doomed /\ Exit(p, SigKilled)
                 /\ UNCHANGED <<handleVars, historyVars>>)

Spec == Init /\ [][Next]_vars /\ Fairness

-----------------------------------------------------------------------------
(* Properties *)

\* Every status the handle holds or reports is the exit status of the child it
\* was made for, and is held only once the child is really gone: no status of
\* another process of the group is taken for it (wait_imp's test of pid).
StatusIsTrue ==
  \A h \in Children :
    /\ exitStatus[h] # None => state[h] = "reaped" /\ exitStatus[h] = code[h]
    /\ answer[h] \in Codes => exitStatus[h] = answer[h]

\* When the handle reaps its child it keeps the status: in a cache, or in the
\* wait_imp that is still running.  Otherwise no later call could report it.
NoStatusLost ==
  \A h \in Children :
    state[h] = "reaped" /\ pc[h] # "dropped" =>
      \/ exitStatus[h] # None
      \/ innerStatus[h] # None
      \/ pc[h] = "try_reap" /\ parentStatus[h] # None

\* A wait or try_wait made after the child has exited returns its status, not
\* "still running" and not an error (std/core.rs, try_wait and wait).
LateCallsGetStatus ==
  \A h \in Children :
    pc[h] = "idle" /\ lateCall[h] => answer[h] \in Codes

\* Where only wait is used on a handle, into_inner gives a Child that knows
\* whether it was reaped, and so does not wait for, or signal on drop, a pid
\* that is free ("wrappers must ensure that the wrapped child is in a
\* consistent state when this is called or they are dropped", std/core.rs).
PlainUnwrapIsSafe ==
  \A h \in Children :
    plain[h] /\ pc[h] = "idle" /\ state[h] = "reaped" => innerStatus[h] # None

\* Once start_kill has succeeded no process of the child's group goes on
\* running, whatever was being forked meanwhile and whether or not the leader
\* was still alive.
KillReachesGroup ==
  \A h \in Children :
    killed[h] => \A p \in Members(h) : state[p] = "running" => p \in doomed

\* "Repeatedly calling this (or other wait methods) after the child has exited
\* will always return the same result" (std/core.rs).
AnswerIsStable ==
  [][\A h \in Children : answer[h] \in Codes => answer'[h] = answer[h]]_vars

\* The first wait() that returns Ok has reaped every process of the child's
\* group that the caller could reap ("ensures that all processes in the group
\* are reaped", ProcessGroupChild).
WaitReapsGroup ==
  [][\A h \in Children :
       ~waited[h] /\ waited'[h] => Waitable(group[h])' = {}]_vars

\* That is so of a child that leads its group, on whose handle only wait is
\* used and no wait failed: once the status is cached by a try_wait or by a
\* failed wait, wait does not look at the group, and the handle of a child
\* attached to a group looks at another one.
PlainWaitReapsGroup ==
  [][\A h \in Children :
       AttachTo[h] = None /\ plain[h] /\ ~waited[h] /\ waited'[h]
         => Waitable(group[h])' = {}]_vars

\* kill() returns: what it waits for is dead or about to be.
KillReturns ==
  \A h \in Children : pc[h] = "killing" ~> pc[h] = "idle"

\* With handles on group leaders only, no adopted orphans and no use of the
\* inner Child, the handles keep the promise of wait and try_wait.
Promise == INSTANCE ChildHandle
             WITH Handles <- Children,
                  exit <- [h \in Children |-> code[h]],
                  late <- lateCall

KeepsPromise == Promise!Spec

-----------------------------------------------------------------------------
(* Inductive invariants. *)

\* Once a handle exists it is in no state before its spawn.
Live(h) == pc[h] \notin {"unspawned", "failed"}

\* A process that has exited, and no other, has an exit status.
ExitHasCode == \A p \in Pids : HasExited(p) <=> code[p] # None

\* wait drains the group with the status it is to return already cached.
DrainHasStatus == \A h \in Children : pc[h] = "drain" => exitStatus[h] # None

\* What the types rest on.
TypeInv == TypeOK /\ ExitHasCode /\ DrainHasStatus

\* The same for the std and the tokio side, whose handles may be at "join".
BaseInv ==
  /\ ProcTypeOK /\ pc \in [Children -> Pcs \cup {"join"}] /\ HandlesOK
  /\ ExitHasCode /\ DrainHasStatus

\* Each place the handle keeps a status in holds its child's, if any.
HoldsStatusOf(h, status) ==
  status # None => state[h] = "reaped" /\ status = code[h]

\* For every use of the handles.
StatusInv ==
  \A h \in Children :
    /\ Live(h) => pgid[h] = h
    /\ HoldsStatusOf(h, innerStatus[h])
    /\ HoldsStatusOf(h, exitStatus[h])
    /\ HoldsStatusOf(h, parentStatus[h])
    /\ answer[h] \in Codes => exitStatus[h] = answer[h]
    /\ pc[h] \in {"drain", "join"} => answer[h] \notin Codes
    /\ pc[h] \in {"inner_wait", "try_reap", "try_inner"}
       => exitStatus[h] = None

\* A handle on which only wait is used, and none failed, has a status only
\* while its wait drains the group and after a wait has returned.
PlainInv ==
  \A h \in Children :
    plain[h] =>
      /\ pc[h] \notin {"try_reap", "try_inner"}
      /\ exitStatus[h] # None => waited[h] \/ pc[h] \in {"drain", "join"}

\* A child that is not attached to a group leads one, which it cannot leave.
OwnGroupInv ==
  \A h \in Children : AttachTo[h] = None /\ Live(h) => group[h] = h

\* Every child leads its own group.
Leaders == \A h \in Children : AttachTo[h] = None

\* Then a handle's waitpid(-pgid) can reap no child of another handle and, if
\* the caller adopts nobody, only its own.
LeadersInv ==
  /\ ~Subreaper => \A p \in Pids : parent[p] = Caller => p \in Children
  /\ \A h \in Children :
       /\ group[h] \in {None, h}
       /\ state[h] # "unborn" => parent[h] = Caller /\ group[h] = h
       /\ Live(h) => state[h] # "unborn"
       /\ lateCall[h] => HasExited(h)
       /\ killed[h] => state[h] # "unborn"

\* What it takes of the caller that a status is kept: that it makes no try_wait
\* or adopts no orphans.
KeepsStatus == ~MayTryWait \/ ~Subreaper

\* What it takes that each call finds the status that is kept: that no try_wait
\* asks wait_imp for a child that was reaped under inner_mut(), ...
AsksHandle == ~MayTryWait \/ ~RawAccess

\* ... and that no wait fails half way.
NeverInterrupted == ~Subreaper \/ ~Interruptible

\* Without try_wait, what the handle reaps the inner Child has reaped; without
\* raw access, what the inner Child knows the handle does.
KnownInv ==
  /\ NoStatusLost
  /\ ~MayTryWait =>
       \A h \in Children :
         /\ pc[h] \notin {"try_reap", "try_inner"}
         /\ state[h] = "reaped" /\ pc[h] # "dropped" => innerStatus[h] # None
  /\ ~RawAccess =>
       \A h \in Children : innerStatus[h] # None => exitStatus[h] # None

\* No child is in another's group or for another to wait for, and what a handle
\* on which only wait is used reaps, the inner Child has reaped.
UnwrapInv ==
  \A h \in Children :
    /\ group[h] \in {None, h} /\ parent[h] \in {None, Caller}
    /\ pc[h] \in {"try_reap", "try_inner"} => ~plain[h]
    /\ plain[h] /\ state[h] = "reaped" /\ pc[h] # "dropped"
       => innerStatus[h] # None

=============================================================================
