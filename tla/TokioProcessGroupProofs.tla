----------------------- MODULE TokioProcessGroupProofs -----------------------
(***************************************************************************)
(* Proofs about TokioProcessGroup, for every set of processes, every       *)
(* number of rounds, every use of the handles and every cancellation.      *)
(***************************************************************************)
EXTENDS TokioProcessGroup, ProcessGroupProofs

\* The kinds of step there are, for the case splits below.
LEMMA TokioStepKinds ==
  ASSUME TokioNext
  PROVE  \/ /\ UNCHANGED <<handleVars, historyVars, tokioVars>>
            /\ \/ \E p, c \in Pids : Fork(p, c)
               \/ \E p, c \in Pids : ReapOwnChild(p, c)
               \/ \E p \in Pids, s \in Codes : Exit(p, s)
               \/ \E p \in Pids : LeaveGroup(p)
         \/ \E h \in Children :
              /\ UNCHANGED tokioVars
              /\ \/ SpawnOk(h)
                 \/ SpawnErr(h)
                 \/ StartKill(h)
                 \/ Kill(h)
                 \/ TryWaitCall(h)
                 \/ WaitCall(h)
                 \/ InnerWaitErr(h)
                 \/ DrainReap(h)
                 \/ DrainDone(h)
                 \/ TryReap(h)
                 \/ TryBreak(h)
                 \/ TryContinue(h)
                 \/ TryInnerCached(h)
                 \/ TryInnerReap(h)
                 \/ TryInnerNone(h)
                 \/ TryInnerErr(h)
         \/ \E h \in Children :
              \/ InnerWait(h)
              \/ NextRound(h)
              \/ StartDrainer(h)
              \/ DrainerReap(h)
              \/ DrainerDone(h)
              \/ DrainerInterrupted(h)
              \/ Join(h)
              \/ Cancel(h)
              \/ Drop(h)
              \/ OrphanQueueReap(h)
<1>1. CASE TokioEnvironment
  <2>1. CASE ProcStep /\ UNCHANGED <<handleVars, historyVars, tokioVars>>
    BY <2>1 DEF ProcStep
  <2>2. CASE \E h \in Children : DrainerInterrupted(h) \/ OrphanQueueReap(h)
    BY <2>2
  <2> QED
    BY <1>1, <2>1, <2>2 DEF TokioEnvironment
<1>2. CASE \E h \in Children : TokioUserStep(h)
  BY <1>2 DEF TokioUserStep, Spawn, StartKillOrKill, BeginTryWait, BeginWait
<1>3. CASE \E h \in Children : TokioCallStep(h)
  BY <1>3 DEF TokioCallStep, BeginWait, InnerWaitFails, Drain, TryWaitStep
<1>4. CASE \E h \in Children : DrainerStep(h)
  BY <1>4 DEF DrainerStep
<1> QED
  BY <1>1, <1>2, <1>3, <1>4 DEF TokioNext

-----------------------------------------------------------------------------
\* A step of the tokio side is one of the std side, whose lemmas tell what it
\* keeps, or one of these.
LEMMA SharedSteps ==
  ASSUME [TokioNext]_allVars
  PROVE  \/ [Next]_vars /\ UNCHANGED <<drainer, drainers>>
         \/ \E h \in Children :
              \/ StartDrainer(h)
              \/ DrainerReap(h)
              \/ DrainerDone(h)
              \/ DrainerInterrupted(h)
              \/ Join(h)
              \/ Cancel(h)
              \/ Drop(h)
              \/ OrphanQueueReap(h)
<1>1. CASE UNCHANGED allVars
  BY <1>1 DEF allVars, tokioVars
<1>2. CASE TokioEnvironment
  BY <1>2 DEF TokioEnvironment, Next, Environment, tokioVars
<1>3. ASSUME NEW h \in Children, TokioUserStep(h), ~Cancel(h), ~Drop(h)
      PROVE  Next /\ UNCHANGED tokioVars
  BY <1>3 DEF TokioUserStep, Spawn, StartKillOrKill, BeginTryWait, BeginWait,
              Next, UserStep
<1>4. ASSUME NEW h \in Children, TokioCallStep(h), ~NextRound(h),
             ~StartDrainer(h), ~Join(h)
      PROVE  Next /\ UNCHANGED <<drainer, drainers>>
  BY <1>4 DEF TokioCallStep, BeginWait, InnerWait, InnerWaitFails, Drain,
              TryWaitStep, Next, CallStep, tokioVars
<1>5. ASSUME NEW h \in Children, NextRound(h)
      PROVE  UNCHANGED vars /\ UNCHANGED <<drainer, drainers>>
  BY <1>5 DEF NextRound
<1> QED
  BY <1>1, <1>2, <1>3, <1>4, <1>5 DEF TokioNext, DrainerStep, tokioVars

-----------------------------------------------------------------------------
\* The types, and what they rest on, are preserved by every step.
LEMMA TokioTypeStep ==
  ASSUME TokioTypeInv, [TokioNext]_allVars
  PROVE  TokioTypeInv'
<1> USE PidsAssumption, CodesAssumption, CallerAssumption, AnswersAssumption,
        TokioAssumption
    DEF TokioTypeInv, TokioTypeOK, HandlesOK, ProcTypeOK, ExitHasCode,
        HasExited, DrainHasStatus, Live, Pcs, Answers, procVars,
        handleVars, historyVars, tokioVars
<1>1. ASSUME NEW p \in Pids, NEW c \in Pids, Fork(p, c),
             UNCHANGED <<handleVars, historyVars, tokioVars>>
      PROVE  TokioTypeInv'
  BY <1>1 DEF Fork
<1>2. ASSUME NEW p \in Pids, NEW c \in Pids, ReapOwnChild(p, c),
             UNCHANGED <<handleVars, historyVars, tokioVars>>
      PROVE  TokioTypeInv'
  BY <1>2 DEF ReapOwnChild, Reap
<1>3. ASSUME NEW p \in Pids, NEW s \in Codes, Exit(p, s),
             UNCHANGED <<handleVars, historyVars, tokioVars>>
      PROVE  TokioTypeInv'
  BY <1>3 DEF Exit, Adopter
<1>4. ASSUME NEW p \in Pids, LeaveGroup(p),
             UNCHANGED <<handleVars, historyVars, tokioVars>>
      PROVE  TokioTypeInv'
  BY <1>4 DEF LeaveGroup
<1>5. ASSUME NEW h \in Children, SpawnOk(h), UNCHANGED tokioVars
      PROVE  TokioTypeInv'
  BY <1>5 DEF SpawnOk, StartChild, GroupToJoin, WrapChildPgid, Goto
<1>6. ASSUME NEW h \in Children, SpawnErr(h), UNCHANGED tokioVars
      PROVE  TokioTypeInv'
  BY <1>6 DEF SpawnErr, Goto
<1>7. ASSUME NEW h \in Children, StartKill(h), UNCHANGED tokioVars
      PROVE  TokioTypeInv'
  BY <1>7 DEF StartKill, Doom, KillTargets, Members
<1>8. ASSUME NEW h \in Children, Kill(h), UNCHANGED tokioVars
      PROVE  TokioTypeInv'
  BY <1>8 DEF Kill, Doom, Goto, KillTargets, Members
<1>9. ASSUME NEW h \in Children, TryWaitCall(h), UNCHANGED tokioVars
      PROVE  TokioTypeInv'
  BY <1>9 DEF TryWaitCall, NoteCall, NotPlain, Goto, Return
<1>10. ASSUME NEW h \in Children, WaitCall(h), UNCHANGED tokioVars
      PROVE  TokioTypeInv'
  <2>1. CASE exitStatus[h] # None
    <3>1. /\ pc' = [pc EXCEPT ![h] = "idle"]
          /\ answer' = [answer EXCEPT ![h] = exitStatus[h]]
          /\ waited' = [waited EXCEPT ![h] = TRUE]
          /\ lateCall' = [lateCall EXCEPT ![h] = HasExited(h)]
          /\ UNCHANGED <<procVars, pgid, exitStatus, innerStatus, parentStatus,
                         plain, killed, tokioVars>>
      BY <1>10, <2>1
      DEF WaitCall, NoteCall, Goto, Return, ReturnFromWait
    <3>2. exitStatus[h] \in Codes
      BY <2>1
    <3> QED
      BY <3>1, <3>2
  <2>2. CASE exitStatus[h] = None
    BY <1>10, <2>2 DEF WaitCall, NoteCall, Goto
  <2> QED
    BY <2>1, <2>2
<1>11. ASSUME NEW h \in Children, InnerWaitErr(h), UNCHANGED tokioVars
      PROVE  TokioTypeInv'
  BY <1>11 DEF InnerWaitErr, FailWait, NotPlain, Return, Goto
<1>12. ASSUME NEW h \in Children, DrainReap(h), UNCHANGED tokioVars
      PROVE  TokioTypeInv'
  BY <1>12 DEF DrainReap, Reap, Zombies, Waitable, Members
<1>13. ASSUME NEW h \in Children, DrainDone(h), UNCHANGED tokioVars
      PROVE  TokioTypeInv'
  BY <1>13 DEF DrainDone, ReturnFromWait, Return, Goto
<1>14. ASSUME NEW h \in Children, TryReap(h), UNCHANGED tokioVars
      PROVE  TokioTypeInv'
  BY <1>14 DEF TryReap, Reap, Zombies, Waitable, Members
<1>15. ASSUME NEW h \in Children, TryBreak(h), UNCHANGED tokioVars
      PROVE  TokioTypeInv'
  BY <1>15 DEF TryBreak, Cache, Return, Goto
<1>16. ASSUME NEW h \in Children, TryContinue(h), UNCHANGED tokioVars
      PROVE  TokioTypeInv'
  BY <1>16 DEF TryContinue, Goto
<1>17. ASSUME NEW h \in Children, TryInnerCached(h), UNCHANGED tokioVars
      PROVE  TokioTypeInv'
  BY <1>17 DEF TryInnerCached, Cache, Return, Goto
<1>18. ASSUME NEW h \in Children, TryInnerReap(h), UNCHANGED tokioVars
      PROVE  TokioTypeInv'
  BY <1>18 DEF TryInnerReap, Reap, Cache, Return, Goto
<1>19. ASSUME NEW h \in Children, TryInnerNone(h), UNCHANGED tokioVars
      PROVE  TokioTypeInv'
  BY <1>19 DEF TryInnerNone, Return, Goto
<1>20. ASSUME NEW h \in Children, TryInnerErr(h), UNCHANGED tokioVars
      PROVE  TokioTypeInv'
  BY <1>20 DEF TryInnerErr, Return, Goto
<1>21. ASSUME NEW h \in Children, InnerWait(h)
      PROVE  TokioTypeInv'
  <2>1. CASE InnerWaitCached(h)
    BY <1>21, <2>1 DEF InnerWait, InnerWaitCached, Cache, Goto
  <2>2. CASE InnerWaitReap(h)
    BY <1>21, <2>2 DEF InnerWait, InnerWaitReap, Reap, Cache, Goto
  <2> QED
    BY <1>21, <2>1, <2>2 DEF InnerWait
<1>22. ASSUME NEW h \in Children, NextRound(h)
      PROVE  TokioTypeInv'
  BY <1>22 DEF NextRound, StillAlive, vars
<1>23. ASSUME NEW h \in Children, StartDrainer(h)
      PROVE  TokioTypeInv'
  BY <1>23 DEF StartDrainer, StillAlive, Goto
<1>24. ASSUME NEW h \in Children, DrainerReap(h)
      PROVE  TokioTypeInv'
  BY <1>24 DEF DrainerReap, Reap, Zombies, Waitable, Members
<1>25. ASSUME NEW h \in Children, DrainerDone(h)
      PROVE  TokioTypeInv'
  BY <1>25 DEF DrainerDone, vars
<1>26. ASSUME NEW h \in Children, DrainerInterrupted(h)
      PROVE  TokioTypeInv'
  BY <1>26 DEF DrainerInterrupted, vars
<1>27. ASSUME NEW h \in Children, Join(h)
      PROVE  TokioTypeInv'
  BY <1>27 DEF Join, ReturnFromWait, FailWait, NotPlain, Return, Goto
<1>28. ASSUME NEW h \in Children, Cancel(h)
      PROVE  TokioTypeInv'
  BY <1>28 DEF Cancel, NotPlain, Goto
<1>29. ASSUME NEW h \in Children, Drop(h)
      PROVE  TokioTypeInv'
  BY <1>29 DEF Drop, Doom, Goto
<1>30. ASSUME NEW h \in Children, OrphanQueueReap(h)
      PROVE  TokioTypeInv'
  BY <1>30 DEF OrphanQueueReap, Reap
<1>31. CASE UNCHANGED allVars
  BY <1>31 DEF allVars, vars
<1> QED
  BY TokioStepKinds, <1>1, <1>2, <1>3, <1>4, <1>5, <1>6, <1>7, <1>8, <1>9,
     <1>10, <1>11, <1>12, <1>13, <1>14, <1>15, <1>16, <1>17, <1>18, <1>19,
     <1>20, <1>21, <1>22, <1>23, <1>24, <1>25, <1>26, <1>27, <1>28, <1>29,
     <1>30, <1>31

-----------------------------------------------------------------------------
LEMMA TokioTypesAreBase == TokioTypeInv => BaseInv
BY DEF TokioTypeInv, TokioTypeOK, BaseInv

\* What the handle holds stays true, whatever is cancelled and whoever reaps.
LEMMA TokioStatusStep ==
  ASSUME TokioTypeInv, StatusInv, [TokioNext]_allVars
  PROVE  StatusInv'
<1> USE PidsAssumption, CodesAssumption, AnswersAssumption, TokioTypesAreBase
    DEF BaseInv, HandlesOK, ProcTypeOK, ExitHasCode, HasExited,
        DrainHasStatus, StatusInv, HoldsStatusOf, Live, Answers, procVars,
        handleVars, historyVars, tokioVars
<1>1. CASE [Next]_vars
  BY <1>1, StatusStep
<1>2. ASSUME NEW h \in Children, StartDrainer(h)
      PROVE  StatusInv'
  BY <1>2 DEF StartDrainer, StillAlive, Goto
<1>3. ASSUME NEW h \in Children, DrainerReap(h)
      PROVE  StatusInv'
  BY <1>3 DEF DrainerReap, Reap, Zombies
<1>4. ASSUME NEW h \in Children, DrainerDone(h)
      PROVE  StatusInv'
  BY <1>4 DEF DrainerDone, vars
<1>5. ASSUME NEW h \in Children, DrainerInterrupted(h)
      PROVE  StatusInv'
  BY <1>5 DEF DrainerInterrupted, vars
<1>6. ASSUME NEW h \in Children, Join(h)
      PROVE  StatusInv'
  BY <1>6 DEF TokioTypeInv, Join, ReturnFromWait, FailWait, NotPlain, Return,
              Goto
<1>7. ASSUME NEW h \in Children, Cancel(h)
      PROVE  StatusInv'
  BY <1>7 DEF Cancel, NotPlain, Goto
<1>8. ASSUME NEW h \in Children, Drop(h)
      PROVE  StatusInv'
  BY <1>8 DEF Drop, Doom, Goto
<1>9. ASSUME NEW h \in Children, OrphanQueueReap(h)
      PROVE  StatusInv'
  BY <1>9 DEF OrphanQueueReap, Reap
<1> QED
  BY SharedSteps, <1>1, <1>2, <1>3, <1>4, <1>5, <1>6, <1>7, <1>8, <1>9

-----------------------------------------------------------------------------
\* Only a wait that finds no status cached gets as far as to start the thread,
\* and it caches one on the way.
LEMMA DrainerInvStep ==
  ASSUME TokioTypeInv, DrainerInv, [TokioNext]_allVars
  PROVE  DrainerInv'
<1> USE DEF TokioTypeInv, TokioTypeOK, HandlesOK, DrainerInv, DrainHasStatus,
            procVars, handleVars, historyVars, tokioVars
<1>1. ASSUME NEW p \in Pids, NEW c \in Pids, Fork(p, c),
             UNCHANGED <<handleVars, historyVars, tokioVars>>
      PROVE  DrainerInv'
  BY <1>1 DEF Fork
<1>2. ASSUME NEW p \in Pids, NEW c \in Pids, ReapOwnChild(p, c),
             UNCHANGED <<handleVars, historyVars, tokioVars>>
      PROVE  DrainerInv'
  BY <1>2 DEF ReapOwnChild
<1>3. ASSUME NEW p \in Pids, NEW s \in Codes, Exit(p, s),
             UNCHANGED <<handleVars, historyVars, tokioVars>>
      PROVE  DrainerInv'
  BY <1>3 DEF Exit
<1>4. ASSUME NEW p \in Pids, LeaveGroup(p),
             UNCHANGED <<handleVars, historyVars, tokioVars>>
      PROVE  DrainerInv'
  BY <1>4 DEF LeaveGroup
<1>5. ASSUME NEW h \in Children, SpawnOk(h), UNCHANGED tokioVars
      PROVE  DrainerInv'
  BY <1>5 DEF SpawnOk, Goto
<1>6. ASSUME NEW h \in Children, SpawnErr(h), UNCHANGED tokioVars
      PROVE  DrainerInv'
  BY <1>6 DEF SpawnErr, Goto
<1>7. ASSUME NEW h \in Children, StartKill(h), UNCHANGED tokioVars
      PROVE  DrainerInv'
  BY <1>7 DEF StartKill
<1>8. ASSUME NEW h \in Children, Kill(h), UNCHANGED tokioVars
      PROVE  DrainerInv'
  BY <1>8 DEF Kill, Goto
<1>9. ASSUME NEW h \in Children, TryWaitCall(h), UNCHANGED tokioVars
      PROVE  DrainerInv'
  BY <1>9 DEF TryWaitCall, NoteCall, NotPlain, Goto, Return
<1>10. ASSUME NEW h \in Children, WaitCall(h), UNCHANGED tokioVars
      PROVE  DrainerInv'
  BY <1>10 DEF WaitCall, NoteCall, Goto, Return, ReturnFromWait
<1>11. ASSUME NEW h \in Children, InnerWaitErr(h), UNCHANGED tokioVars
      PROVE  DrainerInv'
  BY <1>11 DEF InnerWaitErr, FailWait, NotPlain, Return, Goto
<1>12. ASSUME NEW h \in Children, DrainReap(h), UNCHANGED tokioVars
      PROVE  DrainerInv'
  BY <1>12 DEF DrainReap
<1>13. ASSUME NEW h \in Children, DrainDone(h), UNCHANGED tokioVars
      PROVE  DrainerInv'
  BY <1>13 DEF DrainDone, ReturnFromWait, Return, Goto
<1>14. ASSUME NEW h \in Children, TryReap(h), UNCHANGED tokioVars
      PROVE  DrainerInv'
  BY <1>14 DEF TryReap
<1>15. ASSUME NEW h \in Children, TryBreak(h), UNCHANGED tokioVars
      PROVE  DrainerInv'
  BY <1>15 DEF TryBreak, Cache, Return, Goto
<1>16. ASSUME NEW h \in Children, TryContinue(h), UNCHANGED tokioVars
      PROVE  DrainerInv'
  BY <1>16 DEF TryContinue, Goto
<1>17. ASSUME NEW h \in Children, TryInnerCached(h), UNCHANGED tokioVars
      PROVE  DrainerInv'
  BY <1>17 DEF TryInnerCached, Cache, Return, Goto
<1>18. ASSUME NEW h \in Children, TryInnerReap(h), UNCHANGED tokioVars
      PROVE  DrainerInv'
  BY <1>18 DEF TryInnerReap, Cache, Return, Goto
<1>19. ASSUME NEW h \in Children, TryInnerNone(h), UNCHANGED tokioVars
      PROVE  DrainerInv'
  BY <1>19 DEF TryInnerNone, Return, Goto
<1>20. ASSUME NEW h \in Children, TryInnerErr(h), UNCHANGED tokioVars
      PROVE  DrainerInv'
  BY <1>20 DEF TryInnerErr, Return, Goto
<1>21. ASSUME NEW h \in Children, InnerWait(h)
      PROVE  DrainerInv'
  BY <1>21 DEF InnerWait, InnerWaitCached, InnerWaitReap, Cache, Goto
<1>22. ASSUME NEW h \in Children, NextRound(h)
      PROVE  DrainerInv'
  BY <1>22 DEF NextRound, StillAlive, vars
<1>23. ASSUME NEW h \in Children, StartDrainer(h)
      PROVE  DrainerInv'
  BY <1>23 DEF StartDrainer, StillAlive, Goto
<1>24. ASSUME NEW h \in Children, DrainerReap(h)
      PROVE  DrainerInv'
  BY <1>24 DEF DrainerReap
<1>25. ASSUME NEW h \in Children, DrainerDone(h)
      PROVE  DrainerInv'
  BY <1>25 DEF DrainerDone, vars
<1>26. ASSUME NEW h \in Children, DrainerInterrupted(h)
      PROVE  DrainerInv'
  BY <1>26 DEF DrainerInterrupted, vars
<1>27. ASSUME NEW h \in Children, Join(h)
      PROVE  DrainerInv'
  BY <1>27 DEF Join, ReturnFromWait, FailWait, NotPlain, Return, Goto
<1>28. ASSUME NEW h \in Children, Cancel(h)
      PROVE  DrainerInv'
  BY <1>28 DEF Cancel, NotPlain, Goto
<1>29. ASSUME NEW h \in Children, Drop(h)
      PROVE  DrainerInv'
  BY <1>29 DEF Drop, Goto
<1>30. ASSUME NEW h \in Children, OrphanQueueReap(h)
      PROVE  DrainerInv'
  BY <1>30 DEF OrphanQueueReap
<1>31. CASE UNCHANGED allVars
  BY <1>31 DEF allVars, vars
<1> QED
  BY TokioStepKinds, <1>1, <1>2, <1>3, <1>4, <1>5, <1>6, <1>7, <1>8, <1>9,
     <1>10, <1>11, <1>12, <1>13, <1>14, <1>15, <1>16, <1>17, <1>18, <1>19,
     <1>20, <1>21, <1>22, <1>23, <1>24, <1>25, <1>26, <1>27, <1>28, <1>29,
     <1>30, <1>31

-----------------------------------------------------------------------------
\* A wait reaps the child through the inner Child.  Before a try_wait is made,
\* what wait_imp and the thread reap is not the child.
LEMMA TokioUnwrapStep ==
  ASSUME Leaders, TokioTypeInv, StatusInv, UnwrapInv, [TokioNext]_allVars
  PROVE  UnwrapInv'
<1> USE PidsAssumption, CodesAssumption, TokioTypesAreBase
    DEF BaseInv, HandlesOK, ProcTypeOK, StatusInv, HoldsStatusOf, UnwrapInv,
        Live, procVars, handleVars, historyVars, tokioVars
<1>1. CASE [Next]_vars
  BY <1>1, Leaders, UnwrapStep
<1>2. ASSUME NEW h \in Children, StartDrainer(h)
      PROVE  UnwrapInv'
  BY <1>2 DEF StartDrainer, StillAlive, Goto
<1>3. ASSUME NEW h \in Children, DrainerReap(h)
      PROVE  UnwrapInv'
  <2>1. PICK p \in Zombies(Waitable(pgid[h])) : Reap(p)
    BY <1>3 DEF DrainerReap
  <2>2. Live(h) /\ exitStatus[h] # None
    BY <1>3 DEF DrainerReap, TokioTypeInv
  <2>3. p \in Pids \ Children
    <3>1. /\ pgid[h] = h /\ state[h] = "reaped"
          /\ p \in Pids /\ group[p] = pgid[h] /\ state[p] = "zombie"
      BY <2>1, <2>2 DEF Zombies, Waitable, Members
    <3> QED
      BY <3>1
  <2>4. UNCHANGED <<handleVars, historyVars>>
    BY <1>3 DEF DrainerReap
  <2> QED
    BY <2>1, <2>3, <2>4 DEF Reap
<1>4. ASSUME NEW h \in Children, DrainerDone(h)
      PROVE  UnwrapInv'
  BY <1>4 DEF DrainerDone, vars
<1>5. ASSUME NEW h \in Children, DrainerInterrupted(h)
      PROVE  UnwrapInv'
  BY <1>5 DEF DrainerInterrupted, vars
<1>6. ASSUME NEW h \in Children, Join(h)
      PROVE  UnwrapInv'
  BY <1>6 DEF Join, ReturnFromWait, FailWait, NotPlain, Return, Goto
<1>7. ASSUME NEW h \in Children, Cancel(h)
      PROVE  UnwrapInv'
  BY <1>7 DEF Cancel, NotPlain, Goto
<1>8. ASSUME NEW h \in Children, Drop(h)
      PROVE  UnwrapInv'
  BY <1>8 DEF Drop, Doom, Goto
<1>9. ASSUME NEW h \in Children, OrphanQueueReap(h)
      PROVE  UnwrapInv'
  BY <1>9 DEF OrphanQueueReap, Reap
<1> QED
  BY SharedSteps, <1>1, <1>2, <1>3, <1>4, <1>5, <1>6, <1>7, <1>8, <1>9

\* Where every child leads its group, only its own handle waits for it, or the
\* orphan queue.
LEMMA TokioLeadersStep ==
  ASSUME Leaders, TokioTypeInv, StatusInv, LeadersInv, [TokioNext]_allVars
  PROVE  LeadersInv'
<1> USE PidsAssumption, TokioTypesAreBase
    DEF BaseInv, HandlesOK, ProcTypeOK, LeadersInv, Live, HasExited, procVars,
        handleVars, historyVars, tokioVars
<1>1. CASE [Next]_vars
  BY <1>1, Leaders, LeadersStep
<1>2. ASSUME NEW h \in Children, StartDrainer(h)
      PROVE  LeadersInv'
  BY <1>2 DEF StartDrainer, StillAlive, Goto
<1>3. ASSUME NEW h \in Children, DrainerReap(h)
      PROVE  LeadersInv'
  BY <1>3 DEF DrainerReap, Reap, Zombies, Waitable, Members
<1>4. ASSUME NEW h \in Children, DrainerDone(h)
      PROVE  LeadersInv'
  BY <1>4 DEF DrainerDone, vars
<1>5. ASSUME NEW h \in Children, DrainerInterrupted(h)
      PROVE  LeadersInv'
  BY <1>5 DEF DrainerInterrupted, vars
<1>6. ASSUME NEW h \in Children, Join(h)
      PROVE  LeadersInv'
  BY <1>6 DEF Join, ReturnFromWait, FailWait, NotPlain, Return, Goto
<1>7. ASSUME NEW h \in Children, Cancel(h)
      PROVE  LeadersInv'
  BY <1>7 DEF Cancel, NotPlain, Goto
<1>8. ASSUME NEW h \in Children, Drop(h)
      PROVE  LeadersInv'
  BY <1>8 DEF Drop, Doom, Goto
<1>9. ASSUME NEW h \in Children, OrphanQueueReap(h)
      PROVE  LeadersInv'
  BY <1>9 DEF OrphanQueueReap, Reap
<1> QED
  BY SharedSteps, <1>1, <1>2, <1>3, <1>4, <1>5, <1>6, <1>7, <1>8, <1>9

\* start_kill reaches the whole group here too.
LEMMA TokioKillStep ==
  ASSUME Leaders, TokioTypeInv, StatusInv, LeadersInv, KillReachesGroup,
         [TokioNext]_allVars
  PROVE  KillReachesGroup'
<1> USE PidsAssumption, TokioTypesAreBase
    DEF BaseInv, HandlesOK, ProcTypeOK, KillReachesGroup, Members, Present,
        procVars, handleVars, historyVars, tokioVars
<1>1. CASE [Next]_vars
  BY <1>1, Leaders, KillStep
<1>2. ASSUME NEW h \in Children, StartDrainer(h)
      PROVE  KillReachesGroup'
  BY <1>2 DEF StartDrainer, StillAlive, Goto
<1>3. ASSUME NEW h \in Children, DrainerReap(h)
      PROVE  KillReachesGroup'
  BY <1>3 DEF DrainerReap, Reap, Zombies, Waitable
<1>4. ASSUME NEW h \in Children, DrainerDone(h)
      PROVE  KillReachesGroup'
  BY <1>4 DEF DrainerDone, vars
<1>5. ASSUME NEW h \in Children, DrainerInterrupted(h)
      PROVE  KillReachesGroup'
  BY <1>5 DEF DrainerInterrupted, vars
<1>6. ASSUME NEW h \in Children, Join(h)
      PROVE  KillReachesGroup'
  BY <1>6 DEF Join, ReturnFromWait, FailWait, NotPlain, Return, Goto
<1>7. ASSUME NEW h \in Children, Cancel(h)
      PROVE  KillReachesGroup'
  BY <1>7 DEF Cancel, NotPlain, Goto
<1>8. ASSUME NEW h \in Children, Drop(h)
      PROVE  KillReachesGroup'
  BY <1>8 DEF Drop, Doom, Goto
<1>9. ASSUME NEW h \in Children, OrphanQueueReap(h)
      PROVE  KillReachesGroup'
  BY <1>9 DEF OrphanQueueReap, Reap
<1> QED
  BY SharedSteps, <1>1, <1>2, <1>3, <1>4, <1>5, <1>6, <1>7, <1>8, <1>9

\* A handle that is not dropped keeps the status of the child it has reaped,
\* whatever was cancelled.
LEMMA TokioKnownStep ==
  ASSUME Leaders, KeepsStatus, TokioTypeInv, StatusInv, LeadersInv, KnownInv,
         [TokioNext]_allVars
  PROVE  KnownInv'
<1> USE PidsAssumption, CodesAssumption, TokioTypesAreBase
    DEF BaseInv, HandlesOK, ProcTypeOK, StatusInv, HoldsStatusOf, LeadersInv,
        Live, KnownInv, NoStatusLost, procVars, handleVars, historyVars,
        tokioVars
<1>1. CASE [Next]_vars
  BY <1>1, Leaders, KeepsStatus, KnownStep
<1>2. ASSUME NEW h \in Children, StartDrainer(h)
      PROVE  KnownInv'
  BY <1>2 DEF StartDrainer, StillAlive, Goto
<1>3. ASSUME NEW h \in Children, DrainerReap(h)
      PROVE  KnownInv'
  <2>1. PICK p \in Zombies(Waitable(pgid[h])) : Reap(p)
    BY <1>3 DEF DrainerReap
  <2>2. Live(h) /\ exitStatus[h] # None
    BY <1>3 DEF DrainerReap, TokioTypeInv
  <2>3. p \in Pids \ Children
    <3>1. /\ pgid[h] = h /\ state[h] = "reaped"
          /\ p \in Pids /\ group[p] = pgid[h] /\ state[p] = "zombie"
      BY <2>1, <2>2 DEF Zombies, Waitable, Members
    <3> QED
      BY <3>1
  <2>4. UNCHANGED <<handleVars, historyVars>>
    BY <1>3 DEF DrainerReap
  <2> QED
    BY <2>1, <2>3, <2>4 DEF Reap
<1>4. ASSUME NEW h \in Children, DrainerDone(h)
      PROVE  KnownInv'
  BY <1>4 DEF DrainerDone, vars
<1>5. ASSUME NEW h \in Children, DrainerInterrupted(h)
      PROVE  KnownInv'
  BY <1>5 DEF DrainerInterrupted, vars
<1>6. ASSUME NEW h \in Children, Join(h)
      PROVE  KnownInv'
  BY <1>6 DEF Join, ReturnFromWait, FailWait, NotPlain, Return, Goto
<1>7. ASSUME NEW h \in Children, Cancel(h)
      PROVE  KnownInv'
  BY <1>7 DEF Cancel, NotPlain, Goto
<1>8. ASSUME NEW h \in Children, Drop(h)
      PROVE  KnownInv'
  BY <1>8 DEF Drop, Doom, Goto
<1>9. ASSUME NEW h \in Children, OrphanQueueReap(h)
      PROVE  KnownInv'
  BY <1>9 DEF OrphanQueueReap, Reap
<1> QED
  BY SharedSteps, <1>1, <1>2, <1>3, <1>4, <1>5, <1>6, <1>7, <1>8, <1>9

\* Once a status is cached nothing is left for the thread but adopted orphans,
\* so that in a caller that has none it never blocks.
LEMMA NoFailureStep ==
  ASSUME NeverInterrupted, TokioTypeInv, StatusInv, LeadersInv, NoFailureInv,
         [TokioNext]_allVars
  PROVE  NoFailureInv'
<1> USE TokioTypesAreBase
    DEF TokioTypeInv, TokioTypeOK, NoFailureInv, tokioVars
<1>1. CASE [Next]_vars /\ UNCHANGED <<drainer, drainers>>
  BY <1>1
<1>2. ASSUME NEW h \in Children, StartDrainer(h)
      PROVE  NoFailureInv'
  BY <1>2 DEF StartDrainer, StillAlive, Goto
<1>3. ASSUME NEW h \in Children, DrainerReap(h)
      PROVE  NoFailureInv'
  BY <1>3 DEF DrainerReap, Reap, Zombies
<1>4. ASSUME NEW h \in Children, DrainerDone(h)
      PROVE  NoFailureInv'
  BY <1>4 DEF DrainerDone, vars
<1>5. ASSUME NEW h \in Children, DrainerInterrupted(h)
      PROVE  NoFailureInv'
  BY <1>5, OwnOnly DEF DrainerInterrupted, NeverInterrupted
<1>6. ASSUME NEW h \in Children, Join(h)
      PROVE  NoFailureInv'
  BY <1>6 DEF Join, ReturnFromWait, FailWait, NotPlain, Return, Goto
<1>7. ASSUME NEW h \in Children, Cancel(h)
      PROVE  NoFailureInv'
  BY <1>7 DEF Cancel, NotPlain, Goto
<1>8. ASSUME NEW h \in Children, Drop(h)
      PROVE  NoFailureInv'
  BY <1>8 DEF Drop, Doom, Goto
<1>9. ASSUME NEW h \in Children, OrphanQueueReap(h)
      PROVE  NoFailureInv'
  BY <1>9 DEF OrphanQueueReap, Reap
<1> QED
  BY SharedSteps, <1>1, <1>2, <1>3, <1>4, <1>5, <1>6, <1>7, <1>8, <1>9

\* Answers are stable on the tokio side: the wait that has cached the status
\* has not answered yet, in the rounds as at the second await.
LEMMA TokioStableStep ==
  ASSUME TokioTypeInv, StatusInv, [TokioNext]_allVars,
         NEW k \in Children, answer[k] \in Codes
  PROVE  answer'[k] = answer[k]
<1> USE CodesAssumption, AnswersAssumption, TokioTypesAreBase
    DEF BaseInv, HandlesOK, StatusInv, Answers, handleVars, historyVars,
        tokioVars
<1>1. CASE [Next]_vars
  BY <1>1, StableStep
<1>2. ASSUME NEW h \in Children, StartDrainer(h)
      PROVE  answer'[k] = answer[k]
  BY <1>2 DEF StartDrainer, StillAlive, Goto
<1>3. ASSUME NEW h \in Children, DrainerReap(h)
      PROVE  answer'[k] = answer[k]
  BY <1>3 DEF DrainerReap, Reap, Zombies
<1>4. ASSUME NEW h \in Children, DrainerDone(h)
      PROVE  answer'[k] = answer[k]
  BY <1>4 DEF DrainerDone, vars
<1>5. ASSUME NEW h \in Children, DrainerInterrupted(h)
      PROVE  answer'[k] = answer[k]
  BY <1>5 DEF DrainerInterrupted, vars
<1>6. ASSUME NEW h \in Children, Join(h)
      PROVE  answer'[k] = answer[k]
  BY <1>6 DEF Join, ReturnFromWait, FailWait, NotPlain, Return, Goto
<1>7. ASSUME NEW h \in Children, Cancel(h)
      PROVE  answer'[k] = answer[k]
  BY <1>7 DEF Cancel, NotPlain, Goto
<1>8. ASSUME NEW h \in Children, Drop(h)
      PROVE  answer'[k] = answer[k]
  BY <1>8 DEF Drop, Doom, Goto
<1>9. ASSUME NEW h \in Children, OrphanQueueReap(h)
      PROVE  answer'[k] = answer[k]
  BY <1>9 DEF OrphanQueueReap, Reap
<1> QED
  BY SharedSteps, <1>1, <1>2, <1>3, <1>4, <1>5, <1>6, <1>7, <1>8, <1>9

\* Each step is one of ChildHandle or changes nothing there.  A wait that is
\* cancelled is a call without a reply.
LEMMA TokioPromiseStep ==
  ASSUME Leaders, AsksHandle, NeverInterrupted, TokioTypeInv, StatusInv,
         LeadersInv, KnownInv, NoFailureInv, [TokioNext]_allVars
  PROVE  [Promise!Next]_(Promise!promiseVars)
<1> USE TokioTypesAreBase
    DEF BaseInv, HandlesOK, ProcTypeOK, Promise!promiseVars, procVars,
        handleVars, historyVars, tokioVars
<1> DEFINE G == [Promise!Next]_(Promise!promiseVars)
<1> SUFFICES G
  OBVIOUS
<1>1. CASE [Next]_vars
  BY <1>1, Leaders, AsksHandle, NeverInterrupted, PromiseStep
<1>2. ASSUME NEW h \in Children, StartDrainer(h)
      PROVE  G
  BY <1>2 DEF StartDrainer, StillAlive, Goto
<1>3. ASSUME NEW h \in Children, DrainerReap(h)
      PROVE  G
  BY <1>3 DEF DrainerReap, Reap, Zombies
<1>4. ASSUME NEW h \in Children, DrainerDone(h)
      PROVE  G
  BY <1>4 DEF DrainerDone, vars
<1>5. ASSUME NEW h \in Children, DrainerInterrupted(h)
      PROVE  G
  BY <1>5 DEF DrainerInterrupted, vars
<1>6. ASSUME NEW h \in Children, Join(h)
      PROVE  G
  <2>1. drainer[h] = "ok" /\ ReturnFromWait(h, exitStatus[h])
    BY <1>6 DEF Join, NoFailureInv
  <2>2. exitStatus[h] = code[h] /\ code[h] # None
    BY <1>6, CodesAssumption
    DEF Join, TokioTypeInv, StatusInv, HoldsStatusOf
  <2>3. /\ answer' = [answer EXCEPT ![h] = code[h]]
        /\ UNCHANGED <<code, lateCall>>
    BY <1>6, <2>1, <2>2 DEF Join, ReturnFromWait, Return
  <2> QED
    BY <2>2, <2>3 DEF Promise!Next, Promise!Reply, Promise!AnswerStatus
<1>7. ASSUME NEW h \in Children, Cancel(h)
      PROVE  G
  BY <1>7 DEF Cancel, NotPlain, Goto
<1>8. ASSUME NEW h \in Children, Drop(h)
      PROVE  G
  BY <1>8 DEF Drop, Doom, Goto
<1>9. ASSUME NEW h \in Children, OrphanQueueReap(h)
      PROVE  G
  BY <1>9 DEF OrphanQueueReap, Reap
<1> QED
  BY SharedSteps, <1>1, <1>2, <1>3, <1>4, <1>5, <1>6, <1>7, <1>8, <1>9

-----------------------------------------------------------------------------
\* What a step does to the process table, whoever takes it.
LEMMA TokioTableStep ==
  ASSUME [TokioNext]_allVars
  PROVE  \/ \E p, c \in Pids : Fork(p, c)
         \/ \E p \in Pids, s \in Codes : Exit(p, s)
         \/ \E p \in Pids : LeaveGroup(p)
         \/ \E p \in Pids : state[p] = "zombie" /\ Reap(p)
         \/ \E h \in Children :
              /\ pc[h] = "unspawned"
              /\ AttachTo[h] # None => Members(AttachTo[h]) # {}
              /\ StartChild(h, GroupToJoin(h))
         \/ UNCHANGED <<state, parent, group>>
<1> USE PidsAssumption DEF procVars, handleVars, Zombies, Waitable, Members
<1>1. CASE UNCHANGED allVars
  BY <1>1 DEF allVars, vars
<1>2. CASE \E p, c \in Pids : Fork(p, c) \/ ReapOwnChild(p, c)
  BY <1>2 DEF ReapOwnChild
<1>3. ASSUME NEW h \in Children,
             \/ SpawnOk(h) \/ SpawnErr(h) \/ StartKill(h) \/ Kill(h)
             \/ TryWaitCall(h) \/ WaitCall(h) \/ InnerWaitErr(h)
      PROVE  \/ /\ pc[h] = "unspawned"
                /\ AttachTo[h] # None => Members(AttachTo[h]) # {}
                /\ StartChild(h, GroupToJoin(h))
             \/ UNCHANGED <<state, parent, group>>
  BY <1>3 DEF SpawnOk, SpawnErr, StartKill, Kill, Doom, TryWaitCall, WaitCall,
              InnerWaitErr
<1>4. ASSUME NEW h \in Children,
             \/ DrainReap(h) \/ TryReap(h) \/ TryInnerReap(h) \/ InnerWait(h)
             \/ DrainerReap(h) \/ OrphanQueueReap(h)
      PROVE  \/ \E p \in Pids : state[p] = "zombie" /\ Reap(p)
             \/ UNCHANGED <<state, parent, group>>
  BY <1>4 DEF DrainReap, TryReap, TryInnerReap, InnerWait, InnerWaitCached,
              InnerWaitReap, DrainerReap, OrphanQueueReap
<1>5. ASSUME NEW h \in Children,
             \/ DrainDone(h) \/ TryBreak(h) \/ TryContinue(h)
             \/ TryInnerCached(h) \/ TryInnerNone(h) \/ TryInnerErr(h)
             \/ NextRound(h) \/ StartDrainer(h) \/ DrainerDone(h)
             \/ DrainerInterrupted(h) \/ Join(h) \/ Cancel(h) \/ Drop(h)
      PROVE  UNCHANGED <<state, parent, group>>
  BY <1>5 DEF DrainDone, TryBreak, TryContinue, TryInnerCached, TryInnerNone,
              TryInnerErr, NextRound, StartDrainer, DrainerDone,
              DrainerInterrupted, Join, Cancel, Drop, Doom, vars
<1> QED
  BY TokioStepKinds, <1>1, <1>2, <1>3, <1>4, <1>5

\* No step makes a process the child of one that does not run or is of another
\* group, and none makes a circle of parents.
LEMMA KinStep ==
  ASSUME Subreaper, ~MayLeave, ProcTypeOK, KinInv, [TokioNext]_allVars
  PROVE  KinInv'
<1> USE PidsAssumption DEF ProcTypeOK, Present
<1> DEFINE Up == \A S \in (SUBSET Pids) \ {{}} :
                   \E p \in S : parent[p] \notin S
           Kin(p) ==
             /\ parent[p] \in Pids
                => state[parent[p]] = "running" /\ group[parent[p]] = group[p]
             /\ Present(p) => parent[p] \in Pids \cup {Caller}
<1>1. Up /\ \A p \in Pids : Kin(p)
  BY DEF KinInv
<1>2. SUFFICES Up' /\ \A p \in Pids : Kin(p)'
  BY DEF KinInv
<1>3. ASSUME NEW p \in Pids, NEW c \in Pids, Fork(p, c)
      PROVE  Up' /\ \A q \in Pids : Kin(q)'
  <2> USE <1>3 DEF Fork
  <2>1. \A q \in Pids : parent[q] # c /\ c # p
    BY <1>1
  <2>2. \A q \in Pids : Kin(q)'
    BY <1>1, <2>1
  <2>3. ASSUME NEW S \in (SUBSET Pids) \ {{}}
        PROVE  \E q \in S : parent'[q] \notin S
    <3>1. CASE S = {c}
      BY <2>1, <3>1
    <3>2. CASE S # {c}
      <4>1. S \ {c} \in (SUBSET Pids) \ {{}}
        BY <3>2
      <4>2. PICK q \in S \ {c} : parent[q] \notin S \ {c}
        BY <1>1, <4>1
      <4> QED
        BY <2>1, <4>2
    <3> QED
      BY <3>1, <3>2
  <2> QED
    BY <2>2, <2>3
<1>4. ASSUME NEW p \in Pids, NEW s \in Codes, Exit(p, s)
      PROVE  Up' /\ \A q \in Pids : Kin(q)'
  <2>1. /\ parent' = [q \in Pids |->
                        IF parent[q] = p THEN Caller ELSE parent[q]]
        /\ \A q \in Pids \ {p} : state'[q] = state[q]
        /\ state'[p] \in {"reaped", "zombie"}
        /\ UNCHANGED group
    BY <1>4 DEF Exit, Adopter
  <2>2. \A q \in Pids : Kin(q)'
    <3>1. ASSUME NEW q \in Pids
          PROVE  Kin(q)'
      <4>1. CASE parent[q] = p
        BY <2>1, <4>1
      <4>2. CASE parent[q] # p /\ q # p
        BY <1>1, <2>1, <4>2
      <4>3. CASE parent[q] # p /\ q = p
        <5>1. Present(q)
          BY <1>4, <4>3 DEF Exit
        <5>2. Kin(q)
          BY <1>1
        <5> QED
          BY <2>1, <4>3, <5>1, <5>2
      <4> QED
        BY <4>1, <4>2, <4>3
    <3> QED
      BY <3>1
  <2>3. ASSUME NEW S \in (SUBSET Pids) \ {{}}
        PROVE  \E q \in S : parent'[q] \notin S
    <3>1. PICK q \in S : parent[q] \notin S
      BY <1>1
    <3> QED
      BY <2>1, <3>1
  <2> QED
    BY <2>2, <2>3
<1>5. ASSUME NEW p \in Pids, state[p] = "zombie", Reap(p)
      PROVE  Up' /\ \A q \in Pids : Kin(q)'
  BY <1>1, <1>5 DEF Reap
<1>6. ASSUME NEW h \in Children, StartChild(h, GroupToJoin(h))
      PROVE  Up' /\ \A q \in Pids : Kin(q)'
  <2> USE <1>6 DEF StartChild, GroupToJoin
  <2>1. \A q \in Pids : parent[q] # h
    BY <1>1
  <2>2. \A q \in Pids : Kin(q)'
    BY <1>1, <2>1
  <2>3. ASSUME NEW S \in (SUBSET Pids) \ {{}}
        PROVE  \E q \in S : parent'[q] \notin S
    <3>1. PICK q \in S : parent[q] \notin S
      BY <1>1
    <3> QED
      BY <3>1
  <2> QED
    BY <2>2, <2>3
<1>7. CASE UNCHANGED <<state, parent, group>>
  BY <1>1, <1>7
<1>8. ~ \E p \in Pids : LeaveGroup(p)
  BY DEF LeaveGroup
<1> QED
  BY <1>3, <1>4, <1>5, <1>6, <1>7, <1>8, TokioTableStep

\* Where the caller adopts orphans, a group it has no child in is empty: one of
\* its processes would have a parent outside it.
LEMMA NoneToWaitForNoneLeft ==
  ASSUME ProcTypeOK, KinInv, NEW g, Waitable(g) = {}
  PROVE  Members(g) = {}
<1> USE PidsAssumption DEF Members
<1>1. SUFFICES ASSUME Members(g) # {}
               PROVE  FALSE
  OBVIOUS
<1>2. Members(g) \in (SUBSET Pids) \ {{}}
  BY <1>1
<1>3. PICK p \in Members(g) : parent[p] \notin Members(g)
  BY <1>2 DEF KinInv
<1>4. parent[p] # Caller
  BY DEF Waitable
<1>5. /\ parent[p] \in Pids
      /\ state[parent[p]] = "running" /\ group[parent[p]] = group[p]
  BY <1>4 DEF KinInv
<1> QED
  BY <1>3, <1>5 DEF Present

\* A group that is empty stays so, once its leader has been spawned.
LEMMA EmptyStaysEmpty ==
  ASSUME ~MayLeave, TokioTypeInv, [TokioNext]_allVars,
         NEW g \in Children, pc[g] # "unspawned", Members(g) = {}
  PROVE  Members(g)' = {}
<1> USE PidsAssumption
    DEF TokioTypeInv, TokioTypeOK, ProcTypeOK, Members, Present
<1>1. ASSUME NEW p \in Pids, NEW c \in Pids, Fork(p, c)
      PROVE  Members(g)' = {}
  BY <1>1 DEF Fork
<1>2. ASSUME NEW p \in Pids, NEW s \in Codes, Exit(p, s)
      PROVE  Members(g)' = {}
  <2>1. /\ UNCHANGED group
        /\ state[p] = "running"
        /\ \A q \in Pids \ {p} : state'[q] \in {state[q], "reaped"}
    BY <1>2 DEF Exit
  <2> QED
    BY <2>1
<1>3. ASSUME NEW p \in Pids, state[p] = "zombie", Reap(p)
      PROVE  Members(g)' = {}
  BY <1>3 DEF Reap
<1>4. ASSUME NEW h \in Children, pc[h] = "unspawned",
             AttachTo[h] # None => Members(AttachTo[h]) # {},
             StartChild(h, GroupToJoin(h))
      PROVE  Members(g)' = {}
  <2>1. GroupToJoin(h) # g
    BY <1>4 DEF GroupToJoin
  <2>2. /\ group' = [group EXCEPT ![h] = GroupToJoin(h)]
        /\ state' = [state EXCEPT ![h] = "running"]
    BY <1>4 DEF StartChild
  <2> QED
    BY <2>1, <2>2
<1>5. CASE UNCHANGED <<state, parent, group>>
  BY <1>5
<1>6. ~ \E p \in Pids : LeaveGroup(p)
  BY DEF LeaveGroup
<1> QED
  BY <1>1, <1>2, <1>3, <1>4, <1>5, <1>6, TokioTableStep

\* The thread ends without an error when its group is empty.
LEMMA EmptyStep ==
  ASSUME ~MayLeave, TokioTypeInv, StatusInv, KinInv, EmptyInv,
         [TokioNext]_allVars
  PROVE  EmptyInv'
<1> USE DEF TokioTypeInv, TokioTypeOK, tokioVars
<1>1. SUFFICES ASSUME NEW g \in Children, drainer'[g] = "ok"
               PROVE  Members(g)' = {}
  BY DEF EmptyInv
<1>2. SUFFICES ASSUME pc[g] # "unspawned"
               PROVE  Members(g) = {}
  <2>1. CASE Live(g)
    BY <1>2, <2>1, EmptyStaysEmpty DEF Live
  <2>2. CASE ~Live(g)
    BY <1>1, <2>2, SharedSteps
    DEF EmptyInv, Live, StartDrainer, DrainerReap, DrainerDone,
        DrainerInterrupted, Join, Cancel, Drop, OrphanQueueReap, StillAlive
  <2> QED
    BY <2>1, <2>2
<1>3. CASE drainer[g] = "ok"
  BY <1>3 DEF EmptyInv
<1>4. CASE DrainerDone(g)
  <2>1. Live(g) /\ Waitable(pgid[g]) = {}
    BY <1>4 DEF DrainerDone
  <2>2. pgid[g] = g
    BY <2>1 DEF StatusInv
  <2> QED
    BY <2>1, <2>2, NoneToWaitForNoneLeft
<1> QED
  BY <1>1, <1>3, <1>4, SharedSteps
  DEF StartDrainer, DrainerReap, DrainerDone, DrainerInterrupted, Join, Cancel,
      Drop, OrphanQueueReap

\* A plain handle gets a status only from a wait that goes on to reap the
\* group.
LEMMA TokioPlainStep ==
  ASSUME TokioTypeInv, StatusInv, PlainInv, [TokioNext]_allVars
  PROVE  PlainInv'
<1> USE TokioTypesAreBase
    DEF BaseInv, HandlesOK, PlainInv, handleVars, historyVars, tokioVars
<1>1. CASE [Next]_vars
  BY <1>1, PlainStep
<1>2. ASSUME NEW h \in Children, StartDrainer(h)
      PROVE  PlainInv'
  BY <1>2 DEF StartDrainer, StillAlive, Goto
<1>3. ASSUME NEW h \in Children, DrainerReap(h)
      PROVE  PlainInv'
  BY <1>3 DEF DrainerReap, Reap, Zombies
<1>4. ASSUME NEW h \in Children, DrainerDone(h)
      PROVE  PlainInv'
  BY <1>4 DEF DrainerDone, vars
<1>5. ASSUME NEW h \in Children, DrainerInterrupted(h)
      PROVE  PlainInv'
  BY <1>5 DEF DrainerInterrupted, vars
<1>6. ASSUME NEW h \in Children, Join(h)
      PROVE  PlainInv'
  BY <1>6 DEF Join, ReturnFromWait, FailWait, NotPlain, Return, Goto
<1>7. ASSUME NEW h \in Children, Cancel(h)
      PROVE  PlainInv'
  BY <1>7 DEF Cancel, NotPlain, Goto
<1>8. ASSUME NEW h \in Children, Drop(h)
      PROVE  PlainInv'
  BY <1>8 DEF Drop, Doom, Goto
<1>9. ASSUME NEW h \in Children, OrphanQueueReap(h)
      PROVE  PlainInv'
  BY <1>9 DEF OrphanQueueReap, Reap
<1> QED
  BY SharedSteps, <1>1, <1>2, <1>3, <1>4, <1>5, <1>6, <1>7, <1>8, <1>9

\* So a wait that returns Ok, and is the first to, has drained the group or has
\* joined the thread that did.
LEMMA PlainReturn ==
  ASSUME ~MayLeave, TokioTypeInv, StatusInv, PlainInv, KinInv, EmptyInv,
         [TokioNext]_allVars,
         NEW h \in Children, ~waited[h], waited'[h], plain[h]
  PROVE  Members(h)' = {} /\ Live(h)'
<1> USE TokioTypesAreBase
    DEF BaseInv, HandlesOK, handleVars, historyVars, tokioVars
<1>1. SUFFICES Live(h) /\ Live(h)' /\ Members(h) = {}
  BY EmptyStaysEmpty DEF Live
<1>2. CASE [Next]_vars
  <2>1. DrainDone(h)
    BY <1>2, WaitReturns DEF PlainInv
  <2>2. Live(h) /\ Live(h)' /\ Waitable(pgid[h]) = {}
    BY <2>1 DEF DrainDone, ReturnFromWait, Return, Goto, Live
  <2>3. pgid[h] = h
    BY <2>2 DEF StatusInv
  <2> QED
    BY <2>2, <2>3, NoneToWaitForNoneLeft
<1>3. CASE \E k \in Children : Join(k)
  <2>1. Join(h) /\ drainer[h] = "ok"
    BY <1>3 DEF Join, ReturnFromWait
  <2> QED
    BY <2>1 DEF EmptyInv, Join, ReturnFromWait, Return, Goto, Live
<1> QED
  BY <1>2, <1>3, SharedSteps
  DEF StartDrainer, DrainerReap, DrainerDone, DrainerInterrupted, Cancel, Drop,
      OrphanQueueReap, vars

\* A leader stays in its group: what tokio does moves nobody.
LEMMA TokioOwnGroupStep ==
  ASSUME TokioTypeInv, OwnGroupInv, [TokioNext]_allVars
  PROVE  OwnGroupInv'
<1>1. CASE [Next]_vars
  BY <1>1, TokioTypesAreBase, OwnGroupStep
<1>2. CASE \E h \in Children :
             \/ StartDrainer(h) \/ DrainerReap(h) \/ DrainerDone(h)
             \/ DrainerInterrupted(h) \/ Join(h) \/ Cancel(h) \/ Drop(h)
             \/ OrphanQueueReap(h)
  <2>1. UNCHANGED group
    BY <1>2
    DEF StartDrainer, DrainerReap, DrainerDone, DrainerInterrupted, Join,
        Cancel, Drop, OrphanQueueReap, Doom, Reap, vars, procVars
  <2>2. ASSUME NEW k \in Children, ~Live(k)
        PROVE  ~Live(k)'
    BY <1>2, <2>2, TokioTypesAreBase
    DEF StartDrainer, StillAlive, DrainerReap, DrainerDone,
        DrainerInterrupted, Join, Cancel, Drop, OrphanQueueReap, Live, Goto,
        Return, ReturnFromWait, FailWait, BaseInv, vars, handleVars
  <2> QED
    BY <2>1, <2>2 DEF OwnGroupInv
<1> QED
  BY <1>1, <1>2, SharedSteps

-----------------------------------------------------------------------------
LEMMA TokioInitInv ==
  ASSUME TokioInit
  PROVE  TokioTypeInv /\ DrainerInv /\ EmptyInv /\ NoFailureInv /\ Init
BY PidsAssumption, CodesAssumption, AnswersAssumption, TokioAssumption
DEF TokioInit, Init, ProcInit, TokioTypeInv, TokioTypeOK, HandlesOK,
    ProcTypeOK, ExitHasCode, HasExited, DrainHasStatus, Live, DrainerInv,
    EmptyInv, NoFailureInv, Pcs, Answers

\* TokioTypeOK: every variable of the handles, of their threads and of the
\* process table keeps to its values; no wait looks more often than it may.
THEOREM TokioTypeCorrect == TokioSpec => []TokioTypeOK
<1>1. TokioInit => TokioTypeInv
  BY TokioInitInv
<1>2. TokioTypeInv /\ [TokioNext]_allVars => TokioTypeInv'
  BY TokioTypeStep
<1>3. TokioTypeInv => TokioTypeOK
  BY DEF TokioTypeInv
<1> QED
  BY <1>1, <1>2, <1>3, PTL DEF TokioSpec

\* OneDrainer: waits begun and dropped in any number start one blocking thread
\* for each handle at most.
THEOREM DrainersBounded == TokioSpec => []OneDrainer
<1> DEFINE IInv == TokioTypeInv /\ DrainerInv
<1>1. TokioInit => IInv
  BY TokioInitInv
<1>2. IInv /\ [TokioNext]_allVars => IInv'
  BY TokioTypeStep, DrainerInvStep
<1>3. IInv => OneDrainer
  BY DEF DrainerInv, OneDrainer
<1> QED
  BY <1>1, <1>2, <1>3, PTL DEF TokioSpec

\* What is known of a handle in every use, ...
TokioIInv == TokioTypeInv /\ StatusInv

LEMMA TokioIInvHolds ==
  /\ TokioInit => TokioIInv
  /\ TokioIInv /\ [TokioNext]_allVars => TokioIInv'
BY TokioInitInv, InitInv, TokioTypeStep, TokioStatusStep DEF TokioIInv

\* StatusIsTrue: whatever a handle of the tokio side caches or answers is its
\* own child's exit status, with threads and orphan queue reaping beside it.
THEOREM TokioStatusCorrect == TokioSpec => []StatusIsTrue
<1>1. TokioIInv => StatusIsTrue
  BY DEF TokioIInv, StatusInv, HoldsStatusOf, StatusIsTrue
<1> QED
  BY <1>1, TokioIInvHolds, PTL DEF TokioSpec

\* AnswerIsStable: once a wait or try_wait has given a status, each gives it
\* again, whatever is cancelled in between.
THEOREM TokioAnswersStable == TokioSpec => AnswerIsStable
<1>1. TokioIInv /\ [TokioNext]_allVars
        => [\A h \in Children :
              answer[h] \in Codes => answer'[h] = answer[h]]_vars
  BY TokioStableStep DEF TokioIInv
<1> QED
  BY <1>1, TokioIInvHolds, PTL DEF TokioSpec, AnswerIsStable

\* PlainUnwrapIsSafe: where every child leads its own group, and as long as
\* only wait is used on a handle and none fails or is cancelled, tokio's Child
\* knows whether it was reaped, adopted orphans or not.
THEOREM TokioUnwrapSafe ==
  ASSUME Leaders
  PROVE  TokioSpec => []PlainUnwrapIsSafe
<1> DEFINE IInv == TokioIInv /\ UnwrapInv
<1>1. TokioInit => IInv
  BY TokioIInvHolds, TokioInitInv, InitInv
<1>2. IInv /\ [TokioNext]_allVars => IInv'
  BY Leaders, TokioIInvHolds, TokioUnwrapStep DEF TokioIInv
<1>3. IInv => PlainUnwrapIsSafe
  BY DEF UnwrapInv, PlainUnwrapIsSafe
<1> QED
  BY <1>1, <1>2, <1>3, PTL DEF TokioSpec

\* KillReachesGroup: on a handle that leads its own group, a start_kill that
\* succeeded leaves no process of the group running on, here too.
THEOREM TokioKillIsComplete ==
  ASSUME Leaders
  PROVE  TokioSpec => []KillReachesGroup
<1> DEFINE IInv == TokioIInv /\ LeadersInv /\ KillReachesGroup
<1>1. TokioInit => IInv
  BY TokioIInvHolds, TokioInitInv, InitInv
<1>2. IInv /\ [TokioNext]_allVars => IInv'
  BY Leaders, TokioIInvHolds, TokioLeadersStep, TokioKillStep DEF TokioIInv
<1>3. IInv => KillReachesGroup
  OBVIOUS
<1> QED
  BY <1>1, <1>2, <1>3, PTL DEF TokioSpec

\* ... and where every child leads its group and its status is kept.
TokioKeptInv == TokioIInv /\ LeadersInv /\ KnownInv

LEMMA TokioKeptInvHolds ==
  ASSUME Leaders, KeepsStatus
  PROVE  /\ TokioInit => TokioKeptInv
         /\ TokioKeptInv /\ [TokioNext]_allVars => TokioKeptInv'
<1>1. TokioInit => TokioKeptInv
  BY TokioIInvHolds, TokioInitInv, InitInv DEF TokioKeptInv
<1>2. TokioKeptInv /\ [TokioNext]_allVars => TokioKeptInv'
  BY Leaders, KeepsStatus, TokioIInvHolds, TokioLeadersStep, TokioKnownStep
  DEF TokioKeptInv, TokioIInv
<1> QED
  BY <1>1, <1>2

\* NoStatusLost: under the conditions of the std side a handle that is not
\* dropped keeps the status of its child, also over cancelled waits.
THEOREM TokioNothingLost ==
  ASSUME Leaders, KeepsStatus
  PROVE  TokioSpec => []NoStatusLost
<1>1. TokioInit => TokioKeptInv
  BY Leaders, KeepsStatus, TokioKeptInvHolds
<1>2. TokioKeptInv /\ [TokioNext]_allVars => TokioKeptInv'
  BY Leaders, KeepsStatus, TokioKeptInvHolds
<1>3. TokioKeptInv => NoStatusLost
  BY DEF TokioKeptInv, KnownInv
<1> QED
  BY <1>1, <1>2, <1>3, PTL DEF TokioSpec

\* KeepsPromise: under the conditions of the std side the tokio handles
\* implement ChildHandle too: threads, cancellation and drop show nowhere in
\* what wait and try_wait answer.
THEOREM TokioPromiseKept ==
  ASSUME Leaders, KeepsStatus, AsksHandle, NeverInterrupted
  PROVE  TokioSpec => KeepsPromise
<1> DEFINE IInv == TokioKeptInv /\ NoFailureInv
<1>1. TokioInit => IInv /\ Promise!Init
  BY Leaders, KeepsStatus, TokioKeptInvHolds, TokioInitInv, PidsAssumption
  DEF Init, ProcInit, Promise!Init
<1>2. IInv /\ [TokioNext]_allVars => IInv'
  BY Leaders, KeepsStatus, NeverInterrupted, TokioKeptInvHolds, NoFailureStep
  DEF TokioKeptInv, TokioIInv
<1>3. IInv /\ [TokioNext]_allVars => [Promise!Next]_(Promise!promiseVars)
  BY Leaders, AsksHandle, NeverInterrupted, TokioPromiseStep
  DEF TokioKeptInv, TokioIInv
<1> QED
  BY <1>1, <1>2, <1>3, PTL DEF TokioSpec, KeepsPromise, Promise!Spec

\* PlainWaitOutlivesGroup: where no process leaves its group and the caller
\* adopts orphans, a wait for a leader whose handle is only waited on returns
\* when no process of its group is left, for any tree of processes and any
\* number of rounds.
THEOREM WaitOutlivesGroup ==
  ASSUME Subreaper, ~MayLeave
  PROVE  TokioSpec => PlainWaitOutlivesGroup
<1> DEFINE IInv == TokioIInv /\ PlainInv /\ KinInv /\ EmptyInv /\ OwnGroupInv
<1>1. TokioInit => IInv
  <2>1. TokioInit => KinInv
    BY PidsAssumption DEF TokioInit, Init, ProcInit, KinInv, Present
  <2>2. TokioInit => OwnGroupInv
    BY DEF TokioInit, Init, OwnGroupInv, Live
  <2> QED
    BY <2>1, <2>2, TokioIInvHolds, TokioInitInv, InitInv
<1>2. IInv /\ [TokioNext]_allVars => IInv'
  BY Subreaper, ~MayLeave, TokioIInvHolds, TokioPlainStep, KinStep, EmptyStep,
     TokioOwnGroupStep
  DEF TokioIInv, TokioTypeInv, TokioTypeOK
<1>3. IInv /\ [TokioNext]_allVars
        => [\A h \in Children :
              AttachTo[h] = None /\ plain[h] /\ ~waited[h] /\ waited'[h]
                => Members(group[h])' = {}]_allVars
  <2> SUFFICES ASSUME IInv, [TokioNext]_allVars, NEW h \in Children,
                      AttachTo[h] = None, plain[h], ~waited[h], waited'[h]
               PROVE  Members(group[h])' = {}
    OBVIOUS
  <2>1. Members(h)' = {} /\ Live(h)'
    BY ~MayLeave, PlainReturn DEF TokioIInv
  <2>2. group'[h] = h
    BY <2>1, TokioOwnGroupStep DEF TokioIInv, OwnGroupInv
  <2> QED
    BY <2>1, <2>2 DEF Members, Present
<1> QED
  BY <1>1, <1>2, <1>3, PTL DEF TokioSpec, PlainWaitOutlivesGroup

=============================================================================
