------------------------- MODULE ProcessGroupProofs -------------------------
(***************************************************************************)
(* Proofs about ProcessGroup, for every set of processes, every exit       *)
(* status and every use of the handles the constants allow.                *)
(***************************************************************************)
EXTENDS ProcessGroup, TLAPS

\* The kinds of step there are, for the case splits below.
LEMMA StepKinds ==
  ASSUME Next
  PROVE  \/ /\ UNCHANGED <<handleVars, historyVars>>
            /\ \/ \E p, c \in Pids : Fork(p, c)
               \/ \E p, c \in Pids : ReapOwnChild(p, c)
               \/ \E p \in Pids, s \in Codes : Exit(p, s)
               \/ \E p \in Pids : LeaveGroup(p)
         \/ \E h \in Children :
              \/ SpawnOk(h)
              \/ SpawnErr(h)
              \/ StartKill(h)
              \/ Kill(h)
              \/ TryWaitCall(h)
              \/ WaitCall(h)
              \/ RawWait(h)
              \/ Release(h)
              \/ InnerWaitCached(h)
              \/ InnerWaitReap(h)
              \/ InnerWaitErr(h)
              \/ DrainReap(h)
              \/ DrainDone(h)
              \/ TryReap(h)
              \/ TryBreak(h)
              \/ TryContinue(h)
              \/ TryInnerCached(h)
              \/ TryInnerReap(h)
              \/ TryInnerNone(h)
              \/ TryInnerErr(h)
              \/ DrainInterrupted(h)
<1>1. CASE ProcStep /\ UNCHANGED <<handleVars, historyVars>>
  BY <1>1 DEF ProcStep
<1>2. CASE \E h \in Children : DrainInterrupted(h)
  BY <1>2
<1>3. CASE \E h \in Children : UserStep(h)
  BY <1>3 DEF UserStep
<1>4. CASE \E h \in Children : CallStep(h)
  BY <1>4 DEF CallStep
<1> QED  BY <1>1, <1>2, <1>3, <1>4 DEF Next, Environment

-----------------------------------------------------------------------------
\* The types, and what they rest on, are preserved by every step.
LEMMA TypeStep ==
  ASSUME TypeInv, [Next]_vars
  PROVE  TypeInv'
<1> USE PidsAssumption, CodesAssumption, CallerAssumption, AnswersAssumption
    DEF TypeInv, TypeOK, HandlesOK, ProcTypeOK, ExitHasCode, HasExited,
        DrainHasStatus, Pcs, Answers, procVars, handleVars, historyVars
<1>1. ASSUME NEW p \in Pids, NEW c \in Pids, Fork(p, c),
             UNCHANGED <<handleVars, historyVars>>
      PROVE  TypeInv'
  BY <1>1 DEF Fork
<1>2. ASSUME NEW p \in Pids, NEW c \in Pids, ReapOwnChild(p, c),
             UNCHANGED <<handleVars, historyVars>>
      PROVE  TypeInv'
  BY <1>2 DEF ReapOwnChild, Reap
<1>3. ASSUME NEW p \in Pids, NEW s \in Codes, Exit(p, s),
             UNCHANGED <<handleVars, historyVars>>
      PROVE  TypeInv'
  BY <1>3 DEF Exit, Adopter
<1>4. ASSUME NEW p \in Pids, LeaveGroup(p),
             UNCHANGED <<handleVars, historyVars>>
      PROVE  TypeInv'
  BY <1>4 DEF LeaveGroup
<1>5. ASSUME NEW h \in Children, SpawnOk(h)
      PROVE  TypeInv'
  BY <1>5 DEF SpawnOk, StartChild, GroupToJoin, WrapChildPgid, Goto
<1>6. ASSUME NEW h \in Children, SpawnErr(h)
      PROVE  TypeInv'
  BY <1>6 DEF SpawnErr, Goto
<1>7. ASSUME NEW h \in Children, StartKill(h)
      PROVE  TypeInv'
  BY <1>7 DEF StartKill, Doom, KillTargets, Members
<1>8. ASSUME NEW h \in Children, Kill(h)
      PROVE  TypeInv'
  BY <1>8 DEF Kill, Doom, Goto, KillTargets, Members
<1>9. ASSUME NEW h \in Children, TryWaitCall(h)
      PROVE  TypeInv'
  BY <1>9 DEF TryWaitCall, NoteCall, NotPlain, Goto, Return
<1>10. ASSUME NEW h \in Children, WaitCall(h)
      PROVE  TypeInv'
  <2>1. CASE exitStatus[h] # None
    <3>1. /\ pc' = [pc EXCEPT ![h] = "idle"]
          /\ answer' = [answer EXCEPT ![h] = exitStatus[h]]
          /\ waited' = [waited EXCEPT ![h] = TRUE]
          /\ lateCall' = [lateCall EXCEPT ![h] = HasExited(h)]
          /\ UNCHANGED <<procVars, pgid, exitStatus, innerStatus, parentStatus,
                         plain, killed>>
      BY <1>10, <2>1
      DEF WaitCall, NoteCall, Goto, Return, ReturnFromWait
    <3>2. exitStatus[h] \in Codes
      BY <2>1
    <3> QED
      BY <3>1, <3>2 DEF procVars
  <2>2. CASE exitStatus[h] = None
    BY <1>10, <2>2
    DEF WaitCall, NoteCall, Goto, procVars, handleVars
  <2> QED
    BY <2>1, <2>2
<1>11. ASSUME NEW h \in Children, RawWait(h)
      PROVE  TypeInv'
  BY <1>11 DEF RawWait, Reap
<1>12. ASSUME NEW h \in Children, Release(h)
      PROVE  TypeInv'
  BY <1>12 DEF Release, Goto
<1>13. ASSUME NEW h \in Children, InnerWaitCached(h)
      PROVE  TypeInv'
  BY <1>13 DEF InnerWaitCached, Cache, Goto
<1>14. ASSUME NEW h \in Children, InnerWaitReap(h)
      PROVE  TypeInv'
  BY <1>14 DEF InnerWaitReap, Reap, Cache, Goto
<1>15. ASSUME NEW h \in Children, InnerWaitErr(h)
      PROVE  TypeInv'
  BY <1>15 DEF InnerWaitErr, FailWait, NotPlain, Return, Goto
<1>16. ASSUME NEW h \in Children, DrainReap(h)
      PROVE  TypeInv'
  BY <1>16 DEF DrainReap, Reap, Zombies, Waitable, Members
<1>17. ASSUME NEW h \in Children, DrainDone(h)
      PROVE  TypeInv'
  BY <1>17 DEF DrainDone, ReturnFromWait, Return, Goto
<1>18. ASSUME NEW h \in Children, TryReap(h)
      PROVE  TypeInv'
  BY <1>18 DEF TryReap, Reap, Zombies, Waitable, Members
<1>19. ASSUME NEW h \in Children, TryBreak(h)
      PROVE  TypeInv'
  BY <1>19 DEF TryBreak, Cache, Return, Goto
<1>20. ASSUME NEW h \in Children, TryContinue(h)
      PROVE  TypeInv'
  BY <1>20 DEF TryContinue, Goto
<1>21. ASSUME NEW h \in Children, TryInnerCached(h)
      PROVE  TypeInv'
  BY <1>21 DEF TryInnerCached, Cache, Return, Goto
<1>22. ASSUME NEW h \in Children, TryInnerReap(h)
      PROVE  TypeInv'
  BY <1>22 DEF TryInnerReap, Reap, Cache, Return, Goto
<1>23. ASSUME NEW h \in Children, TryInnerNone(h)
      PROVE  TypeInv'
  BY <1>23 DEF TryInnerNone, Return, Goto
<1>24. ASSUME NEW h \in Children, TryInnerErr(h)
      PROVE  TypeInv'
  BY <1>24 DEF TryInnerErr, Return, Goto
<1>25. ASSUME NEW h \in Children, DrainInterrupted(h)
      PROVE  TypeInv'
  BY <1>25 DEF DrainInterrupted, FailWait, NotPlain, Return, Goto
<1>26. CASE UNCHANGED vars
  BY <1>26 DEF vars
<1> QED
  BY StepKinds, <1>1, <1>2, <1>3, <1>4, <1>5, <1>6, <1>7, <1>8, <1>9,
     <1>10, <1>11, <1>12, <1>13, <1>14, <1>15, <1>16, <1>17, <1>18,
     <1>19, <1>20, <1>21, <1>22, <1>23, <1>24, <1>25, <1>26

LEMMA TypesAreBase == TypeInv => BaseInv
BY DEF TypeInv, TypeOK, BaseInv

\* Every invariant below holds before anything is spawned.
LEMMA InitInv ==
  ASSUME Init
  PROVE  /\ TypeInv /\ StatusInv /\ PlainInv /\ LeadersInv /\ KnownInv
         /\ UnwrapInv /\ KillReachesGroup /\ LateCallsGetStatus
BY PidsAssumption, CodesAssumption, AnswersAssumption
DEF Init, ProcInit, TypeInv, TypeOK, HandlesOK, ProcTypeOK, ExitHasCode,
    HasExited, DrainHasStatus, StatusInv, HoldsStatusOf, Live, PlainInv,
    LeadersInv, KnownInv, NoStatusLost, UnwrapInv, KillReachesGroup,
    LateCallsGetStatus, Pcs, Answers

\* TypeOK: every variable of the handles and of the process table keeps to
\* the values the code and the kernel can give it.
THEOREM TypeCorrect == Spec => []TypeOK
<1>1. Init => TypeInv
  BY CodesAssumption
  DEF Init, ProcInit, TypeInv, TypeOK, HandlesOK, ProcTypeOK, ExitHasCode,
      HasExited, DrainHasStatus, Pcs, Answers
<1>2. TypeInv /\ [Next]_vars => TypeInv'
  BY TypeStep
<1>3. TypeInv => TypeOK
  BY DEF TypeInv
<1> QED
  BY <1>1, <1>2, <1>3, PTL DEF Spec

-----------------------------------------------------------------------------
\* What the handle holds stays true, whoever else waits for its child.
LEMMA StatusStep ==
  ASSUME BaseInv, StatusInv, [Next]_vars
  PROVE  StatusInv'
<1> USE PidsAssumption, CodesAssumption, CallerAssumption, AnswersAssumption
    DEF BaseInv, HandlesOK, ProcTypeOK, ExitHasCode, HasExited,
        DrainHasStatus, StatusInv, HoldsStatusOf, Live, Answers, procVars,
        handleVars, historyVars
<1>1. ASSUME NEW p \in Pids, NEW c \in Pids, Fork(p, c),
             UNCHANGED <<handleVars, historyVars>>
      PROVE  StatusInv'
  BY <1>1 DEF Fork
<1>2. ASSUME NEW p \in Pids, NEW c \in Pids, ReapOwnChild(p, c),
             UNCHANGED <<handleVars, historyVars>>
      PROVE  StatusInv'
  BY <1>2 DEF ReapOwnChild, Reap
<1>3. ASSUME NEW p \in Pids, NEW s \in Codes, Exit(p, s),
             UNCHANGED <<handleVars, historyVars>>
      PROVE  StatusInv'
  BY <1>3 DEF Exit, Adopter
<1>4. ASSUME NEW p \in Pids, LeaveGroup(p),
             UNCHANGED <<handleVars, historyVars>>
      PROVE  StatusInv'
  BY <1>4 DEF LeaveGroup
<1>5. ASSUME NEW h \in Children, SpawnOk(h)
      PROVE  StatusInv'
  BY <1>5 DEF SpawnOk, StartChild, GroupToJoin, WrapChildPgid, Goto
<1>6. ASSUME NEW h \in Children, SpawnErr(h)
      PROVE  StatusInv'
  BY <1>6 DEF SpawnErr, Goto
<1>7. ASSUME NEW h \in Children, StartKill(h)
      PROVE  StatusInv'
  BY <1>7 DEF StartKill, Doom, KillTargets, Members
<1>8. ASSUME NEW h \in Children, Kill(h)
      PROVE  StatusInv'
  BY <1>8 DEF Kill, Doom, Goto, KillTargets, Members
<1>9. ASSUME NEW h \in Children, TryWaitCall(h)
      PROVE  StatusInv'
  BY <1>9 DEF TryWaitCall, NoteCall, NotPlain, Goto, Return
<1>10. ASSUME NEW h \in Children, WaitCall(h)
      PROVE  StatusInv'
  BY <1>10 DEF WaitCall, NoteCall, Goto, Return, ReturnFromWait
<1>11. ASSUME NEW h \in Children, RawWait(h)
      PROVE  StatusInv'
  BY <1>11 DEF RawWait, Reap
<1>12. ASSUME NEW h \in Children, Release(h)
      PROVE  StatusInv'
  BY <1>12 DEF Release, Goto
<1>13. ASSUME NEW h \in Children, InnerWaitCached(h)
      PROVE  StatusInv'
  BY <1>13 DEF InnerWaitCached, Cache, Goto
<1>14. ASSUME NEW h \in Children, InnerWaitReap(h)
      PROVE  StatusInv'
  BY <1>14 DEF InnerWaitReap, Reap, Cache, Goto
<1>15. ASSUME NEW h \in Children, InnerWaitErr(h)
      PROVE  StatusInv'
  BY <1>15 DEF InnerWaitErr, FailWait, NotPlain, Return, Goto
<1>16. ASSUME NEW h \in Children, DrainReap(h)
      PROVE  StatusInv'
  BY <1>16 DEF DrainReap, Reap, Zombies, Waitable, Members
<1>17. ASSUME NEW h \in Children, DrainDone(h)
      PROVE  StatusInv'
  BY <1>17 DEF DrainDone, ReturnFromWait, Return, Goto
<1>18. ASSUME NEW h \in Children, TryReap(h)
      PROVE  StatusInv'
  BY <1>18 DEF TryReap, Reap, Zombies, Waitable, Members
<1>19. ASSUME NEW h \in Children, TryBreak(h)
      PROVE  StatusInv'
  BY <1>19 DEF TryBreak, Cache, Return, Goto
<1>20. ASSUME NEW h \in Children, TryContinue(h)
      PROVE  StatusInv'
  BY <1>20 DEF TryContinue, Goto
<1>21. ASSUME NEW h \in Children, TryInnerCached(h)
      PROVE  StatusInv'
  BY <1>21 DEF TryInnerCached, Cache, Return, Goto
<1>22. ASSUME NEW h \in Children, TryInnerReap(h)
      PROVE  StatusInv'
  BY <1>22 DEF TryInnerReap, Reap, Cache, Return, Goto
<1>23. ASSUME NEW h \in Children, TryInnerNone(h)
      PROVE  StatusInv'
  BY <1>23 DEF TryInnerNone, Return, Goto
<1>24. ASSUME NEW h \in Children, TryInnerErr(h)
      PROVE  StatusInv'
  BY <1>24 DEF TryInnerErr, Return, Goto
<1>25. ASSUME NEW h \in Children, DrainInterrupted(h)
      PROVE  StatusInv'
  BY <1>25 DEF DrainInterrupted, FailWait, NotPlain, Return, Goto
<1>26. CASE UNCHANGED vars
  BY <1>26 DEF vars
<1> QED
  BY StepKinds, <1>1, <1>2, <1>3, <1>4, <1>5, <1>6, <1>7, <1>8, <1>9,
     <1>10, <1>11, <1>12, <1>13, <1>14, <1>15, <1>16, <1>17, <1>18,
     <1>19, <1>20, <1>21, <1>22, <1>23, <1>24, <1>25, <1>26

\* StatusIsTrue: whatever a handle caches or answers is its own child's exit
\* status, in every use of the handles.
THEOREM StatusCorrect == Spec => []StatusIsTrue
<1>1. Init => TypeInv /\ StatusInv
  BY InitInv
<1>2. TypeInv /\ StatusInv /\ [Next]_vars => (TypeInv /\ StatusInv)'
  BY TypeStep, TypesAreBase, StatusStep
<1>3. StatusInv => StatusIsTrue
  BY DEF StatusInv, HoldsStatusOf, StatusIsTrue
<1> QED
  BY <1>1, <1>2, <1>3, PTL DEF Spec

-----------------------------------------------------------------------------
\* An answer that is a status is never replaced by another answer: later calls
\* return from the cache, and no call in progress holds a status to change.
LEMMA StableStep ==
  ASSUME BaseInv, StatusInv, [Next]_vars,
         NEW k \in Children, answer[k] \in Codes
  PROVE  answer'[k] = answer[k]
<1> USE CodesAssumption, AnswersAssumption
    DEF BaseInv, HandlesOK, ProcTypeOK, StatusInv, HoldsStatusOf,
        Answers, procVars, handleVars, historyVars
<1>1. ASSUME NEW p \in Pids, NEW c \in Pids, Fork(p, c),
             UNCHANGED <<handleVars, historyVars>>
      PROVE  answer'[k] = answer[k]
  BY <1>1 DEF Fork
<1>2. ASSUME NEW p \in Pids, NEW c \in Pids, ReapOwnChild(p, c),
             UNCHANGED <<handleVars, historyVars>>
      PROVE  answer'[k] = answer[k]
  BY <1>2 DEF ReapOwnChild, Reap
<1>3. ASSUME NEW p \in Pids, NEW s \in Codes, Exit(p, s),
             UNCHANGED <<handleVars, historyVars>>
      PROVE  answer'[k] = answer[k]
  BY <1>3 DEF Exit, Adopter
<1>4. ASSUME NEW p \in Pids, LeaveGroup(p),
             UNCHANGED <<handleVars, historyVars>>
      PROVE  answer'[k] = answer[k]
  BY <1>4 DEF LeaveGroup
<1>5. ASSUME NEW h \in Children, SpawnOk(h)
      PROVE  answer'[k] = answer[k]
  BY <1>5 DEF SpawnOk, StartChild, GroupToJoin, WrapChildPgid, Goto
<1>6. ASSUME NEW h \in Children, SpawnErr(h)
      PROVE  answer'[k] = answer[k]
  BY <1>6 DEF SpawnErr, Goto
<1>7. ASSUME NEW h \in Children, StartKill(h)
      PROVE  answer'[k] = answer[k]
  BY <1>7 DEF StartKill, Doom, KillTargets, Members
<1>8. ASSUME NEW h \in Children, Kill(h)
      PROVE  answer'[k] = answer[k]
  BY <1>8 DEF Kill, Doom, Goto, KillTargets, Members
<1>9. ASSUME NEW h \in Children, TryWaitCall(h)
      PROVE  answer'[k] = answer[k]
  BY <1>9 DEF TryWaitCall, NoteCall, NotPlain, Goto, Return
<1>10. ASSUME NEW h \in Children, WaitCall(h)
      PROVE  answer'[k] = answer[k]
  BY <1>10 DEF WaitCall, NoteCall, Goto, Return, ReturnFromWait
<1>11. ASSUME NEW h \in Children, RawWait(h)
      PROVE  answer'[k] = answer[k]
  BY <1>11 DEF RawWait, Reap
<1>12. ASSUME NEW h \in Children, Release(h)
      PROVE  answer'[k] = answer[k]
  BY <1>12 DEF Release, Goto
<1>13. ASSUME NEW h \in Children, InnerWaitCached(h)
      PROVE  answer'[k] = answer[k]
  BY <1>13 DEF InnerWaitCached, Cache, Goto
<1>14. ASSUME NEW h \in Children, InnerWaitReap(h)
      PROVE  answer'[k] = answer[k]
  BY <1>14 DEF InnerWaitReap, Reap, Cache, Goto
<1>15. ASSUME NEW h \in Children, InnerWaitErr(h)
      PROVE  answer'[k] = answer[k]
  BY <1>15 DEF InnerWaitErr, FailWait, NotPlain, Return, Goto
<1>16. ASSUME NEW h \in Children, DrainReap(h)
      PROVE  answer'[k] = answer[k]
  BY <1>16 DEF DrainReap, Reap, Zombies, Waitable, Members
<1>17. ASSUME NEW h \in Children, DrainDone(h)
      PROVE  answer'[k] = answer[k]
  BY <1>17 DEF DrainDone, ReturnFromWait, Return, Goto
<1>18. ASSUME NEW h \in Children, TryReap(h)
      PROVE  answer'[k] = answer[k]
  BY <1>18 DEF TryReap, Reap, Zombies, Waitable, Members
<1>19. ASSUME NEW h \in Children, TryBreak(h)
      PROVE  answer'[k] = answer[k]
  BY <1>19 DEF TryBreak, Cache, Return, Goto
<1>20. ASSUME NEW h \in Children, TryContinue(h)
      PROVE  answer'[k] = answer[k]
  BY <1>20 DEF TryContinue, Goto
<1>21. ASSUME NEW h \in Children, TryInnerCached(h)
      PROVE  answer'[k] = answer[k]
  BY <1>21 DEF TryInnerCached, Cache, Return, Goto
<1>22. ASSUME NEW h \in Children, TryInnerReap(h)
      PROVE  answer'[k] = answer[k]
  BY <1>22 DEF TryInnerReap, Reap, Cache, Return, Goto
<1>23. ASSUME NEW h \in Children, TryInnerNone(h)
      PROVE  answer'[k] = answer[k]
  BY <1>23 DEF TryInnerNone, Return, Goto
<1>24. ASSUME NEW h \in Children, TryInnerErr(h)
      PROVE  answer'[k] = answer[k]
  BY <1>24 DEF TryInnerErr, Return, Goto
<1>25. ASSUME NEW h \in Children, DrainInterrupted(h)
      PROVE  answer'[k] = answer[k]
  BY <1>25 DEF DrainInterrupted, FailWait, NotPlain, Return, Goto
<1>26. CASE UNCHANGED vars
  BY <1>26 DEF vars
<1> QED
  BY StepKinds, <1>1, <1>2, <1>3, <1>4, <1>5, <1>6, <1>7, <1>8, <1>9,
     <1>10, <1>11, <1>12, <1>13, <1>14, <1>15, <1>16, <1>17, <1>18,
     <1>19, <1>20, <1>21, <1>22, <1>23, <1>24, <1>25, <1>26

\* AnswerIsStable: repeated calls give the same result, in every use of the
\* handles.
THEOREM AnswersStable == Spec => AnswerIsStable
<1>1. Init => TypeInv /\ StatusInv
  BY InitInv
<1>2. TypeInv /\ StatusInv /\ [Next]_vars => (TypeInv /\ StatusInv)'
  BY TypeStep, TypesAreBase, StatusStep
<1>3. TypeInv /\ StatusInv /\ [Next]_vars
        => [\A h \in Children :
              answer[h] \in Codes => answer'[h] = answer[h]]_vars
  BY TypesAreBase, StableStep
<1> QED
  BY <1>1, <1>2, <1>3, PTL DEF Spec, AnswerIsStable

-----------------------------------------------------------------------------
\* A handle on which no try_wait was made and no wait failed gets a status only
\* from a wait, which then drains the group before it returns.
LEMMA PlainStep ==
  ASSUME BaseInv, StatusInv, PlainInv, [Next]_vars
  PROVE  PlainInv'
<1> USE DEF BaseInv, HandlesOK, StatusInv, PlainInv, procVars,
            handleVars, historyVars
<1>1. ASSUME NEW p \in Pids, NEW c \in Pids, Fork(p, c),
             UNCHANGED <<handleVars, historyVars>>
      PROVE  PlainInv'
  BY <1>1 DEF Fork
<1>2. ASSUME NEW p \in Pids, NEW c \in Pids, ReapOwnChild(p, c),
             UNCHANGED <<handleVars, historyVars>>
      PROVE  PlainInv'
  BY <1>2 DEF ReapOwnChild, Reap
<1>3. ASSUME NEW p \in Pids, NEW s \in Codes, Exit(p, s),
             UNCHANGED <<handleVars, historyVars>>
      PROVE  PlainInv'
  BY <1>3 DEF Exit, Adopter
<1>4. ASSUME NEW p \in Pids, LeaveGroup(p),
             UNCHANGED <<handleVars, historyVars>>
      PROVE  PlainInv'
  BY <1>4 DEF LeaveGroup
<1>5. ASSUME NEW h \in Children, SpawnOk(h)
      PROVE  PlainInv'
  BY <1>5 DEF SpawnOk, StartChild, GroupToJoin, WrapChildPgid, Goto
<1>6. ASSUME NEW h \in Children, SpawnErr(h)
      PROVE  PlainInv'
  BY <1>6 DEF SpawnErr, Goto
<1>7. ASSUME NEW h \in Children, StartKill(h)
      PROVE  PlainInv'
  BY <1>7 DEF StartKill, Doom, KillTargets, Members
<1>8. ASSUME NEW h \in Children, Kill(h)
      PROVE  PlainInv'
  BY <1>8 DEF Kill, Doom, Goto, KillTargets, Members
<1>9. ASSUME NEW h \in Children, TryWaitCall(h)
      PROVE  PlainInv'
  BY <1>9 DEF TryWaitCall, NoteCall, NotPlain, Goto, Return
<1>10. ASSUME NEW h \in Children, WaitCall(h)
      PROVE  PlainInv'
  BY <1>10 DEF WaitCall, NoteCall, Goto, Return, ReturnFromWait
<1>11. ASSUME NEW h \in Children, RawWait(h)
      PROVE  PlainInv'
  BY <1>11 DEF RawWait, Reap
<1>12. ASSUME NEW h \in Children, Release(h)
      PROVE  PlainInv'
  BY <1>12 DEF Release, Goto
<1>13. ASSUME NEW h \in Children, InnerWaitCached(h)
      PROVE  PlainInv'
  BY <1>13 DEF InnerWaitCached, Cache, Goto
<1>14. ASSUME NEW h \in Children, InnerWaitReap(h)
      PROVE  PlainInv'
  BY <1>14 DEF InnerWaitReap, Reap, Cache, Goto
<1>15. ASSUME NEW h \in Children, InnerWaitErr(h)
      PROVE  PlainInv'
  BY <1>15 DEF InnerWaitErr, FailWait, NotPlain, Return, Goto
<1>16. ASSUME NEW h \in Children, DrainReap(h)
      PROVE  PlainInv'
  BY <1>16 DEF DrainReap, Reap, Zombies, Waitable, Members
<1>17. ASSUME NEW h \in Children, DrainDone(h)
      PROVE  PlainInv'
  BY <1>17 DEF DrainDone, ReturnFromWait, Return, Goto
<1>18. ASSUME NEW h \in Children, TryReap(h)
      PROVE  PlainInv'
  BY <1>18 DEF TryReap, Reap, Zombies, Waitable, Members
<1>19. ASSUME NEW h \in Children, TryBreak(h)
      PROVE  PlainInv'
  BY <1>19 DEF TryBreak, Cache, Return, Goto
<1>20. ASSUME NEW h \in Children, TryContinue(h)
      PROVE  PlainInv'
  BY <1>20 DEF TryContinue, Goto
<1>21. ASSUME NEW h \in Children, TryInnerCached(h)
      PROVE  PlainInv'
  BY <1>21 DEF TryInnerCached, Cache, Return, Goto
<1>22. ASSUME NEW h \in Children, TryInnerReap(h)
      PROVE  PlainInv'
  BY <1>22 DEF TryInnerReap, Reap, Cache, Return, Goto
<1>23. ASSUME NEW h \in Children, TryInnerNone(h)
      PROVE  PlainInv'
  BY <1>23 DEF TryInnerNone, Return, Goto
<1>24. ASSUME NEW h \in Children, TryInnerErr(h)
      PROVE  PlainInv'
  BY <1>24 DEF TryInnerErr, Return, Goto
<1>25. ASSUME NEW h \in Children, DrainInterrupted(h)
      PROVE  PlainInv'
  BY <1>25 DEF DrainInterrupted, FailWait, NotPlain, Return, Goto
<1>26. CASE UNCHANGED vars
  BY <1>26 DEF vars
<1> QED
  BY StepKinds, <1>1, <1>2, <1>3, <1>4, <1>5, <1>6, <1>7, <1>8, <1>9,
     <1>10, <1>11, <1>12, <1>13, <1>14, <1>15, <1>16, <1>17, <1>18,
     <1>19, <1>20, <1>21, <1>22, <1>23, <1>24, <1>25, <1>26

\* A wait that returns Ok either drained the group or had the status cached.
LEMMA WaitReturns ==
  ASSUME BaseInv, [Next]_vars,
         NEW k \in Children, ~waited[k], waited'[k]
  PROVE  \/ DrainDone(k)
         \/ pc[k] \in {"idle", "killing"} /\ exitStatus[k] # None
<1> USE DEF BaseInv, HandlesOK, procVars, handleVars, historyVars
<1>1. ~ UNCHANGED waited
  OBVIOUS
<1>2. ~ UNCHANGED vars
  BY <1>1 DEF vars
<1>3. PICK h \in Children : DrainDone(h) \/ WaitCall(h)
  BY <1>1, <1>2, StepKinds
  DEF SpawnOk, SpawnErr, StartKill, Kill, TryWaitCall, RawWait, Release,
      InnerWaitCached, InnerWaitReap, InnerWaitErr, DrainReap, TryReap,
      TryBreak, TryContinue, TryInnerCached, TryInnerReap, TryInnerNone,
      TryInnerErr, DrainInterrupted
<1>4. CASE DrainDone(h)
  BY <1>4 DEF DrainDone, ReturnFromWait
<1>5. CASE WaitCall(h)
  BY <1>5 DEF WaitCall, ReturnFromWait
<1> QED
  BY <1>3, <1>4, <1>5

\* A leader stays in its group, whatever the other processes do.
LEMMA OwnGroupStep ==
  ASSUME BaseInv, OwnGroupInv, [Next]_vars
  PROVE  OwnGroupInv'
<1> USE PidsAssumption
    DEF BaseInv, HandlesOK, ProcTypeOK, OwnGroupInv, Live,
        procVars, handleVars, historyVars
<1> SUFFICES ASSUME NEW k \in Children, AttachTo[k] = None, Live(k)'
             PROVE  group'[k] = k
  OBVIOUS
<1>1. CASE Live(k)
  <2>1. group[k] = k
    BY <1>1
  <2>2. ASSUME NEW p \in Pids, NEW c \in Pids, Fork(p, c)
        PROVE  group'[k] = k
    BY <2>1, <2>2 DEF Fork
  <2>3. ASSUME NEW p \in Pids, LeaveGroup(p)
        PROVE  group'[k] = k
    BY <2>1, <2>3 DEF LeaveGroup
  <2>4. ASSUME NEW h \in Children, SpawnOk(h)
        PROVE  group'[k] = k
    BY <1>1, <2>1, <2>4 DEF SpawnOk, StartChild
  <2>5. CASE UNCHANGED group
    BY <2>1, <2>5
  <2> QED
    BY StepKinds, <2>2, <2>3, <2>4, <2>5
    DEF ReapOwnChild, Exit, SpawnErr, StartKill, Kill, TryWaitCall,
        WaitCall, RawWait, Release, InnerWaitCached, InnerWaitReap,
        InnerWaitErr, DrainReap, DrainDone, TryReap, TryBreak, TryContinue,
        TryInnerCached, TryInnerReap, TryInnerNone, TryInnerErr,
        DrainInterrupted, Doom, Reap, vars
<1>2. CASE ~Live(k)
  <2>1. PICK h \in Children : SpawnOk(h)
    BY <1>2, StepKinds
    DEF SpawnErr, StartKill, Kill, TryWaitCall, WaitCall, RawWait, Release,
        InnerWaitCached, InnerWaitReap, InnerWaitErr, DrainReap, DrainDone,
        TryReap, TryBreak, TryContinue, TryInnerCached, TryInnerReap,
        TryInnerNone, TryInnerErr, DrainInterrupted, Goto, Return,
        ReturnFromWait, FailWait, vars
  <2>2. h = k
    BY <1>2, <2>1 DEF SpawnOk, Goto
  <2> QED
    BY <2>1, <2>2 DEF SpawnOk, StartChild, GroupToJoin
<1> QED
  BY <1>1, <1>2

\* PlainWaitReapsGroup: where a child leads its group, only wait is used on its
\* handle and none failed, the first wait that returns Ok leaves nothing in the
\* group for the caller to reap, whatever the processes do and whoever else
\* waits for them.
THEOREM PlainWaitReaps == Spec => PlainWaitReapsGroup
<1> DEFINE IInv == TypeInv /\ StatusInv /\ PlainInv /\ OwnGroupInv
<1>1. Init => IInv
  BY InitInv DEF Init, OwnGroupInv, Live
<1>2. IInv /\ [Next]_vars => IInv'
  BY TypeStep, TypesAreBase, StatusStep, PlainStep, OwnGroupStep
<1>3. IInv /\ [Next]_vars =>
        [\A h \in Children :
           AttachTo[h] = None /\ plain[h] /\ ~waited[h] /\ waited'[h]
             => Waitable(group[h])' = {}]_vars
  <2> SUFFICES ASSUME IInv, [Next]_vars, NEW h \in Children,
                      AttachTo[h] = None, plain[h], ~waited[h], waited'[h]
               PROVE  Waitable(group[h])' = {}
    OBVIOUS
  <2>1. DrainDone(h)
    BY WaitReturns, TypesAreBase DEF PlainInv
  <2>2. pgid[h] = h /\ group[h] = h
    BY <2>1 DEF DrainDone, StatusInv, OwnGroupInv, Live
  <2>3. Waitable(h) = {} /\ UNCHANGED procVars
    BY <2>1, <2>2 DEF DrainDone
  <2> QED
    BY <2>2, <2>3 DEF Waitable, Members, Present, procVars
<1> QED
  BY <1>1, <1>2, <1>3, PTL DEF Spec, PlainWaitReapsGroup

-----------------------------------------------------------------------------
\* When every child leads its own group and the caller adopts nobody, the
\* caller's only child in the group of child h is h.
LEMMA LeadersStep ==
  ASSUME Leaders, BaseInv, StatusInv, LeadersInv, [Next]_vars
  PROVE  LeadersInv'
<1> USE PidsAssumption
    DEF BaseInv, HandlesOK, ProcTypeOK, Leaders, LeadersInv, Live,
        HasExited, Present, procVars, handleVars, historyVars
<1>1. ASSUME NEW p \in Pids, NEW c \in Pids, Fork(p, c),
             UNCHANGED <<handleVars, historyVars>>
      PROVE  LeadersInv'
  BY <1>1 DEF Fork
<1>2. ASSUME NEW p \in Pids, NEW c \in Pids, ReapOwnChild(p, c),
             UNCHANGED <<handleVars, historyVars>>
      PROVE  LeadersInv'
  BY <1>2 DEF ReapOwnChild, Reap
<1>3. ASSUME NEW p \in Pids, NEW s \in Codes, Exit(p, s),
             UNCHANGED <<handleVars, historyVars>>
      PROVE  LeadersInv'
  BY <1>3 DEF Exit, Adopter
<1>4. ASSUME NEW p \in Pids, LeaveGroup(p),
             UNCHANGED <<handleVars, historyVars>>
      PROVE  LeadersInv'
  BY <1>4 DEF LeaveGroup
<1>5. ASSUME NEW h \in Children, SpawnOk(h)
      PROVE  LeadersInv'
  BY <1>5 DEF SpawnOk, StartChild, GroupToJoin, WrapChildPgid, Goto
<1>6. ASSUME NEW h \in Children, SpawnErr(h)
      PROVE  LeadersInv'
  BY <1>6 DEF SpawnErr, Goto
<1>7. ASSUME NEW h \in Children, StartKill(h)
      PROVE  LeadersInv'
  BY <1>7 DEF StartKill, Doom, KillTargets, Members
<1>8. ASSUME NEW h \in Children, Kill(h)
      PROVE  LeadersInv'
  BY <1>8 DEF Kill, Doom, Goto, KillTargets, Members
<1>9. ASSUME NEW h \in Children, TryWaitCall(h)
      PROVE  LeadersInv'
  BY <1>9 DEF TryWaitCall, NoteCall, NotPlain, Goto, Return
<1>10. ASSUME NEW h \in Children, WaitCall(h)
      PROVE  LeadersInv'
  BY <1>10 DEF WaitCall, NoteCall, Goto, Return, ReturnFromWait
<1>11. ASSUME NEW h \in Children, RawWait(h)
      PROVE  LeadersInv'
  BY <1>11 DEF RawWait, Reap
<1>12. ASSUME NEW h \in Children, Release(h)
      PROVE  LeadersInv'
  BY <1>12 DEF Release, Goto
<1>13. ASSUME NEW h \in Children, InnerWaitCached(h)
      PROVE  LeadersInv'
  BY <1>13 DEF InnerWaitCached, Cache, Goto
<1>14. ASSUME NEW h \in Children, InnerWaitReap(h)
      PROVE  LeadersInv'
  BY <1>14 DEF InnerWaitReap, Reap, Cache, Goto
<1>15. ASSUME NEW h \in Children, InnerWaitErr(h)
      PROVE  LeadersInv'
  BY <1>15 DEF InnerWaitErr, FailWait, NotPlain, Return, Goto
<1>16. ASSUME NEW h \in Children, DrainReap(h)
      PROVE  LeadersInv'
  BY <1>16 DEF DrainReap, Reap, Zombies, Waitable, Members
<1>17. ASSUME NEW h \in Children, DrainDone(h)
      PROVE  LeadersInv'
  BY <1>17 DEF DrainDone, ReturnFromWait, Return, Goto
<1>18. ASSUME NEW h \in Children, TryReap(h)
      PROVE  LeadersInv'
  BY <1>18 DEF TryReap, Reap, Zombies, Waitable, Members
<1>19. ASSUME NEW h \in Children, TryBreak(h)
      PROVE  LeadersInv'
  BY <1>19 DEF TryBreak, Cache, Return, Goto
<1>20. ASSUME NEW h \in Children, TryContinue(h)
      PROVE  LeadersInv'
  BY <1>20 DEF TryContinue, Goto
<1>21. ASSUME NEW h \in Children, TryInnerCached(h)
      PROVE  LeadersInv'
  BY <1>21 DEF TryInnerCached, Cache, Return, Goto
<1>22. ASSUME NEW h \in Children, TryInnerReap(h)
      PROVE  LeadersInv'
  BY <1>22 DEF TryInnerReap, Reap, Cache, Return, Goto
<1>23. ASSUME NEW h \in Children, TryInnerNone(h)
      PROVE  LeadersInv'
  BY <1>23 DEF TryInnerNone, Return, Goto
<1>24. ASSUME NEW h \in Children, TryInnerErr(h)
      PROVE  LeadersInv'
  BY <1>24 DEF TryInnerErr, Return, Goto
<1>25. ASSUME NEW h \in Children, DrainInterrupted(h)
      PROVE  LeadersInv'
  BY <1>25 DEF DrainInterrupted, FailWait, NotPlain, Return, Goto
<1>26. CASE UNCHANGED vars
  BY <1>26 DEF vars
<1> QED
  BY StepKinds, <1>1, <1>2, <1>3, <1>4, <1>5, <1>6, <1>7, <1>8, <1>9,
     <1>10, <1>11, <1>12, <1>13, <1>14, <1>15, <1>16, <1>17, <1>18,
     <1>19, <1>20, <1>21, <1>22, <1>23, <1>24, <1>25, <1>26

-----------------------------------------------------------------------------
\* A handle's waitpid(-pgid) finds no child of another handle, and nobody but
\* its own child if the caller adopts nobody.
LEMMA OwnOnly ==
  ASSUME BaseInv, StatusInv, LeadersInv, NEW h \in Children, Live(h)
  PROVE  /\ pgid[h] = h
         /\ \A p \in Waitable(h) : p \in Children \/ ~Subreaper => p = h
         /\ Waitable(h) = {} => HasExited(h)
         /\ ~Subreaper /\ exitStatus[h] # None => Waitable(h) = {}
BY PidsAssumption
DEF BaseInv, ProcTypeOK, StatusInv, HoldsStatusOf, LeadersInv, Waitable,
    Members, Present, HasExited

\* If the inner Child has to ask for a process that is reaped, it knows its
\* status; and if wait_imp finds nobody, it has just reaped the child.
LEMMA ReapedIsKnown ==
  ASSUME BaseInv, StatusInv, LeadersInv, KnownInv, AsksHandle,
         NEW h \in Children
  PROVE  /\ pc[h] \in {"inner_wait", "try_inner"} /\ state[h] = "reaped"
            => innerStatus[h] # None
         /\ pc[h] = "try_reap" /\ Waitable(pgid[h]) = {}
            => parentStatus[h] # None
<1>1. CASE pc[h] \in {"inner_wait", "try_inner"}
  BY <1>1 DEF StatusInv, KnownInv, NoStatusLost
<1>2. CASE pc[h] = "try_reap" /\ Waitable(pgid[h]) = {}
  <2>1. ~RawAccess /\ exitStatus[h] = None
    BY <1>2 DEF AsksHandle, KnownInv, StatusInv
  <2>2. innerStatus[h] = None
    BY <2>1 DEF KnownInv
  <2>3. pgid[h] = h /\ Live(h) /\ Waitable(h) = {}
    BY <1>2, OwnOnly DEF Live
  <2>4. ~ Present(h)
    BY <2>3, PidsAssumption
    DEF LeadersInv, Waitable, Members, Present
  <2>5. state[h] = "reaped"
    BY <2>3, <2>4, OwnOnly DEF HasExited, Present
  <2> QED
    BY <1>2, <2>1, <2>2, <2>5 DEF KnownInv, NoStatusLost
<1> QED
  BY <1>1, <1>2

\* So the handle that reaps its child keeps the status.
LEMMA KnownStep ==
  ASSUME Leaders, KeepsStatus, BaseInv, StatusInv, LeadersInv, KnownInv,
         [Next]_vars
  PROVE  KnownInv'
<1> USE PidsAssumption, CodesAssumption
    DEF BaseInv, HandlesOK, ProcTypeOK, ExitHasCode, StatusInv, HoldsStatusOf,
        LeadersInv, Live, HasExited, KnownInv, NoStatusLost, procVars,
        handleVars, historyVars
<1>1. ASSUME NEW p \in Pids, NEW c \in Pids, Fork(p, c),
             UNCHANGED <<handleVars, historyVars>>
      PROVE  KnownInv'
  BY <1>1 DEF Fork
<1>2. ASSUME NEW p \in Pids, NEW c \in Pids, ReapOwnChild(p, c),
             UNCHANGED <<handleVars, historyVars>>
      PROVE  KnownInv'
  BY <1>2 DEF ReapOwnChild, Reap
<1>3. ASSUME NEW p \in Pids, NEW s \in Codes, Exit(p, s),
             UNCHANGED <<handleVars, historyVars>>
      PROVE  KnownInv'
  BY <1>3 DEF Exit, Adopter
<1>4. ASSUME NEW p \in Pids, LeaveGroup(p),
             UNCHANGED <<handleVars, historyVars>>
      PROVE  KnownInv'
  BY <1>4 DEF LeaveGroup
<1>5. ASSUME NEW h \in Children, SpawnOk(h)
      PROVE  KnownInv'
  BY <1>5 DEF SpawnOk, StartChild, GroupToJoin, WrapChildPgid, Goto
<1>6. ASSUME NEW h \in Children, SpawnErr(h)
      PROVE  KnownInv'
  BY <1>6 DEF SpawnErr, Goto
<1>7. ASSUME NEW h \in Children, StartKill(h)
      PROVE  KnownInv'
  BY <1>7 DEF StartKill, Doom, KillTargets
<1>8. ASSUME NEW h \in Children, Kill(h)
      PROVE  KnownInv'
  BY <1>8 DEF Kill, Doom, Goto, KillTargets
<1>9. ASSUME NEW h \in Children, TryWaitCall(h)
      PROVE  KnownInv'
  BY <1>9 DEF TryWaitCall, NoteCall, NotPlain, Goto, Return
<1>10. ASSUME NEW h \in Children, WaitCall(h)
      PROVE  KnownInv'
  BY <1>10 DEF WaitCall, NoteCall, Goto, Return, ReturnFromWait
<1>11. ASSUME NEW h \in Children, RawWait(h)
      PROVE  KnownInv'
  BY <1>11 DEF RawWait, Reap
<1>12. ASSUME NEW h \in Children, Release(h)
      PROVE  KnownInv'
  BY <1>12 DEF Release, Goto
<1>13. ASSUME NEW h \in Children, InnerWaitCached(h)
      PROVE  KnownInv'
  BY <1>13 DEF InnerWaitCached, Cache, Goto
<1>14. ASSUME NEW h \in Children, InnerWaitReap(h)
      PROVE  KnownInv'
  BY <1>14 DEF InnerWaitReap, Reap, Cache, Goto
<1>15. ASSUME NEW h \in Children, InnerWaitErr(h)
      PROVE  KnownInv'
  BY <1>15 DEF InnerWaitErr, FailWait, NotPlain, Return, Goto
<1>16. ASSUME NEW h \in Children, DrainReap(h)
      PROVE  KnownInv'
  <2>1. PICK p \in Zombies(Waitable(pgid[h])) : Reap(p)
    BY <1>16 DEF DrainReap
  <2>2. Live(h) /\ exitStatus[h] # None /\ state[h] = "reaped"
    BY <1>16 DEF DrainReap, DrainHasStatus
  <2>3. p \notin Children
    BY <2>1, <2>2, OwnOnly DEF Zombies
  <2>4. UNCHANGED <<pc, innerStatus, exitStatus, parentStatus>>
    BY <1>16 DEF DrainReap
  <2> QED
    BY <2>1, <2>3, <2>4 DEF Reap, Zombies, Waitable, Members
<1>17. ASSUME NEW h \in Children, DrainDone(h)
      PROVE  KnownInv'
  BY <1>17 DEF DrainDone, ReturnFromWait, Return, Goto
<1>18. ASSUME NEW h \in Children, TryReap(h)
      PROVE  KnownInv'
  <2>1. Live(h) /\ MayTryWait /\ ~Subreaper
    BY <1>18 DEF TryReap, KeepsStatus
  <2>2. PICK p \in Zombies(Waitable(pgid[h])) :
               /\ Reap(p)
               /\ parentStatus' = IF p = pgid[h]
                                  THEN [parentStatus EXCEPT ![h] = code[p]]
                                  ELSE parentStatus
    BY <1>18 DEF TryReap
  <2>3. p = h /\ pgid[h] = h /\ code[h] # None
    <3>1. pgid[h] = h
      BY <2>1, OwnOnly
    <3>2. p \in Waitable(h) /\ state[p] = "zombie"
      BY <2>2, <3>1 DEF Zombies
    <3> QED
      BY <2>1, <3>1, <3>2, OwnOnly
  <2>4. UNCHANGED <<pc, innerStatus, exitStatus>>
    BY <1>18 DEF TryReap
  <2> QED
    BY <1>18, <2>1, <2>2, <2>3, <2>4 DEF Reap, TryReap
<1>19. ASSUME NEW h \in Children, TryBreak(h)
      PROVE  KnownInv'
  BY <1>19 DEF TryBreak, Cache, Return, Goto
<1>20. ASSUME NEW h \in Children, TryContinue(h)
      PROVE  KnownInv'
  <2>1. Live(h) /\ MayTryWait /\ ~Subreaper
    BY <1>20 DEF TryContinue, KeepsStatus
  <2>2. state[h] # "reaped"
    <3>1. PICK p \in Waitable(h) : TRUE
      BY <1>20, <2>1, OwnOnly DEF TryContinue
    <3> QED
      BY <2>1, <3>1, OwnOnly DEF Waitable, Members, Present
  <2> QED
    BY <1>20, <2>1, <2>2 DEF TryContinue, Goto
<1>21. ASSUME NEW h \in Children, TryInnerCached(h)
      PROVE  KnownInv'
  BY <1>21 DEF TryInnerCached, Cache, Return, Goto
<1>22. ASSUME NEW h \in Children, TryInnerReap(h)
      PROVE  KnownInv'
  BY <1>22 DEF TryInnerReap, Reap, Cache, Return, Goto
<1>23. ASSUME NEW h \in Children, TryInnerNone(h)
      PROVE  KnownInv'
  BY <1>23 DEF TryInnerNone, Return, Goto
<1>24. ASSUME NEW h \in Children, TryInnerErr(h)
      PROVE  KnownInv'
  BY <1>24 DEF TryInnerErr, Return, Goto
<1>25. ASSUME NEW h \in Children, DrainInterrupted(h)
      PROVE  KnownInv'
  BY <1>25 DEF DrainInterrupted, FailWait, NotPlain, Return, Goto
<1>26. CASE UNCHANGED vars
  BY <1>26 DEF vars
<1> QED
  BY StepKinds, <1>1, <1>2, <1>3, <1>4, <1>5, <1>6, <1>7, <1>8, <1>9,
     <1>10, <1>11, <1>12, <1>13, <1>14, <1>15, <1>16, <1>17, <1>18,
     <1>19, <1>20, <1>21, <1>22, <1>23, <1>24, <1>25, <1>26

\* And a call made after the exit finds the child either waitable or reported.
LEMMA LateStep ==
  ASSUME Leaders, AsksHandle, NeverInterrupted, BaseInv, StatusInv,
         LeadersInv, KnownInv, LateCallsGetStatus, [Next]_vars
  PROVE  LateCallsGetStatus'
<1> USE PidsAssumption, CodesAssumption, AnswersAssumption
    DEF BaseInv, HandlesOK, ProcTypeOK, ExitHasCode, StatusInv, HoldsStatusOf,
        LeadersInv, Live, HasExited, LateCallsGetStatus, procVars, handleVars,
        historyVars
<1>1. ASSUME NEW p \in Pids, NEW c \in Pids, Fork(p, c),
             UNCHANGED <<handleVars, historyVars>>
      PROVE  LateCallsGetStatus'
  BY <1>1 DEF Fork
<1>2. ASSUME NEW p \in Pids, NEW c \in Pids, ReapOwnChild(p, c),
             UNCHANGED <<handleVars, historyVars>>
      PROVE  LateCallsGetStatus'
  BY <1>2 DEF ReapOwnChild, Reap
<1>3. ASSUME NEW p \in Pids, NEW s \in Codes, Exit(p, s),
             UNCHANGED <<handleVars, historyVars>>
      PROVE  LateCallsGetStatus'
  BY <1>3 DEF Exit, Adopter
<1>4. ASSUME NEW p \in Pids, LeaveGroup(p),
             UNCHANGED <<handleVars, historyVars>>
      PROVE  LateCallsGetStatus'
  BY <1>4 DEF LeaveGroup
<1>5. ASSUME NEW h \in Children, SpawnOk(h)
      PROVE  LateCallsGetStatus'
  BY <1>5 DEF SpawnOk, StartChild, GroupToJoin, WrapChildPgid, Goto
<1>6. ASSUME NEW h \in Children, SpawnErr(h)
      PROVE  LateCallsGetStatus'
  BY <1>6 DEF SpawnErr, Goto
<1>7. ASSUME NEW h \in Children, StartKill(h)
      PROVE  LateCallsGetStatus'
  BY <1>7 DEF StartKill, Doom, KillTargets
<1>8. ASSUME NEW h \in Children, Kill(h)
      PROVE  LateCallsGetStatus'
  BY <1>8 DEF Kill, Doom, Goto, KillTargets
<1>9. ASSUME NEW h \in Children, TryWaitCall(h)
      PROVE  LateCallsGetStatus'
  BY <1>9 DEF TryWaitCall, NoteCall, NotPlain, Goto, Return
<1>10. ASSUME NEW h \in Children, WaitCall(h)
      PROVE  LateCallsGetStatus'
  BY <1>10 DEF WaitCall, NoteCall, Goto, Return, ReturnFromWait
<1>11. ASSUME NEW h \in Children, RawWait(h)
      PROVE  LateCallsGetStatus'
  BY <1>11 DEF RawWait, Reap
<1>12. ASSUME NEW h \in Children, Release(h)
      PROVE  LateCallsGetStatus'
  BY <1>12 DEF Release, Goto
<1>13. ASSUME NEW h \in Children, InnerWaitCached(h)
      PROVE  LateCallsGetStatus'
  BY <1>13 DEF InnerWaitCached, Cache, Goto
<1>14. ASSUME NEW h \in Children, InnerWaitReap(h)
      PROVE  LateCallsGetStatus'
  BY <1>14 DEF InnerWaitReap, Reap, Cache, Goto
<1>15. ASSUME NEW h \in Children, InnerWaitErr(h)
      PROVE  LateCallsGetStatus'
  BY <1>15, ReapedIsKnown DEF InnerWaitErr
<1>16. ASSUME NEW h \in Children, DrainReap(h)
      PROVE  LateCallsGetStatus'
  BY <1>16 DEF DrainReap, Reap, Zombies
<1>17. ASSUME NEW h \in Children, DrainDone(h)
      PROVE  LateCallsGetStatus'
  BY <1>17 DEF DrainDone, DrainHasStatus, ReturnFromWait, Return, Goto
<1>18. ASSUME NEW h \in Children, TryReap(h)
      PROVE  LateCallsGetStatus'
  BY <1>18 DEF TryReap, Reap, Zombies
<1>19. ASSUME NEW h \in Children, TryBreak(h)
      PROVE  LateCallsGetStatus'
  BY <1>19, ReapedIsKnown DEF TryBreak, Cache, Return, Goto
<1>20. ASSUME NEW h \in Children, TryContinue(h)
      PROVE  LateCallsGetStatus'
  BY <1>20 DEF TryContinue, Goto
<1>21. ASSUME NEW h \in Children, TryInnerCached(h)
      PROVE  LateCallsGetStatus'
  BY <1>21 DEF TryInnerCached, Cache, Return, Goto
<1>22. ASSUME NEW h \in Children, TryInnerReap(h)
      PROVE  LateCallsGetStatus'
  BY <1>22 DEF TryInnerReap, Reap, Cache, Return, Goto
<1>23. ASSUME NEW h \in Children, TryInnerNone(h)
      PROVE  LateCallsGetStatus'
  BY <1>23 DEF TryInnerNone, Return, Goto
<1>24. ASSUME NEW h \in Children, TryInnerErr(h)
      PROVE  LateCallsGetStatus'
  BY <1>24, ReapedIsKnown DEF TryInnerErr
<1>25. ASSUME NEW h \in Children, DrainInterrupted(h)
      PROVE  LateCallsGetStatus'
  <2>1. Live(h) /\ exitStatus[h] # None
    BY <1>25 DEF DrainInterrupted, DrainHasStatus
  <2> QED
    BY <1>25, <2>1, OwnOnly DEF DrainInterrupted, NeverInterrupted
<1>26. CASE UNCHANGED vars
  BY <1>26 DEF vars
<1> QED
  BY StepKinds, <1>1, <1>2, <1>3, <1>4, <1>5, <1>6, <1>7, <1>8, <1>9,
     <1>10, <1>11, <1>12, <1>13, <1>14, <1>15, <1>16, <1>17, <1>18,
     <1>19, <1>20, <1>21, <1>22, <1>23, <1>24, <1>25, <1>26

\* start_kill reaches the whole group: what runs in it later was already
\* running then, because a process with SIGKILL pending cannot fork and no
\* other process can enter the group.
LEMMA KillStep ==
  ASSUME Leaders, BaseInv, StatusInv, LeadersInv, KillReachesGroup, [Next]_vars
  PROVE  KillReachesGroup'
<1> USE PidsAssumption
    DEF BaseInv, HandlesOK, ProcTypeOK, Leaders, StatusInv,
        LeadersInv, Live, KillReachesGroup, Members, Present, procVars,
        handleVars, historyVars
<1>1. ASSUME NEW p \in Pids, NEW c \in Pids, Fork(p, c),
             UNCHANGED <<handleVars, historyVars>>
      PROVE  KillReachesGroup'
  BY <1>1 DEF Fork
<1>2. ASSUME NEW p \in Pids, NEW c \in Pids, ReapOwnChild(p, c),
             UNCHANGED <<handleVars, historyVars>>
      PROVE  KillReachesGroup'
  BY <1>2 DEF ReapOwnChild, Reap
<1>3. ASSUME NEW p \in Pids, NEW s \in Codes, Exit(p, s),
             UNCHANGED <<handleVars, historyVars>>
      PROVE  KillReachesGroup'
  BY <1>3 DEF Exit, Adopter
<1>4. ASSUME NEW p \in Pids, LeaveGroup(p),
             UNCHANGED <<handleVars, historyVars>>
      PROVE  KillReachesGroup'
  BY <1>4 DEF LeaveGroup
<1>5. ASSUME NEW h \in Children, SpawnOk(h)
      PROVE  KillReachesGroup'
  BY <1>5 DEF SpawnOk, StartChild, GroupToJoin, WrapChildPgid, Goto
<1>6. ASSUME NEW h \in Children, SpawnErr(h)
      PROVE  KillReachesGroup'
  BY <1>6 DEF SpawnErr, Goto
<1>7. ASSUME NEW h \in Children, StartKill(h)
      PROVE  KillReachesGroup'
  BY <1>7 DEF StartKill, Doom, KillTargets, Members
<1>8. ASSUME NEW h \in Children, Kill(h)
      PROVE  KillReachesGroup'
  BY <1>8 DEF Kill, Doom, Goto, KillTargets, Members
<1>9. ASSUME NEW h \in Children, TryWaitCall(h)
      PROVE  KillReachesGroup'
  BY <1>9 DEF TryWaitCall, NoteCall, NotPlain, Goto, Return
<1>10. ASSUME NEW h \in Children, WaitCall(h)
      PROVE  KillReachesGroup'
  BY <1>10 DEF WaitCall, NoteCall, Goto, Return, ReturnFromWait
<1>11. ASSUME NEW h \in Children, RawWait(h)
      PROVE  KillReachesGroup'
  BY <1>11 DEF RawWait, Reap
<1>12. ASSUME NEW h \in Children, Release(h)
      PROVE  KillReachesGroup'
  BY <1>12 DEF Release, Goto
<1>13. ASSUME NEW h \in Children, InnerWaitCached(h)
      PROVE  KillReachesGroup'
  BY <1>13 DEF InnerWaitCached, Cache, Goto
<1>14. ASSUME NEW h \in Children, InnerWaitReap(h)
      PROVE  KillReachesGroup'
  BY <1>14 DEF InnerWaitReap, Reap, Cache, Goto
<1>15. ASSUME NEW h \in Children, InnerWaitErr(h)
      PROVE  KillReachesGroup'
  BY <1>15 DEF InnerWaitErr, FailWait, NotPlain, Return, Goto
<1>16. ASSUME NEW h \in Children, DrainReap(h)
      PROVE  KillReachesGroup'
  BY <1>16 DEF DrainReap, Reap, Zombies, Waitable, Members
<1>17. ASSUME NEW h \in Children, DrainDone(h)
      PROVE  KillReachesGroup'
  BY <1>17 DEF DrainDone, ReturnFromWait, Return, Goto
<1>18. ASSUME NEW h \in Children, TryReap(h)
      PROVE  KillReachesGroup'
  BY <1>18 DEF TryReap, Reap, Zombies, Waitable, Members
<1>19. ASSUME NEW h \in Children, TryBreak(h)
      PROVE  KillReachesGroup'
  BY <1>19 DEF TryBreak, Cache, Return, Goto
<1>20. ASSUME NEW h \in Children, TryContinue(h)
      PROVE  KillReachesGroup'
  BY <1>20 DEF TryContinue, Goto
<1>21. ASSUME NEW h \in Children, TryInnerCached(h)
      PROVE  KillReachesGroup'
  BY <1>21 DEF TryInnerCached, Cache, Return, Goto
<1>22. ASSUME NEW h \in Children, TryInnerReap(h)
      PROVE  KillReachesGroup'
  BY <1>22 DEF TryInnerReap, Reap, Cache, Return, Goto
<1>23. ASSUME NEW h \in Children, TryInnerNone(h)
      PROVE  KillReachesGroup'
  BY <1>23 DEF TryInnerNone, Return, Goto
<1>24. ASSUME NEW h \in Children, TryInnerErr(h)
      PROVE  KillReachesGroup'
  BY <1>24 DEF TryInnerErr, Return, Goto
<1>25. ASSUME NEW h \in Children, DrainInterrupted(h)
      PROVE  KillReachesGroup'
  BY <1>25 DEF DrainInterrupted, FailWait, NotPlain, Return, Goto
<1>26. CASE UNCHANGED vars
  BY <1>26 DEF vars
<1> QED
  BY StepKinds, <1>1, <1>2, <1>3, <1>4, <1>5, <1>6, <1>7, <1>8, <1>9,
     <1>10, <1>11, <1>12, <1>13, <1>14, <1>15, <1>16, <1>17, <1>18,
     <1>19, <1>20, <1>21, <1>22, <1>23, <1>24, <1>25, <1>26

-----------------------------------------------------------------------------
\* KillReachesGroup: on a handle that leads its own group, a start_kill that
\* succeeded leaves no process of the group running on, whoever is adopted and
\* whoever waits.
THEOREM KillIsComplete ==
  ASSUME Leaders
  PROVE  Spec => []KillReachesGroup
<1> DEFINE IInv == TypeInv /\ StatusInv /\ LeadersInv /\ KillReachesGroup
<1>1. Init => IInv
  BY InitInv
<1>2. IInv /\ [Next]_vars => IInv'
  BY Leaders, TypeStep, TypesAreBase, StatusStep, LeadersStep, KillStep
<1>3. IInv => KillReachesGroup
  OBVIOUS
<1> QED
  BY <1>1, <1>2, <1>3, PTL DEF Spec

-----------------------------------------------------------------------------
\* What is known of handles that keep the status.
StatusIInv == TypeInv /\ StatusInv /\ LeadersInv /\ KnownInv

LEMMA StatusIInvStep ==
  ASSUME Leaders, KeepsStatus, StatusIInv, [Next]_vars
  PROVE  StatusIInv'
BY TypeStep, TypesAreBase, StatusStep, LeadersStep, KnownStep DEF StatusIInv

\* NoStatusLost: where every child leads its group, the status of a child that
\* was reaped is kept, if no try_wait is made, or if the caller adopts nobody;
\* failed waits, and waits on the inner Child, included.
THEOREM NothingLost ==
  ASSUME Leaders, KeepsStatus
  PROVE  Spec => []NoStatusLost
<1>1. Init => StatusIInv
  BY InitInv DEF StatusIInv
<1>2. StatusIInv /\ [Next]_vars => StatusIInv'
  BY Leaders, KeepsStatus, StatusIInvStep
<1>3. StatusIInv => NoStatusLost
  BY DEF StatusIInv, KnownInv
<1> QED
  BY <1>1, <1>2, <1>3, PTL DEF Spec

\* LateCallsGetStatus: and if wait_imp is not interrupted either, nor asked for
\* a child that was reaped behind its back, every call made after the exit
\* answers with the status.
THEOREM LateCallsAnswered ==
  ASSUME Leaders, KeepsStatus, AsksHandle, NeverInterrupted
  PROVE  Spec => []LateCallsGetStatus
<1> DEFINE IInv == StatusIInv /\ LateCallsGetStatus
<1>1. Init => IInv
  BY InitInv DEF StatusIInv
<1>2. IInv /\ [Next]_vars => IInv'
  BY Leaders, KeepsStatus, AsksHandle, NeverInterrupted, TypesAreBase,
     StatusIInvStep, LateStep DEF StatusIInv
<1>3. IInv => LateCallsGetStatus
  OBVIOUS
<1> QED
  BY <1>1, <1>2, <1>3, PTL DEF Spec

-----------------------------------------------------------------------------
\* A wait reaps the child through the inner Child, which so knows of it.  Only
\* wait_imp reaps behind its back, and as long as no try_wait is made it finds
\* the child reaped already.
LEMMA UnwrapStep ==
  ASSUME Leaders, BaseInv, StatusInv, UnwrapInv, [Next]_vars
  PROVE  UnwrapInv'
<1> USE PidsAssumption, CodesAssumption
    DEF Leaders, BaseInv, HandlesOK, ProcTypeOK, ExitHasCode,
        HasExited, StatusInv, HoldsStatusOf, Live, UnwrapInv, Zombies,
        Waitable, Members, procVars, handleVars, historyVars
<1>1. ASSUME NEW p \in Pids, NEW c \in Pids, Fork(p, c),
             UNCHANGED <<handleVars, historyVars>>
      PROVE  UnwrapInv'
  BY <1>1 DEF Fork
<1>2. ASSUME NEW p \in Pids, NEW c \in Pids, ReapOwnChild(p, c),
             UNCHANGED <<handleVars, historyVars>>
      PROVE  UnwrapInv'
  BY <1>2 DEF ReapOwnChild, Reap
<1>3. ASSUME NEW p \in Pids, NEW s \in Codes, Exit(p, s),
             UNCHANGED <<handleVars, historyVars>>
      PROVE  UnwrapInv'
  BY <1>3 DEF Exit, Adopter
<1>4. ASSUME NEW p \in Pids, LeaveGroup(p),
             UNCHANGED <<handleVars, historyVars>>
      PROVE  UnwrapInv'
  BY <1>4 DEF LeaveGroup
<1>5. ASSUME NEW h \in Children, SpawnOk(h)
      PROVE  UnwrapInv'
  BY <1>5 DEF SpawnOk, StartChild, GroupToJoin, WrapChildPgid, Goto
<1>6. ASSUME NEW h \in Children, SpawnErr(h)
      PROVE  UnwrapInv'
  BY <1>6 DEF SpawnErr, Goto
<1>7. ASSUME NEW h \in Children, StartKill(h)
      PROVE  UnwrapInv'
  BY <1>7 DEF StartKill, Doom
<1>8. ASSUME NEW h \in Children, Kill(h)
      PROVE  UnwrapInv'
  BY <1>8 DEF Kill, Doom, Goto
<1>9. ASSUME NEW h \in Children, TryWaitCall(h)
      PROVE  UnwrapInv'
  BY <1>9 DEF TryWaitCall, NoteCall, NotPlain, Goto, Return
<1>10. ASSUME NEW h \in Children, WaitCall(h)
      PROVE  UnwrapInv'
  BY <1>10 DEF WaitCall, NoteCall, Goto, Return, ReturnFromWait
<1>11. ASSUME NEW h \in Children, RawWait(h)
      PROVE  UnwrapInv'
  BY <1>11 DEF RawWait, Reap
<1>12. ASSUME NEW h \in Children, Release(h)
      PROVE  UnwrapInv'
  BY <1>12 DEF Release, Goto
<1>13. ASSUME NEW h \in Children, InnerWaitCached(h)
      PROVE  UnwrapInv'
  BY <1>13 DEF InnerWaitCached, Cache, Goto
<1>14. ASSUME NEW h \in Children, InnerWaitReap(h)
      PROVE  UnwrapInv'
  BY <1>14 DEF InnerWaitReap, Reap, Cache, Goto
<1>15. ASSUME NEW h \in Children, InnerWaitErr(h)
      PROVE  UnwrapInv'
  BY <1>15 DEF InnerWaitErr, FailWait, NotPlain, Return, Goto
<1>16. ASSUME NEW h \in Children, DrainReap(h)
      PROVE  UnwrapInv'
  <2>1. PICK p \in Zombies(Waitable(pgid[h])) : Reap(p)
    BY <1>16 DEF DrainReap
  <2>2. pgid[h] = h /\ state[h] = "reaped"
    BY <1>16 DEF DrainReap, DrainHasStatus
  <2>3. p \in Pids \ Children
    <3>1. p \in Pids /\ group[p] = h /\ state[p] = "zombie"
      BY <2>1, <2>2
    <3> QED
      BY <2>2, <3>1
  <2>4. UNCHANGED <<pc, plain, innerStatus>>
    BY <1>16 DEF DrainReap
  <2> QED
    BY <2>1, <2>3, <2>4 DEF Reap
<1>17. ASSUME NEW h \in Children, DrainDone(h)
      PROVE  UnwrapInv'
  BY <1>17 DEF DrainDone, ReturnFromWait, Return, Goto
<1>18. ASSUME NEW h \in Children, TryReap(h)
      PROVE  UnwrapInv'
  <2>1. PICK p \in Zombies(Waitable(pgid[h])) : Reap(p)
    BY <1>18 DEF TryReap
  <2>2. pgid[h] = h /\ ~plain[h]
    BY <1>18 DEF TryReap
  <2>3. p \in Pids /\ group[p] = h
    BY <2>1, <2>2
  <2>4. p \in Children => p = h
    BY <2>3
  <2>5. UNCHANGED <<pc, plain, innerStatus>>
    BY <1>18 DEF TryReap
  <2> QED
    BY <2>1, <2>2, <2>4, <2>5 DEF Reap
<1>19. ASSUME NEW h \in Children, TryBreak(h)
      PROVE  UnwrapInv'
  BY <1>19 DEF TryBreak, Cache, Return, Goto
<1>20. ASSUME NEW h \in Children, TryContinue(h)
      PROVE  UnwrapInv'
  BY <1>20 DEF TryContinue, Goto
<1>21. ASSUME NEW h \in Children, TryInnerCached(h)
      PROVE  UnwrapInv'
  BY <1>21 DEF TryInnerCached, Cache, Return, Goto
<1>22. ASSUME NEW h \in Children, TryInnerReap(h)
      PROVE  UnwrapInv'
  BY <1>22 DEF TryInnerReap, Reap, Cache, Return, Goto
<1>23. ASSUME NEW h \in Children, TryInnerNone(h)
      PROVE  UnwrapInv'
  BY <1>23 DEF TryInnerNone, Return, Goto
<1>24. ASSUME NEW h \in Children, TryInnerErr(h)
      PROVE  UnwrapInv'
  BY <1>24 DEF TryInnerErr, Return, Goto
<1>25. ASSUME NEW h \in Children, DrainInterrupted(h)
      PROVE  UnwrapInv'
  BY <1>25 DEF DrainInterrupted, FailWait, NotPlain, Return, Goto
<1>26. CASE UNCHANGED vars
  BY <1>26 DEF vars
<1> QED
  BY StepKinds, <1>1, <1>2, <1>3, <1>4, <1>5, <1>6, <1>7, <1>8, <1>9,
     <1>10, <1>11, <1>12, <1>13, <1>14, <1>15, <1>16, <1>17, <1>18,
     <1>19, <1>20, <1>21, <1>22, <1>23, <1>24, <1>25, <1>26

\* PlainUnwrapIsSafe: where every child leads its own group, and as long as
\* only wait is used on a handle and none fails, into_inner and a drop find a
\* Child that knows whether it was reaped, whoever else uses the bare Child.
THEOREM UnwrapSafe ==
  ASSUME Leaders
  PROVE  Spec => []PlainUnwrapIsSafe
<1> DEFINE IInv == TypeInv /\ StatusInv /\ UnwrapInv
<1>1. Init => IInv
  BY InitInv
<1>2. IInv /\ [Next]_vars => IInv'
  BY Leaders, TypeStep, TypesAreBase, StatusStep, UnwrapStep
<1>3. IInv => PlainUnwrapIsSafe
  BY DEF UnwrapInv, PlainUnwrapIsSafe
<1> QED
  BY <1>1, <1>2, <1>3, PTL DEF Spec

-----------------------------------------------------------------------------
\* A call is made at a moment when the child has exited just if it has a code.
LEMMA CallIsPromised ==
  ASSUME BaseInv, StatusInv, NEW h \in Children,
         UNCHANGED code,
         lateCall' = [lateCall EXCEPT ![h] = HasExited(h)],
         \/ /\ exitStatus[h] # None
            /\ answer' = [answer EXCEPT ![h] = exitStatus[h]]
         \/ UNCHANGED answer
  PROVE  Promise!Call(h)
<1>1. HasExited(h) = (code[h] # None)
  BY PidsAssumption DEF BaseInv, ExitHasCode, HasExited
<1>2. exitStatus[h] # None => exitStatus[h] = code[h]
  BY DEF StatusInv, HoldsStatusOf
<1>3. [g \in Children |-> code[g]][h] = code[h]
  OBVIOUS
<1> QED
  BY <1>1, <1>2, <1>3 DEF Promise!Call, Promise!AnswerStatus

\* Each step of the handles is a step of ChildHandle, or changes nothing there.
LEMMA PromiseStep ==
  ASSUME Leaders, AsksHandle, NeverInterrupted, BaseInv, StatusInv,
         LeadersInv, KnownInv, [Next]_vars
  PROVE  [Promise!Next]_(Promise!promiseVars)
<1> USE PidsAssumption, CodesAssumption, AnswersAssumption
    DEF BaseInv, HandlesOK, ProcTypeOK, ExitHasCode, StatusInv,
        HoldsStatusOf, LeadersInv, Live, HasExited, Promise!Next,
        Promise!ChildExits, Promise!Call, Promise!Reply, Promise!AnswerStatus,
        Promise!AnswerRunning, Promise!promiseVars, Present, procVars,
        handleVars, historyVars
<1> DEFINE G == [Promise!Next]_(Promise!promiseVars)
<1> SUFFICES G
  OBVIOUS
<1>1. ASSUME NEW p \in Pids, NEW c \in Pids, Fork(p, c),
             UNCHANGED <<handleVars, historyVars>>
      PROVE  G
  BY <1>1 DEF Fork
<1>2. ASSUME NEW p \in Pids, NEW c \in Pids, ReapOwnChild(p, c),
             UNCHANGED <<handleVars, historyVars>>
      PROVE  G
  BY <1>2 DEF ReapOwnChild, Reap
<1>3. ASSUME NEW p \in Pids, NEW s \in Codes, Exit(p, s),
             UNCHANGED <<handleVars, historyVars>>
      PROVE  G
  <2>1. CASE p \in Children
    <3>1. code[p] = None /\ code' = [code EXCEPT ![p] = s]
      BY <1>3 DEF Exit
    <3>2. [h \in Children |-> code'[h]]
            = [[h \in Children |-> code[h]] EXCEPT ![p] = s]
      BY <2>1, <3>1
    <3>3. Promise!ChildExits(p)
      BY <1>3, <2>1, <3>1, <3>2 DEF historyVars
    <3> QED
      BY <2>1, <3>3
  <2>2. CASE p \notin Children
    <3>1. \A h \in Children : code'[h] = code[h]
      BY <1>3, <2>2 DEF Exit
    <3> QED
      BY <1>3, <3>1 DEF historyVars
  <2> QED
    BY <2>1, <2>2
<1>4. ASSUME NEW p \in Pids, LeaveGroup(p),
             UNCHANGED <<handleVars, historyVars>>
      PROVE  G
  BY <1>4 DEF LeaveGroup
<1>5. ASSUME NEW h \in Children, SpawnOk(h)
      PROVE  G
  BY <1>5 DEF SpawnOk, StartChild, GroupToJoin, WrapChildPgid, Goto
<1>6. ASSUME NEW h \in Children, SpawnErr(h)
      PROVE  G
  BY <1>6 DEF SpawnErr, Goto
<1>7. ASSUME NEW h \in Children, StartKill(h)
      PROVE  G
  BY <1>7 DEF StartKill, Doom, KillTargets
<1>8. ASSUME NEW h \in Children, Kill(h)
      PROVE  G
  BY <1>8 DEF Kill, Doom, Goto, KillTargets
<1>9. ASSUME NEW h \in Children, TryWaitCall(h)
      PROVE  G
  <2>1. /\ UNCHANGED code
        /\ lateCall' = [lateCall EXCEPT ![h] = HasExited(h)]
        /\ \/ /\ exitStatus[h] # None
              /\ answer' = [answer EXCEPT ![h] = exitStatus[h]]
           \/ UNCHANGED answer
    BY <1>9 DEF TryWaitCall, NoteCall, Return, procVars
  <2>2. Promise!Call(h)
    BY <2>1, CallIsPromised
  <2> QED
    BY <2>2
<1>10. ASSUME NEW h \in Children, WaitCall(h)
      PROVE  G
  <2>1. /\ UNCHANGED code
        /\ lateCall' = [lateCall EXCEPT ![h] = HasExited(h)]
        /\ \/ /\ exitStatus[h] # None
              /\ answer' = [answer EXCEPT ![h] = exitStatus[h]]
           \/ UNCHANGED answer
    BY <1>10 DEF WaitCall, NoteCall, Return, ReturnFromWait, procVars
  <2>2. Promise!Call(h)
    BY <2>1, CallIsPromised
  <2> QED
    BY <2>2
<1>11. ASSUME NEW h \in Children, RawWait(h)
      PROVE  G
  BY <1>11 DEF RawWait, Reap
<1>12. ASSUME NEW h \in Children, Release(h)
      PROVE  G
  BY <1>12 DEF Release, Goto
<1>13. ASSUME NEW h \in Children, InnerWaitCached(h)
      PROVE  G
  BY <1>13 DEF InnerWaitCached, Cache, Goto
<1>14. ASSUME NEW h \in Children, InnerWaitReap(h)
      PROVE  G
  BY <1>14 DEF InnerWaitReap, Reap, Cache, Goto
<1>15. ASSUME NEW h \in Children, InnerWaitErr(h)
      PROVE  G
  BY <1>15, ReapedIsKnown DEF InnerWaitErr
<1>16. ASSUME NEW h \in Children, DrainReap(h)
      PROVE  G
  BY <1>16 DEF DrainReap, Reap, Zombies
<1>17. ASSUME NEW h \in Children, DrainDone(h)
      PROVE  G
  <2>1. exitStatus[h] = code[h] /\ code[h] # None
    BY <1>17 DEF DrainDone, DrainHasStatus
  <2>2. /\ answer' = [answer EXCEPT ![h] = code[h]]
        /\ UNCHANGED <<code, lateCall>>
    BY <1>17, <2>1 DEF DrainDone, ReturnFromWait, Return, procVars
  <2> QED
    BY <2>1, <2>2
<1>18. ASSUME NEW h \in Children, TryReap(h)
      PROVE  G
  BY <1>18 DEF TryReap, Reap, Zombies
<1>19. ASSUME NEW h \in Children, TryBreak(h)
      PROVE  G
  <2>1. parentStatus[h] # None
    BY <1>19, ReapedIsKnown DEF TryBreak
  <2>2. /\ answer' = [answer EXCEPT ![h] = code[h]]
        /\ code[h] # None
        /\ UNCHANGED <<code, lateCall>>
    BY <1>19, <2>1 DEF TryBreak, Return, procVars
  <2> QED
    BY <2>2
<1>20. ASSUME NEW h \in Children, TryContinue(h)
      PROVE  G
  BY <1>20 DEF TryContinue, Goto
<1>21. ASSUME NEW h \in Children, TryInnerCached(h)
      PROVE  G
  BY <1>21 DEF TryInnerCached, Cache, Return, Goto
<1>22. ASSUME NEW h \in Children, TryInnerReap(h)
      PROVE  G
  BY <1>22 DEF TryInnerReap, Reap, Cache, Return, Goto
<1>23. ASSUME NEW h \in Children, TryInnerNone(h)
      PROVE  G
  <2>1. ~lateCall[h] /\ answer[h] \notin Codes
    BY <1>23 DEF TryInnerNone
  <2>2. /\ answer' = [answer EXCEPT ![h] = "running"]
        /\ UNCHANGED <<code, lateCall>>
    BY <1>23 DEF TryInnerNone, Return, procVars
  <2> QED
    BY <2>1, <2>2
<1>24. ASSUME NEW h \in Children, TryInnerErr(h)
      PROVE  G
  BY <1>24, ReapedIsKnown DEF TryInnerErr
<1>25. ASSUME NEW h \in Children, DrainInterrupted(h)
      PROVE  G
  <2>1. Live(h) /\ exitStatus[h] # None
    BY <1>25 DEF DrainInterrupted, DrainHasStatus
  <2> QED
    BY <1>25, <2>1, OwnOnly DEF DrainInterrupted, NeverInterrupted
<1>26. CASE UNCHANGED vars
  BY <1>26 DEF vars
<1> QED
  BY StepKinds, <1>1, <1>2, <1>3, <1>4, <1>5, <1>6, <1>7, <1>8, <1>9,
     <1>10, <1>11, <1>12, <1>13, <1>14, <1>15, <1>16, <1>17, <1>18,
     <1>19, <1>20, <1>21, <1>22, <1>23, <1>24, <1>25, <1>26

\* KeepsPromise: under the same conditions the handles implement ChildHandle.
THEOREM PromiseKept ==
  ASSUME Leaders, KeepsStatus, AsksHandle, NeverInterrupted
  PROVE  Spec => KeepsPromise
<1>1. Init => StatusIInv /\ Promise!Init
  BY InitInv, PidsAssumption DEF StatusIInv, Init, ProcInit, Promise!Init
<1>2. StatusIInv /\ [Next]_vars => StatusIInv'
  BY Leaders, KeepsStatus, StatusIInvStep
<1>3. StatusIInv /\ [Next]_vars => [Promise!Next]_(Promise!promiseVars)
  BY Leaders, AsksHandle, NeverInterrupted, TypesAreBase, PromiseStep
  DEF StatusIInv
<1> QED
  BY <1>1, <1>2, <1>3, PTL DEF Spec, KeepsPromise, Promise!Spec

=============================================================================
