--------------------------- MODULE JobObjectProofs ---------------------------
(***************************************************************************)
(* Proofs about TokioJobObject, and with it about both JobObjectChilds,    *)
(* for every set of processes, every number of rounds and every use of the *)
(* handle.                                                                 *)
(***************************************************************************)
EXTENDS TokioJobObject, FiniteSetTheorems, TLAPS

\* The kinds of step there are, for the case splits below.
LEMMA JobStepKinds ==
  ASSUME TokioNext
  PROVE  \/ /\ UNCHANGED tokioVars
            /\ \/ CreateJob \/ CreatePort \/ Assign \/ ResumeThread \/ Resume
               \/ \E p \in Procs : Spawn(p)
               \/ \E p \in Procs, c \in Codes : Exit(p, c)
               \/ StartKill \/ Kill \/ TryWaitCall \/ IntoInner \/ WaitCall
               \/ InnerWait \/ InnerTry \/ PortWait \/ SetupErr \/ Drop
         \/ Poll \/ Block \/ Join
         \/ Cancel \/ TokioSetupErr \/ TokioDrop \/ ThreadEnds
BY DEF TokioNext, SameStep, SameCallStep, StdCallStep, TokioCallStep

-----------------------------------------------------------------------------
(* How many packets there can be. *)

\* The sets that are counted are finite.
LEMMA SubsetCounts ==
  ASSUME NEW S \in SUBSET Procs
  PROVE  /\ IsFiniteSet(S)
         /\ Cardinality(S) \in Nat /\ Cardinality(Procs) \in Nat
         /\ Cardinality(S) <= Cardinality(Procs)
BY JobAssumption, FS_Subset, FS_CardinalityType

LEMMA Counts ==
  ASSUME state \in [Procs -> {"unborn", "suspended", "running", "dead"}]
  PROVE  /\ IsFiniteSet(Joined) /\ IsFiniteSet(Dead)
         /\ Cardinality(Joined) \in Nat /\ Cardinality(Dead) \in Nat
<1>1. Joined \in SUBSET Procs /\ Dead \in SUBSET Procs
  BY DEF Joined, Dead
<1> QED
  BY <1>1, SubsetCounts

\* Deaths keep the bound: one packet for each process that dies, and one more
\* only if none is left.
LEMMA DieBound ==
  ASSUME DataOK, PacketBound, NEW S \in SUBSET Running, NEW c \in Codes,
         Die(S, c)
  PROVE  packets' \in Nat /\ PacketBound'
<1> USE DEF DataOK
<1>1. state' \in [Procs -> {"unborn", "suspended", "running", "dead"}]
  BY DEF Die
<1>2. Joined' = Joined /\ Dead' = Dead \cup S /\ Dead \cap S = {}
  BY DEF Die, Joined, Dead, Running
<1>3. Running' = Running \ S
  BY DEF Die, Running
<1>4. IsFiniteSet(S) /\ Cardinality(S) \in Nat
  <2>1. S \in SUBSET Procs
    BY DEF Running
  <2> QED
    BY <2>1, JobAssumption, FS_Subset, FS_CardinalityType
<1>5. Cardinality(Dead') = Cardinality(Dead) + Cardinality(S)
  <2>1. Cardinality(Dead \cap S) = 0
    BY <1>2, FS_EmptySet
  <2>2. IsFiniteSet(Dead) /\ Cardinality(Dead) \in Nat
    BY Counts
  <2>3. Cardinality(Dead \cup S)
          = Cardinality(Dead) + Cardinality(S) - Cardinality(Dead \cap S)
    BY <1>4, <2>2, FS_Union
  <2> QED
    BY <1>2, <1>4, <2>1, <2>2, <2>3
<1>6. /\ Cardinality(Joined) \in Nat /\ Cardinality(Dead) \in Nat
      /\ packets \in Nat
  BY Counts
<1>7. CASE S = {}
  <2>1. packets' = packets
    BY <1>4, <1>6, <1>7, FS_EmptySet DEF Die
  <2> QED
    BY <1>2, <1>3, <1>6, <1>7, <2>1 DEF PacketBound
<1>8. CASE S # {} /\ Running \subseteq S
  <2>1. packets' = packets + Cardinality(S) + 1
    BY <1>8 DEF Die
  <2>2. Running # {} /\ Running' = {} /\ Dead' # {}
    BY <1>2, <1>3, <1>8
  <2>3. packets <= Cardinality(Joined) + Cardinality(Dead)
    BY <1>6, <2>2 DEF PacketBound
  <2>4. PacketBound'
          <=> packets' <= Cardinality(Joined') + Cardinality(Dead') + 1
    BY <2>2 DEF PacketBound
  <2> QED
    BY <1>2, <1>4, <1>5, <1>6, <2>1, <2>3, <2>4
<1>9. CASE ~(Running \subseteq S)
  <2>1. packets' = packets + Cardinality(S)
    BY <1>4, <1>6, <1>9 DEF Die
  <2>2. Running # {} /\ Running' # {}
    BY <1>3, <1>9
  <2>3. packets <= Cardinality(Joined) + Cardinality(Dead)
    BY <1>6, <2>2 DEF PacketBound
  <2>4. PacketBound' <=> packets' <= Cardinality(Joined') + Cardinality(Dead')
    BY <1>2, <1>4, <1>5, <1>6, <2>2 DEF PacketBound
  <2> QED
    BY <1>2, <1>4, <1>5, <1>6, <2>1, <2>3, <2>4
<1> QED
  BY <1>7, <1>8, <1>9

\* A step that leaves the processes alone and adds no packet keeps it too.
LEMMA SameBound ==
  ASSUME DataOK, PacketBound, UNCHANGED state,
         packets' \in Nat, packets' <= packets
  PROVE  packets' \in Nat /\ PacketBound'
<1>1. Joined' = Joined /\ Dead' = Dead /\ Running' = Running
  BY DEF Joined, Dead, Running
<1>2. /\ Cardinality(Joined) \in Nat /\ Cardinality(Dead) \in Nat
      /\ packets \in Nat
  BY Counts DEF DataOK
<1> QED
  BY <1>1, <1>2 DEF PacketBound

\* The child alone may be killed when the handle is dropped, without a packet.
LEMMA DropBound ==
  ASSUME DataOK, PacketBound, DropChild, UNCHANGED packets
  PROVE  packets' \in Nat /\ PacketBound'
<1> USE DEF DataOK
<1>1. CASE UNCHANGED state
  BY <1>1, SameBound
<1>2. CASE state' = [state EXCEPT ![Leader] = "dead"] /\ state[Leader] # "dead"
  <2>1. Dead' = Dead \cup {Leader} /\ Leader \notin Dead
    BY <1>2, JobAssumption DEF Dead
  <2>2. Joined' = Joined \cup {Leader} /\ Running' = Running \ {Leader}
    BY <1>2, JobAssumption DEF Joined, Running
  <2>3. Cardinality(Dead') = Cardinality(Dead) + 1
    BY <2>1, Counts, FS_AddElement
  <2>4. /\ Cardinality(Joined') \in Nat
        /\ Cardinality(Joined') >= Cardinality(Joined)
    <3>1. IsFiniteSet(Joined) /\ Cardinality(Joined) \in Nat
      BY Counts
    <3>2. \/ Cardinality(Joined') = Cardinality(Joined)
          \/ Cardinality(Joined') = Cardinality(Joined) + 1
      BY <2>2, <3>1, FS_AddElement
    <3> QED
      BY <3>1, <3>2
  <2>5. /\ packets \in Nat
        /\ Cardinality(Joined) \in Nat /\ Cardinality(Dead) \in Nat
    BY Counts
  <2>6. packets <= Cardinality(Joined) + Cardinality(Dead) + 1
    BY <2>5 DEF PacketBound
  <2>7. packets' <= Cardinality(Joined') + Cardinality(Dead')
    BY <2>3, <2>4, <2>5, <2>6
  <2> QED
    BY <2>3, <2>4, <2>5, <2>7 DEF PacketBound
<1> QED
  BY <1>1, <1>2 DEF DropChild

LEMMA BoundStep ==
  ASSUME TokioTypeInv, [TokioNext]_allVars
  PROVE  packets' \in Nat /\ PacketBound'
<1> USE DEF TokioTypeInv, TokioTypeOK, DataOK
<1>1. CASE Assign
  <2>1. Joined' = {Leader} /\ packets' = 1
    BY <1>1, JobAssumption
    DEF Assign, PacketsOnJoin, SetupInv, SettingUp, BeforeAssign, Joined
  <2>2. Cardinality(Joined') = 1
    BY <2>1, FS_Singleton
  <2>3. Cardinality(Dead') \in Nat
    BY <1>1, Counts DEF Assign, Dead
  <2> QED
    BY <2>1, <2>2, <2>3 DEF PacketBound
<1>2. CASE ResumeThread
  <2>1. state = [p \in Procs |-> IF p = Leader THEN "suspended" ELSE "unborn"]
    BY <1>2 DEF ResumeThread, SetupInv
  <2>2. Dead = {} /\ Dead' = {} /\ Joined' = Joined
    BY <1>2, <2>1, JobAssumption DEF ResumeThread, Dead, Joined
  <2>3. UNCHANGED packets
    BY <1>2 DEF ResumeThread
  <2> QED
    BY <2>2, <2>3 DEF PacketBound
<1>3. ASSUME NEW p \in Procs, Spawn(p)
      PROVE  packets' \in Nat /\ PacketBound'
  <2>1. Joined' = Joined \cup {p} /\ p \notin Joined /\ Dead' = Dead
    BY <1>3 DEF Spawn, Joined, Dead
  <2>2. Running # {} /\ Running' # {}
    BY <1>3 DEF Spawn, Running
  <2>3. Cardinality(Joined') = Cardinality(Joined) + 1
    BY <2>1, Counts, FS_AddElement
  <2>4. packets' = packets + 1
    BY <1>3 DEF Spawn, PacketsOnJoin
  <2> QED
    BY <2>1, <2>2, <2>3, <2>4, Counts DEF PacketBound
<1>4. ASSUME NEW p \in Procs, NEW c \in Codes, Exit(p, c)
      PROVE  packets' \in Nat /\ PacketBound'
  <2>1. {p} \in SUBSET Running /\ Die({p}, c)
    BY <1>4 DEF Exit, Running
  <2> QED
    BY <2>1, DieBound
<1>5. CASE StartKill \/ Kill
  BY <1>5, JobAssumption, DieBound DEF StartKill, Kill, KillTargets
<1>6. CASE TokioSetupErr \/ TokioDrop
  BY <1>6, DropBound DEF TokioSetupErr, TokioDrop
<1>7. CASE UNCHANGED jobVars
  BY <1>7, SameBound DEF jobVars
<1>8. CASE PortWait \/ TryWaitCall \/ Poll
  <2>1. UNCHANGED state /\ packets' \in Nat /\ packets' <= packets
    BY <1>8 DEF PortWait, TryWaitCall, Poll
  <2> QED
    BY <2>1, SameBound
<1>9. CASE ThreadEnds
  <2>1. UNCHANGED state /\ packets' \in Nat /\ packets' <= packets
    BY <1>9 DEF ThreadEnds
  <2> QED
    BY <2>1, SameBound
<1>10. CASE \/ CreateJob \/ CreatePort \/ Resume \/ IntoInner \/ WaitCall
            \/ InnerWait \/ InnerTry \/ SetupErr \/ Drop
            \/ Block \/ Join \/ Cancel \/ UNCHANGED allVars
  BY <1>7, <1>10
  DEF CreateJob, CreatePort, Resume, IntoInner, WaitCall, InnerWait,
      InnerTry, SetupErr, Drop, Block, Join, Cancel, allVars, vars
<1> QED
  BY JobStepKinds, <1>1, <1>2, <1>3, <1>4, <1>5, <1>6, <1>8, <1>9, <1>10

-----------------------------------------------------------------------------
\* The types, and what they rest on, are preserved by every step.
LEMMA JobTypeStep ==
  ASSUME TokioTypeInv, [TokioNext]_allVars
  PROVE  TokioTypeInv'
<1> USE JobAssumption, JobAnswersAssumption, TokioJobAssumption
    DEF TokioTypeInv, TokioTypeOK, DataOK, Pcs, Answers, SetupInv, CachedInv,
        DeadHaveCode, SettingUp, BeforeAssign, Running, jobVars, vars,
        tokioVars
<1> DEFINE G == /\ state' \in [Procs -> {"unborn", "suspended", "running",
                                         "dead"}]
                /\ code' \in [Procs -> Codes \cup {None}]
                /\ open' \subseteq {"job", "port"}
                /\ exitStatus' \in Codes \cup {None}
                /\ answer' \in Codes \cup Answers
                /\ late' \in BOOLEAN /\ killed' \in BOOLEAN
                /\ polled' \in BOOLEAN
                /\ pc' \in Pcs \cup {"join"}
                /\ side' \in Sides /\ round' \in 0..Rounds /\ threads' \in Nat
                /\ SetupInv' /\ CachedInv' /\ DeadHaveCode'
<1> SUFFICES G
  <2>1. packets' \in Nat /\ PacketBound'
    BY BoundStep
  <2>2. Joined' \in SUBSET Procs /\ Dead' \in SUBSET Procs
    BY DEF Joined, Dead
  <2>3. packets' \in 0..(2 * Cardinality(Procs) + 1)
    BY <2>1, <2>2, SubsetCounts DEF PacketBound
  <2> QED
    BY <2>1, <2>3
<1>1. CASE CreateJob /\ UNCHANGED tokioVars
  BY <1>1 DEF CreateJob
<1>2. CASE CreatePort /\ UNCHANGED tokioVars
  BY <1>2 DEF CreatePort
<1>3. CASE Assign /\ UNCHANGED tokioVars
  BY <1>3 DEF Assign, PacketsOnJoin
<1>4. CASE Resume /\ UNCHANGED tokioVars
  BY <1>4 DEF Resume
<1>5. ASSUME NEW p \in Procs, Spawn(p), UNCHANGED tokioVars
      PROVE  G
  BY <1>5 DEF Spawn, PacketsOnJoin
<1>6. ASSUME NEW p \in Procs, NEW c \in Codes, Exit(p, c),
             UNCHANGED tokioVars
      PROVE  G
  BY <1>6 DEF Exit, Die
<1>7. CASE StartKill /\ UNCHANGED tokioVars
  BY <1>7 DEF StartKill, Die, KillTargets
<1>8. CASE Kill /\ UNCHANGED tokioVars
  BY <1>8 DEF Kill, Die, KillTargets
<1>9. CASE TryWaitCall /\ UNCHANGED tokioVars
  BY <1>9 DEF TryWaitCall, NoteCall
<1>10. CASE IntoInner /\ UNCHANGED tokioVars
  BY <1>10 DEF IntoInner
<1>11. CASE WaitCall /\ UNCHANGED tokioVars
  BY <1>11 DEF WaitCall, NoteCall, Return
<1>12. CASE InnerWait /\ UNCHANGED tokioVars
  BY <1>12 DEF InnerWait
<1>13. CASE InnerTry /\ UNCHANGED tokioVars
  BY <1>13 DEF InnerTry, Return
<1>14. CASE PortWait /\ UNCHANGED tokioVars
  BY <1>14 DEF PortWait, Return
<1>15. CASE SetupErr /\ UNCHANGED tokioVars
  BY <1>15 DEF SetupErr
<1>16. CASE Drop /\ UNCHANGED tokioVars
  BY <1>16 DEF Drop
<1>17. CASE Poll
  BY <1>17 DEF Poll, Return
<1>18. CASE Block
  BY <1>18 DEF Block
<1>19. CASE Join
  BY <1>19 DEF Join, Return
<1>20. CASE Cancel
  BY <1>20 DEF Cancel
<1>21. CASE TokioSetupErr
  BY <1>21 DEF TokioSetupErr, DropChild
<1>22. CASE TokioDrop
  BY <1>22 DEF TokioDrop, DropChild
<1>23. CASE ThreadEnds
  BY <1>23 DEF ThreadEnds
<1>24. CASE UNCHANGED allVars
  BY <1>24 DEF allVars
<1>25. CASE ResumeThread /\ UNCHANGED tokioVars
  BY <1>25 DEF ResumeThread
<1> QED
  BY JobStepKinds, <1>1, <1>2, <1>3, <1>4, <1>5, <1>6, <1>7, <1>8, <1>9,
     <1>10, <1>11, <1>12, <1>13, <1>14, <1>15, <1>16, <1>17, <1>18, <1>19,
     <1>20, <1>21, <1>22, <1>23, <1>24, <1>25

-----------------------------------------------------------------------------
\* The exit code of a process does not change, and the handle takes no other
\* process's.
LEMMA JobStatusStep ==
  ASSUME TokioTypeInv, JobStatusIsTrue, [TokioNext]_allVars
  PROVE  JobStatusIsTrue'
<1> USE JobAssumption, JobAnswersAssumption
    DEF TokioTypeInv, TokioTypeOK, DataOK, Pcs, Answers, SetupInv, CachedInv,
        SettingUp, BeforeAssign, JobStatusIsTrue, jobVars, vars, tokioVars
<1>1. CASE CreateJob /\ UNCHANGED tokioVars
  BY <1>1 DEF CreateJob
<1>2. CASE CreatePort /\ UNCHANGED tokioVars
  BY <1>2 DEF CreatePort
<1>3. CASE Assign /\ UNCHANGED tokioVars
  BY <1>3 DEF Assign, PacketsOnJoin
<1>4. CASE Resume /\ UNCHANGED tokioVars
  BY <1>4 DEF Resume
<1>5. ASSUME NEW p \in Procs, Spawn(p), UNCHANGED tokioVars
      PROVE  JobStatusIsTrue'
  BY <1>5 DEF Spawn, PacketsOnJoin
<1>6. ASSUME NEW p \in Procs, NEW c \in Codes, Exit(p, c),
             UNCHANGED tokioVars
      PROVE  JobStatusIsTrue'
  BY <1>6 DEF Exit, Die
<1>7. CASE StartKill /\ UNCHANGED tokioVars
  BY <1>7 DEF StartKill, Die, KillTargets, Running
<1>8. CASE Kill /\ UNCHANGED tokioVars
  BY <1>8 DEF Kill, Die, KillTargets, Running
<1>9. CASE TryWaitCall /\ UNCHANGED tokioVars
  BY <1>9 DEF TryWaitCall, NoteCall
<1>10. CASE IntoInner /\ UNCHANGED tokioVars
  BY <1>10 DEF IntoInner
<1>11. CASE WaitCall /\ UNCHANGED tokioVars
  BY <1>11 DEF WaitCall, NoteCall, Return
<1>12. CASE InnerWait /\ UNCHANGED tokioVars
  BY <1>12 DEF InnerWait
<1>13. CASE InnerTry /\ UNCHANGED tokioVars
  BY <1>13 DEF InnerTry, Return
<1>14. CASE PortWait /\ UNCHANGED tokioVars
  BY <1>14 DEF PortWait, Return
<1>15. CASE SetupErr /\ UNCHANGED tokioVars
  BY <1>15 DEF SetupErr
<1>16. CASE Drop /\ UNCHANGED tokioVars
  BY <1>16 DEF Drop
<1>17. CASE Poll
  BY <1>17 DEF Poll, Return
<1>18. CASE Block
  BY <1>18 DEF Block
<1>19. CASE Join
  BY <1>19 DEF Join, Return
<1>20. CASE Cancel
  BY <1>20 DEF Cancel
<1>21. CASE TokioSetupErr
  BY <1>21 DEF TokioSetupErr, DropChild
<1>22. CASE TokioDrop
  BY <1>22 DEF TokioDrop, DropChild
<1>23. CASE ThreadEnds
  BY <1>23 DEF ThreadEnds
<1>24. CASE UNCHANGED allVars
  BY <1>24 DEF allVars
<1>25. CASE ResumeThread /\ UNCHANGED tokioVars
  BY <1>25 DEF ResumeThread
<1> QED
  BY JobStepKinds, <1>1, <1>2, <1>3, <1>4, <1>5, <1>6, <1>7, <1>8, <1>9,
     <1>10, <1>11, <1>12, <1>13, <1>14, <1>15, <1>16, <1>17, <1>18, <1>19,
     <1>20, <1>21, <1>22, <1>23, <1>24, <1>25

\* What start_kill has emptied stays empty: a process is made only by another.
LEMMA KillStopsStep ==
  ASSUME TokioTypeInv, KillStopsJob, [TokioNext]_allVars
  PROVE  KillStopsJob'
<1> USE DEF TokioTypeInv, TokioTypeOK, DataOK, SetupInv, SettingUp,
            BeforeAssign, KillStopsJob, Running, jobVars, vars, tokioVars
<1>1. CASE CreateJob /\ UNCHANGED tokioVars
  BY <1>1 DEF CreateJob
<1>2. CASE CreatePort /\ UNCHANGED tokioVars
  BY <1>2 DEF CreatePort
<1>3. CASE Assign /\ UNCHANGED tokioVars
  BY <1>3 DEF Assign, PacketsOnJoin
<1>4. CASE Resume /\ UNCHANGED tokioVars
  BY <1>4 DEF Resume
<1>5. ASSUME NEW p \in Procs, Spawn(p), UNCHANGED tokioVars
      PROVE  KillStopsJob'
  BY <1>5 DEF Spawn, PacketsOnJoin
<1>6. ASSUME NEW p \in Procs, NEW c \in Codes, Exit(p, c),
             UNCHANGED tokioVars
      PROVE  KillStopsJob'
  BY <1>6 DEF Exit, Die
<1>7. CASE StartKill /\ UNCHANGED tokioVars
  BY <1>7 DEF StartKill, Die, KillTargets
<1>8. CASE Kill /\ UNCHANGED tokioVars
  BY <1>8 DEF Kill, Die, KillTargets
<1>9. CASE TryWaitCall /\ UNCHANGED tokioVars
  BY <1>9 DEF TryWaitCall, NoteCall
<1>10. CASE IntoInner /\ UNCHANGED tokioVars
  BY <1>10 DEF IntoInner
<1>11. CASE WaitCall /\ UNCHANGED tokioVars
  BY <1>11 DEF WaitCall, NoteCall, Return
<1>12. CASE InnerWait /\ UNCHANGED tokioVars
  BY <1>12 DEF InnerWait
<1>13. CASE InnerTry /\ UNCHANGED tokioVars
  BY <1>13 DEF InnerTry, Return
<1>14. CASE PortWait /\ UNCHANGED tokioVars
  BY <1>14 DEF PortWait, Return
<1>15. CASE SetupErr /\ UNCHANGED tokioVars
  BY <1>15 DEF SetupErr
<1>16. CASE Drop /\ UNCHANGED tokioVars
  BY <1>16 DEF Drop
<1>17. CASE Poll
  BY <1>17 DEF Poll, Return
<1>18. CASE Block
  BY <1>18 DEF Block
<1>19. CASE Join
  BY <1>19 DEF Join, Return
<1>20. CASE Cancel
  BY <1>20 DEF Cancel
<1>21. CASE TokioSetupErr
  BY <1>21 DEF TokioSetupErr, DropChild
<1>22. CASE TokioDrop
  BY <1>22 DEF TokioDrop, DropChild
<1>23. CASE ThreadEnds
  BY <1>23 DEF ThreadEnds
<1>24. CASE UNCHANGED allVars
  BY <1>24 DEF allVars
<1>25. CASE ResumeThread /\ UNCHANGED tokioVars
  BY <1>25 DEF ResumeThread
<1> QED
  BY JobStepKinds, <1>1, <1>2, <1>3, <1>4, <1>5, <1>6, <1>7, <1>8, <1>9,
     <1>10, <1>11, <1>12, <1>13, <1>14, <1>15, <1>16, <1>17, <1>18, <1>19,
     <1>20, <1>21, <1>22, <1>23, <1>24, <1>25

\* A wait gets to the port once, and later ones return from the cache.
LEMMA ThreadStep ==
  ASSUME TokioTypeInv, ThreadInv, [TokioNext]_allVars
  PROVE  ThreadInv'
<1> USE DEF TokioTypeInv, TokioTypeOK, DataOK, SetupInv, SettingUp,
            BeforeAssign, CachedInv, ThreadInv, jobVars, vars, tokioVars
<1>1. CASE CreateJob /\ UNCHANGED tokioVars
  BY <1>1 DEF CreateJob
<1>2. CASE CreatePort /\ UNCHANGED tokioVars
  BY <1>2 DEF CreatePort
<1>3. CASE Assign /\ UNCHANGED tokioVars
  BY <1>3 DEF Assign, PacketsOnJoin
<1>4. CASE Resume /\ UNCHANGED tokioVars
  BY <1>4 DEF Resume
<1>5. ASSUME NEW p \in Procs, Spawn(p), UNCHANGED tokioVars
      PROVE  ThreadInv'
  BY <1>5 DEF Spawn, PacketsOnJoin
<1>6. ASSUME NEW p \in Procs, NEW c \in Codes, Exit(p, c),
             UNCHANGED tokioVars
      PROVE  ThreadInv'
  BY <1>6 DEF Exit, Die
<1>7. CASE StartKill /\ UNCHANGED tokioVars
  BY <1>7 DEF StartKill, Die, KillTargets, Running
<1>8. CASE Kill /\ UNCHANGED tokioVars
  BY <1>8 DEF Kill, Die, KillTargets, Running
<1>9. CASE TryWaitCall /\ UNCHANGED tokioVars
  BY <1>9 DEF TryWaitCall, NoteCall
<1>10. CASE IntoInner /\ UNCHANGED tokioVars
  BY <1>10 DEF IntoInner
<1>11. CASE WaitCall /\ UNCHANGED tokioVars
  BY <1>11 DEF WaitCall, NoteCall, Return
<1>12. CASE InnerWait /\ UNCHANGED tokioVars
  BY <1>12 DEF InnerWait
<1>13. CASE InnerTry /\ UNCHANGED tokioVars
  BY <1>13 DEF InnerTry, Return
<1>14. CASE PortWait /\ UNCHANGED tokioVars
  BY <1>14 DEF PortWait, Return
<1>15. CASE SetupErr /\ UNCHANGED tokioVars
  BY <1>15 DEF SetupErr
<1>16. CASE Drop /\ UNCHANGED tokioVars
  BY <1>16 DEF Drop
<1>17. CASE Poll
  BY <1>17 DEF Poll, Return
<1>18. CASE Block
  BY <1>18 DEF Block
<1>19. CASE Join
  BY <1>19 DEF Join, Return
<1>20. CASE Cancel
  BY <1>20 DEF Cancel
<1>21. CASE TokioSetupErr
  BY <1>21 DEF TokioSetupErr, DropChild
<1>22. CASE TokioDrop
  BY <1>22 DEF TokioDrop, DropChild
<1>23. CASE ThreadEnds
  BY <1>23 DEF ThreadEnds
<1>24. CASE UNCHANGED allVars
  BY <1>24 DEF allVars
<1>25. CASE ResumeThread /\ UNCHANGED tokioVars
  BY <1>25 DEF ResumeThread
<1> QED
  BY JobStepKinds, <1>1, <1>2, <1>3, <1>4, <1>5, <1>6, <1>7, <1>8, <1>9,
     <1>10, <1>11, <1>12, <1>13, <1>14, <1>15, <1>16, <1>17, <1>18, <1>19,
     <1>20, <1>21, <1>22, <1>23, <1>24, <1>25

\* A dead child stays dead, so what a call found when it was made stays true.
LEMMA LateStep ==
  ASSUME TokioTypeInv, LateInv, [TokioNext]_allVars
  PROVE  LateInv'
<1> USE JobAssumption
    DEF TokioTypeInv, TokioTypeOK, DataOK, DeadHaveCode, LateInv, Running,
        jobVars, vars, tokioVars
<1>1. CASE CreateJob /\ UNCHANGED tokioVars
  BY <1>1 DEF CreateJob
<1>2. CASE CreatePort /\ UNCHANGED tokioVars
  BY <1>2 DEF CreatePort
<1>3. CASE Assign /\ UNCHANGED tokioVars
  BY <1>3 DEF Assign, PacketsOnJoin
<1>4. CASE Resume /\ UNCHANGED tokioVars
  BY <1>4 DEF Resume
<1>5. ASSUME NEW p \in Procs, Spawn(p), UNCHANGED tokioVars
      PROVE  LateInv'
  BY <1>5 DEF Spawn, PacketsOnJoin
<1>6. ASSUME NEW p \in Procs, NEW c \in Codes, Exit(p, c),
             UNCHANGED tokioVars
      PROVE  LateInv'
  BY <1>6 DEF Exit, Die
<1>7. CASE StartKill /\ UNCHANGED tokioVars
  BY <1>7 DEF StartKill, Die, KillTargets, Running
<1>8. CASE Kill /\ UNCHANGED tokioVars
  BY <1>8 DEF Kill, Die, KillTargets, Running
<1>9. CASE TryWaitCall /\ UNCHANGED tokioVars
  BY <1>9 DEF TryWaitCall, NoteCall
<1>10. CASE IntoInner /\ UNCHANGED tokioVars
  BY <1>10 DEF IntoInner
<1>11. CASE WaitCall /\ UNCHANGED tokioVars
  BY <1>11 DEF WaitCall, NoteCall, Return
<1>12. CASE InnerWait /\ UNCHANGED tokioVars
  BY <1>12 DEF InnerWait
<1>13. CASE InnerTry /\ UNCHANGED tokioVars
  BY <1>13 DEF InnerTry, Return
<1>14. CASE PortWait /\ UNCHANGED tokioVars
  BY <1>14 DEF PortWait, Return
<1>15. CASE SetupErr /\ UNCHANGED tokioVars
  BY <1>15 DEF SetupErr
<1>16. CASE Drop /\ UNCHANGED tokioVars
  BY <1>16 DEF Drop
<1>17. CASE Poll
  BY <1>17 DEF Poll, Return
<1>18. CASE Block
  BY <1>18 DEF Block
<1>19. CASE Join
  BY <1>19 DEF Join, Return
<1>20. CASE Cancel
  BY <1>20 DEF Cancel
<1>21. CASE TokioSetupErr
  BY <1>21 DEF TokioSetupErr, DropChild
<1>22. CASE TokioDrop
  BY <1>22 DEF TokioDrop, DropChild
<1>23. CASE ThreadEnds
  BY <1>23 DEF ThreadEnds
<1>24. CASE UNCHANGED allVars
  BY <1>24 DEF allVars
<1>25. CASE ResumeThread /\ UNCHANGED tokioVars
  BY <1>25 DEF ResumeThread
<1> QED
  BY JobStepKinds, <1>1, <1>2, <1>3, <1>4, <1>5, <1>6, <1>7, <1>8, <1>9,
     <1>10, <1>11, <1>12, <1>13, <1>14, <1>15, <1>16, <1>17, <1>18, <1>19,
     <1>20, <1>21, <1>22, <1>23, <1>24, <1>25

-----------------------------------------------------------------------------
(* The handle keeps the promise of ChildHandle, whose only child is Leader. *)

\* What a step of the handle or of its job is to the child and its caller.
SameForChild ==
  code'[Leader] = code[Leader] /\ UNCHANGED <<late, answer>>
ExitsForChild ==
  /\ code[Leader] = None /\ code'[Leader] \in Codes
  /\ UNCHANGED <<late, answer>>
StatusForChild == code[Leader] # None /\ answer' = code[Leader]
CallForChild ==
  /\ code'[Leader] = code[Leader] /\ late' = (code[Leader] # None)
  /\ StatusForChild \/ UNCHANGED answer
ReplyForChild ==
  /\ code'[Leader] = code[Leader] /\ UNCHANGED late
  /\ \/ StatusForChild
     \/ ~late /\ answer \notin Codes /\ answer' = "running"

\* Each of them is what ChildHandle calls it.
LEMMA ForChildIsPromised ==
  ASSUME \/ SameForChild \/ ExitsForChild \/ CallForChild \/ ReplyForChild
  PROVE  [Promise!Next]_(Promise!promiseVars)
<1> USE DEF StatusForChild, Promise!Next, Promise!AnswerStatus
<1>1. CASE SameForChild
  BY <1>1 DEF SameForChild, Promise!promiseVars
<1>2. CASE ExitsForChild
  <2>1. Promise!ChildExits(Leader)
    BY <1>2 DEF ExitsForChild, Promise!ChildExits
  <2> QED
    BY <2>1
<1>3. CASE CallForChild
  <2>1. Promise!Call(Leader)
    BY <1>3 DEF CallForChild, Promise!Call
  <2> QED
    BY <2>1
<1>4. CASE ReplyForChild
  <2>1. Promise!Reply(Leader)
    BY <1>4 DEF ReplyForChild, Promise!Reply, Promise!AnswerRunning
  <2> QED
    BY <2>1
<1> QED
  BY <1>1, <1>2, <1>3, <1>4

\* Each step is one of the four.
LEMMA ForChildStep ==
  ASSUME TokioTypeInv, JobStatusIsTrue, LateInv, [TokioNext]_allVars
  PROVE  \/ SameForChild \/ ExitsForChild \/ CallForChild \/ ReplyForChild
<1> USE JobAssumption, JobAnswersAssumption
    DEF TokioTypeInv, TokioTypeOK, DataOK, DeadHaveCode, CachedInv, LateInv,
        JobStatusIsTrue, Running, SameForChild, ExitsForChild, StatusForChild,
        CallForChild, ReplyForChild, jobVars, vars, tokioVars
<1> DEFINE G == SameForChild \/ ExitsForChild \/ CallForChild \/ ReplyForChild
<1> SUFFICES G
  OBVIOUS
<1>1. CASE CreateJob /\ UNCHANGED tokioVars
  BY <1>1 DEF CreateJob
<1>2. CASE CreatePort /\ UNCHANGED tokioVars
  BY <1>2 DEF CreatePort
<1>3. CASE Assign /\ UNCHANGED tokioVars
  BY <1>3 DEF Assign, PacketsOnJoin
<1>4. CASE Resume /\ UNCHANGED tokioVars
  BY <1>4 DEF Resume
<1>5. ASSUME NEW p \in Procs, Spawn(p), UNCHANGED tokioVars
      PROVE  G
  BY <1>5 DEF Spawn, PacketsOnJoin
<1>6. ASSUME NEW p \in Procs, NEW c \in Codes, Exit(p, c),
             UNCHANGED tokioVars
      PROVE  G
  BY <1>6 DEF Exit, Die
<1>7. CASE StartKill /\ UNCHANGED tokioVars
  BY <1>7 DEF StartKill, Die, KillTargets, Running
<1>8. CASE Kill /\ UNCHANGED tokioVars
  BY <1>8 DEF Kill, Die, KillTargets, Running
<1>9. CASE TryWaitCall /\ UNCHANGED tokioVars
  BY <1>9 DEF TryWaitCall, NoteCall
<1>10. CASE IntoInner /\ UNCHANGED tokioVars
  BY <1>10 DEF IntoInner
<1>11. CASE WaitCall /\ UNCHANGED tokioVars
  BY <1>11 DEF WaitCall, NoteCall, Return
<1>12. CASE InnerWait /\ UNCHANGED tokioVars
  BY <1>12 DEF InnerWait
<1>13. CASE InnerTry /\ UNCHANGED tokioVars
  BY <1>13 DEF InnerTry, Return
<1>14. CASE PortWait /\ UNCHANGED tokioVars
  BY <1>14 DEF PortWait, Return
<1>15. CASE SetupErr /\ UNCHANGED tokioVars
  BY <1>15 DEF SetupErr
<1>16. CASE Drop /\ UNCHANGED tokioVars
  BY <1>16 DEF Drop
<1>17. CASE Poll
  BY <1>17 DEF Poll, Return
<1>18. CASE Block
  BY <1>18 DEF Block
<1>19. CASE Join
  BY <1>19 DEF Join, Return
<1>20. CASE Cancel
  BY <1>20 DEF Cancel
<1>21. CASE TokioSetupErr
  BY <1>21 DEF TokioSetupErr, DropChild
<1>22. CASE TokioDrop
  BY <1>22 DEF TokioDrop, DropChild
<1>23. CASE ThreadEnds
  BY <1>23 DEF ThreadEnds
<1>24. CASE UNCHANGED allVars
  BY <1>24 DEF allVars
<1>25. CASE ResumeThread /\ UNCHANGED tokioVars
  BY <1>25 DEF ResumeThread
<1> QED
  BY JobStepKinds, <1>1, <1>2, <1>3, <1>4, <1>5, <1>6, <1>7, <1>8, <1>9,
     <1>10, <1>11, <1>12, <1>13, <1>14, <1>15, <1>16, <1>17, <1>18, <1>19,
     <1>20, <1>21, <1>22, <1>23, <1>24, <1>25

-----------------------------------------------------------------------------
LEMMA JobInit ==
  ASSUME TokioInit
  PROVE  /\ TokioTypeInv
         /\ JobStatusIsTrue /\ KillStopsJob /\ ThreadInv /\ LateInv
<1>1. TokioTypeOK /\ SetupInv /\ CachedInv /\ DeadHaveCode
  <2>1. Cardinality(Procs) \in Nat
    BY JobAssumption, FS_CardinalityType
  <2>2. TokioTypeOK
    <3>1. packets \in 0..(2 * Cardinality(Procs) + 1) /\ round \in 0..Rounds
      BY <2>1, TokioJobAssumption DEF TokioInit, Init
    <3>2. /\ state \in [Procs -> {"unborn", "suspended", "running", "dead"}]
          /\ code \in [Procs -> Codes \cup {None}]
      BY DEF TokioInit, Init
    <3> QED
      BY <3>1, <3>2 DEF TokioInit, Init, TokioTypeOK, DataOK, Pcs, Answers
  <2> QED
    BY <2>2, JobAssumption
    DEF TokioInit, Init, SetupInv, CachedInv, SettingUp, BeforeAssign,
        DeadHaveCode
<1>2. PacketBound
  BY <1>1, Counts DEF TokioInit, Init, TokioTypeOK, DataOK, PacketBound
<1>3. JobStatusIsTrue /\ KillStopsJob /\ ThreadInv /\ LateInv
  BY JobAnswersAssumption
  DEF TokioInit, Init, JobStatusIsTrue, KillStopsJob, ThreadInv, LateInv,
      Answers, BeforeAssign
<1> QED
  BY <1>1, <1>2, <1>3 DEF TokioTypeInv

\* TokioTypeOK: every variable of the handle and of its job keeps to its
\* values; the port holds at most two packets for each process, and one more.
THEOREM JobTypeCorrect == TokioSpec => []TokioTypeOK
<1>1. TokioInit => TokioTypeInv
  BY JobInit
<1>2. TokioTypeInv /\ [TokioNext]_allVars => TokioTypeInv'
  BY JobTypeStep
<1>3. TokioTypeInv => TokioTypeOK
  BY DEF TokioTypeInv
<1> QED
  BY <1>1, <1>2, <1>3, PTL DEF TokioSpec

\* JobStatusIsTrue: whatever mix of calls is used and cancelled, a status that
\* the handle caches or answers is its child's.
THEOREM JobStatusCorrect == TokioSpec => []JobStatusIsTrue
<1> DEFINE IInv == TokioTypeInv /\ JobStatusIsTrue
<1>1. TokioInit => IInv
  BY JobInit
<1>2. IInv /\ [TokioNext]_allVars => IInv'
  BY JobTypeStep, JobStatusStep
<1>3. IInv => JobStatusIsTrue
  OBVIOUS
<1> QED
  BY <1>1, <1>2, <1>3, PTL DEF TokioSpec

\* KillStopsJob: start_kill ends the whole job for good.
THEOREM JobKillIsComplete == TokioSpec => []KillStopsJob
<1> DEFINE IInv == TokioTypeInv /\ KillStopsJob
<1>1. TokioInit => IInv
  BY JobInit
<1>2. IInv /\ [TokioNext]_allVars => IInv'
  BY JobTypeStep, KillStopsStep
<1>3. IInv => KillStopsJob
  OBVIOUS
<1> QED
  BY <1>1, <1>2, <1>3, PTL DEF TokioSpec

\* OneThread: waits begun and dropped in any number leave one blocking thread
\* on the port at most.
THEOREM JobThreadsBounded == TokioSpec => []OneThread
<1> DEFINE IInv == TokioTypeInv /\ ThreadInv
<1>1. TokioInit => IInv
  BY JobInit
<1>2. IInv /\ [TokioNext]_allVars => IInv'
  BY JobTypeStep, ThreadStep
<1>3. IInv => OneThread
  BY DEF ThreadInv, OneThread
<1> QED
  BY <1>1, <1>2, <1>3, PTL DEF TokioSpec

\* JobKeepsPromise: the handle keeps what ChildHandle promises of wait and
\* try_wait, whatever mix of calls is used, cancelled and begun again.
THEOREM JobPromiseKept == TokioSpec => JobKeepsPromise
<1> DEFINE IInv == TokioTypeInv /\ JobStatusIsTrue /\ LateInv
<1>1. TokioInit => IInv /\ Promise!Init
  <2>1. TokioInit => IInv
    BY JobInit
  <2>2. TokioInit => Promise!Init
    BY JobAssumption DEF TokioInit, Init, Promise!Init
  <2> QED
    BY <2>1, <2>2
<1>2. IInv /\ [TokioNext]_allVars => IInv'
  BY JobTypeStep, JobStatusStep, LateStep
<1>3. IInv /\ [TokioNext]_allVars => [Promise!Next]_(Promise!promiseVars)
  BY ForChildStep, ForChildIsPromised
<1> QED
  BY <1>1, <1>2, <1>3, PTL DEF TokioSpec, JobKeepsPromise, Promise!Spec

=============================================================================
