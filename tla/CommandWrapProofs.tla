-------------------------- MODULE CommandWrapProofs --------------------------
(***************************************************************************)
(* Proofs about CommandWrap, for any wrappers, in any order and number,    *)
(* any creation flags and any number of spawns.                            *)
(***************************************************************************)
EXTENDS CommandWrap, FiniteSetTheorems, TLAPS

Flags == {"CREATE_SUSPENDED"} \cup UNION UserFlags

Commands ==
  [program : {"user", "empty"}, group : {"inherit", "own", "other"},
   setsids : Nat, unblocks : BOOLEAN, flags : SUBSET Flags,
   killOnDrop : BOOLEAN]

LayerNames == {"ProcessGroupChild", "JobObjectChild", "UserChild"}

Childs ==
  [state : {"none", "running", "suspended", "killed"}, early : BOOLEAN,
   group : {"inherit", "own", "other"}, unblocked : BOOLEAN,
   layers : Seq(LayerNames)]

\* What TypeOK rests on.
BuilderTypeInv ==
  /\ platform \in Platforms
  /\ command \in Commands
  /\ wrappers \in Seq(Instances(platform))
  /\ added \in Seq(Instances(platform))
  /\ held \in [command : Commands, wrappers : Seq(Instances(platform))]
  /\ phase \in {"idle", "pre_spawn", "post_spawn", "wrap_child", "consumed"}
  /\ next \in 1..(Len(held.wrappers) + 1)
  /\ child \in Childs
  /\ outcome \in {"none", "ok", "err", "panic"}
  /\ unwound \in BOOLEAN
  /\ spawns \in 0..MaxSpawns

Spawning == phase \in {"pre_spawn", "post_spawn", "wrap_child"}
Started == phase \in {"post_spawn", "wrap_child"}

\* The program that the builder runs.
Program == IF unwound THEN "empty" ELSE "user"

\* While a spawn is under way the builder is empty, and its command and
\* wrappers are in the locals of spawn_with.
HeldInv ==
  /\ Spawning => /\ wrappers = <<>> /\ command.program = "empty"
                 /\ held.wrappers = added /\ held.command.program = Program
  /\ phase = "idle" => wrappers = added /\ command.program = Program
  /\ Started => ~unwound
  /\ phase = "pre_spawn" => child = NoChild

\* The pre_spawn hook of wrapper i has been run.
Passed(i) == Started \/ (phase = "pre_spawn" /\ i < next)

KillInv ==
  \A i \in DOMAIN held.wrappers :
    Passed(i) /\ held.wrappers[i].type = "KillOnDrop"
    => held.command.killOnDrop

JobInv ==
  /\ phase = "pre_spawn" /\ FlagsOrderOk(held.wrappers) =>
       \A i \in DOMAIN held.wrappers :
         i < next /\ held.wrappers[i].type = "JobObject"
         => "CREATE_SUSPENDED" \in held.command.flags
  /\ NothingRunsOutsideJob

\* The command that wrappers set things on, and what it says so far.
Cmd == IF Spawning THEN held.command ELSE command

SessionPassed ==
  \E i \in DOMAIN held.wrappers :
    Passed(i) /\ held.wrappers[i].type = "ProcessSession"

\* There is one wrapper of a type; all that a hook has set on the command is
\* what one of the wrappers asks for, and what those asked that were passed is
\* set.
UniqueTypes ==
  \A i, j \in DOMAIN added : added[i].type = added[j].type => i = j

AskedInv ==
  ~unwound =>
    /\ UniqueTypes
    /\ Cmd.group # "inherit" =>
         \E i \in DOMAIN added : added[i] = Instance("ProcessGroup", Cmd.group)
    /\ Cmd.setsids > 0 =>
         \E i \in DOMAIN added : added[i].type = "ProcessSession"
    /\ Cmd.unblocks =>
         \E i \in DOMAIN added : added[i].type = "ResetSigmask"
    /\ Cmd.setsids <= spawns
    /\ Spawning /\ ~SessionPassed => Cmd.setsids < spawns
    /\ phase = "pre_spawn" =>
         \A i \in DOMAIN added :
           i < next =>
             /\ added[i].type = "ProcessGroup" => Cmd.group = added[i].arg
             /\ added[i].type = "ProcessSession" => Cmd.setsids > 0
             /\ added[i].type = "ResetSigmask" => Cmd.unblocks

OrderInv ==
  /\ phase = "post_spawn" => child.layers = <<>>
  /\ LayersInOrder

-----------------------------------------------------------------------------
\* The kinds of step there are, for the case splits below.
LEMMA BuilderStepKinds ==
  ASSUME Next
  PROVE  \/ \E w \in Instances(platform) : Wrap(w)
         \/ IntoCommand \/ BeginSpawn \/ PreSpawnHook \/ Spawner
         \/ PostSpawnHook \/ BeginWrapChild \/ WrapChildHook \/ SpawnOk
         \/ HookErr \/ HookPanic \/ SpawnerErr
BY DEF Next

\* A wrapper that a loop has reached is one of the wrappers of the builder.
LEMMA CurrentIsInstance ==
  ASSUME BuilderTypeInv, NEW p \in {"pre_spawn", "post_spawn", "wrap_child"},
         At(p)
  PROVE  /\ next \in DOMAIN held.wrappers /\ Current = held.wrappers[next]
         /\ Current \in Instances(platform)
         /\ next + 1 \in 1..(Len(held.wrappers) + 1)
BY DEF BuilderTypeInv, At, Current

\* What the instances of each type are made with.
LEMMA InstanceKinds ==
  ASSUME NEW p \in {"unix", "windows"}, NEW w \in Instances(p)
  PROVE  /\ w.type \in {"ProcessGroup", "ProcessSession", "ResetSigmask",
                        "CreationFlags", "JobObject", "KillOnDrop", "User"}
         /\ w.type = "ProcessGroup" =>
              w.arg \in {"own", "other"} /\ w = Instance("ProcessGroup", w.arg)
         /\ w.type = "CreationFlags" => w.arg \in UserFlags
<1>1. \/ w \in {Instance("KillOnDrop", "-"), Instance("User", "-")}
      \/ w \in {Instance("ProcessGroup", "own"),
                Instance("ProcessGroup", "other"),
                Instance("ProcessSession", "-"), Instance("ResetSigmask", "-")}
      \/ w = Instance("JobObject", "-")
      \/ \E f \in UserFlags : w = Instance("CreationFlags", f)
  BY DEF Instances
<1> QED
  BY <1>1 DEF Instance

\* A pre_spawn hook leaves a command a command and its program as it is, and
\* sets on it what its wrapper is for, and nothing else.
LEMMA PreSpawnCommand ==
  ASSUME NEW p \in {"unix", "windows"}, NEW w \in Instances(p),
         NEW c \in Commands, CoreWrap("CreationFlags") = {}
  PROVE  /\ PreSpawn(w, c) \in Commands
         /\ PreSpawn(w, c).program = c.program
         /\ c.killOnDrop \/ w.type = "KillOnDrop"
            => PreSpawn(w, c).killOnDrop
         /\ PreSpawn(w, c).group
              = IF w.type = "ProcessGroup" THEN w.arg ELSE c.group
         /\ PreSpawn(w, c).setsids
              = IF w.type = "ProcessSession" THEN c.setsids + 1 ELSE c.setsids
         /\ PreSpawn(w, c).unblocks <=> w.type = "ResetSigmask" \/ c.unblocks
         /\ w.type = "JobObject"
            => "CREATE_SUSPENDED" \in PreSpawn(w, c).flags
         /\ w.type = "CreationFlags" => PreSpawn(w, c).flags = w.arg
         /\ w.type \notin {"JobObject", "CreationFlags"}
            => PreSpawn(w, c).flags = c.flags
<1> USE DEF Commands
<1>1. CASE w.type = "ProcessGroup"
  <2>1. w.arg \in {"own", "other"}
    BY <1>1, InstanceKinds
  <2>2. PreSpawn(w, c) = [c EXCEPT !.group = w.arg]
    BY <1>1 DEF PreSpawn, JoinGroup
  <2> QED
    BY <1>1, <2>1, <2>2
<1>2. CASE w.type = "ProcessSession"
  <2>1. PreSpawn(w, c) = [c EXCEPT !.setsids = c.setsids + 1]
    BY <1>2 DEF PreSpawn, MakeSession
  <2>2. c.setsids \in Nat
    OBVIOUS
  <2>3. c.setsids + 1 \in Nat
    BY <2>2
  <2> QED
    BY <1>2, <2>1, <2>3
<1>3. CASE w.type = "ResetSigmask"
  BY <1>3 DEF PreSpawn, UnblockSignals
<1>4. CASE w.type = "CreationFlags"
  <2>1. w.arg \in SUBSET Flags
    BY <1>4, InstanceKinds DEF Flags
  <2>2. PreSpawn(w, c) = [c EXCEPT !.flags = w.arg]
    BY <1>4 DEF PreSpawn, SetFlags
  <2> QED
    BY <1>4, <2>1, <2>2
<1>5. CASE w.type = "JobObject"
  BY <1>5 DEF PreSpawn, SetFlags, JobFlags, Flags
<1>6. CASE w.type = "KillOnDrop"
  BY <1>6 DEF PreSpawn, SetKillOnDrop
<1>7. CASE w.type = "User"
  BY <1>7 DEF PreSpawn
<1> QED
  BY InstanceKinds, <1>1, <1>2, <1>3, <1>4, <1>5, <1>6, <1>7

\* A wrap_child hook leaves a child a child, and may only resume it.
LEMMA WrapChildChild ==
  ASSUME NEW w, NEW c \in Childs
  PROVE  /\ WrapChild(w, c) \in Childs
         /\ WrapChild(w, c).early = c.early
         /\ WrapChild(w, c).group = c.group
         /\ WrapChild(w, c).unblocked = c.unblocked
<1> USE DEF Childs
<1>1. ASSUME NEW layer \in LayerNames
      PROVE  AddLayer(c.layers, layer) \in Seq(LayerNames)
  <2>1. c.layers \in Seq(LayerNames)
    OBVIOUS
  <2> QED
    BY <2>1 DEF AddLayer
<1>2. CASE w.type \in {"ProcessGroup", "ProcessSession"}
  <2>1. WrapChild(w, c)
          = [c EXCEPT !.layers = AddLayer(c.layers, "ProcessGroupChild")]
    BY <1>2 DEF WrapChild
  <2>2. AddLayer(c.layers, "ProcessGroupChild") \in Seq(LayerNames)
    BY <1>1 DEF LayerNames
  <2> QED
    BY <2>1, <2>2
<1>3. CASE w.type = "JobObject"
  <2>1. \E s \in {c.state, "running"} :
          WrapChild(w, c)
            = [c EXCEPT !.layers = AddLayer(c.layers, "JobObjectChild"),
                        !.state = s]
    BY <1>3 DEF WrapChild
  <2>2. AddLayer(c.layers, "JobObjectChild") \in Seq(LayerNames)
    BY <1>1 DEF LayerNames
  <2> QED
    BY <2>1, <2>2
<1>4. CASE w.type = "User"
  <2>1. WrapChild(w, c)
          = [c EXCEPT !.layers = AddLayer(c.layers, "UserChild")]
    BY <1>4 DEF WrapChild
  <2>2. AddLayer(c.layers, "UserChild") \in Seq(LayerNames)
    BY <1>1 DEF LayerNames
  <2> QED
    BY <2>1, <2>2
<1>5. CASE w.type \notin {"ProcessGroup", "ProcessSession", "JobObject",
                         "User"}
  BY <1>5 DEF WrapChild
<1> QED
  BY <1>2, <1>3, <1>4, <1>5

\* While a spawn is under way the hooks find nothing in their core.
LEMMA CoreIsEmpty ==
  ASSUME HeldInv, Spawning
  PROVE  \A t : CoreWrap(t) = {}
<1>1. wrappers = <<>>
  BY DEF HeldInv
<1>2. ToSet(wrappers) = {}
  BY <1>1 DEF ToSet
<1> QED
  BY <1>2 DEF CoreWrap

\* NoChild is a child, and so is one that was killed.
LEMMA ChildIsKilled ==
  ASSUME BuilderTypeInv, DropChild
  PROVE  child' \in Childs
BY DEF DropChild, BuilderTypeInv, Childs

-----------------------------------------------------------------------------
\* The types are preserved by every step.
LEMMA BuilderTypeStep ==
  ASSUME BuilderTypeInv, HeldInv, [Next]_vars
  PROVE  BuilderTypeInv'
<1> USE PlatformsAssumption, MaxSpawnsAssumption
    DEF BuilderTypeInv, builder, past
<1>0. /\ NewCommand \in Commands /\ Placeholder \in Commands
      /\ NoChild \in Childs
      /\ <<>> \in Seq(Instances(platform)) /\ Len(<<>>) = 0
  <2>1. NewCommand \in Commands
    BY DEF NewCommand, Commands, Flags
  <2>2. Placeholder \in Commands
    BY DEF Placeholder, NewCommand, Commands, Flags
  <2>3. <<>> \in Seq(LayerNames)
    OBVIOUS
  <2>4. NoChild \in Childs
    BY <2>3 DEF NoChild, Childs
  <2>5. <<>> \in Seq(Instances(platform)) /\ Len(<<>>) = 0
    OBVIOUS
  <2> QED
    BY <2>1, <2>2, <2>4, <2>5
<1>1. ASSUME NEW w \in Instances(platform), Wrap(w)
      PROVE  BuilderTypeInv'
  <2>1. /\ Append(wrappers, w) \in Seq(Instances(platform))
        /\ Append(added, w) \in Seq(Instances(platform))
    OBVIOUS
  <2> QED
    BY <1>1, <2>1 DEF Wrap
<1>2. CASE IntoCommand
  BY <1>2 DEF IntoCommand
<1>3. CASE BeginSpawn
  <2>1. /\ held' = [command |-> command, wrappers |-> wrappers]
        /\ command' = Placeholder /\ wrappers' = <<>>
        /\ phase' = "pre_spawn" /\ next' = 1 /\ child' = NoChild
        /\ spawns' = spawns + 1 /\ spawns < MaxSpawns
        /\ UNCHANGED <<platform, outcome, unwound, added>>
    BY <1>3 DEF BeginSpawn
  <2>2. next' \in 1..(Len(held'.wrappers) + 1)
    BY <2>1
  <2> QED
    BY <2>1, <2>2, <1>0
<1>4. CASE PreSpawnHook
  <2>1. /\ Current \in Instances(platform)
        /\ next + 1 \in 1..(Len(held.wrappers) + 1)
    BY <1>4, CurrentIsInstance DEF PreSpawnHook
  <2>2. CoreWrap("CreationFlags") = {}
    BY <1>4, CoreIsEmpty DEF PreSpawnHook, At, Spawning
  <2>3. PreSpawn(Current, held.command) \in Commands
    BY <2>1, <2>2, PreSpawnCommand
  <2>4. /\ held'.wrappers = held.wrappers
        /\ held' \in [command : Commands, wrappers : Seq(Instances(platform))]
    BY <1>4, <2>3 DEF PreSpawnHook
  <2> QED
    BY <1>4, <2>1, <2>4 DEF PreSpawnHook
<1>5. CASE Spawner
  <2>1. child' \in Childs
    BY <1>5 DEF Spawner, Childs, Commands
  <2> QED
    BY <1>5, <2>1 DEF Spawner
<1>6. CASE PostSpawnHook
  <2>1. next + 1 \in 1..(Len(held.wrappers) + 1)
    BY <1>6, CurrentIsInstance DEF PostSpawnHook
  <2> QED
    BY <1>6, <2>1 DEF PostSpawnHook
<1>7. CASE BeginWrapChild
  BY <1>7 DEF BeginWrapChild
<1>8. CASE WrapChildHook
  <2>1. next + 1 \in 1..(Len(held.wrappers) + 1)
    BY <1>8, CurrentIsInstance DEF WrapChildHook
  <2>2. child' \in Childs
    BY <1>8, WrapChildChild DEF WrapChildHook
  <2> QED
    BY <1>8, <2>1, <2>2 DEF WrapChildHook
<1>9. CASE SpawnOk
  <2>1. /\ held' = [command |-> NewCommand, wrappers |-> <<>>] /\ next' = 1
        /\ next' \in 1..(Len(held'.wrappers) + 1)
    BY <1>9, <1>0 DEF SpawnOk, Finish
  <2> QED
    BY <1>9, <1>0, <2>1 DEF SpawnOk, Finish
<1>10. CASE HookErr
  <2>1. child' \in Childs
    BY <1>10, ChildIsKilled DEF HookErr
  <2>2. /\ held' = [command |-> NewCommand, wrappers |-> <<>>] /\ next' = 1
        /\ next' \in 1..(Len(held'.wrappers) + 1)
    BY <1>10, <1>0 DEF HookErr, Finish
  <2> QED
    BY <1>10, <1>0, <2>1, <2>2 DEF HookErr, Finish
<1>11. CASE HookPanic
  <2>1. child' \in Childs
    BY <1>11, ChildIsKilled DEF HookPanic
  <2>2. /\ held' = [command |-> NewCommand, wrappers |-> <<>>] /\ next' = 1
        /\ next' \in 1..(Len(held'.wrappers) + 1)
    BY <1>11, <1>0 DEF HookPanic
  <2> QED
    BY <1>11, <1>0, <2>1, <2>2 DEF HookPanic
<1>12. CASE SpawnerErr
  <2>1. /\ held' = [command |-> NewCommand, wrappers |-> <<>>] /\ next' = 1
        /\ next' \in 1..(Len(held'.wrappers) + 1)
    BY <1>12, <1>0 DEF SpawnerErr, Finish
  <2> QED
    BY <1>12, <1>0, <2>1 DEF SpawnerErr, Finish
<1>13. CASE UNCHANGED vars
  BY <1>13 DEF vars
<1> QED
  BY BuilderStepKinds, <1>1, <1>2, <1>3, <1>4, <1>5, <1>6, <1>7, <1>8,
     <1>9, <1>10, <1>11, <1>12, <1>13

\* What the builder is left without while it spawns is in spawn_with's locals,
\* unless a panic has dropped those.
LEMMA HeldStep ==
  ASSUME BuilderTypeInv, HeldInv, [Next]_vars
  PROVE  HeldInv'
<1> USE DEF HeldInv, Spawning, Started, Program, builder, past
<1>1. ASSUME NEW w \in Instances(platform), Wrap(w)
      PROVE  HeldInv'
  BY <1>1 DEF Wrap
<1>2. CASE IntoCommand
  BY <1>2 DEF IntoCommand
<1>3. CASE BeginSpawn
  <2>1. Placeholder.program = "empty"
    BY DEF Placeholder, NewCommand
  <2> QED
    BY <1>3, <2>1 DEF BeginSpawn
<1>4. CASE PreSpawnHook
  <2>1. phase = "pre_spawn" /\ Current \in Instances(platform)
    BY <1>4, CurrentIsInstance DEF PreSpawnHook, At
  <2>2. PreSpawn(Current, held.command).program = held.command.program
    BY <2>1, CoreIsEmpty, PreSpawnCommand, PlatformsAssumption
    DEF BuilderTypeInv
  <2>3. /\ held'.wrappers = held.wrappers
        /\ held'.command = PreSpawn(Current, held.command)
    BY <1>4 DEF PreSpawnHook, BuilderTypeInv
  <2> QED
    BY <1>4, <2>1, <2>2, <2>3 DEF PreSpawnHook
<1>5. CASE Spawner
  <2>1. held.command.program # "empty"
    BY <1>5 DEF Spawner, ExecOk
  <2> QED
    BY <1>5, <2>1 DEF Spawner, Through
<1>6. CASE PostSpawnHook
  BY <1>6 DEF PostSpawnHook, At
<1>7. CASE BeginWrapChild
  BY <1>7 DEF BeginWrapChild, Through
<1>8. CASE WrapChildHook
  BY <1>8 DEF WrapChildHook, At
<1>9. CASE SpawnOk
  BY <1>9 DEF SpawnOk, Finish, Through
<1>10. CASE HookErr
  <2>1. Spawning
    BY <1>10 DEF HookErr, At
  <2> QED
    BY <1>10, <2>1 DEF HookErr, Finish
<1>11. CASE HookPanic
  <2>1. Spawning
    BY <1>11 DEF HookPanic, At
  <2> QED
    BY <1>11, <2>1 DEF HookPanic
<1>12. CASE SpawnerErr
  BY <1>12 DEF SpawnerErr, Finish, Through
<1>13. CASE UNCHANGED vars
  BY <1>13 DEF vars
<1> QED
  BY BuilderStepKinds, <1>1, <1>2, <1>3, <1>4, <1>5, <1>6, <1>7, <1>8,
     <1>9, <1>10, <1>11, <1>12, <1>13

\* A step that runs a pre_spawn hook: what it leaves and what it sets.
LEMMA PreSpawnStep ==
  ASSUME BuilderTypeInv, HeldInv, PreSpawnHook
  PROVE  /\ phase = "pre_spawn" /\ phase' = phase /\ next' = next + 1
         /\ next \in DOMAIN held.wrappers /\ Current = held.wrappers[next]
         /\ held'.wrappers = held.wrappers
         /\ UNCHANGED <<command, wrappers, platform, child, unwound, added,
                        spawns>>
         /\ held.command.killOnDrop \/ Current.type = "KillOnDrop"
            => held'.command.killOnDrop
         /\ held'.command.group = IF Current.type = "ProcessGroup"
                                  THEN Current.arg ELSE held.command.group
         /\ held'.command.setsids = IF Current.type = "ProcessSession"
                                    THEN held.command.setsids + 1
                                    ELSE held.command.setsids
         /\ held'.command.unblocks <=>
              Current.type = "ResetSigmask" \/ held.command.unblocks
         /\ Current.type = "JobObject"
            => "CREATE_SUSPENDED" \in held'.command.flags
         /\ Current.type = "CreationFlags" => held'.command.flags = Current.arg
         /\ Current.type \notin {"JobObject", "CreationFlags"}
            => held'.command.flags = held.command.flags
<1>1. /\ phase = "pre_spawn" /\ next \in DOMAIN held.wrappers
      /\ Current = held.wrappers[next] /\ Current \in Instances(platform)
  BY CurrentIsInstance DEF PreSpawnHook, At
<1>2. CoreWrap("CreationFlags") = {}
  BY <1>1, CoreIsEmpty DEF Spawning
<1>3. held' = [held EXCEPT !.command = PreSpawn(Current, held.command)]
  BY DEF PreSpawnHook
<1>4. /\ held'.wrappers = held.wrappers
      /\ held'.command = PreSpawn(Current, held.command)
  BY <1>3 DEF BuilderTypeInv
<1>5. held.command \in Commands /\ platform \in {"unix", "windows"}
  BY PlatformsAssumption DEF BuilderTypeInv
<1>6. /\ phase' = phase /\ next' = next + 1
      /\ UNCHANGED <<command, wrappers, platform, child, unwound, added,
                     spawns>>
  BY DEF PreSpawnHook, builder, past
<1> HIDE DEF Current
<1> QED
  BY <1>1, <1>2, <1>4, <1>5, <1>6, PreSpawnCommand

\* Once KillOnDrop's hook has been run the command stays one that kills.
LEMMA KillStep ==
  ASSUME BuilderTypeInv, HeldInv, KillInv, [Next]_vars
  PROVE  KillInv'
<1> USE DEF KillInv, Passed, Started, builder, past
<1>1. CASE phase' \in {"idle", "consumed"}
  BY <1>1
<1>2. CASE BeginSpawn
  <2>1. phase' = "pre_spawn" /\ next' = 1
    BY <1>2 DEF BeginSpawn
  <2>2. \A i \in DOMAIN held'.wrappers : ~(i < next')
    BY <1>2, <2>1 DEF BeginSpawn, BuilderTypeInv
  <2> QED
    BY <2>1, <2>2
<1>3. CASE PreSpawnHook
  <2> SUFFICES ASSUME NEW i \in DOMAIN held'.wrappers, i < next',
                      held'.wrappers[i].type = "KillOnDrop"
               PROVE  held'.command.killOnDrop
    BY <1>3, PreSpawnStep
  <2>1. i < next \/ i = next
    BY <1>3, PreSpawnStep DEF BuilderTypeInv
  <2> QED
    BY <1>3, <2>1, PreSpawnStep
<1>4. CASE Spawner
  <2>1. \A i \in DOMAIN held.wrappers : i < next
    BY <1>4 DEF Spawner, Through, BuilderTypeInv
  <2> QED
    BY <1>4, <2>1 DEF Spawner, Through
<1>5. CASE PostSpawnHook \/ BeginWrapChild \/ WrapChildHook
  BY <1>5 DEF PostSpawnHook, BeginWrapChild, WrapChildHook, At, Through
<1>6. CASE UNCHANGED vars
  BY <1>6 DEF vars
<1>7. CASE SpawnOk \/ HookErr \/ HookPanic \/ SpawnerErr
  BY <1>1, <1>7 DEF SpawnOk, HookErr, HookPanic, SpawnerErr, Finish
<1>8. ASSUME NEW w \in Instances(platform), Wrap(w)
      PROVE  KillInv'
  BY <1>8 DEF Wrap
<1>9. CASE IntoCommand
  BY <1>1, <1>9 DEF IntoCommand
<1> QED
  BY BuilderStepKinds, <1>2, <1>3, <1>4, <1>5, <1>6, <1>7, <1>8, <1>9

\* Once JobObject's hook has been run the flags stay those of a suspended
\* process, and so the process is one that has not run.
LEMMA JobStep ==
  ASSUME BuilderTypeInv, HeldInv, JobInv, [Next]_vars
  PROVE  JobInv'
<1> USE DEF JobInv, NothingRunsOutsideJob, builder, past
<1>1. CASE phase' \in {"idle", "consumed"}
  BY <1>1
<1>2. CASE BeginSpawn
  <2>1. phase' = "pre_spawn" /\ next' = 1
    BY <1>2 DEF BeginSpawn
  <2>2. \A i \in DOMAIN held'.wrappers : ~(i < next')
    BY <1>2, <2>1 DEF BeginSpawn, BuilderTypeInv
  <2> QED
    BY <2>1, <2>2
<1>3. CASE PreSpawnHook
  <2> SUFFICES ASSUME FlagsOrderOk(held.wrappers),
                      NEW i \in DOMAIN held.wrappers, i < next + 1,
                      held.wrappers[i].type = "JobObject"
               PROVE  "CREATE_SUSPENDED" \in held'.command.flags
    BY <1>3, PreSpawnStep
  <2>1. CASE i = next
    BY <1>3, <2>1, PreSpawnStep
  <2>2. CASE i < next
    <3>1. "CREATE_SUSPENDED" \in held.command.flags
      BY <1>3, <2>2, PreSpawnStep
    <3>2. CASE Current.type = "CreationFlags"
      <4>1. next \in DOMAIN held.wrappers /\ Current = held.wrappers[next]
        BY <1>3, PreSpawnStep
      <4>2. ~(next < i)
        BY <2>2, <4>1 DEF BuilderTypeInv
      <4>3. "CREATE_SUSPENDED" \in Current.arg
        BY <3>2, <4>1, <4>2 DEF FlagsOrderOk
      <4> QED
        BY <1>3, <3>2, <4>3, PreSpawnStep
    <3> QED
      BY <1>3, <3>1, <3>2, PreSpawnStep
  <2> QED
    BY <2>1, <2>2 DEF BuilderTypeInv
<1>4. CASE Spawner
  <2>1. \A i \in DOMAIN held.wrappers : i < next
    BY <1>4 DEF Spawner, Through, BuilderTypeInv
  <2>2. ASSUME "JobObject" \in Types(held.wrappers),
               FlagsOrderOk(held.wrappers)
        PROVE  ~child'.early
    <3>1. "CREATE_SUSPENDED" \in held.command.flags
      BY <1>4, <2>1, <2>2 DEF Spawner, Through, Types
    <3> QED
      BY <1>4, <3>1 DEF Spawner
  <2>3. phase' = "post_spawn" /\ held' = held
    BY <1>4 DEF Spawner
  <2> QED
    BY <2>2, <2>3
<1>5. CASE PostSpawnHook \/ BeginWrapChild
  BY <1>5 DEF PostSpawnHook, BeginWrapChild, At, Through
<1>6. CASE WrapChildHook
  <2>1. child'.early = child.early
    BY <1>6, WrapChildChild DEF WrapChildHook, BuilderTypeInv
  <2> QED
    BY <1>6, <2>1 DEF WrapChildHook, At
<1>7. CASE SpawnOk \/ HookErr \/ HookPanic \/ SpawnerErr
  BY <1>1, <1>7 DEF SpawnOk, HookErr, HookPanic, SpawnerErr, Finish
<1>8. ASSUME NEW w \in Instances(platform), Wrap(w)
      PROVE  JobInv'
  BY <1>8 DEF Wrap
<1>9. CASE IntoCommand
  BY <1>1, <1>9 DEF IntoCommand
<1>10. CASE UNCHANGED vars
  BY <1>10 DEF vars
<1> QED
  BY BuilderStepKinds, <1>2, <1>3, <1>4, <1>5, <1>6, <1>7, <1>8, <1>9, <1>10

\* The command holds what the wrappers ask for, and as many setsid closures as
\* there were spawns at most.
LEMMA AskedStep ==
  ASSUME BuilderTypeInv, HeldInv, AskedInv, [Next]_vars
  PROVE  AskedInv'
<1> USE DEF builder, past
<1> DEFINE Origins(c, ws) ==
      /\ c.group # "inherit" =>
           \E i \in DOMAIN ws : ws[i] = Instance("ProcessGroup", c.group)
      /\ c.setsids > 0 => \E i \in DOMAIN ws : ws[i].type = "ProcessSession"
      /\ c.unblocks => \E i \in DOMAIN ws : ws[i].type = "ResetSigmask"
<1>1. ASSUME NEW w \in Instances(platform), Wrap(w)
      PROVE  AskedInv'
  <2>1. /\ phase = "idle" /\ phase' = "idle"
        /\ UNCHANGED <<command, spawns, unwound>>
    BY <1>1 DEF Wrap
  <2>2. CASE w.type \in Types(wrappers)
    BY <1>1, <2>1, <2>2 DEF Wrap, AskedInv, UniqueTypes, Cmd, Spawning
  <2>3. CASE w.type \notin Types(wrappers) /\ ~unwound
    <3>1. wrappers = added /\ added' = Append(added, w)
      BY <1>1, <2>1, <2>3 DEF Wrap, HeldInv
    <3>2. /\ DOMAIN added' = 1..(Len(added) + 1)
          /\ \A i \in DOMAIN added :
               i \in DOMAIN added' /\ added'[i] = added[i]
          /\ \A i \in DOMAIN added' : i \in DOMAIN added \/ added'[i] = w
          /\ \A i \in DOMAIN added' \ DOMAIN added : i = Len(added) + 1
      BY <3>1 DEF BuilderTypeInv
    <3>3. \A i \in DOMAIN added : added[i].type # w.type
      BY <2>3, <3>1 DEF Types
    <3>4. UniqueTypes'
      BY <2>3, <3>2, <3>3 DEF AskedInv, UniqueTypes
    <3>5. Cmd = command /\ Cmd' = command
      BY <2>1 DEF Cmd, Spawning
    <3>6. Origins(command, added) /\ command.setsids <= spawns
      BY <2>3, <3>5 DEF AskedInv
    <3>7. Origins(command, added')
      BY <3>2, <3>6
    <3> QED
      BY <2>1, <3>4, <3>5, <3>6, <3>7 DEF AskedInv, Spawning
  <2> QED
    BY <2>1, <2>2, <2>3 DEF AskedInv
<1>2. CASE IntoCommand
  BY <1>2 DEF IntoCommand, AskedInv, UniqueTypes, Cmd, Spawning
<1>3. CASE BeginSpawn
  <2>1. /\ phase = "idle" /\ phase' = "pre_spawn" /\ next' = 1
        /\ spawns' = spawns + 1 /\ UNCHANGED <<added, unwound>>
        /\ held'.command = command
    BY <1>3 DEF BeginSpawn
  <2>2. Cmd = command /\ Cmd' = command
    BY <2>1 DEF Cmd, Spawning
  <2>3. CASE ~unwound
    <3>1. UniqueTypes' /\ Origins(command, added)
      BY <2>1, <2>2, <2>3 DEF AskedInv, UniqueTypes
    <3>2. command.setsids <= spawns /\ command.setsids < spawns'
      BY <2>1, <2>2, <2>3 DEF AskedInv, BuilderTypeInv, Commands
    <3>3. command.setsids <= spawns'
      BY <2>1, <3>2 DEF BuilderTypeInv, Commands
    <3>4. \A i \in DOMAIN added' : ~(i < next')
      BY <2>1 DEF BuilderTypeInv
    <3> QED
      BY <2>1, <2>2, <3>1, <3>2, <3>3, <3>4 DEF AskedInv
  <2> QED
    BY <2>1, <2>3 DEF AskedInv
<1>4. CASE PreSpawnHook /\ ~unwound
  <2> DEFINE c == held.command
             d == held'.command
  <2>1. /\ Cmd = c /\ Cmd' = d /\ held.wrappers = added
        /\ held'.wrappers = added /\ added' = added
    BY <1>4, PreSpawnStep DEF Cmd, Spawning, HeldInv
  <2>2. UniqueTypes' /\ Origins(c, added) /\ c.setsids <= spawns
    BY <1>4, <2>1 DEF AskedInv, UniqueTypes
  <2>3. next \in DOMAIN added /\ Current = added[next] /\ next \in Nat
    BY <1>4, <2>1, PreSpawnStep DEF BuilderTypeInv
  <2>4. Current.type = "ProcessGroup"
        => Current = Instance("ProcessGroup", Current.arg)
    BY <1>4, CurrentIsInstance, InstanceKinds, PlatformsAssumption
    DEF PreSpawnHook, BuilderTypeInv
  <2>5. /\ d.group = IF Current.type = "ProcessGroup" THEN Current.arg
                     ELSE c.group
        /\ d.setsids = IF Current.type = "ProcessSession" THEN c.setsids + 1
                       ELSE c.setsids
        /\ d.unblocks <=> Current.type = "ResetSigmask" \/ c.unblocks
    BY <1>4, PreSpawnStep
  <2>6. Origins(d, added)
    <3>1. d.group # "inherit" =>
            \E i \in DOMAIN added :
              added[i] = Instance("ProcessGroup", d.group)
      BY <2>2, <2>3, <2>4, <2>5
    <3>2. d.setsids > 0 =>
            \E i \in DOMAIN added : added[i].type = "ProcessSession"
      BY <2>2, <2>3, <2>5
    <3>3. d.unblocks => \E i \in DOMAIN added : added[i].type = "ResetSigmask"
      BY <2>2, <2>3, <2>5
    <3> QED
      BY <3>1, <3>2, <3>3
  <2>7. \A i \in DOMAIN added :
          i < next =>
            /\ added[i].type = "ProcessGroup" => c.group = added[i].arg
            /\ added[i].type = "ProcessSession" => c.setsids > 0
            /\ added[i].type = "ResetSigmask" => c.unblocks
    BY <1>4, <2>1, PreSpawnStep DEF AskedInv
  <2>8. \A i \in DOMAIN added : i < next => added[i].type # Current.type
    BY <1>4, <2>3 DEF AskedInv, UniqueTypes, BuilderTypeInv
  <2>9. \A i \in DOMAIN added : i < next + 1 => i < next \/ i = next
    BY <2>3 DEF BuilderTypeInv
  <2>10. c.setsids \in Nat /\ spawns \in Nat
    BY MaxSpawnsAssumption DEF BuilderTypeInv, Commands
  <2>11. \A i \in DOMAIN added :
           i < next + 1 =>
             /\ added[i].type = "ProcessGroup" => d.group = added[i].arg
             /\ added[i].type = "ProcessSession" => d.setsids > 0
             /\ added[i].type = "ResetSigmask" => d.unblocks
    <3> SUFFICES ASSUME NEW i \in DOMAIN added, i < next + 1
                 PROVE  /\ added[i].type = "ProcessGroup"
                           => d.group = added[i].arg
                        /\ added[i].type = "ProcessSession" => d.setsids > 0
                        /\ added[i].type = "ResetSigmask" => d.unblocks
      OBVIOUS
    <3>1. CASE i = next
      BY <3>1, <2>3, <2>5, <2>10
    <3>2. CASE i < next
      BY <3>2, <2>5, <2>7, <2>8
    <3> QED
      BY <2>9, <3>1, <3>2
  <2>12. (\E i \in DOMAIN added :
            i < next /\ added[i].type = "ProcessSession") <=> SessionPassed
    BY <1>4, <2>1, PreSpawnStep DEF SessionPassed, Passed, Started
  <2>13. (\E i \in DOMAIN added :
            i < next + 1 /\ added[i].type = "ProcessSession")
         <=> SessionPassed'
    BY <1>4, <2>1, PreSpawnStep DEF SessionPassed, Passed, Started
  <2>14. ~SessionPassed => c.setsids < spawns
    BY <1>4, <2>1, PreSpawnStep DEF AskedInv, Spawning
  <2>15. CASE Current.type = "ProcessSession"
    <3>1. ~SessionPassed /\ SessionPassed'
      BY <2>3, <2>8, <2>12, <2>13, <2>15
    <3>2. d.setsids <= spawns
      BY <2>5, <2>10, <2>14, <2>15, <3>1
    <3> QED
      BY <1>4, <2>1, <2>2, <2>6, <2>11, <3>1, <3>2, PreSpawnStep DEF AskedInv
  <2>16. CASE Current.type # "ProcessSession"
    <3>1. SessionPassed => SessionPassed'
      BY <2>3, <2>12, <2>13 DEF BuilderTypeInv
    <3>2. d.setsids <= spawns /\ (~SessionPassed' => d.setsids < spawns)
      BY <2>2, <2>5, <2>14, <2>16, <3>1
    <3> QED
      BY <1>4, <2>1, <2>2, <2>6, <2>11, <3>2, PreSpawnStep DEF AskedInv
  <2> QED
    BY <2>15, <2>16
<1>5. CASE Spawner \/ PostSpawnHook \/ BeginWrapChild \/ WrapChildHook
  <2>1. /\ Spawning /\ Spawning' /\ phase' # "pre_spawn" /\ Started'
        /\ UNCHANGED <<held, added, spawns, unwound>>
    BY <1>5 DEF Spawner, PostSpawnHook, BeginWrapChild, WrapChildHook, At,
                Through, Spawning, Started
  <2>2. SessionPassed => SessionPassed'
    BY <2>1 DEF SessionPassed, Passed
  <2>3. Cmd = held.command /\ Cmd' = held.command
    BY <2>1 DEF Cmd
  <2> QED
    BY <2>1, <2>2, <2>3 DEF AskedInv, UniqueTypes
<1>6. CASE SpawnOk \/ HookErr \/ SpawnerErr
  <2>1. /\ Spawning /\ phase' = "idle" /\ command' = held.command
        /\ UNCHANGED <<added, spawns, unwound>>
    BY <1>6 DEF SpawnOk, HookErr, SpawnerErr, Finish, At, Through, Spawning
  <2>2. Cmd = held.command /\ Cmd' = held.command
    BY <2>1 DEF Cmd, Spawning
  <2> QED
    BY <2>1, <2>2 DEF AskedInv, UniqueTypes, Spawning
<1>7. CASE HookPanic
  BY <1>7 DEF HookPanic, AskedInv
<1>8. CASE UNCHANGED vars
  BY <1>8 DEF vars, AskedInv, UniqueTypes, Cmd, Spawning, SessionPassed,
              Passed, Started
<1>9. CASE PreSpawnHook /\ unwound
  BY <1>9 DEF PreSpawnHook, AskedInv
<1> QED
  BY BuilderStepKinds, <1>1, <1>2, <1>3, <1>4, <1>5, <1>6, <1>7, <1>8, <1>9

\* The process a spawn starts is what the wrappers ask for, and stays so.
LEMMA SpawnedStep ==
  ASSUME BuilderTypeInv, HeldInv, AskedInv, SpawnedAsAsked, [Next]_vars
  PROVE  SpawnedAsAsked'
<1> USE DEF SpawnedAsAsked, builder, past
<1>1. CASE phase' \notin {"post_spawn", "wrap_child"}
  BY <1>1
<1>2. CASE Spawner
  <2> DEFINE c == held.command
             ws == held.wrappers
  <2>1. /\ phase = "pre_spawn" /\ \A i \in DOMAIN ws : i < next
        /\ ws = added /\ held' = held
        /\ child'.unblocked = c.unblocks
        /\ child'.group = IF c.setsids > 0 THEN "own" ELSE c.group
    BY <1>2 DEF Spawner, Through, BuilderTypeInv, HeldInv, Spawning
  <2>2. ~unwound /\ Cmd = c
    BY <1>2, <2>1 DEF Spawner, ExecOk, HeldInv, Spawning, Program, Cmd
  <2>3. c.unblocks <=> "ResetSigmask" \in Types(ws)
    BY <2>1, <2>2 DEF AskedInv, Types
  <2>4. c.setsids > 0 <=> "ProcessSession" \in Types(ws)
    BY <2>1, <2>2 DEF AskedInv, Types
  <2>5. CASE "ProcessGroup" \in Types(ws)
    <3> DEFINE g == CHOOSE w \in ToSet(ws) : w.type = "ProcessGroup"
    <3>1. \E w \in ToSet(ws) : w.type = "ProcessGroup"
      BY <2>5 DEF Types, ToSet
    <3>2. g \in ToSet(ws) /\ g.type = "ProcessGroup"
      BY <3>1
    <3>3. c.group = g.arg
      <4>1. PICK i \in DOMAIN ws : g = ws[i]
        BY <3>2 DEF ToSet
      <4>2. added[i].type = "ProcessGroup" /\ added[i].arg = g.arg
        BY <2>1, <3>2, <4>1
      <4>3. i \in DOMAIN added /\ i < next
        BY <2>1
      <4> HIDE DEF g
      <4> QED
        BY <2>1, <2>2, <4>2, <4>3 DEF AskedInv
    <3> QED
      BY <2>1, <2>3, <2>4, <2>5, <3>3
  <2>6. CASE "ProcessGroup" \notin Types(ws)
    <3>1. c.group = "inherit"
      <4>1. \A i \in DOMAIN ws : ws[i].type # "ProcessGroup"
        BY <2>6 DEF Types
      <4> QED
        BY <2>1, <2>2, <4>1 DEF AskedInv, Instance
    <3> QED
      BY <2>1, <2>3, <2>4, <2>6, <3>1
  <2> QED
    BY <2>5, <2>6
<1>3. CASE PostSpawnHook \/ BeginWrapChild
  BY <1>3 DEF PostSpawnHook, BeginWrapChild, At, Through
<1>4. CASE WrapChildHook
  <2>1. child'.group = child.group /\ child'.unblocked = child.unblocked
    BY <1>4, WrapChildChild DEF WrapChildHook, BuilderTypeInv
  <2> QED
    BY <1>4, <2>1 DEF WrapChildHook, At
<1>5. CASE UNCHANGED vars
  BY <1>5 DEF vars
<1>6. CASE PreSpawnHook
  BY <1>6, PreSpawnStep
<1>7. CASE BeginSpawn \/ IntoCommand \/ SpawnOk \/ HookErr \/ HookPanic
           \/ SpawnerErr
  BY <1>1, <1>7 DEF BeginSpawn, IntoCommand, SpawnOk, HookErr, HookPanic,
                    SpawnerErr, Finish
<1>8. ASSUME NEW w \in Instances(platform), Wrap(w)
      PROVE  SpawnedAsAsked'
  BY <1>8 DEF Wrap
<1> QED
  BY BuilderStepKinds, <1>2, <1>3, <1>4, <1>5, <1>6, <1>7, <1>8

\* The layer that wrap_child of a wrapper adds, if any, is the outermost.
LEMMA WrapChildLayers ==
  ASSUME NEW w, NEW c \in Childs
  PROVE  WrapChild(w, c).layers
           = IF w.type \in DOMAIN LayerOf
             THEN Append(c.layers, LayerOf[w.type])
             ELSE c.layers
<1> DEFINE t == w.type
<1>1. t \in DOMAIN LayerOf
        <=> t \in {"ProcessGroup", "ProcessSession", "JobObject", "User"}
  BY DEF LayerOf
<1>2. CASE t = "ProcessGroup"
  BY <1>1, <1>2 DEF WrapChild, AddLayer, LayerOf, Childs
<1>3. CASE t = "ProcessSession"
  <2>1. WrapChild(w, c)
          = [c EXCEPT !.layers = AddLayer(c.layers, "ProcessGroupChild")]
    BY <1>3 DEF WrapChild
  <2> QED
    BY <1>1, <1>3, <2>1 DEF AddLayer, LayerOf, Childs
<1>4. CASE t = "JobObject"
  <2>1. \E s : WrapChild(w, c)
                 = [c EXCEPT !.layers = AddLayer(c.layers, "JobObjectChild"),
                             !.state = s]
    BY <1>4 DEF WrapChild
  <2> QED
    BY <1>1, <1>4, <2>1 DEF AddLayer, LayerOf, Childs
<1>5. CASE t = "User"
  <2>1. WrapChild(w, c)
          = [c EXCEPT !.layers = AddLayer(c.layers, "UserChild")]
    BY <1>5 DEF WrapChild
  <2> QED
    BY <1>1, <1>5, <2>1 DEF AddLayer, LayerOf, Childs
<1>6. CASE t \notin {"ProcessGroup", "ProcessSession", "JobObject", "User"}
  BY <1>1, <1>6 DEF WrapChild
<1> QED
  BY <1>2, <1>3, <1>4, <1>5, <1>6

\* The wrappers with a layer, counted up to each of them.
LEMMA LayeringCounts ==
  ASSUME NEW X, NEW ws \in Seq(X), NEW n \in 0..Len(ws)
  PROVE  /\ IsFiniteSet(Layering(ws, n))
         /\ Cardinality(Layering(ws, n)) \in Nat
         /\ n = 0 => Layering(ws, n) = {} /\ Cardinality(Layering(ws, n)) = 0
         /\ \A i \in Layering(ws, n) :
              Cardinality(Layering(ws, i)) \in 1..Cardinality(Layering(ws, n))
         /\ n # 0 =>
              LET rest == Layering(ws, n - 1)
              IN IF ws[n].type \in DOMAIN LayerOf
                 THEN /\ Layering(ws, n) = rest \cup {n}
                      /\ Cardinality(Layering(ws, n)) = Cardinality(rest) + 1
                 ELSE Layering(ws, n) = rest
<1>0. Len(ws) \in Nat /\ DOMAIN ws = 1..Len(ws)
  OBVIOUS
<1>1. \A k \in 0..Len(ws) : Layering(ws, k) \in SUBSET (1..Len(ws))
  BY <1>0 DEF Layering
<1>2. ASSUME NEW k \in 0..Len(ws)
      PROVE  /\ IsFiniteSet(Layering(ws, k))
             /\ Cardinality(Layering(ws, k)) \in Nat
  <2>1. IsFiniteSet(1..Len(ws))
    BY <1>0, FS_Interval
  <2>2. IsFiniteSet(Layering(ws, k))
    BY <1>1, <2>1, FS_Subset
  <2> QED
    BY <2>2, FS_CardinalityType
<1>3. n = 0 => Layering(ws, n) = {} /\ Cardinality(Layering(ws, n)) = 0
  <2>1. n = 0 => Layering(ws, n) = {}
    BY <1>0 DEF Layering
  <2> QED
    BY <2>1, FS_EmptySet
<1>4. ASSUME NEW i \in Layering(ws, n)
      PROVE  Cardinality(Layering(ws, i)) \in 1..Cardinality(Layering(ws, n))
  <2>1. i \in 0..Len(ws) /\ i \in Layering(ws, i)
        /\ Layering(ws, i) \in SUBSET Layering(ws, n)
    BY <1>0 DEF Layering
  <2>2. Cardinality(Layering(ws, i)) <= Cardinality(Layering(ws, n))
    BY <1>2, <2>1, FS_Subset
  <2>3. Cardinality(Layering(ws, i)) # 0
    BY <1>2, <2>1, FS_EmptySet
  <2> QED
    BY <1>2, <2>1, <2>2, <2>3
<1>5. ASSUME n # 0, ws[n].type \in DOMAIN LayerOf
      PROVE  /\ Layering(ws, n) = Layering(ws, n - 1) \cup {n}
             /\ Cardinality(Layering(ws, n))
                  = Cardinality(Layering(ws, n - 1)) + 1
  <2>1. /\ Layering(ws, n) = Layering(ws, n - 1) \cup {n}
        /\ n \notin Layering(ws, n - 1)
    BY <1>0, <1>5 DEF Layering
  <2>2. IsFiniteSet(Layering(ws, n - 1))
    BY <1>0, <1>2, <1>5
  <2> QED
    BY <2>1, <2>2, FS_AddElement
<1>6. ASSUME n # 0, ws[n].type \notin DOMAIN LayerOf
      PROVE  Layering(ws, n) = Layering(ws, n - 1)
  BY <1>0, <1>6 DEF Layering
<1> QED
  BY <1>2, <1>3, <1>4, <1>5, <1>6

\* The layers stand in the order of their wrappers: each hook of the loop puts
\* its own where the count of those before it says.
LEMMA OrderStep ==
  ASSUME BuilderTypeInv, OrderInv, [Next]_vars
  PROVE  OrderInv'
<1> USE DEF OrderInv, builder, past
<1>1. CASE phase' \notin {"post_spawn", "wrap_child"}
  BY <1>1 DEF LayersInOrder
<1>2. CASE Spawner
  BY <1>2 DEF Spawner, LayersInOrder
<1>3. CASE PostSpawnHook
  BY <1>3 DEF PostSpawnHook, At, LayersInOrder
<1>4. CASE BeginWrapChild
  <2> DEFINE ws == held.wrappers
  <2>1. /\ child'.layers = <<>> /\ next' = 1 /\ phase' = "wrap_child"
        /\ held' = held /\ next' - 1 = 0
    BY <1>4 DEF BeginWrapChild, Through
  <2>2. Layering(ws, 0) = {} /\ Cardinality(Layering(ws, 0)) = 0
    BY LayeringCounts DEF BuilderTypeInv
  <2> QED
    BY <2>1, <2>2 DEF LayersInOrder
<1>5. CASE WrapChildHook
  <2> DEFINE ws == held.wrappers
             t == ws[next].type
             counted == Cardinality(Layering(ws, next - 1))
  <2>1. /\ phase = "wrap_child" /\ phase' = "wrap_child"
        /\ next' = next + 1 /\ held' = held
        /\ next \in 1..Len(ws) /\ Current = ws[next]
        /\ child' = WrapChild(Current, child)
        /\ child.layers \in Seq(LayerNames)
        /\ ws \in Seq(Instances(platform))
    BY <1>5 DEF WrapChildHook, At, Current, BuilderTypeInv, Childs
  <2>2. child'.layers = IF t \in DOMAIN LayerOf
                        THEN Append(child.layers, LayerOf[t])
                        ELSE child.layers
    BY <2>1, WrapChildLayers DEF BuilderTypeInv
  <2>3. /\ Len(child.layers) = counted
        /\ \A i \in Layering(ws, next - 1) :
             child.layers[Cardinality(Layering(ws, i))] = LayerOf[ws[i].type]
    BY <2>1 DEF LayersInOrder
  <2>4. \A i \in Layering(ws, next - 1) :
          Cardinality(Layering(ws, i)) \in 1..counted
    BY <2>1, LayeringCounts
  <2>5. /\ Len(child'.layers) = Cardinality(Layering(ws, next))
        /\ \A i \in Layering(ws, next) :
             child'.layers[Cardinality(Layering(ws, i))] = LayerOf[ws[i].type]
    <3>1. CASE t \in DOMAIN LayerOf
      <4>1. /\ Layering(ws, next) = Layering(ws, next - 1) \cup {next}
            /\ Cardinality(Layering(ws, next)) = counted + 1
        BY <2>1, <3>1, LayeringCounts
      <4>2. /\ child'.layers = Append(child.layers, LayerOf[t])
            /\ Len(child'.layers) = counted + 1
            /\ child'.layers[counted + 1] = LayerOf[t]
            /\ \A k \in 1..counted : child'.layers[k] = child.layers[k]
        BY <2>1, <2>2, <2>3, <3>1
      <4> QED
        BY <2>3, <2>4, <4>1, <4>2
    <3>2. CASE t \notin DOMAIN LayerOf
      BY <2>1, <2>2, <2>3, <3>2, LayeringCounts
    <3> QED
      BY <3>1, <3>2
  <2>6. next' - 1 = next
    BY <2>1
  <2> QED
    BY <2>1, <2>5, <2>6 DEF LayersInOrder
<1>6. CASE UNCHANGED vars
  BY <1>6 DEF vars, LayersInOrder
<1>7. CASE PreSpawnHook
  BY <1>1, <1>7 DEF PreSpawnHook, At
<1>8. CASE BeginSpawn \/ IntoCommand \/ SpawnOk \/ HookErr \/ HookPanic
           \/ SpawnerErr
  BY <1>1, <1>8 DEF BeginSpawn, IntoCommand, SpawnOk, HookErr, HookPanic,
                    SpawnerErr, Finish
<1>9. ASSUME NEW w \in Instances(platform), Wrap(w)
      PROVE  OrderInv'
  BY <1>1, <1>9 DEF Wrap
<1> QED
  BY BuilderStepKinds, <1>2, <1>3, <1>4, <1>5, <1>6, <1>7, <1>8, <1>9

-----------------------------------------------------------------------------
\* A builder just made has all the invariants.
LEMMA BuilderInit ==
  ASSUME Init
  PROVE  BuilderTypeInv /\ HeldInv /\ KillInv /\ JobInv /\ AskedInv
         /\ SpawnedAsAsked /\ OrderInv
<1>1. /\ platform \in Platforms /\ command = NewCommand /\ wrappers = <<>>
      /\ phase = "idle" /\ next = 1 /\ child = NoChild /\ outcome = "none"
      /\ held = [command |-> NewCommand, wrappers |-> <<>>]
      /\ unwound = FALSE /\ added = <<>> /\ spawns = 0
  BY DEF Init
<1>2. NewCommand \in Commands /\ NewCommand.program = "user"
  BY DEF NewCommand, Commands, Flags
<1>3. <<>> \in Seq(Instances(platform)) /\ Len(<<>>) = 0
  OBVIOUS
<1>4. NoChild \in Childs
  <2>1. <<>> \in Seq(LayerNames)
    OBVIOUS
  <2> QED
    BY <2>1 DEF NoChild, Childs
<1>5. BuilderTypeInv
  <2>1. held \in [command : Commands, wrappers : Seq(Instances(platform))]
    BY <1>1, <1>2, <1>3
  <2>2. next \in 1..(Len(held.wrappers) + 1)
    BY <1>1, <1>3
  <2>3. spawns \in 0..MaxSpawns
    BY <1>1, MaxSpawnsAssumption
  <2> QED
    BY <1>1, <1>2, <1>3, <1>4, <2>1, <2>2, <2>3 DEF BuilderTypeInv
<1>6. HeldInv
  BY <1>1, <1>2 DEF HeldInv, Spawning, Started, Program
<1>7. KillInv /\ JobInv /\ SpawnedAsAsked /\ OrderInv
  BY <1>1 DEF KillInv, JobInv, NothingRunsOutsideJob, SpawnedAsAsked, Passed,
              Started, OrderInv, LayersInOrder
<1>8. AskedInv
  <2>1. DOMAIN added = {}
    BY <1>1
  <2>2. /\ NewCommand.group = "inherit" /\ NewCommand.setsids = 0
        /\ ~NewCommand.unblocks
    BY DEF NewCommand
  <2> QED
    BY <1>1, <2>1, <2>2 DEF AskedInv, UniqueTypes, Cmd, Spawning
<1> QED
  BY <1>5, <1>6, <1>7, <1>8

\* Everything the properties below rest on.
SpawnInv ==
  /\ BuilderTypeInv /\ HeldInv /\ KillInv /\ JobInv /\ AskedInv
  /\ SpawnedAsAsked /\ OrderInv

LEMMA SpawnInvHolds == Spec => []SpawnInv
<1>1. Init => SpawnInv
  BY BuilderInit DEF SpawnInv
<1>2. SpawnInv /\ [Next]_vars => SpawnInv'
  BY BuilderTypeStep, HeldStep, KillStep, JobStep, AskedStep, SpawnedStep,
     OrderStep
  DEF SpawnInv
<1> QED
  BY <1>1, <1>2, PTL DEF Spec

\* TypeOK: the types of the builder's state.
THEOREM BuilderTypeCorrect == Spec => []TypeOK
<1>1. SpawnInv => TypeOK
  BY DEF SpawnInv, BuilderTypeInv, Childs, TypeOK
<1> QED
  BY <1>1, SpawnInvHolds, PTL

\* BuilderRestored: spawn_with puts the builder together again, whatever the
\* hooks return, and only a panic leaves it empty.
THEOREM RestoredAlways == Spec => []BuilderRestored
<1>1. SpawnInv => BuilderRestored
  BY DEF SpawnInv, HeldInv, Program, BuilderRestored
<1> QED
  BY <1>1, SpawnInvHolds, PTL

\* UnwoundStartsNothing: a builder that a panic has emptied only ever runs the
\* placeholder, which there is no program for.
THEOREM UnwoundIsInert == Spec => UnwoundStartsNothing
<1>1. SpawnInv /\ [Next]_vars
      => [unwound /\ child'.state # "none" => child.state # "none"]_vars
  <2> SUFFICES ASSUME SpawnInv, Next, unwound, child'.state # "none"
               PROVE  child.state # "none"
    OBVIOUS
  <2> USE DEF SpawnInv
  <2>1. CASE UNCHANGED child
    BY <2>1
  <2>2. CASE BeginSpawn
    BY <2>2 DEF BeginSpawn, NoChild
  <2>3. CASE Spawner
    BY <2>3 DEF Spawner, Through, ExecOk, HeldInv, Spawning, Program
  <2>4. CASE WrapChildHook
    BY <2>4 DEF WrapChildHook, At, HeldInv, Started
  <2>5. CASE HookErr \/ HookPanic
    BY <2>5 DEF HookErr, HookPanic, DropChild
  <2>6. CASE IntoCommand \/ PreSpawnHook \/ PostSpawnHook \/ BeginWrapChild
             \/ SpawnOk \/ SpawnerErr
    BY <2>1, <2>6 DEF IntoCommand, PreSpawnHook, PostSpawnHook,
                      BeginWrapChild, SpawnOk, SpawnerErr
  <2>7. ASSUME NEW w \in Instances(platform), Wrap(w)
        PROVE  child.state # "none"
    BY <2>1, <2>7 DEF Wrap
  <2> QED
    BY BuilderStepKinds, <2>2, <2>3, <2>4, <2>5, <2>6, <2>7
<1> QED
  BY <1>1, SpawnInvHolds, PTL DEF Spec, UnwoundStartsNothing

\* GetWrapNeverPanics: get_wrap, asked by a hook, never finds a wrapper in the
\* core, and so never panics on one.
THEOREM HooksMeetNoPanic == Spec => GetWrapNeverPanics
<1>1. SpawnInv /\ [Next]_vars
      => [phase # "idle" /\ phase' = "idle" /\ outcome' = "panic"
          => Current.type = "User"]_vars
  <2> SUFFICES ASSUME SpawnInv, Next, phase # "idle", phase' = "idle",
                      outcome' = "panic"
               PROVE  Current.type = "User"
    OBVIOUS
  <2>1. HookPanic
    BY BuilderStepKinds
    DEF Wrap, IntoCommand, BeginSpawn, PreSpawnHook, Spawner, PostSpawnHook,
        BeginWrapChild, WrapChildHook, SpawnOk, HookErr, SpawnerErr, Finish,
        At, Through
  <2>2. Spawning
    BY <2>1 DEF HookPanic, At, Spawning
  <2>3. ~Panics(Current)
    BY <2>2, CoreIsEmpty DEF SpawnInv, Panics
  <2> QED
    BY <2>1, <2>3 DEF HookPanic
<1> QED
  BY <1>1, SpawnInvHolds, PTL DEF Spec, GetWrapNeverPanics

\* FailedSpawnLeavesNothing: wherever KillOnDrop stands among the wrappers, a
\* hook that fails or panics once there is a process has the process killed.
THEOREM FailuresAreClean == Spec => FailedSpawnLeavesNothing
<1>1. SpawnInv /\ [Next]_vars
      => [/\ phase # "idle" /\ phase' = "idle" /\ outcome' # "ok"
          /\ "KillOnDrop" \in Types(held.wrappers)
          => child'.state \in {"none", "killed"}]_vars
  <2> SUFFICES ASSUME SpawnInv, Next, phase # "idle", phase' = "idle",
                      outcome' # "ok",
                      "KillOnDrop" \in Types(held.wrappers)
               PROVE  child'.state \in {"none", "killed"}
    OBVIOUS
  <2> USE DEF SpawnInv
  <2>1. HookErr \/ HookPanic \/ SpawnerErr
    BY BuilderStepKinds
    DEF Wrap, IntoCommand, BeginSpawn, PreSpawnHook, Spawner, PostSpawnHook,
        BeginWrapChild, WrapChildHook, SpawnOk, Finish, At, Through
  <2>2. CASE phase = "pre_spawn"
    <3>1. child.state = "none"
      BY <2>2 DEF HeldInv, NoChild
    <3> QED
      BY <2>1, <3>1 DEF HookErr, HookPanic, SpawnerErr, DropChild
  <2>3. CASE phase # "pre_spawn"
    <3>1. Started /\ DropChild
      BY <2>1, <2>3 DEF HookErr, HookPanic, SpawnerErr, At, Through, Started
    <3>2. held.command.killOnDrop
      BY <3>1 DEF KillInv, Passed, Types
    <3> QED
      BY <3>1, <3>2 DEF DropChild, BuilderTypeInv, Childs
  <2> QED
    BY <2>2, <2>3
<1> QED
  BY <1>1, SpawnInvHolds, PTL DEF Spec, FailedSpawnLeavesNothing

\* NothingRunsOutsideJob: with CreationFlags first, or asking for a suspended
\* process itself, no process runs before it is in its job.
THEOREM JobHoldsAll == Spec => []NothingRunsOutsideJob
<1>1. SpawnInv => NothingRunsOutsideJob
  BY DEF SpawnInv, JobInv
<1> QED
  BY <1>1, SpawnInvHolds, PTL

\* SpawnedAsAsked: on Unix the order of the wrappers does not matter to the
\* group and the signal mask that the program begins with.
THEOREM OrderDoesNotMatter == Spec => []SpawnedAsAsked
<1>1. SpawnInv => SpawnedAsAsked
  BY DEF SpawnInv
<1> QED
  BY <1>1, SpawnInvHolds, PTL

\* LayersInOrder: however often the builder is used, and whatever failed
\* before, a child is wrapped once for each wrapper with a layer, in their
\* order.
THEOREM WrappedInOrder == Spec => []LayersInOrder
<1>1. SpawnInv => LayersInOrder
  BY DEF SpawnInv, OrderInv
<1> QED
  BY <1>1, SpawnInvHolds, PTL

\* OnlySessionsConflict: of all the wrappers only ProcessSession makes a
\* command that cannot be run, by itself only from the second spawn on.
THEOREM OnlySessionsFail == Spec => []OnlySessionsConflict
<1>1. SpawnInv => OnlySessionsConflict
  <2> SUFFICES ASSUME SpawnInv, Through("pre_spawn"), ~unwound,
                      ~ExecOk(held.command)
               PROVE  /\ "ProcessSession" \in Types(held.wrappers)
                      /\ \/ spawns > 1
                         \/ Instance("ProcessGroup", "own")
                              \in ToSet(held.wrappers)
    BY DEF OnlySessionsConflict
  <2> DEFINE c == held.command
  <2>1. /\ held.wrappers = added /\ c.program = "user" /\ Cmd = c
        /\ c.setsids \in Nat /\ spawns \in Nat
    BY MaxSpawnsAssumption
    DEF SpawnInv, HeldInv, Spawning, Program, Through, Cmd, BuilderTypeInv,
        Commands
  <2>2. c.setsids > IF c.group = "own" THEN 0 ELSE 1
    BY <2>1 DEF ExecOk
  <2>3. "ProcessSession" \in Types(held.wrappers)
    BY <2>1, <2>2 DEF SpawnInv, AskedInv, Types
  <2>4. CASE c.group = "own"
    <3>1. \E i \in DOMAIN added : added[i] = Instance("ProcessGroup", "own")
      BY <2>1, <2>4 DEF SpawnInv, AskedInv
    <3> QED
      BY <2>1, <2>3, <3>1 DEF ToSet
  <2>5. CASE c.group # "own"
    <3>1. c.setsids > 1 /\ c.setsids <= spawns
      BY <2>1, <2>2, <2>5 DEF SpawnInv, AskedInv
    <3> QED
      BY <2>1, <2>3, <3>1
  <2> QED
    BY <2>4, <2>5
<1> QED
  BY <1>1, SpawnInvHolds, PTL

=============================================================================
