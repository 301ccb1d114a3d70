----------------------------- MODULE CommandWrap -----------------------------
(***************************************************************************)
(* generic_wrap.rs: the CommandWrap builder and what spawn does with the   *)
(* hooks of its wrappers, the same macro for std and tokio; and the hooks  *)
(* of the wrappers the crate ships.                                        *)
(*                                                                         *)
(* While it spawns, spawn_with holds the builder's command and wrappers in *)
(* locals, and the builder itself is left with a placeholder and no        *)
(* wrapper; that empty builder is the `core` which the hooks consult.      *)
(***************************************************************************)
EXTENDS Naturals, Sequences, FiniteSets, SequencesExt

CONSTANTS
  Platforms,  \* "unix" and "windows", or one of them
  UserFlags,  \* the sets of creation flags CreationFlags may be made with
  MaxSpawns   \* how often the same builder is spawned, to bound the runs

ASSUME MaxSpawnsAssumption == MaxSpawns \in Nat
ASSUME PlatformsAssumption == Platforms \subseteq {"unix", "windows"}

\* A wrapper instance.  arg is the group of a ProcessGroup ("own" for
\* leader(), "other" for attach_to) or the flags of a CreationFlags.  "User"
\* stands for a wrapper of the crate's user.
Instance(type, arg) == [type |-> type, arg |-> arg]

Instances(p) ==
  {Instance("KillOnDrop", "-"), Instance("User", "-")} \cup
  IF p = "unix"
  THEN {Instance("ProcessGroup", "own"), Instance("ProcessGroup", "other"),
        Instance("ProcessSession", "-"), Instance("ResetSigmask", "-")}
  ELSE {Instance("JobObject", "-")} \cup
       {Instance("CreationFlags", f) : f \in UserFlags}

VARIABLES
  platform,   \* what the crate is built for
  command,    \* CommandWrap.command
  wrappers,   \* CommandWrap.wrappers, in insertion order
  phase,      \* "idle", or the loop of spawn_inner being run
  next,       \* the index of the next wrapper in that loop
  held,       \* the locals `command` and `wrappers` of spawn_with
  child,      \* the process started by the current or last spawn
  outcome,    \* what the last spawn returned, or that it panicked
  unwound,    \* a spawn has panicked
  added,      \* the wrappers added so far, as long as no spawn panicked
  spawns      \* how many spawns there have been

builder == <<platform, command, wrappers>>
past == <<unwound, added, spawns>>
vars == <<builder, phase, next, held, child, outcome, past>>

\* The program of a Command and what hooks set on it: the group to join, how
\* many setsid closures pre_exec holds and whether it has one that unblocks all
\* signals, the creation flags, kill_on_drop.
NewCommand == [program |-> "user", group |-> "inherit", setsids |-> 0,
               unblocks |-> FALSE, flags |-> {}, killOnDrop |-> FALSE]

\* Command::new(""), which spawn_with leaves in the builder.
Placeholder == [NewCommand EXCEPT !.program = "empty"]

\* state: of the process.  early: it ran before it was assigned to its job.
\* group, unblocked: its group and signal mask when the program began.
\* layers: the child wrappers around the Child, innermost first.
NoChild == [state |-> "none", early |-> FALSE, group |-> "inherit",
            unblocked |-> FALSE, layers |-> <<>>]

Types(ws) == {ws[i].type : i \in DOMAIN ws}

TypeOK ==
  /\ platform \in Platforms
  /\ {wrappers[i] : i \in DOMAIN wrappers} \subseteq Instances(platform)
  /\ phase \in {"idle", "pre_spawn", "post_spawn", "wrap_child", "consumed"}
  /\ next \in 1..(Len(held.wrappers) + 1)
  /\ child.state \in {"none", "running", "suspended", "killed"}
  /\ outcome \in {"none", "ok", "err", "panic"}
  /\ spawns \in 0..MaxSpawns

Init ==
  /\ platform \in Platforms
  /\ command = NewCommand
  /\ wrappers = <<>>
  /\ phase = "idle"
  /\ next = 1
  /\ held = [command |-> NewCommand, wrappers |-> <<>>]
  /\ child = NoChild
  /\ outcome = "none"
  /\ unwound = FALSE
  /\ added = <<>>
  /\ spawns = 0

-----------------------------------------------------------------------------
(* The builder. *)

\* Mutant: wrappers are kept in a list, not by type.
WrapAgain(w) ==
  /\ phase = "idle"
  /\ wrappers' = Append(wrappers, w)
  /\ added' = Append(added, w)
  /\ UNCHANGED <<platform, command, phase, next, held, child, outcome,
                 unwound, spawns>>

\* A wrapper of a type already there is given to its extend hook, which by
\* default drops it.
Wrap(w) ==
  /\ phase = "idle"
  /\ IF w.type \in Types(wrappers)
     THEN UNCHANGED <<wrappers, added>>
     ELSE /\ wrappers' = Append(wrappers, w)
          /\ added' = Append(added, w)
  /\ UNCHANGED <<platform, command, phase, next, held, child, outcome,
                 unwound, spawns>>

IntoCommand ==
  /\ phase = "idle"
  /\ phase' = "consumed"
  /\ UNCHANGED <<builder, next, held, child, outcome, past>>

\* core.get_wrap and core.has_wrap, in a hook: what the builder holds then.  It
\* never holds anything then; get_wrap would panic on a wrapper it found, as it
\* downcasts the Box.
CoreWrap(type) == {w \in ToSet(wrappers) : w.type = type}

-----------------------------------------------------------------------------
(* spawn_with *)

\* Mutant: the command is worked on in its place.
BeginSpawnInPlace ==
  /\ phase = "idle" /\ spawns < MaxSpawns
  /\ held' = [command |-> command, wrappers |-> wrappers]
  /\ wrappers' = <<>>
  /\ phase' = "pre_spawn" /\ next' = 1
  /\ child' = NoChild
  /\ spawns' = spawns + 1
  /\ UNCHANGED <<platform, command, outcome, unwound, added>>

\* Mutant: the hooks are given the builder as it is.
BeginSpawnCloned ==
  /\ phase = "idle" /\ spawns < MaxSpawns
  /\ held' = [command |-> command, wrappers |-> wrappers]
  /\ phase' = "pre_spawn" /\ next' = 1
  /\ child' = NoChild
  /\ spawns' = spawns + 1
  /\ UNCHANGED <<builder, outcome, unwound, added>>

\* mem::replace and mem::take.
BeginSpawn ==
  /\ phase = "idle" /\ spawns < MaxSpawns
  /\ held' = [command |-> command, wrappers |-> wrappers]
  /\ command' = Placeholder
  /\ wrappers' = <<>>
  /\ phase' = "pre_spawn" /\ next' = 1
  /\ child' = NoChild
  /\ spawns' = spawns + 1
  /\ UNCHANGED <<platform, outcome, unwound, added>>

\* Mutant: an error is returned before the builder is put together again.
FinishUnlessErr(result) ==
  /\ command' = IF result = "ok" THEN held.command ELSE command
  /\ wrappers' = IF result = "ok" THEN held.wrappers ELSE wrappers
  /\ phase' = "idle" /\ next' = 1
  /\ outcome' = result
  /\ held' = [command |-> NewCommand, wrappers |-> <<>>]
  /\ UNCHANGED <<platform, past>>

\* Mutant: the three loops share an index that is left as it is.
FinishMidLoop(result) ==
  /\ command' = held.command
  /\ wrappers' = held.wrappers
  /\ phase' = "idle"
  /\ outcome' = result
  /\ held' = [command |-> NewCommand, wrappers |-> <<>>]
  /\ UNCHANGED <<platform, next, past>>

\* spawn_inner returns, and the builder gets its command and wrappers back.
Finish(result) ==
  /\ command' = held.command
  /\ wrappers' = held.wrappers
  /\ phase' = "idle" /\ next' = 1
  /\ outcome' = result
  /\ held' = [command |-> NewCommand, wrappers |-> <<>>]
  /\ UNCHANGED <<platform, past>>

\* The Child is dropped with the error: it is killed only by kill_on_drop.
DropChild ==
  child' = IF held.command.killOnDrop /\ child.state # "none"
           THEN [child EXCEPT !.state = "killed"]
           ELSE child

At(p) == phase = p /\ next <= Len(held.wrappers)
Through(p) == phase = p /\ next = Len(held.wrappers) + 1
Current == held.wrappers[next]

(* The pre_spawn hooks. *)

JoinGroup(c, g) == [c EXCEPT !.group = g]

\* Mutant: the closures the command has are replaced.
MakeSessionOnly(c) == [c EXCEPT !.setsids = 1, !.unblocks = FALSE]

\* pre_exec adds a closure to those the command has.
MakeSession(c) == [c EXCEPT !.setsids = @ + 1]

UnblockSignals(c) == [c EXCEPT !.unblocks = TRUE]

\* creation_flags replaces the flags the command has.
SetFlags(c, flags) == [c EXCEPT !.flags = flags]

\* Mutant: only the flags the user asked for are passed on.
JobFlagsOfUser == UNION {w.arg : w \in CoreWrap("CreationFlags")}

\* The flags of JobObject: its own and those of the CreationFlags it finds.
JobFlags ==
  {"CREATE_SUSPENDED"}
    \cup UNION {w.arg : w \in CoreWrap("CreationFlags")}

\* Mutant: the command is left as it is.
SetKillOnDropNot(c) == c

SetKillOnDrop(c) == [c EXCEPT !.killOnDrop = TRUE]

\* pre_spawn of wrapper w on command c.
PreSpawn(w, c) ==
  CASE w.type = "ProcessGroup" -> JoinGroup(c, w.arg)
    [] w.type = "ProcessSession" -> MakeSession(c)
    [] w.type = "ResetSigmask" -> UnblockSignals(c)
    [] w.type = "CreationFlags" -> SetFlags(c, w.arg)
    [] w.type = "JobObject" -> SetFlags(c, JobFlags)
    [] w.type = "KillOnDrop" -> SetKillOnDrop(c)
    [] w.type = "User" -> c

\* What JobObject asks its core for would make get_wrap panic if it were there.
\* The .expect calls of the tokio wrap_childs, which panic over a child that a
\* hook of the user has reaped already, are not here: such a panic unwinds as
\* one of that hook does.
Panics(w) == w.type = "JobObject" /\ CoreWrap("CreationFlags") # {}

PreSpawnHook ==
  /\ At("pre_spawn") /\ ~Panics(Current)
  /\ held' = [held EXCEPT !.command = PreSpawn(Current, @)]
  /\ next' = next + 1
  /\ UNCHANGED <<builder, phase, child, outcome, past>>

\* fork, setpgid, the pre_exec closures, exec: setsid fails in a process that
\* leads a group already, and there is no program called "".
ExecOk(c) ==
  /\ c.program # "empty"
  /\ c.setsids <= IF c.group = "own" THEN 0 ELSE 1

Spawner ==
  /\ Through("pre_spawn")
  /\ ExecOk(held.command)
  /\ LET suspended == "CREATE_SUSPENDED" \in held.command.flags
     IN child' = [state |-> IF suspended THEN "suspended" ELSE "running",
                  early |-> ~suspended,
                  group |-> IF held.command.setsids > 0 THEN "own"
                            ELSE held.command.group,
                  unblocked |-> held.command.unblocks, layers |-> <<>>]
  /\ phase' = "post_spawn" /\ next' = 1
  /\ UNCHANGED <<builder, held, outcome, past>>

\* No hook but a user's does anything.
PostSpawnHook ==
  /\ At("post_spawn")
  /\ next' = next + 1
  /\ UNCHANGED <<builder, phase, held, child, outcome, past>>

BeginWrapChild ==
  /\ Through("post_spawn")
  /\ phase' = "wrap_child" /\ next' = 1
  /\ UNCHANGED <<builder, held, child, outcome, past>>

\* JobObject resumes the process it has assigned to its job, unless the user
\* asked for it to be suspended.
KeepSuspended ==
  \E w \in CoreWrap("CreationFlags") : "CREATE_SUSPENDED" \in w.arg

\* Mutant: the new layer goes next to the Child.
AddLayerInside(layers, layer) == <<layer>> \o layers

AddLayer(layers, layer) == Append(layers, layer)

\* wrap_child of wrapper w on child c.
WrapChild(w, c) ==
  CASE w.type \in {"ProcessGroup", "ProcessSession"} ->
         [c EXCEPT !.layers = AddLayer(@, "ProcessGroupChild")]
    [] w.type = "JobObject" ->
         [c EXCEPT !.layers = AddLayer(@, "JobObjectChild"),
                   !.state = IF KeepSuspended THEN @ ELSE "running"]
    [] w.type = "User" -> [c EXCEPT !.layers = AddLayer(@, "UserChild")]
    [] OTHER -> c

WrapChildHook ==
  /\ At("wrap_child") /\ ~Panics(Current)
  /\ child' = WrapChild(Current, child)
  /\ next' = next + 1
  /\ UNCHANGED <<builder, phase, held, outcome, past>>

SpawnOk ==
  /\ Through("wrap_child")
  /\ Finish("ok")
  /\ UNCHANGED child

\* A hook returns an error: any hook of the user's, or JobObject's wrap_child
\* when a call to Windows fails.
HookErr ==
  /\ \/ \E p \in {"pre_spawn", "post_spawn", "wrap_child"} :
          At(p) /\ Current.type = "User"
     \/ At("wrap_child") /\ Current.type = "JobObject"
  /\ DropChild
  /\ Finish("err")

\* A hook panics, any of the user's or one that get_wrap makes panic: the stack
\* is unwound through spawn_with, the Child and the locals of spawn_with are
\* dropped, and nothing restores the builder.
HookPanic ==
  /\ \E p \in {"pre_spawn", "post_spawn", "wrap_child"} :
       /\ At(p)
       /\ Current.type = "User" \/ (p # "post_spawn" /\ Panics(Current))
  /\ DropChild
  /\ phase' = "idle" /\ next' = 1
  /\ outcome' = "panic"
  /\ held' = [command |-> NewCommand, wrappers |-> <<>>]
  /\ unwound' = TRUE /\ added' = <<>>
  /\ UNCHANGED <<builder, spawns>>

\* The command cannot be run, because of setsid or for any other reason.
SpawnerErr ==
  /\ Through("pre_spawn")
  /\ Finish("err")
  /\ UNCHANGED child

Next ==
  \/ \E w \in Instances(platform) : Wrap(w)
  \/ IntoCommand
  \/ BeginSpawn \/ PreSpawnHook \/ Spawner \/ PostSpawnHook
  \/ BeginWrapChild \/ WrapChildHook \/ SpawnOk
  \/ HookErr \/ HookPanic \/ SpawnerErr

Spec == Init /\ [][Next]_vars

-----------------------------------------------------------------------------
(* Properties *)

\* However the last spawn ended, but for a panic, the builder holds every
\* wrapper added to it and its own command again, so that it can be used again
\* ("poor man's try..finally").
BuilderRestored ==
  phase = "idle" =>
    wrappers = added /\ command.program = IF unwound THEN "empty" ELSE "user"

\* A builder that a panic has left without its wrappers starts nothing more:
\* the user's program never runs without the group, session or job it was to be
\* in.
UnwoundStartsNothing ==
  [][unwound /\ child'.state # "none" => child.state # "none"]_vars

\* No hook of the crate's own wrappers meets the panic of get_wrap, which is
\* for any wrapper it finds: while hooks run there is none to find.
GetWrapNeverPanics ==
  [][phase # "idle" /\ phase' = "idle" /\ outcome' = "panic"
     => Current.type = "User"]_vars

\* On Unix the program begins in the group or session and with the signal mask
\* that the wrappers ask for, in whatever order they were added and however
\* often the builder was used.
SpawnedAsAsked ==
  platform = "unix" /\ phase \in {"post_spawn", "wrap_child"} =>
    /\ child.unblocked <=> "ResetSigmask" \in Types(held.wrappers)
    /\ child.group = IF "ProcessSession" \in Types(held.wrappers) THEN "own"
                     ELSE IF "ProcessGroup" \in Types(held.wrappers)
                     THEN (CHOOSE w \in ToSet(held.wrappers) :
                             w.type = "ProcessGroup").arg
                     ELSE "inherit"

\* spawn "stacks all the wrap_childs" (generic_wrap.rs, spawn): over the child
\* there is one layer for each wrapper passed that makes one, in the order of
\* the wrappers, the one to be "downcast to", which is "of the last applied
\* wrapper", outermost.  So .wrap(Foo).wrap(Bar) gives Bar(Foo(Child)); the
\* comment on CommandWrapper::wrap_child names the two the other way round.
LayerOf == [ProcessGroup |-> "ProcessGroupChild",
            ProcessSession |-> "ProcessGroupChild",
            JobObject |-> "JobObjectChild", User |-> "UserChild"]

\* Those of the wrappers ws up to the n-th that have one.
Layering(ws, n) ==
  {i \in DOMAIN ws : i <= n /\ ws[i].type \in DOMAIN LayerOf}

LayersInOrder ==
  phase = "wrap_child" =>
    LET ws == held.wrappers
    IN /\ Len(child.layers) = Cardinality(Layering(ws, next - 1))
       /\ \A i \in Layering(ws, next - 1) :
            child.layers[Cardinality(Layering(ws, i))] = LayerOf[ws[i].type]

\* A process to be put in a job runs nothing before it is in it, if, as the
\* documentation asks, CreationFlags comes first or includes CREATE_SUSPENDED.
FlagsOrderOk(ws) ==
  \A i, j \in DOMAIN ws :
    ws[i].type = "CreationFlags" /\ ws[j].type = "JobObject" =>
      i < j \/ "CREATE_SUSPENDED" \in ws[i].arg

NothingRunsOutsideJob ==
  /\ phase \in {"post_spawn", "wrap_child"}
  /\ "JobObject" \in Types(held.wrappers) /\ FlagsOrderOk(held.wrappers)
  => ~child.early

\* With KillOnDrop, wherever it stands among the wrappers, a spawn that fails
\* or panics leaves no process behind, even one it had started already.
FailedSpawnLeavesNothing ==
  [][/\ phase # "idle" /\ phase' = "idle" /\ outcome' # "ok"
     /\ "KillOnDrop" \in Types(held.wrappers)
     => child'.state \in {"none", "killed"}]_vars

\* Hooks can make a command that cannot be run only through ProcessSession:
\* with ProcessGroup::leader() from the first spawn on, and by itself from the
\* second on, since the setsid closure of the first is still on the command.
OnlySessionsConflict ==
  Through("pre_spawn") /\ ~unwound /\ ~ExecOk(held.command) =>
    /\ "ProcessSession" \in Types(held.wrappers)
    /\ spawns > 1 \/ Instance("ProcessGroup", "own") \in ToSet(held.wrappers)

\* JobObject "will either resume the process after setting up, or leave it
\* suspended if CREATE_SUSPENDED was explicitly set" (lib.rs).
AsksSuspended(ws) ==
  \E i \in DOMAIN ws :
    ws[i].type = "CreationFlags" /\ "CREATE_SUSPENDED" \in ws[i].arg

SuspendedAsAsked ==
  [][/\ phase # "idle" /\ phase' = "idle" /\ outcome' = "ok"
     /\ AsksSuspended(held.wrappers)
     => child'.state = "suspended"]_vars

=============================================================================
