# process-wrap in TLA+

A verification development of the `process-wrap` crate: modules that model its
command builder, its child handles and the calls they make to the operating
system, TLC configurations that check them on small instances, and proofs
checked by TLAPS. Paths below are relative to the repository.

## 1. The system

`process-wrap` lets a `Command` be composed with *wrappers*. Each wrapper has
hooks that run while the command is spawned, and may put a layer of its own
around the `Child`. The crate has a `std` and a `tokio` side, made from one
macro and two sets of wrappers.

| component | source | state | operations |
|---|---|---|---|
| builder | `src/generic_wrap.rs` | command, wrappers by type in insertion order | `wrap`, `spawn`, `spawn_with`, `into_command`, `has_wrap`, `get_wrap` |
| wrapper hooks | `src/{std,tokio}/*.rs` | what each wrapper stores | `extend`, `pre_spawn`, `post_spawn`, `wrap_child` |
| child promise | `src/{std,tokio}/core.rs` | the layer underneath | `kill`, `start_kill`, `try_wait`, `wait`, `wait_with_output`, `signal`, the accessors of layers |
| `ProcessGroupChild` | `src/{std,tokio}/process_group.rs` | inner child, `exit_status`, `pgid` | the same, over `killpg` and `waitpid(-pgid)` |
| `JobObjectChild` | `src/{std,tokio}/job_object.rs`, `src/windows.rs` | inner child, `exit_status`, job and completion port | the same, over a job object and its port |
| shims | `creation_flags.rs`, `kill_on_drop.rs`, `process_session.rs`, `reset_sigmask.rs` | flags | `pre_spawn` |

How they interact:

- `spawn_with` calls the hooks of the wrappers in order and hands each the
  builder as `core`, through which one wrapper is to see another's data.
- Layers call each other through `inner`; `ProcessGroupChild::wait` first waits
  for the inner child, then reaps the rest of its group itself. Both know
  statuses: the handle's `exit_status` and the inner child's cache.
- Handles share the kernel's process table. `waitpid(-pgid)` can reap any child
  of the caller in the group, also one another handle was made for.
- The processes run, fork, leave the group, exit and are adopted between any two
  calls.

What is hard, and which properties are about it:

- *Two caches, two reapers*: `StatusIsTrue`, `NoStatusLost`, `AnswerIsStable`,
  `KeepsPromise`, `JobStatusIsTrue`, `JobKeepsPromise`.
- *Calls after the exit must give the status*: `LateCallsGetStatus`.
- *Waiting for a group, not a process*: `WaitReapsGroup`, `PlainWaitReapsGroup`,
  `PlainWaitOutlivesGroup`, `WaitOutlivesJob`.
- *Killing what forks meanwhile*: `KillReachesGroup`, `KillStopsJob`,
  `KillReturns`, `KillSettles`, `UnpolledKillReturns`.
- *Cancelled futures and background threads*: `OneDrainer`, `DrainerEnds`,
  `OneThread`, `ThreadLetGo`.
- *A failure or a panic in the middle of a spawn*: `BuilderRestored`,
  `FailedSpawnLeavesNothing`, `UnwoundStartsNothing`, `GetWrapNeverPanics`.
- *Order of wrappers, and a builder that is used again*: `LayersInOrder`,
  `NothingRunsOutsideJob`, `OnlySessionsConflict`, `SpawnedAsAsked`,
  `SuspendedAsAsked`.
- *Layers that pass calls on, skip one another or are taken apart, and pids kept
  after the process was reaped*: `StatusThroughLayers`, `CallsPassNoGroup`,
  `NoFreedPid`, `PlainUnwrapIsSafe`.
- *Pipes*: `OutputComplete`, `Returns`.

`PROJECT.json` lists every hazard at the line where it bites.

## 2. The modules

    UnixProcs            the kernel: processes, groups, waitpid, killpg   (external)
      ProcessGroup       std/process_group.rs
        ProcessGroupProofs
        TokioProcessGroup  tokio/process_group.rs
          TokioProcessGroupProofs  (extends ProcessGroupProofs too)
    ChildHandle          the promise of wait and try_wait, which ProcessGroup and
                         JobObject implement
    CommandWrap          generic_wrap.rs and the hooks of all shipped wrappers
      CommandWrapProofs
      Layers             the handle a spawn returns: its layers and what calls reach
        LayersProofs     (extends CommandWrapProofs and Recursion too)
    Recursion            lemmas about recursive functions of numbers
    JobObject            std/job_object.rs and windows.rs
      TokioJobObject     tokio/job_object.rs, beside the handle of std
        JobObjectProofs
    WaitWithOutput       wait_with_output and read2
      WaitWithOutputProofs

A module `MCx` instantiates `x` for TLC. Operators marked "Mutant" stand next to
the definition they are a faulty form of; nothing uses them in the modules as
they are, and with one put in place of its original TLC finds a property
violated. They show what each property would catch.

### UnixProcs

`state[p]` goes from unborn to running to zombie to reaped; `parent`, `group`
and `code` are what the kernel keeps; `doomed` has the processes with a SIGKILL
pending. `Exit` reparents children to init, which reaps them at once, or to the
caller if it is a *subreaper* (PID 1 of a container, or
`PR_SET_CHILD_SUBREAPER`). That matters: a caller that adopts nobody has only its
own children to wait for. `killpg` dooms the group in one step, as the kernel
holds off forks while it walks the group. Pids are not reused.

### ProcessGroup

A handle is named by its child's pid. One step is one system call:

| code | actions |
|---|---|
| `pre_spawn`, `wrap_child` | `SpawnOk`, `SpawnErr` |
| `start_kill`, `signal(SIGKILL)`, `kill` | `StartKill`, `Kill` |
| `wait` up to the inner wait | `WaitCall`, `InnerWaitCached`, `InnerWaitReap`, `InnerWaitErr` |
| `wait_imp(empty)` | `DrainReap`, `DrainDone`, `DrainInterrupted` |
| `try_wait` and `wait_imp(WNOHANG)` | `TryWaitCall`, `TryReap`, `TryBreak`, `TryContinue`, `TryInner*` |
| `inner_mut().wait()` | `RawWait` |
| drop, `into_inner` | `Release` |

The variables from `answer` on are history: what was returned and what had
happened when the call was made. The constants are choices of the caller:
`AttachTo`, `MayTryWait`, `Interruptible` (handlers without `SA_RESTART`) and
`RawAccess`. Signals other than SIGKILL change nothing the crate keeps.

`ChildHandle` is the abstract specification: a call answers with the child's
status, or "running" if it had not exited when the call was made, and a status
once given is given for ever. `KeepsPromise` says `ProcessGroup` implements it
under the mapping `exit <- code`, `late <- lateCall`; `JobKeepsPromise` says the
same of the handle of a job, whose one child is `Leader`.

### TokioProcessGroup

Extends `ProcessGroup` and reuses its actions for what is the same code. `wait`
is a future: `NextRound` is a round of `WNOHANG`, `StartDrainer` is
`spawn_blocking`, the `Drainer*` actions are the thread, `Join` is the second
await, `Cancel` drops the future at either. `Drop` kills the child with
`kill_on_drop`; `OrphanQueueReap` is tokio's queue.

### CommandWrap

`BeginSpawn` is `mem::replace` and `mem::take`, one action per iteration of each
of the three loops of `spawn_inner`, `Finish` puts the builder together again.
The hooks of the shipped wrappers are there by what they do to a command (group
to join, number of `setsid` closures, creation flags, `kill_on_drop`) and to the
child (layers, resumed or not). "User" is a wrapper of the crate's user, any hook
of which may fail or panic. Hooks consult `wrappers`, which is empty while a
spawn runs: this is the code's behaviour.

`HookPanic` unwinds: the locals of `spawn_with` are dropped and the builder stays
as `BeginSpawn` left it. `Panics` is `get_wrap`, which downcasts the box rather
than what is in it and so panics on a wrapper it finds; the other panics of the
crate's hooks are left out (section 5). `unblocks` is the closure
of `ResetSigmask`. The placeholder program is named "empty" for `""`, which no
system runs.

### Layers

Composes `CommandWrap` with the handle that a spawn returns: `child.layers` is
the stack its `wrap_child` hooks have built, a layer is named by its place and the
`Child` is 0. The recursive functions follow the code's calls from a layer to the
next: `Inner` (which skips one layer below a layer of the crate), `InnerChild`,
`Passthrough` (id and the pipes), `Sender` (`start_kill`, `signal`), `Waited` and
`Trier`. The actions are calls on the handle, on what `inner_mut` or
`inner_child_mut` give, `into_inner` and `into_inner_child`, and the exit of the
child. Here the child is the only process and a call is one step; the processes
of a group or job and the steps of a call are in the modules of one layer.
A caller drops a handle before it uses the builder again.

### JobObject

`CreateJob` to `Resume` are the system calls of `wrap_child`, `SetupErr` a
failure of any, with the handles that stay open. From `ResumeThread` on the
process runs, so that a failure later in `resume_threads` leaves it running.
`late`, `killed` and `polled` are history. The completion port is the
number of packets on it, because `wait_on_job` does not look at which it took.
Windows is assumed to post a packet when a process joins, when one exits and when
the last has exited, and to lose none.

### TokioJobObject

Extends `JobObject` and runs either side's handle (`side`). tokio's `wait` is a
future: `Poll` is one of the rounds of `wait_on_job(port, 0)`, `Block` is
`spawn_blocking`, `ThreadEnds` the thread, `Join` the second await, `Cancel` drops
the future at either. `TokioDrop` and `TokioSetupErr` drop tokio's `Child`, which
kills the child alone: `KillOnDrop` is looked for in the emptied builder and
never reaches the job. `IntoInner` closes the port and leaves the job open.
Windows lets a thread go that waits on a port when the port is closed.

### WaitWithOutput

The processes at the other end write byte by byte, block on a full pipe, fork,
close and exit; `mode` picks the Unix `read2`, the other one or tokio's
`try_join3`; `piped` which pipes there are. `poll` is followed by a try of both
pipes, as `revents()` is `Some` also when it is empty. `PollInterrupted` and
`WaitErr` are the failures of `poll` and of the wait for the child.

## 3. The runs

| run | bounds | shows |
|---|---|---|
| `group_leader` | one leader, two descendants | the promise of `wait`/`try_wait`, no lost status, `kill` complete and returning; `into_inner` after `wait` gives a `Child` that knows its status |
| `group_any_use` | two handles, one attached to the other's group, one descendant; subreaper, raw access, EINTR | statuses are right and stable whatever the caller does; the handle of a leader that only waits reaps its group |
| `tokio_group` | one leader, two descendants, two rounds, subreaper, kill on drop | rounds and thread together wait for the whole group of a leader; answers are right and stable, whatever is cancelled; one thread per handle, which ends; a handle that only waits drops no `Child` that believes in a reaped pid |
| `spawn` | both platforms, every sequence of wrappers, two spawns, a failure or panic anywhere, every call on the handle | the builder survives failures and is inert after a panic, layers are in order, order does not matter to group and mask; no group or job is passed by, and the status is there through any stack |
| `job_handle` | job of three, either side, two rounds, kill on drop | the promise of `wait`/`try_wait`; right codes, `kill` complete, and returning if nothing polled; one thread, which is let go |
| `output` | child and grandchild, pipes of one byte, two bytes each | all output is there, and the call returns |

Why the bounds are enough to meet the cases: one child and two more processes
give a leader, a member whose parent died and a member whose parent left the
group. Two handles give one that reaps what the other waits for. Two rounds
give a first and a last one. A pipe smaller than the output blocks its writer.
Two spawns are needed for what a first leaves on the command. The sequences of
wrappers in `spawn` hold each type once (`wrap` keeps one), so two groups can be
stacked (`ProcessGroup` and `ProcessSession`) with a user's layer below, between
or above them. The runs stop
where handles are dropped and processes dead, so deadlock is not checked; that
calls return is checked as liveness.

Fairness is assumed only of steps of a call in progress (a thread in a call, a
future that is polled when ready, the blocking pool), and of the delivery of a
SIGKILL. No caller has to make a call and no process has to exit by itself,
except in `WaitWithOutput`, where programs that end are the hypothesis of
`Returns`.

Six runs show a disagreement between code and documents:

| run | what happens |
|---|---|
| `group_subreaper_try_wait` | `try_wait` reaps the leader, then sees another member alive, and drops the leader's status; later calls fail with ECHILD |
| `group_attached` | the handle of an attached child takes the child's pid for its group; `try_wait` answers `None` after the exit, and `wait` reaps nothing of the real group |
| `group_undrained` | after a `try_wait` gave the status, `wait` reaps nothing |
| `spawn_flags` | `JobObject` does not see `CreationFlags` and resumes a process that was to stay suspended |
| `job_early` | `wait` ends at the packet for the child's own joining, with the job still running |
| `job_hang` | `try_wait` used up the packets, and `wait` blocks for ever on a job that is over |

## 4. The proofs

Seven modules hold theorems, for every value of the constants. Each follows one
scheme: a lemma `xStep` shows that a part of the inductive invariant is kept, one
step per action; a theorem combines the parts it needs by temporal logic. The
invariants stand at the end of the module they are about, and TLC has checked
each on the instances of the runs and with the constants varied.

Every invariant and every action property of the passing runs is proved, most of
them for every use. The others are under these conditions on the caller, defined
in `ProcessGroup`:

- `Leaders`: every child leads its own group;
- `KeepsStatus`: the caller never calls `try_wait`, or it adopts no orphans;
- `AsksHandle`: the caller never calls `try_wait`, or it does not wait on the
  inner `Child`;
- `NeverInterrupted`: the caller adopts no orphans, or no signal handler of its
  own interrupts `waitpid`.

None can be dropped where it is asked for: TLC finds the property violated on
these instances when the constants allow it. For two that is a run:
`group_attached` violates `LateCallsGetStatus` without `Leaders`, and
`group_subreaper_try_wait` without `KeepsStatus`. Without `AsksHandle` a
`try_wait` after a wait on the inner `Child` gets ECHILD from `wait_imp`
(`TryBreak`) and answers "still running". Without `NeverInterrupted` a `wait`
that has the status fails with EINTR while it drains the group of adopted
orphans.

### ProcessGroupProofs

For every number of processes and handles:

| theorem | property | for |
|---|---|---|
| `TypeCorrect` | `TypeOK` | every use |
| `StatusCorrect` | `StatusIsTrue` | every use |
| `AnswersStable` | `AnswerIsStable` | every use |
| `PlainWaitReaps` | `PlainWaitReapsGroup` | every use; says nothing of attached children |
| `KillIsComplete` | `KillReachesGroup` | `Leaders` |
| `UnwrapSafe` | `PlainUnwrapIsSafe` | `Leaders` |
| `NothingLost` | `NoStatusLost` | `Leaders`, `KeepsStatus` |
| `LateCallsAnswered` | `LateCallsGetStatus` | all four |
| `PromiseKept` | `KeepsPromise` | all four |

"Every use" has attached children, raw access, EINTR and a caller that adopts
orphans.

The argument. `TypeOK` is not inductive, because `DrainDone` returns
`exitStatus` and `TryReap` copies `code`; `TypeInv` adds that only exited
processes have a code and that a draining handle has a status. `StatusInv` adds
that *each* place a status is kept in (`innerStatus`, `exitStatus`,
`parentStatus`) holds the child's, and that a call past its first test found no
cached status: this makes the answer stable. `LeadersInv` says that a child is
in its own group and the caller's, so `waitpid(-pgid)` reaps no other handle's
child (lemma `OwnOnly`); and that a caller that adopts nobody has no children
but those of the handles, so a status dropped by `TryContinue` is `None`.
`KnownInv` says, besides, where it is kept: without `try_wait` whatever a handle
reaps was reaped through the inner `Child`, which knows; without raw access
whatever the inner `Child` knows the handle does, so that a `wait_imp` that finds
nobody has just reaped the child itself (lemma `ReapedIsKnown`). So a caller that
only waits keeps the status even in a subreaper and with raw access.
`NoStatusLost` is about handles that are not dropped: a dropped one keeps
nothing.

`PlainInv` says that without `try_wait` and failed waits a status comes only with
a wait that goes on to drain the group; so the first wait that returns cannot be
one answered from the cache, and ends at `DrainDone`, where nothing of the group
`pgid` is left to reap. That this is the group the child is in needs
`OwnGroupInv`: a child that is not attached leads a group, and a leader cannot
leave it. For an attached child `pgid` is a group that does not exist, and its
`wait` answers Ok with members of the real group left: the property is limited to
leaders for that reason. `UnwrapInv` says that a child in its own group is reaped only by
its own handle, and by a plain one only through the inner `Child`. The refinement
maps a step of a handle to a call, a reply or a stutter, and a child's `Exit` to
`ChildExits`.

### TokioProcessGroupProofs

| theorem | property | for |
|---|---|---|
| `TokioTypeCorrect` | `TokioTypeOK` | every use |
| `TokioStatusCorrect` | `StatusIsTrue` | every use |
| `TokioAnswersStable` | `AnswerIsStable` | every use |
| `DrainersBounded` | `OneDrainer` | every use |
| `TokioKillIsComplete` | `KillReachesGroup` | `Leaders` |
| `TokioUnwrapSafe` | `PlainUnwrapIsSafe` | `Leaders` |
| `TokioNothingLost` | `NoStatusLost` | `Leaders`, `KeepsStatus` |
| `TokioPromiseKept` | `KeepsPromise` | all four |
| `WaitOutlivesGroup` | `PlainWaitOutlivesGroup` | `Subreaper`, `~MayLeave`; says nothing of attached children |

The step lemmas of the std side are stated over `BaseInv`, the types that both
sides have. Lemma `SharedSteps` says that a step of the tokio side is a step of
the std side (`NextRound` a stutter) or one of eight new kinds: start of the
thread, its two steps and its failure, the join, a cancellation, a drop, the
orphan queue. So each lemma here has the new cases only. Waits on the inner `Child`
are not modelled on the tokio side, so `AsksHandle` is no condition there but on
the constants (take `RawAccess = FALSE`).

`DrainerInv` is why one thread is enough: a thread is started only by the wait
that has just cached the status, and any later wait is answered from the cache.
`NoFailureInv` is the tokio side of `NeverInterrupted`: a thread is started with
a status cached, so that a caller that adopts nobody has nothing to block on.
For the refinement a cancelled wait is a call that gets no reply, and the thread
that goes on without it a stutter.

`WaitOutlivesGroup` is the one theorem about the whole tree of processes. The
wait knows only that the *caller* has no child left in the group. `KinInv`: a
process whose parent is not the caller is in the group of a parent that runs,
and following parents never leads round in a circle (every set of processes has
one whose parent is outside it). So were the group not empty, one of its members
would have its parent outside the group: that parent is the caller, and there
was a child to wait for (`NoneToWaitForNoneLeft`). An empty group stays so, as
only a member can fork into it (`EmptyStaysEmpty`), which carries what the thread
found (`EmptyInv`) to the second await. If a process may leave the group, a child
of it may go on where no wait looks, so `~MayLeave` is needed; without
`Subreaper` init adopts what the leader leaves behind.

### JobObjectProofs

About `TokioSpec`, so for either side's handle and any number of processes and
rounds, and for every use: `JobTypeCorrect`, `JobStatusCorrect`
(`JobStatusIsTrue`), `JobKillIsComplete` (`KillStopsJob`), `JobThreadsBounded`
(`OneThread`), `JobPromiseKept` (`JobKeepsPromise`). The set of processes is
finite (`JobAssumption`), as packets are counted: `PacketBound` bounds them by the
processes that joined and died, which gives `TypeOK` its range. `SetupInv` is
needed since nothing is true of the port until the child is assigned, and the
child is alone in its job until it is resumed. `ThreadInv`: only the wait that
caches the status gets to the port. `LateInv` says that a child that had exited
when the last call was made is still dead, so that `try_wait` does not then answer
"running". The refinement needs none of the conditions of the group, because the
exit code of a Windows process can be read at any time: the job handle's fault is
in what it waits for, not in what it answers.

What a wait without a `try_wait` before it does is what `job_early` shows: the
packet of the child's own joining is still on the port and ends it. That it
thus never gets to the blocking thread is no virtue, and no property says it.

### CommandWrapProofs

For any sequence of wrappers, any creation flags, any number of spawns:
`BuilderTypeCorrect` (`TypeOK`), `RestoredAlways` (`BuilderRestored`),
`UnwoundIsInert` (`UnwoundStartsNothing`), `HooksMeetNoPanic`
(`GetWrapNeverPanics`), `FailuresAreClean` (`FailedSpawnLeavesNothing`),
`JobHoldsAll` (`NothingRunsOutsideJob`), `OrderDoesNotMatter`
(`SpawnedAsAsked`), `WrappedInOrder` (`LayersInOrder`) and `OnlySessionsFail`
(`OnlySessionsConflict`). All rest on
`HeldInv`: while a spawn runs, the builder is empty and its command and wrappers
are in the locals; thus the hooks' core is empty (`CoreIsEmpty`). `KillInv`,
`JobInv` and `AskedInv` say what holds once a hook has been run, whatever the
hooks after it do: `AskedInv` has both directions, that all a command holds was
asked by a wrapper, and that what the wrappers passed so far ask is there; its
count, that there are at most as many `setsid` closures as spawns and fewer until
the session's hook has run, is the one `OnlySessionsConflict` needs. It uses that
a type of wrapper occurs once (`UniqueTypes`).

`LayersInOrder` says at which place of the stack the layer of the i-th wrapper
is: at the number of wrappers up to i that make a layer. So it is about
cardinalities and not about a filtered sequence, on which no induction could be
done here; `OrderInv` adds that no layer is there before the first `wrap_child`.

### LayersProofs and Recursion

For any stack of layers that a builder makes and any sequence of calls:
`CallsReachAll` (`CallsPassNoGroup`), `StatusIsThere` (`StatusThroughLayers`) and
`FreedPidIsSafe` (`NoFreedPid`). `BuilderUnderLayers` says that the composition
refines `CommandWrap`, whose invariant is part of this one's: that a child with a
group's layer is in a group at all (`GroupInv`) rests on `SpawnedAsAsked`.

`Layers` follows the calls from layer to layer with recursive functions of the
layer's number. TLAPS has no induction rule these provers could use, and takes a
recursive definition to be a solution of its equation only if there is one.
`Recursion` supplies both. `LeastNumber` (a set of numbers that is not empty has
a least one, from the well-foundedness of `<`) gives induction over sets, `UpTo`.
`RecursionExists` shows that an equation `f[n] = IF n \in B THEN C[n] ELSE
G[n][f[J[n]]]` with `J[n] < n` has a solution, one number at a time. With these
`InnerIs`, `ChildIsFound`, `SenderIs`, `WaitedIs` and `TrierIs` say what each
function is for every stack: a kill goes to the outermost layer of the crate's, a
wait to all of them down to the first that knows the status, a `try_wait` to the
outermost group. `HandleInv` is the rest of the argument: as long as no call is
made past it, the handle is the whole stack, and the group whose `try_wait` it
has is one that knows the status once the child was reaped.

### WaitWithOutputProofs

For any processes, capacity and amount written, in each of the three forms:
`OutputTypeCorrect` (`TypeOK`) and `NothingUnread` (`OutputComplete`).
`BytesKept` says that what was written is in the pipe or was read. `WritersInv`
says that a process in the middle of a write has the pipe open and room left in
its budget, so that no byte appears on a pipe that was found closed. `EndedInv`
is the point: each place the call can be at is past the end of certain pipes
(`DoneWith`), and an end of file, once read, is for ever, as a pipe nobody has
open can be handed to nobody.

### Only model-checked

Liveness under fairness, and `ENABLED`, are out of this prover's reach:
`KillReturns`, `KillSettles`, `DrainerEnds`, `UnpolledKillReturns`,
`ThreadLetGo` and `Returns` are checked by TLC alone. So are the conditions under
which the six runs above find a violation.

## 5. Not modelled

- Reuse of pids, of process groups' IDs and of Windows handles. `Layers` and
  `PlainUnwrapIsSafe` tell where a pid is used or kept after it was reaped; what
  the new owner would meet is left out. std's bare `Child` is not guarded against
  it, and neither is `killpg` on a group whose members were all reaped.
- Three disagreements between code and documents are in the model without a run of
  their own:
  - `inner`, `inner_mut` and `into_inner` of the crate's layers skip a layer, where
    `std/core.rs:52-63` says "the wrapped child" (`Inner` has it);
  - `KillOnDrop` never reaches the job's limits, for the reason shown by
    `spawn_flags`, so that members of a job survive a dropped handle (`TokioDrop`
    has it);
  - `generic_wrap.rs:230-232` and `lib.rs:147-148` say that
    `.wrap(Foo).wrap(Bar)` gives `Foo(Bar(Child))`, with the first wrapper
    outermost. The loop at `generic_wrap.rs:103-107` gives `Bar(Foo(Child))`, and
    `LayersInOrder` states what the code does: the last wrapper is outermost.
- The `.expect` panics of the tokio hooks, on a child that has no pid any more or
  one that does not fit (`tokio/process_group.rs:98-105`,
  `process_session.rs:41-47`, `job_object.rs:76-81`). `GetWrapNeverPanics` is about
  `get_wrap` alone; what a panic of a hook does is checked with hooks of the user's.
- In `Layers`: the steps inside a call, descendants, and user layers that do not
  pass calls on. Nested layers and descendants are thus not checked together.
- `get_wrap` called by a user outside a spawn; a user's own `extend`;
  `try_clone`, which gives nothing.
- Errors of Windows and of `read` other than those named; stops and continues;
  signals other than SIGKILL, as no state of the crate depends on them.
- Tracing, documentation, features, tests: no state of the crate.

## 6. Plan

Done: every component with state is modelled, over all operations that change
it, and every safety and action property of the passing runs is a theorem. What
is left would add depth:

1. Two nested groups over processes that fork: `Layers` with the steps of
   `ProcessGroup`.
2. A weaker form of `WaitOutlivesGroup` for a caller that adopts nobody: what is
   left of the group has lost every ancestor of the caller's.
