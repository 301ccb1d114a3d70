--------------------------- MODULE WaitWithOutput ----------------------------
(***************************************************************************)
(* wait_with_output of std/core.rs and tokio/core.rs and read2 of          *)
(* std/core.rs: the output of a child is read to the end of its pipes      *)
(* while the child, and whoever inherited the pipes from it, write to      *)
(* them; then the child is waited for.                                     *)
(*                                                                         *)
(* A pipe is the number of bytes in it.  A read takes all there is.        *)
(***************************************************************************)
EXTENDS Naturals

CONSTANTS
  Procs,    \* the processes that may hold the write end of a pipe
  Child,    \* the one that was spawned
  Modes,    \* "unix" and "other" of std/core.rs, and "tokio"
  PipeSize, \* how many bytes a pipe holds
  MaxBytes  \* how many bytes are written to each pipe, to bound the runs

ASSUME OutputAssumption ==
  /\ Child \in Procs
  /\ Modes \subseteq {"unix", "other", "tokio"}
  /\ PipeSize \in Nat \ {0} /\ MaxBytes \in Nat

Streams == {"out", "err"}
Other(s) == IF s = "out" THEN "err" ELSE "out"

VARIABLES
  mode,       \* which implementation it is
  piped,      \* which of the child's outputs are pipes
  alive,      \* the processes that run; the rest are not born or have exited
  exited,     \* those that have exited
  needsEof,   \* the child does not exit before its stdin ends
  stdinOpen,  \* the caller holds the child's stdin
  writers,    \* per pipe, the processes that have its write end open
  wants,      \* per process, the pipe it is writing to, or "none"
  written,    \* per pipe, how many bytes were written to it
  buffered,   \* per pipe, how many bytes are in it
  collected,  \* per pipe, the length of the Vec read into
  reading,    \* the pipes tokio's futures still read
  pc          \* where the call is

procVars == <<alive, exited, writers, wants>>
vars == <<mode, piped, procVars, needsEof, stdinOpen, written, buffered,
          collected, reading, pc>>

TypeOK ==
  /\ mode \in Modes /\ piped \subseteq Streams /\ reading \subseteq piped
  /\ alive \subseteq Procs /\ exited \subseteq Procs \ alive
  /\ needsEof \in BOOLEAN /\ stdinOpen \in BOOLEAN
  /\ writers \in [Streams -> SUBSET alive]
  /\ wants \in [Procs -> Streams \cup {"none"}]
  /\ written \in [Streams -> 0..MaxBytes]
  /\ buffered \in [Streams -> 0..PipeSize]
  /\ collected \in [Streams -> 0..MaxBytes]
  /\ pc \in {"start", "poll", "try_out", "try_err", "first_out", "rest_out",
             "rest_err", "join", "wait", "done", "failed", "panicked"}

Init ==
  /\ mode \in Modes
  /\ piped \in SUBSET Streams
  /\ alive = {Child} /\ exited = {}
  /\ needsEof \in BOOLEAN
  /\ stdinOpen = TRUE
  /\ writers = [s \in Streams |-> IF s \in piped THEN {Child} ELSE {}]
  /\ wants = [p \in Procs |-> "none"]
  /\ written = [s \in Streams |-> 0]
  /\ buffered = [s \in Streams |-> 0]
  /\ collected = [s \in Streams |-> 0]
  /\ reading = {}
  /\ pc = "start"

-----------------------------------------------------------------------------
(* The processes at the other end. *)

Fork(p, q) ==
  /\ p \in alive /\ wants[p] = "none"
  /\ q \notin alive \cup exited
  /\ alive' = alive \cup {q}
  /\ writers' = [s \in Streams |-> IF p \in writers[s] THEN writers[s] \cup {q}
                                   ELSE writers[s]]
  /\ UNCHANGED <<mode, piped, exited, wants, needsEof, stdinOpen, written,
                 buffered, collected, reading, pc>>

Pending(s) == \E p \in Procs : wants[p] = s

\* p writes a byte; it does nothing else before there is room for it.
BeginWrite(p, s) ==
  /\ p \in writers[s] /\ wants[p] = "none"
  /\ written[s] < MaxBytes /\ ~Pending(s)
  /\ wants' = [wants EXCEPT ![p] = s]
  /\ UNCHANGED <<mode, piped, alive, exited, writers, needsEof, stdinOpen,
                 written, buffered, collected, reading, pc>>

Write(p, s) ==
  /\ wants[p] = s /\ buffered[s] < PipeSize
  /\ wants' = [wants EXCEPT ![p] = "none"]
  /\ written' = [written EXCEPT ![s] = @ + 1]
  /\ buffered' = [buffered EXCEPT ![s] = @ + 1]
  /\ UNCHANGED <<mode, piped, alive, exited, writers, needsEof, stdinOpen,
                 collected, reading, pc>>

Close(p, s) ==
  /\ p \in writers[s] /\ wants[p] = "none"
  /\ writers' = [writers EXCEPT ![s] = @ \ {p}]
  /\ UNCHANGED <<mode, piped, alive, exited, wants, needsEof, stdinOpen,
                 written, buffered, collected, reading, pc>>

Exit(p) ==
  /\ p \in alive /\ wants[p] = "none"
  /\ p = Child /\ needsEof => ~stdinOpen
  /\ alive' = alive \ {p} /\ exited' = exited \cup {p}
  /\ writers' = [s \in Streams |-> writers[s] \ {p}]
  /\ UNCHANGED <<mode, piped, wants, needsEof, stdinOpen, written, buffered,
                 collected, reading, pc>>

-----------------------------------------------------------------------------
(* The call. *)

\* Everything but the call's own variables.
Others == <<mode, piped, procVars, needsEof, written>>

EndOfFile(s) == buffered[s] = 0 /\ writers[s] = {}
WouldBlock(s) == buffered[s] = 0 /\ writers[s] # {}
Readable(s) == ~WouldBlock(s)

Rest(s) == IF s = "out" THEN "rest_out" ELSE "rest_err"

\* Which pipes there are says how they are read.
FirstStage ==
  CASE mode = "tokio" -> "join"
    [] mode # "tokio" /\ piped = {} -> "wait"
    [] mode # "tokio" /\ piped = {"out"} -> "rest_out"
    [] mode # "tokio" /\ piped = {"err"} -> "rest_err"
    [] mode = "unix" /\ piped = Streams -> "poll"
    [] mode = "other" /\ piped = Streams -> "first_out"

\* Mutant: stdin is dropped with the rest of the handle, not at first.
StartWithStdin ==
  /\ pc = "start"
  /\ pc' = FirstStage
  /\ reading' = IF mode = "tokio" THEN piped ELSE {}
  /\ UNCHANGED <<Others, stdinOpen, buffered, collected>>

\* Mutant: the futures of tokio read pipes that are not there.
StartReadsAll ==
  /\ pc = "start"
  /\ stdinOpen' = FALSE
  /\ pc' = FirstStage
  /\ reading' = IF mode = "tokio" THEN Streams ELSE {}
  /\ UNCHANGED <<Others, buffered, collected>>

\* stdin is dropped (by tokio's Child::wait there), and the pipes are taken.
Start ==
  /\ pc = "start"
  /\ stdinOpen' = FALSE
  /\ pc' = FirstStage
  /\ reading' = IF mode = "tokio" THEN piped ELSE {}
  /\ UNCHANGED <<Others, buffered, collected>>

\* One read(2), which finds something, of the read_to_end in progress.
ReadSome(s) ==
  /\ \/ s = "out" /\ pc \in {"try_out", "first_out", "rest_out"}
     \/ s = "err" /\ pc \in {"try_err", "rest_err"}
     \/ pc = "join" /\ s \in reading
  /\ buffered[s] > 0
  /\ collected' = [collected EXCEPT ![s] = @ + buffered[s]]
  /\ buffered' = [buffered EXCEPT ![s] = 0]
  /\ UNCHANGED <<Others, stdinOpen, reading, pc>>

\* read2 on unix: poll returns, and as revents() is some even when it is empty,
\* first stdout, then stderr are read until they would block.
Poll ==
  /\ pc = "poll" /\ \E s \in Streams : Readable(s)
  /\ pc' = "try_out"
  /\ UNCHANGED <<Others, stdinOpen, buffered, collected, reading>>

\* Any signal handler that runs makes poll fail with EINTR: Err, unwrapped.
PollInterrupted ==
  /\ pc = "poll"
  /\ pc' = "panicked"
  /\ UNCHANGED <<Others, stdinOpen, buffered, collected, reading>>

TryBlocks(s) ==
  /\ \/ s = "out" /\ pc = "try_out" /\ pc' = "try_err"
     \/ s = "err" /\ pc = "try_err" /\ pc' = "poll"
  /\ WouldBlock(s)
  /\ UNCHANGED <<Others, stdinOpen, buffered, collected, reading>>

\* Mutant: a read that would block is taken for the end of the pipe.
TryEndsEarly(s) ==
  /\ \/ s = "out" /\ pc = "try_out"
     \/ s = "err" /\ pc = "try_err"
  /\ buffered[s] = 0
  /\ pc' = Rest(Other(s))
  /\ UNCHANGED <<Others, stdinOpen, buffered, collected, reading>>

\* One pipe has ended: what is left of the other is read blocking.
TryEnds(s) ==
  /\ \/ s = "out" /\ pc = "try_out"
     \/ s = "err" /\ pc = "try_err"
  /\ EndOfFile(s)
  /\ pc' = Rest(Other(s))
  /\ UNCHANGED <<Others, stdinOpen, buffered, collected, reading>>

\* read2 elsewhere: stdout to its end, then stderr.
FirstEnds ==
  /\ pc = "first_out" /\ EndOfFile("out")
  /\ pc' = "rest_err"
  /\ UNCHANGED <<Others, stdinOpen, buffered, collected, reading>>

RestEnds(s) ==
  /\ pc = Rest(s) /\ EndOfFile(s)
  /\ pc' = "wait"
  /\ UNCHANGED <<Others, stdinOpen, buffered, collected, reading>>

\* tokio: a future that reads is done ...
JoinEnds(s) ==
  /\ pc = "join" /\ s \in reading /\ EndOfFile(s)
  /\ reading' = reading \ {s}
  /\ UNCHANGED <<Others, stdinOpen, buffered, collected, pc>>

\* ... and so is the one that waits.
JoinDone ==
  /\ pc = "join" /\ reading = {} /\ Child \in exited
  /\ pc' = "done"
  /\ UNCHANGED <<Others, stdinOpen, buffered, collected, reading>>

\* wait() of the handle.
Wait ==
  /\ pc = "wait" /\ Child \in exited
  /\ pc' = "done"
  /\ UNCHANGED <<Others, stdinOpen, buffered, collected, reading>>

\* The wait of the handle fails (and on tokio with it try_join3, whatever is
\* still to be read): what was collected is dropped with the error.
WaitErr ==
  /\ pc \in {"wait", "join"}
  /\ pc' = "failed"
  /\ UNCHANGED <<Others, stdinOpen, buffered, collected, reading>>

CallStep ==
  \/ Start \/ Poll \/ FirstEnds \/ JoinDone \/ Wait
  \/ \E s \in Streams :
       ReadSome(s) \/ TryBlocks(s) \/ TryEnds(s) \/ RestEnds(s) \/ JoinEnds(s)

Next ==
  \/ CallStep \/ PollInterrupted \/ WaitErr
  \/ \E p \in Procs :
       \/ \E q \in Procs : Fork(p, q)
       \/ \E s \in Streams : BeginWrite(p, s) \/ Write(p, s) \/ Close(p, s)
       \/ Exit(p)

\* The call goes on when it can, and the programs are ones that end: they
\* finish a write when there is room, and exit when they have nothing left to
\* write.
Fairness ==
  /\ WF_vars(CallStep)
  /\ \A p \in Procs :
       WF_vars(Exit(p)) /\ \A s \in Streams : WF_vars(Write(p, s))

Spec == Init /\ [][Next]_vars /\ Fairness

-----------------------------------------------------------------------------
(* Properties *)

\* The Output has everything that was ever written to the pipes, by whichever
\* process and in whatever order the two were written, read and closed, and the
\* child is gone.
OutputComplete ==
  pc = "done" =>
    /\ Child \in exited
    /\ \A s \in piped : writers[s] = {} /\ collected[s] = written[s]

\* With programs that end the call returns, however much they write and
\* whether or not they read stdin to its end; an error or a panic is a return
\* here, too.  The exception is documented: outside Unix two pipes are read
\* one after the other.
Returns ==
  ~(mode = "other" /\ piped = Streams)
    => <>(pc \in {"done", "failed", "panicked"})

-----------------------------------------------------------------------------
(* The inductive invariant. *)

\* Every byte written is in the pipe or was read.
BytesKept == \A s \in Streams : collected[s] + buffered[s] = written[s]

\* A process that writes has the pipe open, alone writes to it, and has a byte
\* left to write.
WritersInv ==
  \A p \in Procs, s \in Streams :
    wants[p] = s =>
      /\ p \in writers[s] /\ written[s] < MaxBytes
      /\ \A q \in Procs : wants[q] = s => q = p

\* The pipes that the call is done with.
DoneWith ==
  CASE pc = "rest_out" -> piped \ {"out"}
    [] pc = "rest_err" -> piped \ {"err"}
    [] pc = "join" -> piped \ reading
    [] pc \in {"wait", "done"} -> piped
    [] OTHER -> {}

\* What it is done with has ended, and the end of a pipe is for ever.
EndedInv ==
  /\ \A s \in DoneWith : EndOfFile(s)
  /\ pc = "done" => Child \in exited

OutputInv == TypeOK /\ BytesKept /\ WritersInv /\ EndedInv

=============================================================================
