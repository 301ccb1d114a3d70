------------------------------ MODULE UnixProcs ------------------------------
(***************************************************************************)
(* The part of a Unix kernel that process-wrap leans on: which processes   *)
(* exist, whose children they are, which process group they are in, and    *)
(* what waitpid(2), killpg(2), setpgid(2), fork(2) and exit(2) do to them. *)
(* None of it is code of the crate: it is modelled from the calls made in  *)
(* std/process_group.rs and tokio/process_group.rs.                        *)
(*                                                                         *)
(* A process is a pid and pids are not reused.  A process may leave a      *)
(* group only for one of its own (setsid or setpgid(0, 0)), which a group  *)
(* leader cannot do.                                                       *)
(***************************************************************************)

CONSTANTS
  Pids,        \* every process there may ever be, bar the two below
  Children,    \* the pids of the processes the caller spawns through the crate
  Caller,      \* the process that uses the crate
  InitProc,    \* init: adopts orphans and reaps them at once
  Codes,       \* exit statuses
  SigKilled,   \* the exit status of a process that died of SIGKILL
  None,        \* no status
  Subreaper,   \* the caller adopts its orphaned descendants: it is PID 1 of a
               \* container or set PR_SET_CHILD_SUBREAPER
  MayLeave     \* processes may leave their group

ASSUME PidsAssumption ==
  /\ Children \subseteq Pids
  /\ Caller \notin Pids
  /\ InitProc \notin Pids
  /\ Caller # InitProc
  /\ None \notin Pids \cup {Caller, InitProc}

ASSUME CodesAssumption ==
  /\ SigKilled \in Codes
  /\ None \notin Codes

ASSUME SystemAssumption == Subreaper \in BOOLEAN /\ MayLeave \in BOOLEAN

VARIABLES
  state,    \* [Pids -> {"unborn", "running", "zombie", "reaped"}]
  parent,   \* who may wait for it
  group,    \* its process group ID, the pid of the group's first leader
  code,     \* its exit status, once it has exited
  doomed    \* running processes with a SIGKILL pending: all they can do is die

procVars == <<state, parent, group, code, doomed>>

ProcTypeOK ==
  /\ state \in [Pids -> {"unborn", "running", "zombie", "reaped"}]
  /\ parent \in [Pids -> Pids \cup {Caller, InitProc, None}]
  /\ group \in [Pids -> Pids \cup {None}]
  /\ code \in [Pids -> Codes \cup {None}]
  /\ doomed \in SUBSET Pids

ProcInit ==
  /\ state = [p \in Pids |-> "unborn"]
  /\ parent = [p \in Pids |-> None]
  /\ group = [p \in Pids |-> None]
  /\ code = [p \in Pids |-> None]
  /\ doomed = {}

-----------------------------------------------------------------------------
(* What a system call sees. *)

Present(p) == state[p] \in {"running", "zombie"}

Members(g) == {p \in Pids : Present(p) /\ group[p] = g}

\* What waitpid(-g) considers: the caller's own children in group g.
Waitable(g) == {p \in Members(g) : parent[p] = Caller}

Zombies(S) == {p \in S : state[p] = "zombie"}

HasExited(p) == state[p] \in {"zombie", "reaped"}

\* Who adopts the children of a process that exits.
Adopter == IF Subreaper THEN Caller ELSE InitProc

-----------------------------------------------------------------------------
(* What a system call of the caller does. *)

\* fork + setpgid + exec of child h into group g.
StartChild(h, g) ==
  /\ state[h] = "unborn"
  /\ state' = [state EXCEPT ![h] = "running"]
  /\ parent' = [parent EXCEPT ![h] = Caller]
  /\ group' = [group EXCEPT ![h] = g]
  /\ UNCHANGED <<code, doomed>>

\* waitpid returned p.
Reap(p) ==
  /\ state' = [state EXCEPT ![p] = "reaped"]
  /\ UNCHANGED <<parent, group, code, doomed>>

\* SIGKILL is now pending on the running processes of S.
Doom(S) ==
  /\ doomed' = doomed \cup {p \in S : state[p] = "running"}
  /\ UNCHANGED <<state, parent, group, code>>

-----------------------------------------------------------------------------
(* What the spawned processes do by themselves. *)

Fork(p, c) ==
  /\ state[p] = "running" /\ p \notin doomed
  /\ state[c] = "unborn" /\ c \notin Children
  /\ state' = [state EXCEPT ![c] = "running"]
  /\ parent' = [parent EXCEPT ![c] = p]
  /\ group' = [group EXCEPT ![c] = group[p]]
  /\ UNCHANGED <<code, doomed>>

\* p exits with s.  Its children are adopted; what init adopts or already
\* owns is reaped as soon as it is dead.
Exit(p, s) ==
  /\ state[p] = "running"
  /\ p \in doomed => s = SigKilled
  /\ parent' = [q \in Pids |-> IF parent[q] = p THEN Adopter ELSE parent[q]]
  /\ state' = [q \in Pids |->
                 CASE q = p ->
                        IF parent[p] = InitProc THEN "reaped" ELSE "zombie"
                   [] /\ q # p /\ parent[q] = p
                      /\ state[q] = "zombie" /\ ~Subreaper -> "reaped"
                   [] OTHER -> state[q]]
  /\ code' = [code EXCEPT ![p] = s]
  /\ doomed' = doomed \ {p}
  /\ UNCHANGED group

\* A running process waits for a child of its own.
ReapOwnChild(p, c) ==
  /\ state[p] = "running" /\ p \notin doomed
  /\ parent[c] = p /\ state[c] = "zombie"
  /\ Reap(c)

\* setsid or setpgid(0, 0): p leads a group of its own from now on.
LeaveGroup(p) ==
  /\ MayLeave
  /\ state[p] = "running" /\ p \notin doomed
  /\ group[p] # p
  /\ group' = [group EXCEPT ![p] = p]
  /\ UNCHANGED <<state, parent, code, doomed>>

ProcStep ==
  \E p \in Pids :
    \/ \E c \in Pids : Fork(p, c) \/ ReapOwnChild(p, c)
    \/ \E s \in Codes : Exit(p, s)
    \/ LeaveGroup(p)

=============================================================================
