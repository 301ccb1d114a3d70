-------------------------------- MODULE Layers --------------------------------
(***************************************************************************)
(* The handle that a spawn returns: the child wrappers stacked around the  *)
(* Child, and what a call on the outermost reaches (the ChildWrapper       *)
(* traits of std/core.rs and tokio/core.rs, and the layers the crate       *)
(* ships).  ProcessGroup and JobObject have one such layer in detail, over *)
(* a bare Child; here the child is the only process, a call is one step    *)
(* and the layers are as many as the wrappers added to a builder.          *)
(*                                                                         *)
(* A layer is named by its place, the Child by 0.  The methods a user's    *)
(* layer overrides do something and call the same method of its child.     *)
(***************************************************************************)
EXTENDS CommandWrap

VARIABLES
  handle,    \* the outermost layer left, Gone if the caller has none
  side,      \* whether the handle is one of std or of tokio
  exited,    \* the child has exited
  reaped,    \* and was waited for, so that its pid is free (Unix)
  known,     \* the layers that keep the exit status
  answer,    \* what the last wait or try_wait returned
  signalled, \* what the last start_kill or signal was sent to
  tried,     \* try_wait was used
  beneath    \* a call was made past the handle's outermost layer

handleVars == <<handle, side, exited, reaped, known, answer, signalled,
                tried, beneath>>
layersVars == <<vars, handleVars>>

Gone == -1
Stack == child.layers
Places == 0..Len(Stack)
Shipped(n) == n # 0 /\ Stack[n] # "UserChild"

LayersInit ==
  /\ Init
  /\ handle = Gone /\ side = "std"
  /\ exited = FALSE /\ reaped = FALSE /\ known = {}
  /\ answer = "never" /\ signalled = "never"
  /\ tried = FALSE /\ beneath = FALSE

-----------------------------------------------------------------------------
(* What is under a layer. *)

\* inner, inner_mut and into_inner: the Child gives itself, a user's layer what
\* it wraps, and a layer the crate ships what *that* gives: it skips one.
Inner[n \in Places] ==
  IF n = 0 THEN 0 ELSE IF Shipped(n) THEN Inner[n - 1] ELSE n - 1

\* inner_child, inner_child_mut and into_inner_child call inner until they have
\* the Child.
InnerChild[n \in Places] == IF n = 0 THEN 0 ELSE InnerChild[Inner[n]]

\* The layer that answers id, stdin, stdout and stderr called on layer n: none
\* of the crate's has them, so each asks inner.
Passthrough[n \in Places] == IF n = 0 THEN 0 ELSE Passthrough[Inner[n]]

\* Mutant: ProcessGroupChild keeps the default start_kill and signal.
SendsOfJobOnly(n) == n = 0 \/ Stack[n] = "JobObjectChild"

\* The layers with a start_kill or signal of their own.  A user's layer passes
\* the call on to what it wraps, by default or after its own part.
Sends(n) == n = 0 \/ Shipped(n)

\* The layer that acts on start_kill or signal called on layer n.
Sender[n \in Places] == IF Sends(n) THEN n ELSE Sender[Inner[n]]

\* The layers whose wait a wait on layer n runs: a shipped layer without a
\* status calls wait of the layer it is around.
Waited[n \in Places] ==
  IF n = 0 THEN {0}
  ELSE IF n \in known THEN {}
  ELSE (IF Shipped(n) THEN {n} ELSE {}) \cup Waited[n - 1]

\* The layer whose own code decides what a try_wait on layer n does: the
\* outermost group, or the Child.  A job asks the layer it is around.
Trier[n \in Places] ==
  IF n = 0 \/ Stack[n] = "ProcessGroupChild" THEN n ELSE Trier[n - 1]

-----------------------------------------------------------------------------
(* Calls, on the layer n that the caller can get at. *)

Unix == platform = "unix"

\* The Child asks the system, which on Unix tells once.
ChildCanTell == 0 \in known \/ ~reaped \/ ~Unix

\* The group of layer n is the one with the pid that id gave when it was made.
GroupCanTell(n) ==
  ~reaped /\ Passthrough[n - 1] = 0 /\ child.group = "own"

Wait(n) ==
  /\ exited
  /\ IF Waited[n] # {} /\ 0 \in Waited[n] /\ ~ChildCanTell
     THEN answer' = "err" /\ UNCHANGED <<known, reaped>>
     ELSE /\ answer' = "status"
          /\ known' = known \cup Waited[n]
          /\ reaped' = (reaped \/ 0 \in Waited[n])
  /\ UNCHANGED <<handle, side, exited, signalled, tried>>

\* Mutant: a try_wait that gets the status does not keep it.
KeptByUncached(n) == {}

\* A group keeps the status a try_wait gets, and so does the Child.
KeptBy(n) == {n}

\* A group reaps the child itself, behind the back of the layers it is around;
\* if there is nothing for it to reap, it answers None, exited or not.
TryWait(n) ==
  LET t == Trier[n] IN
  /\ IF t \in known THEN answer' = "status" /\ UNCHANGED <<known, reaped>>
     ELSE IF ~exited THEN answer' = "running" /\ UNCHANGED <<known, reaped>>
     ELSE IF IF t = 0 THEN ChildCanTell ELSE GroupCanTell(t)
     THEN /\ answer' = "status"
          /\ known' = known \cup KeptBy(t)
          /\ reaped' = TRUE
     ELSE /\ answer' = IF t = 0 THEN "err" ELSE "none"
          /\ UNCHANGED <<known, reaped>>
  /\ tried' = TRUE
  /\ UNCHANGED <<handle, side, exited, signalled>>

\* Mutant: tokio's Child sends by pid as std's does.
SendsByPidAlways == TRUE

\* A bare Child sends by pid: std's always, tokio's until it has the status.
SendsByPid == side = "std" \/ 0 \notin known

\* start_kill and signal.
Send(n) ==
  /\ signalled' = IF Sender[n] # 0 THEN "group"
                  ELSE IF ~SendsByPid THEN "nothing"
                  ELSE IF Unix /\ reaped THEN "freed pid" ELSE "process"
  /\ UNCHANGED <<handle, side, exited, reaped, known, answer, tried>>

CallOn(n) == Wait(n) \/ TryWait(n) \/ Send(n)

Call == CallOn(handle) /\ UNCHANGED beneath

\* On what inner_mut or inner_child_mut gives.
CallBeneath ==
  /\ \E n \in {Inner[handle], InnerChild[handle]} : CallOn(n)
  /\ beneath' = (beneath \/ handle # 0)

\* into_inner, or into_inner_child.
IntoInner ==
  /\ handle' \in {Inner[handle], InnerChild[handle]}
  /\ beneath' = (beneath \/ handle # 0)
  /\ UNCHANGED <<side, exited, reaped, known, answer, signalled, tried>>

ChildExits ==
  /\ ~exited /\ exited' = TRUE
  /\ UNCHANGED <<handle, side, reaped, known, answer, signalled, tried,
                 beneath>>

\* A spawn returns its handle, which the caller drops before it uses the
\* builder again.
NewHandle ==
  /\ handle' = IF phase = "wrap_child" /\ outcome' = "ok" /\ phase' = "idle"
               THEN Len(child'.layers) ELSE Gone
  /\ side' \in IF handle' = Gone THEN {"std"} ELSE {"std", "tokio"}
  /\ exited' = FALSE /\ reaped' = FALSE /\ known' = {}
  /\ answer' = "never" /\ signalled' = "never"
  /\ tried' = FALSE /\ beneath' = FALSE

LayersNext ==
  \/ Next /\ NewHandle
  \/ /\ handle # Gone
     /\ Call \/ CallBeneath \/ IntoInner \/ ChildExits
     /\ UNCHANGED vars

LayersSpec == LayersInit /\ [][LayersNext]_layersVars

-----------------------------------------------------------------------------
(* Properties *)

\* Through any stack of layers, a call made after the child has exited gives
\* its status, also past a layer, through the ones that inner skips and after
\* into_inner ("wrappers must ensure that the wrapped child is in a consistent
\* state when this is called"): as long as only wait is used, or only the
\* handle, and the child is in the group its layers take for its own.
StatusThroughLayers ==
  answer \in {"err", "none"} => tried /\ (beneath \/ child.group = "other")

\* A call on the handle passes by no group and no job of the stack left,
\* whatever a user's layers between them leave to the defaults: start_kill and
\* signal reach the outermost, a first wait reaches all.
CallsPassNoGroup ==
  handle # Gone =>
    /\ \A n \in 1..handle : Shipped(n) => Sender[handle] >= n
    /\ known = {} =>
         Waited[handle] = {0} \cup {n \in 1..handle : Shipped(n)}

\* tokio's Child is never signalled by a pid the system may have given away,
\* unless a group's try_wait reaped it and the call is made past the group.
NoFreedPid ==
  side = "tokio" /\ signalled = "freed pid" => tried /\ beneath

=============================================================================
