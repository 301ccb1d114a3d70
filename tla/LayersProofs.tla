---------------------------- MODULE LayersProofs ----------------------------
(***************************************************************************)
(* Proofs about Layers, for stacks of any height that any wrappers of a    *)
(* builder make, and for any sequence of calls.                            *)
(***************************************************************************)
EXTENDS Layers, CommandWrapProofs, Recursion

StackInv == Stack \in Seq(LayerNames)

Group(n) == n # 0 /\ Stack[n] = "ProcessGroupChild"

\* t is the outermost group from layer n inwards, or the Child without one.
IsTrier(n, t) ==
  /\ t \in 0..n /\ (t = 0 \/ Group(t))
  /\ \A k \in 1..n : Group(k) => k <= t

-----------------------------------------------------------------------------
(* What the recursive functions of Layers are, by induction on the layer. *)

\* inner gives a layer further in.
LEMMA InnerIs ==
  ASSUME StackInv
  PROVE  /\ Inner \in [Places -> Places]
         /\ \A n \in Places :
              /\ Inner[n] = IF n = 0 THEN 0
                            ELSE IF Shipped(n) THEN Inner[n - 1] ELSE n - 1
              /\ n # 0 => Inner[n] < n
<1> DEFINE N == Len(Stack)
           B == {n \in Places : n = 0 \/ ~Shipped(n)}
           C == [n \in 0..N |-> IF n = 0 THEN 0 ELSE n - 1]
<1>1. N \in Nat /\ Places = 0..N
  BY DEF Places, StackInv
<1>2. PICK f \in [0..N -> Places] :
        \A n \in 0..N : f[n] = IF n \in B THEN C[n] ELSE f[C[n]]
  <2>1. 0 \in B /\ C \in [0..N -> Places] /\ C \in [0..N -> 0..N]
    BY <1>1
  <2>2. \A n \in 0..N : n \notin B => C[n] < n
    BY <1>1
  <2> HIDE DEF N, B, C
  <2>3. IsDescent(N, Places, B, C, C)
    BY <1>1, <2>1, <2>2 DEF IsDescent
  <2> QED
    BY <2>3, DescentExists
<1>3. f = [n \in Places |->
             IF n = 0 THEN 0 ELSE IF Shipped(n) THEN f[n - 1] ELSE n - 1]
  BY <1>1, <1>2
<1>4. Inner = [n \in Places |->
                 IF n = 0 THEN 0
                 ELSE IF Shipped(n) THEN Inner[n - 1] ELSE n - 1]
  BY <1>3 DEF Inner
<1> DEFINE S == {n \in Places : Inner[n] \in 0..n /\ (n # 0 => Inner[n] < n)}
<1>5. \A n \in 0..N : n \in S
  <2>1. ASSUME NEW n \in 0..N, \A k \in 0..(n - 1) : k \in S
        PROVE  n \in S
    <3>1. Inner[n] = IF n = 0 THEN 0
                     ELSE IF Shipped(n) THEN Inner[n - 1] ELSE n - 1
      BY <1>1, <1>4
    <3>2. n # 0 => n - 1 \in S /\ n - 1 \in 0..N /\ n - 1 < n
      BY <1>1, <2>1
    <3>3. Inner[n] \in 0..n /\ (n # 0 => Inner[n] < n)
      BY <1>1, <3>1, <3>2
    <3> QED
      BY <1>1, <3>3
  <2> HIDE DEF S, N
  <2> QED
    BY <1>1, <2>1, UpTo
<1> QED
  BY <1>1, <1>4, <1>5

\* From any layer inner_child gets to the Child, and so does id.
LEMMA ChildIsFound ==
  ASSUME StackInv, NEW n \in Places
  PROVE  InnerChild[n] = 0 /\ Passthrough[n] = 0
<1> DEFINE N == Len(Stack)
           C == [k \in 0..N |-> 0]
<1>1. N \in Nat /\ Places = 0..N
  BY DEF Places, StackInv
<1>2. PICK f \in [0..N -> {0}] :
        \A k \in 0..N : f[k] = IF k \in {0} THEN C[k] ELSE f[Inner[k]]
  <2>1. C \in [0..N -> {0}] /\ Inner \in [0..N -> 0..N]
    BY <1>1, InnerIs
  <2>2. \A k \in 0..N : k \notin {0} => Inner[k] < k
    BY <1>1, InnerIs
  <2> HIDE DEF N, C
  <2>3. IsDescent(N, {0}, {0}, C, Inner)
    BY <1>1, <2>1, <2>2 DEF IsDescent
  <2> QED
    BY <2>3, DescentExists
<1>3. f = [k \in Places |-> IF k = 0 THEN 0 ELSE f[Inner[k]]]
  BY <1>1, <1>2
<1>4. /\ InnerChild
           = [k \in Places |-> IF k = 0 THEN 0 ELSE InnerChild[Inner[k]]]
      /\ Passthrough
           = [k \in Places |-> IF k = 0 THEN 0 ELSE Passthrough[Inner[k]]]
  BY <1>3 DEF InnerChild, Passthrough
<1> DEFINE S == {k \in Places : InnerChild[k] = 0 /\ Passthrough[k] = 0}
<1>5. \A k \in 0..N : k \in S
  <2>1. ASSUME NEW k \in 0..N, \A i \in 0..(k - 1) : i \in S
        PROVE  k \in S
    <3>1. k # 0 => Inner[k] \in 0..(k - 1)
      BY <1>1, InnerIs
    <3> QED
      BY <1>1, <1>4, <2>1, <3>1
  <2> HIDE DEF S, N
  <2> QED
    BY <1>1, <2>1, UpTo
<1> QED
  BY <1>1, <1>5

\* start_kill and signal reach the outermost layer with one of its own.
LEMMA SenderIs ==
  ASSUME StackInv, NEW n \in Places
  PROVE  /\ Sender[n] \in 0..n /\ Sends(Sender[n])
         /\ \A k \in 0..n : Sends(k) => k <= Sender[n]
<1> DEFINE N == Len(Stack)
           B == {k \in Places : Sends(k)}
           C == [k \in 0..N |-> k]
<1>1. N \in Nat /\ Places = 0..N
  BY DEF Places, StackInv
<1>2. PICK f \in [0..N -> Places] :
        \A k \in 0..N : f[k] = IF k \in B THEN C[k] ELSE f[Inner[k]]
  <2>1. 0 \in B /\ C \in [0..N -> Places] /\ Inner \in [0..N -> 0..N]
    BY <1>1, InnerIs DEF Sends
  <2>2. \A k \in 0..N : k \notin B => Inner[k] < k
    BY <1>1, InnerIs DEF Sends
  <2> HIDE DEF N, B, C
  <2>3. IsDescent(N, Places, B, C, Inner)
    BY <1>1, <2>1, <2>2 DEF IsDescent
  <2> QED
    BY <2>3, DescentExists
<1>3. f = [k \in Places |-> IF Sends(k) THEN k ELSE f[Inner[k]]]
  BY <1>1, <1>2
<1>4. Sender = [k \in Places |-> IF Sends(k) THEN k ELSE Sender[Inner[k]]]
  BY <1>3 DEF Sender
<1> DEFINE S == {k \in Places : /\ Sender[k] \in 0..k /\ Sends(Sender[k])
                                /\ \A i \in 0..k : Sends(i) => i <= Sender[k]}
<1>5. \A k \in 0..N : k \in S
  <2>1. ASSUME NEW k \in 0..N, \A i \in 0..(k - 1) : i \in S
        PROVE  k \in S
    <3>1. CASE Sends(k)
      <4>1. Sender[k] = k
        BY <1>1, <1>4, <3>1
      <4> QED
        BY <1>1, <3>1, <4>1
    <3>2. CASE ~Sends(k)
      <4>1. k # 0 /\ Inner[k] = k - 1
        BY <1>1, <3>2, InnerIs DEF Sends
      <4>2. Sender[k] = Sender[k - 1]
        <5>1. k \in Places
          BY <1>1
        <5> QED
          BY <1>4, <3>2, <4>1, <5>1
      <4>3. k - 1 \in S
        BY <2>1, <4>1
      <4>4. /\ Sender[k - 1] \in 0..(k - 1) /\ Sends(Sender[k - 1])
            /\ \A i \in 0..(k - 1) : Sends(i) => i <= Sender[k - 1]
        BY <4>3
      <4>5. /\ Sender[k] \in 0..k /\ Sends(Sender[k])
            /\ \A i \in 0..k : Sends(i) => i <= Sender[k]
        <5>1. \A i \in 0..k : i \in 0..(k - 1) \/ i = k
          OBVIOUS
        <5> HIDE DEF N, S
        <5> QED
          BY <3>2, <4>2, <4>4, <5>1
      <4> QED
        BY <1>1, <4>5
    <3> QED
      BY <3>1, <3>2
  <2> HIDE DEF S, N
  <2> QED
    BY <1>1, <2>1, UpTo
<1> QED
  BY <1>1, <1>5

\* A wait runs that of every layer of the crate inwards, up to the first layer
\* that has the status.
LEMMA WaitedIs ==
  ASSUME StackInv, NEW n \in Places
  PROVE  Waited[n] = {k \in 0..n : /\ k = 0 \/ Shipped(k)
                                   /\ \A j \in 1..n : k <= j => j \notin known}
<1> DEFINE N == Len(Stack)
           B == {k \in Places : k = 0 \/ k \in known}
           C == [k \in 0..N |-> IF k = 0 THEN {0} ELSE {}]
           J == [k \in 0..N |-> IF k = 0 THEN 0 ELSE k - 1]
           Own(k) == IF Shipped(k) THEN {k} ELSE {}
           G == [k \in 0..N |-> [x \in SUBSET Places |-> Own(k) \cup x]]
<1>1. N \in Nat /\ Places = 0..N
  BY DEF Places, StackInv
<1>2. PICK f \in [0..N -> SUBSET Places] :
        \A k \in 0..N : f[k] = IF k \in B THEN C[k] ELSE G[k][f[J[k]]]
  <2>1. 0 \in B /\ C \in [0..N -> SUBSET Places] /\ J \in [0..N -> 0..N]
    BY <1>1
  <2>2. \A k \in 0..N : k \notin B => J[k] < k
    BY <1>1
  <2>3. G \in [0..N -> [SUBSET Places -> SUBSET Places]]
    BY <1>1
  <2> HIDE DEF N, B, C, J, G
  <2>4. IsRecursion(N, SUBSET Places, B, C, J, G)
    BY <1>1, <2>1, <2>2, <2>3 DEF IsRecursion
  <2>5. \E f \in [0..N -> SUBSET Places] : Recurses(f, N, B, C, J, G)
    BY <2>4, RecursionExists
  <2> QED
    BY <2>5 DEF Recurses
<1>3. f = [k \in Places |->
             IF k = 0 THEN {0} ELSE IF k \in known THEN {}
             ELSE (IF Shipped(k) THEN {k} ELSE {}) \cup f[k - 1]]
  <2>1. ASSUME NEW k \in Places
        PROVE  f[k] = IF k = 0 THEN {0} ELSE IF k \in known THEN {}
                      ELSE (IF Shipped(k) THEN {k} ELSE {}) \cup f[k - 1]
    <3>1. CASE k \in B
      BY <1>1, <1>2, <3>1
    <3>2. CASE k \notin B
      <4>1. J[k] = k - 1 /\ k - 1 \in 0..N /\ f[k - 1] \in SUBSET Places
        BY <1>1, <1>2, <3>2
      <4>2. f[k] = G[k][f[k - 1]]
        BY <1>1, <1>2, <3>2, <4>1
      <4> QED
        BY <1>1, <3>2, <4>1, <4>2
    <3> QED
      BY <3>1, <3>2
  <2> QED
    BY <1>1, <1>2, <2>1
<1>4. Waited = [k \in Places |->
                  IF k = 0 THEN {0} ELSE IF k \in known THEN {}
                  ELSE (IF Shipped(k) THEN {k} ELSE {}) \cup Waited[k - 1]]
  BY <1>3 DEF Waited
<1> DEFINE Until(k) ==
             {i \in 0..k : /\ i = 0 \/ Shipped(i)
                           /\ \A j \in 1..k : i <= j => j \notin known}
           S == {k \in Places : Waited[k] = Until(k)}
<1>5. \A k \in 0..N : k \in S
  <2>1. ASSUME NEW k \in 0..N, \A i \in 0..(k - 1) : i \in S
        PROVE  k \in S
    <3>1. CASE k = 0
      BY <1>1, <1>4, <3>1
    <3>2. CASE k # 0 /\ k \in known
      <4>1. Waited[k] = {}
        BY <1>1, <1>4, <3>2
      <4>2. Until(k) = {}
        BY <1>1, <3>2
      <4> QED
        BY <1>1, <4>1, <4>2
    <3>3. CASE k # 0 /\ k \notin known
      <4>1. Waited[k] = (IF Shipped(k) THEN {k} ELSE {}) \cup Waited[k - 1]
        BY <1>1, <1>4, <3>3
      <4>2. Waited[k - 1] = Until(k - 1)
        BY <1>1, <2>1, <3>3
      <4>3. Until(k) = (IF Shipped(k) THEN {k} ELSE {}) \cup Until(k - 1)
        BY <1>1, <3>3
      <4> QED
        BY <1>1, <4>1, <4>2, <4>3
    <3> QED
      BY <3>1, <3>2, <3>3
  <2> HIDE DEF S, N
  <2> QED
    BY <1>1, <2>1, UpTo
<1> QED
  BY <1>1, <1>5

\* A try_wait is that of the outermost group, or of the Child.
LEMMA TrierIs ==
  ASSUME StackInv, NEW n \in Places
  PROVE  IsTrier(n, Trier[n])
<1> DEFINE N == Len(Stack)
           B == {k \in Places : k = 0 \/ Group(k)}
           C == [k \in 0..N |-> k]
           J == [k \in 0..N |-> IF k = 0 THEN 0 ELSE k - 1]
<1>1. N \in Nat /\ Places = 0..N
  BY DEF Places, StackInv
<1>2. PICK f \in [0..N -> Places] :
        \A k \in 0..N : f[k] = IF k \in B THEN C[k] ELSE f[J[k]]
  <2>1. 0 \in B /\ C \in [0..N -> Places] /\ J \in [0..N -> 0..N]
    BY <1>1
  <2>2. \A k \in 0..N : k \notin B => J[k] < k
    BY <1>1
  <2> HIDE DEF N, B, C, J
  <2>3. IsDescent(N, Places, B, C, J)
    BY <1>1, <2>1, <2>2 DEF IsDescent
  <2> QED
    BY <2>3, DescentExists
<1>3. f = [k \in Places |-> IF k = 0 \/ Stack[k] = "ProcessGroupChild"
                            THEN k ELSE f[k - 1]]
  BY <1>1, <1>2 DEF Group
<1>4. Trier = [k \in Places |-> IF k = 0 \/ Stack[k] = "ProcessGroupChild"
                                THEN k ELSE Trier[k - 1]]
  BY <1>3 DEF Trier
<1> DEFINE S == {k \in Places : IsTrier(k, Trier[k])}
<1>5. \A k \in 0..N : k \in S
  <2>1. ASSUME NEW k \in 0..N, \A i \in 0..(k - 1) : i \in S
        PROVE  k \in S
    <3>1. CASE k = 0 \/ Group(k)
      <4>1. Trier[k] = k
        BY <1>1, <1>4, <3>1 DEF Group
      <4> QED
        BY <1>1, <3>1, <4>1 DEF IsTrier
    <3>2. CASE k # 0 /\ ~Group(k)
      <4>1. Trier[k] = Trier[k - 1]
        BY <1>1, <1>4, <3>2 DEF Group
      <4>2. IsTrier(k - 1, Trier[k - 1])
        BY <1>1, <2>1, <3>2
      <4> QED
        BY <1>1, <3>2, <4>1, <4>2 DEF IsTrier
    <3> QED
      BY <3>1, <3>2
  <2> HIDE DEF S, N
  <2> QED
    BY <1>1, <2>1, UpTo
<1> QED
  BY <1>1, <1>5

-----------------------------------------------------------------------------
(* The inductive invariant. *)

\* A child with a group's layer is in the group that its wrappers asked for.
GroupInv ==
  \A n \in DOMAIN Stack :
    Stack[n] = "ProcessGroupChild" => child.group \in {"own", "other"}

\* As long as no call is made past it, the handle is the whole stack, and the
\* layer whose try_wait it has keeps the status once the child is reaped.
HandleInv ==
  /\ handle \in Places \cup {Gone}
  /\ reaped \in BOOLEAN /\ tried \in BOOLEAN /\ beneath \in BOOLEAN
  /\ reaped /\ 0 \notin known => tried
  /\ handle # Gone /\ ~beneath =>
       /\ handle = Len(Stack)
       /\ reaped => \E t \in known : IsTrier(handle, t)

LayersInv ==
  /\ SpawnInv /\ GroupInv /\ HandleInv /\ StatusThroughLayers /\ NoFreedPid

\* The hook that adds a group's layer is that of a wrapper that asks for a
\* group.
LEMMA GroupStep ==
  ASSUME BuilderTypeInv, SpawnedAsAsked, GroupInv, [Next]_vars
  PROVE  GroupInv'
<1> USE DEF GroupInv, Stack, builder, past
<1>1. CASE child'.layers = child.layers /\ child'.group = child.group
  BY <1>1
<1>2. CASE BeginSpawn
  BY <1>2 DEF BeginSpawn, NoChild
<1>3. CASE Spawner
  BY <1>3 DEF Spawner
<1>4. CASE WrapChildHook
  <2> DEFINE w == Current
  <2>1. /\ phase = "wrap_child" /\ child' = WrapChild(w, child)
        /\ w \in Instances(platform) /\ w = held.wrappers[next]
        /\ next \in DOMAIN held.wrappers /\ child \in Childs
        /\ platform \in {"unix", "windows"}
    BY <1>4, CurrentIsInstance, PlatformsAssumption
    DEF WrapChildHook, At, BuilderTypeInv
  <2>2. child'.group = child.group
    BY <2>1, WrapChildChild
  <2>3. child'.layers = IF w.type \in DOMAIN LayerOf
                        THEN Append(child.layers, LayerOf[w.type])
                        ELSE child.layers
    BY <2>1, WrapChildLayers
  <2>4. CASE w.type \in {"ProcessGroup", "ProcessSession"}
    <3>1. platform = "unix"
      BY <2>1, <2>4 DEF Instances, Instance
    <3>2. w.type \in Types(held.wrappers) /\ w \in ToSet(held.wrappers)
      BY <2>1 DEF Types, ToSet
    <3> DEFINE g == CHOOSE v \in ToSet(held.wrappers) :
                      v.type = "ProcessGroup"
    <3>3. w.type = "ProcessGroup" => g.arg \in {"own", "other"}
      <4>1. w.type = "ProcessGroup"
            => g \in ToSet(held.wrappers) /\ g.type = "ProcessGroup"
        BY <3>2
      <4>2. \A v \in ToSet(held.wrappers) : v \in Instances(platform)
        BY DEF ToSet, BuilderTypeInv
      <4> HIDE DEF g
      <4> QED
        BY <2>1, <4>1, <4>2, InstanceKinds
    <3>4. child.group = IF "ProcessSession" \in Types(held.wrappers)
                        THEN "own"
                        ELSE IF "ProcessGroup" \in Types(held.wrappers)
                        THEN g.arg ELSE "inherit"
      BY <2>1, <3>1 DEF SpawnedAsAsked
    <3>5. child.group \in {"own", "other"}
      <4> HIDE DEF g
      <4> QED
        BY <2>4, <3>2, <3>3, <3>4
    <3> QED
      BY <2>2, <3>5
  <2>5. CASE w.type \notin {"ProcessGroup", "ProcessSession"}
    <3>1. w.type \in DOMAIN LayerOf => LayerOf[w.type] # "ProcessGroupChild"
      BY <2>5 DEF LayerOf
    <3>2. child.layers \in Seq(LayerNames)
      BY <2>1 DEF Childs
    <3> QED
      BY <2>2, <2>3, <3>1, <3>2
  <2> QED
    BY <2>4, <2>5
<1>5. CASE HookErr \/ HookPanic
  <2>1. DropChild /\ child \in Childs
    BY <1>5 DEF HookErr, HookPanic, BuilderTypeInv
  <2> QED
    BY <1>1, <2>1 DEF DropChild, Childs
<1>6. CASE IntoCommand \/ PreSpawnHook \/ PostSpawnHook \/ BeginWrapChild
           \/ SpawnOk \/ SpawnerErr
  BY <1>1, <1>6 DEF IntoCommand, PreSpawnHook, PostSpawnHook, BeginWrapChild,
                    SpawnOk, SpawnerErr
<1>7. ASSUME NEW w \in Instances(platform), Wrap(w)
      PROVE  GroupInv'
  BY <1>1, <1>7 DEF Wrap
<1>8. CASE UNCHANGED vars
  BY <1>1, <1>8 DEF vars
<1> QED
  BY BuilderStepKinds, <1>2, <1>3, <1>4, <1>5, <1>6, <1>7, <1>8

\* A call on a layer that the caller can get at, past the handle or not.
Calls(n) ==
  /\ handle # Gone /\ n \in Places
  /\ UNCHANGED <<child, handle, side>>
  /\ beneath' \in BOOLEAN /\ (beneath => beneath')
  /\ ~beneath' => n = handle

LEMMA WaitStep ==
  ASSUME StackInv, HandleInv, StatusThroughLayers, NoFreedPid,
         NEW n, Calls(n), Wait(n)
  PROVE  HandleInv' /\ StatusThroughLayers' /\ NoFreedPid'
<1>1. /\ UNCHANGED <<child, handle, side, signalled, tried>>
      /\ Stack' = Stack /\ Places' = Places
  BY DEF Wait, Calls, Places, Stack
<1>2. NoFreedPid'
  BY <1>1 DEF Calls, NoFreedPid
<1>3. CASE Waited[n] # {} /\ 0 \in Waited[n] /\ ~ChildCanTell
  <2>1. reaped /\ 0 \notin known /\ UNCHANGED <<known, reaped>>
    BY <1>3 DEF Wait, ChildCanTell
  <2>2. HandleInv'
    BY <1>1, <2>1 DEF HandleInv, Calls, IsTrier, Group
  <2>3. tried'
    BY <1>1, <2>1 DEF HandleInv
  <2>4. beneath'
    <3> SUFFICES ASSUME ~beneath' PROVE FALSE
      BY DEF Calls
    <3>1. PICK t \in known : IsTrier(n, t)
      BY <2>1 DEF HandleInv, Calls
    <3>2. t \in 1..n
      BY <2>1, <3>1 DEF IsTrier, Calls, Places
    <3>3. t \notin known
      BY <1>3, <3>2, WaitedIs DEF Calls
    <3> QED
      BY <3>1, <3>3
  <2> QED
    BY <1>2, <2>2, <2>3, <2>4 DEF StatusThroughLayers
<1>4. CASE ~(Waited[n] # {} /\ 0 \in Waited[n] /\ ~ChildCanTell)
  <2>1. /\ answer' = "status" /\ known' = known \cup Waited[n]
        /\ reaped' = (reaped \/ 0 \in Waited[n])
    BY <1>4 DEF Wait
  <2>2. reaped' /\ 0 \notin known' => tried'
    BY <1>1, <2>1 DEF HandleInv
  <2>3. ASSUME ~beneath', reaped'
        PROVE  \E t \in known' : IsTrier(n, t)
    <3>1. CASE reaped
      BY <2>1, <2>3, <3>1 DEF HandleInv, Calls
    <3>2. CASE 0 \in Waited[n]
      <4>1. IsTrier(n, Trier[n])
        BY TrierIs DEF Calls
      <4>2. Trier[n] \in Waited[n]
        BY <3>2, <4>1, WaitedIs DEF IsTrier, Group, Shipped, Calls, Places
      <4> QED
        BY <2>1, <4>1, <4>2
    <3> QED
      BY <2>1, <2>3, <3>1, <3>2
  <2>4. HandleInv'
    BY <1>1, <2>1, <2>2, <2>3 DEF HandleInv, Calls, IsTrier, Group
  <2> QED
    BY <1>2, <2>1, <2>4 DEF StatusThroughLayers
<1> QED
  BY <1>3, <1>4

LEMMA TryWaitStep ==
  ASSUME StackInv, GroupInv, HandleInv, StatusThroughLayers, NoFreedPid,
         NEW n, Calls(n), TryWait(n)
  PROVE  HandleInv' /\ StatusThroughLayers' /\ NoFreedPid'
<1> DEFINE t == Trier[n]
<1>1. /\ UNCHANGED <<child, handle, side, signalled>> /\ tried' = TRUE
      /\ Stack' = Stack /\ Places' = Places
  BY DEF TryWait, Calls, Places, Stack
<1>2. NoFreedPid'
  BY <1>1 DEF Calls, NoFreedPid
<1>3. IsTrier(n, t)
  BY TrierIs DEF Calls
<1>4. CASE UNCHANGED <<known, reaped>>
  <2>1. HandleInv'
    BY <1>1, <1>4 DEF HandleInv, Calls, IsTrier, Group
  <2>2. ASSUME answer' \in {"err", "none"}
        PROVE  beneath' \/ child.group = "other"
    <3>1. /\ t \notin known
          /\ ~ IF t = 0 THEN ChildCanTell ELSE GroupCanTell(t)
      BY <2>2 DEF TryWait
    <3>2. CASE reaped
      <4> SUFFICES ASSUME ~beneath' PROVE FALSE
        BY DEF Calls
      <4>1. PICK k \in known : IsTrier(n, k)
        BY <3>2 DEF HandleInv, Calls
      <4>2. k = t
        BY <1>3, <4>1 DEF IsTrier, Calls, Places, Group
      <4> QED
        BY <3>1, <4>1, <4>2
    <3>3. CASE ~reaped
      <4>1. t # 0 /\ ~GroupCanTell(t)
        BY <3>1, <3>3 DEF ChildCanTell
      <4>2. t - 1 \in Places /\ t \in DOMAIN Stack /\ Group(t)
        BY <1>3, <4>1 DEF IsTrier, Calls, Places, StackInv
      <4>3. Passthrough[t - 1] = 0
        BY <4>2, ChildIsFound
      <4>4. child.group # "own"
        BY <3>3, <4>1, <4>3 DEF GroupCanTell
      <4> QED
        BY <4>2, <4>4 DEF GroupInv, Group
    <3> QED
      BY <3>2, <3>3
  <2> QED
    BY <1>1, <1>2, <2>1, <2>2 DEF StatusThroughLayers
<1>5. CASE ~ UNCHANGED <<known, reaped>>
  <2>1. answer' = "status" /\ known' = known \cup {t} /\ reaped' = TRUE
    BY <1>5 DEF TryWait, KeptBy
  <2>2. HandleInv'
    BY <1>1, <1>3, <2>1 DEF HandleInv, Calls, IsTrier, Group
  <2> QED
    BY <1>2, <2>1, <2>2 DEF StatusThroughLayers
<1> QED
  BY <1>4, <1>5

LEMMA SendStep ==
  ASSUME StackInv, HandleInv, StatusThroughLayers, NoFreedPid,
         NEW n, Calls(n), Send(n)
  PROVE  HandleInv' /\ StatusThroughLayers' /\ NoFreedPid'
<1>1. /\ UNCHANGED <<child, handle, side, reaped, known, answer, tried>>
      /\ Stack' = Stack /\ Places' = Places
  BY DEF Send, Calls, Places, Stack
<1>2. HandleInv' /\ StatusThroughLayers'
  BY <1>1 DEF HandleInv, StatusThroughLayers, Calls, IsTrier, Group
<1>3. ASSUME side = "tokio", signalled' = "freed pid"
      PROVE  tried' /\ beneath'
  <2>1. Sender[n] = 0 /\ 0 \notin known /\ reaped
    BY <1>3 DEF Send, SendsByPid
  <2>2. tried'
    BY <1>1, <2>1 DEF HandleInv
  <2>3. beneath'
    <3> SUFFICES ASSUME ~beneath' PROVE FALSE
      BY DEF Calls
    <3>1. PICK t \in known : IsTrier(n, t)
      BY <2>1 DEF HandleInv, Calls
    <3>2. t # 0 /\ t \in 0..n /\ Sends(t)
      BY <2>1, <3>1 DEF IsTrier, Group, Sends, Shipped
    <3>3. t <= Sender[n]
      BY <3>2, SenderIs DEF Calls
    <3> QED
      BY <2>1, <3>2, <3>3 DEF Calls, Places
  <2> QED
    BY <2>2, <2>3
<1> QED
  BY <1>1, <1>2, <1>3 DEF NoFreedPid

\* Each step of the builder and each call preserves the invariant.
LEMMA LayersStep ==
  ASSUME LayersInv, [LayersNext]_layersVars
  PROVE  LayersInv'
<1>1. [Next]_vars
  BY DEF LayersNext, layersVars
<1>2. SpawnInv' /\ GroupInv'
  BY <1>1, GroupStep, BuilderTypeStep, HeldStep, KillStep, JobStep, AskedStep,
     SpawnedStep, OrderStep
  DEF LayersInv, SpawnInv
<1>3. StackInv /\ StackInv'
  BY <1>2 DEF LayersInv, SpawnInv, BuilderTypeInv, Childs, StackInv, Stack
<1> DEFINE Goal == HandleInv' /\ StatusThroughLayers' /\ NoFreedPid'
<1>4. ASSUME NewHandle
      PROVE  Goal
  <2>1. /\ handle' \in {Len(child'.layers), Gone}
        /\ reaped' = FALSE /\ tried' = FALSE /\ beneath' = FALSE
        /\ answer' = "never" /\ signalled' = "never"
    BY <1>4 DEF NewHandle
  <2>2. Len(child'.layers) \in Places'
    BY <1>3 DEF StackInv, Stack, Places
  <2>3. HandleInv'
    BY <2>1, <2>2 DEF HandleInv, Stack
  <2> QED
    BY <2>1, <2>3 DEF StatusThroughLayers, NoFreedPid
<1>5. ASSUME handle # Gone, UNCHANGED vars,
             Call \/ CallBeneath \/ IntoInner \/ ChildExits
      PROVE  Goal
  <2>1. /\ UNCHANGED child /\ handle \in Places /\ HandleInv /\ GroupInv
        /\ StatusThroughLayers /\ NoFreedPid
        /\ Stack' = Stack /\ Places' = Places
    BY <1>5 DEF vars, LayersInv, HandleInv, Places, Stack
  <2>2. /\ Inner[handle] \in Places /\ InnerChild[handle] = 0 /\ 0 \in Places
        /\ handle = 0 => Inner[handle] = 0
    BY <1>3, <2>1, InnerIs, ChildIsFound DEF Places, StackInv
  <2>3. ASSUME NEW n, Calls(n), CallOn(n)
        PROVE  Goal
    BY <1>3, <2>1, <2>3, WaitStep, TryWaitStep, SendStep DEF CallOn
  <2>4. CASE Call
    <3>1. CallOn(handle) /\ UNCHANGED beneath
      BY <2>4 DEF Call
    <3>2. UNCHANGED <<handle, side>>
      BY <3>1 DEF CallOn, Wait, TryWait, Send
    <3>3. Calls(handle)
      BY <1>5, <2>1, <3>1, <3>2 DEF Calls, HandleInv
    <3> QED
      BY <2>3, <3>1, <3>3
  <2>5. CASE CallBeneath
    <3>1. PICK n \in {Inner[handle], InnerChild[handle]} : CallOn(n)
      BY <2>5 DEF CallBeneath
    <3>2. UNCHANGED <<handle, side>>
      BY <3>1 DEF CallOn, Wait, TryWait, Send
    <3>3. n \in Places /\ beneath' = (beneath \/ handle # 0)
          /\ (handle = 0 => n = handle)
      BY <2>2, <2>5, <3>1 DEF CallBeneath
    <3>4. Calls(n)
      BY <1>5, <2>1, <3>2, <3>3 DEF Calls, HandleInv
    <3> QED
      BY <2>3, <3>1, <3>4
  <2>6. CASE IntoInner
    <3>1. /\ handle' \in Places /\ (handle = 0 => handle' = 0)
          /\ beneath' = (beneath \/ handle # 0)
          /\ UNCHANGED <<side, reaped, known, answer, signalled, tried>>
      BY <2>2, <2>6 DEF IntoInner
    <3>2. HandleInv'
      BY <2>1, <3>1 DEF HandleInv, IsTrier, Group
    <3> QED
      BY <2>1, <3>1, <3>2 DEF StatusThroughLayers, NoFreedPid, HandleInv
  <2>7. CASE ChildExits
    <3>1. UNCHANGED <<handle, side, reaped, known, answer, signalled, tried,
                      beneath>>
      BY <2>7 DEF ChildExits
    <3> QED
      BY <2>1, <3>1
      DEF HandleInv, IsTrier, Group, StatusThroughLayers, NoFreedPid
  <2> QED
    BY <1>5, <2>4, <2>5, <2>6, <2>7
<1>6. ASSUME UNCHANGED layersVars
      PROVE  Goal
  BY <1>6
  DEF LayersInv, layersVars, vars, handleVars, HandleInv, StatusThroughLayers,
      NoFreedPid, IsTrier, Group, Places, Stack
<1>7. Goal
  BY <1>4, <1>5, <1>6 DEF LayersNext
<1> QED
  BY <1>2, <1>7 DEF LayersInv

LEMMA LayersInvHolds == LayersSpec => []LayersInv
<1>1. LayersInit => LayersInv
  <2> SUFFICES ASSUME LayersInit PROVE LayersInv
    OBVIOUS
  <2>1. SpawnInv
    BY BuilderInit DEF LayersInit, SpawnInv
  <2>2. GroupInv
    BY DEF LayersInit, Init, NoChild, GroupInv, Stack
  <2>3. HandleInv /\ StatusThroughLayers /\ NoFreedPid
    BY DEF LayersInit, HandleInv, StatusThroughLayers, NoFreedPid
  <2> QED
    BY <2>1, <2>2, <2>3 DEF LayersInv
<1>2. LayersInv /\ [LayersNext]_layersVars => LayersInv'
  BY LayersStep
<1> QED
  BY <1>1, <1>2, PTL DEF LayersSpec

-----------------------------------------------------------------------------
(* The theorems. *)

\* Whatever the handles of a builder are used for, the builder does what it
\* does by itself, so that what CommandWrapProofs proves holds here too.
THEOREM BuilderUnderLayers == LayersSpec => Spec
<1>1. LayersInit => Init
  BY DEF LayersInit
<1>2. [LayersNext]_layersVars => [Next]_vars
  BY DEF LayersNext, layersVars
<1> QED
  BY <1>1, <1>2, PTL DEF LayersSpec, Spec

\* CallsPassNoGroup: start_kill and signal reach the outermost group or job,
\* and a first wait reaches all, through whatever layers of a user's.
THEOREM CallsReachAll == LayersSpec => []CallsPassNoGroup
<1>1. LayersInv => CallsPassNoGroup
  <2> SUFFICES ASSUME LayersInv, handle # Gone
               PROVE  /\ \A n \in 1..handle : Shipped(n) => Sender[handle] >= n
                      /\ known = {} =>
                           Waited[handle]
                             = {0} \cup {n \in 1..handle : Shipped(n)}
    BY DEF CallsPassNoGroup
  <2>1. StackInv /\ handle \in Places /\ Places \subseteq Nat
    BY DEF LayersInv, SpawnInv, BuilderTypeInv, Childs, StackInv, Stack,
           HandleInv, Places
  <2>2. \A n \in 1..handle : Shipped(n) => Sender[handle] >= n
    <3>1. ASSUME NEW n \in 1..handle, Shipped(n)
          PROVE  n \in 0..handle /\ Sends(n)
      BY <2>1, <3>1 DEF Sends
    <3>2. ASSUME NEW n \in 1..handle, Shipped(n)
          PROVE  n <= Sender[handle] /\ Sender[handle] \in 0..handle
      BY <2>1, <3>1, <3>2, SenderIs
    <3> QED
      BY <2>1, <3>2
  <2>3. ASSUME known = {}
        PROVE  Waited[handle] = {0} \cup {n \in 1..handle : Shipped(n)}
    BY <2>1, <2>3, WaitedIs DEF Shipped
  <2> QED
    BY <2>2, <2>3
<1> QED
  BY <1>1, LayersInvHolds, PTL

\* StatusThroughLayers: a call made after the exit gives the child's status,
\* however many layers there are and whichever the call is made on, as long as
\* only wait is used, or only the handle of a child in its own group.
THEOREM StatusIsThere == LayersSpec => []StatusThroughLayers
<1>1. LayersInv => StatusThroughLayers
  BY DEF LayersInv
<1> QED
  BY <1>1, LayersInvHolds, PTL

\* NoFreedPid: no call on a handle of tokio's signals a pid that was given
\* back, but past a group whose try_wait reaped the child.
THEOREM FreedPidIsSafe == LayersSpec => []NoFreedPid
<1>1. LayersInv => NoFreedPid
  BY DEF LayersInv
<1> QED
  BY <1>1, LayersInvHolds, PTL

=============================================================================
