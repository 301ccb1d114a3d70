------------------------ MODULE WaitWithOutputProofs -------------------------
(***************************************************************************)
(* Proofs about WaitWithOutput, for any number of processes at the other   *)
(* end of the pipes, any size of the pipes and any amount written.         *)
(***************************************************************************)
EXTENDS WaitWithOutput, TLAPS

\* The call reads what is there, whichever loop it is in, and goes on.
CallKinds ==
  \/ \E s \in Streams : ReadSome(s)
  \/ Poll \/ PollInterrupted \/ \E s \in Streams : TryBlocks(s)
  \/ \E s \in Streams : TryEnds(s)
  \/ FirstEnds
  \/ \E s \in Streams : RestEnds(s)
  \/ \E s \in Streams : JoinEnds(s)
  \/ JoinDone \/ Wait \/ WaitErr

LEMMA OutputStepKinds ==
  ASSUME Next
  PROVE  \/ Start \/ CallKinds
         \/ \E p, q \in Procs : Fork(p, q)
         \/ \E p \in Procs, s \in Streams :
              BeginWrite(p, s) \/ Write(p, s) \/ Close(p, s)
         \/ \E p \in Procs : Exit(p)
BY DEF Next, CallStep, CallKinds

-----------------------------------------------------------------------------
\* The types, the bytes and the writers.
BytesInv == TypeOK /\ BytesKept /\ WritersInv

LEMMA OutputInitInv ==
  ASSUME Init
  PROVE  OutputInv
<1> USE OutputAssumption DEF Init, Streams
<1>1. TypeOK
  BY DEF TypeOK
<1>2. BytesKept /\ WritersInv
  BY DEF BytesKept, WritersInv
<1>3. EndedInv
  BY DEF EndedInv, DoneWith
<1> QED
  BY <1>1, <1>2, <1>3 DEF OutputInv

\* Where the call goes at first, and what of the pipes it need not read.
LEMMA FirstStageKinds ==
  ASSUME TypeOK
  PROVE  /\ FirstStage \in {"poll", "first_out", "rest_out", "rest_err",
                            "join", "wait"}
         /\ FirstStage = "rest_out" => piped = {"out"}
         /\ FirstStage = "rest_err" => piped = {"err"}
         /\ FirstStage = "wait" => piped = {}
         /\ FirstStage = "join" <=> mode = "tokio"
<1>1. mode \in {"unix", "other", "tokio"}
  BY OutputAssumption DEF TypeOK
<1>2. piped \in {{}, {"out"}, {"err"}, Streams}
  BY DEF TypeOK, Streams
<1> QED
  BY <1>1, <1>2 DEF FirstStage, Streams

LEMMA BytesStep ==
  ASSUME BytesInv, [Next]_vars
  PROVE  BytesInv'
<1> USE OutputAssumption DEF BytesInv, Others, procVars
<1>1. CASE Start
  <2>1. FirstStage \in {"poll", "first_out", "rest_out", "rest_err", "join",
                        "wait"}
    BY FirstStageKinds
  <2>2. TypeOK'
    BY <1>1, <2>1 DEF Start, TypeOK
  <2> QED
    BY <1>1, <2>2 DEF Start, BytesKept, WritersInv
<1>2. ASSUME NEW s \in Streams, ReadSome(s)
      PROVE  BytesInv'
  <2>1. BytesKept'
    BY <1>2 DEF ReadSome, BytesKept, TypeOK
  <2>2. collected'[s] = written[s] /\ written[s] \in 0..MaxBytes
    BY <1>2 DEF ReadSome, BytesKept, TypeOK
  <2>3. TypeOK'
    BY <1>2, <2>2 DEF ReadSome, TypeOK
  <2> QED
    BY <1>2, <2>1, <2>3 DEF ReadSome, WritersInv
<1>3. CASE CallKinds /\ ~\E s \in Streams : ReadSome(s)
  <2>1. TypeOK'
    BY <1>3 DEF CallKinds, Poll, PollInterrupted, TryBlocks, TryEnds,
                FirstEnds, RestEnds, JoinEnds, JoinDone, Wait, WaitErr,
                TypeOK, Rest, Other, Streams
  <2>2. UNCHANGED <<buffered, collected, written, writers, wants>>
    BY <1>3 DEF CallKinds, Poll, PollInterrupted, TryBlocks, TryEnds,
                FirstEnds, RestEnds, JoinEnds, JoinDone, Wait, WaitErr
  <2> QED
    BY <2>1, <2>2 DEF BytesKept, WritersInv
<1>4. ASSUME NEW p \in Procs, NEW q \in Procs, Fork(p, q)
      PROVE  BytesInv'
  <2>1. TypeOK'
    BY <1>4 DEF Fork, TypeOK
  <2>2. BytesKept'
    BY <1>4 DEF Fork, BytesKept
  <2>3. WritersInv'
    BY <1>4 DEF Fork, WritersInv, TypeOK
  <2> QED
    BY <2>1, <2>2, <2>3
<1>5. ASSUME NEW p \in Procs, NEW s \in Streams, BeginWrite(p, s)
      PROVE  BytesInv'
  <2>1. TypeOK'
    BY <1>5 DEF BeginWrite, TypeOK
  <2>2. BytesKept'
    BY <1>5 DEF BeginWrite, BytesKept
  <2>3. WritersInv'
    BY <1>5 DEF BeginWrite, Pending, WritersInv, TypeOK
  <2> QED
    BY <2>1, <2>2, <2>3
<1>6. ASSUME NEW p \in Procs, NEW s \in Streams, Write(p, s)
      PROVE  BytesInv'
  <2>1. written[s] < MaxBytes
    BY <1>6 DEF Write, WritersInv
  <2>2. TypeOK'
    BY <1>6, <2>1 DEF Write, TypeOK
  <2>3. BytesKept'
    BY <1>6 DEF Write, BytesKept, TypeOK
  <2>4. WritersInv'
    BY <1>6 DEF Write, WritersInv, TypeOK, Streams
  <2> QED
    BY <2>2, <2>3, <2>4
<1>7. ASSUME NEW p \in Procs, NEW s \in Streams, Close(p, s)
      PROVE  BytesInv'
  <2>1. TypeOK'
    BY <1>7 DEF Close, TypeOK
  <2>2. BytesKept'
    BY <1>7 DEF Close, BytesKept
  <2>3. WritersInv'
    BY <1>7 DEF Close, WritersInv, TypeOK, Streams
  <2> QED
    BY <2>1, <2>2, <2>3
<1>8. ASSUME NEW p \in Procs, Exit(p)
      PROVE  BytesInv'
  <2>1. TypeOK'
    BY <1>8 DEF Exit, TypeOK
  <2>2. BytesKept'
    BY <1>8 DEF Exit, BytesKept
  <2>3. WritersInv'
    BY <1>8 DEF Exit, WritersInv, TypeOK, Streams
  <2> QED
    BY <2>1, <2>2, <2>3
<1>9. CASE UNCHANGED vars
  BY <1>9 DEF vars, TypeOK, BytesKept, WritersInv
<1> QED
  BY OutputStepKinds, <1>1, <1>2, <1>3, <1>4, <1>5, <1>6, <1>7, <1>8, <1>9

-----------------------------------------------------------------------------
\* A pipe that has ended stays so: nobody is left to write or to pass it on.
LEMMA EndIsForEver ==
  ASSUME BytesInv, [Next]_vars, NEW s \in Streams, EndOfFile(s)
  PROVE  EndOfFile(s)'
<1> USE DEF BytesInv, EndOfFile, Others, procVars
<1>1. CASE Start
  BY <1>1 DEF Start
<1>2. CASE CallKinds
  BY <1>2 DEF CallKinds, ReadSome, Poll, PollInterrupted, TryBlocks, TryEnds,
              FirstEnds, RestEnds, JoinEnds, JoinDone, Wait, WaitErr, TypeOK
<1>3. ASSUME NEW p \in Procs, NEW q \in Procs, Fork(p, q)
      PROVE  EndOfFile(s)'
  BY <1>3 DEF Fork
<1>4. ASSUME NEW p \in Procs, NEW t \in Streams, Write(p, t)
      PROVE  EndOfFile(s)'
  <2>1. t # s
    BY <1>4 DEF Write, WritersInv
  <2> QED
    BY <1>4, <2>1 DEF Write, TypeOK
<1>5. ASSUME NEW p \in Procs, NEW t \in Streams,
             BeginWrite(p, t) \/ Close(p, t)
      PROVE  EndOfFile(s)'
  BY <1>5 DEF BeginWrite, Close, TypeOK
<1>6. ASSUME NEW p \in Procs, Exit(p)
      PROVE  EndOfFile(s)'
  BY <1>6 DEF Exit
<1>7. CASE UNCHANGED vars
  BY <1>7 DEF vars
<1> QED
  BY OutputStepKinds, <1>1, <1>2, <1>3, <1>4, <1>5, <1>6, <1>7

\* The call takes a pipe for ended only when it has.
LEMMA EndedStep ==
  ASSUME OutputInv, [Next]_vars
  PROVE  EndedInv'
<1> USE DEF OutputInv, Others, procVars
<1>0. /\ BytesInv
      /\ DoneWith \subseteq Streams
      /\ \A s \in DoneWith : EndOfFile(s)'
  <2>1. BytesInv
    BY DEF BytesInv
  <2>2. DoneWith \subseteq Streams
    BY DEF DoneWith, TypeOK
  <2> QED
    BY <2>1, <2>2, EndIsForEver DEF EndedInv
<1>1. SUFFICES /\ \A s \in DoneWith' : s \in DoneWith \/ EndOfFile(s)'
               /\ pc' = "done" => Child \in exited'
  BY <1>0 DEF EndedInv
<1>2. CASE Start
  <2>1. /\ pc' = FirstStage /\ piped' = piped
        /\ reading' = IF mode = "tokio" THEN piped ELSE {}
    BY <1>2 DEF Start
  <2>2. DoneWith' = {}
    BY <2>1, FirstStageKinds DEF DoneWith
  <2> QED
    BY <2>1, <2>2, FirstStageKinds
<1>3. ASSUME NEW s \in Streams, TryEnds(s)
      PROVE  /\ \A t \in DoneWith' : EndOfFile(t)'
             /\ pc' # "done"
  <2>1. EndOfFile(s)'
    BY <1>0, <1>3, EndIsForEver DEF TryEnds
  <2>2. /\ s = "out" => pc' = "rest_err"
        /\ s = "err" => pc' = "rest_out"
        /\ s \in {"out", "err"} /\ piped' \subseteq {"out", "err"}
    BY <1>3 DEF TryEnds, Rest, Other, Streams, TypeOK
  <2>3. DoneWith' \subseteq {s}
    BY <2>2 DEF DoneWith
  <2> QED
    BY <2>1, <2>2, <2>3
<1>4. CASE FirstEnds
  <2>1. EndOfFile("out")'
    BY <1>0, <1>4, EndIsForEver DEF FirstEnds, Streams
  <2>2. DoneWith' \subseteq {"out"} /\ pc' # "done"
    BY <1>4 DEF FirstEnds, DoneWith, TypeOK, Streams
  <2> QED
    BY <2>1, <2>2
<1>5. ASSUME NEW s \in Streams, RestEnds(s)
      PROVE  /\ \A t \in DoneWith' : t \in DoneWith \/ EndOfFile(t)'
             /\ pc' # "done"
  <2>1. EndOfFile(s)'
    BY <1>0, <1>5, EndIsForEver DEF RestEnds
  <2>2. DoneWith = piped \ {s} /\ DoneWith' = piped /\ pc' = "wait"
    BY <1>5 DEF RestEnds, DoneWith, Rest, Streams
  <2> QED
    BY <2>1, <2>2
<1>6. ASSUME NEW s \in Streams, JoinEnds(s)
      PROVE  /\ \A t \in DoneWith' : t \in DoneWith \/ EndOfFile(t)'
             /\ pc' # "done"
  <2>1. EndOfFile(s)'
    BY <1>0, <1>6, EndIsForEver DEF JoinEnds
  <2>2. DoneWith = piped \ reading /\ DoneWith' = piped \ reading'
        /\ reading' = reading \ {s} /\ pc' # "done"
    BY <1>6 DEF JoinEnds, DoneWith
  <2> QED
    BY <2>1, <2>2
<1>7. CASE JoinDone \/ Wait
  <2>1. DoneWith = piped /\ DoneWith' = piped
    BY <1>7 DEF JoinDone, Wait, DoneWith
  <2> QED
    BY <1>7, <2>1 DEF JoinDone, Wait
<1>8. CASE \/ Poll \/ PollInterrupted \/ WaitErr
           \/ \E s \in Streams : TryBlocks(s)
  <2>1. DoneWith' = {} /\ pc' # "done"
    BY <1>8 DEF Poll, PollInterrupted, WaitErr, TryBlocks, DoneWith
  <2> QED
    BY <2>1
<1>9. ASSUME NEW s \in Streams, ReadSome(s)
      PROVE  DoneWith' = DoneWith /\ pc' # "done"
  BY <1>9 DEF ReadSome, DoneWith
<1>10. CASE \/ \E p, q \in Procs : Fork(p, q)
            \/ \E p \in Procs, s \in Streams :
                 BeginWrite(p, s) \/ Write(p, s) \/ Close(p, s)
            \/ \E p \in Procs : Exit(p)
            \/ UNCHANGED vars
  <2>1. UNCHANGED <<pc, piped, reading>> /\ exited \subseteq exited'
    BY <1>10 DEF Fork, BeginWrite, Write, Close, Exit, vars
  <2>2. DoneWith' = DoneWith
    BY <2>1 DEF DoneWith
  <2> QED
    BY <2>1, <2>2 DEF EndedInv
<1>11. CASE CallKinds
  BY <1>11, <1>3, <1>4, <1>5, <1>6, <1>7, <1>8, <1>9 DEF CallKinds
<1> QED
  BY OutputStepKinds, <1>2, <1>10, <1>11

-----------------------------------------------------------------------------
LEMMA OutputInvHolds == Spec => []OutputInv
<1>1. Init => OutputInv
  BY OutputInitInv
<1>2. OutputInv /\ [Next]_vars => OutputInv'
  BY BytesStep, EndedStep DEF OutputInv, BytesInv
<1> QED
  BY <1>1, <1>2, PTL DEF Spec

\* TypeOK: the types, which say that no pipe holds more than fits in it and
\* that nothing is read that was not written.
THEOREM OutputTypeCorrect == Spec => []TypeOK
<1>1. OutputInv => TypeOK
  BY DEF OutputInv
<1> QED
  BY <1>1, OutputInvHolds, PTL

\* OutputComplete: when wait_with_output returns, in each of its three forms
\* and for each choice of pipes, all that was written by any process is
\* collected, nobody is left to write more, and the child has exited.
THEOREM NothingUnread == Spec => []OutputComplete
<1>1. OutputInv => OutputComplete
  <2> SUFFICES ASSUME OutputInv, pc = "done"
               PROVE  /\ Child \in exited
                      /\ \A s \in piped : writers[s] = {}
                                          /\ collected[s] = written[s]
    BY DEF OutputComplete
  <2>1. DoneWith = piped
    BY DEF DoneWith
  <2>2. \A s \in piped : EndOfFile(s) /\ s \in Streams
    BY <2>1 DEF OutputInv, EndedInv, TypeOK
  <2>3. \A s \in piped : buffered[s] = 0 /\ collected[s] \in Nat
    BY <2>2 DEF OutputInv, TypeOK, EndOfFile
  <2>4. \A s \in piped : collected[s] = written[s]
    BY <2>2, <2>3 DEF OutputInv, BytesKept
  <2> QED
    BY <2>2, <2>4 DEF OutputInv, EndedInv, EndOfFile
<1> QED
  BY <1>1, OutputInvHolds, PTL

=============================================================================
