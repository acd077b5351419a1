---------------------- MODULE AsyncStreamChannelProofs ----------------------
(***************************************************************************)
(* Proofs about AsyncStreamChannel for transmissions of any number of      *)
(* parts, any limit of the write buffer and any number of transmissions.   *)
(***************************************************************************)
EXTENDS AsyncStreamChannel, SequenceTheorems, TLAPS

(* What m_readDispatching and the reads under way tell of the reading code *)
(* while a transmission is processed, and while it returns.                *)
Processing ==
    control \in {"process", "handler", "receive"} =>
        /\ reads = 0
        /\ dispatching => frames = 1
        /\ frames = 1 => dispatching
        /\ control = "process" => available > 0

Returning ==
    control = "return" =>
        /\ dispatching => frames = 1
        /\ frames = 1 /\ ~dispatching => reads = 0
        /\ owned /\ (frames = 0 \/ dispatching) => reads = 1

Waiting ==
    control = "wait" =>
        /\ frames = 0
        /\ ~dispatching
        /\ owned => reads = 1

(* The inductive invariant of the reading code.                            *)
ReadInv ==
    /\ TypeOK
    /\ frames \in {0, 1}
    /\ reads \in {0, 1}
    /\ Processing
    /\ Returning
    /\ Waiting

-----------------------------------------------------------------------------
(* What asyncWrite and transmitImpl leave has its type.                    *)
LEMMA AsyncWriteType ==
    ASSUME NEW out \in Seq(Nat), AsyncWrite(out)
    PROVE  /\ writeBuffer' \in Seq(Nat)
           /\ output' \in Seq(Nat)
           /\ writing' \in BOOLEAN
           /\ pending' \in BOOLEAN
BY DEF AsyncWrite

LEMMA TransmitImplType ==
    ASSUME TypeOK, TransmitImpl
    PROVE  /\ writeBuffer' \in Seq(Nat)
           /\ output' \in Seq(Nat)
           /\ writing' \in BOOLEAN
           /\ pending' \in BOOLEAN
           /\ wire' \in Seq(Nat)
           /\ sent' \in Nat
           /\ failed' \in BOOLEAN
<1> DEFINE out == Append(output, sent + 1)
<1>1. out \in Seq(Nat)
  BY DEF TypeOK
<1>2. sent' \in Nat
  BY DEF TransmitImpl, TypeOK
<1>3. wire' \in Seq(Nat) /\ failed' \in BOOLEAN
  BY Zenon DEF TransmitImpl, TypeOK
<1>4. CASE writing
  <2>1. output' = out /\ UNCHANGED <<writing, pending, writeBuffer>>
    BY <1>4, Zenon DEF TransmitImpl
  <2>2. QED
    BY <1>1, <1>2, <1>3, <2>1, Zenon DEF TypeOK
<1>5. CASE ~writing
  <2>1. AsyncWrite(out)
    BY <1>5, Zenon DEF TransmitImpl
  <2>2. QED
    BY <1>1, <1>2, <1>3, <2>1, AsyncWriteType
<1>6. QED
  BY <1>4, <1>5

LEMMA ClosingType ==
    ASSUME TypeOK, Closing
    PROVE  /\ owned' = FALSE
           /\ writeBuffer' \in Seq(Nat)
           /\ output' \in Seq(Nat)
           /\ writing' \in BOOLEAN
           /\ pending' \in BOOLEAN
           /\ wire' \in Seq(Nat)
           /\ sent' \in Nat
           /\ failed' \in BOOLEAN
BY TransmitImplType DEF Closing, writeVars, TypeOK

(* The initial states satisfy the invariant.                               *)
LEMMA ReadInit == Init => ReadInv
<1> SUFFICES ASSUME Init PROVE ReadInv
  OBVIOUS
<1>1. stage \in 1..Stages /\ frames \in Nat /\ reads \in Nat /\ coming \in Nat
      /\ available \in Nat /\ sent \in Nat
  BY AsyncStreamChannelAssumption DEF Init
<1>2. output \in Seq(Nat) /\ writeBuffer \in Seq(Nat) /\ wire \in Seq(Nat)
  BY DEF Init
<1>3. TypeOK
  BY <1>1, <1>2, Zenon DEF Init, TypeOK
<1>4. Processing /\ Returning /\ Waiting
  BY DEF Init, Processing, Returning, Waiting
<1>5. frames \in {0, 1} /\ reads \in {0, 1}
  BY DEF Init
<1>6. QED
  BY <1>3, <1>4, <1>5 DEF ReadInv

(* Every step preserves it.                                                *)
LEMMA ReadStep == ReadInv /\ [Next]_vars => ReadInv'
<1> SUFFICES ASSUME ReadInv, [Next]_vars PROVE ReadInv'
  OBVIOUS
<1> USE AsyncStreamChannelAssumption
<1> USE DEF ReadInv, Processing, Returning, Waiting
<1>1. CASE PeerSends
  BY <1>1 DEF PeerSends, TypeOK, writeVars
<1>2. CASE Receive
  <2>1. CASE dispatching
    BY <1>2, <2>1 DEF Receive, TypeOK, writeVars
  <2>2. CASE ~dispatching /\ available > 0
    BY <1>2, <2>2 DEF Receive, AsyncRead, ReadAvailable, TypeOK, writeVars
  <2>3. CASE ~dispatching /\ available = 0
    BY <1>2, <2>3 DEF Receive, AsyncRead, ReadSome, TypeOK, writeVars
  <2>4. QED
    BY <2>1, <2>2, <2>3 DEF TypeOK
<1>3. CASE Process
  BY <1>3 DEF Process, TypeOK, writeVars
<1>4. CASE ProcessFails
  <2>1. Closing
    BY <1>4 DEF ProcessFails
  <2>2. QED
    BY <1>4, <2>1, ClosingType DEF ProcessFails, TypeOK
<1>5. CASE HandlerReturns
  BY <1>5 DEF HandlerReturns, TypeOK, writeVars
<1>6. CASE HandlerCloses
  <2>1. Closing
    BY <1>6 DEF HandlerCloses
  <2>2. QED
    BY <1>6, <2>1, ClosingType DEF HandlerCloses, TypeOK
<1>7. CASE AfterDispatch
  <2>1. CASE dispatching
    <3>1. /\ control = "return"
          /\ frames' = 0
          /\ dispatching' = FALSE
          /\ UNCHANGED <<control, stage, reads, coming, available, owned, writeVars>>
          /\ owned => reads = 1
      BY <1>7, <2>1 DEF AfterDispatch, TypeOK
    <3>2. TypeOK'
      BY <3>1 DEF TypeOK, writeVars
    <3>3. QED
      BY <3>1, <3>2
  <2>2. CASE ~dispatching
    BY <1>7, <2>2 DEF AfterDispatch, TypeOK, writeVars
  <2>3. QED
    BY <2>1, <2>2
<1>8. CASE AfterDestruction
  BY <1>8 DEF AfterDestruction, TypeOK, writeVars
<1>9. CASE Wait
  BY <1>9 DEF Wait, TypeOK, writeVars
<1>10. CASE ReadCompletes
  <2>1. CASE ~owned
    BY <1>10, <2>1 DEF ReadCompletes, TypeOK, writeVars
  <2>2. CASE owned /\ control' = "process"
    BY <1>10, <2>2 DEF ReadCompletes, TypeOK, writeVars
  <2>3. CASE owned /\ Closing /\ UNCHANGED <<control, coming, available>>
    BY <1>10, <2>3, ClosingType DEF ReadCompletes, TypeOK
  <2>4. QED
    BY <1>10, <2>1, <2>2, <2>3 DEF ReadCompletes
<1>11. CASE \E cached \in BOOLEAN : Transmit(cached)
  BY <1>11, TransmitImplType DEF Transmit, TypeOK, readVars
<1>12. CASE TransmitFails
  BY <1>12 DEF TransmitFails, TypeOK, readVars, writeVars
<1>13. CASE WriteCompletes
  <2>1. AsyncWrite(output) /\ wire' = wire \o writeBuffer
    BY <1>13 DEF WriteCompletes
  <2>2. wire' \in Seq(Nat)
    BY <2>1 DEF TypeOK
  <2>3. QED
    BY <1>13, <2>1, <2>2, AsyncWriteType DEF WriteCompletes, TypeOK, readVars
<1>14. CASE WriteFails
  <2>1. Append(output, sent + 1) \in Seq(Nat) /\ sent + 1 \in Nat
    BY DEF TypeOK
  <2>2. output' \in Seq(Nat) /\ sent' \in Nat
    BY <1>14, <2>1, Zenon DEF WriteFails, TypeOK
  <2>3. QED
    BY <1>14, <2>2 DEF WriteFails, TypeOK, readVars
<1>15. CASE Close
  <2>1. Closing
    BY <1>15 DEF Close
  <2>2. QED
    BY <1>15, <2>1, ClosingType DEF Close, TypeOK, readVars
<1>16. CASE StreamFails
  BY <1>16 DEF StreamFails, TypeOK, readVars
<1>17. CASE UNCHANGED vars
  BY <1>17 DEF vars, readVars, writeVars, TypeOK
<1>18. QED
  BY <1>1, <1>2, <1>3, <1>4, <1>5, <1>6, <1>7, <1>8, <1>9, <1>10, <1>11, <1>12,
     <1>13, <1>14, <1>15, <1>16, <1>17 DEF Next, Loop

(* The invariant of the reading code holds throughout.                     *)
LEMMA ReadInvariant == Spec => []ReadInv
BY ReadInit, ReadStep, PTL DEF Spec

(* Every variable of the channel has its type, in particular nothing is    *)
(* taken out of an empty read buffer.                                      *)
THEOREM TypeCorrect == Spec => []TypeOK
<1>1. ReadInv => TypeOK
  BY DEF ReadInv
<1>2. QED
  BY <1>1, ReadInvariant, PTL

(* There is never more than one async_read_some under way, and none while  *)
(* the read buffer is being deserialised.                                  *)
THEOREM SingleRead == Spec => []OneRead
<1>1. ReadInv => OneRead
  BY DEF ReadInv, OneRead, Processing
<1>2. QED
  BY <1>1, ReadInvariant, PTL

(* The reading loop never falls asleep without a read under way, whatever  *)
(* m_readDispatching has gone through.                                     *)
THEOREM KeepsReading == Spec => []NoStall
<1>1. ReadInv => NoStall
  BY DEF ReadInv, NoStall, Waiting
<1>2. QED
  BY <1>1, ReadInvariant, PTL

-----------------------------------------------------------------------------
(* Appending n + 1 to the first n numbers gives the first n + 1 numbers.   *)
LEMMA UpToAppend ==
    ASSUME NEW n \in Nat, NEW s \in Seq(Nat), s = [i \in 1..n |-> i]
    PROVE  Append(s, n + 1) = [i \in 1..(n + 1) |-> i]
<1>1. Len(s) = n
  OBVIOUS
<1>2. QED
  BY <1>1

(* Appending to the last of three sequences appends to all of them.        *)
LEMMA ConcatAppend ==
    ASSUME NEW a \in Seq(Nat), NEW b \in Seq(Nat), NEW n \in Nat
    PROVE  a \o Append(b, n) = Append(a \o b, n)
BY SMTT(60)

(* A transmission appends its number to what is written and to be written. *)
LEMMA TransmitOrder ==
    ASSUME TypeOK, WriteOrder, TransmitImpl, ~writing => writeBuffer = <<>>
    PROVE  WriteOrder'
<1> DEFINE out == Append(output, sent + 1)
<1>1. (wire \o writeBuffer) \o out = [i \in 1..(sent + 1) |-> i]
  <2>1. wire \o writeBuffer \in Seq(Nat)
    BY DEF TypeOK
  <2>2. (wire \o writeBuffer) \o out = Append((wire \o writeBuffer) \o output, sent + 1)
    <3>1. output \in Seq(Nat) /\ sent + 1 \in Nat
      BY DEF TypeOK
    <3>2. QED
      BY <2>1, <3>1, ConcatAppend, Zenon
  <2>3. (wire \o writeBuffer) \o output \in Seq(Nat)
    BY <2>1 DEF TypeOK
  <2>4. QED
    BY <2>2, <2>3, UpToAppend DEF WriteOrder, TypeOK
<1>2. CASE writing
  BY <1>1, <1>2 DEF TransmitImpl, WriteOrder
<1>3. CASE ~writing
  <2>1. wire \o writeBuffer = wire
    BY <1>3 DEF TypeOK
  <2>2. out \in Seq(Nat)
    BY DEF TypeOK
  <2>3. (wire \o out) \o <<>> = wire \o out
    BY <2>2 DEF TypeOK
  <2>4. QED
    BY <1>1, <1>3, <2>1, <2>3 DEF TransmitImpl, AsyncWrite, WriteOrder
<1>4. QED
  BY <1>2, <1>3

(* Nothing waits in m_writeBuffer unless m_asyncWriting says so.           *)
WriteInv ==
    /\ WriteOrder
    /\ ~writing => writeBuffer = <<>>

LEMMA TransmitWriteInv ==
    ASSUME TypeOK, WriteInv, TransmitImpl
    PROVE  WriteInv'
<1>1. WriteOrder'
  BY TransmitOrder DEF WriteInv
<1>2. (~writing => writeBuffer = <<>>)'
  BY DEF TransmitImpl, AsyncWrite, WriteInv, TypeOK
<1>3. QED
  BY <1>1, <1>2 DEF WriteInv

LEMMA ClosingWriteInv ==
    ASSUME TypeOK, WriteInv, Closing
    PROVE  WriteInv'
<1>1. CASE UNCHANGED writeVars
  BY <1>1 DEF WriteInv, WriteOrder, writeVars
<1>2. CASE TransmitImpl
  BY <1>2, TransmitWriteInv
<1>3. QED
  BY <1>1, <1>2 DEF Closing

LEMMA WriteStep == TypeOK /\ WriteInv /\ [Next]_vars => WriteInv'
<1> SUFFICES ASSUME TypeOK, WriteInv, [Next]_vars PROVE WriteInv'
  OBVIOUS
<1>1. CASE UNCHANGED writeVars
  BY <1>1 DEF WriteInv, WriteOrder, writeVars
<1>2. CASE Closing
  BY <1>2, ClosingWriteInv
<1>3. CASE TransmitImpl
  BY <1>3, TransmitWriteInv
<1>4. CASE WriteCompletes
  <2>1. /\ wire' = wire \o writeBuffer
        /\ writeBuffer' = output
        /\ output' = <<>>
        /\ writing' = (output # <<>>)
        /\ sent' = sent
    BY <1>4 DEF WriteCompletes, AsyncWrite
  <2>2. (wire \o writeBuffer) \o output \in Seq(Nat)
    BY DEF TypeOK
  <2>3. ((wire \o writeBuffer) \o output) \o <<>> = (wire \o writeBuffer) \o output
    BY <2>2
  <2>4. QED
    BY <2>1, <2>3 DEF WriteInv, WriteOrder
<1>5. CASE WriteFails
  <2>1. CASE UNCHANGED <<output, sent>>
    BY <1>5, <2>1 DEF WriteFails, WriteInv, WriteOrder
  <2>2. CASE output' = Append(output, sent + 1) /\ sent' = sent + 1
    <3>1. /\ wire \o writeBuffer \in Seq(Nat)
          /\ (wire \o writeBuffer) \o output \in Seq(Nat)
      BY DEF TypeOK
    <3>2. (wire \o writeBuffer) \o output' = Append((wire \o writeBuffer) \o output, sent + 1)
      <4>1. output \in Seq(Nat) /\ sent + 1 \in Nat
        BY DEF TypeOK
      <4>2. (wire \o writeBuffer) \o Append(output, sent + 1) = Append((wire \o writeBuffer) \o output, sent + 1)
        BY ONLY <3>1, <4>1, ConcatAppend
      <4> QED
        BY <2>2, <4>2
    <3>3. Append((wire \o writeBuffer) \o output, sent + 1) = [i \in 1..(sent + 1) |-> i]
      BY <3>1, UpToAppend DEF WriteInv, WriteOrder, TypeOK
    <3>4. QED
      BY <1>5, <2>2, <3>2, <3>3 DEF WriteFails, WriteInv, WriteOrder
  <2>3. QED
    BY <1>5, <2>1, <2>2 DEF WriteFails
<1>6. CASE StreamFails
  BY <1>6 DEF StreamFails, WriteInv, WriteOrder
<1>7. CASE Loop \/ PeerSends
  BY <1>1, <1>2, <1>7 DEF Loop, PeerSends, Receive, Process, ProcessFails,
     HandlerReturns, HandlerCloses, AfterDispatch, AfterDestruction, Wait
<1>8. CASE ReadCompletes
  BY <1>1, <1>2, <1>8 DEF ReadCompletes
<1>9. CASE \E cached \in BOOLEAN : Transmit(cached)
  BY <1>3, <1>9 DEF Transmit
<1>10. CASE TransmitFails \/ Close \/ UNCHANGED vars
  BY <1>1, <1>2, <1>10 DEF TransmitFails, Close, vars
<1>11. QED
  BY <1>4, <1>5, <1>6, <1>7, <1>8, <1>9, <1>10 DEF Next

(* What is written, being written and waiting is at any time everything    *)
(* transmitted, in order and once.                                         *)
THEOREM InOrder == Spec => []WriteOrder
<1>1. Init => WriteInv
  <2>1. SUFFICES ASSUME Init PROVE (<<>> \o <<>>) \o <<>> = [i \in 1..0 |-> i]
    BY DEF Init, WriteInv, WriteOrder
  <2>2. QED
    OBVIOUS
<1>2. TypeOK /\ WriteInv /\ [Next]_vars => WriteInv'
  BY WriteStep
<1>3. WriteInv => WriteOrder
  BY DEF WriteInv
<1>4. QED
  BY <1>1, <1>2, <1>3, TypeCorrect, PTL DEF Spec

-----------------------------------------------------------------------------
(* m_asyncWriting tells whether a write is under way, unless one has       *)
(* failed, and nothing waits when it is not set.                           *)
FlushInv ==
    /\ pending => writing
    /\ writing => pending \/ failed
    /\ ~writing => output = <<>> /\ writeBuffer = <<>>

(* asyncWrite and transmitImpl preserve it.                                *)
LEMMA AsyncWriteFlush ==
    ASSUME NEW out, AsyncWrite(out)
    PROVE  FlushInv'
BY DEF AsyncWrite, FlushInv

LEMMA TransmitFlush ==
    ASSUME FlushInv, TransmitImpl
    PROVE  FlushInv'
<1>1. CASE writing
  BY <1>1 DEF TransmitImpl, FlushInv
<1>2. CASE ~writing
  BY <1>2, AsyncWriteFlush DEF TransmitImpl
<1>3. QED
  BY <1>1, <1>2

(* Every step preserves it.                                                *)
LEMMA FlushStep == FlushInv /\ [Next]_vars => FlushInv'
<1> SUFFICES ASSUME FlushInv, [Next]_vars PROVE FlushInv'
  OBVIOUS
<1>1. CASE UNCHANGED writeVars
  BY <1>1 DEF FlushInv, writeVars
<1>2. CASE TransmitImpl
  BY <1>2, TransmitFlush
<1>3. CASE Closing
  BY <1>1, <1>2, <1>3 DEF Closing
<1>4. CASE WriteCompletes
  BY <1>4, AsyncWriteFlush DEF WriteCompletes
<1>5. CASE WriteFails
  BY <1>5 DEF WriteFails, FlushInv
<1>6. CASE StreamFails
  BY <1>6 DEF StreamFails, FlushInv
<1>7. CASE Loop \/ PeerSends
  BY <1>1, <1>3, <1>7 DEF Loop, PeerSends, Receive, Process, ProcessFails,
     HandlerReturns, HandlerCloses, AfterDispatch, AfterDestruction, Wait
<1>8. CASE ReadCompletes
  BY <1>1, <1>3, <1>8 DEF ReadCompletes
<1>9. CASE \E cached \in BOOLEAN : Transmit(cached)
  BY <1>2, <1>9 DEF Transmit
<1>10. CASE TransmitFails \/ Close \/ UNCHANGED vars
  BY <1>1, <1>3, <1>10 DEF TransmitFails, Close, vars
<1>11. QED
  BY <1>4, <1>5, <1>6, <1>7, <1>8, <1>9, <1>10 DEF Next

(* A channel is destroyed only when everything transmitted through it has  *)
(* been written, or the stream has failed.                                 *)
THEOREM FlushedBeforeDestruction == Spec => []Flushed
<1>1. Init => FlushInv
  BY DEF Init, FlushInv
<1>2. FlushInv /\ [Next]_vars => FlushInv'
  BY FlushStep
<1>3. TypeOK /\ WriteOrder /\ FlushInv => Flushed
  <2> SUFFICES ASSUME TypeOK, WriteOrder, FlushInv, ~Alive, ~failed
               PROVE  wire = [i \in 1..sent |-> i]
    BY DEF Flushed
  <2>1. output = <<>> /\ writeBuffer = <<>>
    BY DEF Alive, FlushInv
  <2>2. (wire \o <<>>) \o <<>> = wire
    BY DEF TypeOK
  <2>3. QED
    BY <2>1, <2>2 DEF WriteOrder
<1>4. QED
  BY <1>1, <1>2, <1>3, TypeCorrect, InOrder, PTL DEF Spec
=============================================================================
