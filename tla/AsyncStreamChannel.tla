------------------------- MODULE AsyncStreamChannel -------------------------
(***************************************************************************)
(* dots::io::AsyncStreamChannel with the parts of Channel it calls: the    *)
(* reading loop, which goes on synchronously as long as the read buffer    *)
(* holds transmissions, the writing of everything transmitted meanwhile in *)
(* bulk, and the lifetime of the channel, which ends with its connection   *)
(* or with the last write, whichever comes later.                          *)
(*                                                                         *)
(* A transmission on the stream is a sequence of Stages parts, each read   *)
(* as a whole: the size and the rest in format v2, the size of the header, *)
(* the header and the payload in format v1.  All of it runs in one event   *)
(* loop: control says what the reading code is doing.                      *)
(***************************************************************************)
EXTENDS Naturals, Sequences

CONSTANTS
    Stages,     \* parts of a transmission, 2 or 3
    Limit,      \* WriteBufferMaxSize, in transmissions
    MaxIn,      \* bound: transmissions the peer sends
    MaxOut      \* bound: transmissions sent to the peer

ASSUME AsyncStreamChannelAssumption ==
    /\ Stages \in Nat \ {0}
    /\ Limit \in Nat
    /\ MaxIn \in Nat
    /\ MaxOut \in Nat

VARIABLES
    control,     \* what the reading code is doing
    stage,       \* the part that is read or processed
    dispatching, \* m_readDispatching
    frames,      \* calls of asyncRead that have called dispatch
    reads,       \* calls of async_read_some that have not completed
    coming,      \* parts on their way
    available,   \* parts in the read buffer, m_serializer.inputAvailable()
    owned,       \* whether the connection holds the channel
    writing,     \* m_asyncWriting
    pending,     \* whether an async_write has not completed
    output,      \* m_serializer.output()
    writeBuffer, \* m_writeBuffer
    wire,        \* what has been written to the stream
    sent,        \* transmissions accepted by transmitImpl so far
    failed       \* whether the stream has failed

readVars == <<control, stage, dispatching, frames, reads, coming, available>>
writeVars == <<writing, pending, output, writeBuffer, wire, sent, failed>>
vars == <<readVars, owned, writeVars>>

(* Seeded fault: a write does not keep the channel alive.                  *)
FaultAlive == owned

(* The connection holds a reference, and so does a write under way.        *)
Alive == owned \/ pending

Init ==
    /\ control = "receive"
    /\ stage = 1
    /\ dispatching = FALSE
    /\ frames = 0
    /\ reads = 0
    /\ coming = 0
    /\ available = 0
    /\ owned = TRUE
    /\ writing = FALSE
    /\ pending = FALSE
    /\ output = <<>>
    /\ writeBuffer = <<>>
    /\ wire = <<>>
    /\ sent = 0
    /\ failed = FALSE

-----------------------------------------------------------------------------
(* Transmitting *)

(* Seeded fault: the buffers are swapped, but the output is not cleared.   *)
FaultAsyncWrite(out) ==
    /\ writeBuffer' = out
    /\ output' = writeBuffer
    /\ writing' = (out # <<>>)
    /\ pending' = (out # <<>>)

(* asyncWrite: everything serialised so far is written at once.            *)
AsyncWrite(out) ==
    /\ writeBuffer' = out
    /\ output' = <<>>
    /\ writing' = (out # <<>>)
    /\ pending' = (out # <<>>)

(* transmitImpl: a transmission waits for the write that is under way.     *)
TransmitImpl ==
    /\ sent < MaxOut
    /\ sent' = sent + 1
    /\ LET out == Append(output, sent + 1) IN
       IF writing
       THEN output' = out /\ UNCHANGED <<writing, pending, writeBuffer>>
       ELSE AsyncWrite(out)
    /\ UNCHANGED <<wire, failed>>

(* The connection gives up the channel.  Before that it transmits a        *)
(* DotsMsgError, unless it is not connected or there is no room for it.    *)
Closing ==
    /\ owned' = FALSE
    /\ UNCHANGED writeVars \/ (Len(output) <= Limit /\ TransmitImpl)

-----------------------------------------------------------------------------
(* Reading *)

PeerSends ==
    /\ coming + available + Stages <= Stages * MaxIn
    /\ coming' = coming + Stages
    /\ UNCHANGED <<control, stage, dispatching, frames, reads, available, owned,
                   writeVars>>

(* asyncRead for part s, when the read buffer has it: the handler is       *)
(* dispatched, that is called, unless the connection is gone by now.       *)
ReadAvailable(s) ==
    /\ dispatching' = TRUE
    /\ frames' = frames + 1
    /\ stage' = s
    /\ control' = IF owned THEN "process" ELSE "return"
    /\ UNCHANGED <<reads, available>>

(* Otherwise a read of the stream is started.                              *)
ReadSome(s) ==
    /\ reads' = reads + 1
    /\ stage' = s
    /\ control' = "return"
    /\ UNCHANGED <<dispatching, frames, available>>

AsyncRead(s) == IF available > 0 THEN ReadAvailable(s) ELSE ReadSome(s)

(* Seeded fault: a call from within a dispatched handler reads, too.       *)
FaultReceive ==
    /\ control = "receive"
    /\ Alive
    /\ AsyncRead(1)
    /\ UNCHANGED <<coming, owned, writeVars>>

(* asyncReceiveImpl: a call from within a dispatched handler only tells    *)
(* the call of asyncRead below to go on.                                   *)
Receive ==
    /\ control = "receive"
    /\ Alive
    /\ IF dispatching
       THEN /\ dispatching' = FALSE
            /\ control' = "return"
            /\ UNCHANGED <<stage, frames, reads, available>>
       ELSE AsyncRead(1)
    /\ UNCHANGED <<coming, owned, writeVars>>

(* Seeded fault: the next part is processed whether it is there or not.    *)
FaultProcess ==
    /\ control = "process"
    /\ available' = available - 1
    /\ IF stage = Stages
       THEN control' = "handler" /\ UNCHANGED stage
       ELSE stage' = stage + 1 /\ UNCHANGED control
    /\ UNCHANGED <<dispatching, frames, reads, coming, owned, writeVars>>

(* A part is taken from the read buffer; the last one is handed to         *)
(* processReceive.  A part that is not there yet is read from the stream.  *)
Process ==
    /\ control = "process"
    /\ available' = available - 1
    /\ IF stage = Stages
       THEN control' = "handler" /\ UNCHANGED <<stage, reads>>
       ELSE /\ stage' = stage + 1
            /\ IF available > 1
               THEN UNCHANGED <<control, reads>>
               ELSE control' = "return" /\ reads' = reads + 1
    /\ UNCHANGED <<dispatching, frames, coming, owned, writeVars>>

(* Deserialising the part, or importing its types, fails: processError.    *)
ProcessFails ==
    /\ control = "process"
    /\ available' = available - 1
    /\ control' = "return"
    /\ Closing
    /\ UNCHANGED <<stage, dispatching, frames, reads, coming>>

(* The receive handler returns.  When a transmission of its own has failed *)
(* the connection is gone: a guest's handler still returns true, a host's  *)
(* reads the state of the destroyed connection.                            *)
HandlerReturns ==
    /\ control = "handler"
    /\ control' \in IF owned THEN {"receive"} ELSE {"receive", "return"}
    /\ UNCHANGED <<stage, dispatching, frames, reads, coming, available, owned,
                   writeVars>>

(* The receive handler closes the connection and returns false, as for a   *)
(* DotsMsgError, or throws, which makes processError close it.             *)
HandlerCloses ==
    /\ control = "handler"
    /\ owned
    /\ control' = "return"
    /\ Closing
    /\ UNCHANGED <<stage, dispatching, frames, reads, coming, available>>

(* Seeded fault: the loop does not go on after a dispatched handler.       *)
FaultAfterDispatch ==
    /\ control = "return"
    /\ frames > 0
    /\ Alive
    /\ frames' = frames - 1
    /\ dispatching' = FALSE
    /\ UNCHANGED <<control, stage, reads, coming, available, owned, writeVars>>

(* Back in asyncRead after dispatch: m_readDispatching tells whether the   *)
(* handler has asked for more.                                             *)
AfterDispatch ==
    /\ control = "return"
    /\ frames > 0
    /\ Alive
    /\ frames' = frames - 1
    /\ IF dispatching THEN dispatching' = FALSE /\ UNCHANGED control
                      ELSE control' = "receive" /\ UNCHANGED dispatching
    /\ UNCHANGED <<stage, reads, coming, available, owned, writeVars>>

(* The same when the channel has been destroyed: undefined behaviour.      *)
AfterDestruction ==
    /\ (control = "return" /\ frames > 0) \/ control = "receive"
    /\ ~Alive
    /\ control' = "undefined"
    /\ UNCHANGED <<stage, dispatching, frames, reads, coming, available, owned,
                   writeVars>>

(* Back in the event loop.                                                 *)
Wait ==
    /\ control = "return"
    /\ frames = 0
    /\ control' = "wait"
    /\ UNCHANGED <<stage, dispatching, frames, reads, coming, available, owned,
                   writeVars>>

(* async_read_some completes with what has come, or with an error.         *)
ReadCompletes ==
    /\ control = "wait"
    /\ reads > 0
    /\ reads' = reads - 1
    /\ IF ~owned
       THEN UNCHANGED <<control, coming, available, owned, writeVars>>
       ELSE \/ /\ \E n \in 1..coming :
                      available' = available + n /\ coming' = coming - n
               /\ control' = "process"
               /\ UNCHANGED <<owned, writeVars>>
            \/ /\ failed
               /\ Closing
               /\ UNCHANGED <<control, coming, available>>
    /\ UNCHANGED <<stage, dispatching, frames>>

-----------------------------------------------------------------------------
(* Writing *)

(* User code runs in a receive handler and in other handlers of the loop.  *)
UserCode == owned /\ control \in {"handler", "wait"}

(* The payload may come from the cache of the listener's channels, and     *)
(* then the size of the output is not looked at.                           *)
Transmit(cached) ==
    /\ UserCode
    /\ cached \/ Len(output) <= Limit
    /\ TransmitImpl
    /\ UNCHANGED <<readVars, owned>>

(* The output exceeds its maximum size: the connection closes, and cannot  *)
(* transmit the DotsMsgError either.                                       *)
TransmitFails ==
    /\ UserCode
    /\ sent < MaxOut
    /\ Len(output) > Limit
    /\ owned' = FALSE
    /\ UNCHANGED <<readVars, writeVars>>

(* Seeded fault: what has been transmitted meanwhile waits for the next    *)
(* transmission.                                                           *)
FaultWriteCompletes ==
    /\ control = "wait"
    /\ pending
    /\ wire' = wire \o writeBuffer
    /\ writeBuffer' = <<>>
    /\ pending' = FALSE
    /\ writing' = FALSE
    /\ UNCHANGED <<readVars, owned, output, sent, failed>>

(* A write completes, and what has been transmitted meanwhile is written.  *)
WriteCompletes ==
    /\ control = "wait"
    /\ pending
    /\ wire' = wire \o writeBuffer
    /\ AsyncWrite(output)
    /\ UNCHANGED <<readVars, owned, sent, failed>>

(* A write fails.  m_asyncWriting stays set: what the connection still     *)
(* transmits is never written.                                             *)
WriteFails ==
    /\ control = "wait"
    /\ pending
    /\ failed
    /\ pending' = FALSE
    /\ owned' = FALSE
    /\ \/ UNCHANGED <<output, sent>>
       \/ /\ owned
          /\ sent < MaxOut
          /\ Len(output) <= Limit
          /\ output' = Append(output, sent + 1)
          /\ sent' = sent + 1
    /\ UNCHANGED <<readVars, writing, writeBuffer, wire, failed>>

(* The connection is closed from elsewhere in the loop.                    *)
Close ==
    /\ control = "wait"
    /\ owned
    /\ Closing
    /\ UNCHANGED readVars

(* The stream fails: operations under way complete with an error.          *)
StreamFails ==
    /\ ~failed
    /\ failed' = TRUE
    /\ UNCHANGED <<readVars, owned, writing, pending, output, writeBuffer, wire,
                   sent>>

-----------------------------------------------------------------------------
Loop ==
    \/ Receive
    \/ Process
    \/ ProcessFails
    \/ HandlerReturns
    \/ HandlerCloses
    \/ AfterDispatch
    \/ AfterDestruction
    \/ Wait

Next ==
    \/ PeerSends
    \/ Loop
    \/ ReadCompletes
    \/ \E cached \in BOOLEAN : Transmit(cached)
    \/ TransmitFails
    \/ WriteCompletes
    \/ WriteFails
    \/ Close
    \/ StreamFails

Spec == Init /\ [][Next]_vars

(* Code that runs goes on, and an operation on the stream completes when   *)
(* it can: a read when there is something to read, a write in any case,    *)
(* since the peer reads.  The write has to wait for the reading code to    *)
(* return to the loop, again and again.                                    *)
Fairness ==
    /\ WF_vars(Loop)
    /\ WF_vars(ReadCompletes)
    /\ SF_vars(WriteCompletes \/ WriteFails)

FairSpec == Spec /\ Fairness

-----------------------------------------------------------------------------
(* Properties *)

(* Every variable has its type; in particular nothing is taken out of an   *)
(* empty read buffer (AsyncStreamChannel::deserializeTransmission).        *)
TypeOK ==
    /\ control \in {"receive", "process", "handler", "return", "wait", "undefined"}
    /\ stage \in 1..Stages
    /\ dispatching \in BOOLEAN
    /\ frames \in Nat
    /\ reads \in Nat
    /\ coming \in Nat
    /\ available \in Nat
    /\ owned \in BOOLEAN
    /\ writing \in BOOLEAN
    /\ pending \in BOOLEAN
    /\ output \in Seq(Nat)
    /\ writeBuffer \in Seq(Nat)
    /\ wire \in Seq(Nat)
    /\ sent \in Nat
    /\ failed \in BOOLEAN

(* At most one read of the stream is under way, and none while a           *)
(* transmission is processed: two would write to the same read buffer, and *)
(* one under way would write to the buffer being deserialised.             *)
OneRead ==
    /\ reads <= 1
    /\ control \in {"process", "handler"} => reads = 0

(* When the reading code has returned to the event loop a channel that is  *)
(* in use has a read under way: m_readDispatching never swallows the       *)
(* request of a receive handler for the next transmission.                 *)
NoStall == control = "wait" /\ owned => reads = 1

(* However transmits and completions of writes alternate, what is written, *)
(* being written and waiting is everything transmitted, in order and once. *)
WriteOrder == wire \o writeBuffer \o output = [i \in 1..sent |-> i]

(* A channel is not destroyed before all that was transmitted through it   *)
(* has been written, unless the stream fails: the last transmission before *)
(* a connection is closed is the DotsMsgError that says why.               *)
Flushed == ~Alive => failed \/ wire = [i \in 1..sent |-> i]

(* Whatever is transmitted is written some time, unless the stream fails.  *)
Written == \A n \in 1..MaxOut : sent >= n ~> (Len(wire) >= n \/ failed)

(* "if the receive handler yields 'false', the channel must no longer be   *)
(* accessed afterwards, because it might have already been deleted by the  *)
(* callee prior to returning" (Channel::processReceive): the reading code  *)
(* never goes on in a channel that has been destroyed.                     *)
NoUseAfterDestruction == control # "undefined"
=============================================================================
