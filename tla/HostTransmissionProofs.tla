----------------------- MODULE HostTransmissionProofs -----------------------
(***************************************************************************)
(* Proofs about HostTransmission: for any connections, any number of them  *)
(* failing, and any depth of calls.                                        *)
(***************************************************************************)
EXTENDS HostTransmission, SequenceTheorems, TLAPS

(* No transmission handler publishes.                                      *)
NoEarlyReaction == \A r \in Reaction : r[1] # "transmission"

(* A call that will take instance k of the closed connection c out of the  *)
(* container.                                                              *)
Removes(f, k, c) ==
    \/ f.call = "close" /\ f.sender = c /\ f.at = "transition"
    \/ f.call = "close" /\ f.sender = c /\ f.at = "cleanup" /\ k \in f.pending
    \/ f.call = "publish" /\ f.at = "transmission" /\ f.key = k /\ f.remove

(* An instance whose connection is closed has such a call under way.       *)
Attended ==
    \A k \in Key :
        updater[k] \in Conn /\ state[updater[k]] # "connected" =>
            \E n \in DOMAIN stack : Removes(stack[n], k, updater[k])

(* The publication of a guest is the innermost call until it has reached   *)
(* the container, so that the guest is connected all the while.            *)
Early(f) == f.call = "publish" /\ f.at = "transmission" /\ f.sender # HostId
Innermost ==
    \A n \in DOMAIN stack :
        Early(stack[n]) => n = Len(stack) /\ state[stack[n].sender] = "connected"

-----------------------------------------------------------------------------
(* Stacks *)

(* What an appended call makes of a stack.                                 *)
LEMMA AppendStack ==
    ASSUME NEW s \in Seq(Frame), NEW f \in Frame
    PROVE  /\ Append(s, f) \in Seq(Frame)
           /\ Len(Append(s, f)) = Len(s) + 1
           /\ DOMAIN Append(s, f) = 1..(Len(s) + 1)
           /\ \A n \in 1..Len(s) : Append(s, f)[n] = s[n]
           /\ Append(s, f)[Len(s) + 1] = f
OBVIOUS

(* What a return makes of a stack.                                         *)
LEMMA ReturnsStack ==
    ASSUME NEW s \in Seq(Frame), s # <<>>
    PROVE  /\ Front(s) \in Seq(Frame)
           /\ Len(s) \in Nat \ {0} /\ Len(Front(s)) = Len(s) - 1
           /\ DOMAIN Front(s) = 1..(Len(s) - 1)
           /\ \A n \in DOMAIN Front(s) : n \in DOMAIN s /\ n # Len(s) /\ Front(s)[n] = s[n]
<1>1. Len(s) \in Nat \ {0} /\ DOMAIN s = 1..Len(s)
  BY EmptySeq, LenProperties
<1>2. \A i \in 1..(Len(s) - 1) : s[i] \in Frame
  BY <1>1
<1>3. /\ Front(s) \in Seq(Frame) /\ Len(Front(s)) = Len(s) - 1
      /\ \A i \in 1..(Len(s) - 1) : Front(s)[i] = s[i]
  BY <1>1, <1>2, SubSeqProperties DEF Front
<1> QED
  BY <1>1, <1>3, LenProperties

(* What replacing the innermost call makes of a stack.                     *)
LEMMA BecomesStack ==
    ASSUME NEW s \in Seq(Frame), s # <<>>, NEW f \in Frame
    PROVE  /\ Append(Front(s), f) \in Seq(Frame)
           /\ Len(Append(Front(s), f)) = Len(s)
           /\ DOMAIN Append(Front(s), f) = DOMAIN s
           /\ \A n \in DOMAIN s : n # Len(s) => Append(Front(s), f)[n] = s[n]
           /\ Append(Front(s), f)[Len(s)] = f
<1> DEFINE h == Front(s)
<1>1. /\ h \in Seq(Frame) /\ Len(h) = Len(s) - 1 /\ Len(s) \in Nat \ {0}
      /\ DOMAIN s = 1..Len(s)
      /\ \A n \in 1..(Len(s) - 1) : h[n] = s[n]
  BY ReturnsStack, LenProperties
<1> HIDE DEF h
<1>2. Append(h, f) \in Seq(Frame) /\ Len(Append(h, f)) = Len(s)
  BY <1>1
<1>3. \A n \in 1..(Len(s) - 1) : Append(h, f)[n] = h[n]
  BY <1>1
<1>4. Append(h, f)[Len(s)] = f
  BY <1>1
<1> QED
  BY <1>1, <1>2, <1>3, <1>4 DEF h

(* What a further call makes of a stack.                                   *)
LEMMA CallsStack ==
    ASSUME NEW s \in Seq(Frame), s # <<>>, NEW f \in Frame, NEW g \in Frame
    PROVE  /\ Front(s) \o <<f, g>> \in Seq(Frame)
           /\ Len(Front(s) \o <<f, g>>) = Len(s) + 1
           /\ DOMAIN (Front(s) \o <<f, g>>) = 1..(Len(s) + 1)
           /\ \A n \in DOMAIN s : n # Len(s) => (Front(s) \o <<f, g>>)[n] = s[n]
           /\ (Front(s) \o <<f, g>>)[Len(s)] = f
           /\ (Front(s) \o <<f, g>>)[Len(s) + 1] = g
<1> DEFINE h == Front(s)
<1>1. /\ h \in Seq(Frame) /\ Len(h) = Len(s) - 1 /\ Len(s) \in Nat \ {0}
      /\ DOMAIN s = 1..Len(s)
      /\ \A n \in 1..(Len(s) - 1) : h[n] = s[n]
  BY ReturnsStack, LenProperties
<1>2. <<f, g>> \in Seq(Frame) /\ Len(<<f, g>>) = 2
  OBVIOUS
<1> HIDE DEF h
<1>3. h \o <<f, g>> \in Seq(Frame) /\ Len(h \o <<f, g>>) = Len(s) + 1
  BY <1>1, <1>2
<1>4. \A n \in 1..(Len(s) - 1) : (h \o <<f, g>>)[n] = h[n]
  BY <1>1, <1>2
<1>5. (h \o <<f, g>>)[Len(s)] = f /\ (h \o <<f, g>>)[Len(s) + 1] = g
  BY <1>1, <1>2
<1> QED
  BY <1>1, <1>3, <1>4, <1>5 DEF h

(* The innermost call.                                                     *)
LEMMA TopOfStack ==
    ASSUME stack \in Seq(Frame), stack # <<>>
    PROVE  Top \in Frame /\ Len(stack) \in DOMAIN stack /\ Top = stack[Len(stack)]
BY DEF Top, Last

(* The calls that are made, and what becomes of a call, are calls.         *)
LEMMA Frames ==
    /\ \A k \in Key, c \in Conn \cup {HostId}, r \in BOOLEAN : Publication(k, c, r) \in Frame
    /\ \A c \in Conn : Closing(c) \in Frame
    /\ \A keys \in SUBSET Key : Clearing(keys) \in Frame
    /\ \A f \in Frame, k \in Key \cup {Nobody} : Forget(f, k) \in Frame
    /\ \A f \in Frame, keys \in SUBSET Key :
           /\ [f EXCEPT !.pending = keys] \in Frame
           /\ [f EXCEPT !.at = "cleanup", !.pending = keys] \in Frame
    /\ \A f \in Frame, conns \in SUBSET Conn :
           /\ [f EXCEPT !.dirty = conns] \in Frame
           /\ [f EXCEPT !.at = "transmitted", !.dirty = conns] \in Frame
    /\ \A f \in Frame : [f EXCEPT !.at = "dispatched"] \in Frame /\ [f EXCEPT !.at = "event"] \in Frame
BY ZenonT(40) DEF Frame, Publication, Closing, Clearing, Forget

(* The callers of a removal, which may be left with dangling references.   *)
LEMMA ForgetStack ==
    ASSUME NEW s \in Seq(Frame), NEW k \in Key \cup {Nobody}
    PROVE  /\ [n \in DOMAIN s |-> Forget(s[n], k)] \in Seq(Frame)
           /\ Len([n \in DOMAIN s |-> Forget(s[n], k)]) = Len(s)
<1>1. Len(s) \in Nat /\ DOMAIN s = 1..Len(s) /\ \A n \in DOMAIN s : s[n] \in Frame
  BY LenProperties
<1>2. \A n \in DOMAIN s : Forget(s[n], k) \in Frame
  BY <1>1, Frames
<1> DEFINE h == [n \in DOMAIN s |-> Forget(s[n], k)]
<1>3. h \in [1..Len(s) -> Frame]
  BY <1>1, <1>2
<1> HIDE DEF h
<1>4. h \in Seq(Frame) /\ Len(h) = Len(s)
  BY <1>1, <1>3
<1> QED
  BY <1>4 DEF h

-----------------------------------------------------------------------------
(* Types *)

USE DEF HostId, Nobody

LEMMA TypeInit == Init => TypeOK
BY HostTransmissionAssumption DEF Init, TypeOK

LEMMA TypeStep == TypeOK /\ [Next]_vars => TypeOK'
<1> SUFFICES ASSUME TypeOK, [Next]_vars PROVE TypeOK'
  OBVIOUS
<1> USE DEF TypeOK
<1>0. stack # <<>> => Top \in Frame
  BY TopOfStack
<1>1. ASSUME NEW c \in Conn, Accept(c) PROVE TypeOK'
  BY <1>1 DEF Accept, Idle
<1>2. ASSUME NEW c \in Conn, WriteBuffer(c) PROVE TypeOK'
  BY <1>2 DEF WriteBuffer, WriteBufferExceeds, WriteBufferFlushed
<1>3. ASSUME NEW c \in Conn, Join(c) PROVE TypeOK'
  <2>1. Closing(c) \in Frame
    BY Frames
  <2>2. stack' = stack \/ stack' = <<Closing(c)>>
    BY <1>3 DEF Join
  <2>3. <<Closing(c)>> \in Seq(Frame) /\ stack \in Seq(Frame)
    BY <2>1
  <2>4. stack' \in Seq(Frame)
    BY <2>2, <2>3, Zenon
  <2> QED
    BY <1>3, <2>4 DEF Join, Connected, Closes
<1>4. ASSUME NEW c \in Conn, Leave(c) PROVE TypeOK'
  BY <1>4 DEF Leave
<1>5. ASSUME NEW c \in Conn, Lose(c) PROVE TypeOK'
  <2>1. Closing(c) \in Frame
    BY Frames
  <2> QED
    BY <1>5, <2>1 DEF Lose, Closes
<1>6. ASSUME NEW c \in Conn, NEW k \in Key, NEW r \in BOOLEAN, Receive(c, k, r) PROVE TypeOK'
  <2>1. Publication(k, c, r) \in Frame
    BY Frames
  <2> QED
    BY <1>6, <2>1, HostTransmissionAssumption DEF Receive
<1>7. ASSUME NEW c \in Conn, ReceiveClearCache(c) PROVE TypeOK'
  <2>1. Clearing({k \in Key : updater[k] # Nobody}) \in Frame
    BY Frames
  <2> QED
    BY <1>7, <2>1, HostTransmissionAssumption DEF ReceiveClearCache
<1>8. ASSUME NEW k \in Key, NEW r \in BOOLEAN, Publish(k, r) PROVE TypeOK'
  <2>1. Publication(k, HostId, r) \in Frame
    BY Frames
  <2> QED
    BY <1>8, <2>1, HostTransmissionAssumption DEF Publish
<1>9. ASSUME NEW k \in Key, React(k) PROVE TypeOK'
  <2>1. PICK r \in Reaction : Calls(Top, Publication(k, HostId, r[2] = "remove"))
    BY <1>9 DEF React
  <2>2. Publication(k, HostId, r[2] = "remove") \in Frame
    BY Frames
  <2>3. stack' \in Seq(Frame)
    BY <1>0, <1>9, <2>1, <2>2, CallsStack DEF Calls, React
  <2> QED
    BY <1>9, <2>3, HostTransmissionAssumption DEF React
<1>10. ASSUME Dispatch PROVE TypeOK'
  <2> DEFINE callers == IF Top.remove
                      THEN [n \in DOMAIN Front(stack) |-> Forget(stack[n], Top.key)]
                      ELSE Front(stack)
             at == IF Top.remove /\ updater[Top.key] = Nobody THEN "dispatched" ELSE "event"
  <2>1. /\ stack # <<>> /\ Top \in Frame /\ Top.key \in Key \cup {Nobody}
        /\ Top.sender \in Conn \cup {HostId}
    BY <1>0, <1>10 DEF Dispatch, At, Frame
  <2>2. /\ Front(stack) \in Seq(Frame)
        /\ \A n \in DOMAIN Front(stack) : Front(stack)[n] = stack[n]
    BY <2>1, ReturnsStack
  <2>3. [n \in DOMAIN Front(stack) |-> Forget(Front(stack)[n], Top.key)] \in Seq(Frame)
    BY <2>1, <2>2, ForgetStack
  <2>4. [n \in DOMAIN Front(stack) |-> Forget(Front(stack)[n], Top.key)]
            = [n \in DOMAIN Front(stack) |-> Forget(stack[n], Top.key)]
    BY <2>2
  <2>5. callers \in Seq(Frame)
    BY <2>2, <2>3, <2>4
  <2>6. [Top EXCEPT !.at = at] \in Frame
    BY <2>1, Frames
  <2>7. stack' = Append(callers, [Top EXCEPT !.at = at])
    BY <1>10 DEF Dispatch
  <2>8. stack' \in Seq(Frame)
    BY <2>5, <2>6, <2>7
  <2>9. updater' \in [Key -> Conn \cup {HostId, Nobody}]
    BY <1>10, <2>1 DEF Dispatch
  <2> QED
    BY <1>10, <2>8, <2>9 DEF Dispatch
<1>11. ASSUME LookAtEvent PROVE TypeOK'
  BY <1>11 DEF LookAtEvent, Uses
<1>12. ASSUME EventDone PROVE TypeOK'
  <2>1. stack # <<>> /\ [Top EXCEPT !.at = "dispatched"] \in Frame
    BY <1>0, <1>12, Frames DEF EventDone, At
  <2>2. stack' \in Seq(Frame)
    BY <1>12, <2>1, BecomesStack DEF EventDone, Becomes
  <2> QED
    BY <1>12, <2>2 DEF EventDone
<1>13. ASSUME Transmit PROVE TypeOK'
  <2> DEFINE dirty == {c \in member \cap failing : state[c] # "closed"}
  <2>1. stack # <<>> /\ [Top EXCEPT !.at = "transmitted", !.dirty = dirty] \in Frame
    BY <1>0, <1>13, Frames DEF Transmit, At
  <2>2. stack' \in Seq(Frame)
    BY <1>13, <2>1, BecomesStack DEF Transmit, Becomes
  <2> QED
    BY <1>13, <2>2 DEF Transmit, Uses
<1>14. ASSUME HandleDirty PROVE TypeOK'
  <2>1. stack # <<>> /\ Top.dirty \subseteq Conn
    BY <1>0, <1>14 DEF HandleDirty, At, Frame
  <2>2. PICK c \in Top.dirty : Closes(c) /\ Calls([Top EXCEPT !.dirty = @ \ {c}], Closing(c))
    BY <1>14 DEF HandleDirty
  <2>3. [Top EXCEPT !.dirty = @ \ {c}] \in Frame /\ Closing(c) \in Frame
    BY <1>0, <2>1, Frames
  <2>4. stack' \in Seq(Frame)
    BY <2>1, <2>2, <2>3, CallsStack DEF Calls
  <2> QED
    BY <1>14, <2>1, <2>2, <2>4 DEF HandleDirty, Uses, Closes
<1>15. ASSUME Transmitted PROVE TypeOK'
  <2>1. stack' \in Seq(Frame)
    BY <1>15, ReturnsStack DEF Transmitted, At, Returns
  <2> QED
    BY <1>15, <2>1 DEF Transmitted, Returns, Uses
<1>16. ASSUME CollectInstances PROVE TypeOK'
  <2>1. UpdatedBy(Top.sender) \subseteq Key
    BY DEF UpdatedBy
  <2>2. stack # <<>> /\ [Top EXCEPT !.at = "cleanup", !.pending = UpdatedBy(Top.sender)] \in Frame
    BY <1>0, <1>16, <2>1, Frames DEF CollectInstances, At
  <2>3. stack' \in Seq(Frame)
    BY <1>16, <2>2, BecomesStack DEF CollectInstances, Becomes
  <2> QED
    BY <1>16, <2>3 DEF CollectInstances, Without
<1>17. ASSUME RemoveInstance PROVE TypeOK'
  <2>1. stack # <<>> /\ Top.pending \subseteq Key
    BY <1>0, <1>17 DEF RemoveInstance, Frame
  <2>2. PICK k \in Top.pending : Calls([Top EXCEPT !.pending = @ \ {k}], Publication(k, HostId, TRUE))
    BY <1>17 DEF RemoveInstance
  <2>3. [Top EXCEPT !.pending = @ \ {k}] \in Frame /\ Publication(k, HostId, TRUE) \in Frame
    BY <1>0, <2>1, Frames
  <2>4. stack' \in Seq(Frame)
    BY <2>1, <2>2, <2>3, CallsStack DEF Calls
  <2> QED
    BY <1>17, <2>4 DEF RemoveInstance, Uses
<1>18. ASSUME CleanupDone PROVE TypeOK'
  <2>1. stack' \in Seq(Frame)
    BY <1>18, ReturnsStack DEF CleanupDone, Returns
  <2> QED
    BY <1>18, <2>1 DEF CleanupDone, Returns, Uses
<1>19. CASE UNCHANGED vars
  BY <1>19 DEF vars
<1> QED
  BY <1>1, <1>2, <1>3, <1>4, <1>5, <1>6, <1>7, <1>8, <1>9, <1>10, <1>11, <1>12, <1>13,
     <1>14, <1>15, <1>16, <1>17, <1>18, <1>19 DEF Next

-----------------------------------------------------------------------------
(* Cleanup *)

(* What a publication that reaches the container makes of the stack.       *)
LEMMA DispatchStack ==
    ASSUME TypeOK, Dispatch
    PROVE  /\ stack # <<>> /\ Top \in Frame /\ Top.call = "publish" /\ Top.at = "transmission"
           /\ Len(stack) \in DOMAIN stack /\ Top = stack[Len(stack)]
           /\ Len(stack) \in Nat /\ DOMAIN stack = 1..Len(stack)
           /\ \A n \in DOMAIN stack : stack[n] \in Frame
           /\ Len(stack') = Len(stack) /\ DOMAIN stack' = 1..Len(stack)
           /\ stack'[Len(stack)] \in Frame /\ stack'[Len(stack)].call = "publish"
           /\ stack'[Len(stack)].at \in {"dispatched", "event"}
           /\ stack'[Len(stack)].dirty = Top.dirty
           /\ \A n \in 1..(Len(stack) - 1) :
                  stack'[n] = stack[n] \/ stack'[n] = Forget(stack[n], Top.key)
<1> DEFINE callers == IF Top.remove
                      THEN [n \in DOMAIN Front(stack) |-> Forget(stack[n], Top.key)]
                      ELSE Front(stack)
           f == [Top EXCEPT !.at = IF Top.remove /\ updater[Top.key] = Nobody
                                   THEN "dispatched" ELSE "event"]
<1>1. /\ stack # <<>> /\ Top \in Frame
      /\ Top.call = "publish" /\ Top.at = "transmission"
      /\ Len(stack) \in DOMAIN stack /\ Top = stack[Len(stack)]
      /\ Len(stack) \in Nat /\ DOMAIN stack = 1..Len(stack)
      /\ \A n \in DOMAIN stack : stack[n] \in Frame
  BY TopOfStack, LenProperties DEF Dispatch, At, TypeOK
<1>2. /\ Front(stack) \in Seq(Frame) /\ Len(Front(stack)) = Len(stack) - 1
      /\ DOMAIN Front(stack) = 1..(Len(stack) - 1)
      /\ \A n \in DOMAIN Front(stack) : Front(stack)[n] = stack[n]
  <2>1. stack \in Seq(Frame)
    BY DEF TypeOK
  <2> QED
    BY <1>1, <2>1, ReturnsStack
<1>3. /\ Top.key \in Key \cup {Nobody} /\ Top.sender \in Conn \cup {HostId}
  BY <1>1 DEF Frame
<1>4. /\ [n \in DOMAIN Front(stack) |-> Forget(Front(stack)[n], Top.key)] \in Seq(Frame)
      /\ Len([n \in DOMAIN Front(stack) |-> Forget(Front(stack)[n], Top.key)]) = Len(stack) - 1
      /\ [n \in DOMAIN Front(stack) |-> Forget(Front(stack)[n], Top.key)]
            = [n \in DOMAIN Front(stack) |-> Forget(stack[n], Top.key)]
  BY <1>2, <1>3, ForgetStack
<1>5. /\ callers \in Seq(Frame) /\ Len(callers) = Len(stack) - 1
      /\ \A n \in 1..(Len(stack) - 1) :
             callers[n] = stack[n] \/ callers[n] = Forget(stack[n], Top.key)
  BY <1>2, <1>4
<1>6. /\ f \in Frame /\ f.at \in {"dispatched", "event"} /\ f.call = "publish"
      /\ f.dirty = Top.dirty
  <2>1. f \in Frame
    BY <1>1, Frames
  <2>2. f.at \in {"dispatched", "event"} /\ f.call = "publish" /\ f.dirty = Top.dirty
    BY <1>1 DEF Frame
  <2> QED
    BY <2>1, <2>2
<1>7. stack' = Append(callers, f)
  BY <1>1 DEF Dispatch
<1> HIDE DEF callers, f
<1>8. /\ Len(stack') = Len(stack) /\ DOMAIN stack' = 1..Len(stack)
      /\ stack'[Len(stack)] = f
      /\ \A n \in 1..(Len(stack) - 1) : stack'[n] = callers[n]
  <2>1. callers \in Seq(Frame) /\ f \in Frame
    BY <1>5, <1>6
  <2>2. /\ Len(stack') = Len(callers) + 1 /\ DOMAIN stack' = 1..(Len(callers) + 1)
        /\ \A n \in 1..Len(callers) : stack'[n] = callers[n]
        /\ stack'[Len(callers) + 1] = f
    BY <1>7, <2>1, AppendStack
  <2> QED
    BY <1>1, <1>5, <2>2
<1> QED
  BY <1>1, <1>5, <1>6, <1>8

(* Dangling references change nothing of what a call will do.              *)
LEMMA ForgetIsSilent ==
    ASSUME NEW f \in Frame, NEW j
    PROVE  /\ Early(Forget(f, j)) <=> Early(f)
           /\ Forget(f, j).sender = f.sender
           /\ Forget(f, j).call = f.call /\ Forget(f, j).at = f.at
           /\ Forget(f, j).dirty = f.dirty
           /\ \A k, c : Removes(Forget(f, j), k, c) <=> Removes(f, k, c)
BY DEF Frame, Forget, Early, Removes

CleanInv == TypeOK /\ Attended /\ Innermost

LEMMA CleanInit == Init => CleanInv
BY TypeInit, HostTransmissionAssumption DEF Init, CleanInv, Attended, Innermost

(* The events, which happen while no call is under way.                    *)
LEMMA CleanEvents ==
    ASSUME CleanInv,
           \/ \E c \in Conn :
                \/ Accept(c) \/ Join(c) \/ Leave(c) \/ Lose(c)
                \/ ReceiveClearCache(c)
                \/ \E k \in Key, r \in BOOLEAN : Receive(c, k, r)
           \/ \E k \in Key, r \in BOOLEAN : Publish(k, r)
    PROVE  (Attended /\ Innermost)'
<1> USE DEF CleanInv
<1>0. Idle
  BY DEF Accept, Join, Leave, Lose, ReceiveClearCache, Receive, Publish, Connected
<1>1. \A k \in Key : updater[k] \in Conn => state[updater[k]] = "connected"
  BY <1>0 DEF Idle, Attended
<1>2. ASSUME NEW c \in Conn, Accept(c) PROVE (Attended /\ Innermost)'
  BY <1>0, <1>1, <1>2 DEF Accept, Idle, Attended, Innermost, TypeOK
<1>3. ASSUME NEW c \in Conn, Leave(c) PROVE (Attended /\ Innermost)'
  BY <1>0, <1>1, <1>3 DEF Leave, Idle, Attended, Innermost, TypeOK
<1>4. ASSUME NEW c \in Conn, Closes(c), UNCHANGED updater, stack' = <<Closing(c)>>
      PROVE  (Attended /\ Innermost)'
  <2>1. \A k : Removes(Closing(c), k, c)
    BY DEF Removes, Closing
  <2>2. ~Early(Closing(c))
    BY DEF Early, Closing
  <2>3. Len(stack') = 1 /\ DOMAIN stack' = {1} /\ stack'[1] = Closing(c)
    BY <1>4
  <2>4. \A k \in Key : updater'[k] \in Conn /\ state'[updater'[k]] # "connected" => updater'[k] = c
    BY <1>1, <1>4 DEF Closes, TypeOK
  <2> QED
    BY <2>1, <2>2, <2>3, <2>4 DEF Attended, Innermost
<1>5. ASSUME NEW c \in Conn, Join(c) \/ Lose(c) PROVE (Attended /\ Innermost)'
  <2>1. CASE c \in failing \/ Lose(c)
    BY <1>4, <1>5, <2>1 DEF Join, Lose
  <2>2. CASE c \notin failing /\ Join(c)
    BY <1>0, <1>1, <2>2 DEF Join, Idle, Attended, Innermost
  <2> QED
    BY <1>5, <2>1, <2>2
<1>6. ASSUME NEW f, stack' = <<f>>, UNCHANGED <<state, updater>>,
             Early(f) => state[f.sender] = "connected"
      PROVE  (Attended /\ Innermost)'
  <2>1. Len(stack') = 1 /\ DOMAIN stack' = {1} /\ stack'[1] = f
    BY <1>6
  <2> QED
    BY <1>1, <1>6, <2>1 DEF Attended, Innermost
<1>7. ASSUME NEW c \in Conn, ReceiveClearCache(c) PROVE (Attended /\ Innermost)'
  <2>1. ~Early(Clearing({k \in Key : updater[k] # Nobody}))
    BY DEF Early, Clearing
  <2> QED
    BY <1>6, <1>7, <2>1 DEF ReceiveClearCache
<1>8. ASSUME NEW c \in Conn, NEW k \in Key, NEW r \in BOOLEAN, Receive(c, k, r)
      PROVE  (Attended /\ Innermost)'
  <2>1. Publication(k, c, r).sender = c
    BY DEF Publication
  <2> QED
    BY <1>6, <1>8, <2>1 DEF Receive, Connected
<1>9. ASSUME NEW k \in Key, NEW r \in BOOLEAN, Publish(k, r) PROVE (Attended /\ Innermost)'
  <2>1. ~Early(Publication(k, HostId, r))
    BY DEF Publication, Early
  <2> QED
    BY <1>6, <1>9, <2>1 DEF Publish
<1> QED
  BY <1>2, <1>3, <1>5, <1>7, <1>8, <1>9

(* The innermost call goes on to something else.                           *)
LEMMA CleanBecomes ==
    ASSUME CleanInv, stack # <<>>, NEW f \in Frame, Becomes(f), UNCHANGED <<state, updater>>,
           ~Early(f),
           \A k \in Key : updater[k] \in Conn /\ Removes(Top, k, updater[k])
                               => Removes(f, k, updater[k])
    PROVE  (Attended /\ Innermost)'
<1> USE DEF CleanInv
<1>1. /\ Len(stack') = Len(stack) /\ DOMAIN stack' = DOMAIN stack
      /\ \A n \in DOMAIN stack : n # Len(stack) => stack'[n] = stack[n]
      /\ stack'[Len(stack)] = f /\ Len(stack) \in DOMAIN stack /\ Top = stack[Len(stack)]
  BY BecomesStack, TopOfStack DEF Becomes, TypeOK
<1>2. Innermost'
  BY <1>1 DEF Innermost
<1>3. Attended'
  BY <1>1 DEF Attended
<1> QED
  BY <1>2, <1>3

(* The innermost call makes a further one.                                 *)
LEMMA CleanCalls ==
    ASSUME CleanInv, stack # <<>>, NEW f \in Frame, NEW g \in Frame, Calls(f, g),
           UNCHANGED updater, ~Early(Top), ~Early(f), ~Early(g),
           \A k \in Key : updater[k] \in Conn /\ Removes(Top, k, updater[k])
               => Removes(f, k, updater[k]) \/ Removes(g, k, updater[k]),
           \A k \in Key : updater[k] \in Conn /\ state'[updater[k]] # state[updater[k]]
               => Removes(g, k, updater[k])
    PROVE  (Attended /\ Innermost)'
<1> USE DEF CleanInv
<1>1. /\ Len(stack') = Len(stack) + 1 /\ DOMAIN stack' = 1..(Len(stack) + 1)
      /\ \A n \in DOMAIN stack : n # Len(stack) => stack'[n] = stack[n]
      /\ stack'[Len(stack)] = f /\ stack'[Len(stack) + 1] = g
      /\ Len(stack) \in DOMAIN stack /\ Top = stack[Len(stack)]
      /\ Len(stack) \in Nat /\ DOMAIN stack = 1..Len(stack)
  BY CallsStack, TopOfStack, LenProperties DEF Calls, TypeOK
<1>2. \A n \in DOMAIN stack : ~Early(stack[n])
  BY <1>1 DEF Innermost
<1>3. \A n \in DOMAIN stack' : ~Early(stack'[n])
  BY <1>1, <1>2
<1>4. Innermost'
  BY <1>3 DEF Innermost
<1>5. ASSUME NEW k \in Key, updater[k] \in Conn, state'[updater[k]] # "connected"
      PROVE  \E n \in DOMAIN stack' : Removes(stack'[n], k, updater[k])
  <2>1. CASE state'[updater[k]] # state[updater[k]]
    BY <1>1, <1>5, <2>1
  <2>2. CASE state'[updater[k]] = state[updater[k]]
    <3>1. PICK n \in DOMAIN stack : Removes(stack[n], k, updater[k])
      BY <1>5, <2>2 DEF Attended
    <3>2. CASE n = Len(stack)
      BY <1>1, <1>5, <3>1, <3>2
    <3>3. CASE n # Len(stack)
      BY <1>1, <3>1, <3>3
    <3> QED
      BY <3>2, <3>3
  <2> QED
    BY <2>1, <2>2
<1>6. Attended'
  BY <1>5 DEF Attended
<1> QED
  BY <1>4, <1>6

(* The innermost call returns.                                             *)
LEMMA CleanReturns ==
    ASSUME CleanInv, stack # <<>>, Returns, UNCHANGED <<state, updater>>,
           \A k \in Key, c \in Conn : ~Removes(Top, k, c)
    PROVE  (Attended /\ Innermost)'
<1> USE DEF CleanInv
<1>1. /\ DOMAIN stack' = 1..(Len(stack) - 1)
      /\ \A n \in DOMAIN stack' : n \in DOMAIN stack /\ n # Len(stack) /\ stack'[n] = stack[n]
      /\ Len(stack) \in DOMAIN stack /\ Top = stack[Len(stack)]
      /\ Len(stack) \in Nat /\ DOMAIN stack = 1..Len(stack)
  BY ReturnsStack, TopOfStack, LenProperties DEF Returns, TypeOK
<1>2. Innermost'
  BY <1>1 DEF Innermost
<1>3. Attended'
  BY <1>1 DEF Attended
<1> QED
  BY <1>2, <1>3

(* A publication reaches the container.                                    *)
LEMMA CleanDispatch ==
    ASSUME CleanInv, Dispatch
    PROVE  (Attended /\ Innermost)'
<1> USE DEF CleanInv
<1>1. /\ Top.call = "publish" /\ Top.at = "transmission"
      /\ Len(stack) \in DOMAIN stack /\ Top = stack[Len(stack)]
      /\ Len(stack) \in Nat /\ DOMAIN stack = 1..Len(stack)
      /\ \A n \in DOMAIN stack : stack[n] \in Frame
  BY DispatchStack
<1>5. \A n \in 1..(Len(stack) - 1) :
         stack'[n] = stack[n] \/ stack'[n] = Forget(stack[n], Top.key)
  BY DispatchStack
<1>8. Len(stack') = Len(stack) /\ DOMAIN stack' = 1..Len(stack)
  BY DispatchStack
<1>6. ~Early(stack'[Len(stack)])
  BY DispatchStack DEF Early
<1>9. \A n \in 1..(Len(stack) - 1) :
         /\ Early(stack'[n]) => Early(stack[n])
         /\ \A k, c : Removes(stack[n], k, c) => Removes(stack'[n], k, c)
  BY <1>1, <1>5, ForgetIsSilent
<1>10. Innermost'
  BY <1>1, <1>6, <1>8, <1>9 DEF Innermost
<1>11. ASSUME NEW k \in Key, updater'[k] \in Conn, state[updater'[k]] # "connected"
       PROVE  \E n \in DOMAIN stack' : Removes(stack'[n], k, updater'[k])
  <2>1. k # Top.key
    <3>1. updater' = [updater EXCEPT ![Top.key] = IF Top.remove THEN Nobody ELSE Top.sender]
      BY <1>11 DEF Dispatch
    <3>2. CASE k = Top.key /\ Top.remove
      <4>1. updater'[k] = Nobody
        BY <1>11, <3>1, <3>2 DEF TypeOK
      <4> QED
        BY <1>11, <4>1, HostTransmissionAssumption
    <3>3. CASE k = Top.key /\ ~Top.remove
      <4>1. updater'[k] = Top.sender
        BY <1>11, <3>1, <3>3 DEF TypeOK
      <4>2. Top.sender # HostId
        BY <1>11, <4>1, HostTransmissionAssumption
      <4>3. state[Top.sender] = "connected"
        BY <1>1, <4>2 DEF Innermost, Early
      <4> QED
        BY <1>11, <4>1, <4>3
    <3> QED
      BY <3>2, <3>3
  <2>2. updater'[k] = updater[k]
    BY <2>1, <1>11 DEF Dispatch, TypeOK
  <2>3. PICK n \in DOMAIN stack : Removes(stack[n], k, updater[k])
    BY <1>11, <2>2 DEF Attended
  <2>4. n # Len(stack)
    BY <1>1, <2>1, <2>3 DEF Removes
  <2>5. n \in 1..(Len(stack) - 1) /\ n \in DOMAIN stack'
    BY <1>1, <1>8, <2>3, <2>4
  <2>6. Removes(stack'[n], k, updater'[k])
    BY <1>9, <2>2, <2>3, <2>5
  <2> QED
    BY <2>5, <2>6
<1>12. UNCHANGED state
  BY DEF Dispatch
<1>13. Attended'
  BY <1>11, <1>12 DEF Attended
<1> QED
  BY <1>10, <1>13

LEMMA CleanStep == NoEarlyReaction /\ CleanInv /\ [Next]_vars => CleanInv'
<1> SUFFICES ASSUME NoEarlyReaction, CleanInv, [Next]_vars PROVE (Attended /\ Innermost)'
  BY TypeStep DEF CleanInv
<1>0. stack # <<>> => Top \in Frame
  BY TopOfStack DEF CleanInv, TypeOK
<1>1. ASSUME NEW k \in Key, React(k) PROVE (Attended /\ Innermost)'
  <2>1. PICK r \in Reaction : Top.at = r[1] /\ Calls(Top, Publication(k, HostId, r[2] = "remove"))
    BY <1>1 DEF React
  <2>2. Publication(k, HostId, r[2] = "remove") \in Frame
    BY Frames
  <2>3. ~Early(Top) /\ ~Early(Publication(k, HostId, r[2] = "remove"))
    BY <2>1 DEF Early, NoEarlyReaction, Publication
  <2>4. stack # <<>> /\ UNCHANGED <<state, updater>>
    BY <1>1 DEF React
  <2> QED
    BY <1>0, <2>1, <2>2, <2>3, <2>4, CleanCalls
<1>2. ASSUME EventDone PROVE (Attended /\ Innermost)'
  <2> DEFINE f == [Top EXCEPT !.at = "dispatched"]
  <2>1. stack # <<>> /\ f \in Frame /\ Becomes(f) /\ UNCHANGED <<state, updater>>
    BY <1>0, <1>2, Frames DEF EventDone, At
  <2>2. ~Early(f) /\ \A k, c : ~Removes(Top, k, c)
    BY <1>0, <1>2 DEF EventDone, At, Early, Removes, Frame
  <2> QED
    BY <2>1, <2>2, CleanBecomes
<1>3. ASSUME Transmit PROVE (Attended /\ Innermost)'
  <2> DEFINE dirty == {c \in member \cap failing : state[c] # "closed"}
             f == [Top EXCEPT !.at = "transmitted", !.dirty = dirty]
  <2>0. dirty \in SUBSET Conn
    BY DEF CleanInv, TypeOK
  <2>1. stack # <<>> /\ Becomes(f) /\ UNCHANGED <<state, updater>>
    BY <1>3 DEF Transmit, At
  <2>2. f \in Frame
    BY <1>0, <2>0, <2>1, Frames
  <2>3. ~Early(f) /\ \A k, c : ~Removes(Top, k, c)
    BY <1>0, <1>3 DEF Transmit, At, Early, Removes, Frame
  <2> QED
    BY <2>1, <2>2, <2>3, CleanBecomes
<1>4. ASSUME HandleDirty PROVE (Attended /\ Innermost)'
  <2>1. /\ stack # <<>> /\ Top \in Frame /\ Top.dirty \subseteq Conn /\ UNCHANGED updater
        /\ Top.call = "publish" /\ Top.at = "transmitted"
    BY <1>0, <1>4 DEF HandleDirty, At, Frame
  <2>2. PICK c \in Top.dirty : Closes(c) /\ Calls([Top EXCEPT !.dirty = @ \ {c}], Closing(c))
    BY <1>4 DEF HandleDirty
  <2> DEFINE f == [Top EXCEPT !.dirty = @ \ {c}]
  <2>3. f \in Frame /\ Closing(c) \in Frame
    BY <2>1, Frames
  <2>4. ~Early(Top) /\ ~Early(f) /\ \A k, d : ~Removes(Top, k, d)
    BY <2>1 DEF Early, Removes, Frame
  <2>5. ~Early(Closing(c)) /\ \A k : Removes(Closing(c), k, c)
    BY DEF Early, Removes, Closing
  <2>6. \A d \in Conn : state'[d] # state[d] => d = c
    BY <2>2 DEF Closes, CleanInv, TypeOK
  <2> QED
    BY <2>1, <2>2, <2>3, <2>4, <2>5, <2>6, CleanCalls
<1>5. ASSUME Transmitted PROVE (Attended /\ Innermost)'
  <2>1. stack # <<>> /\ Returns /\ UNCHANGED <<state, updater>>
    BY <1>5 DEF Transmitted, At
  <2>2. \A k, c : ~Removes(Top, k, c)
    BY <1>5 DEF Transmitted, At, Removes
  <2> QED
    BY <2>1, <2>2, CleanReturns
<1>6. ASSUME CollectInstances PROVE (Attended /\ Innermost)'
  <2> DEFINE f == [Top EXCEPT !.at = "cleanup", !.pending = UpdatedBy(Top.sender)]
  <2>1. /\ stack # <<>> /\ Becomes(f) /\ UNCHANGED <<state, updater>>
        /\ Top.call = "close" /\ Top.at = "transition"
    BY <1>6 DEF CollectInstances, At
  <2>2. f \in Frame
    BY <1>0, <2>1, Frames DEF UpdatedBy
  <2>3. /\ f.call = "close" /\ f.at = "cleanup" /\ f.sender = Top.sender
        /\ f.pending = UpdatedBy(Top.sender)
    BY <1>0, <2>1 DEF Frame
  <2>4. ~Early(f)
    BY <2>3 DEF Early
  <2>5. \A k \in Key : Removes(Top, k, updater[k]) => Removes(f, k, updater[k])
    BY <2>1, <2>3 DEF Removes, UpdatedBy
  <2> QED
    BY <2>1, <2>2, <2>4, <2>5, CleanBecomes
<1>7. ASSUME RemoveInstance PROVE (Attended /\ Innermost)'
  <2>1. /\ stack # <<>> /\ Top \in Frame /\ Top.pending \subseteq Key
        /\ UNCHANGED <<state, updater>> /\ Top.at = "cleanup"
    BY <1>0, <1>7 DEF RemoveInstance, Frame
  <2>2. PICK j \in Top.pending : Calls([Top EXCEPT !.pending = @ \ {j}], Publication(j, HostId, TRUE))
    BY <1>7 DEF RemoveInstance
  <2> DEFINE f == [Top EXCEPT !.pending = @ \ {j}]
             g == Publication(j, HostId, TRUE)
  <2>3. f \in Frame /\ g \in Frame
    BY <2>1, Frames
  <2>4. /\ f.call = Top.call /\ f.at = "cleanup" /\ f.sender = Top.sender
        /\ f.pending = Top.pending \ {j}
        /\ g.call = "publish" /\ g.at = "transmission" /\ g.key = j /\ g.remove
        /\ g.sender = HostId
    BY <2>1 DEF Frame, Publication
  <2>5. ~Early(Top) /\ ~Early(f) /\ ~Early(g)
    BY <2>1, <2>4 DEF Early
  <2>6. \A k, c : Removes(Top, k, c) => Removes(f, k, c) \/ Removes(g, k, c)
    BY <2>1, <2>4 DEF Removes
  <2> QED
    BY <2>1, <2>2, <2>3, <2>5, <2>6, CleanCalls
<1>8. ASSUME CleanupDone PROVE (Attended /\ Innermost)'
  <2>1. stack # <<>> /\ Returns /\ UNCHANGED <<state, updater>>
    BY <1>8 DEF CleanupDone
  <2>2. \A k, c : ~Removes(Top, k, c)
    BY <1>8 DEF CleanupDone, Removes
  <2> QED
    BY <2>1, <2>2, CleanReturns
<1>9. CASE LookAtEvent \/ (\E c \in Conn : WriteBuffer(c)) \/ UNCHANGED vars
  BY <1>9 DEF LookAtEvent, WriteBuffer, WriteBufferExceeds, WriteBufferFlushed, vars,
              CleanInv, Attended, Innermost
<1> QED
  BY <1>1, <1>2, <1>3, <1>4, <1>5, <1>6, <1>7, <1>8, <1>9, CleanEvents, CleanDispatch DEF Next

(* However deep the calls nest, and however many connections are closed    *)
(* within one event, all instances of closed connections are removed by    *)
(* its end, unless a transmission handler publishes.                       *)
THEOREM Clean ==
    ASSUME NoEarlyReaction
    PROVE  Spec => []CleanedUp
<1>1. CleanInv => CleanedUp
  BY DEF CleanInv, Attended, CleanedUp, Idle
<1>2. CleanInv /\ [Next]_vars => CleanInv'
  BY CleanStep
<1> QED
  BY <1>1, <1>2, CleanInit, PTL DEF Spec

-----------------------------------------------------------------------------
(* Groups *)

(* A connection that is being closed stays closed, and is out of the group *)
(* before its instances are cleaned up.                                    *)
Outside ==
    \A n \in DOMAIN stack :
        stack[n].call = "close" =>
            /\ state[stack[n].sender] = "closed"
            /\ stack[n].at = "cleanup" => stack[n].sender \notin member

Kept == \A c \in Conn : state[c] = "connected" => c \in guests

OpenInv == TypeOK /\ MembersOpen /\ Outside /\ Kept

LEMMA OpenInit == Init => OpenInv
BY TypeInit DEF Init, OpenInv, MembersOpen, Outside, Kept

(* The events, which happen while no call is under way.                    *)
LEMMA OpenEvents ==
    ASSUME OpenInv,
           \/ \E c \in Conn :
                \/ Accept(c) \/ Join(c) \/ Leave(c) \/ Lose(c)
                \/ ReceiveClearCache(c)
                \/ \E k \in Key, r \in BOOLEAN : Receive(c, k, r)
           \/ \E k \in Key, r \in BOOLEAN : Publish(k, r)
    PROVE  (MembersOpen /\ Outside /\ Kept)'
<1> USE DEF OpenInv
<1>0. stack = <<>>
  BY DEF Accept, Join, Leave, Lose, ReceiveClearCache, Receive, Publish, Connected, Idle
<1>1. MembersOpen'
  BY DEF Accept, Join, Leave, Lose, ReceiveClearCache, Receive, Publish,
         Connected, MembersOpen, Kept
<1>2. Kept'
  BY DEF Accept, Join, Leave, Lose, ReceiveClearCache, Receive, Publish,
         Closes, Kept, TypeOK
<1>3. ASSUME stack' = stack PROVE Outside'
  BY <1>0, <1>3 DEF Outside
<1>4. ASSUME NEW f, stack' = <<f>>, f.call = "close" => state'[f.sender] = "closed" /\ f.at # "cleanup"
      PROVE  Outside'
  <2>1. DOMAIN stack' = {1} /\ stack'[1] = f
    BY <1>4
  <2> QED
    BY <1>4, <2>1 DEF Outside
<1>5. ASSUME NEW c \in Conn, NEW k \in Key, NEW r \in BOOLEAN, Receive(c, k, r) PROVE Outside'
  BY <1>4, <1>5 DEF Receive, Publication
<1>6. ASSUME NEW k \in Key, NEW r \in BOOLEAN, Publish(k, r) PROVE Outside'
  BY <1>4, <1>6 DEF Publish, Publication
<1>7. ASSUME NEW c \in Conn, ReceiveClearCache(c) PROVE Outside'
  <2>1. PICK keys : stack' = <<Clearing(keys)>>
    BY <1>7 DEF ReceiveClearCache
  <2>2. Clearing(keys).call # "close"
    BY DEF Clearing
  <2> QED
    BY <1>4, <2>1, <2>2
<1>8. ASSUME NEW c \in Conn, Closes(c), stack' = <<Closing(c)>> PROVE Outside'
  <2>1. Closing(c).sender = c /\ Closing(c).at # "cleanup" /\ state'[c] = "closed"
    BY <1>8 DEF Closing, Closes, TypeOK
  <2> QED
    BY <1>4, <1>8, <2>1
<1>9. ASSUME NEW c \in Conn, Join(c) \/ Lose(c) PROVE Outside'
  BY <1>3, <1>8, <1>9 DEF Join, Lose
<1>10. ASSUME NEW c \in Conn, Accept(c) \/ Leave(c) PROVE Outside'
  BY <1>3, <1>10 DEF Accept, Leave
<1>11. Outside'
  BY <1>5, <1>6, <1>7, <1>9, <1>10
<1> QED
  BY <1>1, <1>2, <1>11

(* The innermost call goes on, or makes a further one, or returns.         *)
LEMMA OpenBecomes ==
    ASSUME OpenInv, stack # <<>>, NEW f \in Frame, Becomes(f),
           member' \subseteq member, UNCHANGED state,
           f.call = "close" => /\ state[f.sender] = "closed"
                               /\ f.at = "cleanup" => f.sender \notin member'
    PROVE  Outside'
<1>1. /\ DOMAIN stack' = DOMAIN stack
      /\ \A n \in DOMAIN stack : n # Len(stack) => stack'[n] = stack[n]
      /\ stack'[Len(stack)] = f
  BY BecomesStack DEF Becomes, TypeOK, OpenInv
<1> QED
  BY <1>1 DEF Outside, OpenInv

LEMMA OpenCalls ==
    ASSUME OpenInv, stack # <<>>, NEW f \in Frame, NEW g \in Frame, Calls(f, g),
           UNCHANGED member,
           \A c : state[c] = "closed" => state'[c] = "closed",
           g.call = "close" => state'[g.sender] = "closed" /\ g.at # "cleanup",
           f.call = Top.call, f.at = Top.at, f.sender = Top.sender
    PROVE  Outside'
<1>1. /\ DOMAIN stack' = 1..(Len(stack) + 1)
      /\ \A n \in DOMAIN stack : n # Len(stack) => stack'[n] = stack[n]
      /\ stack'[Len(stack)] = f /\ stack'[Len(stack) + 1] = g
      /\ Len(stack) \in DOMAIN stack /\ Top = stack[Len(stack)]
      /\ Len(stack) \in Nat /\ DOMAIN stack = 1..Len(stack)
  BY CallsStack, TopOfStack, LenProperties DEF Calls, TypeOK, OpenInv
<1>2. \A n \in DOMAIN stack' :
         n = Len(stack) + 1 \/ n = Len(stack) \/ (n \in DOMAIN stack /\ n # Len(stack))
  BY <1>1
<1>3. f.call = "close" => /\ state[f.sender] = "closed"
                          /\ f.at = "cleanup" => f.sender \notin member
  BY <1>1 DEF Outside, OpenInv
<1>4. \A n \in DOMAIN stack : stack[n].call = "close" =>
            /\ state'[stack[n].sender] = "closed"
            /\ stack[n].at = "cleanup" => stack[n].sender \notin member
  BY DEF Outside, OpenInv
<1> QED
  BY <1>1, <1>2, <1>3, <1>4 DEF Outside, OpenInv

LEMMA OpenReturns ==
    ASSUME OpenInv, stack # <<>>, Returns, UNCHANGED <<member, state>>
    PROVE  Outside'
<1>1. \A n \in DOMAIN stack' : n \in DOMAIN stack /\ stack'[n] = stack[n]
  BY ReturnsStack DEF Returns, TypeOK, OpenInv
<1> QED
  BY <1>1 DEF Outside, OpenInv

LEMMA OpenStep == OpenInv /\ [Next]_vars => OpenInv'
<1> SUFFICES ASSUME OpenInv, [Next]_vars PROVE (MembersOpen /\ Outside /\ Kept)'
  BY TypeStep DEF OpenInv
<1>0. stack # <<>> => /\ Top \in Frame
                      /\ Top.call = "close" => /\ state[Top.sender] = "closed"
                                               /\ Top.at = "cleanup" => Top.sender \notin member
  BY TopOfStack DEF OpenInv, TypeOK, Outside
<1>a. ASSUME UNCHANGED <<member, guests>>, \A c : state'[c] = "connected" => state[c] = "connected"
      PROVE  (MembersOpen /\ Kept)'
  BY <1>a DEF OpenInv, MembersOpen, Kept
<1>1. ASSUME NEW k \in Key, React(k) PROVE (MembersOpen /\ Outside /\ Kept)'
  <2>1. PICK r : Calls(Top, Publication(k, HostId, r[2] = "remove"))
    BY <1>1 DEF React
  <2>2. /\ Publication(k, HostId, r[2] = "remove") \in Frame
        /\ Publication(k, HostId, r[2] = "remove").call # "close"
    BY Frames DEF Publication
  <2>3. stack # <<>> /\ UNCHANGED <<state, member, guests>>
    BY <1>1 DEF React
  <2> QED
    BY <1>0, <1>a, <2>1, <2>2, <2>3, OpenCalls
<1>2. ASSUME Dispatch PROVE (MembersOpen /\ Outside /\ Kept)'
  <2>1. UNCHANGED <<state, member, guests>>
    BY <1>2 DEF Dispatch
  <2>2. /\ Len(stack) \in Nat /\ DOMAIN stack = 1..Len(stack) /\ DOMAIN stack' = 1..Len(stack)
        /\ \A n \in DOMAIN stack : stack[n] \in Frame
        /\ stack'[Len(stack)].call = "publish"
    BY <1>2, DispatchStack DEF OpenInv
  <2>3. \A n \in 1..(Len(stack) - 1) : /\ stack'[n].call = stack[n].call
                                       /\ stack'[n].at = stack[n].at
                                       /\ stack'[n].sender = stack[n].sender
    BY <1>2, <2>2, DispatchStack, ForgetIsSilent DEF OpenInv
  <2>4. Outside'
    <3>1. \A n \in DOMAIN stack' : n = Len(stack) \/ n \in 1..(Len(stack) - 1)
      BY <2>2
    <3>2. 1..(Len(stack) - 1) \subseteq DOMAIN stack
      BY <2>2
    <3> QED
      BY <2>1, <2>2, <2>3, <3>1, <3>2 DEF Outside, OpenInv
  <2> QED
    BY <1>a, <2>1, <2>4
<1>3. ASSUME EventDone PROVE (MembersOpen /\ Outside /\ Kept)'
  <2> DEFINE f == [Top EXCEPT !.at = "dispatched"]
  <2>1. stack # <<>> /\ f \in Frame /\ Becomes(f) /\ UNCHANGED <<state, member, guests>>
    BY <1>0, <1>3, Frames DEF EventDone, At
  <2>2. f.call = "publish"
    BY <1>0, <1>3 DEF EventDone, At, Frame
  <2> QED
    BY <1>a, <2>1, <2>2, OpenBecomes
<1>4. ASSUME Transmit PROVE (MembersOpen /\ Outside /\ Kept)'
  <2> DEFINE dirty == {c \in member \cap failing : state[c] # "closed"}
             f == [Top EXCEPT !.at = "transmitted", !.dirty = dirty]
  <2>1. dirty \in SUBSET Conn
    BY DEF OpenInv, TypeOK
  <2>2. stack # <<>> /\ Becomes(f) /\ UNCHANGED <<state, member, guests>>
    BY <1>4 DEF Transmit, At
  <2>3. f \in Frame
    BY <1>0, <2>1, <2>2, Frames
  <2>4. f.call = "publish"
    BY <1>0, <1>4 DEF Transmit, At, Frame
  <2> QED
    BY <1>a, <2>2, <2>3, <2>4, OpenBecomes
<1>5. ASSUME HandleDirty PROVE (MembersOpen /\ Outside /\ Kept)'
  <2>1. stack # <<>> /\ Top \in Frame /\ Top.dirty \subseteq Conn /\ UNCHANGED <<member, guests>>
    BY <1>0, <1>5 DEF HandleDirty, At, Frame
  <2>2. PICK c \in Top.dirty : Closes(c) /\ Calls([Top EXCEPT !.dirty = @ \ {c}], Closing(c))
    BY <1>5 DEF HandleDirty
  <2> DEFINE f == [Top EXCEPT !.dirty = @ \ {c}]
  <2>3. f \in Frame /\ Closing(c) \in Frame
    BY <2>1, Frames
  <2>4. f.call = Top.call /\ f.at = Top.at /\ f.sender = Top.sender
    BY <2>1 DEF Frame
  <2>5. Closing(c).sender = c /\ Closing(c).at # "cleanup"
    BY DEF Closing
  <2>6. state'[c] = "closed" /\ \A d : d # c => state'[d] = state[d]
    BY <2>1, <2>2 DEF Closes, OpenInv, TypeOK
  <2> QED
    BY <1>a, <2>1, <2>2, <2>3, <2>4, <2>5, <2>6, OpenCalls
<1>6. ASSUME Transmitted PROVE (MembersOpen /\ Outside /\ Kept)'
  <2>1. stack # <<>> /\ Returns /\ UNCHANGED <<state, member, guests>>
    BY <1>6 DEF Transmitted, At
  <2> QED
    BY <1>a, <2>1, OpenReturns
<1>7. ASSUME CollectInstances PROVE (MembersOpen /\ Outside /\ Kept)'
  <2> DEFINE f == [Top EXCEPT !.at = "cleanup", !.pending = UpdatedBy(Top.sender)]
  <2>1. /\ stack # <<>> /\ Becomes(f) /\ UNCHANGED <<state, guests>>
        /\ Top.call = "close" /\ member' = member \ {Top.sender}
    BY <1>7 DEF CollectInstances, At, Without
  <2>2. f \in Frame
    BY <1>0, <2>1, Frames DEF UpdatedBy
  <2>3. f.sender = Top.sender
    BY <1>0, <2>1 DEF Frame
  <2>4. Outside'
    <3>1. member' \subseteq member /\ f.sender \notin member' /\ state[f.sender] = "closed"
      BY <1>0, <2>1, <2>3
    <3> HIDE DEF f
    <3> QED
      BY <2>1, <2>2, <3>1, OpenBecomes
  <2> QED
    BY <2>1, <2>4 DEF OpenInv, MembersOpen, Kept
<1>8. ASSUME RemoveInstance PROVE (MembersOpen /\ Outside /\ Kept)'
  <2>1. /\ stack # <<>> /\ Top \in Frame /\ Top.pending \subseteq Key
        /\ UNCHANGED <<state, member, guests>>
    BY <1>0, <1>8 DEF RemoveInstance, Frame
  <2>2. PICK j \in Top.pending : Calls([Top EXCEPT !.pending = @ \ {j}], Publication(j, HostId, TRUE))
    BY <1>8 DEF RemoveInstance
  <2> DEFINE f == [Top EXCEPT !.pending = @ \ {j}]
             g == Publication(j, HostId, TRUE)
  <2>3. f \in Frame /\ g \in Frame
    BY <2>1, Frames
  <2>4. f.call = Top.call /\ f.at = Top.at /\ f.sender = Top.sender /\ g.call = "publish"
    BY <2>1 DEF Frame, Publication
  <2> QED
    BY <1>a, <2>1, <2>2, <2>3, <2>4, OpenCalls
<1>9. ASSUME CleanupDone PROVE (MembersOpen /\ Outside /\ Kept)'
  <2>1. /\ stack # <<>> /\ Returns /\ UNCHANGED <<state, member>> /\ Top.at = "cleanup"
        /\ guests' = IF Top.call = "close" THEN guests \ {Top.sender} ELSE guests
    BY <1>9 DEF CleanupDone
  <2> QED
    BY <1>0, <2>1, OpenReturns DEF OpenInv, MembersOpen, Kept
<1>10. CASE LookAtEvent \/ (\E c \in Conn : WriteBuffer(c)) \/ UNCHANGED vars
  BY <1>10 DEF LookAtEvent, WriteBuffer, WriteBufferExceeds, WriteBufferFlushed, vars,
               OpenInv, MembersOpen, Outside, Kept
<1> QED
  BY <1>1, <1>2, <1>3, <1>4, <1>5, <1>6, <1>7, <1>8, <1>9, <1>10, OpenEvents DEF Next

(* The group never holds a pointer to a connection that has been destroyed,*)
(* whatever the handlers publish and whatever fails meanwhile.             *)
THEOREM GroupIsOpen == Spec => []MembersOpen
<1>1. OpenInv => MembersOpen
  BY DEF OpenInv
<1> QED
  BY <1>1, OpenInit, OpenStep, PTL DEF Spec

-----------------------------------------------------------------------------
(* Connections that have been destroyed *)

(* What is used is alive unless it is one of the connections kept by the   *)
(* loop: members are in m_guestConnections, and the connection whose       *)
(* transmission is handled is kept alive by handleTransmission.            *)
LEMMA ReturnsAlive == ASSUME Returns PROVE "connection" \notin misused'
BY DEF Returns, Uses, Alive, Pinned

LEMMA MisuseStep ==
    ASSUME OpenInv, [Next]_vars, ConnectionsAlive, ~ConnectionsAlive'
    PROVE  At("publish", "transmitted") /\ Top.dirty # {}
<1> USE DEF ConnectionsAlive
<1>1. ~UNCHANGED misused
  OBVIOUS
<1>2. CASE Transmit
  <2>1. \A c \in member : Alive(c)
    BY DEF OpenInv, MembersOpen, Alive
  <2> QED
    BY <1>2, <2>1 DEF Transmit, Uses
<1>3. CASE Transmitted \/ CleanupDone
  BY <1>3, ReturnsAlive DEF Transmitted, CleanupDone
<1>4. CASE LookAtEvent
  BY <1>4 DEF LookAtEvent, Uses
<1>5. CASE RemoveInstance
  BY <1>5 DEF RemoveInstance, Uses
<1>6. CASE HandleDirty
  BY <1>6 DEF HandleDirty
<1>7. CASE \E c \in Conn :
             \/ Accept(c) \/ WriteBuffer(c) \/ Join(c) \/ Leave(c) \/ Lose(c)
             \/ ReceiveClearCache(c)
             \/ \E k \in Key, remove \in BOOLEAN : Receive(c, k, remove)
  BY <1>1, <1>7 DEF Accept, WriteBuffer, WriteBufferExceeds, WriteBufferFlushed, Join, Leave,
                    Lose, ReceiveClearCache, Receive
<1>8. CASE (\E k \in Key : React(k) \/ \E remove \in BOOLEAN : Publish(k, remove))
           \/ Dispatch \/ EventDone \/ CollectInstances
  BY <1>1, <1>8 DEF React, Publish, Dispatch, EventDone, CollectInstances
<1> QED
  BY <1>1, <1>2, <1>3, <1>4, <1>5, <1>6, <1>7, <1>8 DEF Next, vars

(* However many connections fail at a time, and however deep the calls     *)
(* nest: nothing but the loop over the connections whose transmission      *)
(* failed ever uses a connection that has been destroyed.                  *)
THEOREM LoopAlone == Spec => OnlyTheDirtyLoop
<1>1. OpenInv /\ [Next]_vars =>
          (ConnectionsAlive /\ ~ConnectionsAlive' =>
               At("publish", "transmitted") /\ Top.dirty # {})
  BY MisuseStep
<1> QED
  BY <1>1, OpenInit, OpenStep, PTL DEF Spec, OnlyTheDirtyLoop

(* Type correctness.                                                       *)
THEOREM TypeCorrect == Spec => []TypeOK
BY TypeInit, TypeStep, PTL DEF Spec
=============================================================================
