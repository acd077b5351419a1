-------------------------- MODULE DispatcherProofs --------------------------
(***************************************************************************)
(* Proofs about the dispatcher of a guest, in which dispatches do not nest *)
(* (MaxDepth = 1), for any types, keys and handlers.  The dispatch, if any,*)
(* is the outermost call; everything above it on the stack is a replay to  *)
(* a new handler, which may in turn subscribe others.                      *)
(***************************************************************************)
EXTENDS Dispatcher, FiniteSetTheorems, SequenceTheorems, WellFoundedInduction, TLAPS

-----------------------------------------------------------------------------
(* Lemmas about the order of handlers and instances *)

(* Every set of naturals has a least element: what proofs by induction rest *)
(* on here.                                                                *)
LEMMA LeastNatural ==
  ASSUME NEW S \in SUBSET Nat, S # {}
  PROVE  \E m \in S : \A n \in S : m <= n
<1> DEFINE R == OpToRel(<, Nat)
<1>1. IsWellFoundedOn(R, Nat)
  BY NatLessThanWellFounded
<1>2. PICK m \in S : \A n \in S : ~(<<n, m>> \in R)
  <2> HIDE DEF R
  <2> QED BY <1>1, WFMin
<1>3. ASSUME NEW n \in S, n < m PROVE <<n, m>> \in R
  BY <1>3 DEF OpToRel
<1>4. ASSUME NEW n \in S PROVE m <= n
  <2> HIDE DEF R
  <2>1. m \in Nat /\ n \in Nat /\ ~(n < m) BY <1>2, <1>3
  <2> QED BY <2>1
<1> QED BY <1>4

(* The newest of some handlers.                                            *)
LEMMA MaxOfIds ==
  ASSUME NEW n \in Nat, NEW S \in SUBSET (0..n - 1), S # {}
  PROVE  Max(S) \in S /\ \A i \in S : i <= Max(S)
<1> DEFINE D == {n - i : i \in S}
<1>1. D \in SUBSET Nat /\ D # {}
  OBVIOUS
<1>2. PICK m \in D : \A d \in D : m <= d
  <2> HIDE DEF D
  <2> QED BY <1>1, LeastNatural
<1>3. PICK i \in S : m = n - i
  OBVIOUS
<1>4. \A j \in S : i >= j
  <2> TAKE j \in S
  <2>1. n - j \in D OBVIOUS
  <2> QED BY <2>1, <1>2, <1>3
<1> HIDE DEF D
<1>5. Max(S) \in S /\ \A j \in S : Max(S) >= j
  BY <1>4 DEF Max
<1> QED BY <1>5

(* The first of some instances, by induction on how many they are.         *)
LEMMA MinOfFinite ==
  ASSUME NEW S \in SUBSET Int, IsFiniteSet(S), S # {}
  PROVE  Min(S) \in S /\ \A k \in S : Min(S) <= k
<1> DEFINE Sound(T) == \E x \in T : \A y \in T : x =< y
           Bad == {n \in Nat : \E T \in SUBSET S : T # {} /\ Cardinality(T) = n /\ ~Sound(T)}
<1>1. Bad = {}
  <2> SUFFICES ASSUME Bad # {} PROVE FALSE
    OBVIOUS
  <2>1. PICK n \in Bad : \A m \in Bad : n <= m
    <3>1. Bad \in SUBSET Nat OBVIOUS
    <3> HIDE DEF Bad
    <3> QED BY <3>1, LeastNatural
  <2>2. PICK T \in SUBSET S : T # {} /\ Cardinality(T) = n /\ ~Sound(T)
    OBVIOUS
  <2>3. PICK x : x \in T
    BY <2>2
  <2>4. IsFiniteSet(T) /\ Cardinality(T \ {x}) = n - 1 /\ n - 1 \in Nat
    <3>1. IsFiniteSet(T) BY FS_Subset
    <3>2. Cardinality(T \ {x}) = n - 1 BY <3>1, <2>2, <2>3, FS_RemoveElement
    <3>3. IsFiniteSet(T \ {x}) BY <3>1, FS_RemoveElement
    <3>4. Cardinality(T \ {x}) \in Nat BY <3>3, FS_CardinalityType
    <3> QED BY <3>1, <3>2, <3>4
  <2>5. n - 1 \notin Bad
    BY <2>1
  <2>6. CASE T \ {x} = {}
    <3>1. T = {x} BY <2>3, <2>6
    <3> QED BY <2>2, <2>3, <3>1
  <2>7. CASE T \ {x} # {}
    <3>1. Sound(T \ {x})
      BY <2>4, <2>5, <2>7
    <3>2. PICK z \in T \ {x} : \A y \in T \ {x} : z =< y
      BY <3>1
    <3>3. CASE z =< x
      BY <3>2, <3>3, <2>2
    <3>4. CASE x =< z
      BY <3>2, <3>4, <2>2, <2>3
    <3> QED BY <3>2, <3>3, <3>4, <2>3
  <2> QED BY <2>6, <2>7
<1>2. IsFiniteSet(S) /\ Cardinality(S) \in Nat
  BY FS_CardinalityType
<1>3. Sound(S)
  BY <1>1, <1>2
<1>4. \E x \in S : \A y \in S : x =< y
  BY <1>3
<1>5. Min(S) \in S /\ \A y \in S : Min(S) =< y
  BY <1>4 DEF Min
<1> QED BY <1>5

(* The handler a loop goes on to: the newest of those older than cur.      *)
LEMMA NextHandlerIs ==
  ASSUME NEW ids \in SUBSET Id, NEW cur \in Id \cup {NoId}
  PROVE  LET n == NextHandler(ids, cur) IN
         /\ n \in Id \cup {NoId}
         /\ n = NoId => \A i \in ids : cur # NoId /\ ~(i < cur)
         /\ n # NoId => n \in ids /\ (cur # NoId => n < cur)
         /\ n # NoId => \A i \in ids : cur = NoId \/ i < cur => i <= n
<1> DEFINE rest == {i \in ids : cur = NoId \/ i < cur}
<1>1. CASE rest = {}
  BY <1>1 DEF NextHandler
<1>2. CASE rest # {}
  <2>1. MaxIds \in Nat /\ rest \in SUBSET (0..MaxIds - 1)
    BY DispatcherAssumption DEF Id
  <2>2. Max(rest) \in rest /\ \A i \in rest : i <= Max(rest)
    <3> HIDE DEF rest
    <3> QED BY <1>2, <2>1, MaxOfIds
  <2>3. NextHandler(ids, cur) = Max(rest)
    BY <1>2 DEF NextHandler
  <2>4. Max(rest) # NoId
    BY <2>1, <2>2 DEF NoId
  <2> QED BY <2>1, <2>2, <2>3, <2>4 DEF Id
<1> QED BY <1>1, <1>2

-----------------------------------------------------------------------------
(* Lemmas about the stack *)

LEMMA Pushed ==
  ASSUME NEW s \in Seq(Frame), NEW f \in Frame
  PROVE  LET r == Append(s, f) IN
         /\ r \in Seq(Frame) /\ r # <<>>
         /\ Len(s) \in Nat /\ Len(r) = Len(s) + 1
         /\ r[Len(s) + 1] = f
         /\ \A n \in 1..Len(s) : r[n] = s[n]
  BY AppendProperties, LenProperties

LEMMA Prefix ==
  ASSUME NEW S, NEW q \in Seq(S), NEW n \in 0..Len(q)
  PROVE  /\ SubSeq(q, 1, n) \in Seq(S) /\ Len(SubSeq(q, 1, n)) = n
         /\ \A i \in 1..n : SubSeq(q, 1, n)[i] = q[i]
<1>1. Len(q) \in Nat
  BY LenProperties
<1>2. \A i \in 1..n : q[i] \in S
  BY <1>1, ElementOfSeq
<1>3. SubSeq(q, 1, n) \in Seq(S) /\ Len(SubSeq(q, 1, n)) = n
  BY <1>1, <1>2, SubSeqProperties
<1>4. \A i \in 1..n : SubSeq(q, 1, n)[i] = q[i]
  BY <1>1, <1>2, SubSeqProperties
<1> QED BY <1>3, <1>4

LEMMA PoppedOff ==
  ASSUME NEW s \in Seq(Frame), s # <<>>
  PROVE  LET r == SubSeq(s, 1, Len(s) - 1) IN
         /\ r \in Seq(Frame)
         /\ Len(s) \in Nat /\ Len(s) >= 1 /\ Len(r) = Len(s) - 1
         /\ \A n \in 1..Len(s) - 1 : r[n] = s[n]
<1>1. Len(s) \in Nat /\ Len(s) >= 1
  BY EmptySeq, LenProperties
<1>2. PICK m : m = Len(s) - 1
  OBVIOUS
<1>3. m \in 0..Len(s)
  BY <1>1, <1>2
<1> QED BY <1>1, <1>2, <1>3, Prefix

LEMMA Replaced ==
  ASSUME NEW s \in Seq(Frame), s # <<>>, NEW f \in Frame
  PROVE  LET r == [s EXCEPT ![Len(s)] = f] IN
         /\ r \in Seq(Frame) /\ r # <<>>
         /\ Len(s) \in Nat /\ Len(s) >= 1 /\ Len(r) = Len(s)
         /\ s[Len(s)] \in Frame /\ r[Len(s)] = f
         /\ \A n \in 1..Len(s) : n # Len(s) => r[n] = s[n]
         /\ Len(s) # 1 => r[1] = s[1]
<1>1. Len(s) \in Nat /\ Len(s) >= 1 /\ s \in [1..Len(s) -> Frame]
  BY EmptySeq, LenProperties
<1>2. [s EXCEPT ![Len(s)] = f] \in [1..Len(s) -> Frame]
  BY <1>1
<1>3. [s EXCEPT ![Len(s)] = f] \in Seq(Frame) /\ Len([s EXCEPT ![Len(s)] = f]) = Len(s)
  BY <1>1, <1>2
<1>4. s[Len(s)] \in Frame
  BY <1>1
<1>5. [s EXCEPT ![Len(s)] = f] # <<>>
  BY <1>1, <1>3, EmptySeq
<1>6. [s EXCEPT ![Len(s)] = f][Len(s)] = f
  BY <1>1
<1>7. ASSUME NEW n \in 1..Len(s), n # Len(s) PROVE [s EXCEPT ![Len(s)] = f][n] = s[n]
  BY <1>1, <1>7
<1>8. Len(s) # 1 => [s EXCEPT ![Len(s)] = f][1] = s[1]
  BY <1>1
<1> QED BY <1>1, <1>3, <1>4, <1>5, <1>6, <1>7, <1>8

-----------------------------------------------------------------------------
(* The inductive invariant *)

(* A dispatch is under way.                                                *)
Looping == stack # <<>> /\ stack[1].phase # "replay"

(* How calls nest: a frame with another above it is running user code.     *)
Calls ==
    \A n \in 1..Len(stack) :
        /\ n > 1 => stack[n].phase = "replay"
        /\ n < Len(stack) => stack[n].running
        /\ stack[n].phase = "replay" =>
               stack[n].running /\ stack[n].cur # NoId /\ stack[n].before = {} /\ stack[n].seen = {}

(* removeHandler knows which handler is being invoked.                     *)
Dispatching ==
    dispatchingId = IF Looping /\ stack[1].running THEN stack[1].cur ELSE NoId

(* Ids are used once, and a handler is in one map only.                    *)
All(t) == transmissionHandlers[t] \cup eventHandlers[t]
Fresh ==
    /\ \A i \in Id : i >= nextId => sub[i] = "none" /\ view[i] = {}
    /\ \A t \in Type : \A i \in All(t) : i < nextId
Placed ==
    /\ \A t, u \in Type : \A i \in All(t) \cap All(u) : t = u
    /\ \A t \in Type : transmissionHandlers[t] \cap eventHandlers[t] = {}
    /\ \A t \in Type : transmissionHandlers[t] # {} => t \in pooled

(* Where the loop f over the handlers ids stands: on one of them, it has   *)
(* passed newer ones only, and those still to pass were there when it      *)
(* began.                                                                  *)
Standing(f, ids) ==
    /\ f.cur # NoId => f.cur \in ids \cap f.before
    /\ f.running => f.cur \in f.seen /\ f.cur # NoId
    /\ f.seen \subseteq f.before
    /\ \A i \in f.seen : f.cur # NoId => i > f.cur \/ (f.running /\ i = f.cur)
    /\ \A i \in ids : i < f.cur => i \in f.before

(* What it has not reached yet it will, unless that is gone, cancelled.    *)
Ahead(f, ids, gone) ==
    \A i \in f.before \ f.seen : i \in gone \/ (i \in ids /\ f.cur # NoId /\ i <= f.cur)

(* Handlers noted for removal are in the map that is walked, and passed.   *)
Walk(f, ids, noted, gone) ==
    Standing(f, ids) /\ Ahead(f, ids, gone) /\ noted \subseteq ids \cap f.seen \cap gone

WalkOK ==
    IF Looping
    THEN Walk(stack[1], Handlers(stack[1].phase, stack[1].type), removeIds, Ids("cancelled"))
    ELSE removeIds = {}

(* A cancelled handler is gone or noted.                                   *)
GoneOrNoted == \A t \in Type : All(t) \cap Ids("cancelled") \subseteq removeIds

Finite == \A t \in Type : IsFiniteSet(container[t])

(* A replay has told its handler of the instances up to the one it is at.  *)
Replaying(f, held, handlers, state, told) ==
    /\ f.key \in held[f.type]
    /\ f.cur \in handlers[f.type] /\ state[f.cur] = "none"
    /\ f.type \in Cached => told[f.cur] = {k \in held[f.type] : k <= f.key}
ReplayOK ==
    /\ \A n \in 1..Len(stack) : stack[n].phase = "replay" => Replaying(stack[n], container, eventHandlers, sub, view)
    /\ Looping => \A n \in 1..Len(stack) :
           stack[n].phase = "replay" => stack[n].cur \notin stack[1].before \ stack[1].seen
    /\ \A m, n \in 1..Len(stack) :
           stack[m].phase = "replay" /\ stack[n].phase = "replay" /\ stack[m].cur = stack[n].cur => m = n

(* What a handler holds present once it has been told of k.                *)
After(told, k, remove) == IF remove THEN told \ {k} ELSE told \cup {k}

(* Handlers hold what the container holds, or are about to be told.        *)
Awaits(t, i) ==
    /\ Looping /\ stack[1].phase = "event" /\ stack[1].type = t
    /\ i \in stack[1].before \ stack[1].seen
ViewOK ==
    \A t \in Cached : \A i \in eventHandlers[t] : sub[i] = "active" =>
        container[t] = IF Awaits(t, i) THEN After(view[i], stack[1].key, stack[1].remove) ELSE view[i]

IInv ==
    /\ TypeOK /\ Calls /\ Dispatching /\ Fresh /\ Placed
    /\ WalkOK /\ GoneOrNoted /\ Finite /\ ReplayOK /\ ViewOK

LEMMA HeadIsFrame ==
  ASSUME TypeOK, Looping
  PROVE  /\ Len(stack) \in Nat /\ Len(stack) >= 1 /\ stack[1] \in Frame
         /\ stack[1].phase \in {"transmission", "event"} /\ stack[1].type \in Type
<1>1. Len(stack) \in Nat /\ Len(stack) >= 1 /\ stack[1] \in Frame
  BY EmptySeq, LenProperties, ElementOfSeq DEF TypeOK, Looping
<1> QED BY <1>1 DEF Frame, Looping

LEMMA FrameIs ==
  ASSUME TypeOK, Calls, NEW n \in 1..Len(stack)
  PROVE  /\ stack[n] \in Frame
         /\ stack[n].phase = "replay" => stack[n].cur \in Id
<1>1. stack[n] \in Frame
  BY ElementOfSeq DEF TypeOK
<1> QED BY <1>1 DEF Frame, Calls

(* A handler added to the map a loop walks is newer than those to come.    *)
LEMMA WalkAdd ==
  ASSUME NEW f \in Frame, NEW ids \in SUBSET Id, NEW noted, NEW gone, NEW i \in Id,
         Walk(f, ids, noted, gone), \A j \in ids : j < i
  PROVE  Walk(f, ids \cup {i}, noted, gone)
<1>1. Standing(f, ids \cup {i})
  BY DEF Walk, Standing, Frame, Id, NoId
<1>2. Ahead(f, ids \cup {i}, gone)
  BY DEF Walk, Ahead
<1> QED BY <1>1, <1>2 DEF Walk

(* Handlers that keep their subscription and what they have been told hold *)
(* what they have held, if neither the containers nor the loop change.     *)
LEMMA ViewKept ==
  ASSUME ViewOK, container' = container, eventHandlers' = eventHandlers,
         Looping' = Looping, Looping => stack'[1] = stack[1],
         \A u \in Cached : \A i \in eventHandlers[u] :
             sub'[i] = "active" => sub[i] = "active" /\ view'[i] = view[i]
  PROVE  ViewOK'
<1> SUFFICES ASSUME NEW u \in Cached, NEW i \in eventHandlers[u], sub'[i] = "active"
             PROVE  container[u] = IF Awaits(u, i)' THEN After(view'[i], stack'[1].key, stack'[1].remove)
                                   ELSE view'[i]
  BY DEF ViewOK
<1>1. Awaits(u, i)' <=> Awaits(u, i)
  BY DEF Awaits
<1>2. view'[i] = view[i] /\ sub[i] = "active"
  OBVIOUS
<1>3. CASE Awaits(u, i)
  <2>1. container[u] = After(view[i], stack[1].key, stack[1].remove)
    BY <1>2, <1>3 DEF ViewOK
  <2>2. stack'[1] = stack[1]
    BY <1>3 DEF Awaits
  <2> QED BY <1>1, <1>2, <1>3, <2>1, <2>2 DEF After
<1>4. CASE ~Awaits(u, i)
  BY <1>1, <1>2, <1>4 DEF ViewOK
<1> QED BY <1>3, <1>4

(* The handler being invoked is cancelled, and noted ...                   *)
LEMMA WalkNote ==
  ASSUME NEW f \in Frame, NEW ids, NEW noted, NEW gone, f.running, Walk(f, ids, noted, gone)
  PROVE  Walk(f, ids, noted \cup {f.cur}, gone \cup {f.cur})
<1>1. f.cur \in ids \cap f.seen
  BY DEF Walk, Standing
<1> QED BY <1>1 DEF Walk, Ahead

(* ... or another one, which is erased at once.                            *)
LEMMA WalkErase ==
  ASSUME NEW f \in Frame, NEW ids, NEW noted, NEW gone, Walk(f, ids, noted, gone),
         NEW i, i # f.cur, i \notin gone
  PROVE  Walk(f, ids \ {i}, noted, gone \cup {i})
<1>1. Standing(f, ids \ {i})
  BY DEF Walk, Standing
<1>2. Ahead(f, ids \ {i}, gone \cup {i})
  BY DEF Walk, Ahead
<1>3. noted \subseteq (ids \ {i}) \cap f.seen \cap (gone \cup {i})
  BY DEF Walk
<1> QED BY <1>1, <1>2, <1>3 DEF Walk

(* A loop begins, ...                                                      *)
LEMMA WalkBegins ==
  ASSUME NEW p \in {"transmission", "event"}, NEW t \in Type, NEW k \in Key, NEW remove \in BOOLEAN,
         NEW ids \in SUBSET Id, NEW gone
  PROVE  Loop(p, t, k, remove, ids) \in Frame /\ Walk(Loop(p, t, k, remove, ids), ids, {}, gone)
<1> DEFINE c == NextHandler(ids, NoId)
<1>1. /\ c \in Id \cup {NoId}
      /\ c = NoId => ids = {}
      /\ c # NoId => c \in ids /\ \A i \in ids : i <= c
  BY NextHandlerIs
<1>2. Loop(p, t, k, remove, ids) = [phase |-> p, type |-> t, key |-> k, remove |-> remove, cur |-> c,
                                    running |-> FALSE, before |-> ids, seen |-> {}]
  BY DEF Loop
<1> HIDE DEF c
<1>3. Loop(p, t, k, remove, ids) \in Frame
  BY <1>1, <1>2 DEF Frame
<1>4. Standing(Loop(p, t, k, remove, ids), ids)
  BY <1>1, <1>2 DEF Standing
<1>5. Ahead(Loop(p, t, k, remove, ids), ids, gone)
  BY <1>1, <1>2 DEF Ahead
<1> QED BY <1>2, <1>3, <1>4, <1>5 DEF Walk

(* ... invokes the handler it stands on ...                                *)
LEMMA WalkInvokes ==
  ASSUME NEW f \in Frame, NEW ids, NEW noted, NEW gone, Walk(f, ids, noted, gone),
         ~f.running, f.cur # NoId,
         NEW g, g = [f EXCEPT !.running = TRUE, !.seen = @ \cup {f.cur}]
  PROVE  g \in Frame /\ Walk(g, ids, noted, gone)
<1>1. f.cur \in Id /\ g \in Frame
  BY DEF Frame
<1>2. /\ g.cur = f.cur /\ g.running /\ g.seen = f.seen \cup {f.cur} /\ g.before = f.before
  BY DEF Frame
<1>3. Standing(g, ids)
  BY <1>2 DEF Walk, Standing
<1>4. Ahead(g, ids, gone)
  BY <1>2 DEF Walk, Ahead
<1> QED BY <1>1, <1>2, <1>3, <1>4 DEF Walk

(* ... and goes on to the next one.                                        *)
LEMMA WalkGoesOn ==
  ASSUME NEW f \in Frame, NEW ids \in SUBSET Id, NEW noted, NEW gone, Walk(f, ids, noted, gone),
         f.running,
         NEW g, g = [f EXCEPT !.running = FALSE, !.cur = NextHandler(ids, f.cur)]
  PROVE  g \in Frame /\ Walk(g, ids, noted, gone)
<1> DEFINE c == NextHandler(ids, f.cur)
<1>1. f.cur \in Id /\ f.cur # NoId /\ f.cur \in f.seen
  BY DEF Frame, Walk, Standing
<1>2. /\ c \in Id \cup {NoId}
      /\ c = NoId => \A i \in ids : ~(i < f.cur)
      /\ c # NoId => c \in ids /\ c < f.cur
      /\ c # NoId => \A i \in ids : i < f.cur => i <= c
  BY <1>1, NextHandlerIs
<1>3. g.cur = c /\ ~g.running /\ g.seen = f.seen /\ g.before = f.before
  BY DEF Frame
<1> HIDE DEF c
<1>4. g \in Frame
  BY <1>2, <1>3 DEF Frame
<1>5. Standing(g, ids)
  <2>1. g.cur # NoId => g.cur \in ids \cap g.before
    BY <1>2, <1>3 DEF Walk, Standing
  <2>2. \A i \in g.seen : g.cur # NoId => i > g.cur
    BY <1>1, <1>2, <1>3 DEF Walk, Standing, Id, Frame
  <2>3. \A i \in ids : i < g.cur => i \in g.before
    BY <1>1, <1>2, <1>3 DEF Walk, Standing, Id, NoId
  <2> QED BY <2>1, <2>2, <2>3, <1>3 DEF Walk, Standing
<1>6. Ahead(g, ids, gone)
  <2> SUFFICES ASSUME NEW i \in f.before \ f.seen, i \notin gone
               PROVE  i \in ids /\ c # NoId /\ i <= c
    BY <1>3 DEF Ahead
  <2>1. i \in ids /\ i <= f.cur /\ i # f.cur
    BY <1>1 DEF Walk, Ahead
  <2>2. i < f.cur
    BY <2>1, <1>1 DEF Id
  <2> QED BY <2>1, <2>2, <1>2
<1> QED BY <1>3, <1>4, <1>5, <1>6 DEF Walk

(* User code inside of a dispatch is the handler the loop stands on.       *)
LEMMA Inside ==
  ASSUME TypeOK, Calls, UserCode, Looping PROVE stack[1].running
<1>1. Len(stack) \in Nat /\ Len(stack) >= 1
  BY HeadIsFrame
<1>2. CASE Len(stack) = 1
  BY <1>2 DEF UserCode, Looping, Top
<1>3. CASE Len(stack) # 1
  BY <1>1, <1>3 DEF Calls
<1> QED BY <1>2, <1>3

LEMMA InitIInv == Init => IInv
<1> SUFFICES ASSUME Init PROVE IInv
  OBVIOUS
<1>1. Len(stack) = 0 /\ stack = <<>> /\ stack \in Seq(Frame)
  BY EmptySeq DEF Init
<1>2. TypeOK
  BY <1>1, DispatcherAssumption DEF Init, TypeOK, Id, NoId
<1>3. Calls /\ ReplayOK
  BY <1>1 DEF Calls, ReplayOK
<1>4. Dispatching /\ WalkOK /\ ~Looping
  BY <1>1 DEF Init, Dispatching, WalkOK, Looping
<1>5. Fresh /\ Placed /\ GoneOrNoted
  BY DEF Init, Fresh, Placed, GoneOrNoted, All
<1>6. Finite
  BY FS_EmptySet DEF Init, Finite
<1>7. ViewOK
  BY DispatcherAssumption DEF Init, ViewOK
<1> QED BY <1>2, <1>3, <1>4, <1>5, <1>6, <1>7 DEF IInv

(* The innermost call starts a replay.                                     *)
ReplayFrame(f) ==
    /\ f \in Frame /\ f.phase = "replay" /\ f.running /\ f.cur # NoId
    /\ f.before = {} /\ f.seen = {}

LEMMA PushReplay ==
  ASSUME TypeOK, Calls, UserCode, NEW f, ReplayFrame(f), stack' = Append(stack, f)
  PROVE  /\ Calls' /\ stack' \in Seq(Frame)
         /\ Looping' = Looping /\ (Looping => stack'[1] = stack[1])
         /\ Len(stack) \in Nat /\ Len(stack') = Len(stack) + 1 /\ stack'[Len(stack) + 1] = f
         /\ \A n \in 1..Len(stack) : stack'[n] = stack[n]
<1>1. /\ stack' \in Seq(Frame) /\ stack' # <<>> /\ stack \in Seq(Frame)
      /\ Len(stack) \in Nat /\ Len(stack') = Len(stack) + 1 /\ stack'[Len(stack) + 1] = f
      /\ \A n \in 1..Len(stack) : stack'[n] = stack[n]
  BY Pushed DEF TypeOK, ReplayFrame
<1>2. stack = <<>> <=> Len(stack) = 0
  BY <1>1, EmptySeq
<1>3. stack # <<>> => stack'[1] = stack[1] /\ stack[Len(stack)].running
  BY <1>1, <1>2 DEF UserCode, Top
<1>4. Looping' = Looping /\ (Looping => stack'[1] = stack[1])
  <2>1. CASE stack = <<>>
    BY <1>1, <1>2, <2>1 DEF Looping, ReplayFrame
  <2>2. CASE stack # <<>>
    BY <1>1, <1>3, <2>2 DEF Looping
  <2> QED BY <2>1, <2>2
<1>5. Calls'
  <2> SUFFICES ASSUME NEW n \in 1..Len(stack')
               PROVE  /\ n > 1 => stack'[n].phase = "replay"
                      /\ n < Len(stack') => stack'[n].running
                      /\ stack'[n].phase = "replay" =>
                             /\ stack'[n].running /\ stack'[n].cur # NoId
                             /\ stack'[n].before = {} /\ stack'[n].seen = {}
    BY DEF Calls
  <2>1. CASE n = Len(stack')
    BY <1>1, <2>1 DEF ReplayFrame
  <2>2. CASE n # Len(stack')
    <3>1. n \in 1..Len(stack) /\ stack'[n] = stack[n]
      BY <1>1, <2>2
    <3>2. n < Len(stack) => stack[n].running
      BY <3>1 DEF Calls
    <3>3. stack[n].running
      BY <3>1, <3>2, <1>1, <1>2, <1>3
    <3> QED BY <3>1, <3>3 DEF Calls
  <2> QED BY <2>1, <2>2
<1> QED BY <1>1, <1>4, <1>5

(* The innermost replay ends.                                              *)
LEMMA PopReplay ==
  ASSUME TypeOK, Calls, stack # <<>>, Top.phase = "replay", stack' = Popped
  PROVE  /\ Calls' /\ stack' \in Seq(Frame)
         /\ Looping' = Looping /\ (Looping => stack'[1] = stack[1])
         /\ Len(stack) \in Nat /\ Len(stack) >= 1 /\ Len(stack') = Len(stack) - 1
         /\ \A n \in 1..Len(stack') : stack'[n] = stack[n]
<1>1. /\ stack' \in Seq(Frame) /\ stack \in Seq(Frame)
      /\ Len(stack) \in Nat /\ Len(stack) >= 1 /\ Len(stack') = Len(stack) - 1
      /\ \A n \in 1..Len(stack') : stack'[n] = stack[n]
  BY PoppedOff DEF TypeOK, Popped
<1>2. stack' = <<>> <=> Len(stack) = 1
  BY <1>1, EmptySeq
<1>3. Looping' = Looping /\ (Looping => stack'[1] = stack[1])
  <2>1. CASE Len(stack) = 1
    BY <1>1, <1>2, <2>1 DEF Looping, Top
  <2>2. CASE Len(stack) # 1
    BY <1>1, <1>2, <2>2 DEF Looping
  <2> QED BY <2>1, <2>2
<1>4. \A n \in 1..Len(stack') : n \in 1..Len(stack) /\ n < Len(stack)
  BY <1>1
<1>5. Calls'
  BY <1>1, <1>4 DEF Calls
<1> QED BY <1>1, <1>3, <1>5

(* The innermost replay goes on.                                           *)
LEMMA NextReplay ==
  ASSUME TypeOK, Calls, stack # <<>>, Top.phase = "replay", NEW f, ReplayFrame(f),
         stack' = [stack EXCEPT ![Len(stack)] = f]
  PROVE  /\ Calls' /\ stack' \in Seq(Frame)
         /\ Looping' = Looping /\ (Looping => stack'[1] = stack[1])
         /\ Len(stack) \in Nat /\ Len(stack) >= 1 /\ Len(stack') = Len(stack)
         /\ stack'[Len(stack)] = f
         /\ \A n \in 1..Len(stack) : n # Len(stack) => stack'[n] = stack[n]
<1>1. /\ stack' \in Seq(Frame) /\ stack' # <<>>
      /\ Len(stack) \in Nat /\ Len(stack) >= 1 /\ Len(stack') = Len(stack)
      /\ stack'[Len(stack)] = f
      /\ \A n \in 1..Len(stack) : n # Len(stack) => stack'[n] = stack[n]
      /\ Len(stack) # 1 => stack'[1] = stack[1]
  BY Replaced DEF TypeOK, ReplayFrame
<1>2. Looping' = Looping /\ (Looping => stack'[1] = stack[1])
  <2>1. CASE Len(stack) = 1
    <3>1. stack[1].phase = "replay" /\ stack'[1].phase = "replay"
      BY <1>1, <2>1 DEF Top, ReplayFrame
    <3>2. ~Looping /\ ~Looping'
      BY <3>1 DEF Looping
    <3> QED BY <3>2 DEF Looping
  <2>2. CASE Len(stack) # 1
    <3>1. stack'[1] = stack[1]
      BY <1>1, <2>2
    <3> QED BY <3>1, <1>1 DEF Looping
  <2> QED BY <2>1, <2>2
<1>3. Calls'
  <2> SUFFICES ASSUME NEW n \in 1..Len(stack)
               PROVE  /\ n > 1 => stack'[n].phase = "replay"
                      /\ n < Len(stack) => stack'[n].running
                      /\ stack'[n].phase = "replay" =>
                             /\ stack'[n].running /\ stack'[n].cur # NoId
                             /\ stack'[n].before = {} /\ stack'[n].seen = {}
    BY <1>1 DEF Calls
  <2>1. CASE n = Len(stack)
    BY <1>1, <2>1 DEF ReplayFrame
  <2>2. CASE n # Len(stack)
    <3>1. stack'[n] = stack[n]
      BY <1>1, <2>2
    <3> QED BY <3>1 DEF Calls
  <2> QED BY <2>1, <2>2
<1> QED BY <1>1, <1>2, <1>3

(* What holds on to where handlers stand, as long as they do not change.   *)
LEMMA WalkKept ==
  ASSUME IInv, UNCHANGED <<handlerVars, removeIds>>, Looping' = Looping,
         Looping => stack'[1] = stack[1], Ids("cancelled")' = Ids("cancelled")
  PROVE  Placed' /\ WalkOK' /\ GoneOrNoted'
<1> USE DEF IInv, handlerVars
<1>1. \A u \in Type : All(u)' = All(u)
  BY DEF All
<1>2. Placed'
  BY <1>1 DEF Placed
<1>3. GoneOrNoted'
  BY <1>1 DEF GoneOrNoted
<1>4. WalkOK'
  <2>1. CASE Looping
    <3>1. stack'[1] = stack[1]
      BY <2>1
    <3>2. Handlers(stack[1].phase, stack[1].type)' = Handlers(stack[1].phase, stack[1].type)
      BY <3>1 DEF Handlers
    <3> QED BY <2>1, <3>1, <3>2 DEF WalkOK
  <2>2. CASE ~Looping
    BY <2>2 DEF WalkOK
  <2> QED BY <2>1, <2>2
<1> QED BY <1>2, <1>3, <1>4

(* What adding a handler, to either map, keeps.                            *)
LEMMA Registering ==
  ASSUME IInv, NEW t \in Type, nextId < MaxIds, nextId' = nextId + 1,
         \/ /\ transmissionHandlers' = [transmissionHandlers EXCEPT ![t] = @ \cup {nextId}]
            /\ eventHandlers' = eventHandlers /\ pooled' = pooled \cup {t}
         \/ /\ eventHandlers' = [eventHandlers EXCEPT ![t] = @ \cup {nextId}]
            /\ transmissionHandlers' = transmissionHandlers /\ pooled' = pooled,
         \A i \in Id : i # nextId => sub'[i] = sub[i] /\ view'[i] = view[i],
         sub'[nextId] # "cancelled", removeIds' = removeIds,
         Looping' = Looping, Looping => stack'[1] = stack[1]
  PROVE  /\ Fresh' /\ Placed' /\ WalkOK' /\ GoneOrNoted'
         /\ nextId \in Id /\ nextId \in Nat /\ nextId' \in 0..MaxIds
         /\ transmissionHandlers' \in [Type -> SUBSET Id]
         /\ eventHandlers' \in [Type -> SUBSET Id]
         /\ sub[nextId] = "none" /\ view[nextId] = {}
         /\ \A u \in Type : nextId \notin eventHandlers[u] /\ eventHandlers[u] \subseteq Id
         /\ Looping => nextId \notin stack[1].before \ stack[1].seen
<1> USE DEF IInv
<1>1. nextId \in Id /\ nextId \in Nat /\ MaxIds \in Nat /\ nextId' \in 0..MaxIds
  BY DispatcherAssumption DEF TypeOK, Id
<1>2. \A u \in Type : All(u)' = IF u = t THEN All(u) \cup {nextId} ELSE All(u)
  BY DEF TypeOK, All
<1>3. \A u \in Type : All(u) \subseteq Id /\ \A i \in All(u) : i < nextId
  BY DEF Fresh, All, TypeOK
<1>4. sub[nextId] = "none" /\ view[nextId] = {}
  BY <1>1 DEF Fresh
<1>5. Ids("cancelled")' = Ids("cancelled")
  BY <1>4 DEF Ids
<1>6. Fresh'
  <2>1. \A i \in Id : i >= nextId' => i >= nextId /\ i # nextId
    BY <1>1 DEF Id
  <2>2. \A i \in Id : i >= nextId' => sub'[i] = "none" /\ view'[i] = {}
    BY <2>1 DEF Fresh
  <2>3. \A u \in Type : \A i \in All(u)' : i < nextId'
    <3> SUFFICES ASSUME NEW u \in Type, NEW i \in All(u)' PROVE i < nextId'
      OBVIOUS
    <3>1. i \in All(u) \cup {nextId}
      BY <1>2
    <3>2. i \in Id /\ (i < nextId \/ i = nextId)
      BY <3>1, <1>1, <1>3
    <3> QED BY <3>2, <1>1 DEF Id
  <2> QED BY <2>2, <2>3 DEF Fresh
<1>7. \A u \in Type : nextId \notin All(u)
  BY <1>1, <1>3
<1>8. Placed'
  <2>1. \A u \in Type, v \in Type : All(u)' \cap All(v)' # {} => u = v
    BY <1>2, <1>7 DEF Placed
  <2>2. \A u \in Type : transmissionHandlers'[u] \cap eventHandlers'[u] = {}
    BY <1>7 DEF Placed, All, TypeOK
  <2>3. \A u \in Type : transmissionHandlers'[u] # {} => u \in pooled'
    BY DEF Placed, TypeOK
  <2> QED BY <2>1, <2>2, <2>3 DEF Placed
<1>9. WalkOK'
  <2>1. CASE ~Looping
    BY <2>1 DEF WalkOK
  <2>2. CASE Looping
    <3>1. stack[1] \in Frame /\ stack[1].phase \in {"transmission", "event"} /\ stack[1].type \in Type
      BY <2>2, HeadIsFrame
    <3> DEFINE ids == Handlers(stack[1].phase, stack[1].type)
               jds == Handlers(stack[1].phase, stack[1].type)'
    <3>2. /\ jds = ids \/ jds = ids \cup {nextId}
          /\ ids \in SUBSET Id /\ \A i \in ids : i < nextId
      BY <3>1, <1>3, <2>2 DEF Handlers, All, TypeOK
    <3>3. Walk(stack[1], ids, removeIds, Ids("cancelled"))
      BY <2>2 DEF WalkOK
    <3>4. Walk(stack[1], jds, removeIds, Ids("cancelled"))
      <4> HIDE DEF ids, jds
      <4> QED BY <3>1, <3>2, <3>3, <1>1, WalkAdd
    <3> QED BY <3>4, <2>2, <1>5 DEF WalkOK
  <2> QED BY <2>1, <2>2
<1>10. GoneOrNoted'
  BY <1>2, <1>4, <1>5 DEF GoneOrNoted, Ids
<1>11. \A u \in Type : nextId \notin eventHandlers[u] /\ eventHandlers[u] \subseteq Id
  BY <1>7 DEF All, TypeOK
<1>12. Looping => nextId \notin stack[1].before \ stack[1].seen
  <2> SUFFICES ASSUME Looping, nextId \in stack[1].before \ stack[1].seen PROVE FALSE
    OBVIOUS
  <2>1. nextId \in Handlers(stack[1].phase, stack[1].type)
    BY <1>4 DEF WalkOK, Walk, Ahead, Ids
  <2>2. stack[1].type \in Type
    BY HeadIsFrame
  <2> QED BY <2>1, <2>2, <1>7 DEF Handlers, All
<1> QED BY <1>1, <1>4, <1>6, <1>8, <1>9, <1>10, <1>11, <1>12 DEF TypeOK

(* A step of the loop of a dispatch: nothing is being replayed.            *)
LEMMA Alone ==
  ASSUME TypeOK, Calls, stack # <<>>, Top.phase # "replay"
  PROVE  Len(stack) = 1 /\ Looping /\ Top = stack[1]
<1>1. Len(stack) \in Nat /\ Len(stack) >= 1
  BY EmptySeq, LenProperties DEF TypeOK
<1>2. Len(stack) \in 1..Len(stack) /\ stack[Len(stack)].phase # "replay"
  BY <1>1 DEF Top
<1>3. Len(stack) = 1
  <2>1. Len(stack) > 1 => stack[Len(stack)].phase = "replay"
    BY <1>2 DEF Calls
  <2>2. ~(Len(stack) > 1)
    BY <2>1, <1>2
  <2>3. PICK m \in Nat : m = Len(stack)
    BY <1>1
  <2> QED BY <2>2, <2>3, <1>1
<1> QED BY <1>2, <1>3 DEF Looping, Top

LEMMA Idle ==
  ASSUME TypeOK, Calls, stack # <<>>, ~Top.running
  PROVE  Len(stack) = 1 /\ Looping /\ Top = stack[1]
<1>1. Len(stack) \in Nat /\ Len(stack) >= 1
  BY EmptySeq, LenProperties DEF TypeOK
<1>2. Top.phase # "replay"
  BY <1>1 DEF Calls, Top
<1> QED BY <1>2, Alone

LEMMA OneFrame ==
  ASSUME stack' \in Seq(Frame), Len(stack') = 1, stack'[1].phase # "replay"
  PROVE  Looping' /\ Calls' /\ ReplayOK'
<1>1. stack' # <<>>
  BY EmptySeq
<1>2. \A n \in 1..Len(stack') : n = 1
  OBVIOUS
<1>3. Looping'
  BY <1>1 DEF Looping
<1>4. Calls'
  BY <1>2 DEF Calls
<1>5. ReplayOK'
  BY <1>2 DEF ReplayOK
<1> QED BY <1>3, <1>4, <1>5

LEMMA NoFrame ==
  ASSUME stack' = <<>>
  PROVE  /\ stack' \in Seq(Frame) /\ ~Looping' /\ Calls' /\ ReplayOK'
<1>1. stack' \in Seq(Frame) /\ Len(stack') = 0
  BY EmptySeq
<1>2. ~Looping'
  BY DEF Looping
<1>3. Calls' /\ ReplayOK'
  BY <1>1 DEF Calls, ReplayOK
<1> QED BY <1>1, <1>2, <1>3

LEMMA OneReplaced ==
  ASSUME TypeOK, Len(stack) = 1, stack # <<>>, NEW f \in Frame, f.phase # "replay",
         stack' = [stack EXCEPT ![Len(stack)] = f]
  PROVE  stack' \in Seq(Frame) /\ Len(stack') = 1 /\ stack'[1] = f /\ Looping' /\ Calls' /\ ReplayOK'
<1>1. stack' \in Seq(Frame) /\ Len(stack') = 1 /\ stack'[1] = f
  BY Replaced DEF TypeOK
<1> QED BY <1>1, OneFrame

LEMMA OnePopped ==
  ASSUME TypeOK, Len(stack) = 1, stack # <<>> PROVE Popped = <<>>
<1>1. Popped \in Seq(Frame) /\ Len(Popped) = 0
  BY PoppedOff DEF TypeOK, Popped
<1> QED BY <1>1, EmptySeq

(* addTransmissionHandler *)
LEMMA AddTransmissionHandlerStep ==
  ASSUME IInv, NEW t \in Type, AddTransmissionHandler(t) PROVE IInv'
<1> USE DEF IInv
<1>1. /\ UNCHANGED <<stack, container, view, removeIds, dispatchingId, eventHandlers>>
      /\ Looping' = Looping
  BY DEF AddTransmissionHandler, Looping
<1>2. /\ nextId \in Id => sub'[nextId] = "active"
      /\ \A i \in Id : i # nextId => sub'[i] = sub[i]
  BY DEF AddTransmissionHandler, Subscribed, TypeOK
<1>3. /\ Fresh' /\ Placed' /\ WalkOK' /\ GoneOrNoted'
      /\ nextId \in Id /\ nextId \in Nat /\ nextId' \in 0..MaxIds
      /\ transmissionHandlers' \in [Type -> SUBSET Id]
      /\ eventHandlers' \in [Type -> SUBSET Id]
      /\ sub[nextId] = "none"
      /\ \A u \in Type : nextId \notin eventHandlers[u] /\ eventHandlers[u] \subseteq Id
  <2>1. nextId \in Id
    BY DispatcherAssumption DEF AddTransmissionHandler, TypeOK, Id
  <2>2. /\ nextId < MaxIds /\ nextId' = nextId + 1 /\ sub'[nextId] # "cancelled"
        /\ transmissionHandlers' = [transmissionHandlers EXCEPT ![t] = @ \cup {nextId}]
        /\ pooled' = pooled \cup {t}
    BY <2>1, <1>2 DEF AddTransmissionHandler
  <2> QED BY <1>1, <1>2, <2>2, Registering
<1>4. TypeOK'
  BY <1>1, <1>3 DEF AddTransmissionHandler, TypeOK, Subscribed
<1>5. Calls' /\ Dispatching' /\ Finite'
  BY <1>1 DEF Calls, Dispatching, Finite, Looping
<1>6. ReplayOK'
  <2>1. \A n \in 1..Len(stack) : stack[n].phase = "replay" => Replaying(stack[n], container', eventHandlers', sub', view')
    <3> SUFFICES ASSUME NEW n \in 1..Len(stack), stack[n].phase = "replay" PROVE Replaying(stack[n], container', eventHandlers', sub', view')
      OBVIOUS
    <3>1. Replaying(stack[n], container, eventHandlers, sub, view) /\ stack[n].cur \in Id /\ stack[n].type \in Type
      BY FrameIs DEF ReplayOK, Frame
    <3>2. stack[n].cur # nextId
      BY <3>1, <1>3 DEF Replaying
    <3> QED BY <3>1, <3>2, <1>1, <1>2 DEF Replaying
  <2> QED BY <2>1, <1>1 DEF ReplayOK
<1>7. ViewOK'
  <2>1. \A u \in Cached : \A i \in eventHandlers[u] : i \in Id /\ sub'[i] = sub[i]
    BY <1>2, <1>3, DispatcherAssumption
  <2> QED BY <2>1, <1>1, ViewKept
<1> QED BY <1>3, <1>4, <1>5, <1>6, <1>7

(* addEventHandler, of a type without instances                            *)
LEMMA AddEventHandlerAlone ==
  ASSUME IInv, NEW t \in Type, AddEventHandler(t), container[t] = {} PROVE IInv'
<1> USE DEF IInv
<1>1. /\ UNCHANGED <<stack, container, view, removeIds, dispatchingId, transmissionHandlers, pooled>>
      /\ eventHandlers' = [eventHandlers EXCEPT ![t] = @ \cup {nextId}]
      /\ Looping' = Looping
  BY DEF AddEventHandler, Looping
<1>2. /\ nextId \in Id => sub'[nextId] = "active"
      /\ \A i \in Id : i # nextId => sub'[i] = sub[i]
  BY DEF AddEventHandler, Subscribed, TypeOK
<1>3. /\ Fresh' /\ Placed' /\ WalkOK' /\ GoneOrNoted'
      /\ nextId \in Id /\ nextId \in Nat /\ nextId' \in 0..MaxIds
      /\ transmissionHandlers' \in [Type -> SUBSET Id]
      /\ eventHandlers' \in [Type -> SUBSET Id]
      /\ sub[nextId] = "none" /\ view[nextId] = {}
      /\ \A u \in Type : nextId \notin eventHandlers[u] /\ eventHandlers[u] \subseteq Id
      /\ Looping => nextId \notin stack[1].before \ stack[1].seen
  <2>1. nextId \in Id
    BY DispatcherAssumption DEF AddEventHandler, TypeOK, Id
  <2>2. nextId < MaxIds /\ nextId' = nextId + 1 /\ sub'[nextId] # "cancelled"
    BY <2>1, <1>2 DEF AddEventHandler
  <2> QED BY <1>1, <1>2, <2>2, Registering
<1>4. TypeOK'
  BY <1>1, <1>3 DEF AddEventHandler, TypeOK, Subscribed
<1>5. Calls' /\ Dispatching' /\ Finite'
  BY <1>1 DEF Calls, Dispatching, Finite, Looping
<1>6. ReplayOK'
  <2>1. \A n \in 1..Len(stack) : stack[n].phase = "replay" => Replaying(stack[n], container', eventHandlers', sub', view')
    <3> SUFFICES ASSUME NEW n \in 1..Len(stack), stack[n].phase = "replay" PROVE Replaying(stack[n], container', eventHandlers', sub', view')
      OBVIOUS
    <3>1. Replaying(stack[n], container, eventHandlers, sub, view) /\ stack[n].cur \in Id /\ stack[n].type \in Type
      BY FrameIs DEF ReplayOK, Frame
    <3>2. stack[n].cur # nextId
      BY <3>1, <1>3 DEF Replaying
    <3> QED BY <3>1, <3>2, <1>1, <1>2 DEF Replaying, TypeOK
  <2> QED BY <2>1, <1>1 DEF ReplayOK
<1>7. ViewOK'
  <2> SUFFICES ASSUME NEW u \in Cached, NEW i \in eventHandlers'[u], sub'[i] = "active"
               PROVE  container[u] = IF Awaits(u, i) THEN After(view[i], stack[1].key, stack[1].remove)
                                     ELSE view[i]
    BY <1>1 DEF ViewOK, Awaits, After
  <2>1. CASE i = nextId
    <3>1. u = t
      BY <2>1, <1>1, <1>3, DispatcherAssumption DEF TypeOK
    <3> QED BY <2>1, <3>1, <1>3 DEF Awaits
  <2>2. CASE i # nextId
    <3>1. i \in eventHandlers[u] /\ i \in Id
      BY <2>2, <1>1, <1>3, DispatcherAssumption DEF TypeOK
    <3> QED BY <3>1, <2>2, <1>2 DEF ViewOK
  <2> QED BY <2>1, <2>2
<1> QED BY <1>3, <1>4, <1>5, <1>6, <1>7
(* addEventHandler, which begins the replay                                *)
LEMMA AddEventHandlerReplayed ==
  ASSUME IInv, NEW t \in Type, AddEventHandler(t), container[t] # {} PROVE IInv'
<1> USE DEF IInv
<1> DEFINE k == Min(container[t])
           f == [phase |-> "replay", type |-> t, key |-> k, remove |-> FALSE, cur |-> nextId,
                 running |-> TRUE, before |-> {}, seen |-> {}]
<1>1. /\ UNCHANGED <<sub, container, removeIds, dispatchingId, transmissionHandlers, pooled>>
      /\ eventHandlers' = [eventHandlers EXCEPT ![t] = @ \cup {nextId}]
      /\ stack' = Append(stack, f) /\ view' = Told(nextId, t, k, FALSE)
      /\ UserCode /\ nextId < MaxIds /\ nextId' = nextId + 1
  BY DEF AddEventHandler
<1>2. nextId \in Id /\ nextId # NoId /\ sub[nextId] = "none"
  BY <1>1, DispatcherAssumption DEF TypeOK, Id, NoId, Fresh
<1>3. /\ k \in container[t] /\ k \in Key /\ k \in Int /\ container[t] \in SUBSET Int
      /\ \A j \in container[t] : k <= j
  <2>1. container[t] \in SUBSET Int /\ IsFiniteSet(container[t]) /\ container[t] \subseteq Key
    BY DispatcherAssumption DEF TypeOK, Finite
  <2> QED BY <2>1, MinOfFinite
<1>4. ReplayFrame(f)
  BY <1>2, <1>3 DEF ReplayFrame, Frame
<1>5. /\ Calls' /\ stack' \in Seq(Frame)
      /\ Looping' = Looping /\ (Looping => stack'[1] = stack[1])
      /\ Len(stack) \in Nat /\ Len(stack') = Len(stack) + 1 /\ stack'[Len(stack) + 1] = f
      /\ \A n \in 1..Len(stack) : stack'[n] = stack[n]
  <2> HIDE DEF f
  <2> QED BY <1>1, <1>4, PushReplay
<1>6. \A i \in Id : i # nextId => view'[i] = view[i]
  BY <1>1 DEF Told, TypeOK
<1>7. /\ Fresh' /\ Placed' /\ WalkOK' /\ GoneOrNoted'
      /\ nextId' \in 0..MaxIds
      /\ transmissionHandlers' \in [Type -> SUBSET Id]
      /\ eventHandlers' \in [Type -> SUBSET Id]
      /\ view[nextId] = {}
      /\ \A u \in Type : nextId \notin eventHandlers[u] /\ eventHandlers[u] \subseteq Id
      /\ Looping => nextId \notin stack[1].before \ stack[1].seen
  BY <1>1, <1>2, <1>5, <1>6, Registering
<1>8. TypeOK'
  <2>1. view' \in [Id -> SUBSET Key]
    BY <1>1, <1>3 DEF Told, TypeOK
  <2> QED BY <2>1, <1>1, <1>5, <1>7 DEF TypeOK
<1>9. Dispatching' /\ Finite'
  BY <1>1, <1>5 DEF Dispatching, Finite
<1>10. ReplayOK'
  <2>1. \A n \in 1..Len(stack) : stack[n].phase = "replay" =>
           /\ stack[n].cur # nextId /\ Replaying(stack[n], container', eventHandlers', sub', view')
           /\ Looping => stack[n].cur \notin stack[1].before \ stack[1].seen
    <3> SUFFICES ASSUME NEW n \in 1..Len(stack), stack[n].phase = "replay"
                 PROVE  stack[n].cur # nextId /\ Replaying(stack[n], container', eventHandlers', sub', view')
      BY DEF ReplayOK
    <3>1. Replaying(stack[n], container, eventHandlers, sub, view) /\ stack[n].cur \in Id /\ stack[n].type \in Type /\ stack'[n] = stack[n]
      BY <1>5, FrameIs DEF ReplayOK, Frame
    <3>2. stack[n].cur # nextId
      BY <3>1, <1>7 DEF Replaying
    <3> QED BY <3>1, <3>2, <1>1, <1>6 DEF Replaying, TypeOK
  <2>2. Replaying(f, container', eventHandlers', sub', view')
    <3>1. nextId \in eventHandlers'[t]
      BY <1>1 DEF TypeOK
    <3>2. t \in Cached => view'[nextId] = {k}
      BY <1>1, <1>2, <1>7 DEF Told, TypeOK
    <3>3. {k} = {j \in container[t] : j <= k}
      BY <1>3
    <3> QED BY <3>1, <3>2, <3>3, <1>1, <1>2, <1>3 DEF Replaying
  <2>3. \A n \in 1..Len(stack') : n \in 1..Len(stack) \/ n = Len(stack) + 1
    BY <1>5
  <2>4. \A n \in 1..Len(stack') : stack'[n].phase = "replay" => Replaying(stack'[n], container', eventHandlers', sub', view')
    BY <2>1, <2>2, <2>3, <1>5
  <2>5. Looping' => \A n \in 1..Len(stack') :
           stack'[n].phase = "replay" => stack'[n].cur \notin stack'[1].before \ stack'[1].seen
    BY <2>1, <2>3, <1>5, <1>7
  <2>6. \A m, n \in 1..Len(stack') :
           stack'[m].phase = "replay" /\ stack'[n].phase = "replay" /\ stack'[m].cur = stack'[n].cur => m = n
    BY <2>1, <2>3, <1>5 DEF ReplayOK
  <2> QED BY <2>4, <2>5, <2>6 DEF ReplayOK
<1>11. ViewOK'
  <2> SUFFICES ASSUME NEW u \in Cached, NEW i \in eventHandlers'[u], sub[i] = "active"
               PROVE  container[u] = IF Awaits(u, i) THEN After(view'[i], stack'[1].key, stack'[1].remove)
                                     ELSE view'[i]
    <3>1. \A u \in Cached : \A i \in eventHandlers'[u] : Awaits(u, i)' <=> Awaits(u, i)
      BY <1>5 DEF Awaits
    <3>2. \A u \in Cached : \A i \in eventHandlers'[u] : Awaits(u, i) => stack'[1] = stack[1]
      BY <1>5 DEF Awaits
    <3> QED BY <3>1, <3>2, <1>1 DEF ViewOK, After
  <2>1. i # nextId
    BY <1>2
  <2>2. i \in eventHandlers[u] /\ i \in Id
    BY <2>1, <1>1, <1>7, DispatcherAssumption DEF TypeOK
  <2>3. view'[i] = view[i] /\ (Awaits(u, i) => stack'[1] = stack[1])
    BY <2>1, <2>2, <1>5, <1>6 DEF Awaits
  <2>4. container[u] = IF Awaits(u, i) THEN After(view[i], stack[1].key, stack[1].remove) ELSE view[i]
    BY <2>2 DEF ViewOK
  <2> QED BY <2>3, <2>4
<1> QED BY <1>5, <1>7, <1>8, <1>9, <1>10, <1>11

(* The new handler returns: to the next instance                           *)
LEMMA ReplayGoesOn ==
  ASSUME IInv, Replay, {k \in container[Top.type] : k > Top.key} # {} PROVE IInv'
<1> USE DEF IInv
<1> DEFINE rest == {k \in container[Top.type] : k > Top.key}
           k == Min(rest)
           f == [Top EXCEPT !.key = k]
<1>1. /\ UNCHANGED <<handlerVars, dispatchingId, removeIds, container, sub>>
      /\ view' = Told(Top.cur, Top.type, k, FALSE)
      /\ stack # <<>> /\ Top.phase = "replay"
      /\ stack' = [stack EXCEPT ![Len(stack)] = f]
  BY DEF Replay, Top
<1>2. /\ Len(stack) \in 1..Len(stack) /\ Top \in Frame /\ Top.cur \in Id
      /\ ReplayFrame(Top) /\ Replaying(Top, container, eventHandlers, sub, view) /\ Top.type \in Type /\ Top.key \in Int
  <2>1. Len(stack) \in Nat /\ Len(stack) >= 1
    BY <1>1, EmptySeq, LenProperties DEF TypeOK
  <2>2. Top \in Frame /\ Top.cur \in Id
    BY <2>1, <1>1, FrameIs DEF Top
  <2>3. ReplayFrame(Top) /\ Replaying(Top, container, eventHandlers, sub, view)
    BY <2>1, <2>2, <1>1 DEF Top, Calls, ReplayOK, ReplayFrame
  <2>4. Top.type \in Type /\ Top.key \in Key
    BY <2>2 DEF Frame
  <2>5. Top.key \in Int
    BY <2>4, DispatcherAssumption
  <2> QED BY <2>1, <2>2, <2>3, <2>4, <2>5
<1>3. /\ k \in container[Top.type] /\ k > Top.key /\ k \in Key /\ container[Top.type] \in SUBSET Int
      /\ \A j \in container[Top.type] : j > Top.key => k <= j
  <2>1. container[Top.type] \in SUBSET Int /\ IsFiniteSet(container[Top.type]) /\ container[Top.type] \subseteq Key
    BY <1>2, DispatcherAssumption DEF TypeOK, Finite
  <2>2. rest \in SUBSET Int /\ IsFiniteSet(rest) /\ rest # {}
    BY <2>1, FS_Subset
  <2>3. k \in rest /\ \A j \in rest : k <= j
    <3> HIDE DEF rest
    <3> QED BY <2>2, MinOfFinite
  <2> QED BY <2>1, <2>3
<1>4. /\ ReplayFrame(f) /\ f.cur = Top.cur /\ f.type = Top.type /\ f.key = k
  BY <1>2, <1>3 DEF ReplayFrame, Frame
<1>5. /\ Calls' /\ stack' \in Seq(Frame)
      /\ Looping' = Looping /\ (Looping => stack'[1] = stack[1])
      /\ Len(stack') = Len(stack) /\ stack'[Len(stack)] = f
      /\ \A n \in 1..Len(stack) : n # Len(stack) => stack'[n] = stack[n]
  <2> HIDE DEF f
  <2> QED BY <1>1, <1>4, NextReplay
<1>6. \A i \in Id : i # Top.cur => view'[i] = view[i]
  BY <1>1 DEF Told, TypeOK
<1>7. Placed' /\ WalkOK' /\ GoneOrNoted'
  <2>1. Ids("cancelled")' = Ids("cancelled")
    BY <1>1 DEF Ids
  <2> QED BY <2>1, <1>1, <1>5, WalkKept
<1>8. Fresh'
  <2>1. Top.cur < nextId /\ \A i \in Id : i >= nextId => i # Top.cur
    BY <1>2 DEF Replaying, Fresh, All, TypeOK, Id
  <2> QED BY <2>1, <1>1, <1>6 DEF Fresh, All, handlerVars
<1>9. TypeOK'
  <2>1. view' \in [Id -> SUBSET Key]
    BY <1>1, <1>2, <1>3 DEF Told, TypeOK
  <2> QED BY <2>1, <1>1, <1>5 DEF TypeOK, handlerVars
<1>10. Dispatching' /\ Finite'
  BY <1>1, <1>5 DEF Dispatching, Finite
<1>11. ReplayOK'
  <2>1. \A n \in 1..Len(stack) : stack'[n].phase = stack[n].phase /\ stack'[n].cur = stack[n].cur
    BY <1>2, <1>4, <1>5 DEF Top, ReplayFrame
  <2>2. Replaying(f, container', eventHandlers', sub', view')
    <3>1. Top.type \in Cached => view'[Top.cur] = view[Top.cur] \cup {k}
      BY <1>1, <1>2 DEF Told, TypeOK
    <3>2. {j \in container[Top.type] : j <= Top.key} \cup {k} = {j \in container[Top.type] : j <= k}
      <4>1. \A j \in container[Top.type] : j \in Int /\ (j <= k <=> j <= Top.key \/ j = k)
        <5> HIDE DEF k, rest
        <5> QED BY <1>2, <1>3
      <4> HIDE DEF k
      <4> QED BY <4>1, <1>3
    <3> HIDE DEF k, f
    <3> QED BY <3>1, <3>2, <1>1, <1>2, <1>3, <1>4 DEF Replaying, handlerVars
  <2>3. \A n \in 1..Len(stack) : n # Len(stack) /\ stack[n].phase = "replay" => Replaying(stack[n], container', eventHandlers', sub', view')
    <3> SUFFICES ASSUME NEW n \in 1..Len(stack), n # Len(stack), stack[n].phase = "replay"
                 PROVE  Replaying(stack[n], container', eventHandlers', sub', view')
      OBVIOUS
    <3>1. Replaying(stack[n], container, eventHandlers, sub, view) /\ stack[n].cur \in Id /\ stack'[n] = stack[n]
      BY <1>5, FrameIs DEF ReplayOK
    <3>2. stack[n].cur # Top.cur
      BY <1>1, <1>2 DEF ReplayOK, Top
    <3> QED BY <3>1, <3>2, <1>1, <1>6 DEF Replaying, handlerVars
  <2>4. \A n \in 1..Len(stack') : stack'[n].phase = "replay" => Replaying(stack'[n], container', eventHandlers', sub', view')
    BY <2>2, <2>3, <1>5
  <2>5. Looping' => \A n \in 1..Len(stack') :
           stack'[n].phase = "replay" => stack'[n].cur \notin stack'[1].before \ stack'[1].seen
    BY <2>1, <1>5 DEF ReplayOK
  <2>6. \A m, n \in 1..Len(stack') :
           stack'[m].phase = "replay" /\ stack'[n].phase = "replay" /\ stack'[m].cur = stack'[n].cur => m = n
    BY <2>1, <1>5 DEF ReplayOK
  <2> QED BY <2>4, <2>5, <2>6 DEF ReplayOK
<1>12. ViewOK'
  <2>1. \A u \in Cached : \A i \in eventHandlers[u] : sub'[i] = "active" => sub[i] = "active" /\ view'[i] = view[i]
    <3> SUFFICES ASSUME NEW u \in Cached, NEW i \in eventHandlers[u], sub[i] = "active" PROVE view'[i] = view[i]
      BY <1>1
    <3> QED BY <1>2, <1>6, DispatcherAssumption DEF Replaying, TypeOK
  <2> QED BY <2>1, <1>1, <1>5, ViewKept DEF handlerVars
<1> QED BY <1>5, <1>7, <1>8, <1>9, <1>10, <1>11, <1>12
(* The new handler returns from the last instance                          *)
LEMMA ReplayEnds ==
  ASSUME IInv, Replay, {k \in container[Top.type] : k > Top.key} = {} PROVE IInv'
<1> USE DEF IInv
<1>1. /\ UNCHANGED <<handlerVars, dispatchingId, removeIds, container, view>>
      /\ sub' = [sub EXCEPT ![Top.cur] = "active"]
      /\ stack # <<>> /\ Top.phase = "replay" /\ stack' = Popped
  BY DEF Replay, Subscribed
<1>2. /\ Len(stack) \in 1..Len(stack) /\ Top.cur \in Id /\ Top.type \in Type /\ Top.key \in Int
      /\ Replaying(Top, container, eventHandlers, sub, view)
      /\ Looping => Top.cur \notin stack[1].before \ stack[1].seen
      /\ \A n \in 1..Len(stack) : stack[n].phase = "replay" /\ stack[n].cur = Top.cur => n = Len(stack)
  <2>1. Len(stack) \in Nat /\ Len(stack) >= 1
    BY <1>1, EmptySeq, LenProperties DEF TypeOK
  <2>2. Top \in Frame /\ Top.cur \in Id
    BY <2>1, <1>1, FrameIs DEF Top
  <2>3. Top.type \in Type /\ Top.key \in Key
    BY <2>2 DEF Frame
  <2>4. Top.key \in Int
    BY <2>3, DispatcherAssumption
  <2> QED BY <2>1, <2>2, <2>3, <2>4, <1>1 DEF ReplayOK, Top
<1>3. /\ Calls' /\ stack' \in Seq(Frame)
      /\ Looping' = Looping /\ (Looping => stack'[1] = stack[1])
      /\ Len(stack) \in Nat /\ Len(stack) >= 1 /\ Len(stack') = Len(stack) - 1
      /\ \A n \in 1..Len(stack') : stack'[n] = stack[n]
  BY <1>1, PopReplay
<1>4. /\ sub[Top.cur] = "none" /\ sub'[Top.cur] = "active"
      /\ \A i \in Id : i # Top.cur => sub'[i] = sub[i]
  BY <1>1, <1>2 DEF Replaying, TypeOK
<1>5. Placed' /\ WalkOK' /\ GoneOrNoted'
  <2>1. Ids("cancelled")' = Ids("cancelled")
    BY <1>4 DEF Ids
  <2> QED BY <2>1, <1>1, <1>3, WalkKept
<1>6. Fresh'
  <2>1. \A i \in Id : i >= nextId => i # Top.cur
    BY <1>2 DEF Replaying, Fresh, All, TypeOK, Id
  <2> QED BY <2>1, <1>1, <1>4 DEF Fresh, All, handlerVars
<1>7. TypeOK'
  BY <1>1, <1>2, <1>3 DEF TypeOK, handlerVars
<1>8. Dispatching' /\ Finite'
  BY <1>1, <1>3 DEF Dispatching, Finite
<1>9. ReplayOK'
  <2>1. \A n \in 1..Len(stack') : n \in 1..Len(stack) /\ n # Len(stack)
    BY <1>3
  <2>2. \A n \in 1..Len(stack') : stack'[n].phase = "replay" =>
           Replaying(stack'[n], container', eventHandlers', sub', view')
    <3> SUFFICES ASSUME NEW n \in 1..Len(stack'), stack[n].phase = "replay"
                 PROVE  Replaying(stack[n], container, eventHandlers, sub', view)
      BY <1>1, <1>3 DEF handlerVars
    <3>1. Replaying(stack[n], container, eventHandlers, sub, view) /\ stack[n].cur \in Id
      BY <2>1, FrameIs DEF ReplayOK
    <3>2. stack[n].cur # Top.cur
      BY <1>2, <2>1
    <3> QED BY <3>1, <3>2, <1>4 DEF Replaying
  <2>3. Looping' => \A n \in 1..Len(stack') :
           stack'[n].phase = "replay" => stack'[n].cur \notin stack'[1].before \ stack'[1].seen
    BY <2>1, <1>3 DEF ReplayOK
  <2>4. \A m, n \in 1..Len(stack') :
           stack'[m].phase = "replay" /\ stack'[n].phase = "replay" /\ stack'[m].cur = stack'[n].cur => m = n
    BY <2>1, <1>3 DEF ReplayOK
  <2> QED BY <2>2, <2>3, <2>4 DEF ReplayOK
<1>10. ViewOK'
  <2> SUFFICES ASSUME NEW u \in Cached, NEW i \in eventHandlers[u], sub'[i] = "active"
               PROVE  container[u] = IF Awaits(u, i)' THEN After(view[i], stack'[1].key, stack'[1].remove)
                                     ELSE view[i]
    BY <1>1 DEF ViewOK, handlerVars
  <2>1. Awaits(u, i)' <=> Awaits(u, i)
    BY <1>3 DEF Awaits
  <2>2. Awaits(u, i) => stack'[1] = stack[1]
    BY <1>3 DEF Awaits
  <2>3. i \in Id /\ u \in Type
    BY DispatcherAssumption DEF TypeOK
  <2>4. CASE i = Top.cur
    <3>1. u = Top.type
      BY <2>3, <2>4, <1>2 DEF Replaying, Placed, All
    <3>2. ~Awaits(u, i)
      BY <2>4, <1>2 DEF Awaits
    <3>3. view[i] = {k \in container[u] : k <= Top.key}
      BY <3>1, <2>4, <1>2 DEF Replaying
    <3>4. container[u] \in SUBSET Int /\ \A k \in container[u] : ~(k > Top.key)
      BY <3>1, <2>3, DispatcherAssumption DEF TypeOK
    <3>5. \A k \in container[u] : k <= Top.key
      BY <3>4, <1>2
    <3>6. view[i] = container[u]
      BY <3>3, <3>5
    <3> QED BY <3>2, <3>6, <2>1
  <2>5. CASE i # Top.cur
    <3>1. sub[i] = "active"
      BY <2>3, <2>5, <1>4
    <3>2. container[u] = IF Awaits(u, i) THEN After(view[i], stack[1].key, stack[1].remove) ELSE view[i]
      BY <3>1 DEF ViewOK
    <3> QED BY <3>2, <2>1, <2>2
  <2> QED BY <2>4, <2>5
<1> QED BY <1>3, <1>5, <1>6, <1>7, <1>8, <1>9, <1>10

(* The new handler throws                                                  *)
LEMMA ReplayThrowsStep == ASSUME IInv, ReplayThrows PROVE IInv'
<1> USE DEF IInv
<1>1. /\ UNCHANGED <<handlerVars, dispatchingId, removeIds, container, view, sub>>
      /\ stack # <<>> /\ Top.phase = "replay" /\ stack' = Popped
  BY DEF ReplayThrows
<1>2. /\ Calls' /\ stack' \in Seq(Frame)
      /\ Looping' = Looping /\ (Looping => stack'[1] = stack[1])
      /\ Len(stack) \in Nat /\ Len(stack) >= 1 /\ Len(stack') = Len(stack) - 1
      /\ \A n \in 1..Len(stack') : stack'[n] = stack[n]
  BY <1>1, PopReplay
<1>3. Placed' /\ WalkOK' /\ GoneOrNoted'
  <2>1. Ids("cancelled")' = Ids("cancelled")
    BY <1>1 DEF Ids
  <2> QED BY <2>1, <1>1, <1>2, WalkKept
<1>4. Fresh' /\ TypeOK' /\ Finite' /\ Dispatching'
  BY <1>1, <1>2 DEF Fresh, TypeOK, Finite, Dispatching, All, handlerVars
<1>5. ReplayOK'
  <2>1. \A n \in 1..Len(stack') : n \in 1..Len(stack)
    BY <1>2
  <2> QED BY <2>1, <1>1, <1>2, SMTT(30) DEF ReplayOK, handlerVars
<1>6. ViewOK'
  BY <1>1, <1>2, ViewKept DEF handlerVars
<1> QED BY <1>2, <1>3, <1>4, <1>5, <1>6
(* Subscription::unsubscribe                                               *)
LEMMA UnsubscribeStep ==
  ASSUME IInv, NEW i \in Id, Unsubscribe(i) PROVE IInv'
<1> USE DEF IInv
<1>1. /\ UNCHANGED <<pooled, nextId, dispatchingId, container, stack, view>>
      /\ UserCode /\ sub[i] = "active" /\ sub' = [sub EXCEPT ![i] = "cancelled"]
      /\ RemoveHandler(i) /\ Looping' = Looping
  BY DEF Unsubscribe, Looping
<1>2. /\ sub'[i] = "cancelled" /\ \A j \in Id : j # i => sub'[j] = sub[j]
      /\ Ids("cancelled")' = Ids("cancelled") \cup {i} /\ i \notin Ids("cancelled")
  BY <1>1 DEF TypeOK, Ids
<1>3. \/ /\ i = dispatchingId /\ removeIds' = removeIds \cup {i}
         /\ UNCHANGED <<transmissionHandlers, eventHandlers>>
      \/ /\ i # dispatchingId /\ removeIds' = removeIds
         /\ transmissionHandlers' = [t \in Type |-> transmissionHandlers[t] \ {i}]
         /\ eventHandlers' = [t \in Type |-> eventHandlers[t] \ {i}]
  BY <1>1 DEF RemoveHandler
<1>4. \A t \in Type : /\ transmissionHandlers'[t] \subseteq transmissionHandlers[t]
                      /\ eventHandlers'[t] \subseteq eventHandlers[t]
                      /\ All(t)' \subseteq All(t)
                      /\ \A j \in eventHandlers[t] : j # i => j \in eventHandlers'[t]
  BY <1>3 DEF All
<1>5. TypeOK'
  BY <1>1, <1>3 DEF TypeOK
<1>6. Calls' /\ Dispatching' /\ Finite'
  BY <1>1 DEF Calls, Dispatching, Finite, Looping
<1>7. Fresh'
  <2>1. i < nextId
    BY <1>1 DEF Fresh, TypeOK, Id
  <2>2. \A j \in Id : j >= nextId => j # i
    BY <2>1 DEF TypeOK, Id
  <2> QED BY <2>2, <1>1, <1>2, <1>4 DEF Fresh
<1>8. Placed'
  BY <1>1, <1>4 DEF Placed
<1>9. GoneOrNoted'
  <2>1. CASE i = dispatchingId
    <3>1. \A t \in Type : All(t)' = All(t)
      BY <2>1, <1>3 DEF All
    <3> QED BY <3>1, <2>1, <1>2, <1>3 DEF GoneOrNoted
  <2>2. CASE i # dispatchingId
    <3>1. \A t \in Type : All(t)' = All(t) \ {i}
      BY <2>2, <1>3 DEF All
    <3> QED BY <3>1, <2>2, <1>2, <1>3 DEF GoneOrNoted
  <2> QED BY <2>1, <2>2
<1>10. WalkOK'
  <2>1. CASE ~Looping
    <3>1. i # dispatchingId
      BY <2>1 DEF Dispatching, Id, NoId
    <3> QED BY <2>1, <3>1, <1>1, <1>3 DEF WalkOK
  <2>2. CASE Looping
    <3>1. /\ stack[1] \in Frame /\ stack[1].running /\ dispatchingId = stack[1].cur
          /\ stack[1].phase \in {"transmission", "event"} /\ stack[1].type \in Type
      BY <2>2, <1>1, HeadIsFrame, Inside DEF Dispatching
    <3> DEFINE ids == Handlers(stack[1].phase, stack[1].type)
               jds == Handlers(stack[1].phase, stack[1].type)'
               gone == Ids("cancelled")
    <3>2. Walk(stack[1], ids, removeIds, gone)
      BY <2>2 DEF WalkOK
    <3>3. Walk(stack[1], jds, removeIds', gone \cup {i})
      <4>1. CASE i = dispatchingId
        <5>1. jds = ids /\ removeIds' = removeIds \cup {i} /\ i = stack[1].cur
          BY <4>1, <3>1, <1>1, <1>3 DEF Handlers
        <5> HIDE DEF ids, jds, gone
        <5> QED BY <5>1, <3>1, <3>2, WalkNote
      <4>2. CASE i # dispatchingId
        <5>1. jds = ids \ {i} /\ removeIds' = removeIds /\ i # stack[1].cur
          BY <4>2, <3>1, <1>1, <1>3 DEF Handlers
        <5> HIDE DEF ids, jds, gone
        <5> QED BY <5>1, <3>1, <3>2, <1>2, WalkErase DEF gone
      <4> QED BY <4>1, <4>2
    <3> QED BY <3>3, <2>2, <1>1, <1>2 DEF WalkOK
  <2> QED BY <2>1, <2>2
<1>11. ReplayOK'
  <2> SUFFICES ASSUME NEW n \in 1..Len(stack), stack[n].phase = "replay"
               PROVE  Replaying(stack[n], container', eventHandlers', sub', view')
    BY <1>1 DEF ReplayOK
  <2>1. /\ Replaying(stack[n], container, eventHandlers, sub, view)
        /\ stack[n].cur \in Id /\ stack[n].type \in Type
    BY FrameIs DEF ReplayOK, Frame
  <2>2. stack[n].cur # i
    BY <2>1, <1>1 DEF Replaying
  <2> QED BY <2>1, <2>2, <1>1, <1>2, <1>4 DEF Replaying
<1>12. ViewOK'
  <2> SUFFICES ASSUME NEW u \in Cached, NEW j \in eventHandlers'[u], sub'[j] = "active"
               PROVE  container[u] = IF Awaits(u, j) THEN After(view[j], stack[1].key, stack[1].remove)
                                     ELSE view[j]
    BY <1>1 DEF ViewOK, Awaits
  <2>1. j \in eventHandlers[u] /\ j \in Id
    BY <1>4, DispatcherAssumption DEF TypeOK
  <2>2. sub[j] = "active"
    BY <2>1, <1>1, <1>2
  <2> QED BY <2>1, <2>2 DEF ViewOK
<1> QED BY <1>5, <1>6, <1>7, <1>8, <1>9, <1>10, <1>11, <1>12

(* Subscription::discard                                                   *)
LEMMA DiscardStep ==
  ASSUME IInv, NEW i \in Id, Discard(i) PROVE IInv'
<1> USE DEF IInv
<1>1. /\ UNCHANGED <<handlerVars, dispatchingId, removeIds, container, stack, view>>
      /\ sub[i] = "active" /\ sub' = [sub EXCEPT ![i] = "discarded"] /\ Looping' = Looping
  BY DEF Discard, Looping
<1>2. /\ sub'[i] = "discarded" /\ \A j \in Id : j # i => sub'[j] = sub[j]
      /\ Ids("cancelled")' = Ids("cancelled")
  BY <1>1 DEF TypeOK, Ids
<1>3. Placed' /\ WalkOK' /\ GoneOrNoted'
  BY <1>1, <1>2, WalkKept
<1>4. TypeOK' /\ Calls' /\ Dispatching' /\ Finite'
  BY <1>1 DEF TypeOK, Calls, Dispatching, Finite, Looping, handlerVars
<1>5. Fresh'
  <2>1. \A j \in Id : j >= nextId => j # i
    BY <1>1 DEF Fresh, TypeOK, Id
  <2> QED BY <2>1, <1>1, <1>2 DEF Fresh, All, handlerVars
<1>6. ReplayOK'
  <2> SUFFICES ASSUME NEW n \in 1..Len(stack), stack[n].phase = "replay"
               PROVE  Replaying(stack[n], container, eventHandlers, sub', view)
    BY <1>1 DEF ReplayOK, handlerVars
  <2>1. Replaying(stack[n], container, eventHandlers, sub, view) /\ stack[n].cur \in Id
    BY FrameIs DEF ReplayOK
  <2>2. stack[n].cur # i
    BY <2>1, <1>1 DEF Replaying
  <2> QED BY <2>1, <2>2, <1>2 DEF Replaying
<1>7. ViewOK'
  <2>1. \A u \in Cached : \A j \in eventHandlers[u] : j \in Id /\ (sub'[j] = "active" => sub[j] = "active")
    BY <1>1, <1>2, DispatcherAssumption DEF TypeOK
  <2> QED BY <2>1, <1>1, ViewKept DEF handlerVars
<1> QED BY <1>3, <1>4, <1>5, <1>6, <1>7
(* dispatch                                                                *)
LEMMA DispatchStep ==
  ASSUME MaxDepth = 1, IInv, NEW t \in Type, NEW k \in Key, NEW remove \in BOOLEAN, Dispatch(t, k, remove)
  PROVE  IInv'
<1> USE DEF IInv
<1> DEFINE ids == transmissionHandlers[t]
           f == Loop("transmission", t, k, remove, ids)
<1>1. /\ UNCHANGED <<handlerVars, dispatchingId, removeIds, container, sub, view>>
      /\ stack = <<>> /\ stack' = Append(stack, f) /\ ~Looping
  BY DEF Dispatch, Looping
<1>2. f \in Frame /\ Walk(f, ids, {}, Ids("cancelled"))
  <2>1. ids \in SUBSET Id
    BY DEF TypeOK
  <2> HIDE DEF ids
  <2> QED BY <2>1, WalkBegins
<1>3. f.phase = "transmission" /\ f.type = t /\ ~f.running
  BY DEF Loop
<1>4. stack' \in Seq(Frame) /\ Len(stack') = 1 /\ stack'[1] = f
  <2> HIDE DEF f
  <2>1. Len(stack) = 0
    BY <1>1, EmptySeq
  <2> QED BY <2>1, <1>1, <1>2, Pushed DEF TypeOK
<1>5. Looping' /\ Calls' /\ ReplayOK'
  <2> HIDE DEF f
  <2> QED BY <1>3, <1>4, OneFrame
<1>6. TypeOK' /\ Finite' /\ Fresh' /\ Placed' /\ GoneOrNoted'
  BY <1>1, <1>4 DEF TypeOK, Finite, Fresh, Placed, GoneOrNoted, All, Ids, handlerVars
<1>7. Dispatching'
  <2> HIDE DEF f
  <2> QED BY <1>1, <1>3, <1>4, <1>5 DEF Dispatching
<1>8. WalkOK'
  <2>1. Handlers(stack[1].phase, stack[1].type)' = ids
    <3> HIDE DEF f
    <3> QED BY <1>1, <1>3, <1>4 DEF Handlers, handlerVars
  <2>2. removeIds' = {} /\ Ids("cancelled")' = Ids("cancelled")
    BY <1>1 DEF WalkOK, Ids
  <2> HIDE DEF f, ids
  <2> QED BY <2>1, <2>2, <1>2, <1>4, <1>5 DEF WalkOK
<1>9. ViewOK'
  <2>1. \A u, i : ~Awaits(u, i) /\ ~Awaits(u, i)'
    <3> HIDE DEF f
    <3> QED BY <1>1, <1>3, <1>4 DEF Awaits
  <2> QED BY <2>1, <1>1 DEF ViewOK, handlerVars
<1> QED BY <1>5, <1>6, <1>7, <1>8, <1>9

(* The loop invokes a handler                                              *)
LEMMA InvokeStep == ASSUME IInv, Invoke PROVE IInv'
<1> USE DEF IInv
<1> DEFINE f == stack[1]
           g == [f EXCEPT !.running = TRUE, !.seen = @ \cup {f.cur}]
           ids == Handlers(f.phase, f.type)
<1>1. /\ UNCHANGED <<handlerVars, removeIds, container, sub>>
      /\ stack # <<>> /\ ~Top.running /\ Top.cur # NoId
      /\ dispatchingId' = Top.cur /\ view' = Told(Top.cur, Top.type, Top.key, Top.remove)
  BY DEF Invoke
<1>2. Len(stack) = 1 /\ Looping /\ Top = f
  BY <1>1, Idle
<1>3. f \in Frame /\ f.phase \in {"transmission", "event"} /\ f.type \in Type /\ f.cur \in Id /\ f.key \in Key
  <2>1. f \in Frame /\ f.phase \in {"transmission", "event"}
    BY <1>2, HeadIsFrame
  <2> QED BY <2>1, <1>1, <1>2 DEF Frame
<1>4. stack' = [stack EXCEPT ![Len(stack)] = g]
  BY <1>1, <1>2 DEF Invoke, Top, TypeOK
<1>5. Walk(f, ids, removeIds, Ids("cancelled"))
  BY <1>2 DEF WalkOK
<1>6. g \in Frame /\ Walk(g, ids, removeIds, Ids("cancelled"))
  <2> HIDE DEF f, ids
  <2> QED BY <1>1, <1>2, <1>3, <1>5, WalkInvokes DEF g
<1>7. /\ g.phase = f.phase /\ g.type = f.type /\ g.cur = f.cur /\ g.running
      /\ g.key = f.key /\ g.remove = f.remove
      /\ g.before = f.before /\ g.seen = f.seen \cup {f.cur}
  BY <1>3 DEF Frame
<1> HIDE DEF g
<1>8. stack' \in Seq(Frame) /\ Len(stack') = 1 /\ stack'[1] = g /\ Looping' /\ Calls' /\ ReplayOK'
  <2>1. g.phase # "replay"
    BY <1>3, <1>7
  <2> QED BY <2>1, <1>1, <1>2, <1>4, <1>6, OneReplaced
<1>9. \A i \in Id : view'[i] = IF i = f.cur /\ f.type \in Cached THEN After(view[i], f.key, f.remove) ELSE view[i]
  BY <1>1, <1>2, <1>3 DEF Told, TypeOK, After
<1>10. f.cur \in ids /\ f.cur \in f.before /\ f.cur \notin f.seen
  BY <1>1, <1>2, <1>3, <1>5 DEF Walk, Standing, Id
<1>11. TypeOK'
  <2>1. view' \in [Id -> SUBSET Key]
    BY <1>1, <1>2, <1>3 DEF Told, TypeOK
  <2> QED BY <2>1, <1>1, <1>2, <1>3, <1>8 DEF TypeOK, handlerVars
<1>12. Placed' /\ GoneOrNoted' /\ Finite'
  BY <1>1 DEF Placed, GoneOrNoted, Finite, All, Ids, handlerVars
<1>13. Fresh'
  <2>1. f.cur < nextId
    BY <1>3, <1>10 DEF Fresh, All, Handlers
  <2>2. \A i \in Id : i >= nextId => i # f.cur
    BY <2>1, <1>3 DEF TypeOK, Id
  <2> QED BY <2>2, <1>1, <1>9 DEF Fresh, All, handlerVars
<1>14. Dispatching'
  BY <1>1, <1>2, <1>7, <1>8 DEF Dispatching
<1>15. WalkOK'
  <2>1. Handlers(stack[1].phase, stack[1].type)' = ids
    BY <1>1, <1>7, <1>8 DEF Handlers, handlerVars
  <2>2. removeIds' = removeIds /\ Ids("cancelled")' = Ids("cancelled")
    BY <1>1 DEF Ids
  <2> HIDE DEF f, ids
  <2> QED BY <2>1, <2>2, <1>6, <1>8 DEF WalkOK
<1>16. ViewOK'
  <2> SUFFICES ASSUME NEW u \in Cached, NEW i \in eventHandlers[u], sub[i] = "active"
               PROVE  container[u] = IF Awaits(u, i)' THEN After(view'[i], g.key, g.remove) ELSE view'[i]
    BY <1>1, <1>8 DEF ViewOK, handlerVars
  <2>1. u \in Type /\ i \in Id
    BY DispatcherAssumption DEF TypeOK
  <2>2. container[u] = IF Awaits(u, i) THEN After(view[i], f.key, f.remove) ELSE view[i]
    BY DEF ViewOK
  <2>3. Awaits(u, i) <=> f.phase = "event" /\ f.type = u /\ i \in f.before \ f.seen
    BY <1>2 DEF Awaits
  <2>4. Awaits(u, i)' <=> f.phase = "event" /\ f.type = u /\ i \in f.before \ (f.seen \cup {f.cur})
    BY <1>7, <1>8 DEF Awaits
  <2>5. CASE i = f.cur
    <3>1. f.phase = "event" /\ f.type = u
      BY <2>1, <2>5, <1>3, <1>10 DEF Handlers, Placed, All
    <3> QED BY <3>1, <2>1, <2>2, <2>3, <2>4, <2>5, <1>9, <1>10
  <2>6. CASE i # f.cur
    <3>1. view'[i] = view[i]
      BY <2>1, <2>6, <1>9
    <3> QED BY <3>1, <2>2, <2>3, <2>4, <2>6, <1>7
  <2> QED BY <2>5, <2>6
<1> QED BY <1>8, <1>11, <1>12, <1>13, <1>14, <1>15, <1>16

(* The handler returns                                                     *)
LEMMA ReturnStep == ASSUME IInv, Return PROVE IInv'
<1> USE DEF IInv
<1> DEFINE f == stack[1]
           ids == Handlers(f.phase, f.type)
           g == [f EXCEPT !.running = FALSE, !.cur = NextHandler(ids, f.cur)]
<1>1. /\ UNCHANGED <<handlerVars, removeIds, container, sub, view>>
      /\ stack # <<>> /\ Top.phase # "replay" /\ Top.running /\ dispatchingId' = NoId
  BY DEF Return
<1>2. Len(stack) = 1 /\ Looping /\ Top = f
  BY <1>1, Alone
<1>3. f \in Frame /\ f.phase \in {"transmission", "event"} /\ f.type \in Type
  BY <1>2, HeadIsFrame
<1>4. stack' = [stack EXCEPT ![Len(stack)] = g]
  BY <1>1, <1>2 DEF Return, Top, Walked, TypeOK
<1>5. Walk(f, ids, removeIds, Ids("cancelled"))
  BY <1>2 DEF WalkOK
<1>6. g \in Frame /\ Walk(g, ids, removeIds, Ids("cancelled"))
  <2>1. ids \in SUBSET Id
    BY <1>3 DEF Handlers, TypeOK
  <2> HIDE DEF f, ids
  <2> QED BY <2>1, <1>1, <1>2, <1>3, <1>5, WalkGoesOn DEF g
<1>7. /\ g.phase = f.phase /\ g.type = f.type /\ ~g.running
      /\ g.key = f.key /\ g.remove = f.remove /\ g.before = f.before /\ g.seen = f.seen
  BY <1>3 DEF Frame
<1> HIDE DEF g
<1>8. stack' \in Seq(Frame) /\ Len(stack') = 1 /\ stack'[1] = g /\ Looping' /\ Calls' /\ ReplayOK'
  <2>1. g.phase # "replay"
    BY <1>3, <1>7
  <2> QED BY <2>1, <1>1, <1>2, <1>4, <1>6, OneReplaced
<1>9. TypeOK' /\ Placed' /\ GoneOrNoted' /\ Finite' /\ Fresh'
  BY <1>1, <1>8 DEF TypeOK, Placed, GoneOrNoted, Finite, Fresh, All, Ids, handlerVars
<1>10. Dispatching'
  BY <1>1, <1>7, <1>8 DEF Dispatching
<1>11. WalkOK'
  <2>1. Handlers(stack[1].phase, stack[1].type)' = ids
    BY <1>1, <1>7, <1>8 DEF Handlers, handlerVars
  <2>2. removeIds' = removeIds /\ Ids("cancelled")' = Ids("cancelled")
    BY <1>1 DEF Ids
  <2> HIDE DEF f, ids
  <2> QED BY <2>1, <2>2, <1>6, <1>8 DEF WalkOK
<1>12. ViewOK'
  <2>1. \A u, i : Awaits(u, i)' <=> Awaits(u, i)
    BY <1>2, <1>7, <1>8 DEF Awaits
  <2>2. stack'[1].key = stack[1].key /\ stack'[1].remove = stack[1].remove
    BY <1>7, <1>8
  <2> SUFFICES ASSUME NEW u \in Cached, NEW i \in eventHandlers[u], sub[i] = "active"
               PROVE  container[u] = IF Awaits(u, i) THEN After(view[i], f.key, f.remove) ELSE view[i]
    BY <2>1, <2>2, <1>1 DEF ViewOK, handlerVars
  <2> QED BY DEF ViewOK
<1> QED BY <1>8, <1>9, <1>10, <1>11, <1>12
(* A loop that has ended erases the handlers noted from the map walked.    *)
LEMMA Erasing ==
  ASSUME IInv, Looping, ~stack[1].running, stack[1].cur = NoId,
         UNCHANGED <<pooled, nextId, sub, view>>, removeIds' = {},
         \/ /\ stack[1].phase = "transmission" /\ eventHandlers' = eventHandlers
            /\ transmissionHandlers' = [transmissionHandlers EXCEPT ![stack[1].type] = @ \ removeIds]
         \/ /\ stack[1].phase = "event" /\ transmissionHandlers' = transmissionHandlers
            /\ eventHandlers' = [eventHandlers EXCEPT ![stack[1].type] = @ \ removeIds]
  PROVE  /\ Fresh' /\ Placed' /\ GoneOrNoted'
         /\ transmissionHandlers' \in [Type -> SUBSET Id]
         /\ eventHandlers' \in [Type -> SUBSET Id]
         /\ \A u \in Type : eventHandlers'[u] \subseteq eventHandlers[u]
         /\ Ids("cancelled")' = Ids("cancelled")
<1> USE DEF IInv
<1> DEFINE f == stack[1]
<1>1. f.type \in Type /\ f.phase \in {"transmission", "event"}
  BY HeadIsFrame
<1>2. /\ transmissionHandlers' \in [Type -> SUBSET Id] /\ eventHandlers' \in [Type -> SUBSET Id]
      /\ \A u \in Type : /\ transmissionHandlers'[u] \subseteq transmissionHandlers[u]
                         /\ eventHandlers'[u] \subseteq eventHandlers[u]
  BY DEF TypeOK
<1>3. \A u \in Type : All(u)' \subseteq All(u)
  BY <1>2 DEF All
<1>4. Fresh'
  BY <1>3 DEF Fresh
<1>5. Placed'
  BY <1>2, <1>3 DEF Placed
<1>6. Ids("cancelled")' = Ids("cancelled")
  BY DEF Ids
<1>7. \A i \in removeIds : i \in Handlers(f.phase, f.type)
  BY DEF WalkOK, Walk
<1>8. ASSUME NEW u \in Type, NEW i \in All(u)', i \in Ids("cancelled") PROVE FALSE
  <2>1. i \in All(u) /\ i \in removeIds
    BY <1>3, <1>8 DEF GoneOrNoted
  <2>2. i \in Handlers(f.phase, f.type)
    BY <2>1, <1>7
  <2>3. u = f.type
    BY <2>1, <2>2, <1>1 DEF Placed, All, Handlers
  <2>4. CASE f.phase = "transmission"
    <3>1. i \in transmissionHandlers[u] /\ i \notin eventHandlers[u]
      BY <2>2, <2>3, <2>4, <1>1 DEF Handlers, Placed
    <3>2. i \notin transmissionHandlers'[u] /\ i \notin eventHandlers'[u]
      BY <3>1, <2>1, <2>3, <2>4, <1>1 DEF TypeOK
    <3> QED BY <3>2, <1>8 DEF All
  <2>5. CASE f.phase = "event"
    <3>1. i \in eventHandlers[u] /\ i \notin transmissionHandlers[u]
      BY <2>2, <2>3, <2>5, <1>1 DEF Handlers, Placed
    <3>2. i \notin transmissionHandlers'[u] /\ i \notin eventHandlers'[u]
      BY <3>1, <2>1, <2>3, <2>5, <1>1 DEF TypeOK
    <3> QED BY <3>2, <1>8 DEF All
  <2> QED BY <2>4, <2>5, <1>1
<1>9. GoneOrNoted'
  BY <1>6, <1>8 DEF GoneOrNoted
<1> QED BY <1>2, <1>4, <1>5, <1>6, <1>9

(* From the transmission handlers to the event handlers                    *)
LEMMA BeginEventsStep == ASSUME IInv, BeginEvents PROVE IInv'
<1> USE DEF IInv
<1> DEFINE t == stack[1].type
           k == stack[1].key
           remove == stack[1].remove
           raises == RaisesEvent(t, k, remove)
           ids == eventHandlers[t]
           f == Loop("event", t, k, remove, ids)
<1>1. /\ UNCHANGED <<pooled, nextId, dispatchingId, sub, view>>
      /\ stack # <<>> /\ Top.phase = "transmission" /\ ~Top.running /\ Top.cur = NoId
  BY DEF BeginEvents
<1>2. Len(stack) = 1 /\ Looping /\ Top = stack[1]
  BY <1>1, Idle
<1>3. stack[1] \in Frame /\ t \in Type /\ k \in Key /\ remove \in BOOLEAN
  BY <1>2, HeadIsFrame DEF Frame
<1>4. /\ transmissionHandlers' = [transmissionHandlers EXCEPT ![t] = @ \ removeIds]
      /\ eventHandlers' = eventHandlers /\ removeIds' = {}
  <2>1. CASE t \in pooled
    BY <2>1, <1>1, <1>2 DEF BeginEvents, EraseNoted
  <2>2. CASE t \notin pooled
    <3>1. transmissionHandlers[t] = {}
      BY <2>2, <1>3 DEF Placed
    <3>2. removeIds = {}
      BY <3>1, <1>1, <1>2 DEF WalkOK, Walk, Handlers
    <3>3. UNCHANGED <<transmissionHandlers, eventHandlers, removeIds>>
      BY <2>2, <1>2 DEF BeginEvents
    <3> QED BY <3>1, <3>2, <3>3, <1>3 DEF TypeOK
  <2> QED BY <2>1, <2>2
<1>5. /\ container' = Updated(t, k, remove)
      /\ stack' = IF raises THEN [stack EXCEPT ![Len(stack)] = f] ELSE <<>>
  <2>1. Popped = <<>>
    BY <1>1, <1>2, OnePopped
  <2> QED BY <2>1, <1>2 DEF BeginEvents
<1>6. /\ Fresh' /\ Placed' /\ GoneOrNoted'
      /\ transmissionHandlers' \in [Type -> SUBSET Id]
      /\ Ids("cancelled")' = Ids("cancelled")
  BY <1>1, <1>2, <1>4, Erasing
<1>7. f \in Frame /\ Walk(f, ids, {}, Ids("cancelled"))
  <2>1. ids \in SUBSET Id
    BY <1>3 DEF TypeOK
  <2> HIDE DEF ids
  <2> QED BY <2>1, <1>3, WalkBegins
<1>8. f.phase = "event" /\ f.type = t /\ ~f.running /\ f.key = k /\ f.remove = remove
      /\ f.before = ids /\ f.seen = {}
  BY DEF Loop
<1> HIDE DEF f
<1>9. /\ stack' \in Seq(Frame) /\ Calls' /\ ReplayOK'
      /\ raises => stack'[1] = f /\ Looping'
      /\ ~raises => ~Looping'
  <2>1. CASE raises
    BY <2>1, <1>1, <1>2, <1>5, <1>7, <1>8, OneReplaced
  <2>2. CASE ~raises
    BY <2>2, <1>5, NoFrame
  <2> QED BY <2>1, <2>2
<1>10. container' \in [Type -> SUBSET Key] /\ Finite'
  <2>1. container' \in [Type -> SUBSET Key]
    BY <1>3, <1>5 DEF Updated, TypeOK
  <2>2. \A u \in Type : IsFiniteSet(container[u] \ {k}) /\ IsFiniteSet(container[u] \cup {k})
    BY FS_AddElement, FS_RemoveElement DEF Finite
  <2>3. \A u \in Type : container'[u] \in {container[u], container[u] \ {k}, container[u] \cup {k}}
    BY <1>3, <1>5 DEF Updated, TypeOK
  <2>4. \A u \in Type : IsFiniteSet(container'[u])
    BY <2>2, <2>3 DEF Finite
  <2> QED BY <2>1, <2>4 DEF Finite
<1>11. TypeOK'
  BY <1>1, <1>4, <1>6, <1>9, <1>10 DEF TypeOK
<1>12. Dispatching'
  BY <1>1, <1>2, <1>8, <1>9 DEF Dispatching
<1>13. WalkOK'
  <2>1. CASE raises
    <3>1. Handlers(stack[1].phase, stack[1].type)' = ids
      BY <2>1, <1>4, <1>8, <1>9 DEF Handlers
    <3> HIDE DEF ids
    <3> QED BY <3>1, <2>1, <1>4, <1>6, <1>7, <1>9 DEF WalkOK
  <2>2. CASE ~raises
    BY <2>2, <1>4, <1>9 DEF WalkOK
  <2> QED BY <2>1, <2>2
<1>14. ViewOK'
  <2> SUFFICES ASSUME NEW u \in Cached, NEW i \in eventHandlers[u], sub[i] = "active"
               PROVE  container'[u] = IF Awaits(u, i)' THEN After(view[i], stack'[1].key, stack'[1].remove)
                                      ELSE view[i]
    BY <1>1, <1>4 DEF ViewOK
  <2>1. u \in Type
    BY DispatcherAssumption
  <2>2. container[u] = view[i]
    BY <1>1, <1>2 DEF ViewOK, Awaits
  <2>3. CASE raises /\ u = t
    <3>1. Awaits(u, i)' /\ stack'[1] = f
      BY <2>3, <1>8, <1>9 DEF Awaits
    <3>2. container'[t] = After(container[t], k, remove)
      BY <2>3, <1>3, <1>5 DEF Updated, TypeOK, After
    <3> QED BY <3>1, <3>2, <2>2, <2>3, <1>8
  <2>4. CASE ~(raises /\ u = t)
    <3>1. ~Awaits(u, i)'
      BY <2>4, <1>8, <1>9 DEF Awaits
    <3>2. container'[u] = container[u]
      BY <2>1, <2>4, <1>3, <1>5 DEF Updated, TypeOK, RaisesEvent
    <3> QED BY <3>1, <3>2, <2>2
  <2> QED BY <2>3, <2>4
<1> QED BY <1>6, <1>9, <1>10, <1>11, <1>12, <1>13, <1>14

(* The dispatch ends                                                       *)
LEMMA EndDispatchStep == ASSUME IInv, EndDispatch PROVE IInv'
<1> USE DEF IInv
<1>1. /\ UNCHANGED <<pooled, nextId, dispatchingId, container, sub, view>>
      /\ stack # <<>> /\ Top.phase = "event" /\ ~Top.running /\ Top.cur = NoId
      /\ stack' = Popped /\ EraseNoted("event", Top.type)
  BY DEF EndDispatch
<1>2. Len(stack) = 1 /\ Looping /\ Top = stack[1]
  BY <1>1, Idle
<1>3. /\ eventHandlers' = [eventHandlers EXCEPT ![stack[1].type] = @ \ removeIds]
      /\ transmissionHandlers' = transmissionHandlers /\ removeIds' = {}
  BY <1>1, <1>2 DEF EraseNoted
<1>4. /\ Fresh' /\ Placed' /\ GoneOrNoted'
      /\ eventHandlers' \in [Type -> SUBSET Id]
      /\ \A u \in Type : eventHandlers'[u] \subseteq eventHandlers[u]
  BY <1>1, <1>2, <1>3, Erasing
<1>5. stack' \in Seq(Frame) /\ ~Looping' /\ Calls' /\ ReplayOK'
  <2>1. stack' = <<>>
    BY <1>1, <1>2, OnePopped
  <2> QED BY <2>1, NoFrame
<1>6. TypeOK' /\ Finite'
  BY <1>1, <1>3, <1>4, <1>5 DEF TypeOK, Finite
<1>7. Dispatching' /\ WalkOK'
  BY <1>1, <1>2, <1>3, <1>5 DEF Dispatching, WalkOK
<1>8. ViewOK'
  <2> SUFFICES ASSUME NEW u \in Cached, NEW i \in eventHandlers'[u], sub[i] = "active"
               PROVE  container[u] = view[i]
    BY <1>1, <1>5 DEF ViewOK, Awaits
  <2>1. i \in eventHandlers[u]
    BY <1>4, DispatcherAssumption
  <2>2. ~Awaits(u, i)
    BY <1>1, <1>2 DEF Awaits, WalkOK, Walk, Ahead, Ids
  <2> QED BY <2>1, <2>2 DEF ViewOK
<1> QED BY <1>4, <1>5, <1>6, <1>7, <1>8

-----------------------------------------------------------------------------
(* Every step of the dispatcher of a guest keeps the invariant.            *)
LEMMA IInvStep == ASSUME MaxDepth = 1, IInv, [Next]_vars PROVE IInv'
<1>1. CASE UNCHANGED vars
  BY <1>1 DEF IInv, vars, handlerVars, TypeOK, Calls, Dispatching, Looping, Fresh, Placed, All, WalkOK,
              Handlers, Ids, GoneOrNoted, Finite, ReplayOK, ViewOK, Awaits
<1>2. CASE \E t \in Type : AddTransmissionHandler(t) \/ AddEventHandler(t)
  BY <1>2, AddTransmissionHandlerStep, AddEventHandlerAlone, AddEventHandlerReplayed
<1>3. CASE \E i \in Id : Unsubscribe(i) \/ Discard(i)
  BY <1>3, UnsubscribeStep, DiscardStep
<1>4. CASE \E t \in Type, k \in Key, remove \in BOOLEAN : Dispatch(t, k, remove)
  BY <1>4, DispatchStep
<1>5. CASE Replay
  BY <1>5, ReplayGoesOn, ReplayEnds
<1>6. CASE ReplayThrows
  BY <1>6, ReplayThrowsStep
<1>7. CASE Invoke
  BY <1>7, InvokeStep
<1>8. CASE Return
  BY <1>8, ReturnStep
<1>9. CASE BeginEvents
  BY <1>9, BeginEventsStep
<1>10. CASE EndDispatch
  BY <1>10, EndDispatchStep
<1> QED BY <1>1, <1>2, <1>3, <1>4, <1>5, <1>6, <1>7, <1>8, <1>9, <1>10 DEF Next

(* The theorems *)

(* The frames of the stack: the dispatch, and replays above it.            *)
LEMMA Frames ==
  ASSUME IInv, NEW n \in DOMAIN stack
  PROVE  /\ n \in 1..Len(stack) /\ DOMAIN stack = 1..Len(stack)
         /\ stack[n].phase # "replay" => n = 1 /\ Looping
<1> USE DEF IInv
<1>1. Len(stack) \in Nat /\ DOMAIN stack = 1..Len(stack)
  BY LenProperties DEF TypeOK
<1>2. n \in 1..Len(stack)
  BY <1>1
<1>3. stack # <<>>
  BY <1>1, <1>2, EmptySeq
<1>4. stack[n].phase # "replay" => ~(n > 1)
  BY <1>2 DEF Calls
<1>5. stack[n].phase # "replay" => n = 1
  BY <1>2, <1>4
<1> QED BY <1>1, <1>2, <1>3, <1>5 DEF Looping

LEMMA Iterators == ASSUME IInv PROVE IteratorValid
<1> SUFFICES ASSUME NEW n \in DOMAIN stack
             PROVE  /\ stack[n].phase # "replay" /\ stack[n].cur # NoId =>
                           stack[n].cur \in Handlers(stack[n].phase, stack[n].type)
                    /\ stack[n].phase = "replay" => stack[n].key \in container[stack[n].type]
  BY DEF IteratorValid, HandlerIteratorValid, ReplayIteratorValid
<1>1. CASE stack[n].phase # "replay"
  BY <1>1, Frames DEF IInv, WalkOK, Walk, Standing
<1>2. CASE stack[n].phase = "replay"
  BY <1>2, Frames DEF IInv, ReplayOK, Replaying
<1> QED BY <1>1, <1>2

LEMMA Reaching == ASSUME IInv PROVE ReachesAll
<1> SUFFICES ASSUME NEW n \in DOMAIN stack
             PROVE  /\ stack[n].seen \subseteq stack[n].before
                    /\ ~stack[n].running /\ stack[n].cur = NoId =>
                           stack[n].before \ Ids("cancelled") \subseteq stack[n].seen
  BY DEF ReachesAll
<1>1. CASE stack[n].phase # "replay"
  BY <1>1, Frames DEF IInv, WalkOK, Walk, Standing, Ahead
<1>2. CASE stack[n].phase = "replay"
  BY <1>2, Frames DEF IInv, Calls
<1> QED BY <1>1, <1>2

LEMMA Outside == ASSUME IInv PROVE CancelledIsGone /\ ViewIsContainer
<1> USE DEF IInv
<1>1. ASSUME stack = <<>> PROVE Ids("cancelled") \cap Registered = {}
  <2>1. \A t \in Type : All(t) \cap Ids("cancelled") = {}
    BY <1>1 DEF GoneOrNoted, WalkOK, Looping
  <2> QED BY <2>1 DEF Registered, All
<1>2. ASSUME stack = <<>>, NEW t \in Cached, NEW i \in eventHandlers[t] \cap Ids("active")
      PROVE  view[i] = container[t]
  <2>1. sub[i] = "active" /\ ~Awaits(t, i)
    BY <1>2 DEF Ids, Awaits, Looping
  <2> QED BY <2>1, <1>2 DEF ViewOK
<1> QED BY <1>1, <1>2 DEF CancelledIsGone, ViewIsContainer

(* A step that begins to run a handler: it is that of a loop, which stands *)
(* on handlers it has not invoked, or a new one.                           *)
LEMMA Beginning ==
  ASSUME MaxDepth = 1, IInv, Next, NEW n \in DOMAIN stack', stack'[n].running,
         n \notin DOMAIN stack \/ ~stack[n].running
  PROVE  sub[stack'[n].cur] # "cancelled"
<1> USE DEF IInv
<1>1. IInv' /\ n \in 1..Len(stack') /\ Len(stack) \in Nat /\ DOMAIN stack = 1..Len(stack)
  <2>1. IInv'
    BY IInvStep
  <2>2. DOMAIN stack' = 1..Len(stack')
    BY <2>1, LenProperties DEF TypeOK
  <2> QED BY <2>1, <2>2, LenProperties DEF TypeOK
<1>2. CASE stack' = stack
  BY <1>2
<1>3. ASSUME NEW t \in Type, AddEventHandler(t), container[t] # {} PROVE sub[stack'[n].cur] # "cancelled"
  <2> DEFINE f == [phase |-> "replay", type |-> t, key |-> Min(container[t]), remove |-> FALSE,
                   cur |-> nextId, running |-> TRUE, before |-> {}, seen |-> {}]
  <2>1. UserCode /\ nextId < MaxIds /\ stack' = Append(stack, f)
    BY <1>3 DEF AddEventHandler
  <2>2. sub[nextId] = "none"
    BY <2>1, DispatcherAssumption DEF Fresh, TypeOK, Id
  <2>3. n \in DOMAIN stack => stack'[n] = stack[n]
    BY <1>1, <2>1 DEF TypeOK
  <2>4. n \notin DOMAIN stack => stack'[n] = f
    <3> HIDE DEF f
    <3> QED BY <1>1, <2>1 DEF TypeOK
  <2> QED BY <2>2, <2>3, <2>4
<1>4. CASE Replay \/ ReplayThrows
  <2>1. stack # <<>> /\ Top.phase = "replay" /\ Len(stack) >= 1
    <3>1. stack # <<>> /\ Top.phase = "replay"
      BY <1>4 DEF Replay, ReplayThrows
    <3> QED BY <3>1, EmptySeq, LenProperties DEF TypeOK
  <2>2. \A m \in DOMAIN stack : stack[m].running
    BY <1>1, <2>1 DEF Calls, Top
  <2>3. n \in DOMAIN stack
    <3>1. CASE stack' = Popped
      BY <3>1, <1>1, <2>1, PoppedOff DEF Popped, TypeOK
    <3>2. CASE stack' # Popped
      <4>1. PICK k : stack' = [stack EXCEPT ![Len(stack)].key = k]
        BY <1>4, <3>2 DEF Replay, ReplayThrows
      <4> QED BY <4>1
    <3> QED BY <3>1, <3>2
  <2> QED BY <2>2, <2>3
<1>5. ASSUME NEW t \in Type, NEW k \in Key, NEW remove \in BOOLEAN, Dispatch(t, k, remove)
      PROVE  sub[stack'[n].cur] # "cancelled"
  <2> DEFINE f == Loop("transmission", t, k, remove, transmissionHandlers[t])
  <2>1. stack = <<>> /\ stack' = Append(stack, f) /\ ~f.running
    BY <1>5 DEF Dispatch, Loop
  <2>2. n = 1 /\ stack'[1] = f
    <3> HIDE DEF f
    <3> QED BY <2>1, <1>1, EmptySeq DEF TypeOK
  <2> QED BY <2>1, <2>2
<1>6. CASE Invoke
  <2> DEFINE f == stack[1]
             ids == Handlers(f.phase, f.type)
  <2>1. stack # <<>> /\ ~Top.running /\ Top.cur # NoId
    BY <1>6 DEF Invoke
  <2>2. Len(stack) = 1 /\ Looping /\ Top = f
    BY <2>1, Idle
  <2>3. f \in Frame /\ f.phase \in {"transmission", "event"} /\ f.type \in Type
    BY <2>2, HeadIsFrame
  <2>4. stack'[1].cur = f.cur /\ n = 1
    <3>1. stack' = [stack EXCEPT ![Len(stack)] = [f EXCEPT !.running = TRUE, !.seen = @ \cup {f.cur}]]
      BY <1>6, <2>1, <2>2 DEF Invoke, Top, TypeOK
    <3>2. DOMAIN stack' = DOMAIN stack
      BY <3>1
    <3>3. n = 1
      <4>1. n \in 1..Len(stack)
        BY <1>1, <3>2
      <4> QED BY <4>1, <2>2
    <3>4. stack'[1] = [f EXCEPT !.running = TRUE, !.seen = @ \cup {f.cur}]
      BY <3>1, <1>1, <2>2
    <3> QED BY <3>3, <3>4, <2>3 DEF Frame
  <2>5. Walk(f, ids, removeIds, Ids("cancelled"))
    BY <2>2 DEF WalkOK
  <2>6. f.cur \in ids /\ f.cur \notin f.seen /\ f.cur \in Id
    BY <2>1, <2>2, <2>3, <2>5 DEF Walk, Standing, Id, Frame
  <2>7. f.cur \notin removeIds
    BY <2>5, <2>6 DEF Walk
  <2>8. f.cur \notin Ids("cancelled")
    BY <2>3, <2>6, <2>7 DEF GoneOrNoted, All, Handlers
  <2> QED BY <2>4, <2>6, <2>8 DEF Ids
<1>7. CASE Return
  <2>1. stack # <<>> /\ Top.phase # "replay" /\ Len(stack) = 1
    BY <1>7, Alone DEF Return
  <2>2. stack' = [stack EXCEPT ![1].running = FALSE, ![1].cur = NextHandler(Walked, Top.cur)]
    BY <1>7, <2>1 DEF Return
  <2>3. n = 1 /\ stack[1] \in Frame
    BY <1>1, <2>1, <2>2, ElementOfSeq DEF TypeOK
  <2>4. ~stack'[1].running
    BY <1>1, <2>1, <2>2, <2>3 DEF Frame
  <2> QED BY <2>3, <2>4
<1>8. CASE BeginEvents
  <2> DEFINE f == Loop("event", Top.type, Top.key, Top.remove, eventHandlers[Top.type])
  <2>1. stack # <<>> /\ ~Top.running /\ Len(stack) = 1
    BY <1>8, Idle DEF BeginEvents
  <2>2. Popped = <<>> /\ Len(<<>>) = 0
    BY <2>1, OnePopped
  <2>3. stack' # <<>>
    BY <1>1, <2>2
  <2>4. stack' = [stack EXCEPT ![Len(stack)] = f]
    BY <1>8, <2>2, <2>3 DEF BeginEvents
  <2>5. n = 1 /\ stack'[1] = f
    <3> HIDE DEF f
    <3> QED BY <1>1, <2>1, <2>4
  <2>6. ~f.running
    BY DEF Loop
  <2> QED BY <2>5, <2>6
<1>9. CASE EndDispatch
  <2>1. stack # <<>> /\ ~Top.running /\ Len(stack) = 1
    BY <1>9, Idle DEF EndDispatch
  <2>2. stack' = <<>> /\ Len(<<>>) = 0
    BY <1>9, <2>1, OnePopped DEF EndDispatch
  <2> QED BY <1>1, <2>2
<1>10. CASE \E t \in Type : AddTransmissionHandler(t)
  BY <1>10, <1>2 DEF AddTransmissionHandler
<1>11. CASE \E t \in Type : AddEventHandler(t)
  BY <1>11, <1>2, <1>3 DEF AddEventHandler
<1>12. CASE \E i \in Id : Unsubscribe(i) \/ Discard(i)
  BY <1>12, <1>2 DEF Unsubscribe, Discard
<1> QED BY <1>4, <1>5, <1>6, <1>7, <1>8, <1>9, <1>10, <1>11, <1>12 DEF Next

(* The invariant holds in every state of a guest's dispatcher.             *)
THEOREM Inductive == ASSUME MaxDepth = 1 PROVE Spec => []IInv
  BY InitIInv, IInvStep, PTL DEF Spec

(* The pools, the subscriptions and the loops in progress of a guest's     *)
(* dispatcher keep their types.                                            *)
THEOREM TypeCorrect == ASSUME MaxDepth = 1 PROVE Spec => []TypeOK
<1>1. IInv => TypeOK
  BY DEF IInv
<1> QED BY <1>1, Inductive, PTL

(* The loops of dispatchToHandlers and of addEventHandler never stand on a *)
(* node that user code has erased, in a guest.                             *)
THEOREM IteratorsAreValid == ASSUME MaxDepth = 1 PROVE Spec => []IteratorValid
  BY Iterators, Inductive, PTL

(* In a guest, a handler whose Subscription has been cancelled has left    *)
(* the pools once no dispatch is under way: removeHandler or the end of    *)
(* dispatchToHandlers has erased it.                                       *)
THEOREM CancelledAreGone == ASSUME MaxDepth = 1 PROVE Spec => []CancelledIsGone
  BY Outside, Inductive, PTL

(* In a guest, dispatchToHandlers invokes every handler it found that has  *)
(* not been unsubscribed meanwhile, and no other.                          *)
THEOREM DispatchReachesAll == ASSUME MaxDepth = 1 PROVE Spec => []ReachesAll
  BY Reaching, Inductive, PTL

(* What an event handler of a guest has been told, by the replay of        *)
(* addEventHandler and by dispatchEvent, is what the container holds.      *)
THEOREM ViewsAreTheContainer == ASSUME MaxDepth = 1 PROVE Spec => []ViewIsContainer
  BY Outside, Inductive, PTL

(* In a guest, no handler is invoked after Subscription::unsubscribe.      *)
THEOREM CancelledAreNotInvoked == ASSUME MaxDepth = 1 PROVE Spec => CancelledNotInvoked
<1>1. IInv /\ [Next]_vars =>
        [\A n \in DOMAIN stack' :
           stack'[n].running /\ (n \notin DOMAIN stack \/ ~stack[n].running) =>
               sub[stack'[n].cur] # "cancelled"]_vars
  BY Beginning
<1> QED BY <1>1, Inductive, PTL DEF Spec, CancelledNotInvoked
=============================================================================
