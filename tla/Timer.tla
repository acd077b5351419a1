-------------------------------- MODULE Timer --------------------------------
(***************************************************************************)
(* Timer and FdObserver: objects that own a wait of the event loop.  What  *)
(* the wait needs, its handler among it, is shared between the object and  *)
(* the completion of the wait, which counts the owners to find out whether *)
(* its handler is still wanted.                                            *)
(*                                                                         *)
(* The event loop has one thread: the program acts between completions, or *)
(* from within the handler that is being called.                           *)
(***************************************************************************)
EXTENDS Naturals, FiniteSets

CONSTANTS
    Obj,    \* the Timer and FdObserver objects of a program
    MaxData \* bound: waits ever created

Data == 1..MaxData
None == 0

Kind == {"once", "periodic", "observer"}
Wait == {"none",     \* no wait is pending
         "pending",  \* waiting for the time, or for the file
         "expired",  \* its completion is queued
         "failed",   \* queued with an error
         "aborted",  \* queued because it was cancelled
         "ended"}    \* its handler threw, or was told of an error

VARIABLES
    owns,    \* m_timerData, m_observerData of each object
    kind,    \* what was created
    wait,    \* the asynchronous wait
    discarded,
    calling, \* whose handler is being called, or None
    error,   \* whether that handler is called with an error
    created  \* how many have been created

vars == <<owns, kind, wait, discarded, calling, error, created>>

TypeOK ==
    /\ owns \in [Obj -> Data \cup {None}]
    /\ kind \in [Data -> Kind] /\ wait \in [Data -> Wait]
    /\ discarded \in [Data -> BOOLEAN] /\ error \in BOOLEAN
    /\ calling \in Data \cup {None} /\ created \in 0..MaxData

Init ==
    /\ owns = [o \in Obj |-> None]
    /\ kind = [d \in Data |-> "once"]
    /\ wait = [d \in Data |-> "none"]
    /\ discarded = [d \in Data |-> FALSE]
    /\ calling = None
    /\ error = FALSE
    /\ created = 0

(* use_count() within the completion, which owns the data itself.          *)
UseCount(d) == 1 + Cardinality({o \in Obj : owns[o] = d})

-----------------------------------------------------------------------------
(* The constructors.  An object that had a wait is assigned the new one:   *)
(* the assignment gives up the old one without cancelling it.              *)
Construct(o, k) ==
    /\ created < MaxData
    /\ created' = created + 1
    /\ owns' = [owns EXCEPT ![o] = created + 1]
    /\ kind' = [kind EXCEPT ![created + 1] = k]
    /\ wait' = [wait EXCEPT ![created + 1] = "pending"]
    /\ UNCHANGED <<discarded, calling, error>>

Move(to, from) ==
    /\ to # from
    /\ owns' = [owns EXCEPT ![to] = owns[from], ![from] = None]
    /\ UNCHANGED <<kind, wait, discarded, calling, error, created>>

(* cancel() ends a pending wait; a completion that is queued stays queued. *)
Cancel(d) == wait' = [wait EXCEPT ![d] = IF @ = "pending" THEN "aborted" ELSE @]

Destroy(o) ==
    /\ owns[o] # None
    /\ Cancel(owns[o])
    /\ owns' = [owns EXCEPT ![o] = None]
    /\ UNCHANGED <<kind, discarded, calling, error, created>>

Discard(o) ==
    /\ owns[o] # None
    /\ discarded' = [discarded EXCEPT ![owns[o]] = TRUE]
    /\ owns' = [owns EXCEPT ![o] = None]
    /\ UNCHANGED <<kind, wait, calling, error, created>>

-----------------------------------------------------------------------------
(* Time passes, or the file gets ready; an observer's wait may fail.       *)
Expire(d) ==
    /\ wait[d] = "pending"
    /\ \/ wait' = [wait EXCEPT ![d] = "expired"]
       \/ kind[d] = "observer" /\ wait' = [wait EXCEPT ![d] = "failed"]
    /\ UNCHANGED <<owns, kind, discarded, calling, error, created>>

(* Seeded fault: an expired wait always calls its handler.                 *)
FaultWanted(d) == wait[d] # "aborted"

(* Whether the completion of a wait calls its handler.                     *)
Wanted(d) == wait[d] # "aborted" /\ (UseCount(d) # 1 \/ discarded[d])

Complete(d) ==
    /\ calling = None
    /\ wait[d] \in {"expired", "failed", "aborted"}
    /\ wait' = [wait EXCEPT ![d] = "none"]
    /\ IF Wanted(d) THEN calling' = d /\ error' = (wait[d] = "failed")
                    ELSE UNCHANGED <<calling, error>>
    /\ UNCHANGED <<owns, kind, discarded, created>>

(* Seeded fault: only a wait that an object owns is started again.         *)
FaultAgain(d) == kind[d] # "once" /\ ~error /\ UseCount(d) # 1

(* Whether another wait is started: not after an observer's error.         *)
Again(d) == kind[d] # "once" /\ ~error /\ (UseCount(d) # 1 \/ discarded[d])

(* The handler returns.                                                    *)
Return ==
    /\ calling # None
    /\ wait' = [wait EXCEPT ![calling] = IF Again(calling) THEN "pending"
                                         ELSE IF error THEN "ended" ELSE @]
    /\ calling' = None /\ error' = FALSE
    /\ UNCHANGED <<owns, kind, discarded, created>>

(* The handler throws, through the completion and out of the loop, which   *)
(* the program may run again: nothing starts another wait.                 *)
HandlerThrows ==
    /\ calling # None
    /\ wait' = [wait EXCEPT ![calling] = "ended"]
    /\ calling' = None /\ error' = FALSE
    /\ UNCHANGED <<owns, kind, discarded, created>>

Program ==
    \E o \in Obj : \/ \E k \in Kind : Construct(o, k)
                   \/ \E from \in Obj : Move(o, from)
                   \/ Destroy(o) \/ Discard(o)

Next == Program \/ (\E d \in Data : Expire(d) \/ Complete(d)) \/ Return \/ HandlerThrows

Spec == Init /\ [][Next]_vars

(* Time passes, the loop runs what is queued, and handlers return; a       *)
(* program that assigns, destroys or creates need not do so.               *)
FairSpec ==
    /\ Spec
    /\ \A d \in Data : WF_vars(Expire(d)) /\ SF_vars(Complete(d))
    /\ WF_vars(Return)

-----------------------------------------------------------------------------
Owned(d) == \E o \in Obj : owns[o] = d
Wants(d) == Owned(d) \/ discarded[d]

(* Once an object has been destroyed or assigned to, the handler of what   *)
(* it owned is not called any more, though its wait may have expired       *)
(* before; a handler that is being called may finish.                      *)
NotCalledAfterwards ==
    [][\A d \in Data : ~Wants(d) /\ d <= created => ~Wants(d)' /\ (calling' = d => calling = d)]_vars

Running(d) == d <= created /\ Wants(d) /\ kind[d] # "once"

(* A periodic timer, or an observer, that is still wanted is never left    *)
(* without a wait, unless an error or an exception ended it: no sequence   *)
(* of assignments, destructions and discards, of it or of others, at any   *)
(* time, makes AsyncWait take it for given up.                             *)
NeverIdle ==
    \A d \in Data : Running(d) => calling = d \/ wait[d] \in {"pending", "expired", "failed", "ended"}

(* So its handler is called again and again.                               *)
KeepsCalling ==
    \A d \in Data : Running(d) ~> (calling = d \/ ~Wants(d) \/ wait[d] = "ended")
=============================================================================
