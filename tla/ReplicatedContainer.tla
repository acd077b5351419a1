------------------------ MODULE ReplicatedContainer ------------------------
(***************************************************************************)
(* What a host promises the readers of a container: the container goes     *)
(* through versions, and a reader that has synchronised with one of them   *)
(* goes through the later ones in their order, without leaving one out.    *)
(***************************************************************************)
EXTENDS Naturals, Sequences, SequencesExt

CONSTANTS Reader

VARIABLES
    log,   \* the versions of the container so far
    pos    \* the version a reader is at, 0 when it is not synchronised

vars == <<log, pos>>

Init ==
    /\ Len(log) = 1
    /\ pos = [r \in Reader |-> 0]

(* New versions appear; readers may lose their synchronisation with it.    *)
Write ==
    /\ IsStrictPrefix(log, log')
    /\ \A r \in Reader : pos'[r] \in {pos[r], 0}
    /\ pos' = [r \in Reader |-> pos'[r]]

Lose(r) ==
    /\ pos' = [pos EXCEPT ![r] = 0]
    /\ UNCHANGED log

Synchronise(r) ==
    /\ pos[r] = 0
    /\ \E n \in 1..Len(log) : pos' = [pos EXCEPT ![r] = n]
    /\ UNCHANGED log

Advance(r) ==
    /\ pos[r] \in 1..Len(log) - 1
    /\ pos' = [pos EXCEPT ![r] = @ + 1]
    /\ UNCHANGED log

Next == Write \/ \E r \in Reader : Lose(r) \/ Synchronise(r) \/ Advance(r)

Spec == Init /\ [][Next]_vars
=============================================================================
