------------------------------- MODULE UidCas -------------------------------
(***************************************************************************)
(* The uid of a connection as spec.md promises it (sections 2 and 6): a   *)
(* field that starts at 0 when a connection is accepted into a slot and is *)
(* set by one atomic compare-and-set, which succeeds only while it is 0.   *)
(***************************************************************************)
EXTENDS Integers

CONSTANTS Fds, Sessions, Uids

VARIABLES sid, uid

Init ==
    /\ sid = [f \in Fds |-> 0]
    /\ uid = [f \in Fds |-> 0]

\* A connection with session s is accepted into the free slot f.
Open(f, s) ==
    /\ sid[f] = 0
    /\ sid' = [sid EXCEPT ![f] = s]
    /\ uid' = [uid EXCEPT ![f] = 0]

\* The slot is released.
Vacate(f) ==
    /\ sid[f] # 0
    /\ sid' = [sid EXCEPT ![f] = 0]
    /\ UNCHANGED uid

\* compare-and-set: 0 becomes u; a set uid stays.
Cas(f, u) ==
    /\ uid[f] = 0
    /\ uid' = [uid EXCEPT ![f] = u]
    /\ UNCHANGED sid

Next ==
    \E f \in Fds :
        \/ \E s \in Sessions : Open(f, s)
        \/ Vacate(f)
        \/ \E u \in Uids : Cas(f, u)

Spec == Init /\ [][Next]_<<sid, uid>>
=============================================================================
