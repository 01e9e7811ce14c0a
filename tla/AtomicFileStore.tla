-------------------------- MODULE AtomicFileStore --------------------------
(***************************************************************************)
(* What the gNOI File service promises of the files it writes (spec.md     *)
(* 4.6 and 7): a reader of a destination sees nothing, an older file, or   *)
(* the complete bytes of one upload whose digest was verified; a file      *)
(* changes in one step.  Offer is the receiver verifying one upload for a  *)
(* destination; Publish makes the bytes of one verified upload the file;   *)
(* Delete is a Remove.                                                     *)
(***************************************************************************)
CONSTANTS
    Dests,   \* the destinations uploads name
    None     \* no file

VARIABLES
    store,   \* store[p]: the bytes at destination p, or None
    offered  \* the <<p, bytes>> pairs of verified uploads so far

vars == <<store, offered>>

Init ==
    /\ store = [p \in Dests |-> None]
    /\ offered = {}

\* One more verified upload, of whatever bytes, for a destination.
Offer ==
    /\ \E o \in offered' : o[1] \in Dests /\ offered' = offered \cup {o}
    /\ UNCHANGED store

Publish(p) ==
    /\ \E o \in offered : o[1] = p /\ store' = [store EXCEPT ![p] = o[2]]
    /\ UNCHANGED offered

Delete(p) ==
    /\ store' = [store EXCEPT ![p] = None]
    /\ UNCHANGED offered

Next == Offer \/ \E p \in Dests : Publish(p) \/ Delete(p)

Spec == Init /\ [][Next]_vars
=============================================================================
