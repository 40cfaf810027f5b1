--------------------------- MODULE MCGraphOperations ---------------------------
(* The journal alone on small instances: two processes, two entities. *)
EXTENDS GraphOperations, TLC

CONSTANTS p1, p2, a, b

MCProc == {p1, p2}
MCEntity == {a, b}
MCOneHost == [p \in MCProc |-> "host1"]

MergeAB == [kind |-> "ENTITY_MERGE", key |-> "ab", targets |-> {a, b}]
DeleteB == [kind |-> "ENTITY_DELETE", key |-> NoKey, targets |-> {b}]
WriteM == [kind |-> "METRIC_WRITE", key |-> "m", targets |-> {}]

MCRequest == {MergeAB, DeleteB, WriteM}

\* One row that an older build left, without a claim and without locks.
MCLegacy == <<MergeAB>>

ProcSymmetry == Permutations(MCProc)
================================================================================
