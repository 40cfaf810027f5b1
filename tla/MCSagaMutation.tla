---------------------------- MODULE MCSagaMutation ----------------------------
(* The coordinators over the journal on small instances. *)
EXTENDS SagaMutation, TLC

CONSTANTS p1, p2, e1, e2

MCProc == {p1, p2}
MCTwo == {e1, e2}
MCOneHost == [p \in MCProc |-> "host1"]

\* Every request that the coordinators can write.
MCRequest ==
    {PairRequest("ENTITY_MERGE", s, t, r, l, NoOp) :
        s \in Entity, t \in Entity, r \in BOOLEAN, l \in SUBSET Entity}
    \cup {PairRequest("ENTITY_UNMERGE", s, t, TRUE, l, m) :
             s \in Entity, t \in Entity, l \in SUBSET Entity, m \in Op}
    \cup {DeleteRequest(k, T) : k \in Kinds \cap DeleteKinds, T \in SUBSET Entity}

\* Neither the processes nor the entities are told apart, except that the decay
\* run singles out the entity that may decay.
MCProcSymmetry == Permutations(MCProc)
MCSymmetry == MCProcSymmetry \cup Permutations(MCTwo)

MCDecay == {e2}
MCNoLegacy == << >>
PairOnly == {"ENTITY_MERGE", "ENTITY_UNMERGE"}
MergeDelete == {"ENTITY_MERGE", "SESSION_TTL_DELETE"}
===============================================================================
