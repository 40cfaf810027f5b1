---------------------------- MODULE MCSagaRecovery ----------------------------
(* A writer and one or two recovering instances on one host. *)
EXTENDS SagaRecovery, TLC

CONSTANTS w, p1, p2

MCProc == {w, p1, p2}
MCPair == {w, p1}
MCTwo == {p1, p2}
MCOne == {p1}
MCOneHost == [p \in Proc |-> "host1"]

WriteM == [kind |-> "METRIC_WRITE", key |-> NoKey, targets |-> {}]
Legacy == [kind |-> "LEGACY_ENTITY_UNMERGE", key |-> NoKey, targets |-> {}]
MCRequest == {WriteM}
MCRequests == {WriteM, Legacy}
MCNoLegacy == << >>
MCSymmetry == Permutations(MCTwo)
===============================================================================
