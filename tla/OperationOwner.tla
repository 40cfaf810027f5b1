---------------------------- MODULE OperationOwner ----------------------------
(***************************************************************************)
(* Who owns a PREPARED saga row, and what counts as evidence that the      *)
(* owner is gone (infrastructure/operation_owner.py, process_liveness.py). *)
(*                                                                         *)
(* An owner token names one process LIFE: its nonce is drawn at import, so *)
(* a restarted process is a different member of Proc.  A lease is the      *)
(* number of clock ticks it still has; 0 means that it has expired.        *)
(***************************************************************************)
EXTENDS Naturals

CONSTANTS
    Proc,                   \* process lives (owner tokens)
    NoProc,                 \* NULL in an owner column
    HostOf,                 \* the hostname inside each token
    PidNamespaceVerifiable  \* the MENHIR_HOST_PID_NAMESPACE_VERIFIABLE assertion

ASSUME OwnerAssumption ==
    /\ NoProc \notin Proc
    /\ DOMAIN HostOf = Proc
    /\ PidNamespaceVerifiable \in BOOLEAN

Ownership == {"LIVE_OWNER", "OWNER_UNKNOWN", "ABANDONED"}

\* pid_alive about p: a running process always reads as alive, a dead one reads
\* as alive when its pid was recycled or cannot be inspected.
PidAnswers(live, p) == IF p \in live THEN {TRUE} ELSE BOOLEAN

\* The local pid lookup is a death certificate only on the host that recorded
\* the pid, and only where the deployment asserts that this is meaningful.
ProvenDead(me, p, pidAlive) ==
    /\ HostOf[p] = HostOf[me]
    /\ PidNamespaceVerifiable
    /\ ~pidAlive

\* Mutant: a missing pid outranks a fresh lease.
ClassifyPidFirst(me, token, leaseLeft, attestedFor, pidAlive) ==
    IF token = NoProc THEN "OWNER_UNKNOWN"
    ELSE IF attestedFor = token \/ ProvenDead(me, token, pidAlive) THEN "ABANDONED"
    ELSE IF leaseLeft > 0 THEN "LIVE_OWNER" ELSE "OWNER_UNKNOWN"

\* A fresh lease outranks everything; an expired one needs independent evidence.
ClassifyOwnership(me, token, leaseLeft, attestedFor, pidAlive) ==
    IF token = NoProc THEN "OWNER_UNKNOWN"
    ELSE IF leaseLeft > 0 THEN "LIVE_OWNER"
    ELSE IF attestedFor = token \/ ProvenDead(me, token, pidAlive)
         THEN "ABANDONED"
         ELSE "OWNER_UNKNOWN"
===============================================================================
