---------------------------- MODULE GraphOperations ----------------------------
(***************************************************************************)
(* The saga journal: table graph_operations, its participant locks, the    *)
(* owner claim on a PREPARED row, and the reconciliation lease that pauses *)
(* PREPARE.  Sources: infrastructure/graph_operations*.py and              *)
(* services/scheduler_lease.py with saga_reconcile_gate.py.                *)
(*                                                                         *)
(* Every method is one SQLite transaction under BEGIN IMMEDIATE (or one    *)
(* conditional UPDATE), so one method is one atomic action.  Spec is the   *)
(* journal seen alone: any live process may call any method at any time.   *)
(* SagaMutation composes the same actions with the code that calls them.   *)
(***************************************************************************)
EXTENDS OperationOwner

CONSTANTS
    MaxOp,      \* op ids are 1..MaxOp, handed out in creation order
    Entity,     \* entity uuids
    Request,    \* the requests that callers may PREPARE
    Lease,      \* ticks of a freshly stamped owner claim
    GateTTL,    \* ticks of a freshly stamped reconciliation lease
    NLegacy,    \* rows left PREPARED by a build without claims and locks
    LegacyRequest,  \* their requests: [1..NLegacy -> Request]
    NoKey           \* NULL in target_key

Op == 1..MaxOp
NoOp == 0
LegacyOp == 1..NLegacy

PairKinds == {"ENTITY_MERGE", "ENTITY_UNMERGE", "LEGACY_ENTITY_UNMERGE"}
DeleteKinds == {"ENTITY_DELETE", "SESSION_TTL_DELETE", "EXPLICIT_ERASURE"}
MetricKinds == {"METRIC_WRITE", "METRIC_MIGRATE", "METRIC_REVERSE"}
OperationKinds == PairKinds \cup DeleteKinds \cup MetricKinds

OperationStates == {"PREPARED", "COMMITTED", "NEEDS_REVIEW", "REVERSED", "FAILED"}
Unresolved == {"PREPARED", "NEEDS_REVIEW"}
\* Mutant: a failed operation keeps its participants fenced.
LockReleaseStatesNoFailed == {"COMMITTED", "REVERSED"}

LockReleaseStates == {"COMMITTED", "REVERSED", "FAILED"}

ASSUME JournalAssumption ==
    /\ MaxOp \in Nat
    /\ Lease \in Nat \ {0}
    /\ GateTTL \in Nat \ {0}
    /\ \A r \in Request : /\ r.kind \in OperationKinds
                          /\ r.targets \subseteq Entity
    /\ NLegacy \in 0..MaxOp
    /\ LegacyRequest \in [1..NLegacy -> Request]
    /\ \A m, n \in 1..NLegacy :
          m # n /\ LegacyRequest[m].key # NoKey
          => \/ LegacyRequest[m].kind # LegacyRequest[n].kind
             \/ LegacyRequest[m].key # LegacyRequest[n].key

VARIABLES
    state,      \* [Op -> OperationStates or "ABSENT"]
    req,        \* request_json of each row (immutable after PREPARE)
    owner,      \* owner_token
    lease,      \* ticks left until owner_lease_expires_at
    attested,   \* owner_death_attested_for_token
    resolvedBy, \* resolved_by_token
    lock,       \* graph_operation_locks: entity uuid -> op
    gateHolder, \* owner_id of lease "saga-reconciliation"
    gateLeft,   \* ticks left until its lease_expires_at
    ready,      \* processes whose journal object ran _ensure_ready()
    live        \* process lives that are running

rowVars == <<state, req, owner, lease, attested, resolvedBy, lock>>
gateVars == <<gateHolder, gateLeft>>
jvars == <<rowVars, gateVars, ready, live>>

NoRequest == [kind |-> "NONE", key |-> NoKey, targets |-> {}]

JTypeOK ==
    /\ state \in [Op -> OperationStates \cup {"ABSENT"}]
    /\ req \in [Op -> Request \cup {NoRequest}]
    /\ \A o \in Op : state[o] # "ABSENT" => req[o] \in Request
    /\ owner \in [Op -> Proc \cup {NoProc}]
    /\ lease \in [Op -> 0..Lease]
    /\ attested \in [Op -> Proc \cup {NoProc}]
    /\ resolvedBy \in [Op -> Proc \cup {NoProc}]
    /\ lock \in [Entity -> Op \cup {NoOp}]
    /\ gateHolder \in Proc \cup {NoProc}
    /\ gateLeft \in 0..GateTTL
    /\ ready \subseteq Proc
    /\ live \subseteq Proc

JInit ==
    /\ state = [o \in Op |-> IF o \in LegacyOp THEN "PREPARED" ELSE "ABSENT"]
    /\ req = [o \in Op |-> IF o \in LegacyOp THEN LegacyRequest[o] ELSE NoRequest]
    /\ owner = [o \in Op |-> NoProc]
    /\ lease = [o \in Op |-> 0]
    /\ attested = [o \in Op |-> NoProc]
    /\ resolvedBy = [o \in Op |-> NoProc]
    /\ lock = [e \in Entity |-> NoOp]
    /\ gateHolder = NoProc
    /\ gateLeft = 0
    /\ ready = {}

-------------------------------------------------------------------------------
(* What a request fences.                                                  *)

\* Mutant: a pair saga relies on the fence of its key alone.
ParticipantsOfDeletes(r) == IF r.kind \in DeleteKinds THEN r.targets ELSE {}

\* Pair kinds carry {survivor, absorbed} in targets, delete kinds their targets;
\* metric kinds lock no participant.
ParticipantUuids(r) ==
    IF r.kind \in PairKinds \cup DeleteKinds THEN r.targets ELSE {}

\* Two rows of one kind on one target_key.  The key of a pair is the unordered
\* pair, that of a metric its name; a delete batch has none.
SameKey(r, s) == r.key # NoKey /\ r.key = s.key /\ r.kind = s.kind

\* Mutant: a quarantined row no longer fences its key.
KeyFencedByPrepared(r) == \E o \in Op : state[o] = "PREPARED" /\ SameKey(req[o], r)

\* ux_graph_ops_unresolved_key
KeyFenced(r) == \E o \in Op : state[o] \in Unresolved /\ SameKey(req[o], r)

\* The unresolved rows that e takes part in.
Holders(e) == {o \in Op : state[o] \in Unresolved /\ e \in ParticipantUuids(req[o])}

\* The lease row exists and has not expired.
GateClosed == gateHolder # NoProc /\ gateLeft > 0

-------------------------------------------------------------------------------
(* graph_operations_prepare.py                                             *)

\* The uuid of the next operation: rows are numbered in creation order.
Fresh(o) == state[o] = "ABSENT" /\ \A n \in Op : n < o => state[n] # "ABSENT"

\* prepare() would raise: writes are paused, the key is fenced, or a participant
\* is locked.  The transaction rolls back and nothing changes.
PrepareRefused(r) ==
    \/ GateClosed
    \/ KeyFenced(r)
    \/ \E e \in ParticipantUuids(r) : lock[e] # NoOp

Prepare(p, o, r) ==
    /\ Fresh(o)
    /\ ~PrepareRefused(r)
    /\ state' = [state EXCEPT ![o] = "PREPARED"]
    /\ req' = [req EXCEPT ![o] = r]
    /\ owner' = [owner EXCEPT ![o] = p]
    /\ lease' = [lease EXCEPT ![o] = Lease]
    /\ lock' = [e \in Entity |-> IF e \in ParticipantUuids(r) THEN o ELSE lock[e]]
    /\ UNCHANGED <<attested, resolvedBy, gateVars, ready, live>>

\* Mutant: the journal opens without the backfill.
EnsureReadyNoBackfill(p) ==
    /\ ready' = ready \cup {p}
    /\ UNCHANGED <<rowVars, gateVars, live>>

\* _ensure_ready(): the first journal call of every process start re-locks the
\* participants of unresolved rows, INSERT OR IGNORE against the entity_uuid
\* primary key, in whatever order the SELECT returns the rows.
EnsureReady(p) ==
    /\ lock' \in [Entity -> Op \cup {NoOp}]
    /\ \A e \in Entity : IF lock[e] = NoOp /\ Holders(e) # {}
                          THEN lock'[e] \in Holders(e)
                          ELSE lock'[e] = lock[e]
    /\ ready' = ready \cup {p}
    /\ UNCHANGED <<state, req, owner, lease, attested, resolvedBy, gateVars, live>>

-------------------------------------------------------------------------------
(* graph_operations_transitions.py                                         *)

\* The WHERE clause of the compare-and-set; token NoProc stands for None.
CanTransition(o, from, token) ==
    /\ state[o] \in from
    /\ \/ token = NoProc
       \/ state[o] # "PREPARED"
       \/ owner[o] \in {NoProc, token}

ReleaseLocks(o, to) ==
    IF to \in LockReleaseStates
    THEN [e \in Entity |-> IF lock[e] = o THEN NoOp ELSE lock[e]]
    ELSE lock

\* Mutant: the claim is retired together with the locks.
ClaimEndsWithLocks(o, to) == to \in LockReleaseStates

\* The CASE expressions of the UPDATE read the row before the update.
ClaimEnds(o, to) == state[o] = "PREPARED"

\* _transition(): the claim is retired when the row leaves PREPARED, the locks
\* only when it reaches a terminal state.
Transition(o, to, from, token) ==
    /\ CanTransition(o, from, token)
    /\ state' = [state EXCEPT ![o] = to]
    /\ owner' = [owner EXCEPT ![o] = IF ClaimEnds(o, to) THEN NoProc ELSE @]
    /\ lease' = [lease EXCEPT ![o] = IF ClaimEnds(o, to) THEN 0 ELSE @]
    /\ resolvedBy' = [resolvedBy EXCEPT ![o] = IF token = NoProc THEN @ ELSE token]
    /\ lock' = ReleaseLocks(o, to)
    /\ UNCHANGED <<req, attested, gateVars, ready, live>>

\* Mutant: a stale writer fails an operation that was already committed.
MarkFailedLate(p, o) == Transition(o, "FAILED", {"PREPARED", "COMMITTED"}, p)

MarkCommitted(p, o) == Transition(o, "COMMITTED", {"PREPARED"}, p)
MarkNeedsReview(p, o) == Transition(o, "NEEDS_REVIEW", {"PREPARED"}, p)
MarkFailed(p, o) == Transition(o, "FAILED", {"PREPARED"}, p)
MarkReversed(o) == Transition(o, "REVERSED", {"COMMITTED"}, NoProc)

\* The operator's escape from quarantine, to any state of OPERATION_STATES.
ClearNeedsReview(o, to) ==
    /\ to # "NEEDS_REVIEW"
    /\ Transition(o, to, {"NEEDS_REVIEW"}, NoProc)

\* A mark that matches no row changes nothing; it is a silent success when the
\* row is already where the caller wants it and no other owner committed it.
IdempotentMark(o, to, token) ==
    /\ state[o] = to
    /\ ~(to = "COMMITTED" /\ token # NoProc /\ resolvedBy[o] \notin {NoProc, token})

-------------------------------------------------------------------------------
(* graph_operations_ownership.py                                           *)

HoldsClaim(p, o) == state[o] = "PREPARED" /\ owner[o] = p

\* Mutant: the renewal adds to the old expiry instead of to the present.
RenewAddsUp(p, o) ==
    /\ HoldsClaim(p, o)
    /\ lease' = [lease EXCEPT ![o] = @ + Lease]
    /\ attested' = [attested EXCEPT ![o] = NoProc]
    /\ UNCHANGED <<state, req, owner, resolvedBy, lock, gateVars, ready, live>>

\* Mutant: the renewal leaves the attestation in place.
RenewKeepsAttestation(p, o) ==
    /\ HoldsClaim(p, o)
    /\ lease' = [lease EXCEPT ![o] = Lease]
    /\ UNCHANGED <<state, req, owner, attested, resolvedBy, lock, gateVars, ready, live>>

\* A renewal disproves any attestation of the owner's death.  It does not ask
\* whether the lease had already lapsed.
RenewOwnerHeartbeat(p, o) ==
    /\ HoldsClaim(p, o)
    /\ lease' = [lease EXCEPT ![o] = Lease]
    /\ attested' = [attested EXCEPT ![o] = NoProc]
    /\ UNCHANGED <<state, req, owner, resolvedBy, lock, gateVars, ready, live>>

\* Mutant: the claim takes a lapsed lease as proof that the owner is gone.
ClaimableLapsed(p, o, pidAlive) == state[o] = "PREPARED" /\ owner[o] # p /\ lease[o] = 0

Claimable(p, o, pidAlive) ==
    /\ state[o] = "PREPARED"
    /\ owner[o] # p
    /\ ClassifyOwnership(p, owner[o], lease[o], attested[o], pidAlive) = "ABANDONED"

ClaimAbandonedOperation(p, o, pidAlive) ==
    /\ Claimable(p, o, pidAlive)
    /\ owner' = [owner EXCEPT ![o] = p]
    /\ lease' = [lease EXCEPT ![o] = Lease]
    /\ attested' = [attested EXCEPT ![o] = NoProc]
    /\ UNCHANGED <<state, req, resolvedBy, lock, gateVars, ready, live>>

\* An operator names the current owner as dead.  Nothing checks that the
\* operator is right.
AttestOwnerDeath(o) ==
    /\ state[o] = "PREPARED"
    /\ owner[o] # NoProc
    /\ lease[o] = 0
    /\ attested' = [attested EXCEPT ![o] = owner[o]]
    /\ UNCHANGED <<state, req, owner, lease, resolvedBy, lock, gateVars, ready, live>>

-------------------------------------------------------------------------------
(* The reconciliation lease: scheduler_lease.py through ReconciliationGate.*)

GateHeldBy(p) == gateHolder = p /\ gateLeft > 0

\* try_acquire(): free, already ours, expired, or held by a provably dead owner.
CanAcquireGate(p, pidAlive) ==
    \/ gateHolder \in {NoProc, p}
    \/ gateLeft = 0
    \/ gateHolder # NoProc /\ ProvenDead(p, gateHolder, pidAlive)

AcquireGate(p, pidAlive) ==
    /\ CanAcquireGate(p, pidAlive)
    /\ gateHolder' = p
    /\ gateLeft' = GateTTL
    /\ UNCHANGED <<rowVars, ready, live>>

\* renew() refuses a lease that has lapsed, even if nobody has taken it yet.
RenewGate(p) ==
    /\ GateHeldBy(p)
    /\ gateLeft' = GateTTL
    /\ UNCHANGED <<gateHolder, rowVars, ready, live>>

\* release() deletes the row if it is still ours.
AfterRelease(p) == IF gateHolder = p THEN NoProc ELSE gateHolder

ReleaseGate(p) ==
    /\ gateHolder' = AfterRelease(p)
    /\ gateLeft' = IF gateHolder = p THEN 0 ELSE gateLeft
    /\ UNCHANGED <<rowVars, ready, live>>

-------------------------------------------------------------------------------
(* The environment: time passes and processes die.                         *)

Minus1(n) == IF n > 0 THEN n - 1 ELSE 0

ClockTick ==
    /\ lease' = [o \in Op |-> Minus1(lease[o])]
    /\ gateLeft' = Minus1(gateLeft)
    /\ UNCHANGED <<state, req, owner, attested, resolvedBy, lock, gateHolder, ready, live>>

Die(p) ==
    /\ live' = live \ {p}
    /\ UNCHANGED <<rowVars, gateVars, ready>>

-------------------------------------------------------------------------------
(* The journal alone, called by anyone in any order.                       *)

Init == JInit /\ live = Proc

ProcessCall(p) ==
    \/ \E o \in Op, r \in Request : Prepare(p, o, r)
    \/ \E o \in Op : \/ MarkCommitted(p, o)
                     \/ MarkNeedsReview(p, o)
                     \/ MarkFailed(p, o)
                     \/ MarkReversed(o)
                     \/ RenewOwnerHeartbeat(p, o)
    \/ \E o \in Op : \E a \in PidAnswers(live, owner[o]) : ClaimAbandonedOperation(p, o, a)
    \/ \E a \in PidAnswers(live, gateHolder) : AcquireGate(p, a)
    \/ RenewGate(p)
    \/ ReleaseGate(p)

\* An operator's command, run by a process of its own or in a live one.
OperatorCall ==
    \E o \in Op : \/ AttestOwnerDeath(o)
                  \/ \E to \in OperationStates : ClearNeedsReview(o, to)

Next ==
    \/ \E p \in live \ ready : EnsureReady(p)
    \/ \E p \in live \cap ready : ProcessCall(p) \/ OperatorCall
    \/ ClockTick
    \/ \E p \in live : Die(p)

Spec == Init /\ [][Next]_jvars

-------------------------------------------------------------------------------
(* Properties.                                                             *)

\* The per-participant fence (invariant 14 of graph_operations_model.py): a lock
\* belongs to an unresolved row that names its entity, and once any process has
\* opened the journal every unresolved row holds all of its participants.  The
\* one exception the backfill leaves is an entity that two legacy rows share.
LockFence ==
    /\ \A e \in Entity : lock[e] # NoOp => lock[e] \in Holders(e)
    /\ ready # {} =>
          \A e \in Entity : \A o \in Holders(e) :
             \/ lock[e] = o
             \/ /\ o \in LegacyOp
                /\ \E n \in LegacyOp \ {o} : e \in ParticipantUuids(LegacyRequest[n])

\* ux_graph_ops_unresolved_key as its readers rely on it: at most one unresolved
\* row per kind and target_key, whoever resolves, quarantines or requeues rows.
KeyFence ==
    \A m, n \in Op : /\ state[m] \in Unresolved /\ state[n] \in Unresolved
                     /\ SameKey(req[m], req[n])
                     => m = n

\* An attestation is evidence about the current owner and about its present
\* lapse only: it never survives a takeover or a renewal
\* (renew_owner_heartbeat, claim_abandoned_operation, attest_owner_death).
AttestationIsCurrent ==
    \A o \in Op : owner[o] # NoProc /\ attested[o] # NoProc
                  => attested[o] = owner[o] /\ lease[o] = 0

\* Only a PREPARED row has an owner (_transition retires the claim), so a
\* quarantined or finished row never reads as LIVE_OWNER.
OnlyPreparedOwned == \A o \in Op : state[o] # "PREPARED" => owner[o] = NoProc /\ lease[o] = 0

\* A resolved row is never reopened: FAILED and REVERSED are final and a
\* COMMITTED row can only be reversed, whatever stale callers attempt.
NeverReopened ==
    \A o \in Op : /\ state[o] \in {"FAILED", "REVERSED"} => state'[o] = state[o]
                  /\ state[o] = "COMMITTED" => state'[o] \in {"COMMITTED", "REVERSED"}

\* NeverReopened, of every step (_transition in graph_operations_transitions.py).
TerminalStable == [][NeverReopened]_jvars

\* A claim in force is never taken away by another process: an owner is replaced
\* only after its lease lapsed, and only if it is dead or attested so.
JustifiedTakeover ==
    \A o \in Op : owner[o] # NoProc /\ owner'[o] \notin {owner[o], NoProc}
        => lease[o] = 0 /\ (owner[o] \notin live \/ attested[o] = owner[o])

\* JustifiedTakeover, of every step (claim_abandoned_operation).
TakeoverOnlyFromTheLapsed == [][JustifiedTakeover]_jvars

\* The claim of graph_operations_prepare.py: "a PREPARED row is never briefly
\* ownerless.  A row that appears with no claim is therefore a legacy row".
PreparedHasOwner ==
    \A o \in Op : state[o] = "PREPARED" /\ owner[o] = NoProc => o \in LegacyOp

===============================================================================
