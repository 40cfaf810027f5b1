------------------------- MODULE GraphOperationsProofs -------------------------
(***************************************************************************)
(* The journal's safety for every number of processes, operations and      *)
(* entities, every set of requests and every legacy backlog.               *)
(***************************************************************************)
EXTENDS GraphOperations, TLAPS

\* What the journal looks like before and after its first reader: legacy rows
\* keep their request for ever and never get an owner, and until a process opens
\* the journal they are its only rows and nothing is locked.  An id not yet used
\* carries no claim data.
RowHistory ==
    /\ \A o \in LegacyOp : state[o] # "ABSENT" /\ req[o] = LegacyRequest[o]
    /\ \A o \in LegacyOp : owner[o] = NoProc
    /\ \A o \in Op : state[o] = "ABSENT" => attested[o] = NoProc
    /\ ready = {} => /\ \A o \in Op : state[o] # "ABSENT" => o \in LegacyOp
                     /\ \A e \in Entity : lock[e] = NoOp

\* The inductive invariant.
JInv ==
    /\ JTypeOK
    /\ RowHistory
    /\ LockFence
    /\ KeyFence
    /\ AttestationIsCurrent
    /\ OnlyPreparedOwned

-------------------------------------------------------------------------------
(* Facts about the constants and the operators.                            *)

\* Operation ids are positive, and legacy rows are operations.
LEMMA OpFacts == NoOp \notin Op /\ LegacyOp \subseteq Op
  BY JournalAssumption DEF Op, NoOp, LegacyOp

\* A decremented timer stays in its range.
LEMMA Minus1Type ==
    ASSUME NEW bound \in Nat, NEW n \in 0..bound
    PROVE  Minus1(n) \in 0..bound /\ (n = 0 => Minus1(n) = 0)
  BY DEF Minus1

-------------------------------------------------------------------------------
(* Every method preserves the invariant.                                   *)

\* The initial journal, with or without a legacy backlog, satisfies it.
LEMMA InitInv ==
    ASSUME JInit, live \subseteq Proc
    PROVE  JInv
  <1> USE JournalAssumption, OwnerAssumption, OpFacts
  <1>1. JTypeOK
    BY DEF JInit, JTypeOK, OperationStates, LegacyOp, Op, NoOp
  <1>2. RowHistory
    BY DEF JInit, RowHistory
  <1>3. LockFence
    BY DEF JInit, LockFence
  <1>4. KeyFence
    BY DEF JInit, KeyFence, SameKey, NoRequest, LegacyOp, Unresolved
  <1>5. AttestationIsCurrent /\ OnlyPreparedOwned
    BY DEF JInit, AttestationIsCurrent, OnlyPreparedOwned
  <1> QED BY <1>1, <1>2, <1>3, <1>4, <1>5 DEF JInv

\* prepare(): the new row fences its key and its participants, and takes nothing
\* from a row that already holds one.
LEMMA PrepareInv ==
    ASSUME JInv, ready # {},
           NEW p \in Proc, NEW o \in Op, NEW r \in Request, Prepare(p, o, r)
    PROVE  JInv'
  <1> USE JournalAssumption, OwnerAssumption, OpFacts DEF JInv
  <1>1. JTypeOK'
    BY DEF Prepare, JTypeOK, OperationStates, gateVars
  <1>2. RowHistory'
    BY DEF Prepare, RowHistory, Fresh, JTypeOK
  <1>3. \A e \in Entity : Holders(e)' = IF e \in ParticipantUuids(r)
                                        THEN Holders(e) \cup {o} ELSE Holders(e)
    BY DEF Prepare, Holders, Fresh, JTypeOK, Unresolved
  <1>4. LockFence'
    <2>1. \A e \in Entity : lock'[e] = IF e \in ParticipantUuids(r) THEN o ELSE lock[e]
      BY DEF Prepare
    <2>2. \A e \in ParticipantUuids(r) : lock[e] = NoOp
      BY DEF Prepare, PrepareRefused
    <2>3. \A e \in Entity : lock[e] # NoOp => lock[e] \in Holders(e)
      BY DEF LockFence
    <2>4. \A e \in Entity : lock'[e] # NoOp => lock'[e] \in Holders(e)'
      BY <1>3, <2>1, <2>3
    <2>5. ASSUME NEW e \in Entity, NEW n \in Holders(e)'
          PROVE  \/ lock'[e] = n
                 \/ /\ n \in LegacyOp
                    /\ \E m \in LegacyOp \ {n} : e \in ParticipantUuids(LegacyRequest[m])
      <3>1. CASE n = o /\ e \in ParticipantUuids(r)
        BY <2>1, <3>1
      <3>2. CASE n \in Holders(e)
        <4>1. \/ lock[e] = n
              \/ /\ n \in LegacyOp
                 /\ \E m \in LegacyOp \ {n} : e \in ParticipantUuids(LegacyRequest[m])
          BY <3>2 DEF LockFence
        <4>2. n \in Op
          BY <3>2 DEF Holders
        <4> QED BY <2>1, <2>2, <4>1, <4>2
      <3> QED BY <1>3, <3>1, <3>2
    <2> QED BY <2>4, <2>5 DEF LockFence, ParticipantUuids
  <1>5. KeyFence'
    BY DEF Prepare, KeyFence, PrepareRefused, KeyFenced, SameKey, JTypeOK, Fresh, Unresolved
  <1>6. AttestationIsCurrent' /\ OnlyPreparedOwned'
    BY DEF Prepare, AttestationIsCurrent, OnlyPreparedOwned, JTypeOK, Fresh, RowHistory
  <1> QED BY <1>1, <1>2, <1>4, <1>5, <1>6

\* _ensure_ready(): the backfill locks only what an unresolved row names.
LEMMA EnsureReadyInv ==
    ASSUME JInv, NEW p \in Proc, EnsureReady(p)
    PROVE  JInv'
  <1> USE JournalAssumption, OwnerAssumption, OpFacts DEF JInv
  <1>1. JTypeOK'
    BY DEF EnsureReady, JTypeOK, gateVars
  <1>2. RowHistory'
    BY DEF EnsureReady, RowHistory
  <1>3. \A e \in Entity : Holders(e)' = Holders(e)
    BY DEF EnsureReady, Holders
  <1>4. LockFence'
    <2>1. \A e \in Entity : lock'[e] # NoOp => lock'[e] \in Holders(e)'
      BY <1>3 DEF EnsureReady, LockFence
    <2>2. ASSUME NEW e \in Entity, NEW n \in Holders(e)', lock'[e] # n
          PROVE  /\ n \in LegacyOp
                 /\ \E m \in LegacyOp \ {n} : e \in ParticipantUuids(LegacyRequest[m])
      <3>1. CASE ready = {}
        <4>1. lock[e] = NoOp /\ lock'[e] \in Holders(e) \ {n}
          BY <1>3, <2>2, <3>1 DEF EnsureReady, RowHistory
        <4>2. n \in LegacyOp /\ lock'[e] \in LegacyOp
          BY <1>3, <2>2, <3>1, <4>1 DEF Holders, RowHistory, Unresolved
        <4>3. e \in ParticipantUuids(LegacyRequest[lock'[e]])
          BY <4>1, <4>2 DEF Holders, RowHistory
        <4> QED BY <4>1, <4>2, <4>3
      <3>2. CASE ready # {}
        <4>1. lock[e] # n
          BY <1>3, <2>2 DEF EnsureReady, LockFence, Holders
        <4> QED BY <1>3, <2>2, <3>2, <4>1 DEF LockFence
      <3> QED BY <3>1, <3>2
    <2> QED BY <2>1, <2>2 DEF LockFence, ParticipantUuids
  <1>5. KeyFence' /\ AttestationIsCurrent' /\ OnlyPreparedOwned'
    BY DEF EnsureReady, KeyFence, SameKey, AttestationIsCurrent, OnlyPreparedOwned
  <1> QED BY <1>1, <1>2, <1>4, <1>5

\* _transition(), from any state it is called for: locks leave with the row that
\* holds them, and no resolved row becomes unresolved.
LEMMA TransitionInv ==
    ASSUME JInv, ready # {},
           NEW o \in Op, NEW to \in OperationStates, NEW from,
           NEW token \in Proc \cup {NoProc},
           from \subseteq Unresolved \/ to \in LockReleaseStates,
           from \subseteq OperationStates,
           Transition(o, to, from, token)
    PROVE  JInv'
  <1> USE JournalAssumption, OwnerAssumption, OpFacts DEF JInv
  <1>1. JTypeOK'
    BY DEF Transition, CanTransition, ReleaseLocks, JTypeOK, OperationStates, gateVars
  <1>2. RowHistory'
    BY DEF Transition, CanTransition, RowHistory, JTypeOK, OperationStates
  <1>3. /\ state[o] \in OperationStates
        /\ to \in Unresolved => state[o] \in Unresolved
        /\ to \in Unresolved <=> to \notin LockReleaseStates
    BY DEF Transition, CanTransition, Unresolved, LockReleaseStates, OperationStates
  <1>4. \A e \in Entity : Holders(e)' = IF to \in Unresolved THEN Holders(e)
                                        ELSE Holders(e) \ {o}
    BY <1>3 DEF Transition, Holders, JTypeOK
  <1>5. LockFence'
    <2>1. \A e \in Entity : lock'[e] = IF to \notin Unresolved /\ lock[e] = o
                                       THEN NoOp ELSE lock[e]
      BY <1>3 DEF Transition, ReleaseLocks, JTypeOK
    <2>2. \A e \in Entity : lock'[e] # NoOp => lock'[e] \in Holders(e)'
      BY <1>4, <2>1 DEF LockFence
    <2>3. ASSUME NEW e \in Entity, NEW n \in Holders(e)'
          PROVE  \/ lock'[e] = n
                 \/ /\ n \in LegacyOp
                    /\ \E m \in LegacyOp \ {n} : e \in ParticipantUuids(LegacyRequest[m])
      <3>1. n \in Holders(e) /\ (to \notin Unresolved => n # o)
        BY <1>4
      <3>2. \/ lock[e] = n
            \/ /\ n \in LegacyOp
               /\ \E m \in LegacyOp \ {n} : e \in ParticipantUuids(LegacyRequest[m])
        BY <3>1 DEF LockFence
      <3> QED BY <2>1, <3>1, <3>2
    <2> QED BY <2>2, <2>3 DEF LockFence, ParticipantUuids
  <1>6. KeyFence'
    BY <1>3 DEF Transition, KeyFence, SameKey, JTypeOK
  <1>7. AttestationIsCurrent' /\ OnlyPreparedOwned'
    BY <1>3 DEF Transition, ClaimEnds, AttestationIsCurrent, OnlyPreparedOwned, JTypeOK
  <1> QED BY <1>1, <1>2, <1>5, <1>6, <1>7

\* The ownership methods: a fresh claim never carries an attestation.
LEMMA OwnershipInv ==
    ASSUME JInv, NEW p \in Proc, NEW o \in Op, NEW alive \in BOOLEAN,
           \/ RenewOwnerHeartbeat(p, o)
           \/ ClaimAbandonedOperation(p, o, alive)
           \/ AttestOwnerDeath(o)
    PROVE  JInv'
  <1> USE JournalAssumption, OwnerAssumption DEF JInv
  <1>1. /\ state[o] = "PREPARED"
        /\ UNCHANGED <<state, req, resolvedBy, lock, gateVars, ready, live>>
        /\ \A n \in Op \ {o} : /\ owner'[n] = owner[n]
                               /\ lease'[n] = lease[n]
                               /\ attested'[n] = attested[n]
    BY DEF RenewOwnerHeartbeat, HoldsClaim, ClaimAbandonedOperation, Claimable,
           AttestOwnerDeath, JTypeOK
  <1>2. /\ owner' \in [Op -> Proc \cup {NoProc}]
        /\ lease' \in [Op -> 0..Lease]
        /\ attested' \in [Op -> Proc \cup {NoProc}]
        /\ owner'[o] # NoProc /\ attested'[o] # NoProc
           => attested'[o] = owner'[o] /\ lease'[o] = 0
    <2>1. CASE RenewOwnerHeartbeat(p, o)
      BY <2>1 DEF RenewOwnerHeartbeat, JTypeOK
    <2>2. CASE ClaimAbandonedOperation(p, o, alive)
      BY <2>2 DEF ClaimAbandonedOperation, JTypeOK
    <2>3. CASE AttestOwnerDeath(o)
      BY <2>3 DEF AttestOwnerDeath, JTypeOK
    <2> QED BY <2>1, <2>2, <2>3
  <1>3. JTypeOK'
    BY <1>1, <1>2 DEF JTypeOK, gateVars
  <1>4. RowHistory'
    <2>1. owner[o] # NoProc
      BY DEF RenewOwnerHeartbeat, HoldsClaim, ClaimAbandonedOperation, Claimable,
             ClassifyOwnership, AttestOwnerDeath
    <2> QED BY <1>1, <2>1, OpFacts DEF RowHistory
  <1>5. LockFence'
    BY <1>1 DEF LockFence, Holders
  <1>6. KeyFence'
    BY <1>1 DEF KeyFence, SameKey
  <1>7. AttestationIsCurrent'
    BY <1>1, <1>2 DEF AttestationIsCurrent
  <1>8. OnlyPreparedOwned'
    BY <1>1 DEF OnlyPreparedOwned
  <1> QED BY <1>3, <1>4, <1>5, <1>6, <1>7, <1>8

\* Time only lapses claims.
LEMMA ClockInv ==
    ASSUME JInv, ClockTick
    PROVE  JInv'
  <1> USE JournalAssumption DEF JInv, ClockTick
  <1>1. lease' \in [Op -> 0..Lease] /\ gateLeft' \in 0..GateTTL
    BY Minus1Type DEF JTypeOK
  <1>2. JTypeOK'
    BY <1>1 DEF JTypeOK
  <1>3. RowHistory' /\ KeyFence'
    BY DEF RowHistory, KeyFence, SameKey
  <1>4. LockFence'
    BY DEF LockFence, Holders
  <1>5. AttestationIsCurrent' /\ OnlyPreparedOwned'
    BY Minus1Type DEF AttestationIsCurrent, OnlyPreparedOwned, JTypeOK
  <1> QED BY <1>2, <1>3, <1>4, <1>5

\* The reconciliation lease, a death and a stuttering step touch no row.
LEMMA RowsUntouchedInv ==
    ASSUME JInv, UNCHANGED <<rowVars, ready>>,
           gateHolder' \in Proc \cup {NoProc}, gateLeft' \in 0..GateTTL, live' \subseteq Proc
    PROVE  JInv'
  <1> USE DEF JInv, rowVars
  <1>1. JTypeOK'
    BY DEF JTypeOK
  <1>2. RowHistory' /\ KeyFence' /\ AttestationIsCurrent' /\ OnlyPreparedOwned'
    BY DEF RowHistory, KeyFence, SameKey, AttestationIsCurrent, OnlyPreparedOwned
  <1>3. LockFence'
    BY DEF LockFence, Holders
  <1> QED BY <1>1, <1>2, <1>3

\* The lease's own methods keep it well typed.
LEMMA GateInv ==
    ASSUME JInv, NEW p \in Proc, NEW alive \in BOOLEAN,
           AcquireGate(p, alive) \/ RenewGate(p) \/ ReleaseGate(p)
    PROVE  JInv'
  <1> USE JournalAssumption DEF JInv, JTypeOK
  <1>1. CASE AcquireGate(p, alive)
    BY <1>1, RowsUntouchedInv DEF AcquireGate
  <1>2. CASE RenewGate(p)
    BY <1>2, RowsUntouchedInv DEF RenewGate
  <1>3. CASE ReleaseGate(p)
    BY <1>3, RowsUntouchedInv DEF ReleaseGate, AfterRelease
  <1> QED BY <1>1, <1>2, <1>3

-------------------------------------------------------------------------------
(* The specification of the journal alone.                                 *)

\* The four marks and the operator's escape, as instances of Transition.
LEMMA MarkInv ==
    ASSUME JInv, ready # {}, NEW p \in Proc, NEW o \in Op, NEW to \in OperationStates,
           \/ MarkCommitted(p, o) \/ MarkNeedsReview(p, o) \/ MarkFailed(p, o)
           \/ MarkReversed(o) \/ ClearNeedsReview(o, to)
    PROVE  JInv'
  <1> USE DEF OperationStates, Unresolved, LockReleaseStates
  <1>1. CASE MarkCommitted(p, o)
    BY <1>1, TransitionInv DEF MarkCommitted
  <1>2. CASE MarkNeedsReview(p, o)
    BY <1>2, TransitionInv DEF MarkNeedsReview
  <1>3. CASE MarkFailed(p, o)
    BY <1>3, TransitionInv DEF MarkFailed
  <1>4. CASE MarkReversed(o)
    BY <1>4, TransitionInv DEF MarkReversed
  <1>5. CASE ClearNeedsReview(o, to)
    BY <1>5, TransitionInv DEF ClearNeedsReview
  <1> QED BY <1>1, <1>2, <1>3, <1>4, <1>5

\* Every step of the journal preserves the invariant.
LEMMA NextInv ==
    ASSUME JInv, [Next]_jvars
    PROVE  JInv'
  <1>1. live \subseteq Proc
    BY DEF JInv, JTypeOK
  <1>2. CASE \E p \in live \ ready : EnsureReady(p)
    BY <1>1, <1>2, EnsureReadyInv
  <1>3. CASE \E p \in live \cap ready : ProcessCall(p) \/ OperatorCall
    <2>1. PICK p \in live \cap ready : ProcessCall(p) \/ OperatorCall
      BY <1>3
    <2>2. ready # {} /\ p \in Proc
      BY <1>1, <2>1
    <2>3. CASE \E o \in Op, r \in Request : Prepare(p, o, r)
      BY <2>2, <2>3, PrepareInv
    <2>4. CASE \E o \in Op : \/ MarkCommitted(p, o) \/ MarkNeedsReview(p, o)
                             \/ MarkFailed(p, o) \/ MarkReversed(o)
      BY <2>2, <2>4, MarkInv DEF OperationStates
    <2>5. CASE \E o \in Op : \E to \in OperationStates : ClearNeedsReview(o, to)
      BY <2>2, <2>5, MarkInv
    <2>6. CASE \E o \in Op : RenewOwnerHeartbeat(p, o) \/ AttestOwnerDeath(o)
      BY <2>2, <2>6, OwnershipInv
    <2>7. CASE \E o \in Op : \E b \in PidAnswers(live, owner[o]) : ClaimAbandonedOperation(p, o, b)
      BY <2>2, <2>7, OwnershipInv DEF PidAnswers
    <2>8. CASE \E b \in PidAnswers(live, gateHolder) : AcquireGate(p, b)
      BY <2>2, <2>8, GateInv DEF PidAnswers
    <2>9. CASE RenewGate(p) \/ ReleaseGate(p)
      BY <2>2, <2>9, GateInv
    <2> QED BY <2>1, <2>3, <2>4, <2>5, <2>6, <2>7, <2>8, <2>9 DEF ProcessCall, OperatorCall
  <1>4. CASE \E p \in live : Die(p)
    BY <1>1, <1>4, RowsUntouchedInv DEF Die, gateVars, JInv, JTypeOK
  <1>5. CASE UNCHANGED jvars
    BY <1>5, RowsUntouchedInv DEF jvars, gateVars, JInv, JTypeOK
  <1>6. CASE ClockTick
    BY <1>6, ClockInv
  <1> QED BY <1>2, <1>3, <1>4, <1>5, <1>6 DEF Next

\* The inductive invariant holds in every reachable state of the journal.
THEOREM JournalInvariant == Spec => []JInv
  <1>1. Init => JInv
    BY InitInv DEF Init
  <1> QED BY <1>1, NextInv, PTL DEF Spec

\* Type correctness of the journal.
THEOREM JournalTypeCorrect == Spec => []JTypeOK
  BY JournalInvariant, PTL DEF JInv

\* The participant fence: no two unresolved operations hold one entity, and none
\* is unprotected once the journal was opened.
THEOREM ParticipantsFenced == Spec => []LockFence
  BY JournalInvariant, PTL DEF JInv

\* The key fence: one unresolved row per kind and target_key.
THEOREM KeysFenced == Spec => []KeyFence
  BY JournalInvariant, PTL DEF JInv

\* An operator's attestation never outlives what it was about: the process it
\* names owns the row still, and its lease has not been renewed since.
THEOREM AttestationsCurrent == Spec => []AttestationIsCurrent
  BY JournalInvariant, PTL DEF JInv

\* Only PREPARED rows are owned: a mark that leaves PREPARED clears the owner and
\* its lease, so no heartbeat and no takeover can follow it.
THEOREM OnlyPreparedRowsOwned == Spec => []OnlyPreparedOwned
  BY JournalInvariant, PTL DEF JInv

-------------------------------------------------------------------------------
(* What a step may never do.                                               *)

\* A mark leaves every other row alone and retires, never moves, a claim.
LEMMA TransitionStep ==
    ASSUME JInv, NEW o \in Op, NEW to \in OperationStates, NEW from, NEW token,
           \/ from \subseteq Unresolved
           \/ from = {"COMMITTED"} /\ to = "REVERSED",
           Transition(o, to, from, token)
    PROVE  NeverReopened /\ JustifiedTakeover
  <1>1. \A n \in Op \ {o} : state'[n] = state[n] /\ owner'[n] = owner[n]
    BY DEF Transition, JInv, JTypeOK
  <1>2. state[o] \in from /\ state'[o] = to
    BY DEF Transition, CanTransition, JInv, JTypeOK
  <1>3. owner'[o] \in {owner[o], NoProc}
    BY DEF Transition, JInv, JTypeOK
  <1> QED BY <1>1, <1>2, <1>3 DEF NeverReopened, JustifiedTakeover, Unresolved

\* A step that changes neither states nor owners is harmless.
LEMMA IdleStep ==
    ASSUME UNCHANGED <<state, owner>>
    PROVE  NeverReopened /\ JustifiedTakeover
  BY DEF NeverReopened, JustifiedTakeover

\* Every step satisfies both action properties.
LEMMA NextStep ==
    ASSUME JInv, [Next]_jvars
    PROVE  [NeverReopened]_jvars /\ [JustifiedTakeover]_jvars
  <1> SUFFICES ASSUME Next
               PROVE  NeverReopened /\ JustifiedTakeover
    OBVIOUS
  <1> USE DEF rowVars
  <1>1. CASE \E p \in live \ ready : EnsureReady(p)
    BY <1>1, IdleStep DEF EnsureReady
  <1>2. CASE \E p \in live \cap ready : ProcessCall(p) \/ OperatorCall
    <2>1. PICK p \in live \cap ready : ProcessCall(p) \/ OperatorCall
      BY <1>2
    <2>2. CASE \E o \in Op, r \in Request : Prepare(p, o, r)
      <3>1. PICK o \in Op, r \in Request : Prepare(p, o, r)
        BY <2>2
      <3>2. /\ state[o] = "ABSENT" /\ owner[o] = NoProc
            /\ \A n \in Op \ {o} : state'[n] = state[n] /\ owner'[n] = owner[n]
        BY <3>1 DEF Prepare, Fresh, JInv, JTypeOK, OnlyPreparedOwned
      <3> QED BY <3>2 DEF NeverReopened, JustifiedTakeover
    <2>3. CASE \E o \in Op : \/ MarkCommitted(p, o) \/ MarkNeedsReview(p, o)
                             \/ MarkFailed(p, o) \/ MarkReversed(o)
      BY <2>3, TransitionStep
         DEF MarkCommitted, MarkNeedsReview, MarkFailed, MarkReversed, Unresolved, OperationStates
    <2>4. CASE \E o \in Op : \E to \in OperationStates : ClearNeedsReview(o, to)
      BY <2>4, TransitionStep DEF ClearNeedsReview, Unresolved
    <2>5. CASE \E o \in Op : RenewOwnerHeartbeat(p, o) \/ AttestOwnerDeath(o)
      BY <2>5, IdleStep DEF RenewOwnerHeartbeat, AttestOwnerDeath
    <2>6. CASE \E o \in Op : \E b \in PidAnswers(live, owner[o]) : ClaimAbandonedOperation(p, o, b)
      <3>0. PICK o \in Op : \E b \in PidAnswers(live, owner[o]) : ClaimAbandonedOperation(p, o, b)
        BY <2>6
      <3>1. PICK b \in PidAnswers(live, owner[o]) : ClaimAbandonedOperation(p, o, b)
        BY <3>0
      <3>2. /\ UNCHANGED state
            /\ \A n \in Op \ {o} : owner'[n] = owner[n]
        BY <3>1 DEF ClaimAbandonedOperation, JInv, JTypeOK
      <3>3. lease[o] = 0 /\ (attested[o] = owner[o] \/ b = FALSE)
        BY <3>1, JournalAssumption
           DEF ClaimAbandonedOperation, Claimable, ClassifyOwnership, ProvenDead, PidAnswers,
               JInv, JTypeOK
      <3>4. b = FALSE => owner[o] \notin live
        BY <3>1 DEF PidAnswers
      <3> QED BY <3>2, <3>3, <3>4 DEF NeverReopened, JustifiedTakeover
    <2>7. CASE (\E b \in PidAnswers(live, gateHolder) : AcquireGate(p, b))
               \/ RenewGate(p) \/ ReleaseGate(p)
      BY <2>7, IdleStep DEF AcquireGate, RenewGate, ReleaseGate
    <2> QED BY <2>1, <2>2, <2>3, <2>4, <2>5, <2>6, <2>7 DEF ProcessCall, OperatorCall
  <1>3. CASE ClockTick \/ \E p \in live : Die(p)
    BY <1>3, IdleStep DEF ClockTick, Die
  <1> QED BY <1>1, <1>2, <1>3 DEF Next

\* A resolved operation stays resolved.
THEOREM TerminalStates == Spec => TerminalStable
  BY JournalInvariant, NextStep, PTL DEF Spec, TerminalStable

\* A running owner loses its claim to another process only after its lease lapsed
\* and an operator attested its death.
THEOREM TakeoverJustified == Spec => TakeoverOnlyFromTheLapsed
  BY JournalInvariant, NextStep, PTL DEF Spec, TakeoverOnlyFromTheLapsed
===============================================================================
