------------------------- MODULE CircuitBreakerProofs -------------------------
(***************************************************************************)
(* Proofs about CircuitBreaker: no sequence of late results, cancellations *)
(* and resets wedges the breaker, and a billing refusal is respected.      *)
(***************************************************************************)
EXTENDS CircuitBreaker, TLAPS

\* An unanswered billing refusal keeps the breaker hard-open or half-open, and its
\* cooldown started no earlier than the refusal.
RefusalRemembered ==
    refusal < QuotaCooldown => cstate # "CLOSED" /\ hard /\ opened \in 0..refusal

BInv == BTypeOK /\ NotWedged /\ RefusalRemembered

\* The breaker starts closed, timed by nothing and refused by nobody.
LEMMA InitInv == Init => BInv
  <1> SUFFICES ASSUME Init PROVE BInv
    OBVIOUS
  <1>1. BTypeOK
    <2>1. probing \in BOOLEAN /\ hard \in BOOLEAN
      BY Zenon DEF Init
    <2>2. /\ cstate \in {"CLOSED", "OPEN", "HALF_OPEN"} /\ failures \in 0..Threshold
          /\ opened \in 0..QuotaCooldown \cup {Unset} /\ refusal \in 0..QuotaCooldown
      BY BreakerAssumption DEF Init
    <2>3. /\ lock \in Caller \cup {Free}
          /\ pc \in [Caller -> {"idle", "running", "waiting", "recording"}]
          /\ probe \in [Caller -> BOOLEAN] /\ result \in [Caller -> Results]
      BY DEF Init, Results
    <2> QED BY <2>1, <2>2, <2>3 DEF BTypeOK
  <1>2. NotWedged /\ RefusalRemembered
    BY BreakerAssumption DEF Init, NotWedged, RefusalRemembered
  <1> QED BY <1>1, <1>2 DEF BInv

\* Types, one conclusion at a time.
LEMMA TypeStep == BTypeOK /\ [Next]_vars => BTypeOK'
  <1> SUFFICES ASSUME BTypeOK, [Next]_vars PROVE BTypeOK'
    OBVIOUS
  <1> USE BreakerAssumption DEF BTypeOK, Unset, Results
  <1>1. ASSUME NEW c \in Caller, Enter(c) PROVE BTypeOK'
    BY <1>1 DEF Enter
  <1>2. ASSUME NEW c \in Caller, NEW r \in Results, Conclude(c, r) PROVE BTypeOK'
    <2>1. failures' \in 0..Threshold
      BY <1>2 DEF Conclude, HardOpen, Close, CloseKeepingReason, CountFailure, AfterSuccess
    <2>2. /\ cstate' \in {"CLOSED", "OPEN", "HALF_OPEN"}
          /\ opened' \in 0..QuotaCooldown \cup {Unset}
          /\ refusal' \in 0..QuotaCooldown
      BY <1>2 DEF Conclude, HardOpen, Reopen, Close, CloseKeepingReason
    <2>3. /\ lock' \in Caller \cup {Free}
          /\ pc' \in [Caller -> {"idle", "running", "waiting", "recording"}]
      BY <1>2 DEF Conclude, Recording, Leaving
    <2>4. probe' \in [Caller -> BOOLEAN] /\ result' \in [Caller -> Results]
      BY <1>2 DEF Conclude
    <2>5. hard' \in BOOLEAN /\ probing' \in BOOLEAN
      BY <1>2, Zenon DEF Conclude, HardOpen, Reopen, Close, CloseKeepingReason
    <2> QED BY <2>1, <2>2, <2>3, <2>4, <2>5
  <1>3. ASSUME NEW c \in Caller, NEW r \in Results, Finish(c, r) PROVE BTypeOK'
    <2>1. CASE Conclude(c, r)
      BY <1>2, <2>1
    <2>2. CASE ~Conclude(c, r)
      BY <1>3, <2>2 DEF Finish, breaker
    <2> QED BY <2>1, <2>2
  <1>4. ASSUME NEW c \in Caller, Acquire(c) PROVE BTypeOK'
    BY <1>2, <1>4 DEF Acquire
  <1>5. ASSUME NEW c \in Caller, Cancel(c) PROVE BTypeOK'
    <2>1. hard' \in BOOLEAN /\ probing' \in BOOLEAN
      BY <1>5, Zenon DEF Cancel, AbandonProbe, Reopen, CloseKeepingReason, breaker
    <2>2. /\ cstate' \in {"CLOSED", "OPEN", "HALF_OPEN"} /\ failures' \in 0..Threshold
          /\ opened' \in 0..QuotaCooldown \cup {Unset} /\ refusal' \in 0..QuotaCooldown
      BY <1>5 DEF Cancel, AbandonProbe, Reopen, CloseKeepingReason, breaker
    <2>3. /\ lock' \in Caller \cup {Free}
          /\ pc' \in [Caller -> {"idle", "running", "waiting", "recording"}]
          /\ probe' \in [Caller -> BOOLEAN] /\ result' \in [Caller -> Results]
      BY <1>5 DEF Cancel
    <2> QED BY <2>1, <2>2, <2>3
  <1>6. ASSUME NEW c \in Caller, Release(c) PROVE BTypeOK'
    BY <1>6 DEF Release, breaker
  <1>7. CASE Reset
    <2>1. hard' \in BOOLEAN /\ probing' \in BOOLEAN
      BY <1>7, Zenon DEF Reset, Close, CloseKeepingReason
    <2> QED BY <1>7, <2>1 DEF Reset, Close, CloseKeepingReason, task
  <1>8. CASE Tick
    BY <1>8 DEF Tick, Older, task
  <1>9. CASE UNCHANGED vars
    BY <1>9 DEF vars, breaker, task
  <1> QED BY <1>1, <1>3, <1>4, <1>5, <1>6, <1>7, <1>8, <1>9 DEF Next

\* Under the lock: a probe settles the breaker, any other call leaves a HALF_OPEN
\* breaker to its probe.
LEMMA ConcludeWedge ==
    ASSUME BTypeOK, NotWedged, NEW c \in Caller, NEW r \in Results, Conclude(c, r),
           pc[c] \in {"running", "waiting"}
    PROVE  NotWedged'
  <1> USE BreakerAssumption DEF BTypeOK, Unset
  <1>1. cstate' = "HALF_OPEN" =>
          ~probe[c] /\ cstate = "HALF_OPEN" /\ probing' = probing
    BY DEF Conclude, HardOpen, Reopen, Close, CloseKeepingReason
  <1>2. /\ \A d \in Caller \ {c} : probe'[d] = probe[d] /\ pc'[d] = pc[d]
    BY DEF Conclude, Recording, Leaving
  <1>3. cstate' = "HALF_OPEN" => probing' /\ \E d \in Caller : LiveProbe(d)'
    BY <1>1, <1>2 DEF NotWedged, LiveProbe
  <1>4. cstate' = "OPEN" => opened' # Unset
    BY DEF NotWedged, Conclude, HardOpen, Reopen, Close, CloseKeepingReason
  <1>5. lock' # Free => pc'[lock'] = "recording"
    BY DEF Conclude, Recording, Leaving
  <1> QED BY <1>3, <1>4, <1>5 DEF NotWedged

\* Under the lock: a refusal restarts the cooldown, only a closing clears it.
LEMMA ConcludeRefusal ==
    ASSUME BTypeOK, RefusalRemembered, NEW c \in Caller, NEW r \in Results, Conclude(c, r)
    PROVE  RefusalRemembered'
  BY BreakerAssumption
  DEF BTypeOK, Unset, RefusalRemembered, Conclude, HardOpen, Reopen, Close, CloseKeepingReason

\* No step wedges the breaker.
LEMMA WedgeStep == BTypeOK /\ NotWedged /\ [Next]_vars => NotWedged'
  <1> SUFFICES ASSUME BTypeOK, NotWedged, [Next]_vars PROVE NotWedged'
    OBVIOUS
  <1> USE BreakerAssumption DEF BTypeOK, Unset
  <1>1. ASSUME NEW c \in Caller, Enter(c) PROVE NotWedged'
    BY <1>1 DEF Enter, MayProbe, NotWedged, LiveProbe
  <1>2. ASSUME NEW c \in Caller, NEW r \in Results, Finish(c, r) PROVE NotWedged'
    <2>1. CASE Conclude(c, r)
      BY <1>2, <2>1, ConcludeWedge DEF Finish
    <2>2. CASE ~Conclude(c, r)
      BY <1>2, <2>2 DEF Finish, breaker, NotWedged, LiveProbe
    <2> QED BY <2>1, <2>2
  <1>3. ASSUME NEW c \in Caller, Acquire(c) PROVE NotWedged'
    BY <1>3, ConcludeWedge DEF Acquire
  <1>4. ASSUME NEW c \in Caller, Cancel(c) PROVE NotWedged'
    <2>1. lock' # Free => pc'[lock'] = "recording"
      BY <1>4 DEF Cancel, NotWedged
    <2>2. CASE probe[c]
      BY <1>4, <2>1, <2>2 DEF Cancel, AbandonProbe, Reopen, CloseKeepingReason, NotWedged
    <2>3. CASE ~probe[c]
      BY <1>4, <2>1, <2>3 DEF Cancel, breaker, NotWedged, LiveProbe
    <2> QED BY <2>2, <2>3
  <1>5. ASSUME NEW c \in Caller, Release(c) PROVE NotWedged'
    BY <1>5 DEF Release, breaker, NotWedged, LiveProbe
  <1>6. CASE Reset
    BY <1>6 DEF Reset, Close, CloseKeepingReason, task, NotWedged
  <1>7. CASE Tick
    BY <1>7 DEF Tick, Older, task, NotWedged, LiveProbe
  <1>8. CASE UNCHANGED vars
    BY <1>8 DEF vars, breaker, task, NotWedged, LiveProbe
  <1> QED BY <1>1, <1>2, <1>3, <1>4, <1>5, <1>6, <1>7, <1>8 DEF Next

\* No step forgets a refusal without closing the breaker.
LEMMA RefusalStep == BInv /\ [Next]_vars => RefusalRemembered'
  <1> SUFFICES ASSUME BInv, [Next]_vars PROVE RefusalRemembered'
    OBVIOUS
  <1> USE BreakerAssumption DEF BInv, BTypeOK, Unset, RefusalRemembered
  <1>1. ASSUME NEW c \in Caller, Enter(c) PROVE RefusalRemembered'
    BY <1>1 DEF Enter
  <1>2. ASSUME NEW c \in Caller, NEW r \in Results, Finish(c, r) PROVE RefusalRemembered'
    BY <1>2, ConcludeRefusal DEF Finish, breaker
  <1>3. ASSUME NEW c \in Caller, Acquire(c) PROVE RefusalRemembered'
    BY <1>3, ConcludeRefusal DEF Acquire
  <1>4. ASSUME NEW c \in Caller, Cancel(c) PROVE RefusalRemembered'
    BY <1>4 DEF Cancel, AbandonProbe, Reopen, CloseKeepingReason, breaker
  <1>5. ASSUME NEW c \in Caller, Release(c) PROVE RefusalRemembered'
    BY <1>5 DEF Release, breaker
  <1>6. CASE Reset
    BY <1>6 DEF Reset, Close, CloseKeepingReason
  <1>7. CASE Tick
    BY <1>7 DEF Tick, Older
  <1>8. CASE UNCHANGED vars
    BY <1>8 DEF vars, breaker
  <1> QED BY <1>1, <1>2, <1>3, <1>4, <1>5, <1>6, <1>7, <1>8 DEF Next

\* The inductive invariant.
LEMMA BreakerInvariant == Spec => []BInv
  <1>1. BInv /\ [Next]_vars => BInv'
    BY TypeStep, WedgeStep, RefusalStep DEF BInv
  <1> QED BY <1>1, InitInv, PTL DEF Spec

\* The breaker is type correct for every set of callers, threshold and cooldowns
\* (the fields of CircuitBreaker).
THEOREM BreakerTypeCorrect == Spec => []BTypeOK
  <1>1. BInv => BTypeOK
    BY DEF BInv
  <1> QED BY <1>1, BreakerInvariant, PTL

\* However calls, cancellations, late results and resets interleave, a breaker
\* that refuses calls has a probe in flight or a cooldown running, and its lock a
\* holder that releases it (call(), _abandon_probe()).
THEOREM BreakerNotWedged == Spec => []NotWedged
  <1>1. BInv => NotWedged
    BY DEF BInv
  <1> QED BY <1>1, BreakerInvariant, PTL

\* A billing refusal keeps every call from the provider for the whole quota
\* cooldown unless the breaker is closed in between (call(),
\* _effective_cooldown()).
THEOREM BillingRespected == Spec => BillingPause
  <1>1. BInv /\ [Next]_vars =>
          [\A c \in Caller : pc[c] = "idle" /\ pc'[c] = "running" => refusal = QuotaCooldown]_vars
    <2> SUFFICES ASSUME BInv, [Next]_vars,
                        NEW c \in Caller, pc[c] = "idle", pc'[c] = "running"
                 PROVE  refusal = QuotaCooldown
      OBVIOUS
    <2> USE BreakerAssumption DEF BInv, BTypeOK, Unset
    <2>1. PICK d \in Caller : Enter(d)
      BY DEF Next, Finish, Acquire, Conclude, Recording, Leaving, Cancel, Release, Reset, Tick,
             vars, task
    <2>2. cstate = "CLOSED" \/ Elapsed >= EffectiveCooldown
      BY <2>1 DEF Enter, MayProbe, NotWedged
    <2> QED BY <2>2 DEF RefusalRemembered, Elapsed, EffectiveCooldown
  <1> QED BY <1>1, BreakerInvariant, PTL DEF Spec, BillingPause
===============================================================================
