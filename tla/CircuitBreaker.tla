---------------------------- MODULE CircuitBreaker ----------------------------
(***************************************************************************)
(* The breaker in front of a model provider: infrastructure/               *)
(* circuit_breaker.py.  Its callers are asyncio tasks of one event loop,   *)
(* so a step runs from one suspension to the next.  A call suspends in     *)
(* fn(), on a contended _lock, and, holding the lock, in the telemetry     *)
(* write of a transition; a cancellation may land on each of the three.    *)
(* The uncontended acquire does not suspend.                               *)
(***************************************************************************)
EXTENDS Integers

CONSTANTS
    Caller,         \* tasks that call through the breaker
    Free,           \* _lock is not held
    Threshold,      \* failure_threshold
    Cooldown,       \* cooldown_seconds, in ticks
    QuotaCooldown   \* QUOTA_COOLDOWN_SECONDS, in ticks

ASSUME BreakerAssumption ==
    /\ Free \notin Caller
    /\ Threshold \in Nat \ {0}
    /\ Cooldown \in Nat \ {0}
    /\ QuotaCooldown \in Nat
    /\ Cooldown <= QuotaCooldown

VARIABLES
    cstate,     \* _state
    failures,   \* _failures; counted up to Threshold, the only value compared with
    opened,     \* ticks since _opened_at, counted up to QuotaCooldown; Unset is None
    probing,    \* _probe_in_flight
    hard,       \* _hard_open_reason is set
    lock,       \* holder of _lock across a suspension
    pc,         \* where each task is suspended
    probe,      \* is_probe of its call
    result,     \* how its fn() ended, while it waits for the lock
    refusal     \* history: ticks since the last billing refusal that no closing
                \* of the breaker has answered; QuotaCooldown when there is none

breaker == <<cstate, failures, opened, probing, hard, refusal>>
task == <<lock, pc, probe, result>>
vars == <<breaker, task>>

Unset == -1
Results == {"ok", "trip", "quota", "other"}

BTypeOK ==
    /\ cstate \in {"CLOSED", "OPEN", "HALF_OPEN"}
    /\ failures \in 0..Threshold
    /\ opened \in 0..QuotaCooldown \cup {Unset}
    /\ probing \in BOOLEAN
    /\ hard \in BOOLEAN
    /\ lock \in Caller \cup {Free}
    /\ pc \in [Caller -> {"idle", "running", "waiting", "recording"}]
    /\ probe \in [Caller -> BOOLEAN]
    /\ result \in [Caller -> Results]
    /\ refusal \in 0..QuotaCooldown

Init ==
    /\ cstate = "CLOSED"
    /\ failures = 0
    /\ opened = Unset
    /\ probing = FALSE
    /\ hard = FALSE
    /\ lock = Free
    /\ pc = [c \in Caller |-> "idle"]
    /\ probe = [c \in Caller |-> FALSE]
    /\ result = [c \in Caller |-> "ok"]
    /\ refusal = QuotaCooldown

-------------------------------------------------------------------------------
(* Transitions of the breaker.                                             *)

\* Mutant: a billing refusal waits no longer than a timeout.
EffectiveCooldownShort == Cooldown

EffectiveCooldown == IF hard THEN QuotaCooldown ELSE Cooldown

\* elapsed = now - (self._opened_at or now)
Elapsed == IF opened = Unset THEN 0 ELSE opened

CountFailure == failures' = IF failures < Threshold THEN failures + 1 ELSE failures

\* Back to OPEN with a fresh cooldown; the reason it was hard-open stays.
Reopen ==
    /\ cstate' = "OPEN"
    /\ opened' = 0
    /\ probing' = FALSE
    /\ UNCHANGED <<hard, refusal>>

CloseKeepingReason ==
    /\ cstate' = "CLOSED"
    /\ failures' = 0
    /\ opened' = Unset
    /\ probing' = FALSE
    /\ refusal' = QuotaCooldown

Close == CloseKeepingReason /\ hard' = FALSE

HardOpen ==
    /\ CountFailure
    /\ cstate' = "OPEN"
    /\ opened' = 0
    /\ probing' = FALSE
    /\ hard' = TRUE
    /\ refusal' = 0

\* Mutant: a probe that learned nothing leaves _opened_at as its reset left it.
AbandonProbeUntimed(healthy) ==
    IF healthy
    THEN CloseKeepingReason /\ UNCHANGED hard
    ELSE /\ cstate' = "OPEN"
         /\ probing' = FALSE
         /\ UNCHANGED <<failures, opened, hard, refusal>>

\* Mutant: the cancellation path forgets the probe.
AbandonProbeLeaks(healthy) == UNCHANGED breaker

AbandonProbe(healthy) ==
    IF healthy
    THEN CloseKeepingReason /\ UNCHANGED hard
    ELSE Reopen /\ UNCHANGED failures

-------------------------------------------------------------------------------
(* Steps of a call.                                                        *)

MayProbe ==
    \/ cstate = "OPEN" /\ Elapsed >= EffectiveCooldown
    \/ cstate = "HALF_OPEN" /\ ~probing

\* call() up to await fn().  A caller that is refused leaves everything as it is.
Enter(c) ==
    /\ pc[c] = "idle"
    /\ lock = Free
    /\ \/ /\ MayProbe
          /\ cstate' = "HALF_OPEN"
          /\ probing' = TRUE
          /\ probe' = [probe EXCEPT ![c] = TRUE]
       \/ /\ cstate = "CLOSED"
          /\ UNCHANGED <<cstate, probing, probe>>
    /\ pc' = [pc EXCEPT ![c] = "running"]
    /\ UNCHANGED <<failures, opened, hard, refusal, lock, result>>

\* The task holds the lock while a thread writes the lifecycle event.
Recording(c) == lock' = c /\ pc' = [pc EXCEPT ![c] = "recording"]
Leaving(c) == UNCHANGED lock /\ pc' = [pc EXCEPT ![c] = "idle"]

\* Mutant: a success takes one failure back.
AfterSuccessTakesBack(r) ==
    failures' = IF r = "ok" /\ cstate = "CLOSED" THEN failures - 1 ELSE failures

\* A success of an ordinary call ends the run of consecutive failures.
AfterSuccess(r) == failures' = IF r = "ok" /\ cstate = "CLOSED" THEN 0 ELSE failures

\* What call() does under the lock once fn() ended with r.
Conclude(c, r) ==
    /\ lock = Free
    /\ \/ r = "quota" /\ HardOpen /\ Recording(c)
       \/ r = "trip" /\ probe[c] /\ CountFailure /\ Reopen /\ Recording(c)
       \/ /\ r = "trip" /\ ~probe[c]
          /\ CountFailure
          /\ IF cstate = "CLOSED" /\ failures' >= Threshold
             THEN cstate' = "OPEN" /\ opened' = 0 /\ Recording(c)
             ELSE UNCHANGED <<cstate, opened>> /\ Leaving(c)
          /\ UNCHANGED <<probing, hard, refusal>>
       \/ r \in {"ok", "other"} /\ probe[c] /\ Close /\ Recording(c)
       \/ /\ r \in {"ok", "other"} /\ ~probe[c]
          /\ AfterSuccess(r)
          /\ UNCHANGED <<cstate, opened, probing, hard, refusal>>
          /\ Leaving(c)
    /\ probe' = [probe EXCEPT ![c] = FALSE]
    /\ result' = [result EXCEPT ![c] = "ok"]

\* fn() ends; the outcome is applied at once unless the lock is held.
Finish(c, r) ==
    /\ pc[c] = "running"
    /\ \/ Conclude(c, r)
       \/ /\ lock # Free
          /\ pc' = [pc EXCEPT ![c] = "waiting"]
          /\ result' = [result EXCEPT ![c] = r]
          /\ UNCHANGED <<breaker, lock, probe>>

Acquire(c) == pc[c] = "waiting" /\ Conclude(c, result[c])

\* A cancellation, in fn() or on the lock.  Neither path takes the lock.
Cancel(c) ==
    /\ pc[c] \in {"running", "waiting"}
    /\ IF probe[c]
       THEN AbandonProbe(pc[c] = "waiting" /\ result[c] = "ok")
       ELSE UNCHANGED breaker
    /\ pc' = [pc EXCEPT ![c] = "idle"]
    /\ probe' = [probe EXCEPT ![c] = FALSE]
    /\ result' = [result EXCEPT ![c] = "ok"]
    /\ UNCHANGED lock

\* The event is written, or the wait for it is cancelled: the lock is released.
Release(c) ==
    /\ pc[c] = "recording"
    /\ lock' = Free
    /\ pc' = [pc EXCEPT ![c] = "idle"]
    /\ UNCHANGED <<breaker, probe, result>>

\* The operator's reset() runs without the lock and forgets no call in flight.
Reset == Close /\ UNCHANGED task

Older(t) == IF t < QuotaCooldown THEN t + 1 ELSE t

Tick ==
    /\ opened' = IF opened = Unset THEN Unset ELSE Older(opened)
    /\ refusal' = Older(refusal)
    /\ UNCHANGED <<cstate, failures, probing, hard, task>>

Next ==
    \/ \E c \in Caller : Enter(c)
    \/ \E c \in Caller : \E r \in Results : Finish(c, r)
    \/ \E c \in Caller : Acquire(c)
    \/ \E c \in Caller : Cancel(c)
    \/ \E c \in Caller : Release(c)
    \/ Reset
    \/ Tick

Spec == Init /\ [][Next]_vars

\* The provider client's timeouts end every fn(), telemetry threads end, time
\* passes, and the queue's workers keep calling.  asyncio.Lock serves its waiters
\* in order, so a task that the lock is free for again and again gets it: strong
\* fairness.  Cancellations and resets are never owed.
Fairness ==
    /\ \A c \in Caller : /\ SF_vars(Enter(c))
                         /\ WF_vars(\E r \in Results : Finish(c, r))
                         /\ SF_vars(Acquire(c))
                         /\ WF_vars(Release(c))
    /\ WF_vars(Tick)

LiveSpec == Spec /\ Fairness

-------------------------------------------------------------------------------
(* Properties.                                                             *)

LiveProbe(c) == probe[c] /\ pc[c] \in {"running", "waiting"}

\* A HALF_OPEN breaker, which refuses everybody, has its flag set and a probe in
\* flight that will settle it, an OPEN one has a time at which its cooldown ends,
\* and a lock that is held has a holder that will release it: no cancellation,
\* late result or reset leaves the breaker refusing for ever (call(),
\* _abandon_probe(), _acquire_or_abandon()).
NotWedged ==
    /\ cstate = "HALF_OPEN" => probing /\ \E c \in Caller : LiveProbe(c)
    /\ cstate = "OPEN" => opened # Unset
    /\ lock # Free => pc[lock] = "recording"

\* After a billing refusal the provider gets no call, not even a probe, before
\* QUOTA_COOLDOWN_SECONDS have passed, unless the breaker was closed in between
\* by a probe or by the operator, whatever other calls fail or are cancelled in
\* the meantime (call(), _effective_cooldown()).
BillingPause ==
    [][\A c \in Caller : pc[c] = "idle" /\ pc'[c] = "running" => refusal = QuotaCooldown]_vars

\* An open breaker is probed again and a probe is settled, so a provider that
\* recovers is used again (call(), _abandon_probe()).
KeepsProbing ==
    /\ (cstate = "OPEN") ~> (cstate # "OPEN")
    /\ (cstate = "HALF_OPEN") ~> (cstate # "HALF_OPEN")

\* "only one probe can be in flight by construction" (_abandon_probe()).
SingleProbe == \A c, d \in Caller : LiveProbe(c) /\ LiveProbe(d) => c = d

\* A breaker that a healthy probe closed carries no hard-open reason
\* (_abandon_probe(), state_snapshot()).
ClosedIsClean == cstate = "CLOSED" => ~hard
===============================================================================
