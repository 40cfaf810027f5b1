-------------------------- MODULE EpisodeQueueProofs --------------------------
(***************************************************************************)
(* For any processes, episodes and caps: every claim of an episode is      *)
(* counted, so the caps bound its retries although transient outcomes are  *)
(* refunded.                                                               *)
(***************************************************************************)
EXTENDS EpisodeQueue, TLAPS

\* The row's part of the invariant: a row that is claimed has an attempt to give
\* back, which is what a refund relies on.
CountOK(e) ==
    /\ row[e] \in Row
    /\ row[e].state = "ENRICHING" => row[e].attempts >= 1
    /\ claims[e] \in Nat /\ forgiven[e] \in Nat
    /\ claims[e] = row[e].attempts + row[e].transient + forgiven[e]

CountInv ==
    /\ row \in [Episode -> Row]
    /\ claims \in [Episode -> Nat] /\ forgiven \in [Episode -> Nat]
    /\ \A e \in Episode : CountOK(e)

-------------------------------------------------------------------------------
(* The row queries, field by field.                                        *)

LEMMA ClaimedRow ==
    ASSUME NEW r \in Row, NEW w \in Proc \cup {Nobody, Gone}, NEW n \in Nat
    PROVE  /\ Claimed(r, w, n) \in Row
           /\ Claimed(r, w, n).state = "ENRICHING"
           /\ Claimed(r, w, n).attempts = r.attempts + 1
           /\ Claimed(r, w, n).transient = r.transient
           /\ Claimed(r, w, n).owner = w
           /\ Claimed(r, w, n).instant = n
           /\ Claimed(r, w, n).skipped = r.skipped
<1> DEFINE a == r.attempts + 1
<1>1. a \in Nat  BY DEF Row
<1>2. Claimed(r, w, n) = [r EXCEPT !.state = "ENRICHING", !.attempts = a, !.owner = w,
                          !.instant = n, !.lapsed = FALSE, !.held = FALSE, !.error = "null"]
  BY DEF Claimed, Row
<1> HIDE DEF a
<1>3. Claimed(r, w, n) \in Row  BY <1>1, <1>2 DEF Row, States, Errors
<1>4. /\ Claimed(r, w, n).state = "ENRICHING"
      /\ Claimed(r, w, n).attempts = a
      /\ Claimed(r, w, n).transient = r.transient
      /\ Claimed(r, w, n).owner = w
      /\ Claimed(r, w, n).instant = n
      /\ Claimed(r, w, n).skipped = r.skipped
  BY <1>2 DEF Row
<1> QED  BY <1>3, <1>4 DEF a

\* What a query that ends a claim, or touches a row without one, leaves behind.
Rests(s, t) ==
    /\ s \in Row
    /\ s.state \in t
    /\ s.owner = Nobody

LEMMA ReadyRow ==
    ASSUME NEW r \in Row
    PROVE  /\ Rests(Ready(r), {"READY"})
           /\ Ready(r).attempts = r.attempts
           /\ Ready(r).transient = r.transient
           /\ Ready(r).skipped = r.skipped
BY DEF Ready, Rests, Row, States, Errors

LEMMA SkippedRow ==
    ASSUME NEW r \in Row
    PROVE  /\ Rests(VerbatimSkipped(r), {"READY"})
           /\ VerbatimSkipped(r).attempts = r.attempts
           /\ VerbatimSkipped(r).transient = r.transient
BY DEF VerbatimSkipped, Ready, Rests, Row, States, Errors

LEMMA RefundedRow ==
    ASSUME NEW r \in Row
    PROVE  /\ Refunded(r) \in Row
           /\ r.attempts >= 1 =>
                Refunded(r).attempts + Refunded(r).transient = r.attempts + r.transient
           /\ Refunded(r).skipped = r.skipped
<1> DEFINE t == r.transient + 1
           a == IF r.attempts > 0 THEN r.attempts - 1 ELSE 0
<1>1. /\ t \in Nat /\ a \in Nat
      /\ r.attempts >= 1 => a + t = r.attempts + r.transient
  BY DEF Row
<1>2. Refunded(r) = [r EXCEPT !.transient = t, !.attempts = a]
  BY DEF Refunded, Row
<1> HIDE DEF t, a
<1>3. Refunded(r).attempts = a /\ Refunded(r).transient = t  BY <1>2 DEF Row
<1>4. Refunded(r) \in Row /\ Refunded(r).skipped = r.skipped  BY <1>1, <1>2 DEF Row
<1> QED  BY <1>1, <1>3, <1>4

LEMMA FailedRow ==
    ASSUME NEW r \in Row, NEW err \in Errors
    PROVE  /\ Rests(Failed(r, err), {"FAILED"})
           /\ r.attempts >= 1 =>
                Failed(r, err).attempts + Failed(r, err).transient = r.attempts + r.transient
           /\ Failed(r, err).skipped = r.skipped
<1> DEFINE s == IF err = "retryable" THEN Refunded(r) ELSE r
<1>1. /\ s \in Row
      /\ r.attempts >= 1 => s.attempts + s.transient = r.attempts + r.transient
      /\ s.skipped = r.skipped
  BY RefundedRow
<1>2. Failed(r, err) = [s EXCEPT !.state = "FAILED", !.owner = Nobody, !.lapsed = FALSE,
                                 !.error = err]
  BY DEF Failed
<1> HIDE DEF s
<1> QED  BY <1>1, <1>2 DEF Rests, Row, States, Errors

LEMMA RequeuedRow ==
    ASSUME NEW r \in Row
    PROVE  /\ Rests(Requeued(r), {"PENDING"})
           /\ r.attempts >= 1 =>
                Requeued(r).attempts + Requeued(r).transient = r.attempts + r.transient
           /\ Requeued(r).skipped = r.skipped
<1> DEFINE s == Refunded(r)
<1>1. /\ s \in Row
      /\ r.attempts >= 1 => s.attempts + s.transient = r.attempts + r.transient
      /\ s.skipped = r.skipped
  BY RefundedRow
<1>2. Requeued(r) = [s EXCEPT !.state = "PENDING", !.owner = Nobody, !.lapsed = FALSE,
                              !.error = "null", !.held = TRUE]
  BY DEF Requeued
<1> HIDE DEF s
<1> QED  BY <1>1, <1>2 DEF Rests, Row, States, Errors

LEMMA ResetRow ==
    ASSUME NEW r \in Row
    PROVE  /\ Rests(ResetOrFailed(r), {"PENDING", "FAILED"})
           /\ ResetOrFailed(r).attempts = r.attempts
           /\ ResetOrFailed(r).transient = r.transient
           /\ ResetOrFailed(r).skipped = r.skipped
BY EpisodeAssumption DEF ResetOrFailed, Rests, Row, States, Errors

LEMMA ParkedRow ==
    ASSUME NEW r \in Row
    PROVE  /\ Rests(Parked(r), {"FAILED"})
           /\ Parked(r).attempts = r.attempts
           /\ Parked(r).transient = r.transient
           /\ Parked(r).skipped = r.skipped
BY DEF Parked, Rests, Row, States, Errors

LEMMA ForceResetRow ==
    ASSUME NEW r \in Row
    PROVE  /\ Rests(ForceReset(r), {"PENDING"})
           /\ ForceReset(r).attempts = 0
           /\ ForceReset(r).transient = r.transient
           /\ ForceReset(r).skipped = r.skipped
BY DEF ForceReset, Rests, Row, States, Errors

LEMMA ReenabledRow ==
    ASSUME NEW r \in Row
    PROVE  /\ Rests(Reenabled(r), {"PENDING"})
           /\ Reenabled(r).attempts = 0
           /\ Reenabled(r).transient = r.transient
           /\ Reenabled(r).skipped = FALSE
BY DEF Reenabled, Rests, Row, States, Errors

-------------------------------------------------------------------------------
(* Steps, by what they do to the rows.                                     *)

\* One row is rewritten, with what its claim has used unchanged.
Rewrites(x, r) ==
    /\ row' = [row EXCEPT ![x] = r]
    /\ UNCHANGED <<claims, forgiven>>

LEMMA RewriteKeeps ==
    ASSUME CountInv, NEW x, NEW r, Rewrites(x, r),
           x \in Episode => /\ r \in Row
                            /\ r.state = "ENRICHING" => r.attempts >= 1
                            /\ r.attempts + r.transient = row[x].attempts + row[x].transient
    PROVE  CountInv'
<1>1. row' \in [Episode -> Row]  BY DEF CountInv, Rewrites
<1>2. ASSUME NEW e \in Episode PROVE CountOK(e)'
  <2>1. CountOK(e)  BY DEF CountInv
  <2>2. UNCHANGED <<claims, forgiven>>  BY DEF Rewrites
  <2>3. CASE e = x
    <3>1. row'[e] = r  BY <2>3 DEF Rewrites, CountInv
    <3>2. r.attempts + r.transient = row[e].attempts + row[e].transient  BY <2>3
    <3>3. claims'[e] = r.attempts + r.transient + forgiven[e]
      BY <2>1, <2>2, <3>2 DEF CountOK, Row
    <3> QED  BY <2>1, <2>2, <2>3, <3>1, <3>3 DEF CountOK
  <2>4. CASE e # x
    <3>1. row'[e] = row[e]  BY <2>4 DEF Rewrites, CountInv
    <3> QED  BY <2>1, <2>2, <3>1 DEF CountOK
  <2> QED  BY <2>3, <2>4
<1>3. claims' \in [Episode -> Nat] /\ forgiven' \in [Episode -> Nat]
  BY DEF CountInv, Rewrites
<1> QED  BY <1>1, <1>2, <1>3 DEF CountInv

LEMMA UntouchedKeeps == CountInv /\ UNCHANGED <<row, claims, forgiven>> => CountInv'
BY DEF CountInv, CountOK

\* A fenced write lands only on a row that is claimed.
LEMMA FencedKeeps ==
    ASSUME CountInv, NEW p, NEW r, Fenced(p, r), UNCHANGED <<claims, forgiven>>,
           job[p] \in Episode /\ row[job[p]].attempts >= 1 =>
                /\ r \in Row /\ r.state # "ENRICHING"
                /\ r.attempts + r.transient = row[job[p]].attempts + row[job[p]].transient
    PROVE  CountInv'
<1>1. CASE Owns(p)
  <2>1. Rewrites(job[p], r)  BY <1>1 DEF Fenced, Rewrites
  <2>2. job[p] \in Episode => row[job[p]].attempts >= 1
    BY <1>1 DEF Owns, HeldBy, CountInv, CountOK
  <2> QED  BY <2>1, <2>2, RewriteKeeps
<1>2. CASE ~Owns(p)
  BY <1>2, UntouchedKeeps DEF Fenced
<1> QED  BY <1>1, <1>2

\* One query rewrites some rows and leaves what was counted in them.
LEMMA SetKeeps ==
    ASSUME CountInv, UNCHANGED <<claims, forgiven>>, row' \in [Episode -> Row],
           \A e \in Episode : /\ row'[e].state = "ENRICHING" => row[e].state = "ENRICHING"
                              /\ row'[e].attempts = row[e].attempts
                              /\ row'[e].transient = row[e].transient
    PROVE  CountInv'
<1>1. ASSUME NEW e \in Episode PROVE CountOK(e)'
  <2>1. CountOK(e)  BY DEF CountInv
  <2> QED  BY <2>1 DEF CountOK
<1>2. claims' \in [Episode -> Nat] /\ forgiven' \in [Episode -> Nat]  BY DEF CountInv
<1> QED  BY <1>1, <1>2 DEF CountInv

\* What an attempt may write: each outcome gives back at most what the claim took.
LEMMA OutcomeKeeps ==
    ASSUME CountInv, NEW p, UNCHANGED <<claims, forgiven>>,
           \/ Fenced(p, Ready(row[job[p]]))
           \/ Fenced(p, VerbatimSkipped(row[job[p]]))
           \/ Fenced(p, Requeued(row[job[p]]))
           \/ \E err \in Errors : Fenced(p, Failed(row[job[p]], err))
    PROVE  CountInv'
<1>1. job[p] \in Episode => row[job[p]] \in Row  BY DEF CountInv
<1>2. CASE Fenced(p, Ready(row[job[p]]))
  BY <1>1, <1>2, FencedKeeps, ReadyRow DEF Rests
<1>3. CASE Fenced(p, VerbatimSkipped(row[job[p]]))
  BY <1>1, <1>3, FencedKeeps, SkippedRow DEF Rests
<1>4. CASE Fenced(p, Requeued(row[job[p]]))
  BY <1>1, <1>4, FencedKeeps, RequeuedRow DEF Rests
<1>5. ASSUME NEW err \in Errors, Fenced(p, Failed(row[job[p]], err)) PROVE CountInv'
  BY <1>1, <1>5, FencedKeeps, FailedRow DEF Rests
<1> QED  BY <1>2, <1>3, <1>4, <1>5

\* A claim is counted in the row that it takes.
LEMMA ClaimKeeps ==
    ASSUME CountInv, NEW x, NEW y \in Proc \cup {Gone},
           claims' = [claims EXCEPT ![x] = @ + 1],
           row' = [row EXCEPT ![x] = Claimed(@, y, claims[x] + 1)],
           UNCHANGED forgiven
    PROVE  CountInv'
<1>1. CASE x \in Episode
  <2>1. CountOK(x) /\ row[x] \in Row /\ claims[x] \in Nat
    BY <1>1 DEF CountInv
  <2>2. PICK m \in Nat : m = claims[x] + 1  BY <2>1
  <2>3. PICK o \in Row : o = row[x]  BY <2>1
  <2>4. PICK z \in Proc \cup {Nobody, Gone} : z = y  OBVIOUS
  <2>5. PICK c : c = Claimed(o, z, m)  OBVIOUS
  <2>6. c \in Row /\ c.attempts = o.attempts + 1 /\ c.transient = o.transient
    BY <2>5, ClaimedRow
  <2>7. row' = [row EXCEPT ![x] = c]  BY <2>2, <2>3, <2>4, <2>5
  <2>8. /\ row' \in [Episode -> Row] /\ row'[x] = c
        /\ claims' \in [Episode -> Nat] /\ claims'[x] = claims[x] + 1
        /\ \A e \in Episode : e # x => row'[e] = row[e] /\ claims'[e] = claims[e]
    BY <1>1, <2>1, <2>6, <2>7 DEF CountInv
  <2>9. CountOK(x)'
    BY <2>1, <2>3, <2>6, <2>8 DEF CountOK, Row
  <2>10. \A e \in Episode : e # x => CountOK(e)'
    BY <2>8 DEF CountOK, CountInv
  <2> QED  BY <2>8, <2>9, <2>10 DEF CountInv
<1>2. CASE x \notin Episode
  <2>1. UNCHANGED <<row, claims, forgiven>>  BY <1>2 DEF CountInv
  <2> QED  BY <2>1, UntouchedKeeps
<1> QED  BY <1>1, <1>2

\* An explicit reset moves the attempts to what is forgiven.
LEMMA ForgiveKeeps ==
    ASSUME CountInv, UNCHANGED claims, row' \in [Episode -> Row],
           forgiven' \in [Episode -> Nat],
           \A e \in Episode :
              \/ row'[e] = row[e] /\ forgiven'[e] = forgiven[e]
              \/ /\ forgiven'[e] = forgiven[e] + row[e].attempts
                 /\ row'[e].attempts = 0 /\ row'[e].transient = row[e].transient
                 /\ row'[e].state # "ENRICHING"
    PROVE  CountInv'
<1>1. ASSUME NEW e \in Episode PROVE CountOK(e)'
  <2>1. CountOK(e) /\ row[e].attempts \in Nat /\ row[e].transient \in Nat
    BY DEF CountInv, CountOK, Row
  <2>2. CASE row'[e] = row[e] /\ forgiven'[e] = forgiven[e]  BY <2>1, <2>2 DEF CountOK
  <2>3. CASE /\ forgiven'[e] = forgiven[e] + row[e].attempts
             /\ row'[e].attempts = 0 /\ row'[e].transient = row[e].transient
             /\ row'[e].state # "ENRICHING"
    <3>1. claims'[e] = 0 + row[e].transient + (forgiven[e] + row[e].attempts)
      BY <2>1 DEF CountOK
    <3> QED  BY <2>1, <2>3, <3>1 DEF CountOK
  <2> QED  BY <2>2, <2>3
<1>2. claims' \in [Episode -> Nat]  BY DEF CountInv
<1> QED  BY <1>1, <1>2 DEF CountInv

\* reenable_verbatim_skips forgives the attempts of the rows it matches.
LEMMA ReenableKeeps ==
    ASSUME CountInv, NEW S, Reenable(S), UNCHANGED claims
    PROVE  CountInv'
<1>1. \A e \in Episode : row[e] \in Row /\ row[e].attempts \in Nat /\ forgiven[e] \in Nat
  BY DEF CountInv, CountOK, Row
<1>2. \A e \in Episode : /\ Reenabled(row[e]) \in Row /\ Reenabled(row[e]).state # "ENRICHING"
                         /\ Reenabled(row[e]).attempts = 0
                         /\ Reenabled(row[e]).transient = row[e].transient
  BY <1>1, ReenabledRow DEF Rests
<1>3. row' \in [Episode -> Row]  BY <1>1, <1>2 DEF Reenable
<1>4. forgiven' \in [Episode -> Nat]  BY <1>1 DEF Reenable
<1>5. \A e \in Episode :
        \/ row'[e] = row[e] /\ forgiven'[e] = forgiven[e]
        \/ /\ forgiven'[e] = forgiven[e] + row[e].attempts
           /\ row'[e].attempts = 0 /\ row'[e].transient = row[e].transient
           /\ row'[e].state # "ENRICHING"
  BY <1>2 DEF Reenable
<1> QED  BY <1>3, <1>4, <1>5, ForgiveKeeps

-------------------------------------------------------------------------------
(* The steps of Next.                                                      *)

LEMMA AttemptCounts ==
    ASSUME CountInv, NEW p \in Proc, AttemptStep(p)
    PROVE  CountInv'
<1> USE DEF AttemptFrame
<1>1. CASE ClaimPendingEpisode(p)
  BY <1>1, ClaimKeeps, UntouchedKeeps DEF ClaimPendingEpisode, ClaimRefused
<1>2. CASE FinishStoreOnly(p)  BY <1>2, OutcomeKeeps DEF FinishStoreOnly
<1>3. CASE TryReconcileExisting(p)
  BY <1>3, OutcomeKeeps, UntouchedKeeps DEF TryReconcileExisting
<1>4. CASE PreflightRejection(p)  BY <1>4, OutcomeKeeps DEF PreflightRejection, Errors
<1>5. CASE TransientRequeue(p)  BY <1>5, OutcomeKeeps DEF TransientRequeue
<1>6. CASE TryVerbatimSkip(p)  BY <1>6, OutcomeKeeps DEF TryVerbatimSkip
<1>7. CASE DispatchExtraction(p)  BY <1>7, UntouchedKeeps DEF DispatchExtraction
<1>8. CASE Publish(p)  BY <1>8, UntouchedKeeps DEF Publish
<1>9. CASE ZeroExtraction(p)  BY <1>9, OutcomeKeeps DEF ZeroExtraction
<1>10. CASE StampAndFinalize(p)  BY <1>10, OutcomeKeeps DEF StampAndFinalize
<1>11. CASE HandleFailure(p)  BY <1>11, OutcomeKeeps DEF HandleFailure
<1>12. CASE AttemptLost(p)  BY <1>12, UntouchedKeeps DEF AttemptLost
<1>13. CASE ReenableSkipsForProjection(p)
  BY <1>13, ReenableKeeps DEF ReenableSkipsForProjection
<1> QED  BY <1>1, <1>2, <1>3, <1>4, <1>5, <1>6, <1>7, <1>8, <1>9, <1>10, <1>11, <1>12, <1>13
         DEF AttemptStep

LEMMA QueueCounts ==
    ASSUME CountInv, NEW p \in Proc, QueueStep(p)
    PROVE  CountInv'
<1>1. CASE Heartbeat(p)
  <2> DEFINE x == job[p]
             r == [row[x] EXCEPT !.lapsed = FALSE]
  <2>1. Rewrites(x, r)
    BY <1>1 DEF Heartbeat, Rewrites, RowFrame
  <2>2. x \in Episode => CountOK(x)  BY DEF CountInv
  <2>3. x \in Episode => /\ r \in Row /\ r.state = row[x].state
                         /\ r.attempts = row[x].attempts /\ r.transient = row[x].transient
    BY <2>2 DEF CountOK, Row
  <2>4. x \in Episode => /\ r \in Row
                         /\ r.state = "ENRICHING" => r.attempts >= 1
                         /\ r.attempts + r.transient = row[x].attempts + row[x].transient
    BY <2>2, <2>3 DEF CountOK
  <2> HIDE DEF r, x
  <2> QED  BY <2>1, <2>4, RewriteKeeps
<1>2. CASE ~Heartbeat(p)
  BY <1>2, UntouchedKeeps DEF QueueStep, Take, ListPending, EnqueueListed, RetryScan,
                              RequeueFailed, ProcFrame, history
<1> QED  BY <1>1, <1>2

LEMMA RowCounts ==
    ASSUME CountInv, NEW e \in Episode, RowStep(e)
    PROVE  CountInv'
<1>1. CountOK(e)  BY DEF CountInv
<1>2. CASE LeaseLapses(e)
  <2> DEFINE r == [row[e] EXCEPT !.lapsed = TRUE]
  <2>1. Rewrites(e, r)  BY <1>2 DEF LeaseLapses, Rewrites, RowFrame
  <2>2. /\ r \in Row /\ r.state = row[e].state
        /\ r.attempts = row[e].attempts /\ r.transient = row[e].transient
    BY <1>1 DEF CountOK, Row
  <2> HIDE DEF r
  <2> QED  BY <1>1, <2>1, <2>2, RewriteKeeps DEF CountOK
<1>3. CASE HoldEnds(e)
  <2> DEFINE r == [row[e] EXCEPT !.held = FALSE]
  <2>1. Rewrites(e, r)  BY <1>3 DEF HoldEnds, Rewrites, RowFrame
  <2>2. /\ r \in Row /\ r.state = row[e].state
        /\ r.attempts = row[e].attempts /\ r.transient = row[e].transient
    BY <1>1 DEF CountOK, Row
  <2> HIDE DEF r
  <2> QED  BY <1>1, <2>1, <2>2, RewriteKeeps DEF CountOK
<1>4. CASE ReconcileFailed(e)
  <2>1. Rewrites(e, Ready(row[e]))  BY <1>4 DEF ReconcileFailed, Rewrites, RowFrame
  <2> QED  BY <1>1, <2>1, ReadyRow, RewriteKeeps DEF CountOK, Rests
<1> QED  BY <1>2, <1>3, <1>4 DEF RowStep

\* A claim that is taken away stays counted.
LEMMA ResetKeeps ==
    ASSUME CountInv, NEW S, UNCHANGED <<claims, forgiven>>,
           row' = [e \in Episode |-> IF e \in S THEN ResetOrFailed(row[e]) ELSE row[e]]
    PROVE  CountInv'
<1>1. \A e \in Episode : row[e] \in Row  BY DEF CountInv
<1>2. \A e \in Episode : /\ ResetOrFailed(row[e]) \in Row
                         /\ ResetOrFailed(row[e]).state # "ENRICHING"
                         /\ ResetOrFailed(row[e]).attempts = row[e].attempts
                         /\ ResetOrFailed(row[e]).transient = row[e].transient
  BY <1>1, ResetRow DEF Rests
<1>3. row' \in [Episode -> Row]  BY <1>1, <1>2
<1>4. \A e \in Episode : /\ row'[e].state = "ENRICHING" => row[e].state = "ENRICHING"
                         /\ row'[e].attempts = row[e].attempts
                         /\ row'[e].transient = row[e].transient
  BY <1>2
<1> QED  BY <1>3, <1>4, SetKeeps

LEMMA SweepCounts ==
    ASSUME CountInv, Sweep
    PROVE  CountInv'
<1>1. \A e \in Episode : row[e] \in Row  BY DEF CountInv
<1>2. CASE ResetStale
  BY <1>2, ResetKeeps DEF ResetStale, Release, RowFrame
<1>3. ASSUME NEW S, Park(S) PROVE CountInv'
  <2>1. \A e \in Episode : /\ Parked(row[e]) \in Row /\ Parked(row[e]).state # "ENRICHING"
                           /\ Parked(row[e]).attempts = row[e].attempts
                           /\ Parked(row[e]).transient = row[e].transient
    BY <1>1, ParkedRow DEF Rests
  <2>2. row' = [e \in Episode |-> IF e \in S THEN Parked(row[e]) ELSE row[e]]
    BY <1>3 DEF Park
  <2>3. row' \in [Episode -> Row]  BY <1>1, <2>1, <2>2
  <2>4. \A e \in Episode : /\ row'[e].state = "ENRICHING" => row[e].state = "ENRICHING"
                           /\ row'[e].attempts = row[e].attempts
                           /\ row'[e].transient = row[e].transient
    BY <2>1, <2>2
  <2> QED  BY <1>3, <2>3, <2>4, SetKeeps DEF Park, RowFrame
<1>4. CASE ReenableVerbatimSkips
  BY <1>4, ReenableKeeps DEF ReenableVerbatimSkips, RowFrame
<1> QED  BY <1>2, <1>3, <1>4 DEF Sweep, FailExhaustedPending, FailTransientExhaustedPending

LEMMA OperatorCounts ==
    ASSUME CountInv, OperatorStep
    PROVE  CountInv'
<1>1. ASSUME NEW e \in Episode, ForceResetFailed(e) PROVE CountInv'
  <2>1. row[e] \in Row /\ row[e].attempts \in Nat  BY DEF CountInv, Row
  <2>2. /\ ForceReset(row[e]) \in Row /\ ForceReset(row[e]).state # "ENRICHING"
        /\ ForceReset(row[e]).attempts = 0
        /\ ForceReset(row[e]).transient = row[e].transient
    BY <2>1, ForceResetRow DEF Rests
  <2>3. /\ row' = [row EXCEPT ![e] = ForceReset(row[e])]
        /\ forgiven' = [forgiven EXCEPT ![e] = forgiven[e] + row[e].attempts]
        /\ UNCHANGED claims
    BY <1>1 DEF ForceResetFailed
  <2>4. row' \in [Episode -> Row]  BY <2>2, <2>3 DEF CountInv
  <2>5. forgiven' \in [Episode -> Nat]  BY <2>1, <2>3 DEF CountInv
  <2>6. \A x \in Episode :
          \/ row'[x] = row[x] /\ forgiven'[x] = forgiven[x]
          \/ /\ forgiven'[x] = forgiven[x] + row[x].attempts
             /\ row'[x].attempts = 0 /\ row'[x].transient = row[x].transient
             /\ row'[x].state # "ENRICHING"
    BY <2>2, <2>3 DEF CountInv
  <2> QED  BY <2>3, <2>4, <2>5, <2>6, ForgiveKeeps
<1>2. ASSUME NEW e \in Episode, ForceReleaseLease(e) PROVE CountInv'
  BY <1>2, ResetKeeps DEF ForceReleaseLease, Release
<1>3. ASSUME NEW p \in Proc, NEW e \in Episode, EnqueuePending(p, e) PROVE CountInv'
  BY <1>3, UntouchedKeeps DEF EnqueuePending, history
<1>4. ASSUME NEW p \in Proc, NEW e \in Episode, QueueEpisode(p, e) PROVE CountInv'
  <2>1. PICK keep \in BOOLEAN :
          row' = [row EXCEPT ![e].state = "PENDING", ![e].storeOnly = keep]
    BY <1>4 DEF QueueEpisode
  <2> DEFINE r == [row[e] EXCEPT !.state = "PENDING", !.storeOnly = keep]
  <2>2. Rewrites(e, r)  BY <1>4, <2>1 DEF QueueEpisode, Rewrites, history, CountInv
  <2>3. CountOK(e)  BY DEF CountInv
  <2>4. /\ r \in Row /\ r.state = "PENDING"
        /\ r.attempts = row[e].attempts /\ r.transient = row[e].transient
    BY <2>3 DEF CountOK, Row, States
  <2> HIDE DEF r
  <2> QED  BY <2>2, <2>4, RewriteKeeps
<1> QED  BY <1>1, <1>2, <1>3, <1>4 DEF OperatorStep

\* A process that dies leaves its claims behind, counted.
LEMMA LifeCounts ==
    ASSUME CountInv, NEW p \in Proc,
           Crash(p) \/ Shutdown(p) \/ LateClaim(p) \/ Restart(p)
    PROVE  CountInv'
<1>1. CASE Crash(p)
  <2>1. \A e \in Episode : row[e] \in Row  BY DEF CountInv
  <2>2. row' = [e \in Episode |->
                  IF e \in Owned(p) THEN [row[e] EXCEPT !.owner = Gone] ELSE row[e]]
    BY <1>1 DEF Crash
  <2>3. ASSUME NEW e \in Episode
        PROVE  /\ row'[e] \in Row /\ row'[e].state = row[e].state
               /\ row'[e].attempts = row[e].attempts /\ row'[e].transient = row[e].transient
    BY <2>1, <2>2 DEF Row
  <2>4. row' \in [Episode -> Row]  BY <2>2, <2>3
  <2>5. UNCHANGED <<claims, forgiven>>  BY <1>1 DEF Crash, history
  <2> QED  BY <2>3, <2>4, <2>5, SetKeeps
<1>2. CASE Shutdown(p)  BY <1>2, ResetKeeps DEF Shutdown, history
<1>3. CASE LateClaim(p)  BY <1>3, ClaimKeeps, UntouchedKeeps DEF LateClaim
<1>4. CASE Restart(p)  BY <1>4, UntouchedKeeps DEF Restart, history
<1> QED  BY <1>1, <1>2, <1>3, <1>4

LEMMA CountStep == CountInv /\ [Next]_vars => CountInv'
<1> SUFFICES ASSUME CountInv, [Next]_vars PROVE CountInv'  OBVIOUS
<1>1. CASE UNCHANGED vars  BY <1>1, UntouchedKeeps DEF vars, history
<1>2. CASE Next
  BY <1>2, AttemptCounts, QueueCounts, LifeCounts, RowCounts, SweepCounts, OperatorCounts
     DEF Next
<1> QED  BY <1>1, <1>2

\* Every claim stays counted through every query that can touch a row.
THEOREM ClaimsAreCounted == Spec => []EveryClaimCounted
<1>1. Init => CountInv
  <2> SUFFICES ASSUME Init PROVE CountInv  OBVIOUS
  <2>1. NoRow \in Row /\ NoRow.state = "none" /\ NoRow.attempts = 0 /\ NoRow.transient = 0
    BY DEF NoRow, Row, States, Errors
  <2> QED  BY <2>1 DEF Init, CountInv, CountOK
<1>2. CountInv => EveryClaimCounted  BY DEF CountInv, CountOK, EveryClaimCounted
<1> QED  BY <1>1, <1>2, CountStep, PTL DEF Spec

===============================================================================
