-------------------------- MODULE EpisodeClaimProofs --------------------------
(***************************************************************************)
(* For any processes, episodes and caps: the worker loops keep their sets  *)
(* exact, every row behaves like a job of EpisodeJobs, and a text is       *)
(* extracted twice only if a claim was taken from an attempt that ran.     *)
(***************************************************************************)
EXTENDS EpisodeQueueProofs

-------------------------------------------------------------------------------
(* The memory of a process.                                                *)

ProcType ==
    /\ up \in [Proc -> BOOLEAN]
    /\ queued \in [Proc -> SUBSET Episode]
    /\ dedup \in [Proc -> SUBSET Episode]
    /\ pc \in [Proc -> {"idle", "claiming", "reenabling"} \cup Working]
    /\ job \in [Proc -> Episode \cup {NoEpisode}]
    /\ token \in [Proc -> Nat]
    /\ listed \in [Proc -> SUBSET Episode]
    /\ retry \in [Proc -> SUBSET Episode]

\* A loop has a job whenever it is not idle.  A process that is down has lost its
\* queues; all that may be left of it is a claim query in its thread.
ProcOK(p) ==
    /\ pc[p] = "idle" <=> job[p] = NoEpisode
    /\ up[p] => dedup[p] = queued[p] \cup Busy(p) /\ queued[p] \cap Busy(p) = {}
    /\ ~up[p] => /\ pc[p] \in {"idle", "claiming"}
                 /\ queued[p] = {} /\ dedup[p] = {} /\ listed[p] = {} /\ retry[p] = {}

ProcInv == ProcType /\ \A p \in Proc : ProcOK(p)

LEMMA ProcKept == ProcInv /\ UNCHANGED proc => ProcInv'
BY DEF ProcInv, ProcType, ProcOK, Busy, proc

\* The loop's finally.
LEMMA DiscardKeeps ==
    ASSUME ProcInv, NEW p \in Proc, up[p], pc[p] # "idle", Discard(p),
           UNCHANGED <<up, queued, retry>>,
           listed' \in [Proc -> SUBSET Episode],
           \A q \in Proc \ {p} : listed'[q] = listed[q]
    PROVE  ProcInv'
<1>1. ProcType'  BY EpisodeAssumption DEF ProcInv, ProcType, Discard
<1>2. ASSUME NEW q \in Proc, q # p PROVE ProcOK(q)'
  BY <1>2 DEF ProcInv, ProcType, ProcOK, Busy, Discard
<1>3. ProcOK(p)'
  BY DEF ProcInv, ProcType, ProcOK, Busy, Discard
<1> QED  BY <1>1, <1>2, <1>3 DEF ProcInv

\* The loop goes on with its job.
LEMMA GotoKeeps ==
    ASSUME ProcInv, NEW p \in Proc, up[p], pc[p] # "idle",
           NEW l \in Working \cup {"reenabling"}, Goto(p, l),
           UNCHANGED <<up, queued, listed, retry>>
    PROVE  ProcInv'
<1>1. ProcType'  BY DEF ProcInv, ProcType, Goto
<1>2. ASSUME NEW q \in Proc, q # p PROVE ProcOK(q)'
  BY <1>2 DEF ProcInv, ProcType, ProcOK, Busy, Goto
<1>3. ProcOK(p)'
  BY DEF ProcInv, ProcType, ProcOK, Busy, Goto, Working
<1> QED  BY <1>1, <1>2, <1>3 DEF ProcInv

\* A uuid is queued, unless it is queued or being processed already.
LEMMA EnqueueKeeps ==
    ASSUME ProcInv, NEW p \in Proc, up[p], NEW e \in Episode, Enqueue(p, e),
           UNCHANGED <<up, pc, job, token>>,
           listed' \in [Proc -> SUBSET Episode], retry' \in [Proc -> SUBSET Episode],
           \A q \in Proc \ {p} : listed'[q] = listed[q] /\ retry'[q] = retry[q]
    PROVE  ProcInv'
<1>1. ProcType'  BY DEF ProcInv, ProcType, Enqueue
<1>2. ASSUME NEW q \in Proc, q # p PROVE ProcOK(q)'
  BY <1>2 DEF ProcInv, ProcType, ProcOK, Busy, Enqueue
<1>3. ProcOK(p)'
  BY DEF ProcInv, ProcType, ProcOK, Busy, Enqueue
<1> QED  BY <1>1, <1>2, <1>3 DEF ProcInv

LEMMA AttemptProc ==
    ASSUME ProcInv, CountInv, NEW p \in Proc, AttemptStep(p)
    PROVE  ProcInv'
<1> USE DEF AttemptFrame
<1>1. pc[p] \in Working \cup {"reenabling"} => up[p] /\ pc[p] # "idle"
  BY DEF ProcInv, ProcOK, Working
<1>2. listed \in [Proc -> SUBSET Episode]  BY DEF ProcInv, ProcType
<1>3. ASSUME pc[p] \in Working, Discard(p), UNCHANGED <<up, queued, retry, listed>>
      PROVE  ProcInv'
  BY <1>1, <1>2, <1>3, DiscardKeeps
<1>4. CASE ClaimPendingEpisode(p)
  <2>1. up[p] /\ pc[p] = "claiming" /\ UNCHANGED <<up, queued, listed, retry>>
    BY <1>4 DEF ClaimPendingEpisode
  <2>2. CASE ClaimRefused(p)
    BY <1>2, <2>1, <2>2, DiscardKeeps DEF ClaimRefused
  <2>3. CASE /\ token' = [token EXCEPT ![p] = claims[job[p]] + 1]
             /\ pc' = [pc EXCEPT ![p] = "claimed"]
             /\ UNCHANGED <<dedup, job>>
    <3>1. job[p] \in Episode
      BY <2>1 DEF ProcInv, ProcType, ProcOK
    <3>2. PICK n \in Nat : n = claims[job[p]] + 1
      BY <3>1 DEF CountInv
    <3>3. ProcType'
      BY <2>1, <2>3, <3>2 DEF ProcInv, ProcType, Working
    <3>4. ASSUME NEW q \in Proc, q # p PROVE ProcOK(q)'
      BY <2>1, <2>3, <3>4 DEF ProcInv, ProcType, ProcOK, Busy
    <3>5. ProcOK(p)'
      BY <2>1, <2>3 DEF ProcInv, ProcType, ProcOK, Busy
    <3> QED  BY <3>3, <3>4, <3>5 DEF ProcInv
  <2> QED  BY <1>4, <2>2, <2>3 DEF ClaimPendingEpisode
<1>5. CASE FinishStoreOnly(p)  BY <1>3, <1>5 DEF FinishStoreOnly, Working
<1>6. CASE TryReconcileExisting(p)
  BY <1>1, <1>3, <1>6, GotoKeeps DEF TryReconcileExisting, Working
<1>7. CASE PreflightRejection(p)  BY <1>3, <1>7 DEF PreflightRejection, Working
<1>8. CASE TransientRequeue(p)  BY <1>3, <1>8 DEF TransientRequeue, Working
<1>9. CASE TryVerbatimSkip(p)  BY <1>3, <1>9 DEF TryVerbatimSkip, Working
<1>10. CASE DispatchExtraction(p)  BY <1>1, <1>10, GotoKeeps DEF DispatchExtraction, Working
<1>11. CASE Publish(p)  BY <1>1, <1>11, GotoKeeps DEF Publish, Working
<1>12. CASE ZeroExtraction(p)  BY <1>3, <1>12 DEF ZeroExtraction, Working
<1>13. CASE StampAndFinalize(p)  BY <1>3, <1>13 DEF StampAndFinalize, Working
<1>14. CASE HandleFailure(p)  BY <1>1, <1>3, <1>14, GotoKeeps DEF HandleFailure
<1>15. CASE AttemptLost(p)  BY <1>3, <1>15 DEF AttemptLost
<1>16. CASE ReenableSkipsForProjection(p)
  <2> DEFINE S == {c \in Stranded : Projection[c] = job[p]}
  <2>1. S \in SUBSET Episode  BY DEF Stranded
  <2>2. /\ listed' = [listed EXCEPT ![p] = @ \cup S]
        /\ Discard(p) /\ UNCHANGED <<up, queued, retry>> /\ pc[p] = "reenabling"
    BY <1>16 DEF ReenableSkipsForProjection
  <2> HIDE DEF S
  <2>3. /\ listed' \in [Proc -> SUBSET Episode]
        /\ \A q \in Proc \ {p} : listed'[q] = listed[q]
    BY <1>2, <2>1, <2>2
  <2> QED  BY <1>1, <2>2, <2>3, DiscardKeeps
<1> QED  BY <1>4, <1>5, <1>6, <1>7, <1>8, <1>9, <1>10, <1>11, <1>12, <1>13, <1>14, <1>15, <1>16
         DEF AttemptStep

LEMMA QueueProc ==
    ASSUME ProcInv, NEW p \in Proc, QueueStep(p)
    PROVE  ProcInv'
<1>1. listed[p] # {} \/ retry[p] # {} => up[p]  BY DEF ProcInv, ProcOK
<1>2. /\ listed \in [Proc -> SUBSET Episode] /\ retry \in [Proc -> SUBSET Episode]
      /\ queued \in [Proc -> SUBSET Episode]
  BY DEF ProcInv, ProcType
<1>3. CASE Take(p)
  <2>1. PICK e \in queued[p] : /\ queued' = [queued EXCEPT ![p] = @ \ {e}]
                               /\ job' = [job EXCEPT ![p] = e]
    BY <1>3 DEF Take
  <2>2. e \in Episode  BY <1>2
  <2>3. /\ up[p] /\ pc[p] = "idle" /\ pc' = [pc EXCEPT ![p] = "claiming"]
        /\ UNCHANGED <<up, dedup, token, listed, retry>>
    BY <1>3 DEF Take
  <2>4. ProcType'  BY <2>1, <2>2, <2>3 DEF ProcInv, ProcType
  <2>5. ASSUME NEW q \in Proc, q # p PROVE ProcOK(q)'
    BY <2>1, <2>3, <2>5 DEF ProcInv, ProcType, ProcOK, Busy
  <2>6. ProcOK(p)'
    BY EpisodeAssumption, <2>1, <2>2, <2>3 DEF ProcInv, ProcType, ProcOK, Busy
  <2> QED  BY <2>4, <2>5, <2>6 DEF ProcInv
<1>4. CASE ListPending(p)
  <2>1. Listable \in SUBSET Episode  BY DEF Listable
  <2> QED  BY <1>4, <2>1 DEF ListPending, ProcFrame, ProcInv, ProcType, ProcOK, Busy
<1>5. CASE EnqueueListed(p)
  <2>1. PICK e \in listed[p] : Enqueue(p, e) /\ listed' = [listed EXCEPT ![p] = @ \ {e}]
    BY <1>5 DEF EnqueueListed
  <2>2. e \in Episode /\ up[p]  BY <1>1, <1>2
  <2>3. UNCHANGED <<up, pc, job, token, retry>>  BY <1>5 DEF EnqueueListed, ProcFrame
  <2>4. listed' \in [Proc -> SUBSET Episode]  BY <1>2, <2>1
  <2>5. \A q \in Proc \ {p} : listed'[q] = listed[q] /\ retry'[q] = retry[q]
    BY <1>2, <2>1, <2>3
  <2> QED  BY <1>2, <2>1, <2>2, <2>3, <2>4, <2>5, EnqueueKeeps
<1>6. CASE RetryScan(p)
  <2> DEFINE S == {e \in Episode : WorthRetrying(row[e])}
  <2>1. up[p] /\ retry' = [retry EXCEPT ![p] = @ \cup S] /\ S \in SUBSET Episode
    BY <1>6 DEF RetryScan
  <2>2. UNCHANGED <<up, pc, job, token, queued, dedup, listed>>
    BY <1>6 DEF RetryScan, ProcFrame
  <2> HIDE DEF S
  <2> QED  BY <2>1, <2>2 DEF ProcInv, ProcType, ProcOK, Busy
<1>7. CASE RequeueFailed(p)
  <2>1. PICK e \in retry[p] :
            /\ retry' = [retry EXCEPT ![p] = @ \ {e}]
            /\ IF row[e].state = "FAILED" THEN Enqueue(p, e) ELSE UNCHANGED <<queued, dedup>>
    BY <1>7 DEF RequeueFailed
  <2>2. e \in Episode /\ up[p]  BY <1>1, <1>2
  <2>3. UNCHANGED <<up, pc, job, token, listed>>  BY <1>7 DEF RequeueFailed, ProcFrame
  <2>4. retry' \in [Proc -> SUBSET Episode]  BY <1>2, <2>1
  <2>5. \A q \in Proc \ {p} : listed'[q] = listed[q] /\ retry'[q] = retry[q]
    BY <1>2, <2>1, <2>3
  <2>6. CASE Enqueue(p, e)
    BY <1>2, <2>2, <2>3, <2>4, <2>5, <2>6, EnqueueKeeps
  <2>7. CASE UNCHANGED <<queued, dedup>>
    BY <2>2, <2>3, <2>4, <2>5, <2>7 DEF ProcInv, ProcType, ProcOK, Busy
  <2> QED  BY <2>1, <2>6, <2>7
<1>8. CASE Heartbeat(p)  BY <1>8, ProcKept DEF Heartbeat, RowFrame
<1> QED  BY <1>3, <1>4, <1>5, <1>6, <1>7, <1>8 DEF QueueStep

LEMMA RowProc ==
    ASSUME ProcInv, Sweep \/ \E e \in Episode : RowStep(e)
    PROVE  ProcInv'
BY ProcKept
   DEF Sweep, RowStep, ResetStale, FailExhaustedPending, FailTransientExhaustedPending, Park,
       ReenableVerbatimSkips, LeaseLapses, HoldEnds, ReconcileFailed, RowFrame

LEMMA OperatorProc ==
    ASSUME ProcInv, OperatorStep
    PROVE  ProcInv'
<1>1. ASSUME NEW e \in Episode, ForceResetFailed(e) \/ ForceReleaseLease(e) PROVE ProcInv'
  BY <1>1, ProcKept DEF ForceResetFailed, ForceReleaseLease
<1>2. ASSUME NEW p \in Proc, NEW e \in Episode, EnqueuePending(p, e) PROVE ProcInv'
  BY <1>2, EnqueueKeeps DEF EnqueuePending, ProcInv, ProcType
<1>3. ASSUME NEW p \in Proc, NEW e \in Episode, QueueEpisode(p, e) PROVE ProcInv'
  BY <1>3 DEF QueueEpisode, ProcInv, ProcType, ProcOK, Busy
<1> QED  BY <1>1, <1>2, <1>3 DEF OperatorStep

LEMMA LifeProc ==
    ASSUME ProcInv, NEW p \in Proc,
           Crash(p) \/ Shutdown(p) \/ LateClaim(p) \/ Restart(p)
    PROVE  ProcInv'
<1>1. ASSUME Stops(p), LeavesJob(p) \/ (pc[p] = "claiming" /\ UNCHANGED <<pc, job>>)
      PROVE  ProcInv'
  <2>1. ProcType'  BY <1>1 DEF ProcInv, ProcType, Stops, LeavesJob
  <2>2. ASSUME NEW q \in Proc, q # p PROVE ProcOK(q)'
    BY <1>1, <2>2 DEF ProcInv, ProcType, ProcOK, Busy, Stops, LeavesJob
  <2>3. ProcOK(p)'
    BY <1>1 DEF ProcInv, ProcType, ProcOK, Busy, Stops, LeavesJob
  <2> QED  BY <2>1, <2>2, <2>3 DEF ProcInv
<1>2. CASE Crash(p)  BY <1>1, <1>2 DEF Crash
<1>3. CASE Shutdown(p)  BY <1>1, <1>3 DEF Shutdown
<1>4. CASE LateClaim(p)
  <2>1. /\ ~up[p] /\ LeavesJob(p)
        /\ UNCHANGED <<up, queued, dedup, token, listed, retry>>
    BY <1>4 DEF LateClaim
  <2> QED  BY <2>1 DEF ProcInv, ProcType, ProcOK, Busy, LeavesJob
<1>5. CASE Restart(p)
  BY <1>5 DEF Restart, ProcInv, ProcType, ProcOK, Busy
<1> QED  BY <1>2, <1>3, <1>4, <1>5

-------------------------------------------------------------------------------
(* The rows as jobs.                                                       *)

\* The instant of a claim in force is the claim's number; only a claimed row is
\* owned; and only a READY row is skipped.
RowOK(e) ==
    /\ row[e].state = "ENRICHING" => row[e].instant = claims[e]
    /\ row[e].owner # Nobody => row[e].state = "ENRICHING"
    /\ row[e].skipped => row[e].state = "READY"

RowInv ==
    /\ author \in [Episode -> Nat]
    /\ \A e \in Episode : RowOK(e)

Quiet(e) == claims'[e] = claims[e] /\ author'[e] = author[e]

\* No claim begins or ends.
Keeps(e) ==
    /\ row'[e].state = row[e].state /\ row'[e].skipped = row[e].skipped
    /\ row[e].state = "ENRICHING" => row'[e].instant = row[e].instant
    /\ row'[e].owner # Nobody => row[e].owner # Nobody
    /\ Quiet(e)

Begins(e) ==
    /\ row[e].state \in {"PENDING", "FAILED"} /\ row'[e].state = "ENRICHING"
    /\ claims'[e] = claims[e] + 1 /\ row'[e].instant = claims[e] + 1
    /\ author'[e] = author[e] /\ row'[e].skipped = row[e].skipped

\* The attempt that holds the claim writes the outcome.
Ends(e) ==
    /\ row[e].state = "ENRICHING" /\ Rests(row'[e], {"READY", "FAILED", "PENDING"})
    /\ author'[e] = row[e].instant /\ claims'[e] = claims[e]
    /\ row'[e].skipped => row'[e].state = "READY"

\* A query that is not the attempt's moves the row.
Passes(e, from, to) ==
    row[e].state \in from /\ Rests(row'[e], to) /\ row'[e].skipped = row[e].skipped /\ Quiet(e)

\* A skip is taken back.
Returns(e) ==
    /\ row[e].state = "READY" /\ row[e].skipped
    /\ Rests(row'[e], {"PENDING"}) /\ ~row'[e].skipped /\ Quiet(e)

Move(e) ==
    \/ Keeps(e) \/ Begins(e) \/ Ends(e) \/ Returns(e)
    \/ Passes(e, {"none"}, {"PENDING"})
    \/ Passes(e, {"ENRICHING"}, {"PENDING", "FAILED"})
    \/ Passes(e, {"PENDING"}, {"FAILED"})
    \/ Passes(e, {"FAILED"}, {"PENDING"})
    \/ Passes(e, {"FAILED"}, {"READY"})

JobStep(e) ==
    \/ Jobs!Accept(e) \/ Jobs!Begin(e) \/ Jobs!Outcome(e) \/ Jobs!Revoke(e)
    \/ Jobs!GiveUp(e) \/ Jobs!Reopen(e) \/ Jobs!Adopt(e) \/ Jobs!Return(e) \/ Jobs!Stays(e)

LEMMA PhaseValues ==
    /\ Phase["none"] = "none" /\ Phase["PENDING"] = "waiting" /\ Phase["ENRICHING"] = "running"
    /\ Phase["READY"] = "done" /\ Phase["FAILED"] = "failed"
BY DEF Phase

LEMMA MoveKeepsRow ==
    ASSUME NEW e \in Episode, row[e] \in Row, row'[e] \in Row, RowOK(e), Move(e)
    PROVE  RowOK(e)'
BY DEF RowOK, Move, Keeps, Begins, Ends, Returns, Passes, Rests, Quiet, Row

LEMMA MoveIsJobStep ==
    ASSUME NEW e \in Episode, row[e] \in Row, row'[e] \in Row, RowOK(e), Move(e)
    PROVE  JobStep(e)
<1> DEFINE ph == [x \in Episode |-> Phase[row[x].state]]
           bo == [x \in Episode |-> row[x].skipped]
<1>1. ph[e] = Phase[row[e].state] /\ bo[e] = row[e].skipped  OBVIOUS
<1>2. ph'[e] = Phase[row'[e].state] /\ bo'[e] = row'[e].skipped  OBVIOUS
<1> USE PhaseValues DEF Jobs!Moves, Jobs!KeepsClaim, Jobs!KeepsAuthor, Jobs!KeepsWord, Quiet
<1>3. CASE Keeps(e)
  BY <1>1, <1>2, <1>3 DEF Keeps, Jobs!Stays, JobStep
<1>4. CASE Begins(e)
  BY <1>1, <1>2, <1>4 DEF Begins, Jobs!Begin, JobStep
<1>5. CASE Ends(e)
  BY <1>1, <1>2, <1>5 DEF Ends, Rests, RowOK, Jobs!Outcome, JobStep
<1>6. CASE Returns(e)
  BY <1>1, <1>2, <1>6 DEF Returns, Rests, Jobs!Return, JobStep
<1>7. CASE Passes(e, {"none"}, {"PENDING"})
  BY <1>1, <1>2, <1>7 DEF Passes, Rests, Jobs!Accept, JobStep
<1>8. CASE Passes(e, {"ENRICHING"}, {"PENDING", "FAILED"})
  BY <1>1, <1>2, <1>8 DEF Passes, Rests, Jobs!Revoke, JobStep
<1>9. CASE Passes(e, {"PENDING"}, {"FAILED"})
  BY <1>1, <1>2, <1>9 DEF Passes, Rests, Jobs!GiveUp, JobStep
<1>10. CASE Passes(e, {"FAILED"}, {"PENDING"})
  BY <1>1, <1>2, <1>10 DEF Passes, Rests, Jobs!Reopen, JobStep
<1>11. CASE Passes(e, {"FAILED"}, {"READY"})
  BY <1>1, <1>2, <1>11 DEF Passes, Rests, Jobs!Adopt, JobStep
<1> QED  BY <1>3, <1>4, <1>5, <1>6, <1>7, <1>8, <1>9, <1>10, <1>11 DEF Move

\* What a step does to all the rows.
Moves == author' \in [Episode -> Nat] /\ \A e \in Episode : Move(e)

LEMMA NothingMoves == RowInv /\ UNCHANGED <<row, claims, author>> => Moves
BY DEF RowInv, Moves, Move, Keeps, Quiet

LEMMA FencedMoves ==
    ASSUME CountInv, RowInv, NEW p \in Proc, job[p] \in Episode, token[p] \in Nat,
           NEW r, Fenced(p, r), UNCHANGED claims,
           Rests(r, {"READY", "FAILED", "PENDING"}), r.skipped => r.state = "READY"
    PROVE  Moves
<1>1. CASE Owns(p)
  <2>1. /\ row' = [row EXCEPT ![job[p]] = r] /\ author' = [author EXCEPT ![job[p]] = token[p]]
        /\ row[job[p]].state = "ENRICHING" /\ row[job[p]].instant = token[p]
    BY <1>1 DEF Fenced, Owns, HeldBy
  <2>2. author' \in [Episode -> Nat]  BY <2>1 DEF RowInv
  <2>3. Ends(job[p])  BY <2>1 DEF Ends, CountInv, RowInv
  <2>4. \A e \in Episode : e # job[p] => Keeps(e)
    BY <2>1 DEF Keeps, Quiet, CountInv, RowInv
  <2> QED  BY <2>2, <2>3, <2>4 DEF Moves, Move
<1>2. CASE ~Owns(p)  BY <1>2, NothingMoves DEF Fenced
<1> QED  BY <1>1, <1>2

LEMMA OutcomeMoves ==
    ASSUME CountInv, RowInv, NEW p \in Proc, job[p] \in Episode, token[p] \in Nat,
           UNCHANGED claims,
           \/ Fenced(p, Ready(row[job[p]]))
           \/ Fenced(p, VerbatimSkipped(row[job[p]]))
           \/ Fenced(p, Requeued(row[job[p]]))
           \/ \E err \in Errors : Fenced(p, Failed(row[job[p]], err))
    PROVE  Moves
<1>1. row[job[p]] \in Row  BY DEF CountInv
<1>2. CASE ~Owns(p)  BY <1>2, NothingMoves DEF Fenced
<1>3. CASE Owns(p)
  <2>1. row[job[p]].skipped = FALSE
    BY <1>1, <1>3 DEF Owns, HeldBy, RowInv, RowOK, Row
  <2>2. CASE Fenced(p, Ready(row[job[p]]))
    BY <1>1, <2>1, <2>2, FencedMoves, ReadyRow DEF Rests
  <2>3. CASE Fenced(p, VerbatimSkipped(row[job[p]]))
    BY <1>1, <2>3, FencedMoves, SkippedRow DEF Rests
  <2>4. CASE Fenced(p, Requeued(row[job[p]]))
    BY <1>1, <2>1, <2>4, FencedMoves, RequeuedRow DEF Rests
  <2>5. ASSUME NEW err \in Errors, Fenced(p, Failed(row[job[p]], err)) PROVE Moves
    BY <1>1, <2>1, <2>5, FencedMoves, FailedRow DEF Rests
  <2> QED  BY <2>2, <2>3, <2>4, <2>5
<1> QED  BY <1>2, <1>3

LEMMA ClaimMoves ==
    ASSUME CountInv, RowInv, NEW x \in Episode, NEW y \in Proc \cup {Gone}, Claimable(row[x]),
           claims' = [claims EXCEPT ![x] = @ + 1],
           row' = [row EXCEPT ![x] = Claimed(@, y, claims[x] + 1)],
           UNCHANGED author
    PROVE  Moves
<1>1. row[x] \in Row /\ claims[x] \in Nat  BY DEF CountInv
<1>2. PICK m \in Nat : m = claims[x] + 1  BY <1>1
<1>3. PICK c : c = Claimed(row[x], y, m)  OBVIOUS
<1>4. c.state = "ENRICHING" /\ c.instant = m /\ c.skipped = row[x].skipped
  BY <1>1, <1>3, ClaimedRow
<1>5. row' = [row EXCEPT ![x] = c]  BY <1>2, <1>3
<1>6. Begins(x)
  BY <1>2, <1>4, <1>5 DEF Begins, Claimable, CountInv
<1>7. \A e \in Episode : e # x => Keeps(e)
  BY <1>5 DEF Keeps, Quiet, CountInv
<1> QED  BY <1>6, <1>7 DEF Moves, Move, RowInv

LEMMA ReenableMoves ==
    ASSUME CountInv, RowInv, NEW S \in SUBSET Stranded, Reenable(S), UNCHANGED <<claims, author>>
    PROVE  Moves
<1>1. ASSUME NEW e \in Episode PROVE Move(e)
  <2>1. row[e] \in Row  BY DEF CountInv
  <2>2. CASE e \in S
    <3>1. row'[e] = Reenabled(row[e]) /\ row[e].state = "READY" /\ row[e].skipped
      BY <2>2 DEF Reenable, Stranded
    <3> QED  BY <2>1, <3>1, ReenabledRow DEF Move, Returns, Quiet
  <2>3. CASE e \notin S
    BY <2>3 DEF Reenable, Move, Keeps, Quiet
  <2> QED  BY <2>2, <2>3
<1> QED  BY <1>1 DEF Moves, RowInv

LEMMA AttemptMoves ==
    ASSUME CountInv, RowInv, ProcInv, NEW p \in Proc, AttemptStep(p)
    PROVE  Moves
<1> USE DEF AttemptFrame
<1>1. token[p] \in Nat /\ (pc[p] # "idle" => job[p] \in Episode)
  BY DEF ProcInv, ProcType, ProcOK
<1>2. CASE ClaimPendingEpisode(p)
  BY <1>1, <1>2, ClaimMoves, NothingMoves DEF ClaimPendingEpisode, ClaimRefused
<1>3. CASE FinishStoreOnly(p)  BY <1>1, <1>3, OutcomeMoves DEF FinishStoreOnly
<1>4. CASE TryReconcileExisting(p)
  BY <1>1, <1>4, OutcomeMoves, NothingMoves DEF TryReconcileExisting
<1>5. CASE PreflightRejection(p)  BY <1>1, <1>5, OutcomeMoves DEF PreflightRejection, Errors
<1>6. CASE TransientRequeue(p)  BY <1>1, <1>6, OutcomeMoves DEF TransientRequeue
<1>7. CASE TryVerbatimSkip(p)  BY <1>1, <1>7, OutcomeMoves DEF TryVerbatimSkip
<1>8. CASE DispatchExtraction(p)  BY <1>8, NothingMoves DEF DispatchExtraction
<1>9. CASE Publish(p)  BY <1>9, NothingMoves DEF Publish
<1>10. CASE ZeroExtraction(p)  BY <1>1, <1>10, OutcomeMoves DEF ZeroExtraction
<1>11. CASE StampAndFinalize(p)  BY <1>1, <1>11, OutcomeMoves DEF StampAndFinalize
<1>12. CASE HandleFailure(p)  BY <1>1, <1>12, OutcomeMoves DEF HandleFailure, Working
<1>13. CASE AttemptLost(p)  BY <1>13, NothingMoves DEF AttemptLost
<1>14. CASE ReenableSkipsForProjection(p)
  <2> DEFINE S == {c \in Stranded : Projection[c] = job[p]}
  <2>1. S \in SUBSET Stranded  OBVIOUS
  <2> QED  BY <1>14, <2>1, ReenableMoves DEF ReenableSkipsForProjection
<1> QED  BY <1>2, <1>3, <1>4, <1>5, <1>6, <1>7, <1>8, <1>9, <1>10, <1>11, <1>12, <1>13, <1>14
         DEF AttemptStep

\* One row changes, and is moved or kept.
LEMMA OneMoves ==
    ASSUME CountInv, RowInv, NEW x \in Episode, NEW r, row' = [row EXCEPT ![x] = r],
           UNCHANGED <<claims, author>>, row'[x] = r => Move(x)
    PROVE  Moves
<1>1. row'[x] = r  BY DEF CountInv
<1>2. \A e \in Episode : e # x => Keeps(e)
  BY DEF Keeps, Quiet, CountInv
<1> QED  BY <1>1, <1>2 DEF Moves, Move, RowInv

LEMMA QueueMoves ==
    ASSUME CountInv, RowInv, ProcInv, NEW p \in Proc, QueueStep(p)
    PROVE  Moves
<1>1. CASE Heartbeat(p)
  <2>1. job[p] \in Episode
    BY <1>1 DEF Heartbeat, Working, ProcInv, ProcType, ProcOK
  <2> DEFINE x == job[p]
             r == [row[x] EXCEPT !.lapsed = FALSE]
  <2>2. row' = [row EXCEPT ![x] = r] /\ UNCHANGED <<claims, author>>
    BY <1>1 DEF Heartbeat, RowFrame
  <2>3. row[x] \in Row  BY <2>1 DEF CountInv
  <2>4. /\ r.state = row[x].state /\ r.instant = row[x].instant
        /\ r.owner = row[x].owner /\ r.skipped = row[x].skipped
    BY <2>3 DEF Row
  <2> HIDE DEF r
  <2>5. row'[x] = r => Move(x)
    BY <2>1, <2>2, <2>4 DEF Move, Keeps, Quiet
  <2> QED  BY <2>1, <2>2, <2>5, OneMoves
<1>2. CASE ~Heartbeat(p)
  BY <1>2, NothingMoves DEF QueueStep, Take, ListPending, EnqueueListed, RetryScan,
                            RequeueFailed, ProcFrame, history
<1> QED  BY <1>1, <1>2

LEMMA RowMoves ==
    ASSUME CountInv, RowInv, NEW e \in Episode, RowStep(e)
    PROVE  Moves
<1>1. row[e] \in Row  BY DEF CountInv
<1>2. CASE LeaseLapses(e)
  <2> DEFINE r == [row[e] EXCEPT !.lapsed = TRUE]
  <2>1. row' = [row EXCEPT ![e] = r] /\ UNCHANGED <<claims, author>>
    BY <1>2 DEF LeaseLapses, RowFrame
  <2>2. /\ r.state = row[e].state /\ r.instant = row[e].instant
        /\ r.owner = row[e].owner /\ r.skipped = row[e].skipped
    BY <1>1 DEF Row
  <2> HIDE DEF r
  <2>3. row'[e] = r => Move(e)  BY <2>1, <2>2 DEF Move, Keeps, Quiet
  <2> QED  BY <2>1, <2>3, OneMoves
<1>3. CASE HoldEnds(e)
  <2> DEFINE r == [row[e] EXCEPT !.held = FALSE]
  <2>1. row' = [row EXCEPT ![e] = r] /\ UNCHANGED <<claims, author>>
    BY <1>3 DEF HoldEnds, RowFrame
  <2>2. /\ r.state = row[e].state /\ r.instant = row[e].instant
        /\ r.owner = row[e].owner /\ r.skipped = row[e].skipped
    BY <1>1 DEF Row
  <2> HIDE DEF r
  <2>3. row'[e] = r => Move(e)  BY <2>1, <2>2 DEF Move, Keeps, Quiet
  <2> QED  BY <2>1, <2>3, OneMoves
<1>4. CASE ReconcileFailed(e)
  <2>1. /\ row' = [row EXCEPT ![e] = Ready(row[e])] /\ UNCHANGED <<claims, author>>
        /\ row[e].state = "FAILED"
    BY <1>4 DEF ReconcileFailed, RowFrame
  <2>2. row'[e] = Ready(row[e]) => Move(e)
    BY <1>1, <2>1, ReadyRow DEF Move, Passes, Quiet
  <2> QED  BY <2>1, <2>2, OneMoves
<1> QED  BY <1>2, <1>3, <1>4 DEF RowStep

\* Claims are taken away.
LEMMA ResetMoves ==
    ASSUME CountInv, RowInv, NEW S, UNCHANGED <<claims, author>>,
           \A e \in Episode : e \in S => row[e].state = "ENRICHING",
           row' = [e \in Episode |-> IF e \in S THEN ResetOrFailed(row[e]) ELSE row[e]]
    PROVE  Moves
<1>1. ASSUME NEW e \in Episode PROVE Move(e)
  <2>1. row[e] \in Row  BY DEF CountInv
  <2>2. CASE e \in S
    <3>1. row'[e] = ResetOrFailed(row[e]) /\ row[e].state = "ENRICHING"  BY <2>2
    <3> QED  BY <2>1, <3>1, ResetRow DEF Move, Passes, Quiet
  <2>3. CASE e \notin S  BY <2>3 DEF Move, Keeps, Quiet
  <2> QED  BY <2>2, <2>3
<1> QED  BY <1>1 DEF Moves, RowInv

LEMMA ParkMoves ==
    ASSUME CountInv, RowInv, NEW S, Park(S), \A e \in Episode : e \in S => row[e].state = "PENDING"
    PROVE  Moves
<1>1. ASSUME NEW e \in Episode PROVE Move(e)
  <2>1. row[e] \in Row  BY DEF CountInv
  <2>2. UNCHANGED <<claims, author>>  BY DEF Park, RowFrame
  <2>3. CASE e \in S
    <3>1. row'[e] = Parked(row[e]) /\ row[e].state = "PENDING"  BY <2>3 DEF Park
    <3> QED  BY <2>1, <2>2, <3>1, ParkedRow DEF Move, Passes, Quiet
  <2>4. CASE e \notin S  BY <2>2, <2>4 DEF Park, Move, Keeps, Quiet
  <2> QED  BY <2>3, <2>4
<1> QED  BY <1>1 DEF Moves, RowInv, Park, RowFrame

LEMMA SweepMoves ==
    ASSUME CountInv, RowInv, Sweep
    PROVE  Moves
<1>1. CASE ResetStale
  BY <1>1, ResetMoves DEF ResetStale, Release, RowFrame
<1>2. CASE FailExhaustedPending  BY <1>2, ParkMoves DEF FailExhaustedPending
<1>3. CASE FailTransientExhaustedPending  BY <1>3, ParkMoves DEF FailTransientExhaustedPending
<1>4. CASE ReenableVerbatimSkips
  BY <1>4, ReenableMoves DEF ReenableVerbatimSkips, RowFrame
<1> QED  BY <1>1, <1>2, <1>3, <1>4 DEF Sweep

LEMMA OperatorMoves ==
    ASSUME CountInv, RowInv, OperatorStep
    PROVE  Moves
<1>1. ASSUME NEW e \in Episode, ForceResetFailed(e) PROVE Moves
  <2>1. row[e] \in Row  BY DEF CountInv
  <2>2. /\ row' = [row EXCEPT ![e] = ForceReset(row[e])] /\ UNCHANGED <<claims, author>>
        /\ row[e].state \in {"FAILED", "PENDING"}
    BY <1>1 DEF ForceResetFailed
  <2>3. row'[e] = ForceReset(row[e]) => Move(e)
    BY <2>1, <2>2, ForceResetRow DEF Move, Keeps, Passes, Quiet, Rests
  <2> QED  BY <2>2, <2>3, OneMoves
<1>2. ASSUME NEW e \in Episode, ForceReleaseLease(e) PROVE Moves
  <2>1. /\ row' = [x \in Episode |-> IF x \in {e} THEN ResetOrFailed(row[x]) ELSE row[x]]
        /\ UNCHANGED <<claims, author>> /\ row[e].state = "ENRICHING"
    BY <1>2 DEF ForceReleaseLease, Release
  <2>2. \A x \in Episode : x \in {e} => row[x].state = "ENRICHING"  BY <2>1
  <2> QED  BY <2>1, <2>2, ResetMoves
<1>3. ASSUME NEW p \in Proc, NEW e \in Episode, EnqueuePending(p, e) PROVE Moves
  BY <1>3, NothingMoves DEF EnqueuePending, history
<1>4. ASSUME NEW p \in Proc, NEW e \in Episode, QueueEpisode(p, e) PROVE Moves
  <2>1. PICK keep \in BOOLEAN :
          row' = [row EXCEPT ![e].state = "PENDING", ![e].storeOnly = keep]
    BY <1>4 DEF QueueEpisode
  <2> DEFINE r == [row[e] EXCEPT !.state = "PENDING", !.storeOnly = keep]
  <2>2. /\ row' = [row EXCEPT ![e] = r] /\ UNCHANGED <<claims, author>>
        /\ row[e].state = "none"
    BY <1>4, <2>1 DEF QueueEpisode, history, CountInv
  <2>3. row[e] \in Row /\ RowOK(e)  BY DEF CountInv, RowInv
  <2>4. /\ r \in Row /\ r.state = "PENDING" /\ r.owner = row[e].owner
        /\ r.skipped = row[e].skipped
    BY <2>3 DEF Row, States
  <2> HIDE DEF r
  <2>5. row'[e] = r => Move(e)
    BY <2>2, <2>3, <2>4 DEF Move, Passes, Rests, Quiet, RowOK
  <2> QED  BY <2>2, <2>5, OneMoves
<1> QED  BY <1>1, <1>2, <1>3, <1>4 DEF OperatorStep

LEMMA LifeMoves ==
    ASSUME CountInv, RowInv, ProcInv, NEW p \in Proc,
           Crash(p) \/ Shutdown(p) \/ LateClaim(p) \/ Restart(p)
    PROVE  Moves
<1>1. CASE Crash(p)
  <2>1. ASSUME NEW e \in Episode PROVE Move(e)
    <3>1. row[e] \in Row /\ UNCHANGED <<claims, author>>
      BY <1>1 DEF CountInv, Crash, history
    <3>2. row'[e] = IF e \in Owned(p) THEN [row[e] EXCEPT !.owner = Gone] ELSE row[e]
      BY <1>1 DEF Crash
    <3>3. /\ row'[e].state = row[e].state /\ row'[e].instant = row[e].instant
          /\ row'[e].skipped = row[e].skipped
          /\ row'[e].owner # Nobody => row[e].owner # Nobody
      BY <3>1, <3>2, EpisodeAssumption DEF Row, Owned
    <3> QED  BY <3>1, <3>3 DEF Move, Keeps, Quiet
  <2> QED  BY <1>1, <2>1 DEF Moves, RowInv, Crash, history
<1>2. CASE Shutdown(p)
  <2>1. \A e \in Episode : e \in Owned(p) => row[e].state = "ENRICHING"
    BY EpisodeAssumption DEF Owned, RowInv, RowOK
  <2> QED  BY <1>2, <2>1, ResetMoves DEF Shutdown, history
<1>3. CASE LateClaim(p)
  <2>1. job[p] \in Episode  BY <1>3 DEF LateClaim, ProcInv, ProcType, ProcOK
  <2> QED  BY <1>3, <2>1, ClaimMoves, NothingMoves DEF LateClaim
<1>4. CASE Restart(p)  BY <1>4, NothingMoves DEF Restart, history
<1> QED  BY <1>1, <1>2, <1>3, <1>4

-------------------------------------------------------------------------------
(* Attempts and their extractions.                                         *)

\* Unless its claim was taken from it, an attempt that runs holds the row, and has
\* seen that nothing is extracted under the row's name before it extracts.
RunOK(p) ==
    pc[p] \in Working /\ ~overtaken[job[p]] =>
        /\ Owns(p)
        /\ pc[p] \in {"checked", "extracting"} => artifacts[job[p]] = 0

RunInv ==
    /\ artifacts \in [Episode -> 0..2] /\ overtaken \in [Episode -> BOOLEAN]
    /\ NoDuplicateExtraction
    /\ \A p \in Proc : RunOK(p)

\* The step neither moves the attempt of q nor takes its claim unnoticed.
Undisturbed(q) ==
    \/ pc'[q] \notin Working
    \/ /\ pc'[q] = pc[q] /\ job'[q] = job[q] /\ token'[q] = token[q]
       /\ Owns(q) => row'[job[q]] = row[job[q]] \/ Owns(q)' \/ overtaken'[job[q]]

\* A step of p that publishes nothing.
LEMMA RunKept ==
    ASSUME RunInv, ProcInv, UNCHANGED artifacts,
           overtaken' \in [Episode -> BOOLEAN],
           \A e \in Episode : overtaken[e] => overtaken'[e],
           \A q \in Proc : RunOK(q)' \/ Undisturbed(q)
    PROVE  RunInv'
<1>1. ASSUME NEW q \in Proc, Undisturbed(q) PROVE RunOK(q)'
  <2>1. SUFFICES ASSUME pc'[q] \in Working, ~overtaken'[job'[q]]
                 PROVE  /\ Owns(q)'
                        /\ pc'[q] \in {"checked", "extracting"} => artifacts'[job'[q]] = 0
    BY DEF RunOK
  <2>2. /\ pc'[q] = pc[q] /\ job'[q] = job[q] /\ token'[q] = token[q]
        /\ Owns(q) => row'[job[q]] = row[job[q]] \/ Owns(q)' \/ overtaken'[job[q]]
    BY <1>1, <2>1 DEF Undisturbed
  <2>3. job[q] \in Episode
    BY <2>1, <2>2 DEF Working, ProcInv, ProcType, ProcOK
  <2>4. ~overtaken[job[q]]  BY <2>1, <2>2, <2>3
  <2>5. RunOK(q)  BY DEF RunInv
  <2>6. /\ Owns(q)
        /\ pc[q] \in {"checked", "extracting"} => artifacts[job[q]] = 0
    BY <2>1, <2>2, <2>4, <2>5 DEF RunOK
  <2>7. Owns(q)'  BY <2>1, <2>2, <2>6 DEF Owns
  <2> QED  BY <2>2, <2>6, <2>7
<1>2. NoDuplicateExtraction'  BY DEF RunInv, NoDuplicateExtraction
<1> QED  BY <1>1, <1>2 DEF RunInv

\* A process leaves the others' memory alone.
Alone(p) == \A q \in Proc \ {p} : pc'[q] = pc[q] /\ job'[q] = job[q] /\ token'[q] = token[q]

LEMMA DiscardAlone ==
    ASSUME ProcInv, NEW p \in Proc, Discard(p) \/ \E l : Goto(p, l)
    PROVE  Alone(p) /\ (Discard(p) => pc'[p] = "idle")
BY DEF Discard, Goto, Alone, ProcInv, ProcType

\* A fenced write leaves the claims of the others alone, and ends the attempt.
LEMMA FencedRuns ==
    ASSUME CountInv, RunInv, ProcInv, NEW p \in Proc, NEW r, Fenced(p, r), job[p] \in Episode,
           Alone(p), pc'[p] \notin Working, UNCHANGED <<artifacts, overtaken>>
    PROVE  RunInv'
<1>1. ASSUME NEW q \in Proc, q # p, Owns(q), job[q] \in Episode
      PROVE  row'[job[q]] = row[job[q]]
  <2>1. CASE Owns(p)
    <3>1. job[q] # job[p]  BY <1>1, <2>1 DEF Owns, HeldBy
    <3> QED  BY <1>1, <2>1, <3>1 DEF Fenced, CountInv
  <2>2. CASE ~Owns(p)  BY <2>2 DEF Fenced
  <2> QED  BY <2>1, <2>2
<1>2. ASSUME NEW q \in Proc PROVE Undisturbed(q)
  <2>1. CASE pc'[q] \in Working
    <3>1. q # p /\ pc'[q] = pc[q] /\ job'[q] = job[q] /\ token'[q] = token[q]
      BY <2>1 DEF Alone
    <3>2. job[q] \in Episode  BY <2>1, <3>1 DEF Working, ProcInv, ProcType, ProcOK
    <3> QED  BY <1>1, <3>1, <3>2 DEF Undisturbed
  <2>2. CASE pc'[q] \notin Working  BY <2>2 DEF Undisturbed
  <2> QED  BY <2>1, <2>2
<1> QED  BY <1>2, RunKept DEF RunInv

\* A claim is taken only from a row that nobody holds.
LEMMA ClaimRuns ==
    ASSUME CountInv, RunInv, ProcInv, NEW p \in Proc, Claimable(row[job[p]]), job[p] \in Episode,
           row' = [row EXCEPT ![job[p]] = Claimed(@, p, claims[job[p]] + 1)],
           token' = [token EXCEPT ![p] = claims[job[p]] + 1],
           pc' = [pc EXCEPT ![p] = "claimed"],
           UNCHANGED <<job, artifacts, overtaken>>
    PROVE  RunInv'
<1> DEFINE x == job[p]
<1>1. row[x] \in Row /\ claims[x] \in Nat  BY DEF CountInv
<1>2. PICK m \in Nat : m = claims[x] + 1  BY <1>1
<1>3. PICK c : c = Claimed(row[x], p, m)  OBVIOUS
<1>4. c.state = "ENRICHING" /\ c.instant = m /\ c.owner = p
  BY <1>1, <1>3, ClaimedRow
<1>5. row' = [row EXCEPT ![x] = c] /\ token'[p] = m /\ job'[p] = x /\ pc'[p] = "claimed"
  BY <1>2, <1>3 DEF ProcInv, ProcType
<1>6. RunOK(p)'
  BY <1>4, <1>5 DEF RunOK, Owns, HeldBy, CountInv
<1>7. ASSUME NEW q \in Proc, q # p PROVE Undisturbed(q)
  <2>1. pc'[q] = pc[q] /\ job'[q] = job[q] /\ token'[q] = token[q]
    BY <1>7 DEF ProcInv, ProcType
  <2>2. Owns(q) => job[q] # x  BY DEF Owns, HeldBy, Claimable
  <2>3. CASE pc[q] \in Working
    <3>1. job[q] \in Episode  BY <2>3 DEF Working, ProcInv, ProcType, ProcOK
    <3>2. Owns(q) => row'[job[q]] = row[job[q]]  BY <1>5, <2>2, <3>1 DEF CountInv
    <3> QED  BY <2>1, <3>2 DEF Undisturbed
  <2>4. CASE pc[q] \notin Working  BY <2>1, <2>4 DEF Undisturbed
  <2> QED  BY <2>3, <2>4
<1>8. \A q \in Proc : RunOK(q)' \/ Undisturbed(q)  BY <1>6, <1>7
<1> QED  BY <1>8, RunKept DEF RunInv

\* The attempt goes on and writes nothing.
LEMMA GotoRuns ==
    ASSUME RunInv, ProcInv, NEW p \in Proc, NEW l, Goto(p, l), RunOK(p)',
           UNCHANGED <<row, artifacts, overtaken>>
    PROVE  RunInv'
<1>1. \A q \in Proc : RunOK(q)' \/ Undisturbed(q)
  BY DEF Undisturbed, Goto, ProcInv, ProcType
<1> QED  BY <1>1, RunKept DEF RunInv

\* Rows nobody holds are rewritten.
LEMMA ReenableRuns ==
    ASSUME CountInv, RunInv, ProcInv, NEW S \in SUBSET Stranded, Reenable(S),
           UNCHANGED <<artifacts, overtaken>>,
           \A q \in Proc : pc'[q] \notin Working
                            \/ (pc'[q] = pc[q] /\ job'[q] = job[q] /\ token'[q] = token[q])
    PROVE  RunInv'
<1>1. ASSUME NEW q \in Proc, pc'[q] \in Working PROVE Undisturbed(q)
  <2>1. pc'[q] = pc[q] /\ job'[q] = job[q] /\ token'[q] = token[q]  BY <1>1
  <2>2. job[q] \in Episode  BY <1>1, <2>1 DEF Working, ProcInv, ProcType, ProcOK
  <2>3. Owns(q) => job[q] \notin S  BY DEF Owns, HeldBy, Stranded
  <2>4. Owns(q) => row'[job[q]] = row[job[q]]  BY <2>2, <2>3 DEF Reenable
  <2> QED  BY <2>1, <2>4 DEF Undisturbed
<1>2. \A q \in Proc : Undisturbed(q)  BY <1>1 DEF Undisturbed
<1> QED  BY <1>2, RunKept DEF RunInv

\* Only one attempt publishes while no claim is overtaken.
LEMMA PublishRuns ==
    ASSUME CountInv, RunInv, ProcInv, NEW p \in Proc, Publish(p)
    PROVE  RunInv'
<1> DEFINE x == job[p]
<1>1. /\ pc[p] = "extracting" /\ pc' = [pc EXCEPT ![p] = "finalizing"]
      /\ UNCHANGED <<row, overtaken, job, token>>
      /\ artifacts' = [artifacts EXCEPT ![x] = IF @ < 2 THEN @ + 1 ELSE 2]
  BY DEF Publish, Goto, AttemptFrame
<1>2. x \in Episode  BY <1>1 DEF ProcInv, ProcType, ProcOK
<1>3. /\ artifacts' \in [Episode -> 0..2]
      /\ artifacts[x] = 0 => artifacts'[x] = 1
      /\ \A e \in Episode : e # x => artifacts'[e] = artifacts[e]
  BY <1>1, <1>2 DEF RunInv
<1>4. ~overtaken[x] => artifacts[x] = 0 /\ Owns(p)
  BY <1>1 DEF RunInv, RunOK, Working
<1>5. NoDuplicateExtraction'
  BY <1>1, <1>3, <1>4 DEF RunInv, NoDuplicateExtraction
<1>6. ASSUME NEW q \in Proc PROVE RunOK(q)'
  <2>1. SUFFICES ASSUME pc'[q] \in Working, ~overtaken[job[q]]
                 PROVE  /\ Owns(q)
                        /\ pc'[q] \in {"checked", "extracting"} => artifacts'[job[q]] = 0
    BY <1>1 DEF RunOK, Owns
  <2>2. CASE q = p
    BY <1>1, <1>4, <2>1, <2>2 DEF ProcInv, ProcType
  <2>3. CASE q # p
    <3>1. pc'[q] = pc[q]  BY <1>1, <2>3 DEF ProcInv, ProcType
    <3>2. /\ Owns(q)
          /\ pc[q] \in {"checked", "extracting"} => artifacts[job[q]] = 0
      BY <2>1, <3>1 DEF RunInv, RunOK
    <3>3. job[q] \in Episode  BY <2>1, <3>1 DEF Working, ProcInv, ProcType, ProcOK
    <3>4. job[q] # x
      BY <1>4, <2>1, <2>3, <3>2 DEF Owns, HeldBy
    <3> QED  BY <1>3, <3>1, <3>2, <3>3, <3>4
  <2> QED  BY <2>2, <2>3
<1> QED  BY <1>1, <1>3, <1>5, <1>6 DEF RunInv

LEMMA AttemptRuns ==
    ASSUME CountInv, RunInv, ProcInv, NEW p \in Proc, AttemptStep(p)
    PROVE  RunInv'
<1> USE DEF AttemptFrame
<1>1. pc[p] # "idle" => job[p] \in Episode  BY DEF ProcInv, ProcType, ProcOK
<1>2. ASSUME Discard(p) PROVE Alone(p) /\ pc'[p] \notin Working
  BY <1>2, DiscardAlone DEF Working
<1>3. ASSUME Discard(p), UNCHANGED <<row, artifacts, overtaken>> PROVE RunInv'
  <2>1. \A q \in Proc : Undisturbed(q)  BY <1>2, <1>3 DEF Undisturbed, Alone
  <2> QED  BY <1>3, <2>1, RunKept DEF RunInv
<1>4. CASE ClaimPendingEpisode(p)
  BY <1>1, <1>3, <1>4, ClaimRuns DEF ClaimPendingEpisode, ClaimRefused
<1>5. CASE FinishStoreOnly(p)  BY <1>1, <1>2, <1>5, FencedRuns DEF FinishStoreOnly
<1>6. CASE TryReconcileExisting(p)
  <2>1. CASE artifacts[job[p]] = 1
    BY <1>1, <1>2, <1>6, <2>1, FencedRuns DEF TryReconcileExisting
  <2>2. CASE artifacts[job[p]] # 1
    <3>1. /\ pc[p] = "claimed" /\ Goto(p, "checked")
          /\ UNCHANGED <<row, artifacts, overtaken, job, token>>
      BY <1>6, <2>2 DEF TryReconcileExisting, Goto
    <3>2. job[p] \in Episode /\ RunOK(p)  BY <1>1, <3>1 DEF RunInv
    <3>3. ~overtaken[job[p]] => artifacts[job[p]] = 0
      BY <2>2, <3>2 DEF RunInv, NoDuplicateExtraction
    <3>4. ~overtaken[job[p]] => Owns(p)
      BY <3>1, <3>2 DEF RunOK, Working
    <3>5. RunOK(p)'
      BY <3>1, <3>3, <3>4 DEF RunOK, Owns
    <3> QED  BY <3>1, <3>5, GotoRuns
  <2> QED  BY <2>1, <2>2
<1>7. CASE PreflightRejection(p)  BY <1>1, <1>2, <1>7, FencedRuns DEF PreflightRejection
<1>8. CASE TransientRequeue(p)  BY <1>1, <1>2, <1>8, FencedRuns DEF TransientRequeue
<1>9. CASE TryVerbatimSkip(p)  BY <1>1, <1>2, <1>9, FencedRuns DEF TryVerbatimSkip
<1>10. CASE DispatchExtraction(p)
  <2>1. /\ pc[p] = "checked" /\ Goto(p, "extracting")
        /\ UNCHANGED <<row, artifacts, overtaken, job, token>>
    BY <1>10 DEF DispatchExtraction, Goto
  <2>2. RunOK(p)  BY DEF RunInv
  <2>3. RunOK(p)'  BY <2>1, <2>2 DEF RunOK, Owns, Working
  <2> QED  BY <2>1, <2>3, GotoRuns
<1>11. CASE Publish(p)  BY <1>11, PublishRuns
<1>12. CASE ZeroExtraction(p)  BY <1>1, <1>2, <1>12, FencedRuns DEF ZeroExtraction
<1>13. CASE StampAndFinalize(p)  BY <1>1, <1>2, <1>13, FencedRuns DEF StampAndFinalize
<1>14. CASE HandleFailure(p)
  <2>1. PICK err \in Errors : Fenced(p, Failed(row[job[p]], err))
    BY <1>14 DEF HandleFailure
  <2>2. /\ job[p] \in Episode /\ UNCHANGED <<artifacts, overtaken>>
        /\ Discard(p) \/ Goto(p, "reenabling")
    BY <1>1, <1>14 DEF HandleFailure, Working
  <2>3. Alone(p) /\ pc'[p] \notin Working
    BY <2>2, DiscardAlone DEF Goto, Working, ProcInv, ProcType
  <2> QED  BY <2>1, <2>2, <2>3, FencedRuns
<1>15. CASE AttemptLost(p)  BY <1>3, <1>15 DEF AttemptLost
<1>16. CASE ReenableSkipsForProjection(p)
  <2> DEFINE S == {c \in Stranded : Projection[c] = job[p]}
  <2>1. S \in SUBSET Stranded  OBVIOUS
  <2>2. /\ Reenable(S) /\ Discard(p) /\ UNCHANGED <<artifacts, overtaken>>
    BY <1>16 DEF ReenableSkipsForProjection
  <2> HIDE DEF S
  <2>3. Alone(p) /\ pc'[p] \notin Working  BY <1>2, <2>2
  <2>4. \A q \in Proc : pc'[q] \notin Working
            \/ (pc'[q] = pc[q] /\ job'[q] = job[q] /\ token'[q] = token[q])
    BY <2>3 DEF Alone
  <2> QED  BY <2>1, <2>2, <2>4, ReenableRuns
<1> QED  BY <1>4, <1>5, <1>6, <1>7, <1>8, <1>9, <1>10, <1>11, <1>12, <1>13, <1>14, <1>15, <1>16
         DEF AttemptStep

LEMMA QueueRuns ==
    ASSUME CountInv, RunInv, ProcInv, NEW p \in Proc, QueueStep(p)
    PROVE  RunInv'
<1>1. CASE Heartbeat(p)
  <2>1. /\ row' = [row EXCEPT ![job[p]].lapsed = FALSE]
        /\ UNCHANGED <<artifacts, pc, job, token, overtaken>>
    BY <1>1 DEF Heartbeat, RowFrame, proc
  <2>2. ASSUME NEW e \in Episode
        PROVE  /\ row'[e].state = row[e].state /\ row'[e].owner = row[e].owner
               /\ row'[e].instant = row[e].instant
    BY <2>1 DEF CountInv, Row
  <2>3. ASSUME NEW q \in Proc PROVE Undisturbed(q)
    <3>1. CASE pc[q] \in Working
      <4>1. job[q] \in Episode  BY <3>1 DEF Working, ProcInv, ProcType, ProcOK
      <4> QED  BY <2>1, <2>2, <4>1 DEF Undisturbed, Owns, HeldBy
    <3>2. CASE pc[q] \notin Working  BY <2>1, <3>2 DEF Undisturbed
    <3> QED  BY <3>1, <3>2
  <2> QED  BY <2>1, <2>3, RunKept DEF RunInv
<1>2. CASE Take(p)
  <2>1. PICK e \in queued[p] : job' = [job EXCEPT ![p] = e]  BY <1>2 DEF Take
  <2>2. /\ pc' = [pc EXCEPT ![p] = "claiming"]
        /\ UNCHANGED <<row, token, artifacts, overtaken>>
    BY <1>2 DEF Take, history
  <2>3. \A q \in Proc : Undisturbed(q)
    BY <2>1, <2>2 DEF Undisturbed, Working, ProcInv, ProcType
  <2> QED  BY <2>2, <2>3, RunKept DEF RunInv
<1>3. CASE ~Heartbeat(p) /\ ~Take(p)
  <2>1. UNCHANGED <<row, pc, job, token, artifacts, overtaken>>
    BY <1>3 DEF QueueStep, ListPending, EnqueueListed, RetryScan, RequeueFailed, ProcFrame,
                history
  <2>2. \A q \in Proc : Undisturbed(q)  BY <2>1 DEF Undisturbed
  <2> QED  BY <2>1, <2>2, RunKept DEF RunInv
<1> QED  BY <1>1, <1>2, <1>3

\* A query that changes rows nobody has claimed, or nothing in a claim.
LEMMA RowsRun ==
    ASSUME RunInv, ProcInv, UNCHANGED <<pc, job, token, artifacts>>,
           overtaken' \in [Episode -> BOOLEAN],
           \A e \in Episode : overtaken[e] => overtaken'[e],
           \A e \in Episode, q \in Proc :
                RunsAttempt(q, e) => \/ HeldBy(row'[e], q, token[q])
                                     \/ overtaken'[e]
    PROVE  RunInv'
<1>1. ASSUME NEW q \in Proc PROVE Undisturbed(q)
  <2>1. CASE pc[q] \in Working
    <3>1. job[q] \in Episode  BY <2>1 DEF Working, ProcInv, ProcType, ProcOK
    <3>2. Owns(q) => HeldBy(row'[job[q]], q, token[q]) \/ overtaken'[job[q]]
      BY <2>1, <3>1 DEF RunsAttempt
    <3> QED  BY <3>2 DEF Undisturbed, Owns
  <2>2. CASE pc[q] \notin Working  BY <2>2 DEF Undisturbed
  <2> QED  BY <2>1, <2>2
<1> QED  BY <1>1, RunKept

\* A claim that is taken from a running attempt is on record.
LEMMA ReleaseRuns ==
    ASSUME RunInv, ProcInv, NEW S, Release(S), UNCHANGED <<pc, job, token, artifacts>>
    PROVE  RunInv'
<1>1. ASSUME NEW e \in Episode
      PROVE  /\ overtaken[e] => overtaken'[e]
             /\ e \in S /\ (\E q \in Proc : RunsAttempt(q, e)) => overtaken'[e]
             /\ overtaken'[e] \in BOOLEAN
             /\ e \notin S => row'[e] = row[e]
  BY DEF Release, RunInv
<1>2. overtaken' \in [Episode -> BOOLEAN]  BY <1>1 DEF Release
<1>3. \A e \in Episode, q \in Proc :
        RunsAttempt(q, e) => HeldBy(row'[e], q, token[q]) \/ overtaken'[e]
  BY <1>1 DEF RunsAttempt, Owns
<1> QED  BY <1>1, <1>2, <1>3, RowsRun

LEMMA RowRuns ==
    ASSUME CountInv, RunInv, ProcInv, NEW e \in Episode, RowStep(e)
    PROVE  RunInv'
<1>1. UNCHANGED <<pc, job, token, artifacts, overtaken>>
  BY DEF RowStep, LeaseLapses, HoldEnds, ReconcileFailed, RowFrame, proc
<1>2. ASSUME NEW x \in Episode, row[x].state = "ENRICHING"
      PROVE  /\ row'[x].state = row[x].state /\ row'[x].owner = row[x].owner
             /\ row'[x].instant = row[x].instant
  <2>1. row \in [Episode -> Row] /\ row[x] \in Row  BY DEF CountInv
  <2>2. CASE LeaseLapses(e)  BY <2>1, <2>2 DEF LeaseLapses, Row
  <2>3. CASE HoldEnds(e)  BY <2>1, <2>3 DEF HoldEnds, Row
  <2>4. CASE ReconcileFailed(e)
    <3>1. x # e /\ row'[x] = row[x]  BY <1>2, <2>1, <2>4 DEF ReconcileFailed
    <3> QED  BY <3>1
  <2> QED  BY <2>2, <2>3, <2>4 DEF RowStep
<1>3. \A x \in Episode, q \in Proc : RunsAttempt(q, x) => HeldBy(row'[x], q, token[q])
  BY <1>2 DEF RunsAttempt, Owns, HeldBy
<1> QED  BY <1>1, <1>3, RowsRun DEF RunInv

LEMMA SweepRuns ==
    ASSUME CountInv, RunInv, ProcInv, Sweep
    PROVE  RunInv'
<1>1. CASE ResetStale
  BY <1>1, ReleaseRuns DEF ResetStale, RowFrame, proc
<1>2. ASSUME NEW S, Park(S), \A e \in Episode : e \in S => row[e].state = "PENDING"
      PROVE  RunInv'
  <2>1. UNCHANGED <<pc, job, token, artifacts, overtaken>>  BY <1>2 DEF Park, RowFrame, proc
  <2>2. \A e \in Episode, q \in Proc : RunsAttempt(q, e) => HeldBy(row'[e], q, token[q])
    BY <1>2 DEF RunsAttempt, Owns, HeldBy, Park
  <2> QED  BY <2>1, <2>2, RowsRun DEF RunInv
<1>3. CASE FailExhaustedPending  BY <1>2, <1>3 DEF FailExhaustedPending
<1>4. CASE FailTransientExhaustedPending  BY <1>2, <1>4 DEF FailTransientExhaustedPending
<1>5. CASE ReenableVerbatimSkips
  BY <1>5, ReenableRuns DEF ReenableVerbatimSkips, RowFrame, proc
<1> QED  BY <1>1, <1>3, <1>4, <1>5 DEF Sweep

LEMMA OperatorRuns ==
    ASSUME CountInv, RunInv, ProcInv, OperatorStep
    PROVE  RunInv'
<1>1. ASSUME NEW e \in Episode, ForceReleaseLease(e) PROVE RunInv'
  BY <1>1, ReleaseRuns DEF ForceReleaseLease, proc
<1>2. ASSUME NEW e \in Episode,
             ForceResetFailed(e) \/ \E p \in Proc : EnqueuePending(p, e) \/ QueueEpisode(p, e)
      PROVE  RunInv'
  <2>1. UNCHANGED <<pc, job, token, artifacts, overtaken>>
    BY <1>2 DEF ForceResetFailed, EnqueuePending, QueueEpisode, proc, history
  <2>2. \A x \in Episode : row[x].state = "ENRICHING" => row'[x] = row[x]
    BY <1>2 DEF ForceResetFailed, EnqueuePending, QueueEpisode, CountInv
  <2>3. \A x \in Episode, q \in Proc : RunsAttempt(q, x) => HeldBy(row'[x], q, token[q])
    BY <2>2 DEF RunsAttempt, Owns, HeldBy
  <2> QED  BY <2>1, <2>3, RowsRun DEF RunInv
<1> QED  BY <1>1, <1>2 DEF OperatorStep

LEMMA LifeRuns ==
    ASSUME CountInv, RowInv, RunInv, ProcInv, NEW p \in Proc,
           Crash(p) \/ Shutdown(p) \/ LateClaim(p) \/ Restart(p)
    PROVE  RunInv'
<1>1. UNCHANGED <<artifacts, overtaken>>
  BY DEF Crash, Shutdown, LateClaim, Restart, history
<1>2. /\ pc'[p] \notin Working
      /\ Alone(p)
  BY DEF Crash, Shutdown, LateClaim, Restart, Stops, LeavesJob, Alone, Working, ProcInv, ProcType
<1>3. ASSUME NEW e \in Episode, NEW q \in Proc, q # p, HeldBy(row[e], q, token[q])
      PROVE  row'[e] = row[e]
  <2>1. e \notin Owned(p)  BY <1>3 DEF Owned, HeldBy
  <2>2. CASE Crash(p) \/ Shutdown(p)  BY <2>1, <2>2 DEF Crash, Shutdown
  <2>3. CASE LateClaim(p)  BY <1>3, <2>3 DEF LateClaim, Claimable, HeldBy, CountInv
  <2>4. CASE Restart(p)  BY <2>4 DEF Restart
  <2> QED  BY <2>2, <2>3, <2>4
<1>4. ASSUME NEW q \in Proc PROVE Undisturbed(q)
  <2>1. CASE pc'[q] \in Working
    <3>1. q # p /\ pc'[q] = pc[q] /\ job'[q] = job[q] /\ token'[q] = token[q]
      BY <1>2, <2>1 DEF Alone
    <3>2. job[q] \in Episode  BY <2>1, <3>1 DEF Working, ProcInv, ProcType, ProcOK
    <3> QED  BY <1>3, <3>1, <3>2 DEF Undisturbed, Owns
  <2>2. CASE pc'[q] \notin Working  BY <2>2 DEF Undisturbed
  <2> QED  BY <2>1, <2>2
<1> QED  BY <1>1, <1>4, RunKept DEF RunInv

-------------------------------------------------------------------------------
(* The theorems.                                                           *)

BoundsInv == faults \in 0..MaxFaults /\ ops \in 0..MaxOps

QInv == CountInv /\ ProcInv /\ RowInv /\ RunInv /\ BoundsInv

LEMMA QInit == Init => QInv
<1> SUFFICES ASSUME Init PROVE QInv  OBVIOUS
<1>1. /\ NoRow \in Row /\ NoRow.state = "none" /\ NoRow.attempts = 0 /\ NoRow.transient = 0
      /\ NoRow.owner = Nobody /\ NoRow.skipped = FALSE
  BY DEF NoRow, Row, States, Errors
<1>2. CountInv  BY <1>1 DEF Init, CountInv, CountOK
<1>3. ProcInv  BY DEF Init, ProcInv, ProcType, ProcOK, Busy
<1>4. RowInv  BY <1>1 DEF Init, RowInv, RowOK
<1>5. RunInv  BY DEF Init, RunInv, RunOK, NoDuplicateExtraction, Working
<1>6. BoundsInv  BY EpisodeAssumption DEF Init, BoundsInv
<1> QED  BY <1>2, <1>3, <1>4, <1>5, <1>6 DEF QInv

LEMMA ProcStep == QInv /\ [Next]_vars => ProcInv'
<1> SUFFICES ASSUME QInv, [Next]_vars PROVE ProcInv'  OBVIOUS
<1>1. ProcInv /\ CountInv  BY DEF QInv
<1>2. CASE UNCHANGED vars  BY <1>1, <1>2, ProcKept DEF vars
<1>3. CASE Next
  BY <1>1, <1>3, AttemptProc, QueueProc, LifeProc, RowProc, OperatorProc DEF Next
<1> QED  BY <1>2, <1>3

LEMMA MoveStep == QInv /\ [Next]_vars => Moves
<1> SUFFICES ASSUME QInv, [Next]_vars PROVE Moves  OBVIOUS
<1>1. CountInv /\ ProcInv /\ RowInv  BY DEF QInv
<1>2. CASE UNCHANGED vars  BY <1>1, <1>2, NothingMoves DEF vars, history
<1>3. CASE Next
  BY <1>1, <1>3, AttemptMoves, QueueMoves, LifeMoves, RowMoves, SweepMoves, OperatorMoves
     DEF Next
<1> QED  BY <1>2, <1>3

LEMMA RunStep == QInv /\ [Next]_vars => RunInv'
<1> SUFFICES ASSUME QInv, [Next]_vars PROVE RunInv'  OBVIOUS
<1>1. CountInv /\ ProcInv /\ RowInv /\ RunInv  BY DEF QInv
<1>2. CASE UNCHANGED vars
  <2>1. \A q \in Proc : Undisturbed(q)  BY <1>2 DEF Undisturbed, vars, proc
  <2> QED  BY <1>1, <1>2, <2>1, RunKept DEF vars, history, RunInv
<1>3. CASE Next
  BY <1>1, <1>3, AttemptRuns, QueueRuns, LifeRuns, RowRuns, SweepRuns, OperatorRuns DEF Next
<1> QED  BY <1>2, <1>3

LEMMA BoundsStep == BoundsInv /\ [Next]_vars => BoundsInv'
<1> SUFFICES ASSUME BoundsInv, [Next]_vars PROVE BoundsInv'  OBVIOUS
<1>1. \/ UNCHANGED bounds
      \/ faults < MaxFaults /\ faults' = faults + 1 /\ UNCHANGED ops
      \/ ops < MaxOps /\ ops' = ops + 1 /\ UNCHANGED faults
  <2>1. ASSUME NEW p \in Proc, AttemptStep(p) PROVE UNCHANGED bounds
    BY <2>1 DEF AttemptStep, ClaimPendingEpisode, FinishStoreOnly, TryReconcileExisting,
                PreflightRejection, TransientRequeue, TryVerbatimSkip, DispatchExtraction, Publish,
                ZeroExtraction, StampAndFinalize, HandleFailure, AttemptLost,
                ReenableSkipsForProjection, AttemptFrame
  <2>2. ASSUME NEW p \in Proc, QueueStep(p) PROVE UNCHANGED bounds
    BY <2>2 DEF QueueStep, Take, ListPending, EnqueueListed, RetryScan, RequeueFailed, Heartbeat,
                ProcFrame, RowFrame
  <2>3. ASSUME Sweep \/ \E e \in Episode : RowStep(e) PROVE UNCHANGED bounds
    BY <2>3 DEF Sweep, RowStep, ResetStale, FailExhaustedPending, FailTransientExhaustedPending,
                Park, ReenableVerbatimSkips, LeaseLapses, HoldEnds, ReconcileFailed, RowFrame
  <2>4. ASSUME NEW p \in Proc, LateClaim(p) \/ Restart(p) PROVE UNCHANGED bounds
    BY <2>4 DEF LateClaim, Restart
  <2>5. ASSUME NEW p \in Proc, NEW e \in Episode, QueueEpisode(p, e) PROVE UNCHANGED bounds
    BY <2>5 DEF QueueEpisode
  <2>6. ASSUME NEW p \in Proc, Crash(p) \/ Shutdown(p) PROVE Fault
    BY <2>6 DEF Crash, Shutdown
  <2>7. ASSUME NEW e \in Episode, \/ ForceResetFailed(e) \/ ForceReleaseLease(e)
                                  \/ \E p \in Proc : EnqueuePending(p, e)
        PROVE  OperatorCall
    BY <2>7 DEF ForceResetFailed, ForceReleaseLease, EnqueuePending
  <2> QED  BY <2>1, <2>2, <2>3, <2>4, <2>5, <2>6, <2>7
           DEF Next, OperatorStep, Fault, OperatorCall, vars, bounds
<1> QED  BY <1>1, EpisodeAssumption DEF BoundsInv, bounds

LEMMA QStep == QInv /\ [Next]_vars => QInv'
<1> SUFFICES ASSUME QInv, [Next]_vars PROVE QInv'  OBVIOUS
<1>1. CountInv'  BY CountStep DEF QInv
<1>2. ProcInv' /\ Moves /\ RunInv'  BY ProcStep, MoveStep, RunStep
<1>3. BoundsInv'  BY BoundsStep DEF QInv
<1>4. RowInv'
  <2>1. ASSUME NEW e \in Episode PROVE RowOK(e)'
    BY <1>1, <1>2, MoveKeepsRow DEF QInv, CountInv, RowInv, Moves
  <2> QED  BY <1>2, <2>1 DEF RowInv, Moves
<1> QED  BY <1>1, <1>2, <1>3, <1>4 DEF QInv

\* The inductive invariant behind the theorems of this module.
LEMMA QueueInvariant == Spec => []QInv
BY QInit, QStep, PTL DEF Spec

\* Rows, queues and worker loops have their types whatever the processes do.
THEOREM QueueTypeCorrect == Spec => []QTypeOK
<1>1. QInv => QTypeOK
  BY DEF QInv, QTypeOK, CountInv, ProcInv, ProcType, RowInv, RunInv, BoundsInv
<1> QED  BY <1>1, QueueInvariant, PTL

\* _queued_episode_ids holds exactly the uuids that are queued or being processed.
THEOREM QueueSetsExact == Spec => []DedupExact
<1>1. QInv => DedupExact  BY DEF QInv, ProcInv, ProcOK, DedupExact
<1> QED  BY <1>1, QueueInvariant, PTL

\* A text is extracted twice only if its claim was taken from a running attempt,
\* for any number of processes, crashes, shutdowns and retries.
THEOREM NoExtractionRepeated == Spec => []NoDuplicateExtraction
<1>1. QInv => NoDuplicateExtraction  BY DEF QInv, RunInv
<1> QED  BY <1>1, QueueInvariant, PTL

\* The rows implement the jobs of EpisodeJobs: the standing claim alone decides,
\* and only a skip is ever taken back.
THEOREM RowsImplementJobs == Spec => ImplementsJobs
<1>1. Init => Jobs!Init
  <2> SUFFICES ASSUME Init PROVE Jobs!Init  OBVIOUS
  <2>1. NoRow.state = "none" /\ NoRow.skipped = FALSE  BY DEF NoRow
  <2> QED  BY <2>1, PhaseValues DEF Init, Jobs!Init
<1>2. QInv /\ [Next]_vars => Jobs!Next
  <2> SUFFICES ASSUME QInv, [Next]_vars, NEW e \in Episode PROVE JobStep(e)
    BY DEF Jobs!Next, JobStep
  <2>1. CountInv /\ CountInv' /\ RowInv  BY CountStep DEF QInv
  <2>2. Move(e)  BY MoveStep DEF Moves
  <2>3. row[e] \in Row /\ row'[e] \in Row /\ RowOK(e)  BY <2>1 DEF CountInv, RowInv
  <2> QED  BY <2>2, <2>3, MoveIsJobStep
<1> QED  BY <1>1, <1>2, QueueInvariant, PTL DEF Spec, Jobs!Spec, ImplementsJobs
===============================================================================
