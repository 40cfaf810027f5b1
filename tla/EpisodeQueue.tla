----------------------------- MODULE EpisodeQueue -----------------------------
(***************************************************************************)
(* Enrichment of stored episodes: services/ingest_queue.py and             *)
(* ingest_worker.py over the rows of infrastructure/episode_lifecycle.py   *)
(* and episode_maintenance.py, with the retry job of scheduler_tasks.py.   *)
(*                                                                         *)
(* An episode is an Episodic row in Neo4j; every process has a queue of    *)
(* uuids in memory, a set that keeps it free of duplicates, and one worker *)
(* loop (ingest_concurrency is 1).  Each row query is one transaction, so  *)
(* a step is one query, or what an event loop does between two awaits.     *)
(* The recovery queries run from idle worker loops, the scheduler, startup *)
(* and the repair tools of every process at once: from the rows' side they *)
(* come in any order, so each is an action of its own.                     *)
(*                                                                         *)
(* Time is left open: a lease may lapse whenever nothing renewed it and a  *)
(* retry_after may pass at any moment.                                     *)
(***************************************************************************)
EXTENDS Integers, FiniteSets

CONSTANTS
    Episode,        \* uuids of the episodes
    Proc,           \* processes; each restart has a fresh worker id
    Nobody,         \* no owner
    Gone,           \* the worker id of a process that no longer runs
    NoEpisode,
    Projection,     \* episode -> the evidence projection of its turn, or NoEpisode
    MaxAttempts,    \* _max_enrichment_attempts
    ContextCap,     \* _context_window_retry_attempts, never below MaxAttempts
    TransientCap,   \* TRANSIENT_RETRY_CAP
    MaxFaults,      \* bound on crashes and shutdowns
    MaxOps          \* bound on operator calls

ASSUME EpisodeAssumption ==
    /\ Nobody \notin Proc /\ Gone \notin Proc /\ Nobody # Gone
    /\ NoEpisode \notin Episode
    /\ Projection \in [Episode -> Episode \cup {NoEpisode}]
    /\ \A e \in Episode : Projection[e] # e
    /\ MaxAttempts \in Nat \ {0}
    /\ ContextCap \in Nat /\ ContextCap >= MaxAttempts
    /\ TransientCap \in Nat \ {0}
    /\ MaxFaults \in Nat /\ MaxOps \in Nat

VARIABLES
    row,        \* the Episodic rows
    artifacts,  \* extracted episodes in the graph under this row's name, up to 2
    up,         \* processes that run
    queued,     \* _pending_queue of each process
    dedup,      \* _queued_episode_ids of each process
    pc,         \* where its worker loop is
    job,        \* the uuid the loop took
    token,      \* processing_started_at its claim returned
    listed,     \* uuids it has read or created and is about to enqueue
    retry,      \* FAILED uuids its retry job decided to requeue
    faults,     \* crashes and shutdowns so far
    ops,        \* operator calls so far
    claims,     \* history: claims of the row; the instant of a claim is its number
    forgiven,   \* history: attempts that setting processing_attempts to 0 wiped out
    overtaken,  \* history: a claim was taken from an attempt that still ran
    author      \* history: the claim whose attempt wrote the row last

proc == <<up, queued, dedup, pc, job, token, listed, retry>>
bounds == <<faults, ops>>
history == <<claims, forgiven, overtaken, author>>
vars == <<row, artifacts, proc, bounds, history>>

States == {"none", "PENDING", "ENRICHING", "READY", "FAILED"}
\* What the scheduler makes of processing_error: requeue it, requeue it under the
\* extended cap, or leave it to an operator (terminal and manual_review).
Errors == {"null", "retryable", "context", "parked"}
Working == {"claimed", "checked", "extracting", "finalizing"}

Row == [state : States, attempts : Nat, transient : Nat, owner : Proc \cup {Nobody, Gone},
        instant : Nat, lapsed : BOOLEAN, held : BOOLEAN, error : Errors,
        skipped : BOOLEAN, revoked : BOOLEAN, storeOnly : BOOLEAN]

QTypeOK ==
    /\ row \in [Episode -> Row]
    /\ artifacts \in [Episode -> 0..2]
    /\ up \in [Proc -> BOOLEAN]
    /\ queued \in [Proc -> SUBSET Episode]
    /\ dedup \in [Proc -> SUBSET Episode]
    /\ pc \in [Proc -> {"idle", "claiming", "reenabling"} \cup Working]
    /\ job \in [Proc -> Episode \cup {NoEpisode}]
    /\ token \in [Proc -> Nat]
    /\ listed \in [Proc -> SUBSET Episode]
    /\ retry \in [Proc -> SUBSET Episode]
    /\ faults \in 0..MaxFaults
    /\ ops \in 0..MaxOps
    /\ claims \in [Episode -> Nat]
    /\ forgiven \in [Episode -> Nat]
    /\ overtaken \in [Episode -> BOOLEAN]
    /\ author \in [Episode -> Nat]

NoRow == [state |-> "none", attempts |-> 0, transient |-> 0, owner |-> Nobody, instant |-> 0,
          lapsed |-> FALSE, held |-> FALSE, error |-> "null", skipped |-> FALSE,
          revoked |-> FALSE, storeOnly |-> FALSE]

Init ==
    /\ row = [e \in Episode |-> NoRow]
    /\ artifacts = [e \in Episode |-> 0]
    /\ up = [p \in Proc |-> TRUE]
    /\ queued = [p \in Proc |-> {}]
    /\ dedup = [p \in Proc |-> {}]
    /\ pc = [p \in Proc |-> "idle"]
    /\ job = [p \in Proc |-> NoEpisode]
    /\ token = [p \in Proc |-> 0]
    /\ listed = [p \in Proc |-> {}]
    /\ retry = [p \in Proc |-> {}]
    /\ faults = 0
    /\ ops = 0
    /\ claims = [e \in Episode |-> 0]
    /\ forgiven = [e \in Episode |-> 0]
    /\ overtaken = [e \in Episode |-> FALSE]
    /\ author = [e \in Episode |-> 0]

-------------------------------------------------------------------------------
(* The row queries: what each makes of a row it matches.                   *)

Claimable(r) ==
    /\ r.state \in {"PENDING", "FAILED"}
    /\ ~r.held
    /\ \/ r.attempts < MaxAttempts
       \/ r.state = "FAILED" /\ r.error = "context" /\ r.attempts < ContextCap

\* claim_pending_episode, by worker id w at the instant n.
Claimed(r, w, n) ==
    [r EXCEPT !.state = "ENRICHING", !.attempts = @ + 1, !.owner = w, !.instant = n,
              !.lapsed = FALSE, !.held = FALSE, !.error = "null"]

\* The attempt's token: the row is still the one this worker id claimed at this
\* instant.
HeldBy(r, w, n) == r.state = "ENRICHING" /\ r.owner = w /\ r.instant = n

Ready(r) ==
    [r EXCEPT !.state = "READY", !.owner = Nobody, !.lapsed = FALSE, !.error = "null"]

VerbatimSkipped(r) == [Ready(r) EXCEPT !.skipped = TRUE]

\* Mutant: the attempt is given back and nothing else is counted.
RefundedFree(r) == [r EXCEPT !.attempts = IF @ > 0 THEN @ - 1 ELSE 0]

\* Mutant: the attempt is given back twice.
RefundedTwice(r) == [r EXCEPT !.transient = @ + 1, !.attempts = @ - 2]

\* A transient outcome gives the attempt back and is counted apart.
Refunded(r) ==
    [r EXCEPT !.transient = @ + 1, !.attempts = IF @ > 0 THEN @ - 1 ELSE 0]

\* mark_episode_failed; a retryable error is a transient outcome.
Failed(r, err) ==
    [(IF err = "retryable" THEN Refunded(r) ELSE r)
        EXCEPT !.state = "FAILED", !.owner = Nobody, !.lapsed = FALSE, !.error = err]

\* mark_episode_pending(transient_requeue=True) with a retry_after.
Requeued(r) ==
    [Refunded(r) EXCEPT !.state = "PENDING", !.owner = Nobody, !.lapsed = FALSE,
                        !.error = "null", !.held = TRUE]

\* build_reset_or_fail_query.
ResetOrFailed(r) ==
    [r EXCEPT !.state = IF r.attempts >= MaxAttempts THEN "FAILED" ELSE "PENDING",
              !.owner = Nobody, !.lapsed = FALSE, !.instant = 0, !.error = "parked"]

\* fail_exhausted_pending_episodes and fail_transient_exhausted_pending_episodes.
Parked(r) ==
    [r EXCEPT !.state = "FAILED", !.owner = Nobody, !.lapsed = FALSE, !.instant = 0,
              !.error = "parked"]

\* force_reset_failed_episode leaves transient_retries and retry_after alone.
ForceReset(r) ==
    [r EXCEPT !.state = "PENDING", !.attempts = 0, !.owner = Nobody, !.lapsed = FALSE,
              !.instant = 0, !.error = "null"]

\* reenable_verbatim_skips.
Reenabled(r) ==
    [r EXCEPT !.state = "PENDING", !.attempts = 0, !.owner = Nobody, !.lapsed = FALSE,
              !.instant = 0, !.error = "null", !.held = FALSE, !.skipped = FALSE,
              !.revoked = TRUE]

-------------------------------------------------------------------------------
(* The queue and the worker loop of a process p.                           *)

\* _enqueue_pending_episode: a uuid that is queued or being processed is dropped.
Enqueue(p, e) ==
    /\ queued' = [queued EXCEPT ![p] = IF e \in dedup[p] THEN @ ELSE @ \cup {e}]
    /\ dedup' = [dedup EXCEPT ![p] = @ \cup {e}]

\* Mutant: the uuid stays in the set.
DiscardLeaks(p) ==
    /\ pc' = [pc EXCEPT ![p] = "idle"]
    /\ job' = [job EXCEPT ![p] = NoEpisode]
    /\ token' = [token EXCEPT ![p] = 0]
    /\ UNCHANGED dedup

\* The loop's finally: the uuid leaves the set only after it was processed.
Discard(p) ==
    /\ dedup' = [dedup EXCEPT ![p] = @ \ {job[p]}]
    /\ pc' = [pc EXCEPT ![p] = "idle"]
    /\ job' = [job EXCEPT ![p] = NoEpisode]
    /\ token' = [token EXCEPT ![p] = 0]

Owns(p) == HeldBy(row[job[p]], p, token[p])

\* Mutant: the write is matched on the uuid alone.
FencedUnguarded(p, r) ==
    /\ row' = [row EXCEPT ![job[p]] = r]
    /\ author' = [author EXCEPT ![job[p]] = token[p]]

\* A write fenced on the attempt's token; it misses when the claim is lost.
Fenced(p, r) ==
    IF Owns(p)
    THEN /\ row' = [row EXCEPT ![job[p]] = r]
         /\ author' = [author EXCEPT ![job[p]] = token[p]]
    ELSE UNCHANGED <<row, author>>

Goto(p, l) == pc' = [pc EXCEPT ![p] = l] /\ UNCHANGED <<dedup, job, token>>

\* queue.get()
Take(p) ==
    /\ pc[p] = "idle" /\ up[p]
    /\ \E e \in queued[p] :
        /\ queued' = [queued EXCEPT ![p] = @ \ {e}]
        /\ job' = [job EXCEPT ![p] = e]
    /\ pc' = [pc EXCEPT ![p] = "claiming"]
    /\ UNCHANGED <<row, artifacts, up, dedup, token, listed, retry, bounds, history>>

ClaimRefused(p) == Discard(p) /\ UNCHANGED <<row, claims>>

ClaimPendingEpisode(p) ==
    LET e == job[p] IN
    /\ up[p] /\ pc[p] = "claiming"
    /\ \/ /\ Claimable(row[e])
          /\ claims' = [claims EXCEPT ![e] = @ + 1]
          /\ row' = [row EXCEPT ![e] = Claimed(@, p, claims[e] + 1)]
          /\ token' = [token EXCEPT ![p] = claims[e] + 1]
          /\ pc' = [pc EXCEPT ![p] = "claimed"]
          /\ UNCHANGED <<dedup, job>>
       \/ ~Claimable(row[e]) /\ ClaimRefused(p)
    /\ UNCHANGED <<artifacts, up, queued, listed, retry, bounds, forgiven, overtaken, author>>

\* What every step of a claimed attempt leaves alone.
AttemptFrame == UNCHANGED <<up, queued, retry, bounds, claims, forgiven, overtaken>>

FinishStoreOnly(p) ==
    /\ pc[p] = "claimed" /\ row[job[p]].storeOnly
    /\ Fenced(p, Ready(row[job[p]])) /\ Discard(p)
    /\ UNCHANGED <<artifacts, listed>> /\ AttemptFrame

\* Mutant: the second attempt does not look for what the first one left.
TryReconcileExistingBlind(p) ==
    /\ pc[p] = "claimed" /\ ~row[job[p]].storeOnly
    /\ Goto(p, "checked") /\ UNCHANGED <<row, author, artifacts, listed>> /\ AttemptFrame

\* Exactly one extracted episode under the row's name: the row is done.  With two
\* the choice between them is not made, and the text is extracted once more.
TryReconcileExisting(p) ==
    /\ pc[p] = "claimed" /\ ~row[job[p]].storeOnly
    /\ IF artifacts[job[p]] = 1
       THEN Fenced(p, Ready(row[job[p]])) /\ Discard(p)
       ELSE Goto(p, "checked") /\ UNCHANGED <<row, author>>
    /\ UNCHANGED <<artifacts, listed>> /\ AttemptFrame

\* The text is over the model's limit.
PreflightRejection(p) ==
    /\ pc[p] = "checked"
    /\ Fenced(p, Failed(row[job[p]], "parked")) /\ Discard(p)
    /\ UNCHANGED <<artifacts, listed>> /\ AttemptFrame

\* The session's budget is spent, or the breaker is open.
TransientRequeue(p) ==
    /\ pc[p] \in {"checked", "extracting"}
    /\ Fenced(p, Requeued(row[job[p]])) /\ Discard(p)
    /\ UNCHANGED <<artifacts, listed>> /\ AttemptFrame

\* mark_episode_verbatim_skipped: the projection of the same turn will extract
\* the same text.
SkippableFor(e) ==
    /\ Projection[e] # NoEpisode
    /\ row[Projection[e]].state \in {"PENDING", "ENRICHING", "READY"}
    /\ ~row[e].revoked

TryVerbatimSkip(p) ==
    /\ pc[p] = "checked"
    /\ Owns(p) /\ SkippableFor(job[p])
    /\ Fenced(p, VerbatimSkipped(row[job[p]])) /\ Discard(p)
    /\ UNCHANGED <<artifacts, listed>> /\ AttemptFrame

\* Graphiti's add_episode is called; a missed progress stamp is only logged.
DispatchExtraction(p) ==
    /\ pc[p] = "checked"
    /\ Goto(p, "extracting")
    /\ UNCHANGED <<row, author, artifacts, listed>> /\ AttemptFrame

\* It published the extracted episode with its entities.
Publish(p) ==
    /\ pc[p] = "extracting"
    /\ artifacts' = [artifacts EXCEPT ![job[p]] = IF @ < 2 THEN @ + 1 ELSE 2]
    /\ Goto(p, "finalizing")
    /\ UNCHANGED <<row, author, listed>> /\ AttemptFrame

\* It found nothing to extract, which is a success.
ZeroExtraction(p) ==
    /\ pc[p] = "extracting"
    /\ Fenced(p, Ready(row[job[p]])) /\ Discard(p)
    /\ UNCHANGED <<artifacts, listed>> /\ AttemptFrame

StampAndFinalize(p) ==
    /\ pc[p] = "finalizing"
    /\ Fenced(p, Ready(row[job[p]])) /\ Discard(p)
    /\ UNCHANGED <<artifacts, listed>> /\ AttemptFrame

IsProjection(e) == \E c \in Episode : Projection[c] = e

\* handle_enrichment_failure: any exception of the attempt, its deadline included.
HandleFailure(p) ==
    /\ pc[p] \in Working
    /\ \E err \in Errors \ {"null"} : Fenced(p, Failed(row[job[p]], err))
    /\ IF IsProjection(job[p]) THEN Goto(p, "reenabling") ELSE Discard(p)
    /\ UNCHANGED <<artifacts, listed>> /\ AttemptFrame

\* An exception before the attempt's context exists, or in the failure write
\* itself, reaches the loop: the row keeps its claim.
AttemptLost(p) ==
    /\ pc[p] \in Working
    /\ Discard(p)
    /\ UNCHANGED <<row, author, artifacts, listed>> /\ AttemptFrame

\* reenable_verbatim_skips: the skips whose projection failed.
Stranded == {c \in Episode : /\ row[c].state = "READY" /\ row[c].skipped
                             /\ row[Projection[c]].state = "FAILED"}

Reenable(S) ==
    /\ row' = [e \in Episode |-> IF e \in S THEN Reenabled(row[e]) ELSE row[e]]
    /\ forgiven' = [e \in Episode |-> IF e \in S THEN forgiven[e] + row[e].attempts
                                                 ELSE forgiven[e]]

ReenableSkipsForProjection(p) ==
    LET S == {c \in Stranded : Projection[c] = job[p]} IN
    /\ pc[p] = "reenabling"
    /\ Reenable(S)
    /\ listed' = [listed EXCEPT ![p] = @ \cup S]
    /\ Discard(p)
    /\ UNCHANGED <<artifacts, up, queued, retry, bounds, claims, overtaken, author>>

-------------------------------------------------------------------------------
(* Leases.                                                                 *)

RowFrame == UNCHANGED <<artifacts, proc, bounds, claims, author>>

\* No heartbeat came through for a whole lease, or the enrichment ceiling passed.
LeaseLapses(e) ==
    /\ row[e].state = "ENRICHING" /\ ~row[e].lapsed
    /\ row' = [row EXCEPT ![e].lapsed = TRUE]
    /\ RowFrame /\ UNCHANGED <<forgiven, overtaken>>

\* touch_episode_processing_heartbeat; a lapsed lease nobody has reset is renewed.
Heartbeat(p) ==
    /\ pc[p] \in Working
    /\ Owns(p) /\ row[job[p]].lapsed
    /\ row' = [row EXCEPT ![job[p]].lapsed = FALSE]
    /\ RowFrame /\ UNCHANGED <<forgiven, overtaken>>

\* retry_after passes.
HoldEnds(e) ==
    /\ row[e].held
    /\ row' = [row EXCEPT ![e].held = FALSE]
    /\ RowFrame /\ UNCHANGED <<forgiven, overtaken>>

RunsAttempt(p, e) == pc[p] \in Working /\ job[p] = e /\ Owns(p)

\* Rows S lose their claims.
Release(S) ==
    /\ row' = [e \in Episode |-> IF e \in S THEN ResetOrFailed(row[e]) ELSE row[e]]
    /\ overtaken' = [e \in Episode |->
                        overtaken[e] \/ (e \in S /\ \E p \in Proc : RunsAttempt(p, e))]

-------------------------------------------------------------------------------
(* The recovery queries.  Each matches every row at once.                  *)

SomeoneUp == \E p \in Proc : up[p]

\* reset_stale_enriching_episodes
ResetStale ==
    LET S == {e \in Episode : row[e].state = "ENRICHING" /\ row[e].lapsed} IN
    /\ SomeoneUp /\ S # {}
    /\ Release(S)
    /\ RowFrame /\ UNCHANGED forgiven

Park(S) ==
    /\ SomeoneUp /\ S # {}
    /\ row' = [e \in Episode |-> IF e \in S THEN Parked(row[e]) ELSE row[e]]
    /\ RowFrame /\ UNCHANGED <<forgiven, overtaken>>

FailExhaustedPending ==
    Park({e \in Episode : row[e].state = "PENDING" /\ row[e].attempts >= MaxAttempts})

\* Mutant: nothing parks a row whose transient retries are used up.
FailTransientExhaustedPendingNever == FALSE /\ UNCHANGED vars

FailTransientExhaustedPending ==
    Park({e \in Episode : row[e].state = "PENDING" /\ row[e].transient >= TransientCap})

\* Mutant: the sweep leaves the skips to the worker that failed the projection.
ReenableVerbatimSkipsNever == FALSE /\ UNCHANGED vars

ReenableVerbatimSkips ==
    /\ SomeoneUp /\ Stranded # {}
    /\ Reenable(Stranded)
    /\ RowFrame /\ UNCHANGED overtaken

Listable ==
    {e \in Episode : /\ row[e].state = "PENDING" /\ ~row[e].held
                     /\ row[e].attempts < MaxAttempts /\ row[e].transient < TransientCap}

ProcFrame == UNCHANGED <<row, artifacts, up, pc, job, token, bounds, history>>

\* list_pending_episode_uuids, read in a thread ...
ListPending(p) ==
    /\ up[p] /\ ~(Listable \subseteq listed[p])
    /\ listed' = [listed EXCEPT ![p] = @ \cup Listable]
    /\ ProcFrame /\ UNCHANGED <<queued, dedup, retry>>

\* ... and enqueued when the event loop gets to it.
EnqueueListed(p) ==
    /\ \E e \in listed[p] :
        /\ Enqueue(p, e)
        /\ listed' = [listed EXCEPT ![p] = @ \ {e}]
    /\ ProcFrame /\ UNCHANGED retry

-------------------------------------------------------------------------------
(* The scheduler's retry of FAILED rows.                                   *)

\* retry_process_candidate, once the backoff is over.
WorthRetrying(r) ==
    /\ r.state = "FAILED"
    /\ \/ r.error = "context" /\ r.attempts < ContextCap
       \/ r.error = "retryable" /\ r.attempts < MaxAttempts /\ r.transient < TransientCap

RetryScan(p) ==
    LET S == {e \in Episode : WorthRetrying(row[e])} IN
    /\ up[p] /\ ~(S \subseteq retry[p])
    /\ retry' = [retry EXCEPT ![p] = @ \cup S]
    /\ ProcFrame /\ UNCHANGED <<queued, dedup, listed>>

\* requeue_failed_episode reads the row again.
RequeueFailed(p) ==
    /\ \E e \in retry[p] :
        /\ retry' = [retry EXCEPT ![p] = @ \ {e}]
        /\ IF row[e].state = "FAILED" THEN Enqueue(p, e) ELSE UNCHANGED <<queued, dedup>>
    /\ ProcFrame /\ UNCHANGED listed

\* A FAILED row whose extraction is in the graph after all is READY, whatever its
\* error says.
ReconcileFailed(e) ==
    /\ SomeoneUp
    /\ row[e].state = "FAILED" /\ artifacts[e] = 1
    /\ row' = [row EXCEPT ![e] = Ready(@)]
    /\ RowFrame /\ UNCHANGED <<forgiven, overtaken>>

-------------------------------------------------------------------------------
(* Intake, operators, and the life of a process.                           *)

\* queue_episode and create_evidence_projection: the row is durable before its
\* uuid is queued, and a failure in between is only logged.  A memory kept verbatim
\* (its caller says so, or its turn is the assistant's) is never extracted, and no
\* projection is one.
QueueEpisode(p, e) ==
    /\ up[p] /\ row[e].state = "none"
    /\ \E keep \in BOOLEAN :
        /\ IsProjection(e) => ~keep
        /\ row' = [row EXCEPT ![e].state = "PENDING", ![e].storeOnly = keep]
    /\ listed' = [listed EXCEPT ![p] = @ \cup {e}]
    /\ UNCHANGED <<artifacts, up, queued, dedup, pc, job, token, retry, bounds, history>>

Fault == faults < MaxFaults /\ faults' = faults + 1 /\ UNCHANGED ops
OperatorCall == ops < MaxOps /\ ops' = ops + 1 /\ UNCHANGED faults

\* The force_reenrich tool, up to the row.
ForceResetFailed(e) ==
    /\ OperatorCall
    /\ row[e].state \in {"FAILED", "PENDING"}
    /\ row' = [row EXCEPT ![e] = ForceReset(@)]
    /\ forgiven' = [forgiven EXCEPT ![e] = @ + row[e].attempts]
    /\ UNCHANGED <<artifacts, proc, claims, overtaken, author>>

\* The force_release_lease tool.
ForceReleaseLease(e) ==
    /\ OperatorCall
    /\ row[e].state = "ENRICHING"
    /\ Release({e})
    /\ UNCHANGED <<artifacts, proc, claims, forgiven, author>>

\* Both tools, and the admission route, then queue the row if it is PENDING.
EnqueuePending(p, e) ==
    /\ OperatorCall
    /\ up[p] /\ row[e].state = "PENDING"
    /\ Enqueue(p, e)
    /\ UNCHANGED <<row, artifacts, up, pc, job, token, listed, retry, history>>

\* The process and all it holds in memory are gone.
Stops(p) ==
    /\ up' = [up EXCEPT ![p] = FALSE]
    /\ queued' = [queued EXCEPT ![p] = {}]
    /\ dedup' = [dedup EXCEPT ![p] = {}]
    /\ token' = [token EXCEPT ![p] = 0]
    /\ listed' = [listed EXCEPT ![p] = {}]
    /\ retry' = [retry EXCEPT ![p] = {}]

LeavesJob(p) ==
    /\ pc' = [pc EXCEPT ![p] = "idle"]
    /\ job' = [job EXCEPT ![p] = NoEpisode]

Owned(p) == {e \in Episode : row[e].owner = p}

Crash(p) ==
    /\ Fault /\ up[p]
    /\ row' = [e \in Episode |->
                IF e \in Owned(p) THEN [row[e] EXCEPT !.owner = Gone] ELSE row[e]]
    /\ Stops(p) /\ LeavesJob(p)
    /\ UNCHANGED <<artifacts, history>>

\* shutdown() releases the leases of this worker id, then cancels the loop.  A claim
\* query that is already in its thread is not cancelled with it.
Shutdown(p) ==
    /\ Fault /\ up[p]
    /\ row' = [e \in Episode |->
                IF e \in Owned(p) THEN ResetOrFailed(row[e]) ELSE row[e]]
    /\ Stops(p)
    /\ IF pc[p] = "claiming" THEN UNCHANGED <<pc, job>> ELSE LeavesJob(p)
    /\ UNCHANGED <<artifacts, history>>

\* It lands after the release, for a worker id that never comes back.
LateClaim(p) ==
    LET e == job[p] IN
    /\ ~up[p] /\ pc[p] = "claiming"
    /\ \/ /\ Claimable(row[e])
          /\ claims' = [claims EXCEPT ![e] = @ + 1]
          /\ row' = [row EXCEPT ![e] = Claimed(@, Gone, claims[e] + 1)]
       \/ ~Claimable(row[e]) /\ UNCHANGED <<row, claims>>
    /\ LeavesJob(p)
    /\ UNCHANGED <<artifacts, up, queued, dedup, token, listed, retry, bounds, forgiven,
                   overtaken, author>>

\* Exit waits for the threads, so the next start comes after them.
Restart(p) ==
    /\ ~up[p] /\ pc[p] = "idle"
    /\ up' = [up EXCEPT ![p] = TRUE]
    /\ UNCHANGED <<row, artifacts, queued, dedup, pc, job, token, listed, retry, bounds,
                   history>>

-------------------------------------------------------------------------------
AttemptStep(p) ==
    \/ ClaimPendingEpisode(p) \/ FinishStoreOnly(p) \/ TryReconcileExisting(p)
    \/ PreflightRejection(p) \/ TransientRequeue(p) \/ TryVerbatimSkip(p)
    \/ DispatchExtraction(p) \/ Publish(p) \/ ZeroExtraction(p) \/ StampAndFinalize(p)
    \/ HandleFailure(p) \/ AttemptLost(p) \/ ReenableSkipsForProjection(p)

QueueStep(p) ==
    \/ Take(p) \/ ListPending(p) \/ EnqueueListed(p) \/ RetryScan(p) \/ RequeueFailed(p)
    \/ Heartbeat(p)

Sweep ==
    \/ ResetStale \/ FailExhaustedPending \/ FailTransientExhaustedPending
    \/ ReenableVerbatimSkips

RowStep(e) == LeaseLapses(e) \/ HoldEnds(e) \/ ReconcileFailed(e)

OperatorStep == \E e \in Episode :
    \/ ForceResetFailed(e) \/ ForceReleaseLease(e)
    \/ \E p \in Proc : EnqueuePending(p, e) \/ QueueEpisode(p, e)

Next ==
    \/ \E p \in Proc : AttemptStep(p) \/ QueueStep(p) \/ Crash(p) \/ Shutdown(p)
                        \/ LateClaim(p) \/ Restart(p)
    \/ \E e \in Episode : RowStep(e)
    \/ Sweep \/ OperatorStep

Spec == Init /\ [][Next]_vars

-------------------------------------------------------------------------------
(* Safety.                                                                 *)

Busy(p) == IF pc[p] = "idle" THEN {} ELSE {job[p]}

\* The set that keeps a queue free of duplicates holds exactly the uuids that are
\* queued or in the hands of the worker, each once: a uuid left behind in it would
\* never be queued by this process again, one missing would be processed twice at
\* the same time.
DedupExact ==
    \A p \in Proc : up[p] =>
        dedup[p] = queued[p] \cup Busy(p) /\ queued[p] \cap Busy(p) = {}

\* A text is extracted into the graph more than once only if the row's claim was
\* taken from an attempt that still ran: failures, crashes, shutdowns and retries
\* by themselves never repeat an extraction.
NoDuplicateExtraction ==
    \A e \in Episode : artifacts[e] > 1 => overtaken[e]

\* No claim is free: it is in processing_attempts, in transient_retries, or in
\* what an explicit reset to zero forgave.  The two caps therefore bound every
\* episode's retries although transient outcomes are refunded.
EveryClaimCounted ==
    \A e \in Episode : claims[e] = row[e].attempts + row[e].transient + forgiven[e]

\* observe_queue_health: a FAILED episode whose error is terminal or for manual
\* review "is parked permanently", so no step claims one.
ParkedStaysParked ==
    [][\A e \in Episode :
        row[e].state = "FAILED" /\ row[e].error = "parked" => row'[e].state # "ENRICHING"]_vars

-------------------------------------------------------------------------------
(* The abstract job, and what must eventually happen.                      *)

Phase == [none |-> "none", PENDING |-> "waiting", ENRICHING |-> "running",
          READY |-> "done", FAILED |-> "failed"]

Jobs == INSTANCE EpisodeJobs WITH
            Job <- Episode, phase <- [e \in Episode |-> Phase[row[e].state]], claim <- claims,
            borrowed <- [e \in Episode |-> row[e].skipped]

\* Every row behaves like a job of EpisodeJobs: whatever attempts that lost their
\* claim still do, in this process or another, the row's outcome is the standing
\* claim's, and a READY row stays so unless it was skipped.
ImplementsJobs == Jobs!Spec

\* Worker loops and jobs run as long as their process does; a process that stops is
\* started again; the deadline of an attempt bounds how long its lease is renewed;
\* a retry_after passes.
Fairness ==
    /\ \A p \in Proc :
        /\ WF_vars(AttemptStep(p)) /\ WF_vars(Take(p)) /\ WF_vars(ListPending(p))
        /\ WF_vars(EnqueueListed(p)) /\ WF_vars(RetryScan(p)) /\ WF_vars(RequeueFailed(p))
        /\ WF_vars(LateClaim(p)) /\ WF_vars(Restart(p))
    /\ \A e \in Episode :
        WF_vars(LeaseLapses(e)) /\ WF_vars(HoldEnds(e)) /\ WF_vars(ReconcileFailed(e))
    /\ WF_vars(ResetStale) /\ WF_vars(FailExhaustedPending)
    /\ WF_vars(FailTransientExhaustedPending) /\ WF_vars(ReenableVerbatimSkips)

LiveSpec == Spec /\ Fairness

\* Every stored episode comes to rest READY or FAILED, although queues are lost
\* with their process and every retry may fail again.
EverySettles ==
    <>[](\A e \in Episode : row[e].state \in {"none", "READY", "FAILED"})

\* A text that was not extracted because its projection would do it is in the end
\* covered by a projection that is READY, or is no longer skipped.
SkipsAreCovered ==
    <>[](\A c \in Episode : row[c].skipped => row[Projection[c]].state = "READY")

===============================================================================
