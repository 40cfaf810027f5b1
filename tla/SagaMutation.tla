----------------------------- MODULE SagaMutation -----------------------------
(***************************************************************************)
(* The merge, unmerge and delete coordinators over the journal: PREPARE,   *)
(* the writer heartbeat, the statement that Neo4j may still be executing   *)
(* after its writer gave up or died, the verification and the terminal     *)
(* mark; and the replay of a row that was claimed from a dead writer.      *)
(* Sources: services/{merge,unmerge,delete}_coordinator.py,                *)
(* services/saga_writer_heartbeat.py, infrastructure/neo4j.py and the      *)
(* Cypher of correlation_queries.py and consolidation_queries.py.          *)
(*                                                                         *)
(* Any started process may plan an operation or claim an abandoned row at  *)
(* any time.  SagaRecovery restricts that to what startup really does.     *)
(***************************************************************************)
EXTENDS GraphOperations

CONSTANTS
    Headroom,     \* claim that must be left when a statement is dispatched
    ServerBound,  \* ticks from dispatch to the server's transaction timeout
    MaxPause,     \* ticks a process may be suspended at the two unguarded points
    Kinds,        \* the operation kinds that this deployment starts
    Decayable     \* entities that decay may delete without the journal

\* The kinds that the three coordinators write.
SagaKinds == {"ENTITY_MERGE", "ENTITY_UNMERGE", "ENTITY_DELETE", "SESSION_TTL_DELETE"}

ASSUME MutationAssumption ==
    /\ Headroom \in Nat
    /\ ServerBound \in Nat \ {0}
    /\ MaxPause \in Nat
    /\ Kinds \subseteq SagaKinds
    /\ Decayable \subseteq Entity

VARIABLES
    copies,     \* number of Entity nodes with each uuid (uuid is not unique)
    lineage,    \* merged_from, as a set
    flight,     \* [Op -> [Proc -> ticks left of the statement on the server]]
    pc,         \* what each process is doing
    cur,        \* the operation it works on
    plan,       \* the request it read from the graph but has not PREPAREd
    local,      \* WriterHeartbeat.remaining_lease_s()
    lost,       \* WriterHeartbeat.lost; TRUE when there is no heartbeat
    gap,        \* ticks a process has spent at an unguarded point
    resp,       \* the uuids that the statement's answer reports as affected
    applied,    \* history: how often a statement of each operation took effect
    absorbedBy  \* history: the operation that removed each entity

beatVars == <<local, lost, gap>>
procVars == <<pc, cur, plan, beatVars, resp>>
graphVars == <<copies, lineage, applied, absorbedBy>>
mvars == <<jvars, graphVars, flight, procVars>>

NoFlight == [o \in Op |-> [p \in Proc |-> 0]]

MInit ==
    /\ JInit /\ live = Proc
    /\ copies = [e \in Entity |-> 1]
    /\ lineage = [e \in Entity |-> {}]
    /\ flight = NoFlight
    /\ pc = [p \in Proc |-> "off"]
    /\ cur = [p \in Proc |-> NoOp]
    /\ plan = [p \in Proc |-> NoRequest]
    /\ local = [p \in Proc |-> 0]
    /\ lost = [p \in Proc |-> TRUE]
    /\ gap = [p \in Proc |-> 0]
    /\ resp = [p \in Proc |-> {}]
    /\ applied = [o \in Op |-> 0]
    /\ absorbedBy = [e \in Entity |-> NoOp]

-------------------------------------------------------------------------------
(* Requests, and what the graph shows of them.                             *)

Present(e) == copies[e] > 0

\* The request of a pair saga: recorded is the lineage flag of its
\* expected_before_sha256, snapshot the absorbed node's lineage in its snapshot.
PairRequest(kind, s, a, recorded, snapshot, reverses) ==
    [kind |-> kind, key |-> {s, a}, targets |-> {s, a}, survivor |-> s, absorbed |-> a,
     recorded |-> recorded, snapshot |-> snapshot, reverses |-> reverses]

DeleteRequest(kind, targets) == [kind |-> kind, key |-> NoKey, targets |-> targets]

\* Request holds what the coordinators write, and pair requests name their nodes.
ASSUME RequestAssumption ==
    /\ \A s, a \in Entity, recorded \in BOOLEAN, snapshot \in SUBSET Entity, m \in Op :
          /\ PairRequest("ENTITY_MERGE", s, a, recorded, snapshot, NoOp) \in Request
          /\ PairRequest("ENTITY_UNMERGE", s, a, TRUE, snapshot, m) \in Request
    /\ \A kind \in Kinds \cap DeleteKinds, targets \in SUBSET Entity :
          DeleteRequest(kind, targets) \in Request
    /\ \A r \in Request : r.kind \in {"ENTITY_MERGE", "ENTITY_UNMERGE"} =>
          /\ {r.survivor, r.absorbed} \subseteq r.targets
          /\ r.snapshot \subseteq Entity
    /\ \A r \in Request : r.kind = "ENTITY_UNMERGE" => r.reverses \in Op

\* fetch_merge_state() through merge_state_fingerprint().
Fingerprint(r) ==
    <<Present(r.survivor), Present(r.absorbed), r.absorbed \in lineage[r.survivor]>>

ExpectedBefore(r) ==
    IF r.kind = "ENTITY_MERGE" THEN <<TRUE, TRUE, r.recorded>> ELSE <<TRUE, FALSE, TRUE>>

ExpectedAfter(r) ==
    IF r.kind = "ENTITY_MERGE" THEN <<TRUE, FALSE, TRUE>> ELSE <<TRUE, TRUE, FALSE>>

-------------------------------------------------------------------------------
(* Process control.                                                        *)

Goto(p, label) == pc' = [pc EXCEPT ![p] = label]

\* Leaving the saga body: the with-block stops the heartbeat.
Finish(p) ==
    /\ Goto(p, "idle")
    /\ cur' = [cur EXCEPT ![p] = NoOp]
    /\ plan' = [plan EXCEPT ![p] = NoRequest]
    /\ local' = [local EXCEPT ![p] = 0]
    /\ lost' = [lost EXCEPT ![p] = TRUE]
    /\ gap' = [gap EXCEPT ![p] = 0]
    /\ resp' = [resp EXCEPT ![p] = {}]

\* Mutant: the journal is used without _ensure_ready().
StartUnready(p) ==
    /\ pc[p] = "off"
    /\ Goto(p, "idle")
    /\ UNCHANGED <<jvars, graphVars, flight, cur, plan, beatVars, resp>>

\* A process opens the journal when it builds its first coordinator.
Start(p) ==
    /\ pc[p] = "off"
    /\ EnsureReady(p)
    /\ Goto(p, "idle")
    /\ UNCHANGED <<graphVars, flight, cur, plan, beatVars, resp>>

-------------------------------------------------------------------------------
(* Before PREPARE: the graph is read, and may change before the row exists.*)

Plan(p, r) ==
    /\ pc[p] = "idle"
    /\ \E o \in Op : Fresh(o)
    /\ Goto(p, "planned")
    /\ plan' = [plan EXCEPT ![p] = r]
    /\ UNCHANGED <<jvars, graphVars, flight, cur, beatVars, resp>>

\* merge(): eligibility, snapshot and before-fingerprint.
PlanMerge(p, s, a) ==
    /\ s # a /\ Present(s) /\ Present(a)
    /\ Plan(p, PairRequest("ENTITY_MERGE", s, a, a \in lineage[s], lineage[a], NoOp))

\* unmerge(): only a COMMITTED merge whose after-state is still in the graph.
PlanUnmerge(p, m) ==
    /\ state[m] = "COMMITTED"
    /\ req[m].kind = "ENTITY_MERGE"
    /\ Fingerprint(req[m]) = ExpectedAfter(req[m])
    /\ Plan(p, PairRequest("ENTITY_UNMERGE", req[m].survivor, req[m].absorbed,
                           TRUE, req[m].snapshot, m))

\* delete_entity() and delete_expired_session_nodes(): one target, or a batch;
\* targets already absent are dropped.
PlanDelete(p, kind, targets) ==
    /\ targets # {}
    /\ kind = "ENTITY_DELETE" => \E e \in Entity : targets = {e}
    /\ \A e \in targets : Present(e)
    /\ Plan(p, DeleteRequest(kind, targets))

\* PREPARE refused: the coordinator abstains.
PrepareAbstains(p) ==
    /\ pc[p] = "planned"
    /\ PrepareRefused(plan[p])
    /\ Finish(p)
    /\ UNCHANGED <<jvars, graphVars, flight>>

\* PREPARED: the claim is stamped; the heartbeat does not exist yet.
PrepareRow(p, o) ==
    /\ pc[p] = "planned"
    /\ Prepare(p, o, plan[p])
    /\ Goto(p, "stamped")
    /\ cur' = [cur EXCEPT ![p] = o]
    /\ plan' = [plan EXCEPT ![p] = NoRequest]
    /\ UNCHANGED <<graphVars, flight, beatVars, resp>>

\* Mutant: an abandoned delete is run again.
ClaimRowReruns(p, o, pidAlive) ==
    /\ pc[p] = "idle"
    /\ ClaimAbandonedOperation(p, o, pidAlive)
    /\ Goto(p, "stamped")
    /\ cur' = [cur EXCEPT ![p] = o]
    /\ UNCHANGED <<graphVars, flight, plan, beatVars, resp>>

\* claim_abandoned_operation() for a replay.  A delete is only judged, without
\* a heartbeat; a pair saga runs its body again.
ClaimRow(p, o, pidAlive) ==
    /\ pc[p] = "idle"
    /\ ClaimAbandonedOperation(p, o, pidAlive)
    /\ Goto(p, IF req[o].kind \in DeleteKinds THEN "judge" ELSE "stamped")
    /\ cur' = [cur EXCEPT ![p] = o]
    /\ UNCHANGED <<graphVars, flight, plan, beatVars, resp>>

-------------------------------------------------------------------------------
(* saga_writer_heartbeat.py                                                *)

\* owned_mutation() constructs the heartbeat: its monotonic expiry counts from
\* now, not from the stamp in the row.
StartHeartbeat(p) ==
    /\ pc[p] = "stamped"
    /\ local' = [local EXCEPT ![p] = Lease]
    /\ lost' = [lost EXCEPT ![p] = FALSE]
    /\ gap' = [gap EXCEPT ![p] = 0]
    /\ Goto(p, IF req[cur[p]].kind \in DeleteKinds THEN "dispatch" ELSE "classify")
    /\ UNCHANGED <<jvars, graphVars, flight, cur, plan, resp>>

\* Mutant: dispatch is refused only once the claim is known to be lost.
ShouldContinueUntilLost(p) == ~lost[p]

ShouldContinue(p) == ~lost[p] /\ local[p] > Headroom

\* Mutant: the local expiry is extended from the old one.
RenewBeatAddsUp(p) ==
    /\ ~lost[p]
    /\ RenewOwnerHeartbeat(p, cur[p])
    /\ local' = [local EXCEPT ![p] = @ + Lease]
    /\ UNCHANGED <<graphVars, flight, pc, cur, plan, lost, gap, resp>>

\* _loop(): the thread renews the row and then its own expiry.
RenewBeat(p) ==
    /\ ~lost[p]
    /\ RenewOwnerHeartbeat(p, cur[p])
    /\ local' = [local EXCEPT ![p] = Lease]
    /\ UNCHANGED <<graphVars, flight, pc, cur, plan, lost, gap, resp>>

\* The renewal matched no row, or raised three times in a row.
LoseBeat(p) ==
    /\ ~lost[p]
    /\ lost' = [lost EXCEPT ![p] = TRUE]
    /\ UNCHANGED <<jvars, graphVars, flight, pc, cur, plan, local, gap, resp>>

-------------------------------------------------------------------------------
(* The saga body.  Every graph access asks ShouldContinue first.           *)

\* Mutant: a replay mutates again without looking at the graph.
ClassifyBlind(p) ==
    /\ pc[p] = "classify"
    /\ ShouldContinue(p)
    /\ Goto(p, "dispatch")
    /\ UNCHANGED <<jvars, graphVars, flight, cur, plan, beatVars, resp>>

\* _classify_replay(), on the first attempt and on a replay alike.
Classify(p) ==
    LET r == req[cur[p]]
    IN  /\ pc[p] = "classify"
        /\ ShouldContinue(p)
        /\ Goto(p, IF Fingerprint(r) = ExpectedAfter(r) THEN "commit"
                   ELSE IF Fingerprint(r) = ExpectedBefore(r) THEN "dispatch"
                   ELSE "review")
        /\ UNCHANGED <<jvars, graphVars, flight, cur, plan, beatVars, resp>>

\* merge_entity() finds the pair ineligible and sends no statement.
MergeIneligible(p) ==
    /\ pc[p] = "dispatch"
    /\ req[cur[p]].kind = "ENTITY_MERGE"
    /\ ShouldContinue(p)
    /\ Goto(p, "verify")
    /\ UNCHANGED <<jvars, graphVars, flight, cur, plan, beatVars, resp>>

\* execute() asks the predicate before every attempt ...
Dispatch(p) ==
    /\ pc[p] = "dispatch"
    /\ ShouldContinue(p)
    /\ Goto(p, "gated")
    /\ UNCHANGED <<jvars, graphVars, flight, cur, plan, beatVars, resp>>

\* ... and then opens a session and sends the statement, with a server timeout.
Send(p) ==
    /\ pc[p] = "gated"
    /\ flight' = [flight EXCEPT ![cur[p]] = [@ EXCEPT ![p] = ServerBound]]
    /\ gap' = [gap EXCEPT ![p] = 0]
    /\ Goto(p, "sent")
    /\ UNCHANGED <<jvars, graphVars, cur, plan, local, lost, resp>>

-------------------------------------------------------------------------------
(* The server.  A statement takes effect, or is rolled back, within its    *)
(* timeout, whether or not its writer still waits for the answer.          *)

MaxCopies == 2

Capped(n) == IF n > MaxCopies THEN MaxCopies ELSE n

Landed(o) == applied' = [applied EXCEPT ![o] = Capped(@ + 1)]

NoEffect == UNCHANGED graphVars

\* merge_entity(): the absorbed node goes and its lineage moves to the survivor.
MergeEffect(o) ==
    LET s == req[o].survivor  a == req[o].absorbed
    IN  /\ Present(s) /\ Present(a)
        /\ copies' = [copies EXCEPT ![a] = 0]
        /\ lineage' = [lineage EXCEPT ![s] = @ \cup {a} \cup lineage[a], ![a] = {}]
        /\ absorbedBy' = [absorbedBy EXCEPT ![a] = o]
        /\ Landed(o)

\* restore_merge_snapshot(): CREATE, not MERGE, for every node that matches the
\* survivor; the lineage of the survivor loses this absorption only.
RestoreEffect(o) ==
    LET s == req[o].survivor  a == req[o].absorbed
    IN  /\ Present(s)
        /\ copies' = [copies EXCEPT ![a] = Capped(@ + copies[s])]
        /\ lineage' = [lineage EXCEPT ![s] = @ \ {a}, ![a] = req[o].snapshot]
        /\ Landed(o)
        /\ UNCHANGED absorbedBy

\* delete_entities_returning_uuids(): the scope and protection predicates may
\* spare any of the targets.
DeleteEffect(o, D) ==
    /\ D # {}
    /\ copies' = [e \in Entity |-> IF e \in D THEN 0 ELSE copies[e]]
    /\ lineage' = [e \in Entity |-> IF e \in D THEN {} ELSE lineage[e]]
    /\ absorbedBy' = [e \in Entity |-> IF e \in D THEN o ELSE absorbedBy[e]]
    /\ Landed(o)

\* The effect of o's statement, with the uuids that its answer reports.
Effect(o, D) ==
    \/ req[o].kind = "ENTITY_MERGE" /\ D = {req[o].absorbed} /\ MergeEffect(o)
    \/ req[o].kind = "ENTITY_MERGE" /\ D = {} /\ NoEffect
    \/ req[o].kind = "ENTITY_UNMERGE" /\ D = {req[o].absorbed} /\ RestoreEffect(o)
    \/ req[o].kind = "ENTITY_UNMERGE" /\ D = {} /\ ~Present(req[o].survivor) /\ NoEffect
    \/ /\ req[o].kind \in DeleteKinds
       /\ D \subseteq {e \in req[o].targets : Present(e)}
       /\ IF D = {} THEN NoEffect ELSE DeleteEffect(o, D)

Waiting(o, p) == pc[p] = "sent" /\ cur[p] = o

\* The transaction commits; a writer that still waits reads the answer.
Land(o, p, D) ==
    /\ flight[o][p] > 0
    /\ Effect(o, D)
    /\ flight' = [flight EXCEPT ![o] = [@ EXCEPT ![p] = 0]]
    /\ pc' = [pc EXCEPT ![p] = IF Waiting(o, p) THEN "verify" ELSE @]
    /\ resp' = [resp EXCEPT ![p] = IF Waiting(o, p) THEN D ELSE @]
    /\ UNCHANGED <<jvars, cur, plan, beatVars>>

\* The transaction is rolled back (TransientError).
Rollback(o, p) ==
    /\ flight[o][p] > 0
    /\ flight' = [flight EXCEPT ![o] = [@ EXCEPT ![p] = 0]]
    /\ UNCHANGED <<jvars, graphVars, procVars>>

\* execute() retries what was rolled back, through the predicate.
Retry(p) ==
    /\ pc[p] = "sent"
    /\ flight[cur[p]][p] = 0
    /\ Goto(p, "dispatch")
    /\ UNCHANGED <<jvars, graphVars, flight, cur, plan, beatVars, resp>>

\* The saga body raises: ownership revoked, a failed read, or an ambiguous
\* failure that is not retried.  The row stays PREPARED, and a statement that
\* was sent stays with the server.
GiveUp(p) ==
    /\ pc[p] \in {"classify", "dispatch", "gated", "sent", "verify", "judge"}
    /\ Finish(p)
    /\ UNCHANGED <<jvars, graphVars, flight>>

-------------------------------------------------------------------------------
(* Verification and the terminal mark.                                     *)

\* Mutant: the answer of a pair statement is trusted.
VerdictUnread(r, reported) ==
    IF r.kind \in DeleteKinds /\ \E e \in reported : Present(e) THEN "review" ELSE "commit"

\* What the saga body decides from the answer and from the graph as it reads it.
Verdict(r, reported) ==
    IF r.kind \in DeleteKinds
    THEN IF \A e \in reported : ~Present(e) THEN "commit" ELSE "review"
    ELSE IF r.kind = "ENTITY_MERGE" /\ reported = {}
         THEN IF Fingerprint(r) = ExpectedBefore(r) THEN "fail" ELSE "review"
         ELSE IF Fingerprint(r) = ExpectedAfter(r) THEN "commit" ELSE "review"

\* Verification reads the graph, except for a delete that reported nothing.
Verify(p) ==
    LET r == req[cur[p]]
    IN  /\ pc[p] = "verify"
        /\ ShouldContinue(p) \/ (r.kind \in DeleteKinds /\ resp[p] = {})
        /\ Goto(p, Verdict(r, resp[p]))
        /\ UNCHANGED <<jvars, graphVars, flight, cur, plan, beatVars, resp>>

\* Replay of a delete: it is never run again, only observed.
Judge(p) ==
    /\ pc[p] = "judge"
    /\ Goto(p, IF \A e \in req[cur[p]].targets : ~Present(e) THEN "commit" ELSE "review")
    /\ UNCHANGED <<jvars, graphVars, flight, cur, plan, beatVars, resp>>

\* An unmerge that committed goes on to mark the merge it reversed.
AfterCommit(p) ==
    IF req[cur[p]].kind = "ENTITY_UNMERGE"
    THEN Goto(p, "reverse") /\ UNCHANGED <<cur, plan, beatVars, resp>>
    ELSE Finish(p)

Commit(p) ==
    /\ pc[p] = "commit"
    /\ \/ MarkCommitted(p, cur[p]) /\ AfterCommit(p)
       \/ /\ ~CanTransition(cur[p], {"PREPARED"}, p)
          /\ IF IdempotentMark(cur[p], "COMMITTED", p) THEN AfterCommit(p) ELSE Finish(p)
          /\ UNCHANGED jvars
    /\ UNCHANGED <<graphVars, flight>>

\* mark_needs_review() or mark_failed(), or a stale mark that changes nothing.
Settle(p) ==
    /\ pc[p] \in {"review", "fail"}
    /\ \/ pc[p] = "review" /\ MarkNeedsReview(p, cur[p])
       \/ pc[p] = "fail" /\ MarkFailed(p, cur[p])
       \/ ~CanTransition(cur[p], {"PREPARED"}, p) /\ UNCHANGED jvars
    /\ Finish(p)
    /\ UNCHANGED <<graphVars, flight>>

\* _mark_merge_reversed(): an exception is logged and dropped.
Reverse(p) ==
    /\ pc[p] = "reverse"
    /\ MarkReversed(req[cur[p]].reverses) \/ UNCHANGED jvars
    /\ Finish(p)
    /\ UNCHANGED <<graphVars, flight>>

-------------------------------------------------------------------------------
(* The environment.                                                        *)

\* The process dies; what it sent does not.
Crash(p) ==
    /\ Die(p)
    /\ pc' = [pc EXCEPT ![p] = "dead"]
    /\ cur' = [cur EXCEPT ![p] = NoOp]
    /\ plan' = [plan EXCEPT ![p] = NoRequest]
    /\ local' = [local EXCEPT ![p] = 0]
    /\ lost' = [lost EXCEPT ![p] = TRUE]
    /\ gap' = [gap EXCEPT ![p] = 0]
    /\ resp' = [resp EXCEPT ![p] = {}]
    /\ UNCHANGED <<graphVars, flight>>

\* Between the stamp and the heartbeat, and between the predicate and the
\* statement, nothing watches the clock.
Unguarded(p) == pc[p] \in {"stamped", "gated"}

\* Time passes everywhere.  The server rolls back what reaches its timeout.
Tick ==
    /\ \A p \in Proc : Unguarded(p) => gap[p] < MaxPause
    /\ ClockTick
    /\ local' = [p \in Proc |-> Minus1(local[p])]
    /\ gap' = [p \in Proc |-> IF Unguarded(p) THEN gap[p] + 1 ELSE gap[p]]
    /\ flight' = [o \in Op |-> [p \in Proc |-> Minus1(flight[o][p])]]
    /\ UNCHANGED <<graphVars, pc, cur, plan, lost, resp>>

\* bridge_and_delete(): decay removes a node without asking the journal.
Decay(e) ==
    /\ Present(e)
    /\ copies' = [copies EXCEPT ![e] = 0]
    /\ lineage' = [lineage EXCEPT ![e] = {}]
    /\ UNCHANGED <<jvars, applied, absorbedBy, flight, procVars>>

\* An operator's command runs in a process that has opened the journal.
Operator ==
    /\ live \cap ready # {}
    /\ OperatorCall
    /\ UNCHANGED <<graphVars, flight, procVars>>

PlanStep(p) ==
    \/ "ENTITY_MERGE" \in Kinds /\ \E s, a \in Entity : PlanMerge(p, s, a)
    \/ "ENTITY_UNMERGE" \in Kinds /\ \E m \in Op : PlanUnmerge(p, m)
    \/ \E k \in Kinds \cap DeleteKinds, T \in SUBSET Entity : PlanDelete(p, k, T)

BeatStep(p) == StartHeartbeat(p) \/ RenewBeat(p) \/ LoseBeat(p)

\* A live process moves within its saga.
SagaStep(p) ==
    \/ Classify(p) \/ MergeIneligible(p) \/ Dispatch(p) \/ Send(p) \/ Retry(p)
    \/ GiveUp(p) \/ Verify(p) \/ Judge(p) \/ Commit(p) \/ Settle(p) \/ Reverse(p)

MNext ==
    \/ \E p \in live : Start(p)
    \/ \E p \in live : PlanStep(p) \/ PrepareAbstains(p)
    \/ \E p \in live, o \in Op : PrepareRow(p, o)
    \/ \E p \in live, o \in Op : \E alive \in PidAnswers(live, owner[o]) : ClaimRow(p, o, alive)
    \/ \E p \in live : BeatStep(p)
    \/ \E p \in live : SagaStep(p)
    \/ \E o \in Op, p \in Proc, D \in SUBSET Entity : Land(o, p, D)
    \/ \E o \in Op, p \in Proc : Rollback(o, p)
    \/ \E p \in live : Crash(p)
    \/ \E e \in Decayable : Decay(e)
    \/ Tick
    \/ Operator

MSpec == MInit /\ [][MNext]_mvars

-------------------------------------------------------------------------------
(* Properties.                                                             *)

Labels == {"off", "idle", "planned", "stamped", "classify", "dispatch", "gated", "sent",
           "verify", "judge", "commit", "review", "fail", "reverse", "dead"}

MTypeOK ==
    /\ JTypeOK
    /\ copies \in [Entity -> 0..MaxCopies]
    /\ lineage \in [Entity -> SUBSET Entity]
    /\ flight \in [Op -> [Proc -> 0..ServerBound]]
    /\ pc \in [Proc -> Labels]
    /\ cur \in [Proc -> Op \cup {NoOp}]
    /\ plan \in [Proc -> Request \cup {NoRequest}]
    /\ local \in [Proc -> 0..Lease]
    /\ lost \in [Proc -> BOOLEAN]
    /\ gap \in [Proc -> 0..MaxPause]
    /\ resp \in [Proc -> SUBSET Entity]
    /\ applied \in [Op -> 0..MaxCopies]
    /\ absorbedBy \in [Entity -> Op \cup {NoOp}]

\* The headroom covers the server's timeout and one pause at each of the two
\* unguarded points.  mutation_window_seconds() leaves room for it.
HeadroomCoversPauses == 2 * MaxPause + ServerBound <= Headroom + 1

\* The promise of saga_writer_heartbeat.py and operation_owner.py: while a
\* statement of a writer may still take effect on the server, that writer's claim
\* is in force, so no reconciler can be replaying the same operation.
StatementOwned ==
    \A o \in Op, p \in Proc :
        flight[o][p] > 0 => HoldsClaim(p, o) /\ flight[o][p] <= lease[o]

\* The coordinators use the journal only as its specification allows: every step
\* is a method call by a process that opened it, or leaves it alone.
ImplementsJournal == Spec

\* An operation takes effect at most once, over all first attempts, retries,
\* takeovers and replays (the Cypher itself is not idempotent).
AppliedOnce == \A o \in Op : applied[o] <= 1

\* No unmerge ever creates a second node with a uuid that is in the graph
\* (restore_merge_snapshot uses CREATE and uuid has no constraint).
NoDuplicateEntity == \A e \in Entity : copies[e] <= 1

\* Whatever changes a node changes it for an operation that holds the node's lock
\* and whose owner's statement is executing: two operations never mutate one
\* participant at once (invariant 14; decay is the exception).
MutationFenced ==
    \A e \in Entity \ Decayable :
        copies'[e] # copies[e] \/ lineage'[e] # lineage[e] =>
            \E p \in Proc : /\ lock[e] # NoOp
                            /\ HoldsClaim(p, lock[e])
                            /\ flight[lock[e]][p] > 0

\* MutationFenced, of every step (prepare() and owned_mutation()).
MutationOnlyFenced == [][MutationFenced]_mvars

\* A pair saga is COMMITTED only when the graph is in its after-state at that
\* very moment, not only when it was last read (invariant 5).
CommitVerified ==
    \A o \in Op : /\ state[o] = "PREPARED" /\ state'[o] = "COMMITTED"
                  /\ req[o].kind \in PairKinds
                  => Fingerprint(req[o]) = ExpectedAfter(req[o])

\* CommitVerified, of every step (merge and unmerge _apply_owned; decay, which
\* asks no fence, must be off).
CommitOnlyVerified == [][CommitVerified]_mvars

\* The comment of merge_coordinator._classify_replay: "Already applied by an
\* attempt that crashed before COMMITTED: the survivor carries THIS op's marker".
CommittedMergeApplied ==
    [][\A o \in Op : /\ state[o] = "PREPARED" /\ state'[o] = "COMMITTED"
                     /\ req[o].kind = "ENTITY_MERGE"
                     => applied[o] = 1]_mvars

===============================================================================
