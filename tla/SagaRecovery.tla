----------------------------- MODULE SagaRecovery -----------------------------
(***************************************************************************)
(* The startup barrier: an instance that recovers waits for the            *)
(* reconciliation gate, observes the backlog, walks the PREPARED rows page *)
(* by page, claims and replays the abandoned ones, and only then admits    *)
(* saga writers.  Sources: core/runtime.py (_recover_saga_backlog and the  *)
(* admission latch), services/saga_reconcile_dispatcher*.py,               *)
(* saga_reconcile_gate.py, saga_preflight.py and iter_by_state of          *)
(* infrastructure/graph_operations_reads.py, over the journal.             *)
(*                                                                         *)
(* What a replay does to the graph is SagaMutation's; here it ends with a  *)
(* mark or an exception.  Instances in the modes off and observe serve at  *)
(* once: they are the writers a recovering instance meets.                 *)
(***************************************************************************)
EXTENDS GraphOperations, Sequences, FiniteSets

CONSTANTS
    Recovering,      \* the processes with saga_reconcile_startup_mode = live
    Wait,            \* SAGA_GATE_WAIT_SECONDS, in ticks
    PageSize,        \* batch_size of iter_by_state
    MaxNeedsReview,  \* max_needs_review
    GateAware,       \* the MENHIR_SAGA_ALL_WRITERS_GATE_AWARE assertion
    OperatorErrs     \* an operator may attest the death of a running process

\* SAGA_GATE_WAIT_SECONDS (300) is above DEFAULT_GATE_SECONDS (120).
ASSUME RecoveryAssumption ==
    /\ Recovering \subseteq Proc
    /\ Wait \in Nat /\ Wait >= GateTTL
    /\ PageSize \in Nat \ {0}
    /\ MaxNeedsReview \in Nat
    /\ GateAware \in BOOLEAN /\ OperatorErrs \in BOOLEAN

VARIABLES
    phase,      \* where each process is in its start
    waitLeft,   \* ticks until its deadline, while it waits for the gate
    pass,       \* its walk over the backlog
    verdict,    \* what it leaves the gate with
    stamped,    \* history: the gate was taken or renewed since it waits
    requeued,   \* history: rows an operator requeued since it has the gate
    peers       \* history: rows another process had a say in since then

startVars == <<phase, waitLeft, pass, verdict>>
rvars == <<jvars, startVars, stamped, requeued, peers>>

Walk == {"walking", "claiming", "replaying"}
InPass == {"held", "leaving"} \cup Walk
Phases == {"down", "waiting", "serving", "refused", "failed", "dead"} \cup InPass

\* A row as a page holds it: its claim may have changed since.
PageRow == [op : Op, owner : Proc \cup {NoProc}, left : 0..Lease, attested : Proc \cup {NoProc}]

NewPass == [cursor |-> 0, page |-> << >>, short |-> FALSE, lost |-> FALSE, blocked |-> FALSE,
            drifted |-> 0, aborted |-> FALSE]

PassType ==
    [cursor : 0..MaxOp, page : Seq(PageRow), short : BOOLEAN, lost : BOOLEAN, blocked : BOOLEAN,
     drifted : 0..(MaxNeedsReview + 1), aborted : BOOLEAN]

RTypeOK ==
    /\ JTypeOK
    /\ phase \in [Proc -> Phases]
    /\ waitLeft \in [Proc -> 0..Wait]
    /\ pass \in [Proc -> PassType]
    /\ \A p \in Proc : Len(pass[p].page) <= PageSize
    /\ verdict \in [Proc -> {"none", "ready", "refuse", "raised"}]
    /\ stamped \in [Proc -> BOOLEAN]
    /\ requeued \in [Proc -> SUBSET Op]
    /\ peers \in [Proc -> SUBSET Op]

RInit ==
    /\ JInit /\ live = Proc
    /\ phase = [p \in Proc |-> IF p \in Recovering THEN "down" ELSE "serving"]
    /\ waitLeft = [p \in Proc |-> 0]
    /\ pass = [p \in Proc |-> NewPass]
    /\ verdict = [p \in Proc |-> "none"]
    /\ stamped = [p \in Proc |-> FALSE]
    /\ requeued = [p \in Proc |-> {}]
    /\ peers = [p \in Proc |-> {}]

Goes(p, to) == phase' = [phase EXCEPT ![p] = to]
Leaves(p, v) == Goes(p, "leaving") /\ verdict' = [verdict EXCEPT ![p] = v]

-------------------------------------------------------------------------------
(* _recover_saga_backlog: the gate and the preflight.                      *)

\* A first start, or one more after a start that raised.  A start that was
\* refused is latched.  Building the dispatcher opens the journal.
Begin(p) ==
    /\ phase[p] \in {"down", "failed"}
    /\ EnsureReady(p)
    /\ Goes(p, "waiting")
    /\ waitLeft' = [waitLeft EXCEPT ![p] = Wait]
    /\ UNCHANGED <<pass, verdict>>

\* Mutant: the deadline is looked at before the gate.
PollGateImpatient(p) ==
    /\ phase[p] = "waiting"
    /\ IF waitLeft[p] = 0
       THEN Goes(p, "refused") /\ UNCHANGED jvars
       ELSE \E a \in PidAnswers(live, gateHolder) : AcquireGate(p, a) /\ Goes(p, "held")
    /\ waitLeft' = [waitLeft EXCEPT ![p] = 0]
    /\ UNCHANGED <<pass, verdict>>

\* The deadline is looked at after a failed acquire(); until then the loop polls.
PollGate(p) ==
    /\ phase[p] = "waiting"
    /\ \E a \in PidAnswers(live, gateHolder) :
        IF CanAcquireGate(p, a)
        THEN AcquireGate(p, a) /\ Goes(p, "held")
        ELSE waitLeft[p] = 0 /\ Goes(p, "refused") /\ UNCHANGED jvars
    /\ waitLeft' = [waitLeft EXCEPT ![p] = 0]
    /\ UNCHANGED <<pass, verdict>>

Handled == OperationKinds \ {"METRIC_MIGRATE", "METRIC_REVERSE"}
NonReplayable == {"LEGACY_ENTITY_UNMERGE"}

\* run_preflight on an observe() pass: a blocker refuses the start.  How the graph
\* compares with a row's request is open; a kind that is never replayed counts as
\* would-be quarantine.
Preflight(p) ==
    LET backlog == {o \in Op : state[o] = "PREPARED"} IN
    /\ phase[p] = "held"
    /\ \E alive \in [backlog -> BOOLEAN], drift \in SUBSET backlog :
        LET outcome(o) == ClassifyOwnership(p, owner[o], lease[o], attested[o], alive[o])
            orphans == {o \in backlog : outcome(o) = "ABANDONED"} IN
        /\ \A o \in backlog : alive[o] \in PidAnswers(live, owner[o])
        /\ drift \subseteq orphans
        /\ {o \in orphans : req[o].kind \in NonReplayable} \subseteq drift
        /\ IF /\ GateAware
              /\ \A o \in backlog : outcome(o) # "OWNER_UNKNOWN"
              /\ \A o \in orphans : req[o].kind \in Handled
              /\ Cardinality(drift) <= MaxNeedsReview
           THEN /\ Goes(p, "walking")
                /\ pass' = [pass EXCEPT ![p] = NewPass]
                /\ UNCHANGED verdict
           ELSE Leaves(p, "refuse") /\ UNCHANGED pass
    /\ UNCHANGED <<jvars, waitLeft>>

-------------------------------------------------------------------------------
(* replay(): the row loop.                                                 *)

\* What ORDER BY the creation order LIMIT n returns of the rows in S: the first n
\* of them, or all when there are fewer.
Pages(S, n) ==
    {s \in UNION {[1..k -> S] : k \in 0..n} :
        /\ \A i, j \in DOMAIN s : i < j => s[i] < s[j]
        /\ \A o \in S : (\E i \in DOMAIN s : s[i] = o) \/ (Len(s) = n /\ o > s[n])}

\* Mutant: every page is read from the start of the backlog.
BehindCursorNever(p) == {o \in Op : state[o] = "PREPARED"}

\* The keyset cursor of iter_by_state: op ids are in creation order.
BehindCursor(p) == {o \in Op : state[o] = "PREPARED" /\ o > pass[p].cursor}

\* A row as it is read.
Seen(o) == [op |-> o, owner |-> owner[o], left |-> lease[o], attested |-> attested[o]]

ReadPage(p) ==
    /\ phase[p] = "walking" /\ pass[p].page = << >>
    /\ ~pass[p].short /\ ~pass[p].aborted
    /\ \E ops \in Pages(BehindCursor(p), PageSize) :
        pass' = [pass EXCEPT
            ![p].page = [i \in DOMAIN ops |-> Seen(ops[i])],
            ![p].cursor = IF ops = << >> THEN @ ELSE ops[Len(ops)],
            ![p].short = Len(ops) < PageSize]
    /\ UNCHANGED <<jvars, phase, waitLeft, verdict>>

\* The row is done with: block says that its outcome forbids a write-ready verdict.
Passed(p, block) ==
    /\ Goes(p, "walking")
    /\ pass' = [pass EXCEPT ![p].page = Tail(@), ![p].blocked = @ \/ block]

\* The row was quarantined; above the ceiling the pass breaks off.
Quarantined(p) ==
    /\ Goes(p, "walking")
    /\ pass' = [pass EXCEPT
            ![p].page = IF pass[p].drifted >= MaxNeedsReview THEN << >> ELSE Tail(@),
            ![p].drifted = @ + 1,
            ![p].aborted = pass[p].drifted >= MaxNeedsReview]

\* Mutant: a claim of this process reads like that of any live peer.
OwnResidueIgnored(p, r) == FALSE

\* A row this process still claims is left over from an earlier start.
OwnResidue(p, r) == r.owner = p

\* verify_still_held(), then the ownership veto of _replay_one on the row as it
\* was read.
VisitRow(p) ==
    LET r == Head(pass[p].page) IN
    /\ phase[p] = "walking" /\ pass[p].page # << >>
    /\ IF pass[p].lost \/ ~GateHeldBy(p)
       THEN /\ pass' = [pass EXCEPT ![p].page = << >>, ![p].aborted = TRUE]
            /\ UNCHANGED phase
       ELSE \E a \in PidAnswers(live, r.owner) :
            LET c == ClassifyOwnership(p, r.owner, r.left, r.attested, a) IN
            \/ c = "LIVE_OWNER" /\ Passed(p, OwnResidue(p, r))
            \/ c = "OWNER_UNKNOWN" /\ Passed(p, TRUE)
            \/ /\ c = "ABANDONED"
               /\ IF req[r.op].kind \in Handled THEN Goes(p, "claiming") /\ UNCHANGED pass
                                                ELSE Passed(p, TRUE)
    /\ UNCHANGED <<jvars, waitLeft, verdict>>

\* claim_abandoned_operation judges the row as it is now; a lost claim is passed over.
ClaimRow(p) ==
    LET o == Head(pass[p].page).op IN
    /\ phase[p] = "claiming"
    /\ \E a \in PidAnswers(live, owner[o]) :
        IF Claimable(p, o, a)
        THEN ClaimAbandonedOperation(p, o, a) /\ Goes(p, "replaying") /\ UNCHANGED pass
        ELSE Passed(p, FALSE) /\ UNCHANGED jvars
    /\ UNCHANGED <<waitLeft, verdict>>

\* replay_prepared_row() resolves the row, quarantines it, finds that it moved, or
\* raises and leaves it PREPARED.
EndReplay(p) ==
    LET o == Head(pass[p].page).op
        Ours == CanTransition(o, {"PREPARED"}, p) IN
    /\ phase[p] = "replaying"
    /\ \/ /\ req[o].kind \notin NonReplayable
          /\ \/ (MarkCommitted(p, o) \/ MarkFailed(p, o)) /\ Passed(p, FALSE)
             \/ ~Ours /\ Passed(p, FALSE) /\ UNCHANGED jvars
       \/ MarkNeedsReview(p, o) /\ Quarantined(p)
       \/ /\ ~Ours /\ UNCHANGED jvars
          /\ IF IdempotentMark(o, "NEEDS_REVIEW", p) THEN Quarantined(p) ELSE Passed(p, FALSE)
       \/ Passed(p, TRUE) /\ UNCHANGED jvars
    /\ UNCHANGED <<waitLeft, verdict>>

\* GateHeartbeat: lost latches, whether the lease lapsed or the renewal raised.
GateBeat(p) ==
    /\ phase[p] \in Walk /\ ~pass[p].lost
    /\ \/ RenewGate(p) /\ UNCHANGED pass
       \/ pass' = [pass EXCEPT ![p].lost = TRUE] /\ UNCHANGED jvars
    /\ UNCHANGED <<phase, waitLeft, verdict>>

\* The replayed row's own heartbeat.
RowBeat(p) ==
    /\ phase[p] = "replaying"
    /\ RenewOwnerHeartbeat(p, Head(pass[p].page).op)
    /\ UNCHANGED startVars

\* Mutant: the gate is not verified again after the last row.
FinalVerdictUnchecked(p) ==
    /\ phase[p] = "walking" /\ pass[p].page = << >>
    /\ pass[p].short \/ pass[p].aborted
    /\ Leaves(p, IF pass[p].aborted \/ pass[p].blocked THEN "refuse" ELSE "ready")
    /\ UNCHANGED <<jvars, waitLeft, pass>>

\* The last verify_still_held() and _assess_live_readiness.
FinalVerdict(p) ==
    /\ phase[p] = "walking" /\ pass[p].page = << >>
    /\ pass[p].short \/ pass[p].aborted
    /\ Leaves(p, IF pass[p].aborted \/ pass[p].blocked \/ ~GateHeldBy(p)
                 THEN "refuse" ELSE "ready")
    /\ UNCHANGED <<jvars, waitLeft, pass>>

-------------------------------------------------------------------------------
(* The way out.                                                            *)

\* A journal read, an acquire or a claim raised: not a refusal, so not latched.
PassRaises(p) ==
    /\ \/ phase[p] = "waiting" /\ Goes(p, "failed") /\ UNCHANGED verdict
       \/ phase[p] \in {"held", "walking", "claiming"} /\ Leaves(p, "raised")
    /\ waitLeft' = [waitLeft EXCEPT ![p] = 0]
    /\ UNCHANGED <<jvars, pass>>

\* finally: gate.release(); then the verdict is acted on.  An exception of the
\* release hides whatever it was.
LeaveGate(p) ==
    /\ phase[p] = "leaving"
    /\ \/ /\ ReleaseGate(p)
          /\ Goes(p, CASE verdict[p] = "ready" -> "serving"
                       [] verdict[p] = "refuse" -> "refused"
                       [] verdict[p] = "raised" -> "failed")
       \/ Goes(p, "failed") /\ UNCHANGED jvars
    /\ pass' = [pass EXCEPT ![p] = NewPass]
    /\ verdict' = [verdict EXCEPT ![p] = "none"]
    /\ UNCHANGED waitLeft

-------------------------------------------------------------------------------
(* The others: writers, operators, time.                                   *)

Writes(p) ==
    /\ phase[p] = "serving" /\ p \in ready
    /\ \/ \E o \in Op, r \in Request : Prepare(p, o, r)
       \/ \E o \in Op : /\ owner[o] = p
                        /\ \/ MarkCommitted(p, o) \/ MarkNeedsReview(p, o) \/ MarkFailed(p, o)
                           \/ RenewOwnerHeartbeat(p, o)
    /\ UNCHANGED startVars

Operator ==
    /\ \E o \in Op : \/ AttestOwnerDeath(o) /\ (OperatorErrs \/ owner[o] \notin live)
                     \/ \E to \in OperationStates : ClearNeedsReview(o, to)
    /\ UNCHANGED startVars

\* The leases of the rows on a page run out as the rows' own do.
Aged(page) == [i \in DOMAIN page |-> [page[i] EXCEPT !.left = Minus1(@)]]

Tick ==
    /\ ClockTick
    /\ waitLeft' = [p \in Proc |-> Minus1(waitLeft[p])]
    /\ pass' = [p \in Proc |-> [pass[p] EXCEPT !.page = Aged(@)]]
    /\ UNCHANGED <<phase, verdict>>

Dies(p) ==
    /\ Die(p) /\ Goes(p, "dead")
    /\ waitLeft' = [waitLeft EXCEPT ![p] = 0]
    /\ pass' = [pass EXCEPT ![p] = NewPass]
    /\ verdict' = [verdict EXCEPT ![p] = "none"]

StartStep(p) ==
    \/ PollGate(p) \/ Preflight(p) \/ ReadPage(p) \/ VisitRow(p) \/ ClaimRow(p)
    \/ EndReplay(p) \/ FinalVerdict(p) \/ LeaveGate(p)

Step ==
    \/ \E p \in live : \/ Begin(p) \/ StartStep(p) \/ GateBeat(p) \/ RowBeat(p)
                       \/ PassRaises(p) \/ Writes(p) \/ Dies(p)
    \/ \E p \in live \ ready : phase[p] = "serving" /\ EnsureReady(p) /\ UNCHANGED startVars
    \/ Operator \/ Tick

\* Another process holds a claim on o in force, or keeps one that a claim of p
\* found no evidence against.
HasASay(p, o) ==
    \/ owner'[o] \notin {p, NoProc} /\ lease'[o] > 0
    \/ /\ phase[p] = "claiming" /\ phase'[p] = "walking"
       /\ o = Head(pass[p].page).op /\ owner[o] # p

Remember ==
    /\ stamped' = [p \in Proc |->
            /\ phase[p] = "waiting" /\ phase'[p] = "waiting"
            /\ stamped[p] \/ gateLeft' > gateLeft]
    /\ requeued' = [p \in Proc |->
            IF phase'[p] \notin InPass THEN {}
            ELSE requeued[p] \cup {o \in Op : state[o] = "NEEDS_REVIEW" /\ state'[o] = "PREPARED"}]
    /\ peers' = [p \in Proc |->
            IF phase'[p] \notin InPass THEN {}
            ELSE peers[p] \cup {o \in Op : HasASay(p, o)}]

RNext == Step /\ Remember

RSpec == RInit /\ [][RNext]_rvars

-------------------------------------------------------------------------------
(* Properties.                                                             *)

\* An instance admits writers only over a drained backlog: a row that is PREPARED
\* when its verdict is ready was passed by its own walk and belongs to another
\* process that had a say in it during the walk, or was requeued by an operator
\* meanwhile.  A peer's gate, a lapse in the middle, a page boundary, a failed
\* replay or the residue of an earlier start never let one through.
Drained(p) ==
    \A o \in Op : state[o] = "PREPARED" =>
        \/ o \in requeued[p]
        \/ o <= pass[p].cursor /\ o \in peers[p] /\ owner[o] # p

ReadyMeansDrained ==
    [][\A p \in Proc : verdict'[p] = "ready" /\ verdict[p] # "ready" => Drained(p)]_rvars

\* A start is refused at the deadline only if some process took or renewed the gate
\* while it waited: the lease of a peer that died is outlasted.
OutlastsTheDead ==
    [][\A p \in Proc : phase[p] = "waiting" /\ phase'[p] = "refused" => stamped[p]]_rvars

\* Two running processes never replay one row at the same time, whatever became of
\* the gate, unless an operator declared one of them dead.
ReplaysAlone ==
    \A p, q \in live :
        /\ p # q /\ phase[p] = "replaying" /\ phase[q] = "replaying"
        /\ Head(pass[p].page).op = Head(pass[q].page).op
        => OperatorErrs

\* The barrier's steps are taken as long as the process runs, and time passes.
RFairness ==
    /\ WF_rvars(Tick /\ Remember)
    /\ \A p \in Proc : WF_rvars(p \in live /\ StartStep(p) /\ Remember)

RLiveSpec == RSpec /\ RFairness

\* Every start comes to an end: the gate is got or the deadline passes, and the walk
\* ends although rows it cannot resolve stay PREPARED.
EveryStartEnds ==
    \A p \in Proc : phase[p] \in {"waiting"} \cup InPass
        ~> phase[p] \in {"serving", "refused", "failed", "dead"}

\* _assess_live_readiness: "this process has no legitimate way to own a PREPARED
\* row", so a start over one must not be write-ready.
NoOwnResidue ==
    [][\A p \in Proc : verdict'[p] = "ready" /\ verdict[p] # "ready" =>
        \A o \in Op : state[o] = "PREPARED" => owner[o] # p]_rvars

===============================================================================
