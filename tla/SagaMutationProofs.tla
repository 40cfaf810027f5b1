-------------------------- MODULE SagaMutationProofs --------------------------
(***************************************************************************)
(* For every number of processes, operations and entities: the             *)
(* coordinators use the journal as its specification allows, and, when the *)
(* headroom covers the pauses, a statement that may still take effect on   *)
(* the server belongs to the owner of its operation.                       *)
(***************************************************************************)
EXTENDS SagaMutation, GraphOperationsProofs

\* Labels at which a process works on the row cur[p], and those of them at which
\* a heartbeat may be running before the row's terminal mark.
InSaga == {"stamped", "classify", "dispatch", "gated", "sent", "verify", "judge",
           "commit", "review", "fail", "reverse"}
Beating == {"classify", "dispatch", "gated", "sent", "verify", "commit", "review", "fail"}

\* What the program text keeps true of one process.
Control(p) ==
    /\ pc[p] = "off" => p \notin ready
    /\ pc[p] \notin {"off", "dead"} => p \in ready
    /\ pc[p] \in InSaga => cur[p] \in Op /\ state[cur[p]] # "ABSENT"
    /\ \A o \in Op : flight[o][p] > 0 => state[o] # "ABSENT"
    /\ pc[p] = "reverse" => req[cur[p]].kind = "ENTITY_UNMERGE"
    /\ pc[p] = "planned" => plan[p] \in Request
    /\ ~lost[p] => pc[p] \in Beating \cup {"reverse"}
    /\ ~Unguarded(p) => gap[p] = 0

\* The statements of p, and none for the row p is about to send for or to mark.
Statements(p) ==
    /\ \A o \in Op : flight[o][p] > 0 => HoldsClaim(p, o) /\ flight[o][p] <= lease[o]
    /\ pc[p] \in InSaga \ {"sent"} => flight[cur[p]][p] = 0

\* How far the row's lease can lag behind what p believes of it.
Margins(p) ==
    /\ pc[p] = "stamped" /\ gap[p] < Lease =>
          HoldsClaim(p, cur[p]) /\ lease[cur[p]] + gap[p] >= Lease
    /\ ~lost[p] /\ pc[p] \in Beating /\ local[p] > MaxPause =>
          HoldsClaim(p, cur[p]) /\ local[p] <= lease[cur[p]] + MaxPause
    /\ pc[p] = "gated" =>
          HoldsClaim(p, cur[p]) /\ lease[cur[p]] + gap[p] + MaxPause >= Headroom + 1

-------------------------------------------------------------------------------
(* The coordinators use the journal as its specification allows.           *)

\* Control alone, without the timing argument, carries the refinement.
CInv == JInv /\ MTypeOK /\ \A p \in Proc : Control(p)

\* Every step of a coordinator is a step of the journal or leaves it alone.
LEMMA JournalStep ==
    ASSUME CInv, [MNext]_mvars
    PROVE  [Next]_jvars
  <1> USE DEF CInv
  <1>0. live \subseteq Proc
    BY DEF MTypeOK, JTypeOK
  <1>1. CASE \E p \in live : Start(p)
    BY <1>0, <1>1 DEF Start, Next, Control
  <1>2. CASE \E p \in live : PlanStep(p) \/ PrepareAbstains(p)
    BY <1>2 DEF PlanStep, PrepareAbstains, PlanMerge, PlanUnmerge, PlanDelete, Plan
  <1>3. CASE \E p \in live, o \in Op : PrepareRow(p, o)
    <2>1. PICK p \in live, o \in Op : PrepareRow(p, o)
      BY <1>3
    <2>2. p \in ready /\ plan[p] \in Request /\ Prepare(p, o, plan[p])
      BY <1>0, <2>1 DEF PrepareRow, Control
    <2> QED BY <2>2 DEF Next, ProcessCall
  <1>4. CASE \E p \in live, o \in Op : \E alive \in PidAnswers(live, owner[o]) : ClaimRow(p, o, alive)
    <2>1. PICK p \in live, o \in Op : \E alive \in PidAnswers(live, owner[o]) : ClaimRow(p, o, alive)
      BY <1>4
    <2>2. p \in ready
      BY <1>0, <2>1 DEF ClaimRow, Control
    <2>3. \E alive \in PidAnswers(live, owner[o]) : ClaimAbandonedOperation(p, o, alive)
      BY <2>1 DEF ClaimRow
    <2> QED BY <2>2, <2>3 DEF Next, ProcessCall
  <1>5. CASE \E p \in live : BeatStep(p)
    <2>1. PICK p \in live : BeatStep(p)
      BY <1>5
    <2>2. CASE RenewBeat(p)
      <3>1. p \in ready /\ cur[p] \in Op
        BY <1>0, <2>2 DEF RenewBeat, Control, InSaga, Beating
      <3> QED BY <2>2, <3>1 DEF RenewBeat, Next, ProcessCall
    <2>3. CASE StartHeartbeat(p) \/ LoseBeat(p)
      BY <2>3 DEF StartHeartbeat, LoseBeat
    <2> QED BY <2>1, <2>2, <2>3 DEF BeatStep
  <1>6. CASE \E p \in live : SagaStep(p)
    <2>1. PICK p \in live : SagaStep(p)
      BY <1>6
    <2>2. CASE Commit(p) \/ Settle(p)
      <3>1. p \in ready /\ cur[p] \in Op
        BY <1>0, <2>2 DEF Commit, Settle, Control, InSaga
      <3>2. \/ MarkCommitted(p, cur[p]) \/ MarkNeedsReview(p, cur[p]) \/ MarkFailed(p, cur[p])
            \/ UNCHANGED jvars
        BY <2>2 DEF Commit, Settle
      <3> QED BY <2>1, <3>1, <3>2 DEF Next, ProcessCall
    <2>3. CASE Reverse(p)
      <3>1. p \in ready /\ req[cur[p]].reverses \in Op
        BY <1>0, <2>3, RequestAssumption DEF Reverse, Control, InSaga, MTypeOK, JTypeOK
      <3>2. MarkReversed(req[cur[p]].reverses) \/ UNCHANGED jvars
        BY <2>3 DEF Reverse
      <3> QED BY <2>1, <3>1, <3>2 DEF Next, ProcessCall
    <2>4. CASE \/ Classify(p) \/ MergeIneligible(p) \/ Dispatch(p) \/ Send(p) \/ Retry(p)
               \/ GiveUp(p) \/ Verify(p) \/ Judge(p)
      BY <2>4 DEF Classify, MergeIneligible, Dispatch, Send, Retry, GiveUp, Verify, Judge
    <2> QED BY <2>1, <2>2, <2>3, <2>4 DEF SagaStep
  <1>7. CASE \E o \in Op, p \in Proc, D \in SUBSET Entity : Land(o, p, D)
    BY <1>7 DEF Land
  <1>8. CASE \E o \in Op, p \in Proc : Rollback(o, p)
    BY <1>8 DEF Rollback
  <1>9. CASE \E p \in live : Crash(p)
    BY <1>9 DEF Crash, Next
  <1>10. CASE \E e \in Decayable : Decay(e)
    BY <1>10 DEF Decay
  <1>11. CASE Tick
    BY <1>11 DEF Tick, Next
  <1>12. CASE Operator
    BY <1>12 DEF Operator, Next
  <1>13. CASE UNCHANGED mvars
    BY <1>13 DEF mvars
  <1> QED BY <1>1, <1>2, <1>3, <1>4, <1>5, <1>6, <1>7, <1>8, <1>9, <1>10, <1>11, <1>12, <1>13
          DEF MNext

-------------------------------------------------------------------------------
(* Types and control.                                                      *)

\* A row never disappears and its request never changes.
LEMMA RowsPersist ==
    ASSUME JInv, [Next]_jvars
    PROVE  \A o \in Op : state[o] # "ABSENT" => state'[o] # "ABSENT" /\ req'[o] = req[o]
  <1> USE DEF JInv, JTypeOK
  <1>1. ASSUME NEW o \in Op, NEW to \in OperationStates, NEW from, NEW token,
               Transition(o, to, from, token)
        PROVE  \A n \in Op : state[n] # "ABSENT" => state'[n] # "ABSENT" /\ req'[n] = req[n]
    BY <1>1 DEF Transition, OperationStates
  <1>2. CASE \E p \in live \ ready : EnsureReady(p)
    BY <1>2 DEF EnsureReady
  <1>3. CASE \E p \in live \cap ready : ProcessCall(p)
    <2>1. PICK p \in live \cap ready : ProcessCall(p)
      BY <1>3
    <2>2. CASE \E o \in Op, r \in Request : Prepare(p, o, r)
      BY <2>2 DEF Prepare, Fresh
    <2>3. CASE \E o \in Op : \/ MarkCommitted(p, o) \/ MarkNeedsReview(p, o)
                             \/ MarkFailed(p, o) \/ MarkReversed(o)
      BY <1>1, <2>3 DEF MarkCommitted, MarkNeedsReview, MarkFailed, MarkReversed, OperationStates
    <2>4. CASE \/ \E o \in Op : RenewOwnerHeartbeat(p, o)
               \/ \E o \in Op : \E b \in PidAnswers(live, owner[o]) : ClaimAbandonedOperation(p, o, b)
      BY <2>4 DEF RenewOwnerHeartbeat, ClaimAbandonedOperation
    <2>5. CASE (\E b \in PidAnswers(live, gateHolder) : AcquireGate(p, b))
               \/ RenewGate(p) \/ ReleaseGate(p)
      BY <2>5 DEF AcquireGate, RenewGate, ReleaseGate, rowVars
    <2> QED BY <2>1, <2>2, <2>3, <2>4, <2>5 DEF ProcessCall
  <1>4. CASE OperatorCall
    BY <1>1, <1>4 DEF OperatorCall, ClearNeedsReview, AttestOwnerDeath
  <1>5. CASE ClockTick \/ (\E p \in live : Die(p)) \/ UNCHANGED jvars
    BY <1>5 DEF ClockTick, Die, jvars, rowVars
  <1> QED BY <1>2, <1>3, <1>4, <1>5 DEF Next

\* The graph stays well typed: every node a statement touches is an entity.
LEMMA GraphType ==
    ASSUME CInv, [MNext]_mvars
    PROVE  /\ copies' \in [Entity -> 0..MaxCopies]
           /\ lineage' \in [Entity -> SUBSET Entity]
           /\ applied' \in [Op -> 0..MaxCopies]
           /\ absorbedBy' \in [Entity -> Op \cup {NoOp}]
  <1> USE DEF CInv
  <1>0. /\ copies \in [Entity -> 0..MaxCopies]
        /\ lineage \in [Entity -> SUBSET Entity]
        /\ applied \in [Op -> 0..MaxCopies]
        /\ absorbedBy \in [Entity -> Op \cup {NoOp}]
    BY DEF MTypeOK
  <1>1. CASE UNCHANGED graphVars
    BY <1>0, <1>1 DEF graphVars
  <1>2. CASE \E o \in Op, p \in Proc, D \in SUBSET Entity : Land(o, p, D)
    <2>1. PICK o \in Op, p \in Proc, D \in SUBSET Entity : Land(o, p, D)
      BY <1>2
    <2>2. state[o] # "ABSENT" /\ req[o] \in Request
      BY <2>1 DEF Land, Control, MTypeOK, JTypeOK
    <2>3. req[o].targets \subseteq Entity
      BY <2>2, JournalAssumption
    <2>4. req[o].kind \in {"ENTITY_MERGE", "ENTITY_UNMERGE"} =>
             req[o].survivor \in Entity /\ req[o].absorbed \in Entity /\ req[o].snapshot \subseteq Entity
      BY <2>2, <2>3, RequestAssumption
    <2>5. /\ 0 \in 0..MaxCopies
          /\ Capped(applied[o] + 1) \in 0..MaxCopies
          /\ \A e, f \in Entity : Capped(copies[e] + copies[f]) \in 0..MaxCopies
      BY <1>0 DEF Capped, MaxCopies
    <2>6. Effect(o, D)
      BY <2>1 DEF Land
    <2> HIDE DEF CInv
    <2>7. CASE req[o].kind = "ENTITY_MERGE" /\ MergeEffect(o)
      <3>1. lineage' \in [Entity -> SUBSET Entity]
        BY <1>0, <2>4, <2>7 DEF MergeEffect
      <3> QED BY <1>0, <2>4, <2>5, <2>7, <3>1 DEF MergeEffect, Landed
    <2>8. CASE req[o].kind = "ENTITY_UNMERGE" /\ RestoreEffect(o)
      <3>1. lineage' \in [Entity -> SUBSET Entity]
        BY <1>0, <2>4, <2>8 DEF RestoreEffect
      <3> QED BY <1>0, <2>4, <2>5, <2>8, <3>1 DEF RestoreEffect, Landed
    <2>9. CASE DeleteEffect(o, D)
      BY <1>0, <2>5, <2>9 DEF DeleteEffect, Landed
    <2>10. CASE NoEffect
      BY <1>1, <2>10 DEF NoEffect
    <2> QED BY <2>6, <2>7, <2>8, <2>9, <2>10 DEF Effect
  <1>3. CASE \E e \in Decayable : Decay(e)
    BY <1>0, <1>3, MutationAssumption DEF Decay, MaxCopies
  <1>4. CASE \E p \in live : Start(p) \/ PlanStep(p) \/ PrepareAbstains(p)
    BY <1>1, <1>4 DEF Start, PlanStep, PlanMerge, PlanUnmerge, PlanDelete, Plan, PrepareAbstains
  <1>5. CASE \E p \in live, o \in Op : \/ PrepareRow(p, o)
                                       \/ \E alive \in PidAnswers(live, owner[o]) : ClaimRow(p, o, alive)
    BY <1>1, <1>5 DEF PrepareRow, ClaimRow
  <1>6. CASE \E p \in live : BeatStep(p) \/ SagaStep(p)
    BY <1>1, <1>6 DEF BeatStep, StartHeartbeat, RenewBeat, LoseBeat, SagaStep, Classify,
       MergeIneligible, Dispatch, Send, Retry, GiveUp, Verify, Judge, Commit, Settle, Reverse
  <1>7. CASE (\E p \in live : Crash(p)) \/ Tick \/ Operator \/ UNCHANGED mvars
             \/ \E o \in Op, p \in Proc : Rollback(o, p)
    BY <1>1, <1>7 DEF Crash, Tick, Operator, Rollback, mvars
  <1> QED BY <1>2, <1>3, <1>4, <1>5, <1>6, <1>7 DEF MNext

\* The part of MTypeOK that describes the processes and the server.
ProcTypeOK ==
    /\ flight \in [Op -> [Proc -> 0..ServerBound]]
    /\ pc \in [Proc -> Labels]
    /\ cur \in [Proc -> Op \cup {NoOp}]
    /\ plan \in [Proc -> Request \cup {NoRequest}]
    /\ local \in [Proc -> 0..Lease]
    /\ lost \in [Proc -> BOOLEAN]
    /\ gap \in [Proc -> 0..MaxPause]
    /\ resp \in [Proc -> SUBSET Entity]

ProcControl == ProcTypeOK /\ \A p \in Proc : Control(p)

\* What the next lemmas assume of a step: rows persist, and nobody opens the
\* journal but the process that starts.
Persist ==
    \A o \in Op : state[o] # "ABSENT" => state'[o] # "ABSENT" /\ req'[o] = req[o]

\* A process that a step leaves alone keeps its control facts.
LEMMA ControlFrame ==
    ASSUME NEW p \in Proc, Control(p), Persist,
           pc'[p] = pc[p], cur'[p] = cur[p], plan'[p] = plan[p], lost'[p] = lost[p],
           gap'[p] = gap[p],
           \A o \in Op : flight'[o][p] > 0 => flight[o][p] > 0,
           p \in ready' <=> p \in ready
    PROVE  Control(p)'
  <1>1. Unguarded(p)' <=> Unguarded(p)
    BY DEF Unguarded
  <1>2. pc[p] = "reverse" => req'[cur[p]] = req[cur[p]]
    BY DEF Control, Persist, InSaga
  <1> QED BY <1>1, <1>2 DEF Control, Persist

\* Starting, planning and opening a row.
LEMMA OpeningControl ==
    ASSUME CInv, Persist, NEW q \in live,
           \/ Start(q) \/ PlanStep(q) \/ PrepareAbstains(q)
           \/ \E o \in Op : PrepareRow(q, o)
           \/ \E o \in Op : \E alive \in BOOLEAN : ClaimRow(q, o, alive)
    PROVE  ProcControl'
  <1>0. ProcControl /\ q \in Proc
    BY DEF CInv, MTypeOK, ProcTypeOK, ProcControl, JTypeOK
  <1> USE JournalAssumption, MutationAssumption DEF ProcControl, ProcTypeOK, Labels
  <1>1. CASE Start(q)
    <2>1. ready' = ready \cup {q}
      BY <1>1 DEF Start, EnsureReady
    <2>2. UNCHANGED <<flight, cur, plan, local, lost, gap, resp>> /\ pc[q] = "off"
      BY <1>1 DEF Start, beatVars
    <2>3. pc' \in [Proc -> Labels] /\ pc'[q] = "idle" /\ \A p \in Proc \ {q} : pc'[p] = pc[p]
      BY <1>0, <1>1 DEF Start, Goto
    <2>4. ProcTypeOK'
      BY <1>0, <2>2, <2>3
    <2>5. \A p \in Proc \ {q} : Control(p)'
      BY <1>0, <2>1, <2>2, <2>3, ControlFrame
    <2>6. Control(q)'
      <3>1. lost[q] /\ gap[q] = 0 /\ \A n \in Op : flight[n][q] > 0 => state[n] # "ABSENT"
        BY <1>0, <2>2 DEF Control, Unguarded, Beating
      <3> HIDE DEF ProcControl, ProcTypeOK, Labels
      <3> QED BY <2>1, <2>2, <2>3, <3>1 DEF Control, Persist, Unguarded, InSaga, Beating
    <2> HIDE DEF ProcTypeOK
    <2> QED BY <2>4, <2>5, <2>6
  <1>2. CASE PlanStep(q)
    <2>1. PICK r \in Request : Plan(q, r)
      <3>1. CASE \E s, a \in Entity : PlanMerge(q, s, a)
        <4>1. PICK s \in Entity, a \in Entity : PlanMerge(q, s, a)
          BY <3>1
        <4>2. (a \in lineage[s]) \in BOOLEAN /\ lineage[a] \in SUBSET Entity
          BY <4>1 DEF CInv, MTypeOK
        <4>3. PICK b \in BOOLEAN : b = (a \in lineage[s])
          BY <4>2
        <4>4. PairRequest("ENTITY_MERGE", s, a, b, lineage[a], NoOp) \in Request
          <5>1. CASE Op # {}
            BY <4>2, <5>1, RequestAssumption
          <5>2. CASE Op = {}
            BY <4>1, <5>2 DEF PlanMerge, Plan
          <5> QED BY <5>1, <5>2
        <4> QED BY <4>1, <4>3, <4>4 DEF PlanMerge
      <3>2. CASE \E m \in Op : PlanUnmerge(q, m)
        <4>1. PICK m \in Op : PlanUnmerge(q, m)
          BY <3>2
        <4>2. req[m] \in Request /\ req[m].kind = "ENTITY_MERGE"
          BY <4>1 DEF PlanUnmerge, CInv, MTypeOK, JTypeOK
        <4>3. /\ req[m].survivor \in Entity /\ req[m].absorbed \in Entity
              /\ req[m].snapshot \in SUBSET Entity
          BY <4>2, RequestAssumption
        <4> QED BY <4>1, <4>3, RequestAssumption DEF PlanUnmerge
      <3>3. CASE \E k \in Kinds \cap DeleteKinds, T \in SUBSET Entity : PlanDelete(q, k, T)
        BY <3>3, RequestAssumption DEF PlanDelete
      <3> QED BY <1>2, <3>1, <3>2, <3>3 DEF PlanStep
    <2>2. /\ UNCHANGED <<state, req, ready, flight, cur, local, lost, gap, resp>>
          /\ pc[q] = "idle"
      BY <2>1 DEF Plan, jvars, rowVars, beatVars
    <2>3. /\ pc' \in [Proc -> Labels] /\ plan' \in [Proc -> Request \cup {NoRequest}]
          /\ pc'[q] = "planned" /\ plan'[q] = r
          /\ \A p \in Proc \ {q} : pc'[p] = pc[p] /\ plan'[p] = plan[p]
      BY <1>0, <2>1 DEF Plan, Goto
    <2>4. ProcTypeOK'
      BY <1>0, <2>2, <2>3
    <2>5. \A p \in Proc \ {q} : Control(p)'
      BY <1>0, <2>2, <2>3, ControlFrame
    <2>6. Control(q)'
      <3>1. lost[q] /\ gap[q] = 0 /\ q \in ready /\ \A n \in Op : flight[n][q] > 0 => state[n] # "ABSENT"
        BY <1>0, <2>2 DEF Control, Unguarded, Beating
      <3> HIDE DEF ProcControl, ProcTypeOK, Labels
      <3> QED BY <2>2, <2>3, <3>1 DEF Control, Unguarded, InSaga, Beating
    <2> HIDE DEF ProcTypeOK
    <2> QED BY <2>4, <2>5, <2>6
  <1>3. CASE PrepareAbstains(q)
    BY <1>0, <1>3 DEF PrepareAbstains, Finish, Goto, Control, jvars, rowVars, Unguarded, InSaga, Beating
  <1>4. CASE \E o \in Op : PrepareRow(q, o)
    <2>1. PICK o \in Op : PrepareRow(q, o)
      BY <1>4
    <2>2. ready' = ready /\ state'[o] = "PREPARED"
      BY <2>1 DEF PrepareRow, Prepare, CInv, JInv, JTypeOK
    <2>3. UNCHANGED <<flight, local, lost, gap, resp>> /\ pc[q] = "planned"
      BY <2>1 DEF PrepareRow, beatVars
    <2>4. /\ pc' \in [Proc -> Labels] /\ cur' \in [Proc -> Op \cup {NoOp}]
          /\ plan' \in [Proc -> Request \cup {NoRequest}]
          /\ pc'[q] = "stamped" /\ cur'[q] = o
          /\ \A p \in Proc \ {q} : pc'[p] = pc[p] /\ cur'[p] = cur[p] /\ plan'[p] = plan[p]
      BY <1>0, <2>1 DEF PrepareRow, Goto
    <2>5. ProcTypeOK'
      BY <1>0, <2>3, <2>4
    <2>6. \A p \in Proc \ {q} : Control(p)'
      BY <1>0, <2>2, <2>3, <2>4, ControlFrame
    <2>7. Control(q)'
      <3>1. lost[q] /\ gap[q] = 0 /\ q \in ready /\ \A n \in Op : flight[n][q] > 0 => state[n] # "ABSENT"
        BY <1>0, <2>3 DEF Control, Unguarded, Beating
      <3> HIDE DEF ProcControl, ProcTypeOK, Labels
      <3> QED BY <2>2, <2>3, <2>4, <3>1 DEF Control, Persist, Unguarded, InSaga, Beating
    <2> HIDE DEF ProcTypeOK
    <2> QED BY <2>5, <2>6, <2>7
  <1>5. CASE \E o \in Op : \E alive \in BOOLEAN : ClaimRow(q, o, alive)
    <2>1. PICK o \in Op : \E alive \in BOOLEAN : ClaimRow(q, o, alive)
      BY <1>5
    <2>2. ready' = ready /\ state' = state /\ req' = req /\ state[o] = "PREPARED"
      BY <2>1 DEF ClaimRow, ClaimAbandonedOperation, Claimable
    <2>3. UNCHANGED <<flight, plan, local, lost, gap, resp>> /\ pc[q] = "idle"
      BY <2>1 DEF ClaimRow, beatVars
    <2>4. /\ pc' \in [Proc -> Labels] /\ cur' \in [Proc -> Op \cup {NoOp}]
          /\ pc'[q] \in {"judge", "stamped"} /\ cur'[q] = o
          /\ \A p \in Proc \ {q} : pc'[p] = pc[p] /\ cur'[p] = cur[p]
      BY <1>0, <2>1 DEF ClaimRow, Goto
    <2>5. ProcTypeOK'
      BY <1>0, <2>3, <2>4
    <2>6. \A p \in Proc \ {q} : Control(p)'
      BY <1>0, <2>2, <2>3, <2>4, ControlFrame
    <2>7. Control(q)'
      <3>1. lost[q] /\ gap[q] = 0 /\ q \in ready /\ \A n \in Op : flight[n][q] > 0 => state[n] # "ABSENT"
        BY <1>0, <2>3 DEF Control, Unguarded, Beating
      <3> HIDE DEF ProcControl, ProcTypeOK, Labels
      <3> QED BY <2>2, <2>3, <2>4, <3>1 DEF Control, Unguarded, InSaga, Beating
    <2> HIDE DEF ProcTypeOK
    <2> QED BY <2>5, <2>6, <2>7
  <1> QED BY <1>1, <1>2, <1>3, <1>4, <1>5

\* The heartbeat and the saga body.
LEMMA BodyControl ==
    ASSUME CInv, Persist, NEW q \in live, BeatStep(q) \/ SagaStep(q)
    PROVE  ProcControl'
  <1>0. ProcControl /\ q \in Proc
    BY DEF CInv, MTypeOK, ProcTypeOK, ProcControl, JTypeOK
  <1> USE <1>0, JournalAssumption, MutationAssumption DEF ProcControl, ProcTypeOK, Labels
  <1> USE DEF Control, Unguarded, InSaga, Beating
  <1>1. CASE StartHeartbeat(q) \/ LoseBeat(q)
    <2>1. UNCHANGED <<state, req, ready, flight, cur, plan, resp>>
      BY <1>1 DEF StartHeartbeat, LoseBeat, jvars, rowVars
    <2>2. ProcTypeOK'
      <3>1. CASE StartHeartbeat(q)
        BY <2>1, <3>1 DEF StartHeartbeat, Goto
      <3>2. CASE LoseBeat(q)
        BY <2>1, <3>2 DEF LoseBeat
      <3> QED BY <1>1, <3>1, <3>2
    <2>3. \A p \in Proc \ {q} : Control(p)'
      BY <1>1, <2>1, ControlFrame DEF StartHeartbeat, LoseBeat, Goto
    <2>4. Control(q)'
      <3>1. CASE StartHeartbeat(q)
        <4>1. pc[q] = "stamped" /\ pc'[q] \in {"dispatch", "classify"} /\ gap'[q] = 0
          BY <3>1 DEF StartHeartbeat, Goto
        <4> QED BY <2>1, <4>1
      <3>2. CASE LoseBeat(q)
        BY <2>1, <3>2 DEF LoseBeat
      <3> QED BY <1>1, <3>1, <3>2
    <2> HIDE DEF Control, ProcTypeOK
    <2> QED BY <2>2, <2>3, <2>4
  <1>2. CASE RenewBeat(q)
    <2>1. ready' = ready /\ state' = state /\ req' = req
      BY <1>2 DEF RenewBeat, RenewOwnerHeartbeat
    <2> QED BY <1>2, <2>1 DEF RenewBeat
  <1>3. CASE Classify(q) \/ MergeIneligible(q) \/ Dispatch(q) \/ Retry(q) \/ Judge(q)
    <2>1. UNCHANGED <<state, req, ready, flight, cur, plan, local, lost, gap, resp>>
      BY <1>3 DEF Classify, MergeIneligible, Dispatch, Retry, Judge, jvars, rowVars, beatVars
    <2>2. PICK label \in {"commit", "dispatch", "review", "verify", "gated"} : Goto(q, label)
      BY <1>3 DEF Classify, MergeIneligible, Dispatch, Retry, Judge
    <2>3. pc[q] \in {"classify", "dispatch", "sent", "judge"}
      BY <1>3 DEF Classify, MergeIneligible, Dispatch, Retry, Judge
    <2>4. ProcTypeOK'
      BY <2>1, <2>2 DEF Goto
    <2>5. \A p \in Proc \ {q} : Control(p)'
      BY <2>1, <2>2, ControlFrame DEF Goto
    <2>6. Control(q)'
      <3>1. pc[q] = "judge" => lost[q]
        BY DEF Control
      <3>2. pc'[q] = label
        BY <2>2 DEF Goto
      <3> QED BY <2>1, <2>3, <3>1, <3>2
    <2> HIDE DEF Control, ProcTypeOK
    <2> QED BY <2>4, <2>5, <2>6
  <1>4. CASE Verify(q)
    <2>1. Verdict(req[cur[q]], resp[q]) \in {"commit", "review", "fail"}
      BY DEF Verdict
    <2> QED BY <1>4, <2>1 DEF Verify, Goto, jvars, rowVars, beatVars
  <1>5. CASE Send(q)
    <2>1. cur[q] \in Op /\ state[cur[q]] # "ABSENT"
      BY <1>5 DEF Send
    <2>2. UNCHANGED <<state, req, ready>>
      BY <1>5 DEF Send, jvars, rowVars
    <2>3. /\ flight' \in [Op -> [Proc -> 0..ServerBound]]
          /\ \A o \in Op, p \in Proc : ~(o = cur[q] /\ p = q) => flight'[o][p] = flight[o][p]
      BY <1>5, <2>1 DEF Send
    <2> QED BY <1>5, <2>1, <2>2, <2>3 DEF Send, Goto
  <1>6. CASE GiveUp(q)
    BY <1>6 DEF GiveUp, Finish, Goto, jvars, rowVars
  <1>7. CASE Commit(q) \/ Settle(q) \/ Reverse(q)
    <2>1. ready' = ready
      BY <1>7 DEF Commit, Settle, Reverse, MarkCommitted, MarkNeedsReview, MarkFailed,
                  MarkReversed, Transition, jvars
    <2>2. CASE Finish(q) /\ UNCHANGED flight
      <3>1. ProcTypeOK'
        BY <2>2 DEF Finish, Goto
      <3>2. \A p \in Proc \ {q} : Control(p)'
        <4>1. ASSUME NEW p \in Proc \ {q}
              PROVE  /\ pc'[p] = pc[p] /\ cur'[p] = cur[p] /\ plan'[p] = plan[p]
                     /\ lost'[p] = lost[p] /\ gap'[p] = gap[p] /\ UNCHANGED flight
          BY <2>2 DEF Finish, Goto
        <4> HIDE DEF Control, ProcTypeOK, Labels
        <4> QED BY <2>1, <4>1, ControlFrame
      <3>3. Control(q)'
        <4>1. /\ pc'[q] = "idle" /\ lost'[q] /\ gap'[q] = 0
              /\ pc[q] \in {"commit", "review", "fail", "reverse"}
          BY <1>7, <2>2 DEF Finish, Goto, Commit, Settle, Reverse
        <4> QED BY <2>1, <2>2, <4>1 DEF Persist
      <3> HIDE DEF Control, ProcTypeOK
      <3> QED BY <3>1, <3>2, <3>3
    <2>3. CASE Commit(q) /\ req[cur[q]].kind = "ENTITY_UNMERGE" /\ Goto(q, "reverse")
               /\ UNCHANGED <<cur, plan, beatVars, resp>>
      <3>1. UNCHANGED <<cur, plan, local, lost, gap, resp, flight>> /\ pc[q] = "commit"
        BY <2>3 DEF Commit, beatVars
      <3>2. ProcTypeOK'
        BY <2>3, <3>1 DEF Goto
      <3>3. \A p \in Proc \ {q} : Control(p)'
        BY <2>1, <2>3, <3>1, ControlFrame DEF Goto
      <3>4. Control(q)'
        <4>1. pc'[q] = "reverse" /\ cur[q] \in Op /\ q \in ready /\ state[cur[q]] # "ABSENT"
          BY <2>3, <3>1 DEF Goto
        <4>2. state'[cur[q]] # "ABSENT" /\ req'[cur[q]].kind = "ENTITY_UNMERGE"
          BY <2>3, <4>1 DEF Persist
        <4>3. gap[q] = 0 /\ \A o \in Op : flight[o][q] > 0 => state'[o] # "ABSENT"
          BY <3>1 DEF Persist
        <4> QED BY <2>1, <3>1, <4>1, <4>2, <4>3
      <3> HIDE DEF Control, ProcTypeOK
      <3> QED BY <3>2, <3>3, <3>4
    <2> QED BY <1>7, <2>2, <2>3 DEF Commit, Settle, Reverse, AfterCommit
  <1> QED BY <1>1, <1>2, <1>3, <1>4, <1>5, <1>6, <1>7 DEF BeatStep, SagaStep

\* The server, the clock and the operator.
LEMMA EnvironmentControl ==
    ASSUME CInv, Persist,
           \/ \E o \in Op, p \in Proc, D \in SUBSET Entity : Land(o, p, D)
           \/ \E o \in Op, p \in Proc : Rollback(o, p)
           \/ \E p \in live : Crash(p)
           \/ \E e \in Decayable : Decay(e)
           \/ Tick \/ Operator \/ UNCHANGED mvars
    PROVE  ProcControl'
  <1>0. ProcControl /\ live \subseteq Proc
    BY DEF CInv, MTypeOK, ProcTypeOK, ProcControl, JTypeOK
  <1> USE <1>0, JournalAssumption, MutationAssumption DEF ProcControl, ProcTypeOK, Labels
  <1> USE DEF Control, Unguarded, InSaga, Beating
  <1>1. CASE \E o \in Op, p \in Proc, D \in SUBSET Entity : Land(o, p, D)
    <2>1. PICK o \in Op, q \in Proc, D \in SUBSET Entity : Land(o, q, D)
      BY <1>1
    <2>2. UNCHANGED <<state, req, ready, cur, plan, local, lost, gap>>
      BY <2>1 DEF Land, jvars, rowVars, beatVars
    <2>3. /\ flight' \in [Op -> [Proc -> 0..ServerBound]]
          /\ \A n \in Op, p \in Proc : flight'[n][p] > 0 => flight[n][p] > 0
      BY <2>1 DEF Land
    <2>4. /\ pc' \in [Proc -> Labels] /\ resp' \in [Proc -> SUBSET Entity]
          /\ \A p \in Proc : pc'[p] = pc[p] \/ (pc[p] = "sent" /\ pc'[p] = "verify")
      BY <2>1 DEF Land, Waiting
    <2>5. ProcTypeOK'
      BY <2>2, <2>3, <2>4
    <2>6. ASSUME NEW p \in Proc, pc'[p] = pc[p]
          PROVE  Control(p)'
      BY <2>2, <2>3, <2>6, ControlFrame
    <2>7. ASSUME NEW p \in Proc, pc[p] = "sent", pc'[p] = "verify"
          PROVE  Control(p)'
      BY <2>2, <2>3, <2>7
    <2> HIDE DEF Control, ProcTypeOK
    <2> QED BY <2>4, <2>5, <2>6, <2>7
  <1>2. CASE \E o \in Op, p \in Proc : Rollback(o, p)
    <2>1. PICK o \in Op, q \in Proc : Rollback(o, q)
      BY <1>2
    <2>2. /\ flight' \in [Op -> [Proc -> 0..ServerBound]]
          /\ \A n \in Op, p \in Proc : flight'[n][p] > 0 => flight[n][p] > 0
      BY <2>1 DEF Rollback
    <2> QED BY <2>1, <2>2 DEF Rollback, jvars, rowVars, procVars, beatVars
  <1>3. CASE \E p \in live : Crash(p)
    BY <1>3 DEF Crash, Die, rowVars
  <1>4. CASE (\E e \in Decayable : Decay(e)) \/ UNCHANGED mvars
    BY <1>4 DEF Decay, mvars, jvars, rowVars, procVars, beatVars
  <1>5. CASE Tick
    <2>1. UNCHANGED <<state, req, ready, pc, cur, plan, lost, resp>>
      BY <1>5 DEF Tick, ClockTick
    <2>2. local' \in [Proc -> 0..Lease]
      BY <1>5, Minus1Type DEF Tick
    <2>3. /\ gap' \in [Proc -> 0..MaxPause]
          /\ \A p \in Proc : pc[p] \notin {"stamped", "gated"} => gap'[p] = gap[p]
      BY <1>5 DEF Tick
    <2>4. /\ flight' \in [Op -> [Proc -> 0..ServerBound]]
          /\ \A n \in Op, p \in Proc : flight'[n][p] > 0 => flight[n][p] > 0
      <3>1. \A n \in 0..ServerBound : Minus1(n) \in 0..ServerBound /\ (Minus1(n) > 0 => n > 0)
        BY DEF Minus1
      <3>2. flight' = [n \in Op |-> [p \in Proc |-> Minus1(flight[n][p])]]
        BY <1>5 DEF Tick
      <3>3. \A n \in Op, p \in Proc : flight[n][p] \in 0..ServerBound
        OBVIOUS
      <3> HIDE DEF Control, ProcTypeOK
      <3> QED BY <3>1, <3>2, <3>3
    <2>5. ProcTypeOK'
      BY <2>1, <2>2, <2>3, <2>4
    <2>6. \A p \in Proc : Control(p)'
      BY <2>1, <2>3, <2>4
    <2> HIDE DEF Control, ProcTypeOK
    <2> QED BY <2>5, <2>6
  <1>6. CASE Operator
    <2>1. ready' = ready
      BY <1>6 DEF Operator, OperatorCall, AttestOwnerDeath, ClearNeedsReview, Transition
    <2>2. UNCHANGED <<flight, pc, cur, plan, local, lost, gap, resp>>
      BY <1>6 DEF Operator, procVars, beatVars
    <2>3. ProcTypeOK'
      BY <2>2
    <2>4. \A p \in Proc : Control(p)'
      <3> HIDE DEF Control
      <3> QED BY <2>1, <2>2, ControlFrame
    <2> HIDE DEF Control, ProcTypeOK
    <2> QED BY <2>3, <2>4
  <1> QED BY <1>1, <1>2, <1>3, <1>4, <1>5, <1>6

\* Journal invariant, types and control are inductive together.
LEMMA CInvStep ==
    ASSUME CInv, [MNext]_mvars
    PROVE  CInv'
  <1>1. [Next]_jvars
    BY JournalStep
  <1>2. JInv' /\ Persist
    BY <1>1, NextInv, RowsPersist DEF CInv, Persist
  <1>3. ProcControl'
    BY <1>2, OpeningControl, BodyControl, EnvironmentControl DEF MNext, PidAnswers
  <1> QED BY <1>2, <1>3, GraphType DEF CInv, MTypeOK, ProcControl, ProcTypeOK, JInv

\* The initial state.
LEMMA CInvInit ==
    ASSUME MInit
    PROVE  CInv
  <1>1. JInv
    BY InitInv DEF MInit
  <1>2. MTypeOK
    BY <1>1, JournalAssumption, MutationAssumption, OpFacts
       DEF MInit, MTypeOK, JInv, Labels, MaxCopies, NoFlight
  <1>3. \A p \in Proc : Control(p)
    <2>0. \A o \in Op, p \in Proc : flight[o][p] = 0
      BY DEF MInit, NoFlight
    <2>1. \A o \in Op, p \in Proc : ~(flight[o][p] > 0)
      BY <2>0
    <2> QED BY <2>1 DEF MInit, JInit, Control, InSaga, Beating, Unguarded
  <1> QED BY <1>1, <1>2, <1>3 DEF CInv

\* Type correctness of the coordinators and of the server.
THEOREM SagaTypeCorrect == MSpec => []MTypeOK
  <1>1. MSpec => []CInv
    BY CInvInit, CInvStep, PTL DEF MSpec
  <1> QED BY <1>1, PTL DEF CInv

\* Every behaviour of the coordinators is a behaviour of the journal's own
\* specification, so that its theorems hold of them.
THEOREM SagaRefinesJournal == MSpec => ImplementsJournal
  <1>1. MSpec => []CInv
    BY CInvInit, CInvStep, PTL DEF MSpec
  <1>2. MInit => Init
    BY DEF MInit, Init
  <1> QED BY <1>1, <1>2, JournalStep, PTL DEF MSpec, Spec, ImplementsJournal

-------------------------------------------------------------------------------
(* Claims in force are kept by everyone but their owner.                   *)

\* The claims of p that are in force stay so, and lose no time.
Kept(p) ==
    \A o \in Op : HoldsClaim(p, o) /\ lease[o] > 0 => HoldsClaim(p, o)' /\ lease'[o] >= lease[o]

\* No method takes a claim in force from p: prepare() makes a new row, a takeover
\* needs a lapsed lease, and an operator works on quarantined rows or on the
\* attestation.
LEMMA ClaimsKept ==
    ASSUME JInv, NEW p \in Proc, NEW q \in Proc,
           \/ UNCHANGED jvars \/ EnsureReady(q) \/ OperatorCall \/ Die(q)
           \/ \E o \in Op, r \in Request : Prepare(q, o, r)
           \/ \E o \in Op : \/ RenewOwnerHeartbeat(q, o)
                            \/ MarkReversed(o)
                            \/ \E alive \in BOOLEAN : ClaimAbandonedOperation(q, o, alive)
    PROVE  Kept(p)
  <1> USE JournalAssumption, OwnerAssumption DEF JInv, JTypeOK, Kept, HoldsClaim
  <1>1. CASE UNCHANGED jvars \/ EnsureReady(q) \/ Die(q)
    BY <1>1 DEF jvars, rowVars, EnsureReady, Die
  <1>2. CASE \E o \in Op, r \in Request : Prepare(q, o, r)
    BY <1>2 DEF Prepare, Fresh
  <1>3. CASE \E o \in Op : RenewOwnerHeartbeat(q, o)
    BY <1>3 DEF RenewOwnerHeartbeat
  <1>4. CASE \E o \in Op : MarkReversed(o)
    BY <1>4 DEF MarkReversed, Transition, CanTransition, ClaimEnds
  <1>5. CASE \E o \in Op : \E alive \in BOOLEAN : ClaimAbandonedOperation(q, o, alive)
    <2>1. PICK o \in Op : \E alive \in BOOLEAN : ClaimAbandonedOperation(q, o, alive)
      BY <1>5
    <2>2. ~(lease[o] > 0)
      BY <2>1 DEF ClaimAbandonedOperation, Claimable, ClassifyOwnership
    <2> QED BY <2>1, <2>2 DEF ClaimAbandonedOperation
  <1>6. CASE OperatorCall
    <2>1. CASE \E o \in Op : AttestOwnerDeath(o)
      BY <2>1 DEF AttestOwnerDeath
    <2>2. CASE \E o \in Op : \E to \in OperationStates : ClearNeedsReview(o, to)
      BY <2>2 DEF ClearNeedsReview, Transition, CanTransition, ClaimEnds
    <2> QED BY <1>6, <2>1, <2>2 DEF OperatorCall
  <1> QED BY <1>1, <1>2, <1>3, <1>4, <1>5, <1>6

\* A terminal mark ends no claim but the marker's own, on that row.
LEMMA MarkKeeps ==
    ASSUME JInv, NEW q \in Proc, NEW o \in Op,
           MarkCommitted(q, o) \/ MarkNeedsReview(q, o) \/ MarkFailed(q, o)
    PROVE  /\ \A p \in Proc \ {q} : Kept(p)
           /\ \A n \in Op \ {o} : HoldsClaim(q, n) => HoldsClaim(q, n)' /\ lease'[n] = lease[n]
  <1> USE JournalAssumption, OwnerAssumption DEF JInv, JTypeOK, Kept, HoldsClaim
  <1>1. owner[o] \in {NoProc, q} /\ \A n \in Op \ {o} : /\ state'[n] = state[n]
                                                      /\ owner'[n] = owner[n]
                                                      /\ lease'[n] = lease[n]
    <2>1. PICK to \in {"COMMITTED", "NEEDS_REVIEW", "FAILED"} : Transition(o, to, {"PREPARED"}, q)
      BY DEF MarkCommitted, MarkNeedsReview, MarkFailed
    <2>2. owner[o] \in {NoProc, q}
      BY <2>1 DEF Transition, CanTransition
    <2>3. \A n \in Op \ {o} : state'[n] = state[n] /\ owner'[n] = owner[n]
      BY <2>1 DEF Transition
    <2>4. \A n \in Op \ {o} : lease'[n] = lease[n]
      BY <2>1 DEF Transition
    <2> QED BY <2>2, <2>3, <2>4
  <1>2. \A n \in Op \ {o} : HoldsClaim(q, n) => HoldsClaim(q, n)' /\ lease'[n] = lease[n]
    BY <1>1
  <1>3. ASSUME NEW p \in Proc \ {q} PROVE Kept(p)
    <2>1. ~HoldsClaim(p, o)
      BY <1>1
    <2> QED BY <1>1, <2>1
  <1> QED BY <1>2, <1>3

-------------------------------------------------------------------------------
(* The timing argument.                                                    *)

Timing(p) == Statements(p) /\ Margins(p)

\* The statements of p stay owned while p's claims are kept.
LEMMA FlightsKept ==
    ASSUME CInv, CInv', NEW p \in Proc, Statements(p), Kept(p),
           \A o \in Op : flight'[o][p] \in {flight[o][p], 0}
    PROVE  \A o \in Op : flight'[o][p] > 0 => HoldsClaim(p, o)' /\ flight'[o][p] <= lease'[o]
  <1> SUFFICES ASSUME NEW o \in Op, flight'[o][p] > 0
               PROVE  HoldsClaim(p, o)' /\ flight'[o][p] <= lease'[o]
    OBVIOUS
  <1>1. flight'[o][p] = flight[o][p] /\ flight[o][p] \in Nat /\ lease[o] \in Nat
    BY DEF CInv, MTypeOK, JTypeOK
  <1>2. HoldsClaim(p, o) /\ flight[o][p] <= lease[o] /\ lease[o] > 0
    BY <1>1 DEF Statements
  <1>3. HoldsClaim(p, o)' /\ lease'[o] >= lease[o]
    BY <1>2 DEF Kept
  <1>4. lease'[o] \in Nat
    BY DEF CInv, MTypeOK, JTypeOK
  <1> QED BY <1>1, <1>2, <1>3, <1>4

\* Where the margins leave time on the lease, whatever the pauses.
LEMMA MarginsPositive ==
    ASSUME HeadroomCoversPauses, CInv, NEW p \in Proc, Margins(p)
    PROVE  /\ pc[p] = "stamped" /\ gap[p] < Lease => lease[cur[p]] > 0
           /\ ~lost[p] /\ pc[p] \in Beating /\ local[p] > MaxPause => lease[cur[p]] > 0
           /\ pc[p] = "gated" => lease[cur[p]] >= ServerBound /\ lease[cur[p]] > 0
           /\ pc[p] \in InSaga => cur[p] \in Op
  <1>1. pc[p] \in InSaga => cur[p] \in Op /\ lease[cur[p]] \in Nat
    BY JournalAssumption DEF CInv, Control, MTypeOK, JTypeOK
  <1>2. gap[p] \in 0..MaxPause /\ local[p] \in Nat /\ Lease \in Nat
    BY JournalAssumption DEF CInv, MTypeOK
  <1>3. pc[p] = "stamped" /\ gap[p] < Lease => lease[cur[p]] > 0
    BY <1>1, <1>2 DEF Margins, InSaga
  <1>4. ~lost[p] /\ pc[p] \in Beating /\ local[p] > MaxPause => lease[cur[p]] > 0
    BY <1>1, <1>2, MutationAssumption DEF Margins, InSaga, Beating
  <1>5. pc[p] = "gated" => lease[cur[p]] >= ServerBound /\ lease[cur[p]] > 0
    BY <1>1, <1>2, MutationAssumption DEF Margins, InSaga, HeadroomCoversPauses
  <1> QED BY <1>1, <1>3, <1>4, <1>5

\* A process that a step leaves alone, and whose claims are kept.
LEMMA TimingFrame ==
    ASSUME HeadroomCoversPauses, CInv, CInv', NEW p \in Proc, Timing(p), Kept(p),
           \A o \in Op : flight'[o][p] \in {flight[o][p], 0},
           pc'[p] = pc[p], cur'[p] = cur[p], gap'[p] = gap[p], local'[p] = local[p],
           lost'[p] \in {lost[p], TRUE}
    PROVE  Timing(p)'
  <1>1. Statements(p)'
    BY FlightsKept DEF Timing, Statements, InSaga, CInv, Control
  <1>2. pc[p] \in InSaga => cur[p] \in Op /\ lease[cur[p]] \in Nat /\ lease'[cur[p]] \in Nat
    BY DEF CInv, Control, MTypeOK, JTypeOK
  <1>3. gap[p] \in Nat /\ local[p] \in Nat /\ Lease \in Nat /\ MaxPause \in Nat /\ Headroom \in Nat
    BY JournalAssumption, MutationAssumption DEF CInv, MTypeOK
  <1>4. pc[p] = "stamped" /\ gap[p] < Lease =>
          HoldsClaim(p, cur[p])' /\ lease'[cur[p]] + gap[p] >= Lease
    BY <1>2, <1>3, MarginsPositive DEF Timing, Margins, Kept, InSaga
  <1>5. ~lost[p] /\ pc[p] \in Beating /\ local[p] > MaxPause =>
          HoldsClaim(p, cur[p])' /\ local[p] <= lease'[cur[p]] + MaxPause
    BY <1>2, <1>3, MarginsPositive DEF Timing, Margins, Kept, InSaga, Beating
  <1>6. pc[p] = "gated" =>
          HoldsClaim(p, cur[p])' /\ lease'[cur[p]] + gap[p] + MaxPause >= Headroom + 1
    BY <1>2, <1>3, MarginsPositive DEF Timing, Margins, Kept, InSaga
  <1>7. Margins(p)'
    BY <1>4, <1>5, <1>6 DEF Margins, HoldsClaim
  <1> QED BY <1>1, <1>7 DEF Timing

\* A process that leaves its saga keeps only its statements in flight.
LEMMA TimingLeave ==
    ASSUME CInv, CInv', NEW p \in Proc, Timing(p), Kept(p),
           \A o \in Op : flight'[o][p] \in {flight[o][p], 0},
           pc'[p] \notin InSaga
    PROVE  Timing(p)'
  BY FlightsKept DEF Timing, Statements, Margins, InSaga, Beating

\* A process that moves on inside the body of its saga.
LEMMA TimingMove ==
    ASSUME HeadroomCoversPauses, CInv, CInv', NEW p \in Proc, Timing(p),
           UNCHANGED <<state, owner, lease>>,
           \A o \in Op : flight'[o][p] \in {flight[o][p], 0},
           cur'[p] = cur[p], lost'[p] = lost[p], local'[p] = local[p],
           pc[p] \in Beating \/ lost[p],
           cur[p] \in Op, flight'[cur[p]][p] = 0,
           pc'[p] \in (InSaga \ {"stamped", "gated"})
    PROVE  Timing(p)'
  <1>1. Kept(p)
    BY DEF Kept, HoldsClaim, CInv, MTypeOK, JTypeOK
  <1>2. Statements(p)'
    BY <1>1, FlightsKept DEF Timing, Statements
  <1>3. Margins(p)'
    BY DEF Timing, Margins, HoldsClaim
  <1> QED BY <1>2, <1>3 DEF Timing

AllTiming == \A p \in Proc : Timing(p)

\* Starting, planning and opening a row: the lease is stamped with the claim.
LEMMA OpeningTiming ==
    ASSUME HeadroomCoversPauses, CInv, CInv', AllTiming, NEW q \in live,
           \/ Start(q) \/ PlanStep(q) \/ PrepareAbstains(q)
           \/ \E o \in Op : PrepareRow(q, o)
           \/ \E o \in Op : \E alive \in BOOLEAN : ClaimRow(q, o, alive)
    PROVE  AllTiming'
  <1>0. /\ q \in Proc /\ JInv /\ Timing(q) /\ Control(q)
        /\ pc \in [Proc -> Labels] /\ cur \in [Proc -> Op \cup {NoOp}]
        /\ local \in [Proc -> 0..Lease] /\ lost \in [Proc -> BOOLEAN]
        /\ gap \in [Proc -> 0..MaxPause]
        /\ flight \in [Op -> [Proc -> 0..ServerBound]]
    BY DEF CInv, MTypeOK, JTypeOK, AllTiming
  <1>1. UNCHANGED <<flight, local, gap, lost>> \/ PrepareAbstains(q)
    BY DEF Start, PlanStep, PlanMerge, PlanUnmerge, PlanDelete, Plan, PrepareRow, ClaimRow, beatVars
  <1>2. /\ UNCHANGED flight
        /\ \A p \in Proc \ {q} : /\ pc'[p] = pc[p] /\ cur'[p] = cur[p] /\ gap'[p] = gap[p]
                                 /\ local'[p] = local[p] /\ lost'[p] = lost[p]
    <2>1. CASE PrepareAbstains(q)
      BY <1>0, <2>1 DEF PrepareAbstains, Finish, Goto
    <2>2. CASE ~PrepareAbstains(q)
      BY <1>0, <1>1, <2>2 DEF Start, PlanStep, PlanMerge, PlanUnmerge, PlanDelete, Plan,
                              PrepareRow, ClaimRow, Goto
    <2> QED BY <2>1, <2>2
  <1>3. \A p \in Proc : Kept(p)
    <2>1. CASE Start(q)
      BY <1>0, <2>1, ClaimsKept DEF Start
    <2>2. CASE PlanStep(q) \/ PrepareAbstains(q)
      BY <1>0, <2>2, ClaimsKept
         DEF PlanStep, PlanMerge, PlanUnmerge, PlanDelete, Plan, PrepareAbstains
    <2>3. CASE \E o \in Op : PrepareRow(q, o)
      <3>1. plan[q] \in Request /\ \E o \in Op : Prepare(q, o, plan[q])
        BY <1>0, <2>3 DEF PrepareRow, Control
      <3>2. \E o \in Op, r \in Request : Prepare(q, o, r)
        BY <3>1
      <3> QED BY <1>0, <3>2, ClaimsKept
    <2>4. CASE \E o \in Op : \E alive \in BOOLEAN : ClaimRow(q, o, alive)
      BY <1>0, <2>4, ClaimsKept DEF ClaimRow
    <2> QED BY <2>1, <2>2, <2>3, <2>4
  <1>4. \A p \in Proc \ {q} : Timing(p)'
    BY <1>2, <1>3, TimingFrame DEF AllTiming
  <1>5. Timing(q)'
    <2>1. CASE Start(q) \/ PlanStep(q) \/ PrepareAbstains(q)
      <3>1. pc'[q] \in {"idle", "planned"}
        BY <1>0, <2>1 DEF Start, PlanStep, PlanMerge, PlanUnmerge, PlanDelete, Plan,
                          PrepareAbstains, Finish, Goto
      <3> QED BY <1>0, <1>2, <1>3, <3>1, TimingLeave DEF InSaga
    <2>2. CASE \/ \E o \in Op : PrepareRow(q, o)
               \/ \E o \in Op : \E alive \in BOOLEAN : ClaimRow(q, o, alive)
      <3>1. PICK o \in Op : PrepareRow(q, o) \/ \E alive \in BOOLEAN : ClaimRow(q, o, alive)
        BY <2>2
      <3>2. /\ pc'[q] \in {"stamped", "judge"} /\ cur'[q] = o
            /\ gap'[q] = 0 /\ lost'[q] = TRUE
        <4>1. UNCHANGED <<gap, lost>> /\ pc[q] \in {"planned", "idle"}
          BY <3>1 DEF PrepareRow, ClaimRow, beatVars
        <4>2. gap[q] = 0 /\ lost[q]
          BY <1>0, <4>1 DEF Control, Unguarded, Beating
        <4>3. pc'[q] \in {"stamped", "judge"} /\ cur'[q] = o
          BY <1>0, <3>1 DEF PrepareRow, ClaimRow, Goto
        <4> QED BY <1>0, <4>1, <4>2, <4>3
      <3>3. /\ HoldsClaim(q, o)' /\ lease'[o] = Lease
            /\ ~HoldsClaim(q, o)
        BY <1>0, <3>1 DEF PrepareRow, Prepare, Fresh, ClaimRow, ClaimAbandonedOperation, Claimable,
                          HoldsClaim, JInv, JTypeOK
      <3>4. flight'[o][q] = 0
        BY <1>0, <1>2, <3>3 DEF Timing, Statements
      <3>5. Statements(q)'
        BY <1>0, <1>2, <1>3, <3>2, <3>4, FlightsKept DEF Timing, Statements
      <3>6. Margins(q)'
        BY <3>2, <3>3, JournalAssumption DEF Margins, HoldsClaim, Beating
      <3> QED BY <3>5, <3>6 DEF Timing
    <2> QED BY <2>1, <2>2
  <1> QED BY <1>4, <1>5 DEF AllTiming

\* The heartbeat.
LEMMA BeatTiming ==
    ASSUME HeadroomCoversPauses, CInv, CInv', AllTiming, NEW q \in live, BeatStep(q)
    PROVE  AllTiming'
  <1>0. /\ q \in Proc /\ JInv /\ Timing(q) /\ Control(q)
        /\ pc \in [Proc -> Labels] /\ cur \in [Proc -> Op \cup {NoOp}]
        /\ local \in [Proc -> 0..Lease] /\ lost \in [Proc -> BOOLEAN]
        /\ gap \in [Proc -> 0..MaxPause]
        /\ flight \in [Op -> [Proc -> 0..ServerBound]]
        /\ lease \in [Op -> 0..Lease]
    BY DEF CInv, MTypeOK, JTypeOK, AllTiming
  <1>1. CASE StartHeartbeat(q)
    <2>1. UNCHANGED <<flight, cur>> /\ UNCHANGED jvars /\ pc[q] = "stamped"
      BY <1>1 DEF StartHeartbeat
    <2>2. \A p \in Proc \ {q} : /\ pc'[p] = pc[p] /\ gap'[p] = gap[p]
                                /\ local'[p] = local[p] /\ lost'[p] = lost[p]
      BY <1>0, <1>1 DEF StartHeartbeat, Goto
    <2>3. \A p \in Proc : Kept(p)
      BY <1>0, <2>1, ClaimsKept
    <2>4. \A p \in Proc \ {q} : Timing(p)'
      BY <2>1, <2>2, <2>3, TimingFrame DEF AllTiming
    <2>5. cur[q] \in Op /\ flight[cur[q]][q] = 0
      BY <1>0, <2>1 DEF Control, InSaga, Timing, Statements
    <2>6. pc'[q] \in {"dispatch", "classify"} /\ local'[q] = Lease
      BY <1>0, <1>1 DEF StartHeartbeat, Goto
    <2>7. Statements(q)'
      BY <1>0, <2>1, <2>3, <2>5, FlightsKept DEF Timing, Statements
    <2>8. Lease > MaxPause => HoldsClaim(q, cur[q]) /\ Lease <= lease[cur[q]] + MaxPause
      BY <1>0, <2>1, <2>5, JournalAssumption, MutationAssumption DEF Timing, Margins
    <2>9. Margins(q)'
      BY <2>1, <2>6, <2>8 DEF Margins, HoldsClaim, jvars, rowVars
    <2> QED BY <2>4, <2>7, <2>9 DEF Timing, AllTiming
  <1>2. CASE RenewBeat(q)
    <2>1. UNCHANGED <<flight, pc, cur, lost, gap>> /\ RenewOwnerHeartbeat(q, cur[q])
      BY <1>2 DEF RenewBeat
    <2>2. /\ pc[q] \in Beating \cup {"reverse"}
          /\ cur[q] \in Op
      BY <1>0, <1>2 DEF RenewBeat, Control, InSaga, Beating
    <2>3. \A p \in Proc : Kept(p)
      BY <1>0, <2>1, <2>2, ClaimsKept
    <2>4. \A p \in Proc \ {q} : local'[p] = local[p]
      BY <1>0, <1>2 DEF RenewBeat
    <2>5. \A p \in Proc \ {q} : Timing(p)'
      BY <2>1, <2>3, <2>4, TimingFrame DEF AllTiming
    <2>6. HoldsClaim(q, cur[q])' /\ lease'[cur[q]] = Lease /\ local'[q] = Lease
      BY <1>0, <1>2, <2>1, <2>2 DEF RenewBeat, RenewOwnerHeartbeat, HoldsClaim
    <2>7. Statements(q)'
      BY <1>0, <2>1, <2>3, FlightsKept DEF Timing, Statements
    <2>8. lease[cur[q]] \in 0..Lease /\ gap[q] \in Nat
      BY <1>0, <2>2
    <2>9. pc[q] = "gated" => Lease + gap[q] + MaxPause >= Headroom + 1
      BY <1>0, <2>8, JournalAssumption, MutationAssumption DEF Timing, Margins
    <2>10. pc[q] # "stamped"
      BY <2>2 DEF Beating
    <2>11. Margins(q)'
      BY <2>1, <2>6, <2>9, <2>10, JournalAssumption, MutationAssumption DEF Margins, HoldsClaim
    <2> QED BY <2>5, <2>7, <2>11 DEF Timing, AllTiming
  <1>3. CASE LoseBeat(q)
    <2>1. UNCHANGED <<flight, pc, cur, local, gap>> /\ UNCHANGED jvars
      BY <1>3 DEF LoseBeat
    <2>2. \A p \in Proc : lost'[p] \in {lost[p], TRUE}
      BY <1>0, <1>3 DEF LoseBeat
    <2>3. \A p \in Proc : Kept(p)
      BY <1>0, <2>1, ClaimsKept
    <2> QED BY <2>1, <2>2, <2>3, TimingFrame DEF AllTiming
  <1> QED BY <1>1, <1>2, <1>3 DEF BeatStep

\* The saga body: a statement is sent only where the margins cover it, and a
\* terminal mark comes only after the writer's own statement has ended.
LEMMA BodyTiming ==
    ASSUME HeadroomCoversPauses, CInv, CInv', AllTiming, NEW q \in live, SagaStep(q)
    PROVE  AllTiming'
  <1>0. /\ q \in Proc /\ JInv /\ Timing(q) /\ Control(q)
        /\ pc \in [Proc -> Labels] /\ cur \in [Proc -> Op \cup {NoOp}]
        /\ local \in [Proc -> 0..Lease] /\ lost \in [Proc -> BOOLEAN]
        /\ gap \in [Proc -> 0..MaxPause]
        /\ flight \in [Op -> [Proc -> 0..ServerBound]]
        /\ lease \in [Op -> 0..Lease]
    BY DEF CInv, MTypeOK, JTypeOK, AllTiming
  <1>1. CASE \/ Classify(q) \/ MergeIneligible(q) \/ Dispatch(q) \/ Retry(q) \/ Verify(q) \/ Judge(q)
    <2>1. /\ UNCHANGED <<flight, cur, local, lost, gap>> /\ UNCHANGED jvars
          /\ pc[q] \in {"classify", "dispatch", "sent", "verify", "judge"}
      BY <1>1 DEF Classify, MergeIneligible, Dispatch, Retry, Verify, Judge, beatVars
    <2>2. \A p \in Proc \ {q} : pc'[p] = pc[p]
      BY <1>0, <1>1 DEF Classify, MergeIneligible, Dispatch, Retry, Verify, Judge, Goto
    <2>3. \A p \in Proc : Kept(p)
      BY <1>0, <2>1, ClaimsKept
    <2>4. \A p \in Proc \ {q} : Timing(p)'
      BY <2>1, <2>2, <2>3, TimingFrame DEF AllTiming
    <2>5. /\ cur[q] \in Op /\ flight[cur[q]][q] = 0
          /\ pc[q] \in Beating \/ lost[q]
      <3>1. CASE pc[q] = "sent"
        BY <1>0, <1>1, <2>1, <3>1
           DEF Classify, MergeIneligible, Dispatch, Retry, Verify, Judge, Control, InSaga, Beating
      <3>2. CASE pc[q] # "sent"
        BY <1>0, <2>1, <3>2 DEF Control, Timing, Statements, InSaga, Beating
      <3> QED BY <3>1, <3>2
    <2>6. CASE Dispatch(q)
      <3>1. pc'[q] = "gated" /\ pc[q] = "dispatch" /\ ShouldContinue(q)
        BY <1>0, <2>6 DEF Dispatch, Goto
      <3>2. local[q] > Headroom /\ ~lost[q] /\ gap[q] = 0
        BY <1>0, <3>1 DEF ShouldContinue, Control, Unguarded
      <3>3. local[q] > MaxPause
        BY <1>0, <3>2, MutationAssumption, JournalAssumption DEF HeadroomCoversPauses
      <3>4. HoldsClaim(q, cur[q]) /\ local[q] <= lease[cur[q]] + MaxPause
        BY <1>0, <3>1, <3>2, <3>3 DEF Timing, Margins, Beating
      <3>5. lease[cur[q]] + gap[q] + MaxPause >= Headroom + 1
        BY <1>0, <2>5, <3>2, <3>4, MutationAssumption, JournalAssumption
      <3>6. Margins(q)'
        BY <2>1, <3>1, <3>4, <3>5 DEF Margins, HoldsClaim, jvars, rowVars
      <3>7. Statements(q)'
        BY <1>0, <2>1, <2>3, <2>5, FlightsKept DEF Timing, Statements
      <3> QED BY <2>4, <3>6, <3>7 DEF Timing, AllTiming
    <2>7. CASE ~Dispatch(q)
      <3>1. pc'[q] \in {"commit", "dispatch", "review", "verify", "fail"}
        BY <1>0, <1>1, <2>7
           DEF Classify, MergeIneligible, Retry, Verify, Judge, Goto, Verdict
      <3>2. Timing(q)'
        BY <1>0, <2>1, <2>5, <3>1, TimingMove DEF InSaga, jvars, rowVars
      <3> QED BY <2>4, <3>2 DEF AllTiming
    <2> QED BY <2>6, <2>7
  <1>2. CASE Send(q)
    <2>1. /\ UNCHANGED <<cur, local, lost>> /\ UNCHANGED jvars
          /\ pc[q] = "gated" /\ pc'[q] = "sent"
      BY <1>0, <1>2 DEF Send, Goto
    <2>2. cur[q] \in Op
      BY <1>0, <2>1 DEF Control, InSaga
    <2>3. /\ flight'[cur[q]][q] = ServerBound
          /\ \A o \in Op, p \in Proc : ~(o = cur[q] /\ p = q) => flight'[o][p] = flight[o][p]
      BY <1>0, <1>2, <2>2 DEF Send
    <2>4. \A p \in Proc \ {q} : pc'[p] = pc[p] /\ gap'[p] = gap[p]
      BY <1>0, <1>2 DEF Send, Goto
    <2>5. \A p \in Proc : Kept(p)
      BY <1>0, <2>1, ClaimsKept
    <2>6. \A p \in Proc \ {q} : Timing(p)'
      BY <2>1, <2>3, <2>4, <2>5, TimingFrame DEF AllTiming
    <2>7. HoldsClaim(q, cur[q]) /\ ServerBound <= lease[cur[q]]
      BY <1>0, <2>1, <2>2, MarginsPositive, MutationAssumption DEF Timing, Margins
    <2>8. Statements(q)'
      BY <1>0, <2>1, <2>2, <2>3, <2>7 DEF Timing, Statements, HoldsClaim, jvars, rowVars
    <2>9. Margins(q)'
      BY <1>0, <2>1 DEF Timing, Margins, HoldsClaim, jvars, rowVars, Beating
    <2> QED BY <2>6, <2>8, <2>9 DEF Timing, AllTiming
  <1>3. CASE GiveUp(q) \/ Reverse(q)
    <2>1. UNCHANGED flight /\ Finish(q)
      BY <1>3 DEF GiveUp, Reverse
    <2>2. \A p \in Proc : Kept(p)
      <3>1. CASE UNCHANGED jvars
        BY <1>0, <3>1, ClaimsKept
      <3>2. CASE Reverse(q) /\ MarkReversed(req[cur[q]].reverses)
        <4>1. req[cur[q]].reverses \in Op
          BY <1>0, <3>2, RequestAssumption DEF Reverse, Control, InSaga, JInv, JTypeOK
        <4> QED BY <1>0, <3>2, <4>1, ClaimsKept
      <3> QED BY <1>3, <3>1, <3>2 DEF GiveUp, Reverse
    <2>3. \A p \in Proc \ {q} : /\ pc'[p] = pc[p] /\ cur'[p] = cur[p] /\ gap'[p] = gap[p]
                                /\ local'[p] = local[p] /\ lost'[p] = lost[p]
      BY <1>0, <2>1 DEF Finish, Goto
    <2>4. pc'[q] = "idle"
      BY <1>0, <2>1 DEF Finish, Goto
    <2>5. Timing(q)'
      BY <1>0, <2>1, <2>2, <2>4, TimingLeave DEF InSaga
    <2> QED BY <2>1, <2>2, <2>3, <2>5, TimingFrame DEF AllTiming
  <1>4. CASE Commit(q) \/ Settle(q)
    <2>1. /\ UNCHANGED flight /\ cur[q] \in Op /\ flight[cur[q]][q] = 0
      BY <1>0, <1>4 DEF Commit, Settle, Control, Timing, Statements, InSaga
    <2>2. /\ pc'[q] \in {"idle", "reverse"}
          /\ pc'[q] = "reverse" => cur'[q] = cur[q]
          /\ \A p \in Proc \ {q} : /\ pc'[p] = pc[p] /\ cur'[p] = cur[p] /\ gap'[p] = gap[p]
                                   /\ local'[p] = local[p] /\ lost'[p] = lost[p]
      <3>1. CASE Finish(q)
        BY <1>0, <3>1 DEF Finish, Goto
      <3>2. CASE Goto(q, "reverse") /\ UNCHANGED <<cur, plan, beatVars, resp>>
        BY <1>0, <3>2 DEF Goto, beatVars
      <3> QED BY <1>4, <3>1, <3>2 DEF Commit, Settle, AfterCommit
    <2>3. /\ \A p \in Proc \ {q} : Kept(p)
          /\ \A n \in Op \ {cur[q]} : HoldsClaim(q, n) => HoldsClaim(q, n)' /\ lease'[n] = lease[n]
      <3>1. CASE UNCHANGED jvars
        <4>1. \A p \in Proc : Kept(p)
          BY <1>0, <3>1, ClaimsKept
        <4> QED BY <3>1, <4>1 DEF HoldsClaim, jvars, rowVars
      <3>2. CASE MarkCommitted(q, cur[q]) \/ MarkNeedsReview(q, cur[q]) \/ MarkFailed(q, cur[q])
        BY <1>0, <2>1, <3>2, MarkKeeps
      <3> QED BY <1>4, <3>1, <3>2 DEF Commit, Settle
    <2>4. \A p \in Proc \ {q} : Timing(p)'
      BY <2>1, <2>2, <2>3, TimingFrame DEF AllTiming
    <2>5. Statements(q)'
      <3>1. ASSUME NEW o \in Op, flight'[o][q] > 0
            PROVE  HoldsClaim(q, o)' /\ flight'[o][q] <= lease'[o]
        <4>1. o # cur[q] /\ flight'[o][q] = flight[o][q]
          BY <1>0, <2>1, <3>1
        <4>2. HoldsClaim(q, o) /\ flight[o][q] <= lease[o]
          BY <1>0, <3>1, <4>1 DEF Timing, Statements
        <4> QED BY <2>3, <4>1, <4>2
      <3>2. pc'[q] \in InSaga \ {"sent"} => flight'[cur'[q]][q] = 0
        BY <2>1, <2>2 DEF InSaga
      <3> QED BY <3>1, <3>2 DEF Statements
    <2>6. Margins(q)'
      BY <2>2 DEF Margins, Beating
    <2> QED BY <2>4, <2>5, <2>6 DEF Timing, AllTiming
  <1> QED BY <1>1, <1>2, <1>3, <1>4 DEF SagaStep

\* The server ends statements, the clock runs everywhere at once, and nobody
\* else touches a claim in force.
LEMMA EnvironmentTiming ==
    ASSUME HeadroomCoversPauses, CInv, CInv', AllTiming,
           \/ \E o \in Op, p \in Proc, D \in SUBSET Entity : Land(o, p, D)
           \/ \E o \in Op, p \in Proc : Rollback(o, p)
           \/ \E p \in live : Crash(p)
           \/ \E e \in Decayable : Decay(e)
           \/ Tick \/ Operator \/ UNCHANGED mvars
    PROVE  AllTiming'
  <1>0. /\ JInv /\ live \subseteq Proc
        /\ pc \in [Proc -> Labels] /\ cur \in [Proc -> Op \cup {NoOp}]
        /\ local \in [Proc -> 0..Lease] /\ lost \in [Proc -> BOOLEAN]
        /\ gap \in [Proc -> 0..MaxPause]
        /\ flight \in [Op -> [Proc -> 0..ServerBound]]
        /\ lease \in [Op -> 0..Lease]
    BY DEF CInv, MTypeOK, JTypeOK
  <1>1. CASE \E o \in Op, p \in Proc, D \in SUBSET Entity : Land(o, p, D)
    <2>1. PICK o \in Op, q \in Proc, D \in SUBSET Entity : Land(o, q, D)
      BY <1>1
    <2>2. UNCHANGED <<cur, local, lost, gap>> /\ UNCHANGED jvars
      BY <2>1 DEF Land, beatVars
    <2>3. /\ flight'[o][q] = 0
          /\ \A n \in Op, p \in Proc : flight'[n][p] \in {flight[n][p], 0}
      BY <1>0, <2>1 DEF Land
    <2>4. \A p \in Proc : Kept(p)
      BY <1>0, <2>2, ClaimsKept
    <2>5. ASSUME NEW p \in Proc, pc'[p] = pc[p]
          PROVE  Timing(p)'
      BY <2>2, <2>3, <2>4, <2>5, TimingFrame DEF AllTiming
    <2>6. ASSUME NEW p \in Proc, pc'[p] # pc[p]
          PROVE  Timing(p)'
      <3>1. p = q /\ pc[p] = "sent" /\ cur[p] = o /\ pc'[p] = "verify"
        BY <1>0, <2>1, <2>6 DEF Land, Waiting
      <3> QED BY <2>2, <2>3, <3>1, TimingMove DEF AllTiming, Beating, InSaga, jvars, rowVars
    <2> QED BY <2>5, <2>6 DEF AllTiming
  <1>2. CASE \E o \in Op, p \in Proc : Rollback(o, p)
    <2>1. PICK o \in Op, q \in Proc : Rollback(o, q)
      BY <1>2
    <2>2. UNCHANGED <<pc, cur, local, lost, gap>> /\ UNCHANGED jvars
      BY <2>1 DEF Rollback, procVars, beatVars
    <2>3. \A n \in Op, p \in Proc : flight'[n][p] \in {flight[n][p], 0}
      BY <1>0, <2>1 DEF Rollback
    <2>4. \A p \in Proc : Kept(p)
      BY <1>0, <2>2, ClaimsKept
    <2> QED BY <2>2, <2>3, <2>4, TimingFrame DEF AllTiming
  <1>3. CASE \E p \in live : Crash(p)
    <2>1. PICK q \in live : Crash(q)
      BY <1>3
    <2>2. UNCHANGED flight /\ pc'[q] = "dead"
      BY <1>0, <2>1 DEF Crash
    <2>3. \A p \in Proc \ {q} : /\ pc'[p] = pc[p] /\ cur'[p] = cur[p] /\ gap'[p] = gap[p]
                                /\ local'[p] = local[p] /\ lost'[p] = lost[p]
      BY <1>0, <2>1 DEF Crash
    <2>4. \A p \in Proc : Kept(p)
      BY <1>0, <2>1, ClaimsKept DEF Crash
    <2>5. Timing(q)'
      BY <1>0, <2>2, <2>4, TimingLeave DEF AllTiming, InSaga
    <2> QED BY <2>2, <2>3, <2>4, <2>5, TimingFrame DEF AllTiming
  <1>4. CASE (\E e \in Decayable : Decay(e)) \/ Operator \/ UNCHANGED mvars
    <2>1. UNCHANGED <<flight, pc, cur, local, lost, gap>>
      BY <1>4 DEF Decay, Operator, mvars, procVars, beatVars
    <2>2. \A p \in Proc : Kept(p)
      BY <1>0, <1>4, ClaimsKept DEF Decay, Operator, mvars
    <2> QED BY <2>1, <2>2, TimingFrame DEF AllTiming
  <1>5. CASE Tick
    <2>1. /\ UNCHANGED <<state, owner, pc, cur, lost>>
          /\ \A o \in Op : lease'[o] = Minus1(lease[o])
          /\ \A p \in Proc : local'[p] = Minus1(local[p])
          /\ \A p \in Proc : gap'[p] = IF Unguarded(p) THEN gap[p] + 1 ELSE gap[p]
          /\ \A o \in Op, p \in Proc : flight'[o][p] = Minus1(flight[o][p])
      BY <1>5 DEF Tick, ClockTick
    <2>2. ASSUME NEW p \in Proc
          PROVE  Timing(p)'
      <3>1. Timing(p) /\ Control(p)
        BY DEF AllTiming, CInv
      <3>2. Statements(p)'
        <4>1. \A o \in Op : flight[o][p] \in Nat /\ lease[o] \in Nat
          BY <1>0, JournalAssumption, MutationAssumption
        <4>2. \A o \in Op : flight'[o][p] > 0 => HoldsClaim(p, o)' /\ flight'[o][p] <= lease'[o]
          BY <2>1, <3>1, <4>1 DEF Timing, Statements, HoldsClaim, Minus1
        <4>3. pc[p] \in InSaga => cur[p] \in Op
          BY <3>1 DEF Control
        <4> QED BY <2>1, <3>1, <4>2, <4>3 DEF Timing, Statements, Minus1
      <3>3. pc[p] \in InSaga => cur[p] \in Op /\ lease[cur[p]] \in Nat
        BY <1>0, <3>1, JournalAssumption DEF Control
      <3>4. gap[p] \in Nat /\ local[p] \in Nat /\ Lease \in Nat /\ MaxPause \in Nat /\ Headroom \in Nat
        BY <1>0, JournalAssumption, MutationAssumption
      <3>5. pc[p] = "stamped" /\ gap'[p] < Lease =>
              HoldsClaim(p, cur[p])' /\ lease'[cur[p]] + gap'[p] >= Lease
        BY <2>1, <3>1, <3>3, <3>4 DEF Timing, Margins, HoldsClaim, Minus1, Unguarded, InSaga
      <3>6. ~lost[p] /\ pc[p] \in Beating /\ local'[p] > MaxPause =>
              HoldsClaim(p, cur[p])' /\ local'[p] <= lease'[cur[p]] + MaxPause
        BY <2>1, <3>1, <3>3, <3>4 DEF Timing, Margins, HoldsClaim, Minus1, InSaga, Beating
      <3>7. pc[p] = "gated" =>
              HoldsClaim(p, cur[p])' /\ lease'[cur[p]] + gap'[p] + MaxPause >= Headroom + 1
        BY <2>1, <3>1, <3>3, <3>4 DEF Timing, Margins, HoldsClaim, Minus1, Unguarded, InSaga
      <3>8. Margins(p)'
        BY <2>1, <3>5, <3>6, <3>7 DEF Margins, HoldsClaim
      <3> QED BY <3>2, <3>8 DEF Timing
    <2> QED BY <2>2 DEF AllTiming
  <1> QED BY <1>1, <1>2, <1>3, <1>4, <1>5

\* The timing facts are inductive, given types and control.
LEMMA TimingStep ==
    ASSUME HeadroomCoversPauses, CInv, AllTiming, [MNext]_mvars
    PROVE  AllTiming'
  <1>1. CInv'
    BY CInvStep
  <1> QED BY <1>1, OpeningTiming, BeatTiming, BodyTiming, EnvironmentTiming DEF MNext, PidAnswers

\* Nothing is in flight at the start.
LEMMA TimingInit ==
    ASSUME MInit
    PROVE  AllTiming
  <1>1. \A o \in Op, p \in Proc : flight[o][p] = 0
    BY DEF MInit, NoFlight
  <1>2. \A o \in Op, p \in Proc : ~(flight[o][p] > 0)
    BY <1>1
  <1>3. \A p \in Proc : pc[p] = "off"
    BY DEF MInit
  <1>4. \A p \in Proc : Statements(p)
    BY <1>2, <1>3 DEF Statements, InSaga
  <1>5. \A p \in Proc : Margins(p)
    BY <1>3 DEF Margins, InSaga, Beating
  <1> QED BY <1>4, <1>5 DEF AllTiming, Timing

\* When the headroom covers the pauses, a statement that may still take effect
\* belongs to the owner of a PREPARED row and ends before the owner's lease does.
THEOREM StatementsOwned ==
    ASSUME HeadroomCoversPauses
    PROVE  MSpec => []StatementOwned
  <1>1. MSpec => []CInv
    BY CInvInit, CInvStep, PTL DEF MSpec
  <1>2. CInv /\ AllTiming /\ [MNext]_mvars => AllTiming'
    BY TimingStep
  <1>3. AllTiming => StatementOwned
    BY DEF AllTiming, Timing, Statements, StatementOwned
  <1>4. MInit => AllTiming
    BY TimingInit
  <1> QED BY <1>1, <1>2, <1>3, <1>4, PTL DEF MSpec

-------------------------------------------------------------------------------
(* Only the holder of an entity's lock changes the entity.                 *)

\* The owner of a row holds every entity that the row's statement can touch:
\* legacy rows, whose locks two rows may contend for, have no owner.
LEMMA OwnerHoldsLocks ==
    ASSUME JInv, NEW p \in Proc, NEW o \in Op, HoldsClaim(p, o),
           NEW e \in ParticipantUuids(req[o])
    PROVE  e \in Entity /\ lock[e] = o
  <1> USE JournalAssumption, OwnerAssumption DEF JInv
  <1>1. o \notin LegacyOp /\ state[o] = "PREPARED"
    BY DEF HoldsClaim, RowHistory
  <1>2. ready # {}
    BY <1>1 DEF RowHistory
  <1>3. req[o] \in Request
    BY <1>1 DEF JTypeOK
  <1>4. e \in Entity
    BY <1>3 DEF ParticipantUuids
  <1>5. o \in Holders(e)
    BY <1>1 DEF Holders, Unresolved
  <1> QED BY <1>1, <1>2, <1>4, <1>5 DEF LockFence

\* What a statement changes is a participant of its row.
LEMMA EffectTouches ==
    ASSUME JInv, MTypeOK, NEW o \in Op, state[o] # "ABSENT",
           NEW D \in SUBSET Entity, Effect(o, D),
           NEW e \in Entity, copies'[e] # copies[e] \/ lineage'[e] # lineage[e]
    PROVE  e \in ParticipantUuids(req[o])
  <1>1. req[o] \in Request
    BY DEF JInv, JTypeOK
  <1>2. CASE req[o].kind = "ENTITY_MERGE" /\ MergeEffect(o)
    BY <1>1, <1>2, RequestAssumption DEF MergeEffect, MTypeOK, ParticipantUuids, PairKinds
  <1>3. CASE req[o].kind = "ENTITY_UNMERGE" /\ RestoreEffect(o)
    BY <1>1, <1>3, RequestAssumption DEF RestoreEffect, MTypeOK, ParticipantUuids, PairKinds
  <1>4. CASE /\ req[o].kind \in DeleteKinds /\ D \subseteq req[o].targets
             /\ DeleteEffect(o, D)
    BY <1>4 DEF DeleteEffect, MTypeOK, ParticipantUuids
  <1>5. CASE NoEffect
    BY <1>5 DEF NoEffect, graphVars
  <1> QED BY <1>2, <1>3, <1>4, <1>5 DEF Effect

\* Every step keeps the fence.
LEMMA FencedStep ==
    ASSUME CInv, AllTiming, [MNext]_mvars
    PROVE  [MutationFenced]_mvars
  <1> SUFFICES ASSUME MNext
               PROVE  MutationFenced
    OBVIOUS
  <1>1. CASE \E o \in Op, p \in Proc, D \in SUBSET Entity : Land(o, p, D)
    <2>1. PICK o \in Op, p \in Proc, D \in SUBSET Entity : Land(o, p, D)
      BY <1>1
    <2>2. flight[o][p] > 0 /\ Effect(o, D)
      BY <2>1 DEF Land
    <2>3. HoldsClaim(p, o)
      BY <2>2 DEF AllTiming, Timing, Statements
    <2>4. state[o] # "ABSENT" /\ o # NoOp
      BY <2>3, OpFacts DEF HoldsClaim
    <2>5. \A e \in Entity : copies'[e] # copies[e] \/ lineage'[e] # lineage[e] => lock[e] = o
      BY <2>2, <2>3, <2>4, EffectTouches, OwnerHoldsLocks DEF CInv
    <2> QED BY <2>2, <2>3, <2>4, <2>5 DEF MutationFenced
  <1>2. CASE \E d \in Decayable : Decay(d)
    BY <1>2 DEF Decay, MutationFenced, CInv, MTypeOK
  <1>3. CASE UNCHANGED <<copies, lineage>>
    BY <1>3 DEF MutationFenced
  <1>4. \/ \E o \in Op, p \in Proc, D \in SUBSET Entity : Land(o, p, D)
        \/ \E d \in Decayable : Decay(d)
        \/ UNCHANGED <<copies, lineage>>
    <2> USE DEF graphVars
    <2>1. CASE \E p \in live : Start(p) \/ PlanStep(p) \/ PrepareAbstains(p) \/ BeatStep(p)
      <3>1. CASE \E p \in live : PlanStep(p)
        BY <3>1 DEF PlanStep, PlanMerge, PlanUnmerge, PlanDelete, Plan
      <3>2. CASE \E p \in live : Start(p) \/ PrepareAbstains(p) \/ BeatStep(p)
        BY <3>2 DEF Start, PrepareAbstains, BeatStep, StartHeartbeat, RenewBeat, LoseBeat
      <3> QED BY <2>1, <3>1, <3>2
    <2>2. CASE \E p \in live, o \in Op : PrepareRow(p, o)
      BY <2>2 DEF PrepareRow
    <2>3. CASE \E p \in live, o \in Op :
                  \E alive \in PidAnswers(live, owner[o]) : ClaimRow(p, o, alive)
      BY <2>3 DEF ClaimRow
    <2>4. CASE \E p \in live : SagaStep(p)
      BY <2>4 DEF SagaStep, Classify, MergeIneligible, Dispatch, Send, Retry, GiveUp, Verify,
                  Judge, Commit, Settle, Reverse
    <2>5. CASE \/ \E o \in Op, p \in Proc : Rollback(o, p)
               \/ \E p \in live : Crash(p)
               \/ Tick \/ Operator
      BY <2>5 DEF Rollback, Crash, Tick, Operator
    <2> QED BY <2>1, <2>2, <2>3, <2>4, <2>5 DEF MNext
  <1> QED BY <1>1, <1>2, <1>3, <1>4

\* Two operations never mutate one entity at once: whatever changes a node that
\* cannot decay is the statement of the operation that holds the node's lock, and
\* its sender still owns that operation.
THEOREM MutationsFenced ==
    ASSUME HeadroomCoversPauses
    PROVE  MSpec => MutationOnlyFenced
  <1>1. MSpec => []CInv
    BY CInvInit, CInvStep, PTL DEF MSpec
  <1>2. CInv /\ AllTiming /\ [MNext]_mvars => AllTiming'
    BY TimingStep
  <1>3. MInit => AllTiming
    BY TimingInit
  <1>4. CInv /\ AllTiming /\ [MNext]_mvars => [MutationFenced]_mvars
    BY FencedStep
  <1> QED BY <1>1, <1>2, <1>3, <1>4, PTL DEF MSpec, MutationOnlyFenced
===============================================================================
