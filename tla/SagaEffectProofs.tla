--------------------------- MODULE SagaEffectProofs ---------------------------
(***************************************************************************)
(* What the statements of the sagas do to the graph, for every number of   *)
(* processes, operations and entities: an operation takes effect at most   *)
(* once and never duplicates a node, with decay or without it; and, where  *)
(* decay is off, a pair saga is committed only in its after-state.         *)
(***************************************************************************)
EXTENDS SagaMutationProofs

\* What the planners write: a kind of the three coordinators, and two nodes.
Proper(r) ==
    /\ r.kind \in SagaKinds
    /\ r.kind \in PairKinds => r.survivor # r.absorbed

\* What the program text keeps true of the requests that a process works on.
Sites(p) ==
    /\ pc[p] = "planned" => Proper(plan[p])
    /\ pc[p] \in InSaga => cur[p] \notin LegacyOp
    /\ pc[p] = "judge" => req[cur[p]].kind \in DeleteKinds
    /\ pc[p] = "classify" => req[cur[p]].kind \notin DeleteKinds

\* The rows of an older build have no owner and run no statement; the others hold
\* proper requests, and a row that does not exist has had no effect.
Rows(o) ==
    /\ o \in LegacyOp => state[o] = "PREPARED"
    /\ o \notin LegacyOp /\ state[o] # "ABSENT" => Proper(req[o])
    /\ state[o] = "ABSENT" \/ o \in LegacyOp => applied[o] = 0

\* p owns o and may still send a statement for it, without reading the graph first,
\* or has one on the server.
Due(p, o) ==
    /\ HoldsClaim(p, o)
    /\ \/ /\ cur[p] = o
          /\ \/ pc[p] \in {"dispatch", "gated", "sent"}
             \/ pc[p] = "stamped" /\ req[o].kind \in DeleteKinds
       \/ flight[o][p] > 0

\* The mark that the effect of an unresolved operation leaves in the graph.  Its
\* before-state does not have it, which is what a replay relies on.
Marked(o) ==
    state[o] \in Unresolved /\ applied[o] > 0 =>
        /\ req[o].kind = "ENTITY_MERGE" => ~Present(req[o].absorbed)
        /\ req[o].kind = "ENTITY_UNMERGE" => req[o].absorbed \notin lineage[req[o].survivor]

\* What is due has not happened yet.
Unspent(p, o) ==
    Due(p, o) => /\ applied[o] = 0
                 /\ req[o].kind = "ENTITY_UNMERGE" => ~Present(req[o].absorbed)

\* The inductive invariant, given types, control and timing.
EInv ==
    /\ \A p \in Proc : Sites(p)
    /\ \A o \in Op : Rows(o) /\ Marked(o)
    /\ \A p \in Proc, o \in Op : Unspent(p, o)
    /\ AppliedOnce /\ NoDuplicateEntity

-------------------------------------------------------------------------------
(* Steps that leave the graph alone.                                       *)

\* A row opens, or a process has just read the before-state of the row.
Opened(o) == state[o] = "ABSENT" /\ req'[o].kind \in DeleteKinds
Reread(o) ==
    /\ o \notin LegacyOp /\ state[o] = "PREPARED" /\ req[o].kind \notin DeleteKinds
    /\ Fingerprint(req[o]) = ExpectedBefore(req[o])

\* A process reaches its commit only with the after-state before its eyes.
Confirmed(p) ==
    pc'[p] = "commit" =>
        /\ pc[p] \in InSaga /\ cur'[p] = cur[p]
        /\ \/ pc[p] = "commit"
           \/ req[cur[p]].kind \in PairKinds =>
                 Fingerprint(req[cur[p]]) = ExpectedAfter(req[cur[p]])

NewlyDue(p) == \A o \in Op : Due(p, o)' => Due(p, o) \/ Opened(o) \/ Reread(o)

Calm ==
    /\ UNCHANGED <<copies, lineage, applied>>
    /\ \A p \in Proc : Sites(p)' /\ Confirmed(p) /\ NewlyDue(p)
    /\ \A o \in LegacyOp : state'[o] = state[o]
    /\ \A o \in Op : o \notin LegacyOp /\ state[o] = "ABSENT" /\ state'[o] # "ABSENT"
                     => Proper(req'[o])

\* A process that the step leaves alone, or that leaves its saga.
Still(p) == pc'[p] = pc[p] /\ cur'[p] = cur[p] /\ plan'[p] = plan[p]
Leaves(p) ==
    \/ pc'[p] \in {"idle", "dead", "off"}
    \/ pc'[p] = "reverse" /\ cur'[p] = cur[p] /\ pc[p] \in InSaga

\* Nobody gains a claim or a statement.
Gains(p) ==
    \/ \E o \in Op : HoldsClaim(p, o)' /\ ~HoldsClaim(p, o)
    \/ \E o \in Op : flight'[o][p] > 0 /\ ~(flight[o][p] > 0)

LEMMA StillCalm ==
    ASSUME CInv, Persist, NEW p \in Proc, Sites(p), Still(p) \/ Leaves(p), ~Gains(p)
    PROVE  Sites(p)' /\ Confirmed(p) /\ NewlyDue(p)
  <1>1. pc[p] \in InSaga => cur[p] \in Op /\ req'[cur[p]] = req[cur[p]]
    BY DEF CInv, Control, Persist
  <1>2. Sites(p)'
    BY <1>1 DEF Sites, Still, Leaves, InSaga
  <1>3. Confirmed(p)
    BY DEF Confirmed, Still, Leaves, InSaga
  <1>4. ASSUME NEW o \in Op, Due(p, o)' PROVE Due(p, o)
    <2>1. HoldsClaim(p, o) /\ (flight'[o][p] > 0 => flight[o][p] > 0)
      BY <1>4 DEF Due, Gains
    <2>2. req'[o] = req[o]
      BY <2>1 DEF HoldsClaim, Persist
    <2> QED BY <1>4, <2>1, <2>2 DEF Due, Still, Leaves, InSaga
  <1> QED BY <1>2, <1>3, <1>4 DEF NewlyDue

\* The journal's rows and their owners stay as they are.
LEMMA LocalCalm ==
    ASSUME CInv, Persist, \A p \in Proc : Sites(p),
           UNCHANGED <<state, req, owner, copies, lineage, applied>>,
           \A p \in Proc :
              \/ /\ Still(p) \/ Leaves(p)
                 /\ \A o \in Op : flight'[o][p] > 0 => flight[o][p] > 0
              \/ Sites(p)' /\ Confirmed(p) /\ NewlyDue(p)
    PROVE  Calm
  <1>1. \A p \in Proc, o \in Op : HoldsClaim(p, o)' => HoldsClaim(p, o)
    BY DEF HoldsClaim
  <1>2. \A p \in Proc : Sites(p)' /\ Confirmed(p) /\ NewlyDue(p)
    BY <1>1, StillCalm DEF Gains
  <1> QED BY <1>2 DEF Calm

\* Planning: what is read from the graph makes a proper request.
LEMMA PlanCalm ==
    ASSUME CInv, Persist, EInv, NEW q \in live, PlanStep(q)
    PROVE  Calm
  <1>0. q \in Proc /\ pc \in [Proc -> Labels] /\ plan \in [Proc -> Request \cup {NoRequest}]
    BY DEF CInv, MTypeOK, JTypeOK
  <1>1. PICK r : Plan(q, r) /\ Proper(r)
    <2>1. CASE \E s, a \in Entity : PlanMerge(q, s, a)
      <3>1. PICK s \in Entity, a \in Entity : PlanMerge(q, s, a)
        BY <2>1
      <3>2. Proper(PairRequest("ENTITY_MERGE", s, a, a \in lineage[s], lineage[a], NoOp))
        BY <3>1 DEF PlanMerge, Proper, PairRequest, SagaKinds
      <3> QED BY <3>1, <3>2 DEF PlanMerge
    <2>2. CASE \E m \in Op : PlanUnmerge(q, m)
      <3>1. PICK m \in Op : PlanUnmerge(q, m)
        BY <2>2
      <3>2. state[m] = "COMMITTED" /\ req[m].kind = "ENTITY_MERGE"
        BY <3>1 DEF PlanUnmerge
      <3>3. req[m].survivor # req[m].absorbed
        BY <3>2 DEF EInv, Rows, Proper, PairKinds
      <3>4. Proper(PairRequest("ENTITY_UNMERGE", req[m].survivor, req[m].absorbed,
                               TRUE, req[m].snapshot, m))
        BY <3>3 DEF Proper, PairRequest, SagaKinds
      <3> QED BY <3>1, <3>4 DEF PlanUnmerge
    <2>3. CASE \E k \in Kinds \cap DeleteKinds, T \in SUBSET Entity : PlanDelete(q, k, T)
      <3>1. PICK k \in Kinds \cap DeleteKinds, T \in SUBSET Entity : PlanDelete(q, k, T)
        BY <2>3
      <3>2. Proper(DeleteRequest(k, T))
        BY MutationAssumption DEF Proper, DeleteRequest, PairKinds, DeleteKinds
      <3> QED BY <3>1, <3>2 DEF PlanDelete
    <2> QED BY <2>1, <2>2, <2>3 DEF PlanStep
  <1>2. /\ UNCHANGED <<state, req, owner, copies, lineage, applied, flight, cur>>
        /\ pc' = [pc EXCEPT ![q] = "planned"] /\ plan' = [plan EXCEPT ![q] = r]
    BY <1>1 DEF Plan, Goto, jvars, rowVars, graphVars
  <1>3. \A p \in Proc \ {q} : Still(p)
    BY <1>0, <1>2 DEF Still
  <1>4. Sites(q)' /\ Confirmed(q)
    BY <1>0, <1>1, <1>2 DEF Sites, Confirmed, InSaga
  <1>5. NewlyDue(q)
    BY <1>0, <1>2 DEF NewlyDue, Due, HoldsClaim
  <1> QED BY <1>2, <1>3, <1>4, <1>5, LocalCalm DEF EInv

\* A process moves within its saga; nothing else happens.
Walks(q, to) ==
    /\ UNCHANGED <<state, req, owner, copies, lineage, applied, cur, plan>>
    /\ pc' = [pc EXCEPT ![q] = to]

LEMMA WalkCalm ==
    ASSUME CInv, Persist, EInv, NEW q \in Proc, NEW to, Walks(q, to),
           \A p \in Proc \ {q} : \A o \in Op : flight'[o][p] > 0 => flight[o][p] > 0,
           Sites(q)', Confirmed(q), NewlyDue(q)
    PROVE  Calm
  <1>1. \A p \in Proc \ {q} : Still(p)
    BY DEF Walks, Still, CInv, MTypeOK
  <1> QED BY <1>1, LocalCalm DEF Walks, EInv

LEMMA BodyCalm ==
    ASSUME CInv, Persist, EInv, NEW q \in live,
           \/ StartHeartbeat(q) \/ Classify(q) \/ MergeIneligible(q) \/ Dispatch(q) \/ Send(q)
           \/ Retry(q) \/ Verify(q) \/ Judge(q)
    PROVE  Calm
  <1>0. q \in Proc /\ pc \in [Proc -> Labels] /\ flight \in [Op -> [Proc -> 0..ServerBound]]
    BY DEF CInv, MTypeOK, JTypeOK
  <1>1. pc[q] \in InSaga
    BY DEF StartHeartbeat, Classify, MergeIneligible, Dispatch, Send, Retry, Verify, Judge, InSaga
  <1>2. cur[q] \in Op /\ cur[q] \notin LegacyOp
    BY <1>0, <1>1 DEF CInv, Control, EInv, Sites
  <1>3. Sites(q)
    BY <1>0 DEF EInv
  <1> USE DEF jvars, rowVars, graphVars, Goto
  <1>4. CASE StartHeartbeat(q)
    <2> DEFINE to == IF req[cur[q]].kind \in DeleteKinds THEN "dispatch" ELSE "classify"
    <2>1. Walks(q, to) /\ UNCHANGED flight /\ pc[q] = "stamped"
      BY <1>4 DEF StartHeartbeat, Walks
    <2>2. pc'[q] = to /\ cur'[q] = cur[q]
      BY <1>0, <2>1 DEF Walks
    <2>3. Sites(q)' /\ Confirmed(q)
      BY <1>1, <1>2, <2>1, <2>2 DEF Sites, Confirmed, Walks
    <2>4. NewlyDue(q)
      BY <2>1, <2>2 DEF NewlyDue, Due, HoldsClaim, Walks
    <2> HIDE DEF to
    <2> QED BY <1>0, <2>1, <2>3, <2>4, WalkCalm
  <1>5. CASE Classify(q)
    <2> DEFINE r == req[cur[q]]
               to == IF Fingerprint(r) = ExpectedAfter(r) THEN "commit"
                     ELSE IF Fingerprint(r) = ExpectedBefore(r) THEN "dispatch" ELSE "review"
    <2>1. Walks(q, to) /\ UNCHANGED flight /\ pc[q] = "classify"
      BY <1>5 DEF Classify, Walks
    <2>2. pc'[q] = to /\ cur'[q] = cur[q] /\ r.kind \notin DeleteKinds
      BY <1>0, <1>3, <2>1 DEF Walks, Sites
    <2>3. Sites(q)' /\ Confirmed(q)
      BY <1>1, <1>2, <2>1, <2>2 DEF Sites, Confirmed, Walks
    <2>4. ASSUME NEW o \in Op, Due(q, o)' PROVE Due(q, o) \/ Reread(o)
      BY <1>2, <2>1, <2>2, <2>4 DEF Due, HoldsClaim, Walks, Reread
    <2> HIDE DEF to
    <2> QED BY <1>0, <2>1, <2>3, <2>4, WalkCalm DEF NewlyDue
  <1>6. CASE MergeIneligible(q) \/ Dispatch(q) \/ Retry(q)
    <2>1. PICK to \in {"verify", "gated", "dispatch"} : Walks(q, to)
      BY <1>6 DEF MergeIneligible, Dispatch, Retry, Walks
    <2>2. pc[q] \in {"dispatch", "sent"} /\ UNCHANGED flight
      BY <1>6 DEF MergeIneligible, Dispatch, Retry
    <2>3. pc'[q] = to /\ cur'[q] = cur[q]
      BY <1>0, <2>1 DEF Walks
    <2>4. Sites(q)' /\ Confirmed(q)
      BY <1>2, <2>3 DEF Sites, Confirmed
    <2>5. NewlyDue(q)
      BY <2>1, <2>2, <2>3 DEF NewlyDue, Due, HoldsClaim, Walks
    <2> QED BY <1>0, <2>1, <2>2, <2>4, <2>5, WalkCalm
  <1>7. CASE Send(q)
    <2>1. Walks(q, "sent") /\ pc[q] = "gated"
      BY <1>7 DEF Send, Walks
    <2>2. \A o \in Op, p \in Proc : o # cur[q] \/ p # q => flight'[o][p] = flight[o][p]
      BY <1>0, <1>2, <1>7 DEF Send
    <2>3. pc'[q] = "sent" /\ cur'[q] = cur[q]
      BY <1>0, <2>1 DEF Walks
    <2>4. Sites(q)' /\ Confirmed(q)
      BY <1>2, <2>3 DEF Sites, Confirmed
    <2>5. NewlyDue(q)
      BY <1>0, <2>1, <2>2, <2>3 DEF NewlyDue, Due, HoldsClaim, Walks
    <2> QED BY <1>0, <2>1, <2>2, <2>4, <2>5, WalkCalm
  <1>8. CASE Verify(q)
    <2> DEFINE r == req[cur[q]]
               to == Verdict(r, resp[q])
    <2>1. Walks(q, to) /\ UNCHANGED flight /\ pc[q] = "verify"
      BY <1>8 DEF Verify, Walks
    <2>2. pc'[q] = to /\ cur'[q] = cur[q]
      BY <1>0, <2>1 DEF Walks
    <2>3. /\ to \in {"commit", "review", "fail"}
          /\ to = "commit" /\ r.kind \in PairKinds => Fingerprint(r) = ExpectedAfter(r)
      BY DEF Verdict, PairKinds, DeleteKinds
    <2> HIDE DEF to
    <2>4. Sites(q)' /\ Confirmed(q)
      BY <1>1, <1>2, <2>2, <2>3 DEF Sites, Confirmed
    <2>5. NewlyDue(q)
      BY <2>1, <2>2, <2>3 DEF NewlyDue, Due, HoldsClaim, Walks
    <2> QED BY <1>0, <2>1, <2>4, <2>5, WalkCalm
  <1>9. CASE Judge(q)
    <2>1. PICK to \in {"commit", "review"} : Walks(q, to)
      BY <1>9 DEF Judge, Walks
    <2>2. pc'[q] = to /\ cur'[q] = cur[q] /\ UNCHANGED flight /\ req[cur[q]].kind \in DeleteKinds
      BY <1>0, <1>3, <1>9, <2>1 DEF Walks, Judge, Sites
    <2>3. Sites(q)' /\ Confirmed(q)
      BY <1>1, <1>2, <2>2 DEF Sites, Confirmed, PairKinds, DeleteKinds
    <2>4. NewlyDue(q)
      BY <2>1, <2>2 DEF NewlyDue, Due, HoldsClaim, Walks
    <2> QED BY <1>0, <2>1, <2>2, <2>3, <2>4, WalkCalm
  <1> QED BY <1>4, <1>5, <1>6, <1>7, <1>8, <1>9

\* Starting, giving up, dying, heartbeats, rollbacks and time.
LEMMA QuietCalm ==
    ASSUME CInv, Persist, EInv,
           \/ \E q \in live : \/ Start(q) \/ PrepareAbstains(q) \/ RenewBeat(q) \/ LoseBeat(q)
                               \/ GiveUp(q) \/ Crash(q)
           \/ \E o \in Op, q \in Proc : Rollback(o, q)
           \/ Tick \/ UNCHANGED mvars
    PROVE  Calm
  <1>0. /\ live \subseteq Proc /\ pc \in [Proc -> Labels] /\ cur \in [Proc -> Op \cup {NoOp}]
        /\ plan \in [Proc -> Request \cup {NoRequest}]
        /\ flight \in [Op -> [Proc -> 0..ServerBound]]
    BY DEF CInv, MTypeOK, JTypeOK
  <1> USE DEF jvars, rowVars, graphVars, procVars, Goto
  <1>1. CASE \E q \in live : Start(q) \/ PrepareAbstains(q) \/ GiveUp(q) \/ Crash(q)
    <2>1. PICK q \in live : Start(q) \/ PrepareAbstains(q) \/ GiveUp(q) \/ Crash(q)
      BY <1>1
    <2>2. UNCHANGED <<state, req, owner, copies, lineage, applied, flight>>
      BY <2>1 DEF Start, EnsureReady, PrepareAbstains, GiveUp, Crash, Die
    <2>3. \A p \in Proc : Still(p) \/ Leaves(p)
      BY <1>0, <2>1 DEF Start, PrepareAbstains, GiveUp, Crash, Finish, Still, Leaves
    <2> QED BY <2>2, <2>3, LocalCalm DEF EInv
  <1>2. CASE (\E q \in live : RenewBeat(q) \/ LoseBeat(q)) \/ UNCHANGED mvars
    <2>1. UNCHANGED <<state, req, owner, copies, lineage, applied, flight, pc, cur, plan>>
      BY <1>2 DEF RenewBeat, RenewOwnerHeartbeat, LoseBeat, mvars
    <2>2. \A p \in Proc : Still(p)
      BY <2>1 DEF Still
    <2> QED BY <2>1, <2>2, LocalCalm DEF EInv
  <1>3. CASE Tick \/ \E o \in Op, q \in Proc : Rollback(o, q)
    <2>1. UNCHANGED <<state, req, owner, copies, lineage, applied, pc, cur, plan>>
      BY <1>3 DEF Tick, ClockTick, Rollback
    <2>2. \A o \in Op, p \in Proc : flight'[o][p] > 0 => flight[o][p] > 0
      <3>1. \A o \in Op, p \in Proc : flight[o][p] \in Nat
        BY <1>0, MutationAssumption
      <3>2. CASE Tick
        BY <3>1, <3>2 DEF Tick, Minus1
      <3>3. CASE \E o \in Op, q \in Proc : Rollback(o, q)
        BY <1>0, <3>1, <3>3 DEF Rollback
      <3> QED BY <1>3, <3>2, <3>3
    <2>3. \A p \in Proc : Still(p)
      BY <2>1 DEF Still
    <2> QED BY <2>1, <2>2, <2>3, LocalCalm DEF EInv
  <1> QED BY <1>1, <1>2, <1>3

\* A row opens, or is taken over.
LEMMA OpenCalm ==
    ASSUME CInv, Persist, EInv, AllTiming, NEW q \in live, NEW o \in Op,
           PrepareRow(q, o) \/ \E alive \in BOOLEAN : ClaimRow(q, o, alive)
    PROVE  Calm
  <1>0. /\ q \in Proc /\ pc \in [Proc -> Labels] /\ cur \in [Proc -> Op \cup {NoOp}]
        /\ plan \in [Proc -> Request \cup {NoRequest}] /\ JTypeOK
    BY DEF CInv, MTypeOK, JTypeOK
  <1> USE DEF jvars, rowVars, graphVars, Goto
  <1>1. /\ UNCHANGED <<copies, lineage, applied, flight>>
        /\ cur' = [cur EXCEPT ![q] = o]
        /\ \A p \in Proc \ {q} : Still(p)
        /\ \A p \in Proc, n \in Op : n # o \/ p # q => (HoldsClaim(p, n)' => HoldsClaim(p, n))
    <2>1. CASE PrepareRow(q, o)
      BY <1>0, <2>1 DEF PrepareRow, Prepare, Still, HoldsClaim, JTypeOK
    <2>2. CASE \E alive \in BOOLEAN : ClaimRow(q, o, alive)
      BY <1>0, <2>2 DEF ClaimRow, ClaimAbandonedOperation, Still, HoldsClaim, JTypeOK
    <2> QED BY <2>1, <2>2
  <1>2. \A p \in Proc \ {q} : Sites(p)' /\ Confirmed(p) /\ NewlyDue(p)
    BY <1>1, StillCalm DEF EInv, Gains
  <1>3. \A n \in Op \ {o} : flight[n][q] > 0 => HoldsClaim(q, n)
    BY <1>0 DEF AllTiming, Timing, Statements
  <1>4. ~HoldsClaim(q, o) /\ ~(flight[o][q] > 0) /\ o \notin LegacyOp
    <2>1. ~HoldsClaim(q, o)
      BY DEF PrepareRow, Prepare, Fresh, ClaimRow, ClaimAbandonedOperation, Claimable, HoldsClaim
    <2>2. PrepareRow(q, o) => o \notin LegacyOp
      BY DEF PrepareRow, Prepare, Fresh, EInv, Rows
    <2>3. ASSUME NEW alive \in BOOLEAN, ClaimRow(q, o, alive) PROVE o \notin LegacyOp
      <3>1. owner[o] # NoProc
        BY <2>3 DEF ClaimRow, ClaimAbandonedOperation, Claimable, ClassifyOwnership
      <3> QED BY <3>1 DEF CInv, JInv, RowHistory
    <2>4. flight[o][q] > 0 => HoldsClaim(q, o)
      BY <1>0 DEF AllTiming, Timing, Statements
    <2> QED BY <2>1, <2>2, <2>3, <2>4
  <1>5. CASE PrepareRow(q, o)
    <2>1. /\ state[o] = "ABSENT" /\ req' = [req EXCEPT ![o] = plan[q]] /\ pc[q] = "planned"
          /\ state' = [state EXCEPT ![o] = "PREPARED"]
          /\ pc' = [pc EXCEPT ![q] = "stamped"]
      BY <1>5 DEF PrepareRow, Prepare, Fresh
    <2>2. Proper(plan[q]) /\ req'[o] = plan[q]
      BY <1>0, <2>1 DEF EInv, Sites, JTypeOK
    <2>3. Sites(q)' /\ Confirmed(q)
      BY <1>0, <1>1, <1>4, <2>1 DEF Sites, Confirmed
    <2>4. ASSUME NEW n \in Op, Due(q, n)' PROVE Due(q, n) \/ Opened(n)
      <3>1. CASE n = o
        BY <1>0, <1>1, <1>4, <2>1, <2>4, <3>1 DEF Due, Opened
      <3>2. CASE n # o
        BY <1>0, <1>1, <2>1, <2>4, <3>2 DEF Due
      <3> QED BY <3>1, <3>2
    <2>5. /\ \A n \in LegacyOp : state'[n] = state[n]
          /\ \A n \in Op : n \notin LegacyOp /\ state[n] = "ABSENT" /\ state'[n] # "ABSENT"
                           => Proper(req'[n])
      BY <1>0, <1>4, <2>1, <2>2, OpFacts DEF JTypeOK
    <2> QED BY <1>1, <1>2, <2>3, <2>4, <2>5 DEF Calm, NewlyDue
  <1>6. CASE \E alive \in BOOLEAN : ClaimRow(q, o, alive)
    <2> DEFINE to == IF req[o].kind \in DeleteKinds THEN "judge" ELSE "stamped"
    <2>1. UNCHANGED <<state, req>> /\ pc' = [pc EXCEPT ![q] = to] /\ pc[q] = "idle"
          /\ UNCHANGED plan
      BY <1>6 DEF ClaimRow, ClaimAbandonedOperation
    <2>2. pc'[q] = to /\ cur'[q] = o
      BY <1>0, <1>1, <2>1
    <2>3. Sites(q)' /\ Confirmed(q)
      BY <1>4, <2>1, <2>2 DEF Sites, Confirmed
    <2>4. ASSUME NEW n \in Op, Due(q, n)' PROVE Due(q, n)
      <3>1. n # o
        BY <1>1, <1>4, <2>1, <2>2, <2>4 DEF Due
      <3> QED BY <1>0, <1>1, <2>2, <2>4, <3>1 DEF Due
    <2> QED BY <1>1, <1>2, <2>1, <2>3, <2>4 DEF Calm, NewlyDue
  <1> QED BY <1>5, <1>6

\* At most one row is marked or attested; whoever did so leaves its saga.
MarksOne(o) ==
    /\ UNCHANGED <<copies, lineage, applied, flight>>
    /\ \A p \in Proc : Still(p) \/ Leaves(p)
    /\ o \notin LegacyOp /\ state[o] # "ABSENT"
    /\ \A n \in Op \ {o} : state'[n] = state[n] /\ owner'[n] = owner[n]
    /\ owner'[o] = NoProc \/ (state'[o] = state[o] /\ owner'[o] = owner[o])

LEMMA MarksOneCalm ==
    ASSUME CInv, Persist, EInv, NEW o \in Op, MarksOne(o)
    PROVE  Calm
  <1>1. \A p \in Proc, n \in Op : HoldsClaim(p, n)' => HoldsClaim(p, n)
    BY OwnerAssumption DEF MarksOne, HoldsClaim
  <1>2. \A p \in Proc : ~Gains(p)
    BY <1>1 DEF Gains, MarksOne
  <1>3. \A p \in Proc : Sites(p)' /\ Confirmed(p) /\ NewlyDue(p)
    BY <1>2, StillCalm DEF EInv, MarksOne
  <1> QED BY <1>3, OpFacts DEF Calm, MarksOne

\* _transition() marks one row and leaves it without an owner.
LEMMA TransitionMarks ==
    ASSUME CInv, NEW o \in Op, NEW to, NEW from, NEW token, Transition(o, to, from, token)
    PROVE  /\ state[o] \in from
           /\ \A n \in Op \ {o} : state'[n] = state[n] /\ owner'[n] = owner[n]
           /\ owner'[o] = NoProc
  BY DEF Transition, CanTransition, ClaimEnds, CInv, JInv, JTypeOK, OnlyPreparedOwned

LEMMA MarkCalm ==
    ASSUME CInv, Persist, EInv, NEW q \in live, Commit(q) \/ Settle(q) \/ Reverse(q)
    PROVE  Calm
  <1>0. /\ q \in Proc /\ pc \in [Proc -> Labels] /\ cur \in [Proc -> Op \cup {NoOp}]
        /\ plan \in [Proc -> Request \cup {NoRequest}]
    BY DEF CInv, MTypeOK, JTypeOK
  <1>1. pc[q] \in InSaga
    BY DEF Commit, Settle, Reverse, InSaga
  <1>2. cur[q] \in Op /\ cur[q] \notin LegacyOp /\ state[cur[q]] # "ABSENT"
    BY <1>0, <1>1 DEF CInv, Control, EInv, Sites
  <1>3. /\ UNCHANGED <<copies, lineage, applied, flight>>
        /\ \A p \in Proc : Still(p) \/ Leaves(p)
    <2>1. CASE Settle(q) \/ Reverse(q)
      BY <1>0, <2>1 DEF Settle, Reverse, Finish, Goto, graphVars, Still, Leaves
    <2>2. CASE Commit(q)
      <3>1. AfterCommit(q) \/ Finish(q)
        BY <2>2 DEF Commit
      <3> QED BY <1>0, <1>1, <2>2, <3>1 DEF Commit, AfterCommit, Finish, Goto, graphVars, Still, Leaves
    <2> QED BY <2>1, <2>2
  <1>4. CASE UNCHANGED jvars
    <2>1. UNCHANGED <<state, owner>>
      BY <1>4 DEF jvars, rowVars
    <2> QED BY <1>2, <1>3, <2>1, MarksOneCalm DEF MarksOne
  <1>5. CASE \/ MarkCommitted(q, cur[q]) \/ MarkNeedsReview(q, cur[q]) \/ MarkFailed(q, cur[q])
    <2>1. MarksOne(cur[q])
      BY <1>2, <1>3, <1>5, TransitionMarks
         DEF MarksOne, MarkCommitted, MarkNeedsReview, MarkFailed
    <2> QED BY <1>2, <2>1, MarksOneCalm
  <1>6. CASE Reverse(q) /\ MarkReversed(req[cur[q]].reverses)
    <2> DEFINE m == req[cur[q]].reverses
    <2>1. req[cur[q]] \in Request /\ req[cur[q]].kind = "ENTITY_UNMERGE"
      BY <1>0, <1>2, <1>6 DEF CInv, Control, MTypeOK, JTypeOK, Reverse
    <2>2. m \in Op
      BY <2>1, RequestAssumption
    <2>3. /\ state[m] = "COMMITTED"
          /\ \A n \in Op \ {m} : state'[n] = state[n] /\ owner'[n] = owner[n]
          /\ owner'[m] = NoProc
      BY <1>6, <2>2, TransitionMarks DEF MarkReversed
    <2>4. m \notin LegacyOp
      BY <2>2, <2>3 DEF EInv, Rows
    <2> QED BY <1>3, <2>2, <2>3, <2>4, MarksOneCalm DEF MarksOne
  <1> QED BY <1>4, <1>5, <1>6 DEF Commit, Settle, Reverse

LEMMA OperatorCalm ==
    ASSUME CInv, Persist, EInv, Operator
    PROVE  Calm
  <1>1. /\ UNCHANGED <<copies, lineage, applied, flight>>
        /\ \A p \in Proc : Still(p)
    BY DEF Operator, graphVars, procVars, Still
  <1>2. PICK o \in Op : \/ AttestOwnerDeath(o)
                        \/ \E to \in OperationStates : ClearNeedsReview(o, to)
    BY DEF Operator, OperatorCall
  <1>3. CASE AttestOwnerDeath(o)
    <2>1. UNCHANGED <<state, owner>> /\ state[o] = "PREPARED" /\ owner[o] # NoProc
      BY <1>3 DEF AttestOwnerDeath
    <2>2. o \notin LegacyOp
      BY <2>1 DEF CInv, JInv, RowHistory
    <2> QED BY <1>1, <2>1, <2>2, MarksOneCalm DEF MarksOne
  <1>4. CASE \E to \in OperationStates : ClearNeedsReview(o, to)
    <2>1. /\ state[o] = "NEEDS_REVIEW"
          /\ \A n \in Op \ {o} : state'[n] = state[n] /\ owner'[n] = owner[n]
          /\ owner'[o] = NoProc
      BY <1>4, TransitionMarks DEF ClearNeedsReview
    <2>2. o \notin LegacyOp
      BY <2>1 DEF EInv, Rows
    <2> QED BY <1>1, <2>1, <2>2, MarksOneCalm DEF MarksOne
  <1> QED BY <1>2, <1>3, <1>4

\* Every step but a landing and a decay leaves the graph alone.
LEMMA CalmSteps ==
    ASSUME CInv, Persist, EInv, AllTiming, [MNext]_mvars
    PROVE  \/ Calm
           \/ \E o \in Op, p \in Proc, D \in SUBSET Entity : Land(o, p, D)
           \/ \E e \in Decayable : Decay(e)
  <1>1. ASSUME NEW p \in live, SagaStep(p) \/ BeatStep(p) PROVE Calm
    BY <1>1, BodyCalm, QuietCalm, MarkCalm DEF SagaStep, BeatStep
  <1>2. ASSUME NEW p \in live, NEW o \in Op, NEW alive \in PidAnswers(live, owner[o]),
               PrepareRow(p, o) \/ ClaimRow(p, o, alive)
        PROVE  Calm
    BY <1>2, OpenCalm DEF PidAnswers
  <1>3. ASSUME NEW p \in live, NEW o \in Op, PrepareRow(p, o) PROVE Calm
    BY <1>3, OpenCalm
  <1> QED BY <1>1, <1>2, <1>3, PlanCalm, QuietCalm, OperatorCalm DEF MNext

\* Whoever has just read the before-state of a row can tell that the row has had
\* no effect: either kind of pair leaves a mark that its before-state excludes.
LEMMA RereadUnspent ==
    ASSUME CInv, EInv, NEW o \in Op, Reread(o)
    PROVE  applied[o] = 0 /\ (req[o].kind = "ENTITY_UNMERGE" => ~Present(req[o].absorbed))
  <1>1. Marked(o) /\ Proper(req[o]) /\ state[o] \in Unresolved /\ applied[o] \in 0..MaxCopies
    BY DEF CInv, MTypeOK, EInv, Rows, Reread, Unresolved
  <1>2. req[o].kind \in {"ENTITY_MERGE", "ENTITY_UNMERGE"}
    BY <1>1 DEF Proper, SagaKinds, Reread, DeleteKinds
  <1>3. CASE req[o].kind = "ENTITY_MERGE"
    <2>1. Present(req[o].absorbed)
      BY <1>3 DEF Reread, Fingerprint, ExpectedBefore
    <2> QED BY <1>1, <1>3, <2>1 DEF Marked, MaxCopies
  <1>4. CASE req[o].kind = "ENTITY_UNMERGE"
    <2>1. ~Present(req[o].absorbed) /\ req[o].absorbed \in lineage[req[o].survivor]
      BY <1>4 DEF Reread, Fingerprint, ExpectedBefore
    <2> QED BY <1>1, <1>4, <2>1 DEF Marked, MaxCopies
  <1> QED BY <1>2, <1>3, <1>4

LEMMA CalmInv ==
    ASSUME CInv, Persist, NeverReopened, EInv, Calm
    PROVE  EInv'
  <1>0. applied \in [Op -> 0..MaxCopies] /\ state \in [Op -> OperationStates \cup {"ABSENT"}]
    BY DEF CInv, MTypeOK, JTypeOK
  <1>1. UNCHANGED <<copies, lineage, applied>> /\ \A p \in Proc : Sites(p)' /\ NewlyDue(p)
    BY DEF Calm
  <1>2. AppliedOnce' /\ NoDuplicateEntity'
    BY <1>1 DEF EInv, AppliedOnce, NoDuplicateEntity
  <1>3. ASSUME NEW o \in Op PROVE Rows(o)'
    BY <1>1 DEF Calm, EInv, Rows, Persist
  <1>4. ASSUME NEW o \in Op, state'[o] \in Unresolved, applied'[o] > 0
        PROVE  state[o] \in Unresolved /\ req'[o] = req[o]
    <2>1. state[o] # "ABSENT"
      BY <1>1, <1>4 DEF EInv, Rows
    <2> QED BY <1>0, <1>4, <2>1 DEF NeverReopened, Persist, Unresolved, OperationStates
  <1>5. ASSUME NEW o \in Op PROVE Marked(o)'
    BY <1>1, <1>4 DEF EInv, Marked, Present
  <1>6. ASSUME NEW p \in Proc, NEW o \in Op, Due(p, o)'
        PROVE  applied'[o] = 0 /\ (req'[o].kind = "ENTITY_UNMERGE" => ~Present(req[o].absorbed)')
    <2>1. CASE Due(p, o)
      <3>1. req'[o] = req[o]
        BY <2>1 DEF Due, HoldsClaim, Persist
      <3> QED BY <1>1, <2>1, <3>1 DEF EInv, Unspent, Present
    <2>2. CASE Opened(o)
      BY <1>1, <2>2 DEF Opened, EInv, Rows, DeleteKinds
    <2>3. CASE Reread(o)
      <3>1. req'[o] = req[o]
        BY <2>3 DEF Reread, Persist
      <3> QED BY <1>1, <2>3, <3>1, RereadUnspent DEF Present
    <2> QED BY <1>1, <1>6, <2>1, <2>2, <2>3 DEF NewlyDue
  <1>7. \A p \in Proc, o \in Op : Unspent(p, o)'
    BY <1>6 DEF Unspent
  <1> QED BY <1>1, <1>2, <1>3, <1>5, <1>7 DEF EInv

-------------------------------------------------------------------------------
(* A statement takes effect.                                               *)

\* It changes no participant of another unresolved operation: that one's locks
\* fence them, whoever owns it.
LEMMA OthersUntouched ==
    ASSUME CInv, AllTiming, NEW o \in Op, NEW p \in Proc, NEW D \in SUBSET Entity, Land(o, p, D),
           NEW n \in Op \ {o}, n \notin LegacyOp, state[n] \in Unresolved,
           NEW e \in ParticipantUuids(req[n])
    PROVE  e \in Entity /\ copies'[e] = copies[e] /\ lineage'[e] = lineage[e]
  <1>1. HoldsClaim(p, o) /\ state[o] # "ABSENT" /\ Effect(o, D)
    BY DEF Land, AllTiming, Timing, Statements, HoldsClaim
  <1>2. ready # {} /\ req[n] \in Request
    BY DEF CInv, JInv, RowHistory, JTypeOK, Unresolved
  <1>3. e \in Entity
    BY <1>2, JournalAssumption DEF ParticipantUuids
  <1>4. lock[e] = n
    BY <1>2, <1>3 DEF CInv, JInv, LockFence, Holders
  <1>5. e \notin ParticipantUuids(req[o])
    BY <1>1, <1>4, OwnerHoldsLocks DEF CInv
  <1> QED BY <1>1, <1>3, <1>5, EffectTouches DEF CInv

\* It is the first effect of its operation, and leaves the operation's mark.
LEMMA FirstEffect ==
    ASSUME CInv, EInv, AllTiming, NEW o \in Op, NEW p \in Proc, NEW D \in SUBSET Entity,
           Land(o, p, D)
    PROVE  /\ HoldsClaim(p, o) /\ Due(p, o) /\ o \notin LegacyOp
           /\ \A n \in Op \ {o} : applied'[n] = applied[n]
           /\ applied'[o] <= 1
           /\ Marked(o)'
           /\ NoDuplicateEntity'
  <1>0. /\ copies \in [Entity -> 0..MaxCopies] /\ lineage \in [Entity -> SUBSET Entity]
        /\ applied \in [Op -> 0..MaxCopies]
    BY DEF CInv, MTypeOK
  <1>1. HoldsClaim(p, o) /\ Due(p, o)
    BY DEF Land, AllTiming, Timing, Statements, Due
  <1>2. o \notin LegacyOp /\ Proper(req[o]) /\ req[o] \in Request
    <2>1. o \notin LegacyOp
      BY <1>1, OwnerAssumption DEF HoldsClaim, CInv, JInv, RowHistory
    <2> QED BY <1>1, <2>1 DEF HoldsClaim, EInv, Rows, CInv, JInv, JTypeOK
  <1>3. applied[o] = 0 /\ (req[o].kind = "ENTITY_UNMERGE" => ~Present(req[o].absorbed))
    BY <1>1 DEF EInv, Unspent
  <1>4. Effect(o, D) /\ UNCHANGED <<state, req>>
    BY DEF Land, jvars, rowVars
  <1>5. \A e \in Entity : copies[e] <= 1
    BY DEF EInv, NoDuplicateEntity
  <1>6. Landed(o) => applied'[o] = 1 /\ \A n \in Op \ {o} : applied'[n] = applied[n]
    BY <1>0, <1>3 DEF Landed, Capped, MaxCopies
  <1> DEFINE s == req[o].survivor
             a == req[o].absorbed
  <1>7. req[o].kind \in {"ENTITY_MERGE", "ENTITY_UNMERGE"} => s \in Entity /\ a \in Entity /\ s # a
    BY <1>2, RequestAssumption, JournalAssumption DEF Proper, PairKinds
  <1>8. CASE req[o].kind = "ENTITY_MERGE" /\ MergeEffect(o)
    <2>1. copies'[a] = 0 /\ Landed(o) /\ \A e \in Entity : copies'[e] \in {0, copies[e]}
      BY <1>0, <1>7, <1>8 DEF MergeEffect
    <2>2. Marked(o)'
      BY <1>4, <1>8, <2>1 DEF Marked, Present
    <2>3. NoDuplicateEntity'
      BY <1>5, <2>1 DEF NoDuplicateEntity
    <2> QED BY <1>1, <1>2, <1>6, <2>1, <2>2, <2>3
  <1>9. CASE req[o].kind = "ENTITY_UNMERGE" /\ RestoreEffect(o)
    <2>1. /\ copies' = [copies EXCEPT ![a] = Capped(@ + copies[s])] /\ Landed(o)
          /\ a \notin lineage'[s]
      BY <1>0, <1>7, <1>9 DEF RestoreEffect
    <2>2. copies[a] = 0 /\ copies[s] \in 0..1
      BY <1>0, <1>3, <1>5, <1>7, <1>9 DEF Present, MaxCopies
    <2>3. Marked(o)'
      BY <1>4, <1>9, <2>1 DEF Marked
    <2>4. NoDuplicateEntity'
      BY <1>0, <1>5, <1>7, <1>9, <2>1, <2>2 DEF NoDuplicateEntity, Capped, MaxCopies
    <2> QED BY <1>1, <1>2, <1>6, <2>1, <2>3, <2>4
  <1>10. CASE req[o].kind \in DeleteKinds /\ DeleteEffect(o, D)
    <2>1. Landed(o) /\ \A e \in Entity : copies'[e] \in {0, copies[e]}
      BY <1>10 DEF DeleteEffect
    <2>2. Marked(o)'
      BY <1>4, <1>10 DEF Marked, DeleteKinds
    <2>3. NoDuplicateEntity'
      BY <1>5, <2>1 DEF NoDuplicateEntity
    <2> QED BY <1>1, <1>2, <1>6, <2>1, <2>2, <2>3
  <1>11. CASE NoEffect
    <2>1. UNCHANGED <<copies, applied>>
      BY <1>11 DEF NoEffect, graphVars
    <2> QED BY <1>1, <1>2, <1>3, <1>5, <2>1 DEF Marked, NoDuplicateEntity
  <1> QED BY <1>4, <1>8, <1>9, <1>10, <1>11 DEF Effect

\* Nothing more is due for the operation, and nothing new for any other.
LEMMA LandDue ==
    ASSUME CInv, AllTiming, NEW o \in Op, NEW p \in Proc, NEW D \in SUBSET Entity, Land(o, p, D),
           NEW q \in Proc, NEW n \in Op, Due(q, n)'
    PROVE  n # o /\ Due(q, n)
  <1>0. pc \in [Proc -> Labels] /\ flight \in [Op -> [Proc -> 0..ServerBound]]
    BY DEF CInv, MTypeOK
  <1>1. UNCHANGED <<state, owner, req, cur>>
    BY DEF Land, jvars, rowVars
  <1>2. /\ pc'[p] = (IF Waiting(o, p) THEN "verify" ELSE pc[p]) /\ flight'[o][p] = 0
        /\ \A x \in Proc \ {p} : pc'[x] = pc[x]
        /\ \A m \in Op, x \in Proc : m # o \/ x # p => flight'[m][x] = flight[m][x]
    BY <1>0 DEF Land
  <1>3. HoldsClaim(p, o) /\ HoldsClaim(q, n) /\ flight[o][p] > 0
    BY <1>1 DEF Land, AllTiming, Timing, Statements, Due, HoldsClaim
  <1>4. Due(q, n)
    BY <1>1, <1>2 DEF Due, HoldsClaim
  <1>5. ~(q = p /\ n = o)
    <2>1. cur[p] = o => pc[p] \notin InSaga \ {"sent"}
      BY <1>3 DEF AllTiming, Timing, Statements
    <2> QED BY <1>1, <1>2, <2>1 DEF Due, Waiting, InSaga
  <1> QED BY <1>3, <1>4, <1>5 DEF HoldsClaim

LEMMA LandInv ==
    ASSUME CInv, EInv, AllTiming, NEW o \in Op, NEW p \in Proc, NEW D \in SUBSET Entity,
           Land(o, p, D)
    PROVE  EInv'
  <1>0. UNCHANGED <<state, owner, req, cur, plan>> /\ pc \in [Proc -> Labels]
    BY DEF Land, jvars, rowVars, CInv, MTypeOK
  <1>1. /\ HoldsClaim(p, o) /\ o \notin LegacyOp /\ applied'[o] <= 1 /\ Marked(o)'
        /\ \A n \in Op \ {o} : applied'[n] = applied[n]
        /\ NoDuplicateEntity'
    BY FirstEffect
  <1>2. \A q \in Proc : pc'[q] \in {pc[q], "verify"} /\ (pc'[q] # pc[q] => pc[q] = "sent")
    BY <1>0 DEF Land, Waiting
  <1>3. \A q \in Proc : Sites(q)'
    BY <1>0, <1>2 DEF EInv, Sites, InSaga
  <1>4. \A n \in Op : Rows(n)'
    BY <1>0, <1>1 DEF EInv, Rows, HoldsClaim
  <1>5. AppliedOnce'
    BY <1>1 DEF EInv, AppliedOnce
  <1>6. ASSUME NEW n \in Op \ {o}, n \notin LegacyOp, state[n] \in Unresolved,
               req[n].kind \in {"ENTITY_MERGE", "ENTITY_UNMERGE"}
        PROVE  /\ copies'[req[n].survivor] = copies[req[n].survivor]
               /\ copies'[req[n].absorbed] = copies[req[n].absorbed]
               /\ lineage'[req[n].survivor] = lineage[req[n].survivor]
    <2>1. req[n] \in Request
      BY <1>6 DEF CInv, JInv, JTypeOK, Unresolved
    <2>2. {req[n].survivor, req[n].absorbed} \subseteq ParticipantUuids(req[n])
      BY <1>6, <2>1, RequestAssumption DEF ParticipantUuids, PairKinds
    <2> QED BY <1>6, <2>2, OthersUntouched
  <1>7. ASSUME NEW n \in Op \ {o} PROVE Marked(n)'
    <2> SUFFICES ASSUME state[n] \in Unresolved, applied[n] > 0
                 PROVE  Marked(n)'
      BY <1>0, <1>1 DEF Marked
    <2>1. n \notin LegacyOp
      BY DEF EInv, Rows
    <2> QED BY <1>0, <1>6, <2>1 DEF EInv, Marked, Present
  <1>8. ASSUME NEW q \in Proc, NEW n \in Op PROVE Unspent(q, n)'
    <2> SUFFICES ASSUME Due(q, n)'
                 PROVE  applied'[n] = 0 /\ (req'[n].kind = "ENTITY_UNMERGE" => ~Present(req[n].absorbed)')
      BY DEF Unspent
    <2>1. n # o /\ Due(q, n)
      BY LandDue
    <2>2. n \notin LegacyOp /\ state[n] \in Unresolved
      BY <2>1, OwnerAssumption DEF Due, HoldsClaim, CInv, JInv, RowHistory, Unresolved
    <2> QED BY <1>0, <1>1, <1>6, <2>1, <2>2 DEF EInv, Unspent, Present
  <1> QED BY <1>1, <1>3, <1>4, <1>5, <1>7, <1>8 DEF EInv

\* A decayed node has no copies and no lineage left: no mark goes with it.
LEMMA DecayInv ==
    ASSUME CInv, EInv, NEW e \in Decayable, Decay(e)
    PROVE  EInv'
  <1>0. /\ copies \in [Entity -> 0..MaxCopies] /\ lineage \in [Entity -> SUBSET Entity]
    BY DEF CInv, MTypeOK
  <1>1. UNCHANGED <<state, owner, req, cur, plan, pc, flight, applied>>
    BY DEF Decay, jvars, rowVars, procVars
  <1>2. \A x \in Entity : copies'[x] \in {0, copies[x]} /\ lineage'[x] \in {{}, lineage[x]}
    BY <1>0 DEF Decay
  <1>3. (\A q \in Proc : Sites(q)') /\ (\A o \in Op : Rows(o)') /\ AppliedOnce'
    BY <1>1 DEF EInv, Sites, Rows, AppliedOnce
  <1>4. NoDuplicateEntity'
    BY <1>2 DEF EInv, NoDuplicateEntity
  <1>5. ASSUME NEW o \in Op, state[o] # "ABSENT",
               req[o].kind \in {"ENTITY_MERGE", "ENTITY_UNMERGE"}
        PROVE  req[o].survivor \in Entity /\ req[o].absorbed \in Entity
    BY <1>5, RequestAssumption, JournalAssumption DEF CInv, JInv, JTypeOK
  <1>6. ASSUME NEW o \in Op PROVE Marked(o)'
    BY <1>1, <1>2, <1>5 DEF EInv, Marked, Present, Unresolved
  <1>7. ASSUME NEW q \in Proc, NEW o \in Op PROVE Unspent(q, o)'
    <2>1. Due(q, o)' => Due(q, o) /\ state[o] # "ABSENT"
      BY <1>1 DEF Due, HoldsClaim
    <2> QED BY <1>1, <1>2, <1>5, <2>1 DEF EInv, Unspent, Present
  <1> QED BY <1>3, <1>4, <1>6, <1>7 DEF EInv

-------------------------------------------------------------------------------
(* The invariant, and what it says of the graph.                           *)

LEMMA StepFacts ==
    ASSUME CInv, [MNext]_mvars
    PROVE  CInv' /\ Persist /\ NeverReopened
  <1>1. [Next]_jvars
    BY JournalStep
  <1>2. Persist
    BY <1>1, RowsPersist DEF CInv, Persist
  <1>3. [NeverReopened]_jvars
    BY <1>1, NextStep DEF CInv
  <1>4. UNCHANGED jvars => NeverReopened
    BY DEF jvars, rowVars, NeverReopened
  <1> QED BY <1>2, <1>3, <1>4, CInvStep

LEMMA EInvStep ==
    ASSUME CInv, AllTiming, EInv, [MNext]_mvars
    PROVE  EInv'
  BY StepFacts, CalmSteps, CalmInv, LandInv, DecayInv

LEMMA EInvInit ==
    ASSUME MInit
    PROVE  EInv
  <1>1. /\ \A p \in Proc : pc[p] = "off"
        /\ \A o \in Op : applied[o] = 0 /\ owner[o] = NoProc
        /\ \A e \in Entity : copies[e] = 1
        /\ \A o \in Op : state[o] = IF o \in LegacyOp THEN "PREPARED" ELSE "ABSENT"
    BY DEF MInit, JInit
  <1>2. \A p \in Proc : Sites(p)
    BY <1>1 DEF Sites, InSaga
  <1>3. \A o \in Op : Rows(o) /\ Marked(o)
    BY <1>1 DEF Rows, Marked
  <1>4. \A p \in Proc, o \in Op : Unspent(p, o)
    BY <1>1, OwnerAssumption DEF Unspent, Due, HoldsClaim
  <1>5. AppliedOnce /\ NoDuplicateEntity
    BY <1>1 DEF AppliedOnce, NoDuplicateEntity
  <1> QED BY <1>2, <1>3, <1>4, <1>5 DEF EInv

\* The invariants hold together, whatever decays.
LEMMA EffectInvariant ==
    ASSUME HeadroomCoversPauses
    PROVE  MSpec => [](CInv /\ AllTiming /\ EInv)
  <1>1. MInit => CInv /\ AllTiming /\ EInv
    BY CInvInit, TimingInit, EInvInit
  <1>2. CInv /\ AllTiming /\ EInv /\ [MNext]_mvars => (CInv /\ AllTiming /\ EInv)'
    BY CInvStep, TimingStep, EInvStep
  <1> QED BY <1>1, <1>2, PTL DEF MSpec

\* Every operation takes effect at most once, over its first attempt, the retries of
\* execute(), the takeovers and the replays, and whatever decay removes meanwhile:
\* merge_entity(), restore_merge_snapshot() and the deletes are not idempotent.
THEOREM EffectsOnce ==
    ASSUME HeadroomCoversPauses
    PROVE  MSpec => []AppliedOnce
  <1>1. CInv /\ AllTiming /\ EInv => AppliedOnce
    BY DEF EInv
  <1> QED BY <1>1, EffectInvariant, PTL

\* restore_merge_snapshot() uses CREATE, and uuid has no constraint; still no
\* unmerge, first attempt or replay, adds a second node under one uuid.
THEOREM EntitiesUnique ==
    ASSUME HeadroomCoversPauses
    PROVE  MSpec => []NoDuplicateEntity
  <1>1. CInv /\ AllTiming /\ EInv => NoDuplicateEntity
    BY DEF EInv
  <1> QED BY <1>1, EffectInvariant, PTL

-------------------------------------------------------------------------------
(* Where nothing decays, the verification still holds when the row is      *)
(* committed.                                                              *)

\* What is due on a pair finds it in its before-state.
Before(p, o) ==
    Due(p, o) /\ req[o].kind \in PairKinds => Fingerprint(req[o]) = ExpectedBefore(req[o])

\* A process about to commit an unresolved pair has its after-state before it.
After(p) ==
    pc[p] = "commit" /\ state[cur[p]] \in Unresolved /\ req[cur[p]].kind \in PairKinds =>
        Fingerprint(req[cur[p]]) = ExpectedAfter(req[cur[p]])

VInv == /\ \A p \in Proc, o \in Op : Before(p, o)
        /\ \A p \in Proc : After(p)

LEMMA VInvInit ==
    ASSUME MInit
    PROVE  VInv
  <1>1. /\ \A p \in Proc : pc[p] = "off"
        /\ \A o \in Op : owner[o] = NoProc
    BY DEF MInit, JInit
  <1> QED BY <1>1, OwnerAssumption DEF VInv, Before, After, Due, HoldsClaim

LEMMA CalmVerified ==
    ASSUME CInv, Persist, NeverReopened, VInv, Calm
    PROVE  VInv'
  <1>0. state \in [Op -> OperationStates \cup {"ABSENT"}]
    BY DEF CInv, MTypeOK, JTypeOK
  <1>2. ASSUME NEW p \in Proc, NEW o \in Op PROVE Before(p, o)'
    <2> SUFFICES ASSUME Due(p, o)', req'[o].kind \in PairKinds
                 PROVE  (Fingerprint(req[o]) = ExpectedBefore(req[o]))'
      BY DEF Before
    <2>1. Due(p, o) \/ Reread(o)
      BY DEF Calm, NewlyDue, Opened, PairKinds, DeleteKinds
    <2>2. req'[o] = req[o]
      BY <2>1 DEF Due, HoldsClaim, Reread, Persist
    <2>3. Fingerprint(req[o]) = ExpectedBefore(req[o])
      BY <2>1, <2>2 DEF VInv, Before, Reread
    <2> QED BY <2>2, <2>3 DEF Calm, Fingerprint, ExpectedBefore, Present
  <1>3. ASSUME NEW p \in Proc PROVE After(p)'
    <2> SUFFICES ASSUME pc'[p] = "commit", state'[cur'[p]] \in Unresolved,
                        req'[cur'[p]].kind \in PairKinds
                 PROVE  (Fingerprint(req[cur[p]]) = ExpectedAfter(req[cur[p]]))'
      BY DEF After
    <2>1. /\ pc[p] \in InSaga /\ cur'[p] = cur[p]
          /\ \/ pc[p] = "commit"
             \/ req[cur[p]].kind \in PairKinds =>
                   Fingerprint(req[cur[p]]) = ExpectedAfter(req[cur[p]])
      BY DEF Calm, Confirmed
    <2>2. cur[p] \in Op /\ state[cur[p]] # "ABSENT"
      BY <2>1 DEF CInv, Control
    <2>3. req'[cur[p]] = req[cur[p]] /\ state[cur[p]] \in Unresolved
      BY <1>0, <2>1, <2>2 DEF Persist, NeverReopened, Unresolved, OperationStates
    <2>4. Fingerprint(req[cur[p]]) = ExpectedAfter(req[cur[p]])
      BY <2>1, <2>3 DEF VInv, After
    <2> QED BY <2>1, <2>3, <2>4 DEF Calm, Fingerprint, ExpectedAfter, Present
  <1> QED BY <1>2, <1>3 DEF VInv

\* A landing spares the pairs of the other operations; and nobody can be about to
\* commit its own, whose before-state differs from its after-state.
LEMMA LandVerified ==
    ASSUME CInv, EInv, VInv, AllTiming, NEW o \in Op, NEW p \in Proc, NEW D \in SUBSET Entity,
           Land(o, p, D)
    PROVE  VInv'
  <1>0. UNCHANGED <<state, owner, req, cur>> /\ pc \in [Proc -> Labels]
    BY DEF Land, jvars, rowVars, CInv, MTypeOK
  <1>1. \A q \in Proc : pc'[q] = "commit" => pc[q] = "commit"
    BY <1>0 DEF Land
  <1>2. ASSUME NEW n \in Op \ {o}, n \notin LegacyOp, state[n] \in Unresolved,
               req[n].kind \in PairKinds
        PROVE  /\ copies'[req[n].survivor] = copies[req[n].survivor]
               /\ copies'[req[n].absorbed] = copies[req[n].absorbed]
               /\ lineage'[req[n].survivor] = lineage[req[n].survivor]
    <2>1. req[n] \in Request /\ req[n].kind \in {"ENTITY_MERGE", "ENTITY_UNMERGE"}
      BY <1>2 DEF CInv, JInv, JTypeOK, Unresolved, EInv, Rows, Proper, SagaKinds, PairKinds
    <2>2. {req[n].survivor, req[n].absorbed} \subseteq ParticipantUuids(req[n])
      BY <1>2, <2>1, RequestAssumption DEF ParticipantUuids
    <2> QED BY <1>2, <2>2, OthersUntouched
  <1>3. ASSUME NEW q \in Proc, NEW n \in Op PROVE Before(q, n)'
    <2> SUFFICES ASSUME Due(q, n)', req[n].kind \in PairKinds
                 PROVE  (Fingerprint(req[n]) = ExpectedBefore(req[n]))'
      BY <1>0 DEF Before
    <2>1. n # o /\ Due(q, n)
      BY LandDue
    <2>2. n \notin LegacyOp /\ state[n] \in Unresolved
      BY <2>1, OwnerAssumption DEF Due, HoldsClaim, CInv, JInv, RowHistory, Unresolved
    <2>3. Fingerprint(req[n]) = ExpectedBefore(req[n])
      BY <2>1 DEF VInv, Before
    <2> QED BY <1>0, <1>2, <2>1, <2>2, <2>3 DEF Fingerprint, ExpectedBefore, Present
  <1>4. ASSUME NEW q \in Proc PROVE After(q)'
    <2> SUFFICES ASSUME pc[q] = "commit", state[cur[q]] \in Unresolved,
                        req[cur[q]].kind \in PairKinds
                 PROVE  (Fingerprint(req[cur[q]]) = ExpectedAfter(req[cur[q]]))'
      BY <1>0, <1>1 DEF After
    <2>1. cur[q] \in Op /\ cur[q] \notin LegacyOp
      BY DEF CInv, Control, EInv, Sites, InSaga
    <2>2. Fingerprint(req[cur[q]]) = ExpectedAfter(req[cur[q]])
      BY DEF VInv, After
    <2>3. cur[q] # o
      <3> SUFFICES ASSUME cur[q] = o
                   PROVE  FALSE
        OBVIOUS
      <3>1. Due(p, o)
        BY FirstEffect
      <3>2. Fingerprint(req[o]) = ExpectedBefore(req[o])
        BY <3>1 DEF VInv, Before
      <3>3. req[o].kind \in {"ENTITY_MERGE", "ENTITY_UNMERGE"}
        BY <2>1 DEF EInv, Rows, Proper, SagaKinds, PairKinds, Unresolved
      <3>4. ExpectedBefore(req[o]) # ExpectedAfter(req[o])
        BY <3>3 DEF ExpectedBefore, ExpectedAfter
      <3> QED BY <2>2, <3>2, <3>4
    <2> QED BY <1>0, <1>2, <2>1, <2>2, <2>3 DEF Fingerprint, ExpectedAfter, Present
  <1> QED BY <1>3, <1>4 DEF VInv

LEMMA VInvStep ==
    ASSUME Decayable = {}, CInv, AllTiming, EInv, VInv, [MNext]_mvars
    PROVE  VInv'
  BY StepFacts, CalmSteps, CalmVerified, LandVerified

\* Only the commit of its own saga commits a PREPARED row.
LEMMA CommitSite ==
    ASSUME CInv, MNext, NEW o \in Op, state[o] = "PREPARED", state'[o] = "COMMITTED"
    PROVE  \E p \in Proc : pc[p] = "commit" /\ cur[p] = o
  <1>0. /\ state \in [Op -> OperationStates \cup {"ABSENT"}] /\ live \subseteq Proc
        /\ state' # state
    BY DEF CInv, MTypeOK, JTypeOK
  <1> USE DEF jvars, rowVars
  <1>1. CASE \E p \in live : Commit(p)
    <2>1. PICK p \in live : Commit(p)
      BY <1>1
    <2>2. MarkCommitted(p, cur[p]) /\ pc[p] = "commit"
      BY <1>0, <2>1 DEF Commit
    <2>3. cur[p] = o
      BY <1>0, <2>2 DEF MarkCommitted, Transition
    <2> QED BY <1>0, <2>2, <2>3
  <1>2. CASE \E p \in live : Settle(p)
    <2>1. PICK p \in live : Settle(p)
      BY <1>2
    <2>2. MarkNeedsReview(p, cur[p]) \/ MarkFailed(p, cur[p])
      BY <1>0, <2>1 DEF Settle
    <2>3. state'[o] \in {state[o], "NEEDS_REVIEW", "FAILED"}
      BY <1>0, <2>2 DEF MarkNeedsReview, MarkFailed, Transition
    <2> QED BY <2>3
  <1>3. CASE \E p \in live : Reverse(p)
    BY <1>0, <1>3 DEF Reverse, MarkReversed, Transition
  <1>4. CASE Operator
    BY <1>0, <1>4 DEF Operator, OperatorCall, AttestOwnerDeath, ClearNeedsReview, Transition,
                      CanTransition
  <1>5. CASE \E p \in live, n \in Op : PrepareRow(p, n)
    BY <1>0, <1>5 DEF PrepareRow, Prepare
  <1>6. CASE \E p \in live : PlanStep(p)
    BY <1>0, <1>6 DEF PlanStep, PlanMerge, PlanUnmerge, PlanDelete, Plan
  <1>7. CASE \E p \in live : BeatStep(p) \/ Start(p) \/ PrepareAbstains(p) \/ Crash(p)
    BY <1>0, <1>7 DEF BeatStep, StartHeartbeat, RenewBeat, LoseBeat, RenewOwnerHeartbeat, Start,
                      EnsureReady, PrepareAbstains, Crash, Die
  <1>8. CASE \E p \in live : \/ Classify(p) \/ MergeIneligible(p) \/ Dispatch(p) \/ Send(p)
                             \/ Retry(p) \/ GiveUp(p) \/ Verify(p) \/ Judge(p)
    BY <1>0, <1>8 DEF Classify, MergeIneligible, Dispatch, Send, Retry, GiveUp, Verify, Judge
  <1>9. CASE \E p \in live, n \in Op : \E alive \in PidAnswers(live, owner[n]) : ClaimRow(p, n, alive)
    BY <1>0, <1>9 DEF ClaimRow, ClaimAbandonedOperation
  <1>10. CASE \/ \E n \in Op, p \in Proc, D \in SUBSET Entity : Land(n, p, D)
              \/ \E n \in Op, p \in Proc : Rollback(n, p)
              \/ \E e \in Decayable : Decay(e)
              \/ Tick
    BY <1>0, <1>10 DEF Land, Rollback, Decay, Tick, ClockTick
  <1> QED BY <1>1, <1>2, <1>3, <1>4, <1>5, <1>6, <1>7, <1>8, <1>9, <1>10 DEF MNext, SagaStep

\* Where no entity decays, what the saga body verified is still true when its
\* commit reaches the journal, however long that takes and whoever else runs: a
\* pair saga is COMMITTED only in its after-state.
THEOREM CommitsVerified ==
    ASSUME HeadroomCoversPauses, Decayable = {}
    PROVE  MSpec => CommitOnlyVerified
  <1>1. CInv /\ AllTiming /\ EInv /\ VInv /\ [MNext]_mvars => VInv'
    BY VInvStep
  <1>2. MInit => VInv
    BY VInvInit
  <1>3. VInv /\ CInv /\ [MNext]_mvars => [CommitVerified]_mvars
    <2> SUFFICES ASSUME VInv, CInv, MNext, NEW o \in Op,
                        state[o] = "PREPARED", state'[o] = "COMMITTED", req[o].kind \in PairKinds
                 PROVE  Fingerprint(req[o]) = ExpectedAfter(req[o])
      BY DEF CommitVerified
    <2>1. PICK p \in Proc : pc[p] = "commit" /\ cur[p] = o
      BY CommitSite
    <2> QED BY <2>1 DEF VInv, After, Unresolved
  <1> QED BY <1>1, <1>2, <1>3, EffectInvariant, PTL DEF MSpec, CommitOnlyVerified
===============================================================================
