-------------------------- MODULE SagaRecoveryProofs --------------------------
(***************************************************************************)
(* For every number of processes, rows and pages: the startup barrier      *)
(* keeps its types and the journal's invariants, two running instances     *)
(* never replay one row, a start is not refused for the gate of a dead     *)
(* peer, and an instance admits writers only over a drained backlog.       *)
(***************************************************************************)
EXTENDS SagaRecovery, GraphOperationsProofs

\* Nothing was marked before any process opened the journal.
AtRest == ready = {} => \A o \in Op : state[o] \in {"PREPARED", "ABSENT"}

\* What the program text keeps true of one start.
Shape(p) ==
    /\ phase[p] \in {"waiting"} \cup InPass => p \in ready
    /\ phase[p] = "leaving" => verdict[p] # "none"
    /\ phase[p] \in {"claiming", "replaying"} => pass[p].page # << >>
    /\ pass[p].aborted => pass[p].page = << >>
    /\ ~pass[p].aborted => pass[p].drifted <= MaxNeedsReview

\* The inductive invariant of types and control.
RInv == JInv /\ RTypeOK /\ AtRest /\ \A p \in Proc : Shape(p)

\* Whoever waits has seen the gate stamped, or outlasts what is left of it.
Patient(p) == phase[p] = "waiting" /\ ~stamped[p] => gateLeft <= waitLeft[p]

\* Where operators do not err, an attestation names a process that is gone, in the
\* row and on the pages that were read, and a running process owns what it replays.
Attested == \A o \in Op : attested[o] # NoProc => attested[o] \notin live
Alone(p) == p \in live /\ phase[p] = "replaying" => HoldsClaim(p, Head(pass[p].page).op)

AInv == Attested /\ \A p \in Proc : Alone(p)

\* A page lists rows behind the cursor in order.  A row on it that has a claim in
\* force had a say; and the walk owns a row on it only where the page says so, or
\* because it replays it.
Listed(p) ==
    LET page == pass[p].page IN
    /\ \A i \in DOMAIN page : page[i].attested # NoProc => page[i].attested \notin live
    /\ \A i, j \in DOMAIN page : i < j => page[i].op < page[j].op
    /\ \A i \in DOMAIN page : page[i].op <= pass[p].cursor
    /\ \A i \in DOMAIN page :
          page[i].left > 0 /\ page[i].owner \notin {p, NoProc} => page[i].op \in peers[p]
    /\ \A i \in DOMAIN page :
          HoldsClaim(p, page[i].op) =>
              page[i].owner = p \/ (phase[p] = "replaying" /\ i = 1)
    /\ phase[p] = "claiming" => Head(page).owner # p

\* Every PREPARED row was requeued, lies before the walk, is on its page, or was
\* passed for another process that had a say in it.
Covered(p) ==
    GateHeldBy(p) /\ ~pass[p].aborted /\ ~pass[p].blocked =>
        \A o \in Op : state[o] = "PREPARED" =>
            \/ o \in requeued[p]
            \/ o > pass[p].cursor /\ ~pass[p].short
            \/ \E i \in DOMAIN pass[p].page : pass[p].page[i].op = o
            \/ o <= pass[p].cursor /\ o \in peers[p] /\ owner[o] # p

WInv == \A p \in Proc : phase[p] \in Walk => Listed(p) /\ Covered(p)

-------------------------------------------------------------------------------
(* What a step does to the journal.                                        *)

\* The calls that a step of the barrier may make.
JournalMove ==
    \/ UNCHANGED jvars
    \/ \E p \in live : EnsureReady(p) \/ RenewGate(p) \/ ReleaseGate(p) \/ Die(p)
    \/ \E p \in live : /\ phase[p] = "waiting"
                      /\ \E a \in PidAnswers(live, gateHolder) : AcquireGate(p, a)
    \/ \E p \in live \cap ready, o \in Op :
          \/ phase[p] = "serving" /\ \E r \in Request : Prepare(p, o, r)
          \/ /\ phase[p] = "serving" \/ phase'[p] = "walking"
             /\ MarkCommitted(p, o) \/ MarkNeedsReview(p, o) \/ MarkFailed(p, o)
          \/ RenewOwnerHeartbeat(p, o)
          \/ /\ phase[p] = "claiming" /\ phase'[p] = "replaying"
             /\ o = Head(pass[p].page).op
             /\ \E a \in PidAnswers(live, owner[o]) : ClaimAbandonedOperation(p, o, a)
    \/ \E o \in Op : \/ AttestOwnerDeath(o) /\ (OperatorErrs \/ owner[o] \notin live)
                     \/ \E to \in OperationStates : ClearNeedsReview(o, to)
    \/ ClockTick

\* The row that a start works on is a row of the journal.
LEMMA HeadRow ==
    ASSUME RInv, NEW p \in Proc, pass[p].page # << >>
    PROVE  /\ Head(pass[p].page) \in PageRow /\ Head(pass[p].page).op \in Op
           /\ Head(pass[p].page) = pass[p].page[1] /\ 1 \in DOMAIN pass[p].page
  <1>1. pass[p].page \in Seq(PageRow)
    BY DEF RInv, RTypeOK, PassType
  <1>2. Head(pass[p].page) \in PageRow
    BY <1>1
  <1> QED BY <1>1, <1>2 DEF PageRow

LEMMA StepMoves ==
    ASSUME RInv, Step
    PROVE  JournalMove
  <1>0. live \subseteq Proc
    BY DEF RInv, JInv, JTypeOK
  <1>1. ASSUME NEW p \in live, Begin(p) \/ PollGate(p) \/ LeaveGate(p) \/ GateBeat(p) \/ Dies(p)
        PROVE  JournalMove
    BY <1>1 DEF Begin, PollGate, LeaveGate, GateBeat, Dies, JournalMove
  <1>2. ASSUME NEW p \in live,
               \/ Preflight(p) \/ ReadPage(p) \/ VisitRow(p) \/ FinalVerdict(p) \/ PassRaises(p)
        PROVE  JournalMove
    BY <1>2 DEF Preflight, ReadPage, VisitRow, FinalVerdict, PassRaises, JournalMove
  <1>3. ASSUME NEW p \in live, ClaimRow(p) \/ EndReplay(p) \/ RowBeat(p)
        PROVE  JournalMove
    <2>1. p \in Proc /\ p \in ready /\ pass[p].page # << >>
      BY <1>0, <1>3 DEF ClaimRow, EndReplay, RowBeat, RInv, Shape, InPass, Walk
    <2>2. Head(pass[p].page).op \in Op
      BY <2>1, HeadRow
    <2>3. phase \in [Proc -> Phases]
      BY DEF RInv, RTypeOK
    <2>4. CASE ClaimRow(p)
      BY <2>1, <2>2, <2>3, <2>4 DEF ClaimRow, JournalMove, Goes
    <2>5. CASE EndReplay(p)
      <3>1. phase'[p] = "walking"
        BY <2>1, <2>3, <2>5 DEF EndReplay, Passed, Quarantined, Goes
      <3> QED BY <2>1, <2>2, <2>5, <3>1 DEF EndReplay, JournalMove
    <2>6. CASE RowBeat(p)
      BY <2>1, <2>2, <2>6 DEF RowBeat, JournalMove
    <2> QED BY <1>3, <2>4, <2>5, <2>6
  <1>4. ASSUME NEW p \in live, Writes(p)
        PROVE  JournalMove
    BY <1>4 DEF Writes, JournalMove
  <1>5. CASE \E p \in live \ ready : phase[p] = "serving" /\ EnsureReady(p) /\ UNCHANGED startVars
    BY <1>5 DEF JournalMove
  <1>6. CASE Operator \/ Tick
    BY <1>6 DEF Operator, Tick, JournalMove
  <1> QED BY <1>1, <1>2, <1>3, <1>4, <1>5, <1>6 DEF Step, StartStep

\* Each of them keeps the journal's invariant.
LEMMA MoveKeeps ==
    ASSUME JInv, AtRest, JournalMove
    PROVE  JInv' /\ AtRest' /\ ready \subseteq ready' /\ live' \subseteq live
  <1>0. live \subseteq Proc /\ \A q : PidAnswers(live, q) \subseteq BOOLEAN
    BY DEF JInv, JTypeOK, PidAnswers
  <1> USE DEF jvars, rowVars, gateVars
  <1>1. CASE UNCHANGED jvars
    BY <1>1, RowsUntouchedInv DEF JInv, JTypeOK, AtRest
  <1>2. CASE \E p \in live : EnsureReady(p)
    <2>1. PICK p \in live : EnsureReady(p)
      BY <1>2
    <2>2. JInv'
      BY <1>0, <2>1, EnsureReadyInv
    <2> QED BY <2>1, <2>2 DEF EnsureReady, AtRest
  <1>3. CASE \E p \in live, a \in BOOLEAN : AcquireGate(p, a) \/ RenewGate(p) \/ ReleaseGate(p)
    <2>1. PICK p \in live, a \in BOOLEAN : AcquireGate(p, a) \/ RenewGate(p) \/ ReleaseGate(p)
      BY <1>3
    <2>2. JInv'
      BY <1>0, <2>1, GateInv
    <2> QED BY <2>1, <2>2 DEF AcquireGate, RenewGate, ReleaseGate, AtRest
  <1>4. CASE \E p \in live : Die(p)
    BY <1>0, <1>4, RowsUntouchedInv DEF Die, JInv, JTypeOK, AtRest
  <1>5. CASE \E p \in live \cap ready, o \in Op, r \in Request : Prepare(p, o, r)
    <2>1. PICK p \in live \cap ready, o \in Op, r \in Request : Prepare(p, o, r)
      BY <1>5
    <2>2. JInv'
      BY <1>0, <2>1, PrepareInv
    <2> QED BY <2>1, <2>2 DEF Prepare, AtRest
  <1>6. CASE \E p \in live \cap ready, o \in Op :
                MarkCommitted(p, o) \/ MarkNeedsReview(p, o) \/ MarkFailed(p, o)
    <2>1. PICK p \in live \cap ready, o \in Op :
                MarkCommitted(p, o) \/ MarkNeedsReview(p, o) \/ MarkFailed(p, o)
      BY <1>6
    <2>2. JInv'
      BY <1>0, <2>1, MarkInv DEF OperationStates
    <2> QED BY <2>1, <2>2 DEF MarkCommitted, MarkNeedsReview, MarkFailed, Transition, AtRest
  <1>7. CASE \E p \in live \cap ready, o \in Op :
                \/ RenewOwnerHeartbeat(p, o)
                \/ \E a \in PidAnswers(live, owner[o]) : ClaimAbandonedOperation(p, o, a)
    <2>1. PICK p \in live \cap ready, o \in Op, a \in BOOLEAN :
                RenewOwnerHeartbeat(p, o) \/ ClaimAbandonedOperation(p, o, a)
      BY <1>0, <1>7
    <2>2. JInv'
      BY <1>0, <2>1, OwnershipInv
    <2> QED BY <2>1, <2>2 DEF RenewOwnerHeartbeat, ClaimAbandonedOperation, AtRest
  <1>8. CASE \E o \in Op : AttestOwnerDeath(o)
    <2>1. PICK o \in Op : AttestOwnerDeath(o)
      BY <1>8
    <2>2. owner[o] \in Proc
      BY <2>1 DEF AttestOwnerDeath, JInv, JTypeOK
    <2>3. JInv'
      BY <2>1, <2>2, OwnershipInv
    <2> QED BY <2>1, <2>3 DEF AttestOwnerDeath, AtRest
  <1>9. CASE \E o \in Op, to \in OperationStates : ClearNeedsReview(o, to)
    <2>1. PICK o \in Op, to \in OperationStates : ClearNeedsReview(o, to)
      BY <1>9
    <2>2. state[o] = "NEEDS_REVIEW"
      BY <2>1 DEF ClearNeedsReview, Transition, CanTransition
    <2>3. PICK p \in Proc : p \in ready
      BY <2>2 DEF AtRest, JInv, JTypeOK
    <2>4. JInv'
      BY <2>1, <2>3, MarkInv
    <2> QED BY <2>1, <2>3, <2>4 DEF ClearNeedsReview, Transition, AtRest
  <1>10. CASE ClockTick
    BY <1>10, ClockInv DEF ClockTick, AtRest
  <1> QED BY <1>0, <1>1, <1>2, <1>3, <1>4, <1>5, <1>6, <1>7, <1>8, <1>9, <1>10 DEF JournalMove

-------------------------------------------------------------------------------
(* Types and control.                                                      *)

\* The part of RTypeOK about the starts.
StartType ==
    /\ phase \in [Proc -> Phases]
    /\ waitLeft \in [Proc -> 0..Wait]
    /\ pass \in [Proc -> PassType]
    /\ \A p \in Proc : Len(pass[p].page) <= PageSize
    /\ verdict \in [Proc -> {"none", "ready", "refuse", "raised"}]

\* A start that the step leaves alone.
Same(q) == /\ phase'[q] = phase[q] /\ waitLeft'[q] = waitLeft[q]
           /\ pass'[q] = pass[q] /\ verdict'[q] = verdict[q]

\* What of a walk stays as it is while its page and its outcome change.
Keeps(p) == /\ pass'[p].cursor = pass[p].cursor /\ pass'[p].short = pass[p].short
            /\ pass'[p].lost = pass[p].lost

LEMMA PassTypes ==
    ASSUME RInv, NEW p \in Proc
    PROVE  /\ pass[p] \in PassType /\ pass[p].page \in Seq(PageRow)
           /\ pass[p].cursor \in 0..MaxOp /\ pass[p].drifted \in 0..(MaxNeedsReview + 1)
           /\ pass[p].aborted \in BOOLEAN /\ pass[p].blocked \in BOOLEAN
           /\ pass[p].short \in BOOLEAN
           /\ Len(pass[p].page) <= PageSize /\ Len(pass[p].page) \in Nat
           /\ DOMAIN pass[p].page = 1..Len(pass[p].page)
  BY DEF RInv, RTypeOK, PassType

LEMMA NewPassType == NewPass \in PassType /\ Len(NewPass.page) = 0 /\ NewPass.page = << >>
                     /\ NewPass.drifted = 0 /\ ~NewPass.aborted
  BY JournalAssumption, RecoveryAssumption DEF NewPass, PassType

\* The rest of a page.
LEMMA RestOfPage ==
    ASSUME RInv, NEW p \in Proc, pass[p].page # << >>
    PROVE  LET page == pass[p].page IN
           /\ Tail(page) \in Seq(PageRow) /\ Len(Tail(page)) = Len(page) - 1
           /\ Len(Tail(page)) <= PageSize
           /\ \A i \in DOMAIN Tail(page) : i + 1 \in DOMAIN page /\ Tail(page)[i] = page[i + 1]
           /\ \A i \in DOMAIN page : i # 1 => i - 1 \in DOMAIN Tail(page) /\ Tail(page)[i - 1] = page[i]
  <1> DEFINE page == pass[p].page
  <1>1. page \in Seq(PageRow) /\ page # << >> /\ Len(page) <= PageSize
    BY PassTypes
  <1> HIDE DEF page
  <1>2. Tail(page) \in Seq(PageRow) /\ Len(Tail(page)) = Len(page) - 1 /\ Len(page) \in Nat
    BY <1>1
  <1>3. Len(Tail(page)) <= PageSize
    BY <1>1, <1>2, RecoveryAssumption
  <1>4. DOMAIN page = 1..Len(page) /\ DOMAIN Tail(page) = 1..(Len(page) - 1)
    BY <1>1, <1>2
  <1>5. \A i \in 1..(Len(page) - 1) : Tail(page)[i] = page[i + 1]
    BY <1>1
  <1>6. ASSUME NEW i \in DOMAIN page, i # 1
        PROVE  i - 1 \in DOMAIN Tail(page) /\ Tail(page)[i - 1] = page[i]
    <2>1. i - 1 \in 1..(Len(page) - 1) /\ (i - 1) + 1 = i
      BY <1>2, <1>4, <1>6
    <2> QED BY <1>4, <1>5, <2>1
  <1>7. \A i \in DOMAIN Tail(page) : i + 1 \in DOMAIN page /\ Tail(page)[i] = page[i + 1]
    BY <1>2, <1>4, <1>5
  <1> QED BY <1>2, <1>3, <1>6, <1>7 DEF page

LEMMA PassedPass ==
    ASSUME RInv, NEW p \in Proc, NEW block \in BOOLEAN, pass[p].page # << >>, Passed(p, block)
    PROVE  /\ phase' = [phase EXCEPT ![p] = "walking"]
           /\ pass' \in [Proc -> PassType] /\ \A q \in Proc \ {p} : pass'[q] = pass[q]
           /\ pass'[p].page = Tail(pass[p].page) /\ Keeps(p)
           /\ pass'[p].blocked = (pass[p].blocked \/ block)
           /\ pass'[p].drifted = pass[p].drifted /\ pass'[p].aborted = pass[p].aborted
  <1>1. Tail(pass[p].page) \in Seq(PageRow) /\ pass \in [Proc -> PassType]
    BY RestOfPage DEF RInv, RTypeOK
  <1>2. pass' = [pass EXCEPT ![p] = [@ EXCEPT !.page = Tail(pass[p].page),
                                              !.blocked = pass[p].blocked \/ block]]
    BY DEF Passed
  <1>3. [pass[p] EXCEPT !.page = Tail(pass[p].page), !.blocked = pass[p].blocked \/ block] \in PassType
    BY <1>1, PassTypes DEF PassType
  <1> QED BY <1>1, <1>2, <1>3, PassTypes DEF Passed, Goes, Keeps, PassType

LEMMA QuarantinedPass ==
    ASSUME RInv, NEW p \in Proc, pass[p].page # << >>, Quarantined(p)
    PROVE  /\ phase' = [phase EXCEPT ![p] = "walking"]
           /\ pass' \in [Proc -> PassType] /\ \A q \in Proc \ {p} : pass'[q] = pass[q]
           /\ pass'[p].page \in {Tail(pass[p].page), << >>} /\ Keeps(p)
           /\ pass'[p].aborted => pass'[p].page = << >>
           /\ ~pass'[p].aborted => /\ pass'[p].page = Tail(pass[p].page)
                                  /\ pass'[p].drifted <= MaxNeedsReview
           /\ pass'[p].blocked = pass[p].blocked
  <1>1. Tail(pass[p].page) \in Seq(PageRow) /\ pass \in [Proc -> PassType]
    BY RestOfPage DEF RInv, RTypeOK
  <1>2. ~pass[p].aborted /\ pass[p].drifted \in 0..MaxNeedsReview
    BY PassTypes, RecoveryAssumption DEF RInv, Shape
  <1> DEFINE page == IF pass[p].drifted >= MaxNeedsReview THEN << >> ELSE Tail(pass[p].page)
             aborted == pass[p].drifted >= MaxNeedsReview
  <1>3. pass' = [pass EXCEPT ![p] = [@ EXCEPT !.page = page, !.drifted = pass[p].drifted + 1,
                                              !.aborted = aborted]]
    BY DEF Quarantined
  <1>4. [pass[p] EXCEPT !.page = page, !.drifted = pass[p].drifted + 1, !.aborted = aborted] \in PassType
    <2>1. page \in Seq(PageRow) /\ aborted \in BOOLEAN
      BY <1>1
    <2>2. pass[p].drifted + 1 \in 0..(MaxNeedsReview + 1)
      BY <1>2, RecoveryAssumption
    <2> HIDE DEF page, aborted
    <2> QED BY <2>1, <2>2, PassTypes DEF PassType
  <1> QED BY <1>1, <1>2, <1>3, <1>4, PassTypes, RecoveryAssumption DEF Quarantined, Goes, Keeps, PassType

\* Reading a page.
LEMMA ReadPagePass ==
    ASSUME RInv, NEW p \in Proc, ReadPage(p)
    PROVE  /\ UNCHANGED phase
           /\ pass' \in [Proc -> PassType] /\ \A q \in Proc \ {p} : pass'[q] = pass[q]
           /\ Len(pass'[p].page) <= PageSize
           /\ pass'[p].drifted = pass[p].drifted /\ ~pass'[p].aborted
           /\ pass'[p].blocked = pass[p].blocked /\ pass'[p].lost = pass[p].lost
           /\ \E ops \in Pages(BehindCursor(p), PageSize) :
                 /\ pass'[p].page = [i \in DOMAIN ops |-> Seen(ops[i])]
                 /\ pass'[p].cursor = IF ops = << >> THEN pass[p].cursor ELSE ops[Len(ops)]
                 /\ pass'[p].short = (Len(ops) < PageSize)
  <1>1. PICK ops \in Pages(BehindCursor(p), PageSize) :
            pass' = [pass EXCEPT ![p] = [@ EXCEPT
                !.page = [i \in DOMAIN ops |-> Seen(ops[i])],
                !.cursor = IF ops = << >> THEN pass[p].cursor ELSE ops[Len(ops)],
                !.short = Len(ops) < PageSize]]
    BY DEF ReadPage
  <1>2. PICK k \in 0..PageSize : ops \in [1..k -> BehindCursor(p)]
    BY <1>1 DEF Pages
  <1>3. Len(ops) = k /\ DOMAIN ops = 1..k /\ k \in Nat
    BY <1>2, RecoveryAssumption
  <1>4. \A i \in 1..k : ops[i] \in Op /\ Seen(ops[i]) \in PageRow
    BY <1>2 DEF BehindCursor, Seen, PageRow, RInv, JInv, JTypeOK
  <1>5. [i \in DOMAIN ops |-> Seen(ops[i])] \in Seq(PageRow)
    BY <1>3, <1>4
  <1>6. Len([i \in DOMAIN ops |-> Seen(ops[i])]) = k
    BY <1>3, <1>4
  <1>7. (IF ops = << >> THEN pass[p].cursor ELSE ops[Len(ops)]) \in 0..MaxOp
    <2>1. CASE k = 0
      BY <1>2, <1>3, <2>1, PassTypes
    <2>2. CASE k # 0
      BY <1>3, <1>4, <2>2, PassTypes, JournalAssumption DEF Op
    <2> QED BY <2>1, <2>2
  <1> DEFINE page == [i \in DOMAIN ops |-> Seen(ops[i])]
             cursor == IF ops = << >> THEN pass[p].cursor ELSE ops[Len(ops)]
             short == Len(ops) < PageSize
             new == [pass[p] EXCEPT !.page = page, !.cursor = cursor, !.short = short]
  <1>8. page \in Seq(PageRow) /\ cursor \in 0..MaxOp /\ short \in BOOLEAN /\ Len(page) <= PageSize
    BY <1>3, <1>5, <1>6, <1>7
  <1>9. pass \in [Proc -> PassType] /\ pass' = [pass EXCEPT ![p] = new]
    BY <1>1 DEF RInv, RTypeOK
  <1>10. /\ new \in PassType /\ new.page = page /\ new.cursor = cursor /\ new.short = short
         /\ new.drifted = pass[p].drifted /\ new.aborted = pass[p].aborted
         /\ new.blocked = pass[p].blocked /\ new.lost = pass[p].lost
    <2> HIDE DEF page, cursor, short
    <2> QED BY <1>8, PassTypes DEF PassType
  <1> HIDE DEF page, cursor, short, new
  <1>11. pass'[p] = new /\ pass' \in [Proc -> PassType] /\ \A q \in Proc \ {p} : pass'[q] = pass[q]
    BY <1>9, <1>10
  <1>12. UNCHANGED phase /\ ~pass[p].aborted
    BY DEF ReadPage
  <1> QED BY <1>8, <1>10, <1>11, <1>12 DEF page, cursor, short

\* A page that grows older lists the same rows.
LEMMA AgedPage ==
    ASSUME NEW page \in Seq(PageRow)
    PROVE  /\ Aged(page) \in Seq(PageRow) /\ Len(Aged(page)) = Len(page)
           /\ DOMAIN Aged(page) = DOMAIN page
           /\ \A i \in DOMAIN page :
                 /\ Aged(page)[i].op = page[i].op /\ Aged(page)[i].owner = page[i].owner
                 /\ Aged(page)[i].attested = page[i].attested
                 /\ Aged(page)[i].left > 0 => page[i].left > 0
           /\ page = << >> <=> Aged(page) = << >>
           /\ page # << >> => /\ Head(Aged(page)).op = Head(page).op
                             /\ Head(Aged(page)).owner = Head(page).owner
  <1>1. \A r \in PageRow : Minus1(r.left) \in 0..Lease /\ (Minus1(r.left) > 0 => r.left > 0)
    BY JournalAssumption DEF PageRow, Minus1
  <1>2. \A i \in DOMAIN page : Aged(page)[i] = [page[i] EXCEPT !.left = Minus1(page[i].left)]
    BY DEF Aged
  <1>3. \A i \in DOMAIN page :
           /\ Aged(page)[i] \in PageRow
           /\ Aged(page)[i].op = page[i].op /\ Aged(page)[i].owner = page[i].owner
           /\ Aged(page)[i].attested = page[i].attested
           /\ Aged(page)[i].left > 0 => page[i].left > 0
    <2> SUFFICES ASSUME NEW i \in DOMAIN page
                 PROVE  /\ Aged(page)[i] \in PageRow
                        /\ Aged(page)[i].op = page[i].op /\ Aged(page)[i].owner = page[i].owner
                        /\ Aged(page)[i].attested = page[i].attested
                        /\ Aged(page)[i].left > 0 => page[i].left > 0
      OBVIOUS
    <2> DEFINE r == page[i]
               m == Minus1(r.left)
    <2>1. r \in PageRow /\ Aged(page)[i] = [r EXCEPT !.left = m]
      BY <1>2
    <2>2. m \in 0..Lease /\ (m > 0 => r.left > 0)
      BY <1>1, <2>1
    <2> HIDE DEF r, m
    <2>3. /\ [r EXCEPT !.left = m] \in PageRow /\ [r EXCEPT !.left = m].left = m
          /\ [r EXCEPT !.left = m].op = r.op /\ [r EXCEPT !.left = m].owner = r.owner
          /\ [r EXCEPT !.left = m].attested = r.attested
      BY <2>1, <2>2 DEF PageRow
    <2> QED BY <2>1, <2>2, <2>3 DEF r
  <1>4. /\ Aged(page) \in Seq(PageRow) /\ Len(Aged(page)) = Len(page)
        /\ DOMAIN Aged(page) = DOMAIN page
    <2>1. DOMAIN page = 1..Len(page) /\ Len(page) \in Nat
      OBVIOUS
    <2>2. Aged(page) \in [1..Len(page) -> PageRow]
      <3>1. Aged(page) = [i \in 1..Len(page) |-> Aged(page)[i]]
        BY <2>1 DEF Aged
      <3> QED BY <1>3, <2>1, <3>1
    <2> QED BY <2>1, <2>2
  <1>5. page = << >> <=> Aged(page) = << >>
    BY <1>4
  <1>6. page # << >> => Head(page) = page[1] /\ Head(Aged(page)) = Aged(page)[1] /\ 1 \in DOMAIN page
    BY <1>4
  <1> QED BY <1>3, <1>4, <1>5, <1>6

LEMMA PhaseFacts == {"down", "waiting", "serving", "refused", "failed", "dead", "held", "leaving",
                     "walking", "claiming", "replaying"} \subseteq Phases
  BY DEF Phases, InPass, Walk

\* One start moves and the others stay.
Acts(p) ==
    /\ phase' \in [Proc -> Phases] /\ waitLeft' \in [Proc -> 0..Wait]
    /\ verdict' \in [Proc -> {"none", "ready", "refuse", "raised"}]
    /\ pass' \in [Proc -> PassType] /\ Len(pass'[p].page) <= PageSize
    /\ \A q \in Proc \ {p} : Same(q)

LEMMA ActsKeep ==
    ASSUME RInv, ready \subseteq ready', NEW p \in Proc, Acts(p), Shape(p)'
    PROVE  StartType' /\ \A q \in Proc : Shape(q)'
  <1>1. \A q \in Proc \ {p} : Shape(q)' /\ Len(pass'[q].page) <= PageSize
    BY PassTypes DEF RInv, Shape, Acts, Same
  <1> QED BY <1>1 DEF Acts, StartType

\* Around the walk.
LEMMA FrameActs ==
    ASSUME RInv, NEW p \in live, ready \subseteq ready',
           \/ Begin(p) \/ PollGate(p) \/ Preflight(p) \/ FinalVerdict(p) \/ PassRaises(p)
           \/ LeaveGate(p) \/ Dies(p)
    PROVE  Acts(p) /\ Shape(p)'
  <1>0. /\ p \in Proc /\ phase \in [Proc -> Phases] /\ waitLeft \in [Proc -> 0..Wait]
        /\ verdict \in [Proc -> {"none", "ready", "refuse", "raised"}]
        /\ pass \in [Proc -> PassType] /\ Shape(p) /\ Wait \in Nat
    BY RecoveryAssumption DEF RInv, RTypeOK, JInv, JTypeOK
  <1>1. CASE Begin(p)
    <2>1. p \in ready' /\ UNCHANGED <<pass, verdict>> /\ phase' = [phase EXCEPT ![p] = "waiting"]
          /\ waitLeft' = [waitLeft EXCEPT ![p] = Wait] /\ phase[p] \notin {"claiming", "replaying"}
      BY <1>1 DEF Begin, EnsureReady, Goes
    <2>2. Acts(p)
      BY <1>0, <2>1, PassTypes DEF Acts, Same, Phases
    <2>3. Shape(p)'
      BY <1>0, <2>1 DEF Shape
    <2> QED BY <2>2, <2>3
  <1>2. CASE PollGate(p) \/ PassRaises(p)
    <2>1. /\ p \in ready /\ UNCHANGED pass /\ waitLeft' = [waitLeft EXCEPT ![p] = 0]
          /\ \/ UNCHANGED verdict
                /\ \E to \in {"held", "refused", "failed"} : phase' = [phase EXCEPT ![p] = to]
             \/ /\ verdict' = [verdict EXCEPT ![p] = "raised"]
                /\ phase' = [phase EXCEPT ![p] = "leaving"]
      BY <1>0, <1>2 DEF PollGate, PassRaises, Goes, Leaves, Shape, InPass, Walk
    <2>2. Acts(p)
      <3>1. phase' \in [Proc -> Phases] /\ verdict' \in [Proc -> {"none", "ready", "refuse", "raised"}]
        BY <1>0, <2>1, PhaseFacts
      <3>2. waitLeft' \in [Proc -> 0..Wait] /\ Len(pass'[p].page) <= PageSize
        BY <1>0, <2>1, PassTypes
      <3> QED BY <1>0, <2>1, <3>1, <3>2 DEF Acts, Same
    <2>3. Shape(p)'
      BY <1>0, <2>1 DEF Shape
    <2> QED BY <2>2, <2>3
  <1>3. CASE Preflight(p)
    <2>1. /\ p \in ready /\ UNCHANGED waitLeft
          /\ \/ /\ phase' = [phase EXCEPT ![p] = "walking"]
                /\ pass' = [pass EXCEPT ![p] = NewPass] /\ UNCHANGED verdict
             \/ /\ phase' = [phase EXCEPT ![p] = "leaving"]
                /\ verdict' = [verdict EXCEPT ![p] = "refuse"] /\ UNCHANGED pass
      BY <1>0, <1>3 DEF Preflight, Goes, Leaves, Shape, InPass
    <2>2. Acts(p)
      <3>1. phase' \in [Proc -> Phases] /\ verdict' \in [Proc -> {"none", "ready", "refuse", "raised"}]
        BY <1>0, <2>1, PhaseFacts
      <3>2. pass' \in [Proc -> PassType] /\ Len(pass'[p].page) <= PageSize
        BY <1>0, <2>1, PassTypes, NewPassType, RecoveryAssumption
      <3> QED BY <1>0, <2>1, <3>1, <3>2 DEF Acts, Same
    <2>3. Shape(p)'
      BY <1>0, <2>1, NewPassType, RecoveryAssumption DEF Shape
    <2> QED BY <2>2, <2>3
  <1>4. CASE FinalVerdict(p)
    <2>1. /\ p \in ready /\ UNCHANGED <<waitLeft, pass>>
          /\ phase' = [phase EXCEPT ![p] = "leaving"]
          /\ \E v \in {"refuse", "ready"} : verdict' = [verdict EXCEPT ![p] = v]
      BY <1>0, <1>4 DEF FinalVerdict, Goes, Leaves, Shape, InPass, Walk
    <2>2. Acts(p)
      BY <1>0, <2>1, PassTypes DEF Acts, Same, Phases, InPass
    <2>3. Shape(p)'
      BY <1>0, <2>1 DEF Shape
    <2> QED BY <2>2, <2>3
  <1>5. CASE LeaveGate(p) \/ Dies(p)
    <2>1. \E to \in {"serving", "refused", "failed", "dead"} : phase' = [phase EXCEPT ![p] = to]
      BY <1>0, <1>5 DEF LeaveGate, Dies, Goes, Shape
    <2>2. /\ \E n \in {waitLeft[p], 0} : waitLeft' = [waitLeft EXCEPT ![p] = n]
          /\ pass' = [pass EXCEPT ![p] = NewPass] /\ verdict' = [verdict EXCEPT ![p] = "none"]
      BY <1>0, <1>5 DEF LeaveGate, Dies
    <2>3. Acts(p)
      BY <1>0, <2>1, <2>2, NewPassType, RecoveryAssumption DEF Acts, Same, Phases
    <2>4. Shape(p)'
      BY <1>0, <2>1, <2>2, NewPassType, RecoveryAssumption DEF Shape, InPass, Walk
    <2> QED BY <2>3, <2>4
  <1> QED BY <1>1, <1>2, <1>3, <1>4, <1>5

\* On the walk.
LEMMA WalkActs ==
    ASSUME RInv, NEW p \in live, ready \subseteq ready',
           ReadPage(p) \/ VisitRow(p) \/ ClaimRow(p) \/ EndReplay(p) \/ GateBeat(p)
    PROVE  Acts(p) /\ Shape(p)'
  <1>0. /\ p \in Proc /\ phase \in [Proc -> Phases] /\ waitLeft \in [Proc -> 0..Wait]
        /\ verdict \in [Proc -> {"none", "ready", "refuse", "raised"}]
        /\ pass \in [Proc -> PassType] /\ Shape(p)
    BY DEF RInv, RTypeOK, JInv, JTypeOK
  <1>1. phase[p] \in Walk /\ UNCHANGED <<waitLeft, verdict>>
    BY DEF ReadPage, VisitRow, ClaimRow, EndReplay, GateBeat, Walk
  <1>2. p \in ready'
    BY <1>0, <1>1 DEF Shape, InPass
  <1>3. ASSUME NEW block \in BOOLEAN, pass[p].page # << >>, Passed(p, block)
        PROVE  Acts(p) /\ Shape(p)'
    <2>1. /\ phase' = [phase EXCEPT ![p] = "walking"]
          /\ pass' \in [Proc -> PassType] /\ \A q \in Proc \ {p} : pass'[q] = pass[q]
          /\ pass'[p].page = Tail(pass[p].page)
          /\ pass'[p].drifted = pass[p].drifted /\ pass'[p].aborted = pass[p].aborted
      BY <1>0, <1>3, PassedPass
    <2>2. Acts(p)
      BY <1>0, <1>1, <1>3, <2>1, RestOfPage DEF Acts, Same, Phases, InPass, Walk
    <2>3. Shape(p)'
      BY <1>0, <1>2, <1>3, <2>1 DEF Shape
    <2> QED BY <2>2, <2>3
  <1>4. ASSUME pass[p].page # << >>, Quarantined(p)
        PROVE  Acts(p) /\ Shape(p)'
    <2>1. /\ phase' = [phase EXCEPT ![p] = "walking"]
          /\ pass' \in [Proc -> PassType] /\ \A q \in Proc \ {p} : pass'[q] = pass[q]
          /\ pass'[p].page \in {Tail(pass[p].page), << >>}
          /\ pass'[p].aborted => pass'[p].page = << >>
          /\ ~pass'[p].aborted => pass'[p].drifted <= MaxNeedsReview
      BY <1>0, <1>4, QuarantinedPass
    <2>2. Len(pass'[p].page) <= PageSize
      BY <1>0, <1>4, <2>1, RestOfPage, RecoveryAssumption
    <2>3. Acts(p)
      BY <1>0, <1>1, <2>1, <2>2 DEF Acts, Same, Phases, InPass, Walk
    <2>4. Shape(p)'
      BY <1>0, <1>2, <2>1 DEF Shape
    <2> QED BY <2>3, <2>4
  <1>5. CASE ReadPage(p)
    <2>1. Acts(p)
      BY <1>0, <1>1, <1>5, ReadPagePass DEF Acts, Same
    <2>2. phase'[p] = "walking" /\ ~pass'[p].aborted /\ pass'[p].drifted = pass[p].drifted
          /\ ~pass[p].aborted
      BY <1>0, <1>5, ReadPagePass DEF ReadPage
    <2>3. Shape(p)'
      BY <1>0, <1>2, <2>2 DEF Shape
    <2> QED BY <2>1, <2>3
  <1>6. CASE VisitRow(p)
    <2>1. pass[p].page # << >> /\ phase[p] = "walking"
      BY <1>6 DEF VisitRow
    <2>2. CASE UNCHANGED phase /\ pass' = [pass EXCEPT ![p].page = << >>, ![p].aborted = TRUE]
      <3> DEFINE new == [pass[p] EXCEPT !.page = << >>, !.aborted = TRUE]
      <3>1. pass' = [pass EXCEPT ![p] = new]
        BY <2>2
      <3>2. new \in PassType /\ new.page = << >> /\ new.aborted
        <4>1. << >> \in Seq(PageRow)
          OBVIOUS
        <4> QED BY <1>0, <4>1, PassTypes DEF PassType
      <3> HIDE DEF new
      <3>3. pass'[p] = new /\ pass' \in [Proc -> PassType] /\ \A q \in Proc \ {p} : pass'[q] = pass[q]
        BY <1>0, <3>1, <3>2
      <3>4. Acts(p)
        BY <1>0, <1>1, <2>2, <3>2, <3>3, RecoveryAssumption DEF Acts, Same
      <3>5. Shape(p)'
        BY <1>2, <2>1, <2>2, <3>2, <3>3 DEF Shape
      <3> QED BY <3>4, <3>5
    <2>3. CASE Goes(p, "claiming") /\ UNCHANGED pass
      <3>1. Acts(p)
        BY <1>0, <1>1, <2>3, PassTypes DEF Acts, Same, Goes, Phases, InPass, Walk
      <3>2. Shape(p)'
        BY <1>0, <1>2, <2>1, <2>3 DEF Shape, Goes
      <3> QED BY <3>1, <3>2
    <2>4. CASE \E block \in BOOLEAN : Passed(p, block)
      BY <1>3, <2>1, <2>4
    <2>5. OwnResidue(p, Head(pass[p].page)) \in BOOLEAN
      BY DEF OwnResidue
    <2> QED BY <1>6, <2>2, <2>3, <2>4, <2>5 DEF VisitRow
  <1>7. CASE ClaimRow(p)
    <2>1. pass[p].page # << >>
      BY <1>0, <1>7 DEF ClaimRow, Shape
    <2>2. CASE Goes(p, "replaying") /\ UNCHANGED pass
      <3>1. Acts(p)
        BY <1>0, <1>1, <2>2, PassTypes DEF Acts, Same, Goes, Phases, InPass, Walk
      <3>2. Shape(p)'
        BY <1>0, <1>2, <2>1, <2>2 DEF Shape, Goes
      <3> QED BY <3>1, <3>2
    <2>3. CASE Passed(p, FALSE)
      BY <1>3, <2>1, <2>3
    <2> QED BY <1>7, <2>2, <2>3 DEF ClaimRow
  <1>8. CASE EndReplay(p)
    <2>1. pass[p].page # << >>
      BY <1>0, <1>8 DEF EndReplay, Shape
    <2>2. Quarantined(p) \/ \E block \in BOOLEAN : Passed(p, block)
      BY <1>8 DEF EndReplay
    <2> QED BY <1>3, <1>4, <2>1, <2>2
  <1>9. CASE GateBeat(p)
    <2>1. \/ UNCHANGED <<phase, pass>>
          \/ UNCHANGED phase /\ pass' = [pass EXCEPT ![p] = [@ EXCEPT !.lost = TRUE]]
      BY <1>9 DEF GateBeat
    <2> DEFINE new == [pass[p] EXCEPT !.lost = TRUE]
    <2>2. /\ new \in PassType /\ new.page = pass[p].page /\ new.aborted = pass[p].aborted
          /\ new.drifted = pass[p].drifted
      BY <1>0, PassTypes DEF PassType
    <2> HIDE DEF new
    <2>3. \/ UNCHANGED <<phase, pass>>
          \/ UNCHANGED phase /\ pass' = [pass EXCEPT ![p] = new]
      BY <2>1 DEF new
    <2>4. Acts(p)
      BY <1>0, <1>1, <2>2, <2>3, PassTypes DEF Acts, Same
    <2>5. Shape(p)'
      BY <1>0, <1>1, <1>2, <2>2, <2>3 DEF Shape, Walk
    <2> QED BY <2>4, <2>5
  <1> QED BY <1>5, <1>6, <1>7, <1>8, <1>9

LEMMA StartsKept ==
    ASSUME RInv, Step, ready \subseteq ready'
    PROVE  StartType' /\ \A p \in Proc : Shape(p)'
  <1>0. live \subseteq Proc /\ StartType
    BY DEF RInv, RTypeOK, StartType, JInv, JTypeOK
  <1>1. CASE UNCHANGED startVars
    BY <1>0, <1>1 DEF startVars, StartType, RInv, Shape
  <1>2. CASE Tick
    <2>1. UNCHANGED <<phase, verdict>> /\ waitLeft' = [p \in Proc |-> Minus1(waitLeft[p])]
          /\ pass' = [p \in Proc |-> [pass[p] EXCEPT !.page = Aged(pass[p].page)]]
      BY <1>2 DEF Tick
    <2>2. waitLeft' \in [Proc -> 0..Wait]
      BY <1>0, <2>1, RecoveryAssumption DEF Minus1, StartType
    <2>3. ASSUME NEW p \in Proc
          PROVE  /\ pass'[p] \in PassType /\ Len(pass'[p].page) <= PageSize
                 /\ pass'[p].page = << >> <=> pass[p].page = << >>
                 /\ pass'[p].aborted = pass[p].aborted /\ pass'[p].drifted = pass[p].drifted
      <3> DEFINE page == Aged(pass[p].page)
      <3>1. /\ page \in Seq(PageRow) /\ Len(page) <= PageSize
            /\ page = << >> <=> pass[p].page = << >>
        BY PassTypes, AgedPage
      <3> HIDE DEF page
      <3>2. pass'[p] = [pass[p] EXCEPT !.page = page]
        BY <2>1 DEF page
      <3> QED BY <3>1, <3>2, PassTypes DEF PassType
    <2>4. pass' \in [Proc -> PassType]
      BY <2>1, <2>3
    <2> QED BY <1>0, <2>1, <2>2, <2>3, <2>4 DEF StartType, RInv, Shape
  <1>3. ASSUME NEW p \in live,
               \/ Begin(p) \/ PollGate(p) \/ Preflight(p) \/ FinalVerdict(p) \/ PassRaises(p)
               \/ LeaveGate(p) \/ Dies(p)
        PROVE  StartType' /\ \A q \in Proc : Shape(q)'
    BY <1>0, <1>3, FrameActs, ActsKeep
  <1>4. ASSUME NEW p \in live,
               ReadPage(p) \/ VisitRow(p) \/ ClaimRow(p) \/ EndReplay(p) \/ GateBeat(p)
        PROVE  StartType' /\ \A q \in Proc : Shape(q)'
    BY <1>0, <1>4, WalkActs, ActsKeep
  <1>5. CASE \E p \in live : RowBeat(p) \/ Writes(p)
    BY <1>1, <1>5 DEF RowBeat, Writes
  <1> QED BY <1>1, <1>2, <1>3, <1>4, <1>5 DEF Step, StartStep, Operator

LEMMA RInvStep ==
    ASSUME RInv, [RNext]_rvars
    PROVE  RInv'
  <1>1. CASE UNCHANGED rvars
    <2>1. JInv' /\ AtRest' /\ ready \subseteq ready'
      BY <1>1, MoveKeeps DEF rvars, RInv, JournalMove
    <2>2. RTypeOK' /\ \A p \in Proc : Shape(p)'
      BY <1>1, <2>1 DEF rvars, startVars, jvars, RInv, RTypeOK, JInv, Shape
    <2> QED BY <2>1, <2>2 DEF RInv
  <1>2. CASE RNext
    <2>1. JInv' /\ AtRest' /\ ready \subseteq ready'
      BY <1>2, StepMoves, MoveKeeps DEF RNext, RInv
    <2>2. StartType' /\ \A p \in Proc : Shape(p)'
      BY <1>2, <2>1, StartsKept DEF RNext
    <2>3. /\ stamped' \in [Proc -> BOOLEAN] /\ requeued' \in [Proc -> SUBSET Op]
          /\ peers' \in [Proc -> SUBSET Op]
      BY <1>2 DEF RNext, Remember, RInv, RTypeOK
    <2> QED BY <2>1, <2>2, <2>3 DEF RInv, RTypeOK, JInv, StartType
  <1> QED BY <1>1, <1>2

LEMMA RInvInit ==
    ASSUME RInit
    PROVE  RInv
  <1>1. JInv
    BY InitInv DEF RInit
  <1>2. AtRest
    BY DEF RInit, JInit, AtRest
  <1>3. \A p \in Proc : phase[p] \in {"down", "serving"} /\ pass[p] = NewPass
    BY DEF RInit
  <1>4. \A p \in Proc : Shape(p)
    <2>1. \A p \in Proc : phase[p] \notin {"waiting", "leaving", "claiming", "replaying"} \cup InPass
      BY <1>3 DEF InPass, Walk
    <2>2. \A p \in Proc : /\ pass[p].page = << >> /\ pass[p].drifted <= MaxNeedsReview
      <3>1. NewPass.page = << >> /\ NewPass.drifted <= MaxNeedsReview
        BY NewPassType, RecoveryAssumption
      <3> QED BY <1>3, <3>1
    <2> QED BY <2>1, <2>2 DEF Shape
  <1>5. RTypeOK
    <2>1. phase \in [Proc -> Phases] /\ verdict \in [Proc -> {"none", "ready", "refuse", "raised"}]
      BY DEF RInit, Phases
    <2>2. pass \in [Proc -> PassType] /\ \A p \in Proc : Len(pass[p].page) <= PageSize
      BY <1>3, NewPassType, RecoveryAssumption DEF RInit
    <2>3. /\ stamped \in [Proc -> BOOLEAN] /\ requeued \in [Proc -> SUBSET Op]
          /\ peers \in [Proc -> SUBSET Op] /\ waitLeft \in [Proc -> 0..Wait]
      BY RecoveryAssumption DEF RInit
    <2> QED BY <1>1, <2>1, <2>2, <2>3 DEF RTypeOK, JInv
  <1> QED BY <1>1, <1>2, <1>4, <1>5 DEF RInv

\* Type correctness of the startup barrier: pages are at most PageSize long, and a
\* pass breaks off before its quarantines exceed the ceiling by more than one.
THEOREM RecoveryTypeCorrect == RSpec => []RTypeOK
  <1>1. RSpec => []RInv
    BY RInvInit, RInvStep, PTL DEF RSpec
  <1> QED BY <1>1, PTL DEF RInv

-------------------------------------------------------------------------------
(* A start outlasts the gate of a peer that died.                          *)

\* The steps by which a start itself moves.
Moves(p) ==
    \/ Begin(p) \/ PollGate(p) \/ Preflight(p) \/ FinalVerdict(p) \/ PassRaises(p)
    \/ LeaveGate(p) \/ Dies(p)
    \/ ReadPage(p) \/ VisitRow(p) \/ ClaimRow(p) \/ EndReplay(p) \/ GateBeat(p)

LEMMA WhoMoves ==
    ASSUME RInv, Step, NEW p \in Proc
    PROVE  Same(p) \/ Tick \/ (p \in live /\ Moves(p))
  <1>0. live \subseteq Proc /\ ready \subseteq ready'
    BY StepMoves, MoveKeeps DEF RInv, JInv, JTypeOK
  <1>1. ASSUME NEW q \in live, Moves(q) PROVE q = p \/ Same(p)
    <2>1. Acts(q)
      BY <1>0, <1>1, FrameActs, WalkActs DEF Moves
    <2> QED BY <2>1 DEF Acts
  <1>2. ASSUME UNCHANGED startVars PROVE Same(p)
    BY <1>2 DEF startVars, Same
  <1> QED BY <1>1, <1>2 DEF Step, StartStep, Moves, RowBeat, Writes, Operator

\* Inside the walk a start does not wait, and whoever waits keeps its deadline.
LEMMA Waits ==
    ASSUME RInv, NEW p \in Proc, Moves(p), phase'[p] = "waiting"
    PROVE  Begin(p)
  <1>0. phase \in [Proc -> Phases]
    BY DEF RInv, RTypeOK
  <1>1. ~(PollGate(p) \/ PassRaises(p) \/ Preflight(p) \/ FinalVerdict(p))
    BY <1>0 DEF PollGate, PassRaises, Preflight, FinalVerdict, Goes, Leaves
  <1>2. ~(LeaveGate(p) \/ Dies(p))
    <2>1. LeaveGate(p) => verdict[p] \in {"ready", "refuse", "raised"}
      BY DEF LeaveGate, RInv, RTypeOK, Shape
    <2> QED BY <1>0, <2>1 DEF LeaveGate, Dies, Goes
  <1>3. ~(ReadPage(p) \/ VisitRow(p) \/ ClaimRow(p) \/ EndReplay(p) \/ GateBeat(p))
    BY <1>0 DEF ReadPage, VisitRow, ClaimRow, EndReplay, GateBeat, Goes, Passed, Quarantined, Walk
  <1> QED BY <1>1, <1>2, <1>3 DEF Moves

LEMMA PatientStep ==
    ASSUME RInv, \A p \in Proc : Patient(p), RNext
    PROVE  \A p \in Proc : Patient(p)'
  <1>0. /\ gateLeft \in 0..GateTTL /\ waitLeft \in [Proc -> 0..Wait]
        /\ Wait \in Nat /\ GateTTL \in Nat /\ GateTTL <= Wait
    BY RecoveryAssumption, JournalAssumption DEF RInv, JInv, JTypeOK, RTypeOK
  <1>1. RInv' /\ gateLeft' \in 0..GateTTL
    BY RInvStep DEF RInv, JInv, JTypeOK
  <1> SUFFICES ASSUME NEW p \in Proc, phase'[p] = "waiting", ~stamped'[p]
               PROVE  gateLeft' <= waitLeft'[p]
    BY DEF Patient
  <1>2. phase[p] = "waiting" => ~stamped[p] /\ ~(gateLeft' > gateLeft)
    BY DEF RNext, Remember
  <1>3. phase[p] = "waiting" => gateLeft <= waitLeft[p] /\ gateLeft' <= gateLeft
    BY <1>0, <1>1, <1>2 DEF Patient
  <1>4. CASE Same(p)
    BY <1>0, <1>1, <1>3, <1>4 DEF Same
  <1>5. CASE Tick
    <2>1. gateLeft' = Minus1(gateLeft) /\ waitLeft'[p] = Minus1(waitLeft[p]) /\ phase[p] = "waiting"
      BY <1>5 DEF Tick, ClockTick
    <2> QED BY <1>0, <1>3, <2>1 DEF Minus1
  <1>6. CASE Moves(p)
    <2>1. Begin(p)
      BY <1>6, Waits
    <2>2. waitLeft'[p] = Wait
      BY <1>0, <2>1 DEF Begin
    <2> QED BY <1>0, <1>1, <2>2
  <1> QED BY <1>4, <1>5, <1>6, WhoMoves DEF RNext

\* A start is refused for the gate only if a process took or renewed it while the
\* start waited: the wait is longer than what a dead peer leaves of its lease.
THEOREM StartOutlastsTheDead == RSpec => OutlastsTheDead
  <1> DEFINE AllPatient == \A p \in Proc : Patient(p)
             Outlasts == \A p \in Proc : phase[p] = "waiting" /\ phase'[p] = "refused" => stamped[p]
  <1>1. RInit => RInv /\ AllPatient
    BY RInvInit DEF RInit, Patient
  <1>2. RInv /\ AllPatient /\ [RNext]_rvars => (RInv /\ AllPatient)'
    <2>1. CASE UNCHANGED rvars
      BY <2>1, RInvStep DEF rvars, startVars, jvars, gateVars, Patient
    <2>2. CASE RNext
      BY <2>2, RInvStep, PatientStep
    <2> QED BY <2>1, <2>2
  <1>3. RInv /\ AllPatient /\ [RNext]_rvars => [Outlasts]_rvars
    <2> SUFFICES ASSUME RInv, AllPatient, RNext, NEW p \in Proc,
                        phase[p] = "waiting", phase'[p] = "refused"
                 PROVE  stamped[p]
      OBVIOUS
    <2>1. PollGate(p) \/ PassRaises(p)
      BY WhoMoves DEF RNext, Same, Tick, Moves, Begin, Preflight, FinalVerdict, LeaveGate, Dies, ReadPage,
                      VisitRow, ClaimRow, EndReplay, GateBeat, Goes, Walk, RInv, RTypeOK
    <2>2. PollGate(p) /\ gateLeft # 0 /\ waitLeft[p] = 0
      BY <2>1 DEF PollGate, PassRaises, Goes, Leaves, CanAcquireGate, RInv, RTypeOK
    <2>3. gateLeft \in Nat
      BY JournalAssumption DEF RInv, JInv, JTypeOK
    <2> QED BY <2>2, <2>3 DEF Patient
  <1> QED BY <1>1, <1>2, <1>3, PTL DEF RSpec, OutlastsTheDead

-------------------------------------------------------------------------------
(* A running process keeps the row it replays.                             *)

\* A claim of a running process ends only by its own mark.
LEMMA ClaimStands ==
    ASSUME JInv, Attested, ~OperatorErrs, JournalMove,
           NEW p \in live, NEW o \in Op, HoldsClaim(p, o)
    PROVE  \/ HoldsClaim(p, o)'
           \/ /\ MarkCommitted(p, o) \/ MarkNeedsReview(p, o) \/ MarkFailed(p, o)
              /\ phase[p] = "serving" \/ phase'[p] = "walking"
  <1>0. live \subseteq Proc /\ state[o] = "PREPARED" /\ owner[o] = p /\ NoProc \notin Proc
    BY OwnerAssumption DEF HoldsClaim, JInv, JTypeOK
  <1>1. CASE UNCHANGED <<state, owner>>
    BY <1>1 DEF HoldsClaim
  <1>2. ASSUME NEW q \in live, NEW n \in Op, NEW r \in Request, Prepare(q, n, r)
        PROVE  HoldsClaim(p, o)'
    BY <1>0, <1>2 DEF Prepare, Fresh, HoldsClaim, JInv, JTypeOK
  <1>3. ASSUME NEW q \in live, NEW n \in Op,
               MarkCommitted(q, n) \/ MarkNeedsReview(q, n) \/ MarkFailed(q, n)
        PROVE  HoldsClaim(p, o)' \/ (q = p /\ n = o)
    <2>1. PICK to \in OperationStates : Transition(n, to, {"PREPARED"}, q)
      BY <1>3 DEF MarkCommitted, MarkNeedsReview, MarkFailed, OperationStates
    <2>2. n = o => q = p
      BY <1>0, <2>1 DEF Transition, CanTransition
    <2>3. n # o => state'[o] = state[o] /\ owner'[o] = owner[o]
      BY <2>1 DEF Transition, JInv, JTypeOK
    <2> QED BY <2>2, <2>3 DEF HoldsClaim
  <1>4. ASSUME NEW q \in live, NEW n \in Op, NEW a \in PidAnswers(live, owner[n]),
               ClaimAbandonedOperation(q, n, a)
        PROVE  HoldsClaim(p, o)'
    <2>1. n # o
      <3> SUFFICES ASSUME n = o
                   PROVE  FALSE
        OBVIOUS
      <3>1. a = TRUE
        BY <1>0, <1>4 DEF PidAnswers
      <3>2. ~ProvenDead(q, p, a)
        BY <3>1 DEF ProvenDead
      <3>3. attested[o] # p
        BY <1>0 DEF Attested
      <3> QED BY <1>0, <1>4, <3>2, <3>3 DEF ClaimAbandonedOperation, Claimable, ClassifyOwnership
    <2> QED BY <1>0, <1>4, <2>1 DEF ClaimAbandonedOperation, HoldsClaim, JInv, JTypeOK
  <1>5. ASSUME NEW n \in Op, NEW to \in OperationStates, ClearNeedsReview(n, to)
        PROVE  HoldsClaim(p, o)'
    <2>1. n # o
      BY <1>0, <1>5 DEF ClearNeedsReview, Transition, CanTransition
    <2> QED BY <1>0, <1>5, <2>1 DEF ClearNeedsReview, Transition, HoldsClaim, JInv, JTypeOK
  <1>6. ASSUME \/ UNCHANGED jvars \/ ClockTick
               \/ \E q \in live : EnsureReady(q) \/ RenewGate(q) \/ ReleaseGate(q) \/ Die(q)
               \/ \E q \in live : \E a \in PidAnswers(live, gateHolder) : AcquireGate(q, a)
               \/ \E q \in live, n \in Op : RenewOwnerHeartbeat(q, n)
               \/ \E n \in Op : AttestOwnerDeath(n)
        PROVE  UNCHANGED <<state, owner>>
    BY <1>6 DEF jvars, rowVars, ClockTick, EnsureReady, RenewGate, ReleaseGate, Die, AcquireGate,
                RenewOwnerHeartbeat, AttestOwnerDeath
  <1> QED BY <1>1, <1>2, <1>3, <1>4, <1>5, <1>6 DEF JournalMove

\* Attestations stay true: nobody comes back.
LEMMA AttestedStep ==
    ASSUME JInv, Attested, ~OperatorErrs, JournalMove, live' \subseteq live
    PROVE  Attested'
  <1>1. ASSUME NEW n \in Op, AttestOwnerDeath(n), owner[n] \notin live
        PROVE  Attested'
    BY <1>1 DEF AttestOwnerDeath, Attested, JInv, JTypeOK
  <1>2. ASSUME NEW q \in live, NEW n \in Op,
               \/ \E a \in PidAnswers(live, owner[n]) : ClaimAbandonedOperation(q, n, a)
               \/ RenewOwnerHeartbeat(q, n)
        PROVE  Attested'
    BY <1>2 DEF ClaimAbandonedOperation, RenewOwnerHeartbeat, Attested, JInv, JTypeOK
  <1>3. ASSUME UNCHANGED attested PROVE Attested'
    BY <1>3 DEF Attested
  <1>4. ASSUME \/ UNCHANGED jvars \/ ClockTick
               \/ \E q \in live : EnsureReady(q) \/ RenewGate(q) \/ ReleaseGate(q) \/ Die(q)
               \/ \E q \in live : \E a \in PidAnswers(live, gateHolder) : AcquireGate(q, a)
        PROVE  UNCHANGED attested
    BY <1>4 DEF jvars, rowVars, ClockTick, EnsureReady, RenewGate, ReleaseGate, Die, AcquireGate
  <1>5. ASSUME NEW n \in Op,
               \/ \E q \in live, r \in Request : Prepare(q, n, r)
               \/ \E q \in live : MarkCommitted(q, n) \/ MarkNeedsReview(q, n) \/ MarkFailed(q, n)
               \/ \E to \in OperationStates : ClearNeedsReview(n, to)
        PROVE  UNCHANGED attested
    BY <1>5 DEF Prepare, MarkCommitted, MarkNeedsReview, MarkFailed, ClearNeedsReview, Transition
  <1> QED BY <1>1, <1>2, <1>3, <1>4, <1>5 DEF JournalMove

\* Whoever replays after a step has just claimed the row, or replayed it before.
LEMMA Replays ==
    ASSUME RInv, Step, NEW p \in Proc, phase'[p] = "replaying"
    PROVE  \/ /\ phase[p] = "claiming" /\ pass'[p] = pass[p]
              /\ HoldsClaim(p, Head(pass[p].page).op)'
           \/ /\ phase[p] = "replaying"
              /\ Head(pass'[p].page).op = Head(pass[p].page).op
  <1>0. /\ phase \in [Proc -> Phases] /\ pass \in [Proc -> PassType]
        /\ live \subseteq Proc
    BY DEF RInv, RTypeOK, JInv, JTypeOK
  <1>1. CASE Same(p)
    BY <1>1 DEF Same
  <1>2. CASE Tick
    <2>1. phase[p] = "replaying" /\ pass'[p] = [pass[p] EXCEPT !.page = Aged(pass[p].page)]
      BY <1>2 DEF Tick
    <2>2. pass'[p].page = Aged(pass[p].page) /\ pass[p].page # << >>
      BY <1>0, <2>1, PassTypes DEF PassType, RInv, Shape
    <2> QED BY <2>1, <2>2, AgedPage, PassTypes
  <1>3. CASE Moves(p)
    <2>1. ClaimRow(p) \/ GateBeat(p)
      <3>1. ~(Begin(p) \/ PollGate(p) \/ PassRaises(p) \/ Preflight(p) \/ FinalVerdict(p))
        BY <1>0 DEF Begin, PollGate, PassRaises, Preflight, FinalVerdict, Goes, Leaves
      <3>2. ~(LeaveGate(p) \/ Dies(p))
        <4>1. LeaveGate(p) => verdict[p] \in {"ready", "refuse", "raised"}
          BY DEF LeaveGate, RInv, RTypeOK, Shape
        <4> QED BY <1>0, <4>1 DEF LeaveGate, Dies, Goes
      <3>3. ~(ReadPage(p) \/ VisitRow(p) \/ EndReplay(p))
        BY <1>0 DEF ReadPage, VisitRow, EndReplay, Goes, Passed, Quarantined
      <3> QED BY <1>3, <3>1, <3>2, <3>3 DEF Moves
    <2>2. CASE ClaimRow(p)
      <3>1. pass[p].page # << >> /\ phase[p] = "claiming"
        BY <2>2 DEF ClaimRow, RInv, Shape
      <3>2. Head(pass[p].page).op \in Op
        BY <3>1, HeadRow
      <3>3. /\ UNCHANGED pass
            /\ \E a \in BOOLEAN : ClaimAbandonedOperation(p, Head(pass[p].page).op, a)
        BY <1>0, <2>2 DEF ClaimRow, Passed, Goes, PidAnswers
      <3> QED BY <3>1, <3>2, <3>3 DEF ClaimAbandonedOperation, Claimable, HoldsClaim, RInv, JInv, JTypeOK
    <2>3. CASE GateBeat(p)
      <3>1. UNCHANGED phase /\ pass'[p].page = pass[p].page
        BY <1>0, <2>3 DEF GateBeat, PassType
      <3> QED BY <3>1
    <2> QED BY <2>1, <2>2, <2>3
  <1> QED BY <1>1, <1>2, <1>3, WhoMoves

LEMMA AInvStep ==
    ASSUME ~OperatorErrs, RInv, AInv, RNext
    PROVE  AInv'
  <1>0. JInv /\ JournalMove /\ live' \subseteq live /\ live \subseteq Proc
    BY StepMoves, MoveKeeps DEF RNext, RInv, JInv, JTypeOK
  <1>1. Attested'
    BY <1>0, AttestedStep DEF AInv
  <1>2. ASSUME NEW p \in Proc, p \in live', phase'[p] = "replaying"
        PROVE  HoldsClaim(p, Head(pass[p].page).op)'
    <2>1. CASE /\ phase[p] = "claiming" /\ pass'[p] = pass[p]
               /\ HoldsClaim(p, Head(pass[p].page).op)'
      BY <2>1 DEF HoldsClaim
    <2>2. CASE phase[p] = "replaying" /\ Head(pass'[p].page).op = Head(pass[p].page).op
      <3>1. p \in live /\ HoldsClaim(p, Head(pass[p].page).op)
        BY <1>0, <1>2, <2>2 DEF AInv, Alone
      <3>2. Head(pass[p].page).op \in Op
        BY <2>2, HeadRow DEF RInv, Shape
      <3>3. state'[Head(pass[p].page).op] = "PREPARED" /\ owner'[Head(pass[p].page).op] = p
        BY <1>0, <1>2, <2>2, <3>1, <3>2, ClaimStands DEF AInv, HoldsClaim
      <3> QED BY <2>2, <3>3 DEF HoldsClaim
    <2> QED BY <1>2, <2>1, <2>2, Replays DEF RNext
  <1> QED BY <1>1, <1>2 DEF AInv, Alone

LEMMA AInvInit ==
    ASSUME RInit
    PROVE  AInv
  <1>1. \A p \in Proc : phase[p] # "replaying"
    BY DEF RInit
  <1>2. \A o \in Op : attested[o] = NoProc
    BY DEF RInit, JInit
  <1> QED BY <1>1, <1>2 DEF AInv, Attested, Alone

LEMMA AloneInvariant ==
    ASSUME ~OperatorErrs
    PROVE  RSpec => [](RInv /\ AInv)
  <1>1. RInit => RInv /\ AInv
    BY RInvInit, AInvInit
  <1>2. RInv /\ AInv /\ [RNext]_rvars => (RInv /\ AInv)'
    <2>1. CASE UNCHANGED rvars
      BY <2>1, RInvStep DEF rvars, startVars, jvars, rowVars, AInv, Attested, Alone, HoldsClaim
    <2>2. CASE RNext
      BY <2>2, RInvStep, AInvStep
    <2> QED BY <2>1, <2>2
  <1> QED BY <1>1, <1>2, PTL DEF RSpec

\* No two running instances replay one row at the same time, although the gate may
\* lapse and be taken in the middle of a replay: the claim of the row, and not the
\* gate, excludes them, unless an operator attests the death of a running process.
THEOREM ReplaysExclusive == RSpec => []ReplaysAlone
  <1>1. CASE OperatorErrs
    <2>1. TRUE => ReplaysAlone
      BY <1>1 DEF ReplaysAlone
    <2> QED BY <2>1, PTL
  <1>2. CASE ~OperatorErrs
    <2>1. RInv /\ AInv => ReplaysAlone
      <3> SUFFICES ASSUME RInv, AInv, NEW p \in live, NEW q \in live, p # q,
                          phase[p] = "replaying", phase[q] = "replaying",
                          Head(pass[p].page).op = Head(pass[q].page).op
                   PROVE  FALSE
        BY DEF ReplaysAlone
      <3>1. p \in Proc /\ q \in Proc
        BY DEF RInv, JInv, JTypeOK
      <3> QED BY <3>1 DEF AInv, Alone, HoldsClaim
    <2> QED BY <1>2, <2>1, AloneInvariant, PTL
  <1> QED BY <1>1, <1>2

-------------------------------------------------------------------------------
(* An instance admits writers only over a drained backlog.                 *)

\* What the journal can do to a walk in its back: its gate is lost and not won, no
\* new row appears while it has the gate, and nobody else gives it a claim.
LEMMA BehindTheWalk ==
    ASSUME RInv, JournalMove, NEW p \in Proc, phase[p] \in Walk
    PROVE  /\ GateHeldBy(p)' => GateHeldBy(p)
           /\ \A o \in Op : GateHeldBy(p)' /\ state'[o] = "PREPARED"
                            => state[o] \in {"PREPARED", "NEEDS_REVIEW"}
           /\ \A o \in Op : HoldsClaim(p, o)' =>
                 \/ HoldsClaim(p, o)
                 \/ /\ phase[p] = "claiming" /\ phase'[p] = "replaying"
                    /\ o = Head(pass[p].page).op
  <1> DEFINE Gate == GateHeldBy(p)' => GateHeldBy(p)
             Rows == \A o \in Op : GateHeldBy(p)' /\ state'[o] = "PREPARED"
                                   => state[o] \in {"PREPARED", "NEEDS_REVIEW"}
             Claims == \A o \in Op : HoldsClaim(p, o)' =>
                 \/ HoldsClaim(p, o)
                 \/ /\ phase[p] = "claiming" /\ phase'[p] = "replaying"
                    /\ o = Head(pass[p].page).op
  <1>0. JTypeOK /\ p # NoProc /\ phase[p] \notin {"waiting", "serving"}
    BY OwnerAssumption DEF RInv, JInv, Walk
  <1>1. ASSUME UNCHANGED <<state, owner>> PROVE Rows /\ Claims
    BY <1>1 DEF HoldsClaim
  <1>2. ASSUME UNCHANGED gateVars PROVE Gate
    BY <1>2 DEF GateHeldBy, gateVars
  <1>3. ASSUME \/ UNCHANGED jvars \/ \E o \in Op : AttestOwnerDeath(o)
               \/ \E q \in live : EnsureReady(q) \/ Die(q)
               \/ \E q \in live, o \in Op : RenewOwnerHeartbeat(q, o)
        PROVE  Gate /\ Rows /\ Claims
    BY <1>1, <1>2, <1>3 DEF jvars, rowVars, gateVars, AttestOwnerDeath, EnsureReady, Die, RenewOwnerHeartbeat
  <1>4. CASE ClockTick
    <2>1. UNCHANGED <<state, owner, gateHolder>> /\ gateLeft' = Minus1(gateLeft)
      BY <1>4 DEF ClockTick
    <2>2. gateLeft \in Nat
      BY <1>0, JournalAssumption DEF JTypeOK
    <2>3. Gate
      BY <2>1, <2>2 DEF GateHeldBy, Minus1
    <2> QED BY <1>1, <2>1, <2>3
  <1>5. ASSUME NEW q \in live,
               \/ RenewGate(q) \/ ReleaseGate(q)
               \/ phase[q] = "waiting" /\ \E a \in PidAnswers(live, gateHolder) : AcquireGate(q, a)
        PROVE  Gate /\ Rows /\ Claims
    <2>1. UNCHANGED <<state, owner>>
      BY <1>5 DEF RenewGate, ReleaseGate, AcquireGate, rowVars
    <2>2. Gate
      BY <1>0, <1>5 DEF RenewGate, ReleaseGate, AcquireGate, GateHeldBy, AfterRelease
    <2> QED BY <1>1, <2>1, <2>2
  <1>6. ASSUME NEW q \in live, NEW n \in Op, NEW r \in Request, phase[q] = "serving", Prepare(q, n, r)
        PROVE  Gate /\ Rows /\ Claims
    <2>1. Gate /\ ~GateHeldBy(p)'
      BY <1>0, <1>6 DEF Prepare, PrepareRefused, GateClosed, GateHeldBy, gateVars
    <2>2. Claims
      BY <1>0, <1>6 DEF Prepare, HoldsClaim, JTypeOK
    <2> QED BY <2>1, <2>2
  <1>7. ASSUME NEW n \in Op, NEW to \in OperationStates, NEW q,
               NEW from, Transition(n, to, from, q), from \in {{"PREPARED"}, {"NEEDS_REVIEW"}}
        PROVE  Gate /\ Rows /\ Claims
    <2>1. UNCHANGED gateVars /\ \A o \in Op \ {n} : state'[o] = state[o] /\ owner'[o] = owner[o]
      BY <1>0, <1>7 DEF Transition, JTypeOK
    <2>2. state[n] \in {"PREPARED", "NEEDS_REVIEW"}
      BY <1>7 DEF Transition, CanTransition
    <2>3. owner'[n] # p
      <3>1. owner'[n] = IF state[n] = "PREPARED" THEN NoProc ELSE owner[n]
        BY <1>0, <1>7 DEF Transition, ClaimEnds, JTypeOK
      <3>2. state[n] # "PREPARED" => owner[n] = NoProc
        BY DEF RInv, JInv, OnlyPreparedOwned
      <3> QED BY <1>0, <3>1, <3>2
    <2> QED BY <1>2, <2>1, <2>2, <2>3 DEF HoldsClaim
  <1>8. ASSUME NEW q \in live, NEW n \in Op,
               MarkCommitted(q, n) \/ MarkNeedsReview(q, n) \/ MarkFailed(q, n)
        PROVE  Gate /\ Rows /\ Claims
    BY <1>7, <1>8 DEF MarkCommitted, MarkNeedsReview, MarkFailed, OperationStates
  <1>9. ASSUME NEW n \in Op, NEW to \in OperationStates, ClearNeedsReview(n, to)
        PROVE  Gate /\ Rows /\ Claims
    BY <1>7, <1>9 DEF ClearNeedsReview
  <1>10. ASSUME NEW q \in live, NEW n \in Op, phase[q] = "claiming", phase'[q] = "replaying",
                n = Head(pass[q].page).op, NEW a, ClaimAbandonedOperation(q, n, a)
         PROVE  Gate /\ Rows /\ Claims
    <2>1. UNCHANGED <<state, gateVars>> /\ owner' = [owner EXCEPT ![n] = q]
      BY <1>10 DEF ClaimAbandonedOperation
    <2>2. Claims
      BY <1>0, <1>10, <2>1 DEF HoldsClaim, JTypeOK
    <2> QED BY <1>2, <2>1, <2>2
  <1> QED BY <1>3, <1>4, <1>5, <1>6, <1>8, <1>9, <1>10 DEF JournalMove

\* What the walk remembers of its peers and of the operators only grows.
LEMMA Remembered ==
    ASSUME RInv, Remember, NEW p \in Proc, phase'[p] \in InPass
    PROVE  /\ requeued[p] \subseteq requeued'[p] /\ peers[p] \subseteq peers'[p]
           /\ \A o \in Op : state[o] = "NEEDS_REVIEW" /\ state'[o] = "PREPARED" => o \in requeued'[p]
           /\ \A o \in Op : HasASay(p, o) => o \in peers'[p]
  BY DEF Remember

\* A row that is PREPARED after a step is where it was, seen from the walk before it.
LEMMA StillCovered ==
    ASSUME RInv, JournalMove, Remember, NEW p \in Proc, phase[p] \in Walk, phase'[p] \in Walk,
           Covered(p), GateHeldBy(p)', ~pass[p].aborted, ~pass[p].blocked,
           NEW o \in Op, state'[o] = "PREPARED"
    PROVE  \/ o \in requeued'[p]
           \/ o > pass[p].cursor /\ ~pass[p].short
           \/ \E i \in DOMAIN pass[p].page : pass[p].page[i].op = o
           \/ o <= pass[p].cursor /\ o \in peers'[p] /\ owner'[o] # p
  <1>1. GateHeldBy(p) /\ state[o] \in {"PREPARED", "NEEDS_REVIEW"}
    BY BehindTheWalk
  <1>2. /\ requeued[p] \subseteq requeued'[p] /\ peers[p] \subseteq peers'[p]
        /\ state[o] = "NEEDS_REVIEW" => o \in requeued'[p]
    BY Remembered DEF InPass
  <1>3. ASSUME o \in peers[p], owner[o] # p, owner'[o] = p
        PROVE  \E i \in DOMAIN pass[p].page : pass[p].page[i].op = o
    <2>1. phase[p] = "claiming" /\ o = Head(pass[p].page).op
      BY <1>3, BehindTheWalk DEF HoldsClaim
    <2> QED BY <2>1, HeadRow DEF RInv, Shape
  <1> QED BY <1>1, <1>2, <1>3 DEF Covered

\* The page after a step is the one before it, possibly older, without its first k
\* rows.
Rest(p, k) ==
    \A i \in DOMAIN pass'[p].page :
        /\ i + k \in DOMAIN pass[p].page
        /\ pass'[p].page[i].op = pass[p].page[i + k].op
        /\ pass'[p].page[i].owner = pass[p].page[i + k].owner
        /\ pass'[p].page[i].attested = pass[p].page[i + k].attested
        /\ pass'[p].page[i].left > 0 => pass[p].page[i + k].left > 0

LEMMA ListedStep ==
    ASSUME RInv, RInv', JournalMove, Remember, NEW p \in Proc, phase[p] \in Walk, phase'[p] \in Walk,
           Listed(p), live' \subseteq live, pass'[p].cursor = pass[p].cursor,
           NEW k \in {0, 1}, Rest(p, k),
           k = 0 /\ phase[p] = "replaying" => phase'[p] = "replaying",
           k = 1 => phase'[p] = "walking",
           phase'[p] = "claiming" => Head(pass'[p].page).owner # p
    PROVE  Listed(p)'
  <1> DEFINE page == pass[p].page
             rest == pass'[p].page
  <1>0. /\ DOMAIN page \subseteq Nat /\ DOMAIN rest \subseteq Nat /\ k \in Nat
        /\ \A i \in DOMAIN page : page[i].op \in Op
        /\ \A i \in DOMAIN rest : rest[i].op \in Op
    <2>1. page \in Seq(PageRow) /\ rest \in Seq(PageRow)
      BY DEF RInv, RTypeOK, PassType
    <2>2. \A i \in DOMAIN page : page[i] \in PageRow
      BY <2>1
    <2>3. \A i \in DOMAIN rest : rest[i] \in PageRow
      BY <2>1
    <2> HIDE DEF page, rest
    <2>4. DOMAIN page = 1..Len(page) /\ DOMAIN rest = 1..Len(rest) /\ Len(page) \in Nat /\ Len(rest) \in Nat
      BY <2>1
    <2> QED BY <2>2, <2>3, <2>4 DEF PageRow
  <1>1. \A i \in DOMAIN rest :
           /\ i + k \in DOMAIN page /\ rest[i].op = page[i + k].op /\ rest[i].owner = page[i + k].owner
           /\ rest[i].attested = page[i + k].attested /\ (rest[i].left > 0 => page[i + k].left > 0)
    BY DEF Rest
  <1>2. peers[p] \subseteq peers'[p]
    BY Remembered DEF InPass
  <1>3. page # << >> => Head(page) = page[1] /\ 1 \in DOMAIN page
    BY HeadRow
  <1>4. /\ \A i \in DOMAIN page : page[i].attested # NoProc => page[i].attested \notin live
        /\ \A i, j \in DOMAIN page : i < j => page[i].op < page[j].op
        /\ \A i \in DOMAIN page : page[i].op <= pass[p].cursor
        /\ \A i \in DOMAIN page :
              page[i].left > 0 /\ page[i].owner \notin {p, NoProc} => page[i].op \in peers[p]
        /\ \A i \in DOMAIN page :
              HoldsClaim(p, page[i].op) => page[i].owner = p \/ (phase[p] = "replaying" /\ i = 1)
    BY DEF Listed
  <1>5. phase[p] = "claiming" => page # << >>
    BY DEF RInv, Shape
  <1> HIDE DEF page, rest
  <1>6. \A i, j \in DOMAIN rest : i < j => rest[i].op < rest[j].op
    BY <1>0, <1>1, <1>4
  <1>7. /\ \A i \in DOMAIN rest : rest[i].attested # NoProc => rest[i].attested \notin live'
        /\ \A i \in DOMAIN rest : rest[i].op <= pass[p].cursor
        /\ \A i \in DOMAIN rest :
              rest[i].left > 0 /\ rest[i].owner \notin {p, NoProc} => rest[i].op \in peers'[p]
    BY <1>1, <1>2, <1>4
  <1>8. ASSUME NEW i \in DOMAIN rest, state'[rest[i].op] = "PREPARED", owner'[rest[i].op] = p
        PROVE  rest[i].owner = p \/ (phase'[p] = "replaying" /\ i = 1)
    <2>1. rest[i].op \in Op /\ i + k \in DOMAIN page /\ i \in Nat /\ i # 0
      <3>1. rest \in Seq(PageRow)
        BY DEF RInv, RTypeOK, PassType, rest
      <3> QED BY <1>0, <1>1, <3>1
    <2>2. \/ HoldsClaim(p, page[i + k].op)
          \/ /\ phase[p] = "claiming" /\ phase'[p] = "replaying"
             /\ page[i + k].op = Head(page).op
      BY <1>1, <1>8, <2>1, BehindTheWalk DEF HoldsClaim, page
    <2>3. CASE HoldsClaim(p, page[i + k].op)
      <3>1. page[i + k].owner = p \/ (phase[p] = "replaying" /\ i + k = 1)
        BY <1>4, <2>1, <2>3
      <3>2. i + k = 1 => i = 1 /\ k = 0
        BY <2>1
      <3> QED BY <1>1, <3>1, <3>2
    <2>4. CASE phase[p] = "claiming" /\ phase'[p] = "replaying" /\ page[i + k].op = Head(page).op
      <3>1. Head(page) = page[1] /\ 1 \in DOMAIN page
        BY <1>3, <1>5, <2>4
      <3>2. k = 0
        BY <2>4
      <3>3. i = 1
        <4>1. i + k = i /\ page[i].op = page[1].op /\ i \in DOMAIN page
          BY <2>1, <2>4, <3>1, <3>2
        <4>2. ~(1 < i) \/ page[1].op < page[i].op
          BY <1>4, <3>1, <4>1
        <4>3. page[1].op \in Nat
          BY <1>0, <3>1, JournalAssumption DEF Op
        <4> QED BY <2>1, <4>1, <4>2, <4>3
      <3> QED BY <2>4, <3>3
    <2> QED BY <2>2, <2>3, <2>4
  <1> QED BY <1>6, <1>7, <1>8 DEF Listed, HoldsClaim, rest

\* The walk stays on its page.
LEMMA SamePage ==
    ASSUME RInv, RInv', JournalMove, Remember, NEW p \in Proc, phase[p] \in Walk, phase'[p] \in Walk,
           Listed(p), Covered(p), live' \subseteq live, Rest(p, 0),
           DOMAIN pass'[p].page = DOMAIN pass[p].page,
           pass'[p].cursor = pass[p].cursor, pass'[p].short = pass[p].short,
           pass'[p].aborted = pass[p].aborted, pass'[p].blocked = pass[p].blocked,
           phase[p] = "replaying" => phase'[p] = "replaying",
           phase'[p] = "claiming" => Head(pass'[p].page).owner # p
    PROVE  Listed(p)' /\ Covered(p)'
  <1>1. Listed(p)'
    BY ListedStep
  <1>2. ASSUME GateHeldBy(p)', ~pass[p].aborted, ~pass[p].blocked, NEW o \in Op, state'[o] = "PREPARED"
        PROVE  \/ o \in requeued'[p]
               \/ o > pass[p].cursor /\ ~pass[p].short
               \/ \E i \in DOMAIN pass'[p].page : pass'[p].page[i].op = o
               \/ o <= pass[p].cursor /\ o \in peers'[p] /\ owner'[o] # p
    <2>1. \A i \in DOMAIN pass[p].page : i + 0 = i
      BY PassTypes
    <2>2. \A i \in DOMAIN pass[p].page : pass'[p].page[i].op = pass[p].page[i].op
      BY <2>1 DEF Rest
    <2> QED BY <1>2, <2>2, StillCovered
  <1> QED BY <1>1, <1>2 DEF Covered, GateHeldBy

\* The walk has done with the first row of its page: the row is resolved, or a peer
\* had a say in it, or the pass cannot end in a ready verdict.
LEMMA RowDone ==
    ASSUME RInv, RInv', JournalMove, Remember, NEW p \in Proc, phase[p] \in Walk, phase'[p] = "walking",
           Listed(p), Covered(p), live' \subseteq live,
           pass[p].page # << >>, pass'[p].page = Tail(pass[p].page),
           pass'[p].cursor = pass[p].cursor, pass'[p].short = pass[p].short,
           ~pass'[p].aborted => ~pass[p].aborted, ~pass'[p].blocked => ~pass[p].blocked,
           \/ pass'[p].aborted \/ pass'[p].blocked
           \/ LET h == Head(pass[p].page).op IN
              state'[h] = "PREPARED" => h \in peers'[p] /\ owner'[h] # p
    PROVE  Listed(p)' /\ Covered(p)'
  <1>1. /\ \A i \in DOMAIN Tail(pass[p].page) :
              i + 1 \in DOMAIN pass[p].page /\ Tail(pass[p].page)[i] = pass[p].page[i + 1]
        /\ \A i \in DOMAIN pass[p].page :
              i # 1 => i - 1 \in DOMAIN Tail(pass[p].page) /\ Tail(pass[p].page)[i - 1] = pass[p].page[i]
    BY RestOfPage
  <1>2. Rest(p, 1)
    BY <1>1 DEF Rest
  <1>3. Listed(p)'
    BY <1>2, ListedStep DEF Walk
  <1>4. ASSUME GateHeldBy(p)', ~pass'[p].aborted, ~pass'[p].blocked, NEW o \in Op, state'[o] = "PREPARED"
        PROVE  \/ o \in requeued'[p]
               \/ o > pass[p].cursor /\ ~pass[p].short
               \/ \E i \in DOMAIN pass'[p].page : pass'[p].page[i].op = o
               \/ o <= pass[p].cursor /\ o \in peers'[p] /\ owner'[o] # p
    <2>1. ASSUME NEW i \in DOMAIN pass[p].page, pass[p].page[i].op = o
          PROVE  \/ \E j \in DOMAIN pass'[p].page : pass'[p].page[j].op = o
                 \/ o <= pass[p].cursor /\ o \in peers'[p] /\ owner'[o] # p
      <3>1. CASE i # 1
        <4>1. i - 1 \in DOMAIN pass'[p].page /\ pass'[p].page[i - 1].op = o
          BY <1>1, <2>1, <3>1
        <4> QED BY <4>1
      <3>2. CASE i = 1
        BY <1>4, <2>1, <3>2, HeadRow DEF Listed
      <3> QED BY <3>1, <3>2
    <2> QED BY <1>4, <2>1, StillCovered DEF Walk
  <1> QED BY <1>3, <1>4 DEF Covered, GateHeldBy

\* The next page holds every row behind the cursor, or the walk has more to read.
LEMMA PageRead ==
    ASSUME RInv, Attested, JournalMove, Remember, NEW p \in Proc, Covered(p), ReadPage(p)
    PROVE  Listed(p)' /\ Covered(p)'
  <1>1. PICK ops \in Pages(BehindCursor(p), PageSize) :
            /\ pass'[p].page = [i \in DOMAIN ops |-> Seen(ops[i])]
            /\ pass'[p].cursor = IF ops = << >> THEN pass[p].cursor ELSE ops[Len(ops)]
            /\ pass'[p].short = (Len(ops) < PageSize)
    BY ReadPagePass
  <1>2. /\ phase[p] = "walking" /\ phase'[p] = "walking" /\ UNCHANGED jvars
        /\ pass[p].page = << >> /\ ~pass[p].short /\ ~pass[p].aborted
        /\ pass'[p].blocked = pass[p].blocked
    BY ReadPagePass DEF ReadPage
  <1>3. PICK k \in 0..PageSize : ops \in [1..k -> BehindCursor(p)]
    BY <1>1 DEF Pages
  <1>4. /\ \A i, j \in DOMAIN ops : i < j => ops[i] < ops[j]
        /\ \A o \in BehindCursor(p) :
              (\E i \in DOMAIN ops : ops[i] = o) \/ (Len(ops) = PageSize /\ o > ops[PageSize])
    BY <1>1 DEF Pages
  <1>5. Len(ops) = k /\ DOMAIN ops = 1..k /\ k \in Nat /\ PageSize \in Nat \ {0}
    BY <1>3, RecoveryAssumption
  <1>6. \A i \in 1..k : /\ ops[i] \in Op /\ ops[i] \in Nat /\ ops[i] > pass[p].cursor
                        /\ state[ops[i]] = "PREPARED"
    BY <1>3, JournalAssumption DEF BehindCursor, Op
  <1>7. pass[p].cursor \in Nat
    BY PassTypes, JournalAssumption
  <1>8. pass[p].cursor <= pass'[p].cursor /\ \A i \in 1..k : ops[i] <= pass'[p].cursor
    <2>1. CASE k = 0
      BY <1>1, <1>3, <1>5, <1>7, <2>1
    <2>2. CASE k # 0
      <3>1. pass'[p].cursor = ops[k] /\ k \in 1..k
        BY <1>1, <1>5, <2>2
      <3>2. \A i \in 1..k : i = k \/ i < k
        BY <1>5
      <3>3. ASSUME NEW i \in 1..k
            PROVE  ops[i] <= ops[k]
        <4>1. i = k \/ ops[i] < ops[k]
          BY <1>4, <1>5, <3>1, <3>2
        <4>2. ops[i] \in Nat /\ ops[k] \in Nat
          BY <1>6, <3>1
        <4> QED BY <4>1, <4>2
      <3>4. ops[k] \in Nat /\ ops[k] > pass[p].cursor
        BY <1>6, <3>1
      <3>5. pass[p].cursor <= ops[k]
        BY <1>7, <3>4
      <3> QED BY <3>1, <3>3, <3>5
    <2> QED BY <2>1, <2>2
  <1>9. DOMAIN pass'[p].page = 1..k /\ \A i \in 1..k : pass'[p].page[i] = Seen(ops[i])
    BY <1>1, <1>5
  <1>10. \A i \in 1..k : /\ pass'[p].page[i].op = ops[i] /\ pass'[p].page[i].owner = owner[ops[i]]
                         /\ pass'[p].page[i].left = lease[ops[i]]
                         /\ pass'[p].page[i].attested = attested[ops[i]]
    <2>1. \A o : /\ Seen(o).op = o /\ Seen(o).owner = owner[o]
                /\ Seen(o).left = lease[o] /\ Seen(o).attested = attested[o]
      BY DEF Seen
    <2> QED BY <1>9, <2>1
  <1>11. UNCHANGED <<state, owner, lease, attested, gateHolder, gateLeft, live>>
    BY <1>2 DEF jvars, rowVars, gateVars
  <1>12. \A i \in 1..k : lease[ops[i]] > 0 /\ owner[ops[i]] \notin {p, NoProc} => ops[i] \in peers'[p]
    BY <1>2, <1>6, <1>11, Remembered DEF HasASay, InPass, Walk
  <1>13. Listed(p)'
    <2>1. \A i \in 1..k : attested[ops[i]] # NoProc => attested[ops[i]] \notin live'
      BY <1>6, <1>11 DEF Attested
    <2>2. \A i, j \in 1..k : i < j => ops[i] < ops[j]
      BY <1>4, <1>5
    <2> QED BY <1>2, <1>8, <1>9, <1>10, <1>11, <1>12, <2>1, <2>2 DEF Listed, HoldsClaim
  <1>14. ASSUME GateHeldBy(p)', ~pass'[p].blocked, NEW o \in Op, state'[o] = "PREPARED"
         PROVE  \/ o \in requeued'[p]
                \/ o > pass'[p].cursor /\ ~pass'[p].short
                \/ \E i \in DOMAIN pass'[p].page : pass'[p].page[i].op = o
                \/ o <= pass'[p].cursor /\ o \in peers'[p] /\ owner'[o] # p
    <2>0. o \in Nat /\ pass'[p].cursor \in Nat
      <3>1. k = 0 \/ k \in 1..k
        BY <1>5
      <3> QED BY <1>1, <1>3, <1>5, <1>6, <1>7, <3>1, JournalAssumption DEF Op
    <2>1. \/ o \in requeued'[p]
          \/ o > pass[p].cursor
          \/ o <= pass[p].cursor /\ o \in peers'[p] /\ owner'[o] # p
      BY <1>2, <1>14, StillCovered DEF Walk
    <2>2. CASE o > pass[p].cursor
      <3>1. o \in BehindCursor(p)
        BY <1>11, <1>14, <2>2 DEF BehindCursor
      <3>2. CASE \E i \in DOMAIN ops : ops[i] = o
        BY <1>5, <1>9, <1>10, <3>2
      <3>3. CASE Len(ops) = PageSize /\ o > ops[PageSize]
        <4>1. pass'[p].cursor = ops[PageSize] /\ ~pass'[p].short
          <5>1. ops # << >>
            BY <1>5, <3>3
          <5>2. pass'[p].cursor = ops[PageSize]
            BY <1>1, <3>3, <5>1
          <5>3. (Len(ops) < PageSize) = FALSE
            BY <1>5, <3>3
          <5> QED BY <1>1, <5>2, <5>3
        <4> QED BY <3>3, <4>1
      <3> QED BY <1>4, <3>1, <3>2, <3>3
    <2>3. CASE o <= pass[p].cursor /\ o \in peers'[p] /\ owner'[o] # p
      BY <1>7, <1>8, <2>0, <2>3
    <2> QED BY <2>1, <2>2, <2>3
  <1> QED BY <1>13, <1>14 DEF Covered, GateHeldBy

\* What the walk does with a row.
LEMMA RowVisited ==
    ASSUME RInv, RInv', JournalMove, Remember, NEW p \in Proc, p \in live, phase'[p] \in Walk,
           Listed(p), Covered(p), live' \subseteq live, VisitRow(p)
    PROVE  Listed(p)' /\ Covered(p)'
  <1> DEFINE r == Head(pass[p].page)
  <1>1. /\ phase[p] = "walking" /\ phase[p] \in Walk /\ pass[p].page # << >> /\ UNCHANGED jvars
        /\ phase \in [Proc -> Phases] /\ pass \in [Proc -> PassType]
    BY DEF VisitRow, Walk, RInv, RTypeOK
  <1>2. r = pass[p].page[1] /\ 1 \in DOMAIN pass[p].page /\ r.op \in Op /\ r \in PageRow
    BY <1>1, HeadRow
  <1>3. UNCHANGED <<state, owner>> /\ peers[p] \subseteq peers'[p]
    BY <1>1, Remembered DEF jvars, rowVars, InPass
  <1>4. ~HoldsClaim(p, r.op) \/ r.owner = p
    BY <1>1, <1>2 DEF Listed
  <1>5. CASE UNCHANGED phase /\ pass' = [pass EXCEPT ![p].page = << >>, ![p].aborted = TRUE]
    <2>1. pass'[p] = [pass[p] EXCEPT !.page = << >>, !.aborted = TRUE]
      BY <1>1, <1>5
    <2>2. pass'[p].page = << >> /\ pass'[p].aborted
      BY <2>1, PassTypes DEF PassType
    <2>3. DOMAIN pass'[p].page = {}
      BY <2>2
    <2>4. Listed(p)'
      BY <1>1, <1>5, <2>3 DEF Listed
    <2> QED BY <2>2, <2>4 DEF Covered
  <1>6. ASSUME NEW block \in BOOLEAN, Passed(p, block),
               ~block /\ state'[r.op] = "PREPARED" => r.op \in peers'[p] /\ owner'[r.op] # p
        PROVE  Listed(p)' /\ Covered(p)'
    <2>1. /\ phase' = [phase EXCEPT ![p] = "walking"] /\ pass'[p].page = Tail(pass[p].page) /\ Keeps(p)
          /\ pass'[p].blocked = (pass[p].blocked \/ block) /\ pass'[p].aborted = pass[p].aborted
      BY <1>1, <1>6, PassedPass
    <2>2. pass[p].blocked \in BOOLEAN
      BY PassTypes
    <2>3. pass'[p].blocked \/ (state'[r.op] = "PREPARED" => r.op \in peers'[p] /\ owner'[r.op] # p)
      BY <1>6, <2>1, <2>2
    <2> QED BY <1>1, <2>1, <2>2, <2>3, RowDone DEF Keeps
  <1>7. CASE ~(UNCHANGED phase /\ pass' = [pass EXCEPT ![p].page = << >>, ![p].aborted = TRUE])
    <2>1. PICK a \in PidAnswers(live, r.owner) :
            LET c == ClassifyOwnership(p, r.owner, r.left, r.attested, a) IN
            \/ c = "LIVE_OWNER" /\ Passed(p, OwnResidue(p, r))
            \/ c = "OWNER_UNKNOWN" /\ Passed(p, TRUE)
            \/ /\ c = "ABANDONED"
               /\ IF req[r.op].kind \in Handled THEN Goes(p, "claiming") /\ UNCHANGED pass
                                                ELSE Passed(p, TRUE)
      BY <1>7 DEF VisitRow
    <2>2. CASE Passed(p, TRUE)
      BY <1>6, <2>2
    <2>3. CASE /\ ClassifyOwnership(p, r.owner, r.left, r.attested, a) = "LIVE_OWNER"
               /\ Passed(p, OwnResidue(p, r))
      <3>1. r.owner # NoProc /\ r.left > 0
        BY <2>3 DEF ClassifyOwnership
      <3>2. r.owner # p => r.op \in peers[p] /\ ~HoldsClaim(p, r.op)
        BY <1>2, <1>4, <3>1 DEF Listed
      <3>3. ~OwnResidue(p, r) /\ state'[r.op] = "PREPARED" => r.op \in peers'[p] /\ owner'[r.op] # p
        BY <1>3, <3>2 DEF OwnResidue, HoldsClaim
      <3>4. OwnResidue(p, r) \in BOOLEAN
        BY DEF OwnResidue
      <3> HIDE DEF r
      <3> QED BY <1>6, <2>3, <3>3, <3>4
    <2>4. CASE /\ ClassifyOwnership(p, r.owner, r.left, r.attested, a) = "ABANDONED"
               /\ Goes(p, "claiming") /\ UNCHANGED pass
      <3>1. r.owner # NoProc /\ (r.attested = r.owner \/ ProvenDead(p, r.owner, a))
        BY <2>4 DEF ClassifyOwnership
      <3>2. r.owner # p
        BY <1>2, <2>1, <3>1 DEF ProvenDead, PidAnswers, Listed
      <3>3. /\ phase'[p] = "claiming" /\ pass'[p] = pass[p]
            /\ \A i \in DOMAIN pass[p].page : i + 0 = i
        BY <1>1, <2>4, PassTypes DEF Goes
      <3>4. Rest(p, 0)
        BY <3>3 DEF Rest
      <3> QED BY <1>1, <3>2, <3>3, <3>4, SamePage DEF Walk
    <2> QED BY <2>1, <2>2, <2>3, <2>4
  <1> QED BY <1>5, <1>7

\* A claim that is refused leaves the row to whoever has it.
LEMMA RowClaimed ==
    ASSUME RInv, RInv', JournalMove, Remember, NEW p \in Proc, phase'[p] \in Walk,
           Listed(p), Covered(p), live' \subseteq live, ClaimRow(p)
    PROVE  Listed(p)' /\ Covered(p)'
  <1> DEFINE o == Head(pass[p].page).op
  <1>1. /\ phase[p] = "claiming" /\ phase[p] \in Walk /\ pass[p].page # << >>
        /\ phase \in [Proc -> Phases]
    BY DEF ClaimRow, Walk, RInv, RTypeOK, Shape
  <1>2. Head(pass[p].page) = pass[p].page[1] /\ 1 \in DOMAIN pass[p].page /\ o \in Op
    BY <1>1, HeadRow
  <1>3. CASE Goes(p, "replaying") /\ UNCHANGED pass
    <2>1. /\ phase'[p] = "replaying" /\ pass'[p] = pass[p]
          /\ \A i \in DOMAIN pass[p].page : i + 0 = i
      BY <1>1, <1>3, PassTypes DEF Goes
    <2>2. Rest(p, 0)
      BY <2>1 DEF Rest
    <2> QED BY <1>1, <2>1, <2>2, SamePage
  <1>4. CASE Passed(p, FALSE) /\ UNCHANGED jvars
    <2>1. /\ phase' = [phase EXCEPT ![p] = "walking"] /\ pass'[p].page = Tail(pass[p].page) /\ Keeps(p)
          /\ pass'[p].blocked = (pass[p].blocked \/ FALSE) /\ pass'[p].aborted = pass[p].aborted
      BY <1>1, <1>4, PassedPass
    <2>2. ~HoldsClaim(p, o)
      BY <1>1, <1>2 DEF Listed
    <2>3. phase'[p] = "walking" /\ UNCHANGED <<state, owner>>
      BY <1>1, <1>4, <2>1 DEF jvars, rowVars
    <2>4. state'[o] = "PREPARED" => o \in peers'[p] /\ owner'[o] # p
      BY <1>1, <1>2, <2>2, <2>3, Remembered DEF HasASay, HoldsClaim, InPass
    <2>5. pass[p].blocked \in BOOLEAN
      BY PassTypes
    <2> QED BY <1>1, <2>1, <2>3, <2>4, <2>5, RowDone DEF Keeps
  <1> QED BY <1>3, <1>4 DEF ClaimRow

\* A replay ends with the mark of a row that is still ours, or blocks the verdict.
LEMMA RowReplayed ==
    ASSUME RInv, RInv', JournalMove, Remember, NEW p \in Proc, p \in live, Alone(p),
           Listed(p), Covered(p), live' \subseteq live, EndReplay(p)
    PROVE  Listed(p)' /\ Covered(p)'
  <1> DEFINE o == Head(pass[p].page).op
  <1>1. /\ phase[p] = "replaying" /\ phase[p] \in Walk /\ pass[p].page # << >>
        /\ phase \in [Proc -> Phases]
    BY DEF EndReplay, Walk, RInv, RTypeOK, Shape
  <1>2. o \in Op /\ CanTransition(o, {"PREPARED"}, p)
    BY <1>1, HeadRow DEF Alone, HoldsClaim, CanTransition
  <1>3. pass[p].blocked \in BOOLEAN
    BY PassTypes
  <1>4. ASSUME NEW to \in {"COMMITTED", "FAILED", "NEEDS_REVIEW"}, Transition(o, to, {"PREPARED"}, p)
        PROVE  state'[o] # "PREPARED"
    BY <1>2, <1>4 DEF Transition, RInv, JInv, JTypeOK
  <1>5. ASSUME NEW block \in BOOLEAN, Passed(p, block), block \/ state'[o] # "PREPARED"
        PROVE  Listed(p)' /\ Covered(p)'
    <2>1. /\ phase' = [phase EXCEPT ![p] = "walking"] /\ pass'[p].page = Tail(pass[p].page) /\ Keeps(p)
          /\ pass'[p].blocked = (pass[p].blocked \/ block) /\ pass'[p].aborted = pass[p].aborted
      BY <1>1, <1>5, PassedPass
    <2> QED BY <1>1, <1>3, <1>5, <2>1, RowDone DEF Keeps
  <1>6. ASSUME Quarantined(p), state'[o] # "PREPARED"
        PROVE  Listed(p)' /\ Covered(p)'
    <2>1. /\ phase' = [phase EXCEPT ![p] = "walking"] /\ Keeps(p)
          /\ pass'[p].page \in {Tail(pass[p].page), << >>}
          /\ pass'[p].aborted => pass'[p].page = << >>
          /\ ~pass'[p].aborted => pass'[p].page = Tail(pass[p].page)
          /\ pass'[p].blocked = pass[p].blocked
      BY <1>1, <1>6, QuarantinedPass
    <2>2. ~pass[p].aborted /\ phase'[p] = "walking"
      BY <1>1, <2>1 DEF RInv, Shape
    <2>3. CASE pass'[p].aborted
      <3>1. DOMAIN pass'[p].page = {}
        BY <2>1, <2>3
      <3> QED BY <2>2, <2>3, <3>1 DEF Listed, Covered
    <2>4. CASE ~pass'[p].aborted
      BY <1>1, <1>6, <2>1, <2>2, <2>4, RowDone DEF Keeps
    <2> QED BY <2>3, <2>4
  <1>7. \/ MarkCommitted(p, o) /\ Passed(p, FALSE)
        \/ MarkFailed(p, o) /\ Passed(p, FALSE)
        \/ MarkNeedsReview(p, o) /\ Quarantined(p)
        \/ Passed(p, TRUE)
    BY <1>2 DEF EndReplay
  <1> QED BY <1>4, <1>5, <1>6, <1>7 DEF MarkCommitted, MarkFailed, MarkNeedsReview

LEMMA WalkStep ==
    ASSUME ~OperatorErrs, RInv, AInv, WInv, RNext, NEW p \in Proc, phase'[p] \in Walk
    PROVE  Listed(p)' /\ Covered(p)'
  <1>0. RInv' /\ JournalMove /\ Remember /\ live' \subseteq live /\ live \subseteq Proc
    BY RInvStep, StepMoves, MoveKeeps DEF RNext, RInv, JInv, JTypeOK
  <1>1. phase \in [Proc -> Phases] /\ pass \in [Proc -> PassType]
    BY DEF RInv, RTypeOK
  <1>2. \A i \in DOMAIN pass[p].page : i + 0 = i
    BY PassTypes
  <1>3. phase[p] \in Walk => /\ Listed(p) /\ Covered(p)
                             /\ phase[p] = "claiming" => Head(pass[p].page).owner # p
    BY DEF WInv, Listed
  <1>4. CASE Same(p)
    <2>1. Rest(p, 0)
      BY <1>2, <1>4 DEF Rest, Same
    <2> QED BY <1>0, <1>3, <1>4, <2>1, SamePage DEF Same
  <1>5. CASE Tick
    <2>1. pass'[p] = [pass[p] EXCEPT !.page = Aged(pass[p].page)] /\ phase'[p] = phase[p]
      BY <1>5 DEF Tick
    <2>2. /\ pass'[p].page = Aged(pass[p].page) /\ pass'[p].cursor = pass[p].cursor
          /\ pass'[p].short = pass[p].short /\ pass'[p].aborted = pass[p].aborted
          /\ pass'[p].blocked = pass[p].blocked
      BY <2>1, PassTypes DEF PassType
    <2>3. pass[p].page \in Seq(PageRow)
      BY PassTypes
    <2>4. Rest(p, 0) /\ DOMAIN pass'[p].page = DOMAIN pass[p].page
      BY <1>2, <2>2, <2>3, AgedPage DEF Rest
    <2>5. phase[p] = "claiming" => Head(pass'[p].page).owner # p
      <3>1. phase[p] = "claiming" => pass[p].page # << >> /\ phase[p] \in Walk
        BY DEF RInv, Shape, Walk
      <3> QED BY <1>3, <2>2, <2>3, <3>1, AgedPage
    <2> QED BY <1>0, <1>3, <2>1, <2>2, <2>4, <2>5, SamePage
  <1>6. ASSUME p \in live, Moves(p)
        PROVE  Listed(p)' /\ Covered(p)'
    <2>1. ~(Begin(p) \/ PollGate(p) \/ FinalVerdict(p) \/ PassRaises(p) \/ LeaveGate(p) \/ Dies(p))
      <3>1. LeaveGate(p) => verdict[p] \in {"ready", "refuse", "raised"}
        BY DEF LeaveGate, RInv, RTypeOK, Shape
      <3> QED BY <1>1, <3>1 DEF Begin, PollGate, FinalVerdict, PassRaises, LeaveGate, Dies, Goes, Leaves, Walk
    <2>2. CASE Preflight(p)
      <3>1. pass'[p] = NewPass /\ phase'[p] = "walking"
        BY <1>1, <2>2 DEF Preflight, Goes, Leaves, Walk
      <3>2. DOMAIN pass'[p].page = {} /\ pass'[p].cursor = 0 /\ ~pass'[p].short
        BY <3>1 DEF NewPass
      <3>3. \A o \in Op : o > 0
        BY JournalAssumption DEF Op
      <3> QED BY <3>1, <3>2, <3>3 DEF Listed, Covered
    <2>3. CASE ReadPage(p)
      BY <1>0, <1>3, <2>3, PageRead DEF AInv, ReadPage, Walk
    <2>4. CASE VisitRow(p)
      BY <1>0, <1>3, <1>6, <2>4, RowVisited DEF VisitRow, Walk
    <2>5. CASE ClaimRow(p)
      BY <1>0, <1>3, <2>5, RowClaimed DEF ClaimRow, Walk
    <2>6. CASE EndReplay(p)
      BY <1>0, <1>3, <1>6, <2>6, RowReplayed DEF EndReplay, Walk, AInv
    <2>7. CASE GateBeat(p)
      <3>1. /\ phase'[p] = phase[p] /\ pass'[p].page = pass[p].page
            /\ pass'[p].cursor = pass[p].cursor /\ pass'[p].short = pass[p].short
            /\ pass'[p].aborted = pass[p].aborted /\ pass'[p].blocked = pass[p].blocked
        BY <1>1, <2>7 DEF GateBeat, PassType
      <3>2. Rest(p, 0)
        BY <1>2, <3>1 DEF Rest
      <3> QED BY <1>0, <1>3, <3>1, <3>2, SamePage
    <2> QED BY <1>6, <2>1, <2>2, <2>3, <2>4, <2>5, <2>6, <2>7 DEF Moves
  <1> QED BY <1>4, <1>5, <1>6, WhoMoves DEF RNext

\* An instance becomes write-ready only over a drained backlog, whatever its peers,
\* the pages, lapses of the gate or earlier starts did: each row that is PREPARED at
\* that moment was requeued by an operator meanwhile, or was passed by this walk for
\* another process that had a say in it.  Operators are trusted not to attest the
\* death of a running process, as attest_owner_death itself does.
THEOREM ReadyOverDrained ==
    ASSUME ~OperatorErrs
    PROVE  RSpec => ReadyMeansDrained
  <1> DEFINE Admits == \A p \in Proc : verdict'[p] = "ready" /\ verdict[p] # "ready" => Drained(p)
  <1>1. RInit => RInv /\ AInv /\ WInv
    <2>1. RInit => \A p \in Proc : phase[p] \notin Walk
      BY DEF RInit, Walk
    <2> QED BY <2>1, RInvInit, AInvInit DEF WInv
  <1>2. RInv /\ AInv /\ WInv /\ [RNext]_rvars => (RInv /\ AInv /\ WInv)'
    <2>1. CASE UNCHANGED rvars
      BY <2>1, RInvStep DEF rvars, startVars, jvars, rowVars, gateVars, AInv, Attested, Alone, HoldsClaim,
                            WInv, Listed, Covered, GateHeldBy
    <2>2. CASE RNext
      BY <2>2, RInvStep, AInvStep, WalkStep DEF WInv
    <2> QED BY <2>1, <2>2
  <1>3. RInv /\ WInv /\ [RNext]_rvars => [Admits]_rvars
    <2> SUFFICES ASSUME RInv, WInv, RNext, NEW p \in Proc, verdict'[p] = "ready", verdict[p] # "ready"
                 PROVE  Drained(p)
      OBVIOUS
    <2>1. FinalVerdict(p)
      BY WhoMoves DEF RNext, Same, Tick, Moves, Begin, PollGate, Preflight, PassRaises, LeaveGate, Dies,
                      ReadPage, VisitRow, ClaimRow, EndReplay, GateBeat, Leaves, RInv, RTypeOK
    <2>2. /\ phase[p] = "walking" /\ pass[p].page = << >> /\ (pass[p].short \/ pass[p].aborted)
          /\ ~pass[p].aborted /\ ~pass[p].blocked /\ GateHeldBy(p)
      BY <2>1 DEF FinalVerdict, Leaves, RInv, RTypeOK
    <2>3. Covered(p) /\ DOMAIN pass[p].page = {}
      BY <2>2 DEF WInv, Walk
    <2> QED BY <2>2, <2>3 DEF Covered, Drained
  <1> QED BY <1>1, <1>2, <1>3, PTL DEF RSpec, ReadyMeansDrained
===============================================================================
