-------------------------- MODULE ViewPromotionProofs --------------------------
(***************************************************************************)
(* What the view can answer from, proved for every number of promoters,    *)
(* sweepers, promotions, batches and every lease.                          *)
(*                                                                         *)
(* The argument of view_root.py made exact.  A COMPLETE root is whole and  *)
(* nobody writes to it; only a promoter that holds it completes or         *)
(* publishes it; content is deleted only from a retired root, and retiring *)
(* is refused for a root that a pointer names.  Of the lease only the      *)
(* checks inside the statements are used.                                  *)
(***************************************************************************)
EXTENDS ViewPromotion, FiniteSetTheorems, SequenceTheorems, TLAPS

Building == {"writing", "renewing", "completing"}
Built == {"reading", "publishing", "verifying", "restoring", "degrading"}
Flipped == {"verifying", "restoring", "degrading"}

\* Generations need no bound here.
JobsOfNat == [step : PromoterSteps, want : Snapshot \cup {NoSnapshot},
              mine : Root \cup {NoRoot}, at : Batch, expected : Nat,
              before : Root \cup {NoRoot}]

TypeInv ==
    /\ rstate \in [Root -> RootStates]
    /\ nodes \in [Root -> SUBSET Batch]
    /\ cur \in Root \cup {NoRoot} /\ prev \in Root \cup {NoRoot}
    /\ gen \in Nat
    /\ degraded \in BOOLEAN
    /\ job \in [Promoter -> JobsOfNat]
    /\ spc \in [Sweeper -> SweeperSteps]
    /\ row \in [Sweeper -> Root \cup {NoRoot}]
    /\ condemned \in SUBSET Root

\* A root is COMPLETE only when everything its builder wrote is there.
CompleteWhole == \A r \in Root : rstate[r] = "COMPLETE" => nodes[r] = Batch

\* What a builder has written so far, unless its root was retired under it.
Written(p) ==
    CASE job[p].step = "writing" -> 1..(job[p].at - 1)
      [] job[p].step = "renewing" -> 1..job[p].at
      [] OTHER -> Batch

BuilderInv ==
    \A p \in Promoter : job[p].step \in Building =>
        /\ job[p].mine \in Root
        /\ rstate[job[p].mine] \in {"BUILDING", "ABANDONED"}
        /\ rstate[job[p].mine] = "BUILDING" => nodes[job[p].mine] = Written(p)

\* A root has one builder.
OneBuilder ==
    \A p, q \in Promoter : /\ p # q
                           /\ job[p].step \in Building /\ job[q].step \in Building
                           => job[p].mine # job[q].mine

HolderInv ==
    \A p \in Promoter : job[p].step \in Built =>
        job[p].mine \in Root /\ rstate[job[p].mine] \in {"COMPLETE", "ABANDONED"}

\* A call starts from the first batch.
StartInv == \A p \in Promoter : job[p].step \in {"idle", "beginning"} => job[p].at = 1

\* An ABSENT root has no content.
AbsentEmpty == \A r \in Root : rstate[r] = "ABSENT" => nodes[r] = {}

SweepInv ==
    \A s \in Sweeper : /\ spc[s] \in {"retiring", "purging"} => row[s] \in Root
                       /\ spc[s] = "purging" => rstate[row[s]] = "ABANDONED"

PointerInv == \A r \in {cur, prev} \ {NoRoot} : rstate[r] = "COMPLETE"

\* The generation a promoter published identifies its flip.
FlipInv ==
    \A p \in Promoter : job[p].step \in Flipped =>
        /\ gen >= job[p].expected + 1
        /\ gen = job[p].expected + 1 => cur = job[p].mine /\ prev = job[p].before

CondemnedInv == \A r \in condemned : r \in {cur, prev} => degraded

RootInv == /\ TypeInv /\ CompleteWhole /\ BuilderInv /\ OneBuilder /\ HolderInv /\ StartInv
           /\ AbsentEmpty /\ SweepInv /\ PointerInv

\* Everything the view's properties rest on.
IInv == RootInv /\ UndoIsAnother /\ FlipInv /\ CondemnedInv

-------------------------------------------------------------------------------
(* A promoter's call is one record of a function.                          *)

LEMMA IdleJob == Idle \in JobsOfNat
<1>1. 1 \in Batch  BY PromotionAssumption DEF Batch
<1> QED  BY <1>1 DEF Idle, JobsOfNat, PromoterSteps, NoRoot

\* A step of promoter p leaves every other call alone.
LEMMA Ended ==
    ASSUME job \in [Promoter -> JobsOfNat], NEW p \in Promoter, Ends(p)
    PROVE  /\ job' \in [Promoter -> JobsOfNat]
           /\ job'[p].step = "idle" /\ job'[p].at = 1
           /\ \A q \in Promoter : q # p => job'[q] = job[q]
<1>1. job' = [job EXCEPT ![p] = Idle]  BY DEF Ends
<1>2. job'[p] = Idle  BY <1>1
<1>3. Idle.step = "idle" /\ Idle.at = 1  BY DEF Idle
<1> QED  BY <1>1, <1>2, <1>3, IdleJob

LEMMA Went ==
    ASSUME job \in [Promoter -> JobsOfNat], NEW p \in Promoter, NEW t \in PromoterSteps,
           Goes(p, t)
    PROVE  /\ job' \in [Promoter -> JobsOfNat]
           /\ job'[p] = [job[p] EXCEPT !.step = t]
           /\ job'[p].step = t /\ job'[p].mine = job[p].mine /\ job'[p].at = job[p].at
           /\ job'[p].expected = job[p].expected /\ job'[p].before = job[p].before
           /\ \A q \in Promoter : q # p => job'[q] = job[q]
BY DEF Goes, JobsOfNat

LEMMA InitInv == Init => IInv
<1> SUFFICES ASSUME Init PROVE IInv  OBVIOUS
<1> USE DEF Init
<1>1. TypeInv
  <2>1. job \in [Promoter -> JobsOfNat]  BY IdleJob
  <2> QED  BY <2>1 DEF TypeInv, JobsOfNat, RootStates, SweeperSteps, NoRoot
<1>2. \A p \in Promoter : job[p].step = "idle"  BY DEF Idle
<1>3. CompleteWhole /\ AbsentEmpty  BY DEF CompleteWhole, AbsentEmpty
<1>4. BuilderInv /\ OneBuilder /\ HolderInv /\ StartInv /\ FlipInv
  BY <1>2 DEF Idle, StartInv, BuilderInv, OneBuilder, HolderInv, FlipInv, Building, Built, Flipped
<1>5. SweepInv /\ PointerInv  BY DEF SweepInv, PointerInv, NoRoot
<1>6. UndoIsAnother /\ CondemnedInv  BY DEF UndoIsAnother, CondemnedInv
<1> QED  BY <1>1, <1>3, <1>4, <1>5, <1>6 DEF IInv, RootInv

-------------------------------------------------------------------------------
(* What each step keeps.                                                   *)

\* The invariants that speak of the roots alone survive a step that leaves the
\* roots, the pointers and the sweepers alone.
LEMMA RootsAlone ==
    ASSUME RootInv, UNCHANGED <<rootVars, sweepVars>>
    PROVE  /\ CompleteWhole' /\ AbsentEmpty' /\ SweepInv'
           /\ UNCHANGED <<cur, prev>> => PointerInv'
BY DEF RootInv, rootVars, sweepVars, CompleteWhole, AbsentEmpty, SweepInv, PointerInv

\* A promoter stops: its call forgets what it held.
LEMMA EndsKeeps ==
    ASSUME RootInv, FlipInv, NEW p \in Promoter, Ends(p),
           UNCHANGED <<rstate, nodes>>
    PROVE  /\ job' \in [Promoter -> JobsOfNat]
           /\ BuilderInv' /\ OneBuilder' /\ HolderInv' /\ StartInv'
           /\ UNCHANGED <<cur, prev, gen>> => FlipInv'
<1>1. /\ job' \in [Promoter -> JobsOfNat]
      /\ job'[p].step = "idle" /\ job'[p].at = 1
      /\ \A q \in Promoter : q # p => job'[q] = job[q]
  BY Ended DEF RootInv, TypeInv
<1>2. \A q \in Promoter : job'[q].step \in Building \cup Built \cup Flipped => job'[q] = job[q]
  BY <1>1 DEF Building, Built, Flipped
<1>3. BuilderInv'
  BY <1>2 DEF BuilderInv, RootInv, Written
<1>4. OneBuilder'  BY <1>2 DEF OneBuilder, RootInv
<1>5. HolderInv'  BY <1>2 DEF HolderInv, RootInv
<1>6. UNCHANGED <<cur, prev, gen>> => FlipInv'  BY <1>2 DEF FlipInv
<1>7. StartInv'  BY <1>1 DEF StartInv, RootInv
<1> QED  BY <1>1, <1>3, <1>4, <1>5, <1>6, <1>7

\* A promoter that holds a COMPLETE or retired root moves to another such step.
LEMMA HolderMoves ==
    ASSUME RootInv, NEW p \in Promoter, job' \in [Promoter -> JobsOfNat],
           job[p].step \in Built, job'[p].step \in Built, job'[p].mine = job[p].mine,
           \A q \in Promoter : q # p => job'[q] = job[q],
           UNCHANGED <<rstate, nodes>>
    PROVE  BuilderInv' /\ OneBuilder' /\ HolderInv' /\ StartInv'
<1>1. job'[p].step \notin Building  BY DEF Building, Built
<1>2. BuilderInv'  BY <1>1 DEF BuilderInv, RootInv, Written
<1>3. OneBuilder'  BY <1>1 DEF OneBuilder, RootInv
<1>4. HolderInv'  BY DEF HolderInv, RootInv
<1>5. StartInv'  BY DEF StartInv, RootInv, Built
<1> QED  BY <1>2, <1>3, <1>4, <1>5

LEMMA FindInv ==
    ASSUME IInv, NEW p \in Promoter, NEW s \in Snapshot, FindPublishableRoot(p, s)
    PROVE  IInv'
<1> USE DEF FindPublishableRoot
<1>1. UNCHANGED <<rootVars, viewVars, sweepVars, condemned>>  OBVIOUS
<1>2. job \in [Promoter -> JobsOfNat] /\ job[p].step = "idle"
  BY DEF IInv, RootInv, TypeInv, At
<1>3. /\ job' \in [Promoter -> JobsOfNat]
      /\ \A q \in Promoter : q # p => job'[q] = job[q]
      /\ \/ job'[p].step = "beginning" /\ job'[p].at = job[p].at
         \/ job'[p].step = "reading" /\ job'[p].mine \in Root /\ rstate[job'[p].mine] = "COMPLETE"
  BY <1>2 DEF JobsOfNat, PromoterSteps
<1>4. job'[p].step \notin Building /\ job'[p].step \notin Flipped
  BY <1>3 DEF Building, Flipped
<1>5. BuilderInv'  BY <1>1, <1>3, <1>4 DEF BuilderInv, IInv, RootInv, Written, rootVars
<1>6. OneBuilder' /\ StartInv'
  BY <1>2, <1>3, <1>4 DEF OneBuilder, StartInv, IInv, RootInv
<1>7. HolderInv'  BY <1>1, <1>3 DEF HolderInv, IInv, RootInv, rootVars, Built
<1>8. FlipInv'  BY <1>1, <1>3, <1>4 DEF FlipInv, IInv, viewVars
<1>9. CompleteWhole' /\ AbsentEmpty' /\ SweepInv' /\ PointerInv'
  BY <1>1, RootsAlone DEF IInv, viewVars
<1>10. TypeInv'  BY <1>1, <1>3 DEF TypeInv, IInv, RootInv, rootVars, viewVars, sweepVars
<1>11. UndoIsAnother' /\ CondemnedInv'
  BY <1>1 DEF IInv, UndoIsAnother, CondemnedInv, viewVars
<1> QED  BY <1>5, <1>6, <1>7, <1>8, <1>9, <1>10, <1>11 DEF IInv, RootInv

LEMMA BeginInv ==
    ASSUME IInv, NEW p \in Promoter, BeginRoot(p)
    PROVE  IInv'
<1>1. PICK r \in Root :
        /\ rstate[r] = "ABSENT"
        /\ rstate' = [rstate EXCEPT ![r] = "BUILDING"]
        /\ job' = [job EXCEPT ![p].step = "writing", ![p].mine = r]
  BY DEF BeginRoot
<1>2. job[p].step = "beginning" /\ UNCHANGED <<nodes, viewVars, sweepVars, condemned>>
  BY DEF BeginRoot, At
<1>3. /\ job \in [Promoter -> JobsOfNat] /\ rstate \in [Root -> RootStates]
      /\ nodes[r] = {}
  BY <1>1 DEF IInv, RootInv, TypeInv, AbsentEmpty
<1>4. /\ job' \in [Promoter -> JobsOfNat]
      /\ job'[p].step = "writing" /\ job'[p].mine = r /\ job'[p].at = job[p].at
      /\ \A q \in Promoter : q # p => job'[q] = job[q]
  BY <1>1, <1>3 DEF JobsOfNat, PromoterSteps
<1>5. /\ rstate' \in [Root -> RootStates] /\ rstate'[r] = "BUILDING"
      /\ \A n \in Root : n # r => rstate'[n] = rstate[n]
  BY <1>1, <1>3 DEF RootStates
<1>6. \A q \in Promoter : q # p /\ job[q].step \in Building \cup Built => job[q].mine # r
  BY <1>1 DEF IInv, RootInv, BuilderInv, HolderInv
<1>7. job[p].at = 1  BY <1>2 DEF IInv, RootInv, StartInv
<1>8. BuilderInv'
  <2> SUFFICES ASSUME NEW q \in Promoter, job'[q].step \in Building
               PROVE  /\ job'[q].mine \in Root
                      /\ rstate'[job'[q].mine] \in {"BUILDING", "ABANDONED"}
                      /\ rstate'[job'[q].mine] = "BUILDING" => nodes'[job'[q].mine] = Written(q)'
    BY DEF BuilderInv
  <2>1. CASE q = p  BY <2>1, <1>2, <1>3, <1>4, <1>5, <1>7 DEF Written
  <2>2. CASE q # p
    BY <2>2, <1>2, <1>4, <1>5, <1>6 DEF IInv, RootInv, BuilderInv, Written
  <2> QED  BY <2>1, <2>2
<1>9. OneBuilder' /\ StartInv'
  BY <1>4, <1>6 DEF OneBuilder, StartInv, IInv, RootInv
<1>10. HolderInv'
  BY <1>4, <1>5, <1>6 DEF HolderInv, IInv, RootInv, Built
<1>11. CompleteWhole' /\ AbsentEmpty'
  BY <1>2, <1>5 DEF CompleteWhole, AbsentEmpty, IInv, RootInv
<1>12. SweepInv'
  BY <1>1, <1>2, <1>5 DEF SweepInv, IInv, RootInv, sweepVars
<1>13. PointerInv'
  <2>1. r \notin {cur, prev} \ {NoRoot}  BY <1>1 DEF PointerInv, IInv, RootInv
  <2>2. cur \in Root \cup {NoRoot} /\ prev \in Root \cup {NoRoot}
    BY DEF IInv, RootInv, TypeInv
  <2> QED  BY <2>1, <2>2, <1>2, <1>5 DEF PointerInv, IInv, RootInv, viewVars
<1>14. TypeInv'
  BY <1>2, <1>4, <1>5 DEF TypeInv, IInv, RootInv, viewVars, sweepVars
<1>15. FlipInv'  BY <1>2, <1>4 DEF FlipInv, IInv, viewVars, Flipped
<1>16. UndoIsAnother' /\ CondemnedInv'
  BY <1>2 DEF IInv, UndoIsAnother, CondemnedInv, viewVars
<1> QED  BY <1>8, <1>9, <1>10, <1>11, <1>12, <1>13, <1>14, <1>15, <1>16 DEF IInv, RootInv

LEMMA WriteInv ==
    ASSUME IInv, NEW p \in Promoter, WriteBatch(p)
    PROVE  IInv'
<1> DEFINE m == job[p].mine
           n == job[p].at
<1>1. /\ job[p].step = "writing" /\ Goes(p, "renewing")
      /\ nodes' = [nodes EXCEPT ![m] = @ \cup {n}]
      /\ UNCHANGED <<rstate, viewVars, sweepVars, condemned>>
  BY DEF WriteBatch, At, Mine
<1>2. /\ job \in [Promoter -> JobsOfNat] /\ nodes \in [Root -> SUBSET Batch]
      /\ m \in Root /\ n \in Batch
      /\ rstate[m] \in {"BUILDING", "ABANDONED"}
      /\ rstate[m] = "BUILDING" => nodes[m] = 1..(n - 1)
  <2>1. job \in [Promoter -> JobsOfNat] /\ nodes \in [Root -> SUBSET Batch]
    BY DEF IInv, RootInv, TypeInv
  <2>2. n \in Batch  BY <2>1 DEF JobsOfNat
  <2>3. /\ m \in Root /\ rstate[m] \in {"BUILDING", "ABANDONED"}
        /\ rstate[m] = "BUILDING" => nodes[m] = Written(p)
    BY <1>1 DEF IInv, RootInv, BuilderInv, Building
  <2>4. Written(p) = 1..(n - 1)  BY <1>1 DEF Written
  <2> QED  BY <2>1, <2>2, <2>3, <2>4
<1>3. /\ job' \in [Promoter -> JobsOfNat]
      /\ job'[p].step = "renewing" /\ job'[p].mine = m /\ job'[p].at = n
      /\ \A q \in Promoter : q # p => job'[q] = job[q]
  BY <1>1, <1>2, Went DEF PromoterSteps
<1>4. /\ nodes' \in [Root -> SUBSET Batch]
      /\ nodes'[m] = nodes[m] \cup {n}
      /\ \A r \in Root : r # m => nodes'[r] = nodes[r]
  BY <1>1, <1>2
<1>5. n \in Nat /\ (1..(n - 1)) \cup {n} = 1..n
  BY <1>2, PromotionAssumption DEF Batch
<1>6. BuilderInv'
  <2> SUFFICES ASSUME NEW q \in Promoter, job'[q].step \in Building
               PROVE  /\ job'[q].mine \in Root
                      /\ rstate'[job'[q].mine] \in {"BUILDING", "ABANDONED"}
                      /\ rstate'[job'[q].mine] = "BUILDING" => nodes'[job'[q].mine] = Written(q)'
    BY DEF BuilderInv
  <2>1. CASE q = p
    <3>1. Written(q)' = 1..n  BY <2>1, <1>3 DEF Written
    <3> QED  BY <3>1, <2>1, <1>1, <1>2, <1>3, <1>4, <1>5
  <2>2. CASE q # p
    <3>1. job'[q] = job[q] /\ job[q].step \in Building  BY <2>2, <1>3
    <3>2. job[q].mine # m
      BY <3>1, <2>2, <1>1 DEF IInv, RootInv, OneBuilder, Building
    <3>3. Written(q)' = Written(q)  BY <3>1 DEF Written
    <3> QED  BY <3>1, <3>2, <3>3, <1>1, <1>4 DEF IInv, RootInv, BuilderInv
  <2> QED  BY <2>1, <2>2
<1>7. OneBuilder' /\ HolderInv' /\ StartInv'
  BY <1>1, <1>3 DEF OneBuilder, HolderInv, StartInv, IInv, RootInv, Building, Built
<1>8. CompleteWhole' /\ AbsentEmpty'
  BY <1>1, <1>2, <1>4 DEF CompleteWhole, AbsentEmpty, IInv, RootInv
<1>9. SweepInv' /\ PointerInv'
  BY <1>1 DEF SweepInv, PointerInv, IInv, RootInv, sweepVars, viewVars
<1>10. TypeInv'
  BY <1>1, <1>3, <1>4 DEF TypeInv, IInv, RootInv, viewVars, sweepVars
<1>11. FlipInv'  BY <1>1, <1>3 DEF FlipInv, IInv, viewVars, Flipped
<1>12. UndoIsAnother' /\ CondemnedInv'
  BY <1>1 DEF IInv, UndoIsAnother, CondemnedInv, viewVars
<1> QED  BY <1>6, <1>7, <1>8, <1>9, <1>10, <1>11, <1>12 DEF IInv, RootInv

\* After the last batch the root is whole; before it the next one is due.
LEMMA NextBatchStep ==
    ASSUME job \in [Promoter -> JobsOfNat], NEW p \in Promoter, job[p].step = "renewing",
           NextBatch(p)
    PROVE  /\ job' \in [Promoter -> JobsOfNat]
           /\ job'[p].step \in Building /\ job'[p].mine = job[p].mine
           /\ Written(p)' = Written(p)
           /\ \A q \in Promoter : q # p => job'[q] = job[q]
<1>1. Written(p) = 1..job[p].at /\ job[p].at \in Batch  BY DEF Written, JobsOfNat
<1>2. CASE job[p].at = Batches
  <2>1. Goes(p, "completing")  BY <1>2 DEF NextBatch
  <2>2. /\ job' \in [Promoter -> JobsOfNat]
        /\ job'[p].step = "completing" /\ job'[p].mine = job[p].mine
        /\ \A q \in Promoter : q # p => job'[q] = job[q]
    BY <2>1, Went DEF PromoterSteps
  <2>3. Written(p)' = Batch  BY <2>2 DEF Written
  <2> QED  BY <1>1, <1>2, <2>2, <2>3 DEF Building, Batch
<1>3. CASE job[p].at # Batches
  <2>1. job' = [job EXCEPT ![p].step = "writing", ![p].at = job[p].at + 1]
    BY <1>3 DEF NextBatch
  <2>2. job[p].at \in Nat /\ job[p].at + 1 \in Batch
    BY <1>1, <1>3, PromotionAssumption DEF Batch
  <2>3. /\ job' \in [Promoter -> JobsOfNat]
        /\ job'[p].step = "writing" /\ job'[p].mine = job[p].mine /\ job'[p].at = job[p].at + 1
        /\ \A q \in Promoter : q # p => job'[q] = job[q]
    BY <2>1, <2>2 DEF JobsOfNat, PromoterSteps
  <2>4. Written(p)' = 1..(job'[p].at - 1)  BY <2>3 DEF Written
  <2>5. job'[p].at - 1 = job[p].at  BY <2>2, <2>3
  <2> QED  BY <1>1, <2>3, <2>4, <2>5 DEF Building
<1> QED  BY <1>2, <1>3

LEMMA RenewInv ==
    ASSUME IInv, NEW p \in Promoter, RenewRoot(p)
    PROVE  IInv'
<1>1. job[p].step = "renewing" /\ UNCHANGED <<rstate, nodes, viewVars, sweepVars, condemned>>
  BY DEF RenewRoot, At
<1>2. CompleteWhole' /\ AbsentEmpty' /\ SweepInv' /\ PointerInv'
  BY <1>1 DEF CompleteWhole, AbsentEmpty, SweepInv, PointerInv, IInv, RootInv, viewVars, sweepVars
<1>3. UndoIsAnother' /\ CondemnedInv'
  BY <1>1 DEF IInv, UndoIsAnother, CondemnedInv, viewVars
<1>4. job' \in [Promoter -> JobsOfNat] /\ BuilderInv' /\ OneBuilder' /\ HolderInv' /\ StartInv' /\ FlipInv'
  <2>1. CASE Ends(p)
    BY <1>1, <2>1, EndsKeeps DEF IInv, viewVars
  <2>2. CASE NextBatch(p)
    <3>1. job \in [Promoter -> JobsOfNat]  BY DEF IInv, RootInv, TypeInv
    <3>2. /\ job' \in [Promoter -> JobsOfNat]
          /\ job'[p].step \in Building /\ job'[p].mine = job[p].mine
          /\ Written(p)' = Written(p)
          /\ \A q \in Promoter : q # p => job'[q] = job[q]
      BY <1>1, <2>2, <3>1, NextBatchStep
    <3>3. \A q \in Promoter : Written(q)' = Written(q)  BY <3>2 DEF Written
    <3>4. job[p].step \in Building  BY <1>1 DEF Building
    <3>5. BuilderInv'
      BY <1>1, <3>2, <3>3, <3>4 DEF BuilderInv, IInv, RootInv
    <3>6. OneBuilder'  BY <3>2, <3>4 DEF OneBuilder, IInv, RootInv
    <3>7. HolderInv' /\ StartInv' /\ FlipInv'
      BY <1>1, <3>2 DEF HolderInv, StartInv, FlipInv, IInv, RootInv, Building, Built, Flipped, viewVars
    <3> QED  BY <3>2, <3>5, <3>6, <3>7
  <2> QED  BY <2>1, <2>2 DEF RenewRoot
<1>5. TypeInv'  BY <1>1, <1>4 DEF TypeInv, IInv, RootInv, viewVars, sweepVars
<1> QED  BY <1>2, <1>3, <1>4, <1>5 DEF IInv, RootInv

LEMMA CompleteInv ==
    ASSUME IInv, NEW p \in Promoter, CompleteRoot(p)
    PROVE  IInv'
<1> DEFINE m == job[p].mine
<1>1. job[p].step = "completing" /\ UNCHANGED <<nodes, viewVars, sweepVars, condemned>>
  BY DEF CompleteRoot, At
<1>2. CASE UNCHANGED rstate /\ Ends(p)
  <2>1. CompleteWhole' /\ AbsentEmpty' /\ SweepInv' /\ PointerInv'
    BY <1>1, <1>2 DEF CompleteWhole, AbsentEmpty, SweepInv, PointerInv, IInv, RootInv,
                      viewVars, sweepVars
  <2>2. job' \in [Promoter -> JobsOfNat] /\ BuilderInv' /\ OneBuilder' /\ HolderInv' /\ StartInv' /\ FlipInv'
    BY <1>1, <1>2, EndsKeeps DEF IInv, viewVars
  <2>3. TypeInv' /\ UndoIsAnother' /\ CondemnedInv'
    BY <1>1, <1>2, <2>2 DEF TypeInv, UndoIsAnother, CondemnedInv, IInv, RootInv, viewVars, sweepVars
  <2> QED  BY <2>1, <2>2, <2>3 DEF IInv, RootInv
<1>3. CASE /\ rstate[m] = "BUILDING" /\ Goes(p, "reading")
           /\ rstate' = [rstate EXCEPT ![m] = "COMPLETE"]
  <2>1. /\ job \in [Promoter -> JobsOfNat] /\ rstate \in [Root -> RootStates]
        /\ m \in Root /\ nodes[m] = Batch
    BY <1>1, <1>3 DEF IInv, RootInv, TypeInv, BuilderInv, Building, Written
  <2>2. /\ job' \in [Promoter -> JobsOfNat]
        /\ job'[p].step = "reading" /\ job'[p].mine = m
        /\ \A q \in Promoter : q # p => job'[q] = job[q]
    BY <1>3, <2>1, Went DEF PromoterSteps
  <2>3. /\ rstate' \in [Root -> RootStates] /\ rstate'[m] = "COMPLETE"
        /\ \A r \in Root : r # m => rstate'[r] = rstate[r]
    BY <1>3, <2>1 DEF RootStates
  <2>4. \A q \in Promoter : q # p /\ job[q].step \in Building => job[q].mine # m
    BY <1>1 DEF IInv, RootInv, OneBuilder, Building
  <2>5. BuilderInv'
    BY <1>1, <2>2, <2>3, <2>4 DEF BuilderInv, IInv, RootInv, Building, Written
  <2>6. OneBuilder' /\ StartInv'
    BY <2>2 DEF OneBuilder, StartInv, IInv, RootInv, Building
  <2>7. HolderInv'  BY <2>1, <2>2, <2>3 DEF HolderInv, IInv, RootInv
  <2>8. CompleteWhole' /\ AbsentEmpty'
    BY <1>1, <2>1, <2>3 DEF CompleteWhole, AbsentEmpty, IInv, RootInv
  <2>9. SweepInv'
    BY <1>1, <1>3, <2>1, <2>3 DEF SweepInv, IInv, RootInv, sweepVars
  <2>10. PointerInv'
    BY <1>1, <1>3, <2>1, <2>3 DEF PointerInv, IInv, RootInv, viewVars, TypeInv
  <2>11. TypeInv'
    BY <1>1, <2>2, <2>3 DEF TypeInv, IInv, RootInv, viewVars, sweepVars
  <2>12. FlipInv'  BY <1>1, <2>2 DEF FlipInv, IInv, viewVars, Flipped
  <2>13. UndoIsAnother' /\ CondemnedInv'
    BY <1>1 DEF IInv, UndoIsAnother, CondemnedInv, viewVars
  <2> QED  BY <2>5, <2>6, <2>7, <2>8, <2>9, <2>10, <2>11, <2>12, <2>13 DEF IInv, RootInv
<1> QED  BY <1>2, <1>3 DEF CompleteRoot, Mine

LEMMA ReadInv ==
    ASSUME IInv, NEW p \in Promoter, ReadView(p)
    PROVE  IInv'
<1>1. /\ job[p].step = "reading"
      /\ job' = [job EXCEPT ![p].step = "publishing", ![p].expected = gen]
      /\ UNCHANGED <<rootVars, viewVars, sweepVars, condemned>>
  BY DEF ReadView, At
<1>2. job \in [Promoter -> JobsOfNat] /\ gen \in Nat  BY DEF IInv, RootInv, TypeInv
<1>3. /\ job' \in [Promoter -> JobsOfNat]
      /\ job'[p].step = "publishing" /\ job'[p].mine = job[p].mine
      /\ \A q \in Promoter : q # p => job'[q] = job[q]
  BY <1>1, <1>2 DEF JobsOfNat, PromoterSteps
<1>4. job[p].step \in Built /\ job'[p].step \in Built /\ UNCHANGED <<rstate, nodes>>
  BY <1>1, <1>3 DEF Built, rootVars
<1>5. BuilderInv' /\ OneBuilder' /\ HolderInv' /\ StartInv'
  BY <1>3, <1>4, HolderMoves DEF IInv
<1>6. CompleteWhole' /\ AbsentEmpty' /\ SweepInv' /\ PointerInv'
  BY <1>1, RootsAlone DEF IInv, viewVars
<1>7. TypeInv' /\ UndoIsAnother' /\ CondemnedInv'
  BY <1>1, <1>3 DEF TypeInv, UndoIsAnother, CondemnedInv, IInv, RootInv, rootVars, viewVars,
                    sweepVars
<1>8. FlipInv'  BY <1>1, <1>3 DEF FlipInv, IInv, viewVars, Flipped
<1> QED  BY <1>5, <1>6, <1>7, <1>8 DEF IInv, RootInv

\* The flip: the root it publishes is COMPLETE and new to the view, and the
\* generation tells it from every other flip.
LEMMA PublishInv ==
    ASSUME IInv, NEW p \in Promoter, PublishRoot(p)
    PROVE  IInv'
<1> DEFINE m == job[p].mine
<1>1. job[p].step = "publishing" /\ UNCHANGED <<rootVars, degraded, sweepVars>>
  BY DEF PublishRoot, At
<1>2. CASE Ends(p) /\ UNCHANGED <<cur, prev, gen, condemned>>
  <2>1. /\ job' \in [Promoter -> JobsOfNat] /\ BuilderInv' /\ OneBuilder' /\ HolderInv'
        /\ StartInv' /\ FlipInv'
    BY <1>1, <1>2, EndsKeeps DEF IInv, rootVars
  <2>2. CompleteWhole' /\ AbsentEmpty' /\ SweepInv' /\ PointerInv'
    BY <1>1, <1>2, RootsAlone DEF IInv
  <2>3. TypeInv' /\ UndoIsAnother' /\ CondemnedInv'
    BY <1>1, <1>2, <2>1 DEF TypeInv, UndoIsAnother, CondemnedInv, IInv, RootInv, rootVars,
                            sweepVars
  <2> QED  BY <2>1, <2>2, <2>3 DEF IInv, RootInv
<1>3. CASE /\ rstate[m] = "COMPLETE" /\ gen = job[p].expected /\ cur # m
           /\ cur' = m /\ prev' = cur /\ gen' = gen + 1
           /\ condemned' = condemned \ {m}
           /\ job' = [job EXCEPT ![p].step = "verifying", ![p].before = cur]
  <2>1. /\ job \in [Promoter -> JobsOfNat] /\ cur \in Root \cup {NoRoot} /\ gen \in Nat
        /\ m \in Root
    BY <1>1 DEF IInv, RootInv, TypeInv, HolderInv, Built
  <2>2. /\ job' \in [Promoter -> JobsOfNat]
        /\ job'[p].step = "verifying" /\ job'[p].mine = m
        /\ job'[p].expected = job[p].expected /\ job'[p].before = cur
        /\ \A q \in Promoter : q # p => job'[q] = job[q]
    BY <1>3, <2>1 DEF JobsOfNat, PromoterSteps
  <2>3. job[p].step \in Built /\ job'[p].step \in Built /\ UNCHANGED <<rstate, nodes>>
    BY <1>1, <2>2 DEF Built, rootVars
  <2>4. BuilderInv' /\ OneBuilder' /\ HolderInv' /\ StartInv'
    BY <2>2, <2>3, HolderMoves DEF IInv
  <2>5. CompleteWhole' /\ AbsentEmpty' /\ SweepInv'
    BY <1>1, RootsAlone DEF IInv
  <2>6. PointerInv'
    BY <1>3, <2>3 DEF PointerInv, IInv, RootInv
  <2>7. TypeInv'
    BY <1>1, <1>3, <2>1, <2>2 DEF TypeInv, IInv, RootInv, rootVars, sweepVars
  <2>8. UndoIsAnother'  BY <1>3 DEF UndoIsAnother
  <2>9. CondemnedInv'  BY <1>1, <1>3 DEF CondemnedInv, IInv
  <2>10. FlipInv'
    <3> SUFFICES ASSUME NEW q \in Promoter, job'[q].step \in Flipped
                 PROVE  /\ gen' >= job'[q].expected + 1
                        /\ gen' = job'[q].expected + 1 => cur' = job'[q].mine /\ prev' = job'[q].before
      BY DEF FlipInv
    <3>1. CASE q = p  BY <3>1, <1>3, <2>1, <2>2
    <3>2. CASE q # p
      <4>1. job'[q] = job[q] /\ gen >= job[q].expected + 1 /\ job[q].expected \in Nat
        BY <3>2, <2>1, <2>2 DEF FlipInv, IInv, JobsOfNat
      <4> QED  BY <4>1, <1>3, <2>1
    <3> QED  BY <3>1, <3>2
  <2> QED  BY <2>4, <2>5, <2>6, <2>7, <2>8, <2>9, <2>10 DEF IInv, RootInv
<1> QED  BY <1>2, <1>3 DEF PublishRoot, Publishable, Mine

LEMMA VerifyInv ==
    ASSUME IInv, NEW p \in Promoter, VerifyAfterFlip(p)
    PROVE  IInv'
<1>1. /\ job[p].step = "verifying" /\ UNCHANGED <<rootVars, viewVars, sweepVars, condemned>>
      /\ Ends(p) \/ Goes(p, "restoring")
  BY DEF VerifyAfterFlip, At
<1>2. /\ job' \in [Promoter -> JobsOfNat] /\ BuilderInv' /\ OneBuilder' /\ HolderInv'
      /\ StartInv' /\ FlipInv'
  <2>1. CASE Ends(p)  BY <1>1, <2>1, EndsKeeps DEF IInv, rootVars, viewVars
  <2>2. CASE Goes(p, "restoring")
    <3>1. job \in [Promoter -> JobsOfNat]  BY DEF IInv, RootInv, TypeInv
    <3>2. /\ job' \in [Promoter -> JobsOfNat]
          /\ job'[p].step = "restoring" /\ job'[p].mine = job[p].mine
          /\ job'[p].expected = job[p].expected /\ job'[p].before = job[p].before
          /\ \A q \in Promoter : q # p => job'[q] = job[q]
      BY <2>2, <3>1, Went DEF PromoterSteps
    <3>3. job[p].step \in Built /\ job'[p].step \in Built /\ UNCHANGED <<rstate, nodes>>
      BY <1>1, <3>2 DEF Built, rootVars
    <3>4. BuilderInv' /\ OneBuilder' /\ HolderInv' /\ StartInv'
      BY <3>2, <3>3, HolderMoves DEF IInv
    <3>5. FlipInv'  BY <1>1, <3>2 DEF FlipInv, IInv, viewVars, Flipped
    <3> QED  BY <3>2, <3>4, <3>5
  <2> QED  BY <1>1, <2>1, <2>2
<1>3. CompleteWhole' /\ AbsentEmpty' /\ SweepInv' /\ PointerInv'
  BY <1>1, RootsAlone DEF IInv, viewVars
<1>4. TypeInv' /\ UndoIsAnother' /\ CondemnedInv'
  BY <1>1, <1>2 DEF TypeInv, UndoIsAnother, CondemnedInv, IInv, RootInv, rootVars, viewVars,
                    sweepVars
<1> QED  BY <1>2, <1>3, <1>4 DEF IInv, RootInv

\* A restore at the promoter's own generation takes its own root out of the view.
LEMMA RestoreInv ==
    ASSUME IInv, NEW p \in Promoter, RestorePrevious(p)
    PROVE  IInv'
<1> DEFINE m == job[p].mine
           Flips == /\ gen = job[p].expected + 1 /\ prev # NoRoot
                    /\ cur' = prev /\ prev' = NoRoot /\ gen' = gen + 1
<1>1. /\ job[p].step = "restoring" /\ UNCHANGED <<rootVars, degraded, sweepVars>>
      /\ Flips \/ UNCHANGED <<cur, prev, gen>>
      /\ \/ Flips /\ Ends(p) /\ condemned' = condemned \cup {m}
         \/ Goes(p, "degrading") /\ UNCHANGED condemned
  BY DEF RestorePrevious, Restorable, At, Mine
<1>2. /\ job \in [Promoter -> JobsOfNat] /\ m \in Root /\ gen \in Nat
      /\ job[p].expected \in Nat
      /\ gen >= job[p].expected + 1
      /\ gen = job[p].expected + 1 => cur = m /\ prev = job[p].before
      /\ \A q \in Promoter : job[q].expected \in Nat
  BY <1>1 DEF IInv, RootInv, TypeInv, HolderInv, FlipInv, Built, Flipped, JobsOfNat
<1>3. /\ job' \in [Promoter -> JobsOfNat] /\ BuilderInv' /\ OneBuilder' /\ HolderInv' /\ StartInv'
      /\ \A q \in Promoter : job'[q].step \in Flipped =>
            /\ job[q].step \in Flipped /\ job'[q].expected = job[q].expected
            /\ job'[q].mine = job[q].mine /\ job'[q].before = job[q].before
  <2>1. CASE Ends(p)
    <3>1. /\ job' \in [Promoter -> JobsOfNat] /\ BuilderInv' /\ OneBuilder' /\ HolderInv' /\ StartInv'
      BY <1>1, <2>1, EndsKeeps DEF IInv, rootVars
    <3>2. job'[p].step = "idle" /\ \A q \in Promoter : q # p => job'[q] = job[q]
      BY <1>2, <2>1, Ended
    <3> QED  BY <3>1, <3>2 DEF Flipped
  <2>2. CASE Goes(p, "degrading")
    <3>1. /\ job' \in [Promoter -> JobsOfNat]
          /\ job'[p].step = "degrading" /\ job'[p].mine = job[p].mine
          /\ job'[p].expected = job[p].expected /\ job'[p].before = job[p].before
          /\ \A q \in Promoter : q # p => job'[q] = job[q]
      BY <1>2, <2>2, Went DEF PromoterSteps
    <3>2. job[p].step \in Built /\ job'[p].step \in Built /\ UNCHANGED <<rstate, nodes>>
      BY <1>1, <3>1 DEF Built, rootVars
    <3>3. BuilderInv' /\ OneBuilder' /\ HolderInv' /\ StartInv'
      BY <3>1, <3>2, HolderMoves DEF IInv
    <3> QED  BY <1>1, <3>1, <3>3 DEF Flipped
  <2> QED  BY <1>1, <2>1, <2>2
<1>4. CompleteWhole' /\ AbsentEmpty' /\ SweepInv'
  BY <1>1, RootsAlone DEF IInv
<1>5. CASE UNCHANGED <<cur, prev, gen>>
  <2>1. ~Flips  BY <1>2, <1>5
  <2>2. UNCHANGED condemned  BY <1>1, <2>1
  <2>3. PointerInv'  BY <1>1, <1>5, RootsAlone DEF IInv
  <2>4. TypeInv' /\ UndoIsAnother' /\ CondemnedInv'
    BY <1>1, <1>3, <1>5, <2>2 DEF TypeInv, UndoIsAnother, CondemnedInv, IInv, RootInv, rootVars,
                              sweepVars
  <2>5. FlipInv'  BY <1>3, <1>5 DEF FlipInv, IInv
  <2> QED  BY <1>3, <1>4, <2>3, <2>4, <2>5 DEF IInv, RootInv
<1>6. CASE Flips
  <2>1. cur = m /\ prev # m
    <3>1. cur = m  BY <1>2, <1>6
    <3>2. m # NoRoot  BY <1>2, PromotionAssumption DEF Root, NoRoot
    <3> QED  BY <3>1, <3>2 DEF IInv, UndoIsAnother
  <2>2. prev \in Root  BY <1>6 DEF IInv, RootInv, TypeInv
  <2>3. PointerInv'  BY <1>1, <1>6, <2>2 DEF PointerInv, IInv, RootInv, rootVars
  <2>4. condemned' \subseteq condemned \cup {m}  BY <1>1
  <2>5. TypeInv'
    BY <1>1, <1>2, <1>3, <1>6, <2>2, <2>4 DEF TypeInv, IInv, RootInv, rootVars, sweepVars
  <2>6. UndoIsAnother'  BY <1>6 DEF UndoIsAnother
  <2>7. CondemnedInv'
    <3>1. NoRoot \notin Root  BY PromotionAssumption DEF Root, NoRoot
    <3>2. condemned \subseteq Root  BY DEF IInv, RootInv, TypeInv
    <3> QED  BY <1>1, <1>2, <1>6, <2>1, <2>4, <3>1, <3>2 DEF CondemnedInv, IInv
  <2>8. FlipInv'
    BY <1>2, <1>3, <1>6 DEF FlipInv, IInv
  <2> QED  BY <1>3, <1>4, <2>3, <2>5, <2>6, <2>7, <2>8 DEF IInv, RootInv
<1> QED  BY <1>1, <1>5, <1>6

LEMMA DegradeInv ==
    ASSUME IInv, NEW p \in Promoter, MarkDegraded(p)
    PROVE  IInv'
<1>1. /\ job[p].step = "degrading" /\ degraded' = TRUE /\ Ends(p)
      /\ condemned' = condemned \cup {job[p].mine}
      /\ UNCHANGED <<rootVars, cur, prev, gen, sweepVars>>
  BY DEF MarkDegraded, At, Mine
<1>2. /\ job' \in [Promoter -> JobsOfNat] /\ BuilderInv' /\ OneBuilder' /\ HolderInv'
      /\ StartInv' /\ FlipInv'
  BY <1>1, EndsKeeps DEF IInv, rootVars
<1>3. CompleteWhole' /\ AbsentEmpty' /\ SweepInv' /\ PointerInv'
  BY <1>1, RootsAlone DEF IInv
<1>4. job[p].mine \in Root  BY <1>1 DEF IInv, RootInv, HolderInv, Built
<1>5. TypeInv'
  BY <1>1, <1>2, <1>4 DEF TypeInv, IInv, RootInv, rootVars, sweepVars
<1>6. UndoIsAnother' /\ CondemnedInv'
  BY <1>1 DEF UndoIsAnother, CondemnedInv, IInv
<1> QED  BY <1>2, <1>3, <1>5, <1>6 DEF IInv, RootInv

LEMMA GiveUpInv ==
    ASSUME IInv, NEW p \in Promoter, GiveUp(p)
    PROVE  IInv'
<1>1. Ends(p) /\ UNCHANGED <<rootVars, viewVars, sweepVars, condemned>>  BY DEF GiveUp
<1>2. /\ job' \in [Promoter -> JobsOfNat] /\ BuilderInv' /\ OneBuilder' /\ HolderInv'
      /\ StartInv' /\ FlipInv'
  BY <1>1, EndsKeeps DEF IInv, rootVars, viewVars
<1>3. CompleteWhole' /\ AbsentEmpty' /\ SweepInv' /\ PointerInv'
  BY <1>1, RootsAlone DEF IInv, viewVars
<1>4. TypeInv' /\ UndoIsAnother' /\ CondemnedInv'
  BY <1>1, <1>2 DEF TypeInv, UndoIsAnother, CondemnedInv, IInv, RootInv, rootVars, viewVars,
                    sweepVars
<1> QED  BY <1>2, <1>3, <1>4 DEF IInv, RootInv

-------------------------------------------------------------------------------
(* The sweeper and the clock.                                              *)

\* Nothing a promoter or the view relies on changes with a sweeper's place.
LEMMA OnlySweeperMoves ==
    ASSUME IInv, UNCHANGED <<rstate, nodes, viewVars, job, condemned>>,
           spc' \in [Sweeper -> SweeperSteps], row' \in [Sweeper -> Root \cup {NoRoot}], SweepInv'
    PROVE  IInv'
<1>1. TypeInv' /\ CompleteWhole' /\ AbsentEmpty' /\ PointerInv'
  BY DEF TypeInv, CompleteWhole, AbsentEmpty, PointerInv, IInv, RootInv, viewVars
<1>2. BuilderInv'  BY DEF BuilderInv, Written, IInv, RootInv
<1>3. OneBuilder' /\ HolderInv' /\ StartInv'
  BY DEF OneBuilder, HolderInv, StartInv, IInv, RootInv
<1>4. UndoIsAnother' /\ FlipInv' /\ CondemnedInv'
  BY DEF UndoIsAnother, FlipInv, CondemnedInv, IInv, viewVars
<1> QED  BY <1>1, <1>2, <1>3, <1>4 DEF IInv, RootInv

LEMMA NextRowStep ==
    ASSUME IInv, NEW s \in Sweeper, NextRow(s), UNCHANGED rstate
    PROVE  /\ spc' \in [Sweeper -> SweeperSteps] /\ row' \in [Sweeper -> Root \cup {NoRoot}]
           /\ SweepInv'
BY DEF NextRow, IInv, RootInv, TypeInv, SweepInv, SweeperSteps

LEMMA SweepViewRootsInv ==
    ASSUME IInv, NEW s \in Sweeper, SweepViewRoots(s)
    PROVE  IInv'
<1>1. NextRow(s) /\ UNCHANGED <<rootVars, viewVars, job, condemned>>  BY DEF SweepViewRoots
<1> QED  BY <1>1, NextRowStep, OnlySweeperMoves DEF rootVars

LEMMA LookInv ==
    ASSUME IInv, NEW s \in Sweeper, LookAtRoot(s)
    PROVE  IInv'
<1>1. UNCHANGED <<rootVars, viewVars, job, condemned>> /\ spc[s] = "looking"
  BY DEF LookAtRoot
<1>2. spc \in [Sweeper -> SweeperSteps] /\ row \in [Sweeper -> Root \cup {NoRoot}] /\ SweepInv
  BY DEF IInv, RootInv, TypeInv
<1>3. CASE \E r \in Root :
             /\ row' = [row EXCEPT ![s] = r]
             /\ spc' = [spc EXCEPT ![s] = IF rstate[r] = "ABANDONED" THEN "purging" ELSE "retiring"]
  BY <1>1, <1>2, <1>3, OnlySweeperMoves DEF rootVars, SweepInv, SweeperSteps
<1>4. CASE spc' = [spc EXCEPT ![s] = "idle"] /\ UNCHANGED row
  BY <1>1, <1>2, <1>4, OnlySweeperMoves DEF rootVars, SweepInv, SweeperSteps
<1> QED  BY <1>3, <1>4 DEF LookAtRoot

\* Retiring takes a root from its builder and its holders, never from the view.
LEMMA RetireInv ==
    ASSUME IInv, NEW s \in Sweeper, RetireRoot(s)
    PROVE  IInv'
<1> DEFINE r == row[s]
<1>1. UNCHANGED <<nodes, viewVars, job, condemned>> /\ spc[s] = "retiring"
  BY DEF RetireRoot
<1>2. CASE NextRow(s) /\ UNCHANGED rstate
  BY <1>1, <1>2, NextRowStep, OnlySweeperMoves
<1>3. CASE /\ r \notin {cur, prev}
           /\ rstate' = [rstate EXCEPT ![r] = "ABANDONED"]
           /\ spc' = [spc EXCEPT ![s] = "purging"] /\ UNCHANGED row
  <2>1. r \in Root /\ rstate \in [Root -> RootStates]
    BY <1>1 DEF IInv, RootInv, TypeInv, SweepInv
  <2>2. /\ rstate' \in [Root -> RootStates] /\ rstate'[r] = "ABANDONED"
        /\ \A n \in Root : n # r => rstate'[n] = rstate[n]
    BY <1>3, <2>1 DEF RootStates
  <2>3. TypeInv'
    BY <1>1, <1>3, <2>2 DEF TypeInv, IInv, RootInv, viewVars, SweeperSteps
  <2>4. CompleteWhole' /\ AbsentEmpty'
    BY <1>1, <2>2 DEF CompleteWhole, AbsentEmpty, IInv, RootInv
  <2>5. PointerInv'
    BY <1>1, <1>3, <2>2 DEF PointerInv, IInv, RootInv, TypeInv, viewVars
  <2>6. SweepInv'
    <3>1. spc \in [Sweeper -> SweeperSteps]  BY DEF IInv, RootInv, TypeInv
    <3> QED  BY <3>1, <1>3, <2>1, <2>2 DEF SweepInv, IInv, RootInv
  <2>7. BuilderInv'
    <3>1. \A q \in Promoter : Written(q)' = Written(q)  BY <1>1 DEF Written
    <3> QED  BY <3>1, <1>1, <2>2 DEF BuilderInv, IInv, RootInv
  <2>8. HolderInv'  BY <1>1, <2>2 DEF HolderInv, IInv, RootInv
  <2>9. OneBuilder' /\ StartInv' /\ FlipInv' /\ UndoIsAnother' /\ CondemnedInv'
    BY <1>1 DEF OneBuilder, StartInv, FlipInv, UndoIsAnother, CondemnedInv, IInv, RootInv, viewVars
  <2> QED  BY <2>3, <2>4, <2>5, <2>6, <2>7, <2>8, <2>9 DEF IInv, RootInv
<1> QED  BY <1>2, <1>3 DEF RetireRoot, Retirable

\* Content is deleted only from a retired root.
LEMMA PurgeInv ==
    ASSUME IInv, NEW s \in Sweeper, PurgeBatch(s)
    PROVE  IInv'
<1> DEFINE r == row[s]
<1>1. UNCHANGED <<rstate, viewVars, job, condemned>> /\ spc[s] = "purging"
  BY DEF PurgeBatch
<1>2. CASE NextRow(s) /\ UNCHANGED nodes
  BY <1>1, <1>2, NextRowStep, OnlySweeperMoves
<1>3. CASE UNCHANGED <<spc, row>> /\ \E b \in nodes[r] : nodes' = [nodes EXCEPT ![r] = @ \ {b}]
  <2>1. r \in Root /\ rstate[r] = "ABANDONED" /\ nodes \in [Root -> SUBSET Batch]
    BY <1>1 DEF IInv, RootInv, TypeInv, SweepInv
  <2>2. /\ nodes' \in [Root -> SUBSET Batch]
        /\ \A n \in Root : n # r => nodes'[n] = nodes[n]
    BY <1>3, <2>1
  <2>3. TypeInv'
    BY <1>1, <1>3, <2>2 DEF TypeInv, IInv, RootInv, viewVars
  <2>4. CompleteWhole' /\ AbsentEmpty'
    BY <1>1, <2>1, <2>2 DEF CompleteWhole, AbsentEmpty, IInv, RootInv
  <2>5. PointerInv' /\ SweepInv'
    BY <1>1, <1>3 DEF PointerInv, SweepInv, IInv, RootInv, viewVars
  <2>6. BuilderInv'
    <3>1. \A q \in Promoter : Written(q)' = Written(q)  BY <1>1 DEF Written
    <3> QED  BY <3>1, <1>1, <2>1, <2>2 DEF BuilderInv, IInv, RootInv
  <2>7. HolderInv'  BY <1>1 DEF HolderInv, IInv, RootInv
  <2>8. OneBuilder' /\ StartInv' /\ FlipInv' /\ UndoIsAnother' /\ CondemnedInv'
    BY <1>1 DEF OneBuilder, StartInv, FlipInv, UndoIsAnother, CondemnedInv, IInv, RootInv, viewVars
  <2> QED  BY <2>3, <2>4, <2>5, <2>6, <2>7, <2>8 DEF IInv, RootInv
<1> QED  BY <1>2, <1>3 DEF PurgeBatch

LEMMA StopInv ==
    ASSUME IInv, NEW s \in Sweeper, SweepStops(s)
    PROVE  IInv'
<1>1. /\ UNCHANGED <<rootVars, viewVars, job, condemned>>
      /\ spc' = [spc EXCEPT ![s] = "idle"] /\ row' = [row EXCEPT ![s] = NoRoot]
  BY DEF SweepStops
<1>2. spc \in [Sweeper -> SweeperSteps] /\ row \in [Sweeper -> Root \cup {NoRoot}] /\ SweepInv
  BY DEF IInv, RootInv, TypeInv
<1> QED  BY <1>1, <1>2, OnlySweeperMoves DEF rootVars, SweepInv, SweeperSteps

LEMMA TickInv ==
    ASSUME IInv, Tick
    PROVE  IInv'
<1>1. UNCHANGED <<rstate, nodes, viewVars, job, sweepVars, condemned>>  BY DEF Tick
<1>2. /\ spc' \in [Sweeper -> SweeperSteps] /\ row' \in [Sweeper -> Root \cup {NoRoot}]
      /\ SweepInv'
  BY <1>1 DEF IInv, RootInv, TypeInv, SweepInv, sweepVars
<1> QED  BY <1>1, <1>2, OnlySweeperMoves

-------------------------------------------------------------------------------
(* The theorems.                                                           *)

LEMMA NextInv == IInv /\ [Next]_vars => IInv'
<1> SUFFICES ASSUME IInv, [Next]_vars PROVE IInv'  OBVIOUS
<1>1. ASSUME NEW p \in Promoter, NEW s \in Snapshot, FindPublishableRoot(p, s) PROVE IInv'
  BY <1>1, FindInv
<1>2. ASSUME NEW p \in Promoter, Promotes(p) PROVE IInv'
  BY <1>2, BeginInv, WriteInv, RenewInv, CompleteInv, ReadInv, PublishInv, VerifyInv, RestoreInv,
     DegradeInv DEF Promotes
<1>3. ASSUME NEW p \in Promoter, GiveUp(p) PROVE IInv'  BY <1>3, GiveUpInv
<1>4. ASSUME NEW s \in Sweeper, Sweeps(s) PROVE IInv'
  BY <1>4, SweepViewRootsInv, LookInv, RetireInv, PurgeInv DEF Sweeps
<1>5. ASSUME NEW s \in Sweeper, SweepStops(s) PROVE IInv'  BY <1>5, StopInv
<1>6. CASE Tick  BY <1>6, TickInv
<1>7. CASE UNCHANGED vars
  <2>1. UNCHANGED <<rstate, nodes, viewVars, job, sweepVars, condemned>>
    BY <1>7 DEF vars, rootVars
  <2>2. /\ spc' \in [Sweeper -> SweeperSteps] /\ row' \in [Sweeper -> Root \cup {NoRoot}]
        /\ SweepInv'
    BY <2>1 DEF IInv, RootInv, TypeInv, SweepInv, sweepVars
  <2> QED  BY <2>1, <2>2, OnlySweeperMoves
<1> QED  BY <1>1, <1>2, <1>3, <1>4, <1>5, <1>6, <1>7 DEF Next

\* The promotion protocol keeps its inductive invariant.
THEOREM PromotionInvariant == Spec => []IInv
<1>1. Init => IInv  BY InitInv
<1>2. IInv /\ [Next]_vars => IInv'  BY NextInv
<1> QED  BY <1>1, <1>2, PTL DEF Spec

\* For any number of promoters, sweepers, roots and batches, both roots a view can
\* answer from are COMPLETE and whole: publish_root never flips to a root that is
\* still being built, and retire_root and purge_root never take one that is named.
THEOREM ViewIsWhole == Spec => []PointersWhole
<1>1. IInv => PointersWhole
  <2> SUFFICES ASSUME IInv, NEW r \in {cur, prev} \ {NoRoot}
               PROVE  rstate[r] = "COMPLETE" /\ nodes[r] = Batch
    BY DEF PointersWhole
  <2>1. r \in Root  BY DEF IInv, RootInv, TypeInv
  <2> QED  BY <2>1 DEF IInv, RootInv, PointerInv, CompleteWhole
<1> QED  BY <1>1, PromotionInvariant, PTL

\* A retry that finds its root already current does not overwrite the undo of
\* publish_root with the root itself.
THEOREM UndoSurvives == Spec => []UndoIsAnother
<1>1. IInv => UndoIsAnother  BY DEF IInv
<1> QED  BY <1>1, PromotionInvariant, PTL

\* When _compensate has returned, the root that failed is out of the view or the
\* view says it is degraded, whatever others published meanwhile.
THEOREM FailureIsRecorded == Spec => []CondemnedIsMarked
<1>1. IInv => CondemnedIsMarked  BY DEF IInv, CondemnedInv, CondemnedIsMarked
<1> QED  BY <1>1, PromotionInvariant, PTL

\* A restore that takes effect undoes the flip of its own promotion: restore_previous
\* compares the generation, and a generation is published once.
THEOREM RestoreIsOwn == Spec => RestoresItsOwn
<1> DEFINE Own == \A p \in Promoter :
                     At(p, "restoring") /\ job'[p].step # "restoring" /\ gen' > gen
                        => cur = Mine(p) /\ cur' = job[p].before
<1>1. IInv /\ [Next]_vars => [Own]_vars
  <2> SUFFICES ASSUME IInv, Next, NEW p \in Promoter, At(p, "restoring"),
                      job'[p].step # "restoring", gen' > gen
               PROVE  cur = Mine(p) /\ cur' = job[p].before
    OBVIOUS
  <2>1. job \in [Promoter -> JobsOfNat] /\ gen \in Nat  BY DEF IInv, RootInv, TypeInv
  <2>2. gen' # gen  BY <2>1
  <2>3. PICK q \in Promoter : PublishRoot(q) \/ RestorePrevious(q)
    BY <2>2 DEF Next, Promotes, Sweeps, FindPublishableRoot, BeginRoot, WriteBatch, RenewRoot,
                CompleteRoot, ReadView, VerifyAfterFlip, MarkDegraded, GiveUp, SweepViewRoots,
                LookAtRoot, RetireRoot, PurgeBatch, SweepStops, Tick, viewVars
  <2>4. \A o \in Promoter : o # q => job'[o] = job[o]
    <3>1. \/ job' = [job EXCEPT ![q].step = "verifying", ![q].before = cur]
          \/ Ends(q) \/ Goes(q, "degrading")
      BY <2>3 DEF PublishRoot, RestorePrevious
    <3> QED  BY <2>1, <3>1 DEF Ends, Goes
  <2>5. p = q  BY <2>4 DEF At
  <2>6. RestorePrevious(p)  BY <2>3, <2>5 DEF PublishRoot, At
  <2>7. gen = job[p].expected + 1 /\ cur' = prev
    BY <2>2, <2>6 DEF RestorePrevious, Restorable
  <2>8. cur = job[p].mine /\ prev = job[p].before
    BY <2>7 DEF IInv, FlipInv, At, Flipped
  <2> QED  BY <2>7, <2>8 DEF Mine
<1> QED  BY <1>1, PromotionInvariant, PTL DEF RestoresItsOwn, Spec

-------------------------------------------------------------------------------
(* The queue of expired roots.                                             *)

\* Removing one element from a list without repetitions.
LEMMA Removed ==
    ASSUME NEW T, NEW q \in Seq(T), NEW i \in DOMAIN q, IsInjective(q)
    PROVE  /\ RemoveAt(q, i) \in Seq(T) /\ IsInjective(RemoveAt(q, i))
           /\ Range(RemoveAt(q, i)) = Range(q) \ {q[i]}
  <1> DEFINE W == RemoveAt(q, i)
             front == SubSeq(q, 1, i - 1)
             back == SubSeq(q, i + 1, Len(q))
  <1>0. Len(q) \in Nat /\ i \in 1..Len(q) /\ DOMAIN q = 1..Len(q) /\ i \in Nat
    OBVIOUS
  <1>1. /\ front \in Seq(T) /\ Len(front) = i - 1
        /\ \A j \in 1..(i - 1) : front[j] = q[j]
    BY <1>0
  <1>2. /\ back \in Seq(T) /\ Len(back) = Len(q) - i
        /\ \A j \in 1..(Len(q) - i) : back[j] = q[j + i]
    BY <1>0
  <1>3. W = front \o back
    BY DEF RemoveAt
  <1> HIDE DEF front, back, W
  <1>4. W \in Seq(T) /\ Len(W) = Len(q) - 1
    <2>1. W \in Seq(T) /\ Len(W) = Len(front) + Len(back)
      BY <1>1, <1>2, <1>3, ConcatProperties
    <2> QED BY <1>0, <1>1, <1>2, <2>1
  <1>5. DOMAIN W = 1..(Len(q) - 1)
    BY <1>0, <1>4
  <1>6. \A j \in 1..(i - 1) : W[j] = q[j]
    BY <1>0, <1>1, <1>2, <1>3
  <1>7. ASSUME NEW j \in i..(Len(q) - 1)
        PROVE  W[j] = q[j + 1]
    <2>1. W[j] = back[j - (i - 1)]
      BY <1>0, <1>1, <1>2, <1>3
    <2>2. j - (i - 1) \in 1..(Len(q) - i) /\ (j - (i - 1)) + i = j + 1
      BY <1>0
    <2> QED BY <1>2, <2>1, <2>2
  <1> DEFINE at(j) == IF j < i THEN j ELSE j + 1
  <1>8. \A j \in DOMAIN W : at(j) \in DOMAIN q \ {i} /\ W[j] = q[at(j)]
    BY <1>0, <1>5, <1>6, <1>7
  <1>9. IsInjective(W)
    <2> SUFFICES ASSUME NEW j \in DOMAIN W, NEW k \in DOMAIN W, W[j] = W[k]
                 PROVE  j = k
      BY DEF IsInjective
    <2>1. at(j) = at(k)
      BY <1>8 DEF IsInjective
    <2> QED BY <1>0, <1>5, <2>1
  <1>10. Range(W) = Range(q) \ {q[i]}
    <2>1. ASSUME NEW j \in DOMAIN q, j # i PROVE q[j] \in Range(W)
      <3>1. CASE j < i
        BY <1>0, <1>5, <1>6, <3>1 DEF Range
      <3>2. CASE j > i
        <4>1. j - 1 \in DOMAIN W /\ j - 1 \in i..(Len(q) - 1) /\ (j - 1) + 1 = j
          BY <1>0, <1>5, <3>2
        <4>2. W[j - 1] = q[j]
          BY <1>7, <4>1
        <4> QED BY <4>1, <4>2 DEF Range
      <3> QED BY <1>0, <2>1, <3>1, <3>2
    <2>2. ASSUME NEW j \in DOMAIN W PROVE W[j] \in Range(q) /\ W[j] # q[i]
      BY <1>8 DEF Range, IsInjective
    <2>3. \A x \in Range(W) : \E j \in DOMAIN W : x = W[j]
      BY DEF Range
    <2>4. \A x \in Range(q) : \E j \in DOMAIN q : x = q[j]
      BY DEF Range
    <2> QED BY <2>1, <2>2, <2>3, <2>4
  <1> QED BY <1>4, <1>9, <1>10 DEF W

\* Appending distinct new elements.
LEMMA Appended ==
    ASSUME NEW T, NEW q \in Seq(T), NEW s \in Seq(T), IsInjective(q), IsInjective(s),
           Range(q) \cap Range(s) = {}
    PROVE  /\ q \o s \in Seq(T) /\ IsInjective(q \o s)
           /\ Range(q \o s) = Range(q) \cup Range(s)
  <1> DEFINE W == q \o s
  <1>0. /\ Len(q) \in Nat /\ Len(s) \in Nat /\ DOMAIN q = 1..Len(q) /\ DOMAIN s = 1..Len(s)
        /\ W \in Seq(T) /\ Len(W) = Len(q) + Len(s) /\ DOMAIN W = 1..(Len(q) + Len(s))
    OBVIOUS
  <1>1. \A j \in DOMAIN q : W[j] = q[j]
    OBVIOUS
  <1>2. \A j \in DOMAIN W : j \notin DOMAIN q => j - Len(q) \in DOMAIN s /\ W[j] = s[j - Len(q)]
    BY <1>0
  <1>3. \A j \in DOMAIN s : j + Len(q) \in DOMAIN W /\ W[j + Len(q)] = s[j]
    BY <1>0
  <1> HIDE DEF W
  <1>4. IsInjective(W)
    <2> SUFFICES ASSUME NEW j \in DOMAIN W, NEW k \in DOMAIN W, W[j] = W[k]
                 PROVE  j = k
      BY DEF IsInjective
    <2>1. CASE j \in DOMAIN q /\ k \in DOMAIN q
      BY <1>1, <2>1 DEF IsInjective
    <2>2. CASE j \notin DOMAIN q /\ k \notin DOMAIN q
      <3>1. j - Len(q) = k - Len(q)
        BY <1>2, <2>2 DEF IsInjective
      <3> QED BY <1>0, <3>1
    <2>3. CASE (j \in DOMAIN q) # (k \in DOMAIN q)
      BY <1>1, <1>2, <2>3 DEF Range
    <2> QED BY <2>1, <2>2, <2>3
  <1>5. Range(W) \subseteq Range(q) \cup Range(s)
    BY <1>1, <1>2 DEF Range
  <1>6. \A j \in DOMAIN q : j \in DOMAIN W
    BY <1>0
  <1>7. Range(q) \cup Range(s) \subseteq Range(W)
    BY <1>1, <1>3, <1>6 DEF Range
  <1> QED BY <1>0, <1>4, <1>5, <1>7 DEF W

\* SetToSeqs lists every element of a finite set once.
LEMMA ListedOnce ==
    ASSUME NEW T, NEW S \in SUBSET T, IsFiniteSet(S), NEW s \in SetToSeqs(S)
    PROVE  s \in Seq(T) /\ IsInjective(s) /\ Range(s) = S
  <1> DEFINE D == 1..Cardinality(S)
  <1>1. Cardinality(S) \in Nat
    BY FS_CardinalityType
  <1>2. s \in [D -> S] /\ \A i, j \in D : i # j => s[i] # s[j]
    BY DEF SetToSeqs
  <1>3. s \in Injection(D, S)
    BY <1>2 DEF Injection, IsInjective
  <1>4. IsFiniteSet(D) /\ Cardinality(D) = Cardinality(S)
    BY <1>1, FS_Interval
  <1>5. s \in Surjection(D, S)
    BY <1>3, <1>4, FS_Injection
  <1>6. Range(s) = S
    BY <1>5 DEF Surjection, Range
  <1>7. s \in Seq(T)
    BY <1>1, <1>2
  <1> QED BY <1>3, <1>6, <1>7 DEF Injection

\* The sweeper's candidates are exactly the roots whose lease has run out.
LeaseInv ==
    /\ rlease \in [Root -> 0..RootLease]
    /\ \A r \in Root : rlease[r] > 0 => rstate[r] # "ABSENT"
    /\ queue \in Seq(Root) /\ IsInjective(queue)
    /\ \A r \in Root : rlease[r] = 0 /\ rstate[r] # "ABSENT" <=> r \in Range(queue)

LEMMA WithoutOne ==
    ASSUME LeaseInv, NEW r
    PROVE  /\ Without(r) \in Seq(Root) /\ IsInjective(Without(r))
           /\ Range(Without(r)) = Range(queue) \ {r}
  <1>1. CASE r \in Range(queue)
    <2>1. PICK i \in DOMAIN queue : queue[i] = r /\ Without(r) = RemoveAt(queue, i)
      BY <1>1 DEF Without, Range
    <2> QED BY <2>1, Removed DEF LeaseInv
  <1>2. CASE r \notin Range(queue)
    BY <1>2 DEF Without, LeaseInv
  <1> QED BY <1>1, <1>2

\* A step that changes one root.
LEMMA OneRoot ==
    ASSUME LeaseInv, NEW r \in Root,
           rlease' \in [Root -> 0..RootLease],
           \A n \in Root \ {r} : rlease'[n] = rlease[n] /\ rstate'[n] = rstate[n],
           rstate'[r] # "ABSENT", queue' \in Seq(Root), IsInjective(queue'),
           Range(queue') \ {r} = Range(queue) \ {r}, rlease'[r] = 0 <=> r \in Range(queue')
    PROVE  LeaseInv'
  <1>1. \A n \in Root : rlease'[n] > 0 => rstate'[n] # "ABSENT"
    BY DEF LeaseInv
  <1>2. \A n \in Root : rlease'[n] = 0 /\ rstate'[n] # "ABSENT" <=> n \in Range(queue')
    <2>1. \A n \in Root \ {r} : n \in Range(queue') <=> n \in Range(queue)
      OBVIOUS
    <2> QED BY <2>1 DEF LeaseInv
  <1> QED BY <1>1, <1>2 DEF LeaseInv

LEMMA LeaseBegin ==
    ASSUME IInv, LeaseInv, NEW p \in Promoter, BeginRoot(p)
    PROVE  LeaseInv'
  <1>1. PICK r \in Root :
          /\ rstate[r] = "ABSENT" /\ rstate' = [rstate EXCEPT ![r] = "BUILDING"]
          /\ rlease' = [rlease EXCEPT ![r] = RootLease] /\ UNCHANGED queue
    BY DEF BeginRoot
  <1>2. RootLease \in 0..RootLease /\ RootLease # 0
    BY PromotionAssumption
  <1>3. r \notin Range(queue) /\ rstate \in [Root -> RootStates]
    BY <1>1 DEF LeaseInv, IInv, RootInv, TypeInv
  <1> QED BY <1>1, <1>2, <1>3, OneRoot DEF LeaseInv

LEMMA LeaseRenew ==
    ASSUME IInv, LeaseInv, NEW p \in Promoter, RenewRoot(p)
    PROVE  LeaseInv'
  <1>1. CASE UNCHANGED <<rlease, queue>>
    BY <1>1 DEF RenewRoot, LeaseInv
  <1>2. CASE /\ rstate[Mine(p)] = "BUILDING" /\ rlease' = [rlease EXCEPT ![Mine(p)] = RootLease]
             /\ queue' = Without(Mine(p))
    <2>1. Mine(p) \in Root /\ UNCHANGED rstate
      BY DEF RenewRoot, At, Mine, IInv, RootInv, BuilderInv, Building
    <2>2. RootLease \in 0..RootLease /\ RootLease # 0
      BY PromotionAssumption
    <2>3. /\ queue' \in Seq(Root) /\ IsInjective(queue')
          /\ Range(queue') = Range(queue) \ {Mine(p)}
      BY <1>2, WithoutOne
    <2>4. /\ rlease' \in [Root -> 0..RootLease] /\ rlease'[Mine(p)] # 0
          /\ \A n \in Root \ {Mine(p)} : rlease'[n] = rlease[n]
      BY <1>2, <2>1, <2>2 DEF LeaseInv
    <2> HIDE DEF Mine
    <2> QED BY <1>2, <2>1, <2>3, <2>4, OneRoot
  <1> QED BY <1>1, <1>2 DEF RenewRoot

LEMMA LeaseComplete ==
    ASSUME IInv, LeaseInv, NEW p \in Promoter, CompleteRoot(p)
    PROVE  LeaseInv'
  <1>1. UNCHANGED <<rlease, queue>>
    BY DEF CompleteRoot
  <1>2. CASE UNCHANGED rstate
    BY <1>1, <1>2 DEF LeaseInv
  <1>3. CASE rstate[Mine(p)] = "BUILDING" /\ rstate' = [rstate EXCEPT ![Mine(p)] = "COMPLETE"]
    <2>1. rstate \in [Root -> RootStates]
      BY DEF IInv, RootInv, TypeInv
    <2>2. \A r \in Root : rstate'[r] = "ABSENT" <=> rstate[r] = "ABSENT"
      BY <1>3, <2>1
    <2> QED BY <1>1, <2>2 DEF LeaseInv
  <1> QED BY <1>2, <1>3 DEF CompleteRoot

LEMMA LeaseRetire ==
    ASSUME IInv, LeaseInv, NEW s \in Sweeper, RetireRoot(s)
    PROVE  LeaseInv'
  <1> DEFINE r == row[s]
  <1>1. UNCHANGED rlease /\ r \in Root /\ rstate \in [Root -> RootStates]
    BY DEF RetireRoot, IInv, RootInv, TypeInv, SweepInv
  <1>2. CASE UNCHANGED <<rstate, queue>>
    BY <1>1, <1>2 DEF LeaseInv
  <1>3. CASE /\ Retirable(r) /\ rstate' = [rstate EXCEPT ![r] = "ABANDONED"]
             /\ queue' = Append(Without(r), r)
    <2>1. rlease[r] = 0
      BY <1>1, <1>3, PromotionAssumption DEF Retirable, LeaseLive, LeaseInv
    <2>2. /\ Without(r) \in Seq(Root) /\ IsInjective(Without(r))
          /\ Range(Without(r)) = Range(queue) \ {r}
      BY WithoutOne
    <2>3. << r >> \in Seq(Root) /\ IsInjective(<< r >>) /\ Range(<< r >>) = {r}
      BY <1>1 DEF IsInjective, Range
    <2>4. queue' = Without(r) \o << r >>
      BY <1>1, <1>3, <2>2, AppendIsConcat
    <2>5. /\ queue' \in Seq(Root) /\ IsInjective(queue')
          /\ Range(queue') = Range(Without(r)) \cup {r}
      <3>1. Range(Without(r)) \cap Range(<< r >>) = {}
        BY <2>2, <2>3
      <3> DEFINE rest == Without(r)
                 last == << r >>
      <3>2. /\ rest \in Seq(Root) /\ last \in Seq(Root) /\ IsInjective(rest) /\ IsInjective(last)
            /\ Range(rest) \cap Range(last) = {} /\ Range(last) = {r} /\ queue' = rest \o last
        BY <2>2, <2>3, <2>4, <3>1
      <3> HIDE DEF rest, last
      <3>3. /\ rest \o last \in Seq(Root) /\ IsInjective(rest \o last)
            /\ Range(rest \o last) = Range(rest) \cup Range(last)
        BY <3>2, Appended
      <3> QED BY <3>2, <3>3 DEF rest
    <2>6. rstate'[r] # "ABSENT" /\ \A n \in Root \ {r} : rstate'[n] = rstate[n]
      BY <1>1, <1>3
    <2> HIDE DEF r
    <2> QED BY <1>1, <2>1, <2>2, <2>5, <2>6, OneRoot DEF LeaseInv
  <1> QED BY <1>2, <1>3 DEF RetireRoot

LEMMA LeaseTick ==
    ASSUME LeaseInv, Tick
    PROVE  LeaseInv'
  <1> DEFINE S == {r \in Root : rlease[r] = 1}
  <1>1. PICK s \in SetToSeqs(S) : queue' = queue \o s
    BY DEF Tick
  <1>2. IsFiniteSet(S) /\ S \in SUBSET Root
    <2>1. IsFiniteSet(Root)
      BY PromotionAssumption, FS_Interval DEF Root
    <2> QED BY <2>1, FS_Subset
  <1>3. s \in Seq(Root) /\ IsInjective(s) /\ Range(s) = S
    BY <1>2, ListedOnce
  <1>4. Range(queue) \cap Range(s) = {}
    BY <1>3 DEF LeaseInv
  <1>5. /\ queue' \in Seq(Root) /\ IsInjective(queue')
        /\ Range(queue') = Range(queue) \cup S
    BY <1>1, <1>3, <1>4, Appended DEF LeaseInv
  <1>6. rlease' = [r \in Root |-> IF rlease[r] > 0 THEN rlease[r] - 1 ELSE 0] /\ UNCHANGED rstate
    BY DEF Tick
  <1>7. \A r \in Root : /\ rlease[r] \in Nat /\ rlease'[r] \in 0..RootLease
                        /\ rlease'[r] > 0 => rlease[r] > 0
                        /\ rlease'[r] = 0 <=> rlease[r] = 0 \/ r \in S
    BY <1>6, PromotionAssumption DEF LeaseInv
  <1>8. rlease' \in [Root -> 0..RootLease]
    BY <1>6, <1>7
  <1>9. \A r \in Root : rlease'[r] = 0 /\ rstate'[r] # "ABSENT" <=> r \in Range(queue')
    BY <1>5, <1>6, <1>7 DEF LeaseInv
  <1> QED BY <1>5, <1>6, <1>7, <1>8, <1>9 DEF LeaseInv

LEMMA LeaseStep ==
    ASSUME IInv, LeaseInv, [Next]_vars
    PROVE  LeaseInv'
  <1>1. CASE UNCHANGED <<rstate, rlease, queue>>
    BY <1>1 DEF LeaseInv
  <1> QED BY <1>1, LeaseBegin, LeaseRenew, LeaseComplete, LeaseRetire, LeaseTick
          DEF Next, Promotes, Sweeps, FindPublishableRoot, WriteBatch, ReadView, PublishRoot,
              VerifyAfterFlip, RestorePrevious, MarkDegraded, GiveUp, SweepViewRoots, LookAtRoot,
              PurgeBatch, SweepStops, rootVars, vars

-------------------------------------------------------------------------------
(* A call of promote_snapshot flips the view at most twice.                *)

\* The flips that a call may still make: its publication, and its restore.
FlipsLeft(p) ==
    CASE job[p].step \in Building \cup {"beginning", "reading", "publishing"} -> 2
      [] job[p].step \in {"verifying", "restoring"} -> 1
      [] OTHER -> 0

Ahead(n) == {p \in Promoter : FlipsLeft(p) >= n}

\* Generations are paid for by the calls that were begun.
Budget ==
    /\ tries \in 0..MaxTries
    /\ \A p \in Promoter : job[p].expected \in Count
    /\ IsFiniteSet(Ahead(1)) /\ IsFiniteSet(Ahead(2))
    /\ gen + 2 * tries + Cardinality(Ahead(1)) + Cardinality(Ahead(2)) <= 2 * MaxTries

\* One promoter moves and the others stay.
Others(p) == \A q \in Promoter \ {p} : job'[q] = job[q]

LEMMA FlipsAre ==
    ASSUME NEW p \in Promoter
    PROVE  FlipsLeft(p) \in {0, 1, 2} /\ FlipsLeft(p)' \in {0, 1, 2}
  BY DEF FlipsLeft

\* A set of promoters that changes in one of them.
LEMMA CountOne ==
    ASSUME NEW S, NEW R, NEW p, IsFiniteSet(S), R \ {p} = S \ {p}
    PROVE  /\ IsFiniteSet(R) /\ Cardinality(R) \in Nat /\ Cardinality(S) \in Nat
           /\ Cardinality(R) + (IF p \in S THEN 1 ELSE 0) = Cardinality(S) + (IF p \in R THEN 1 ELSE 0)
  <1> DEFINE Z == S \ {p}
  <1>1. IsFiniteSet(Z) /\ Cardinality(S) = Cardinality(Z) + (IF p \in S THEN 1 ELSE 0)
    <2>1. /\ IsFiniteSet(Z) /\ Cardinality(S) \in Nat
          /\ Cardinality(Z) = IF p \in S THEN Cardinality(S) - 1 ELSE Cardinality(S)
      BY FS_RemoveElement, FS_CardinalityType
    <2> QED BY <2>1
  <1>2. R = IF p \in R THEN Z \cup {p} ELSE Z
    OBVIOUS
  <1>3. p \notin Z /\ Cardinality(Z) \in Nat
    BY <1>1, FS_CardinalityType
  <1> HIDE DEF Z
  <1>4. IsFiniteSet(Z \cup {p}) /\ Cardinality(Z \cup {p}) = Cardinality(Z) + 1
    BY <1>1, <1>3, FS_AddElement
  <1>5. IsFiniteSet(R) /\ Cardinality(R) = Cardinality(Z) + (IF p \in R THEN 1 ELSE 0)
    BY <1>1, <1>2, <1>3, <1>4
  <1> QED BY <1>1, <1>3, <1>5

\* A step of p that pays for its flips.
LEMMA BudgetPaid ==
    ASSUME IInv, Budget, NEW p \in Promoter, Others(p), gen' \in Nat, tries' \in 0..MaxTries,
           job'[p].expected \in Count,
           gen' + 2 * tries' + FlipsLeft(p)' <= gen + 2 * tries + FlipsLeft(p)
    PROVE  Budget'
  <1>1. \A q \in Promoter \ {p} : FlipsLeft(q)' = FlipsLeft(q)
    BY DEF Others, FlipsLeft
  <1>2. /\ (Ahead(1))' \ {p} = Ahead(1) \ {p} /\ (Ahead(2))' \ {p} = Ahead(2) \ {p}
        /\ p \in Ahead(1) <=> FlipsLeft(p) >= 1
        /\ p \in (Ahead(1))' <=> FlipsLeft(p)' >= 1
        /\ p \in Ahead(2) <=> FlipsLeft(p) >= 2
        /\ p \in (Ahead(2))' <=> FlipsLeft(p)' >= 2
    BY <1>1 DEF Ahead
  <1> DEFINE a1 == Cardinality(Ahead(1))
             a2 == Cardinality(Ahead(2))
             b1 == Cardinality((Ahead(1))')
             b2 == Cardinality((Ahead(2))')
             f == FlipsLeft(p)
             g == FlipsLeft(p)'
  <1>3. /\ IsFiniteSet((Ahead(1))') /\ b1 \in Nat /\ a1 \in Nat
        /\ b1 + (IF f >= 1 THEN 1 ELSE 0) = a1 + (IF g >= 1 THEN 1 ELSE 0)
    BY <1>2, CountOne DEF Budget
  <1>4. /\ IsFiniteSet((Ahead(2))') /\ b2 \in Nat /\ a2 \in Nat
        /\ b2 + (IF f >= 2 THEN 1 ELSE 0) = a2 + (IF g >= 2 THEN 1 ELSE 0)
    BY <1>2, CountOne DEF Budget
  <1>5. /\ gen + 2 * tries + a1 + a2 <= 2 * MaxTries
        /\ gen \in Nat /\ tries \in Nat /\ gen' \in Nat /\ tries' \in Nat
    BY PromotionAssumption DEF Budget, IInv, RootInv, TypeInv
  <1>6. f \in {0, 1, 2} /\ g \in {0, 1, 2} /\ gen' + 2 * tries' + g <= gen + 2 * tries + f
    BY FlipsAre
  <1> HIDE DEF a1, a2, b1, b2, f, g
  <1>7. gen' + 2 * tries' + b1 + b2 <= 2 * MaxTries
    <2>1. b1 + b2 + f = a1 + a2 + g
      BY <1>3, <1>4, <1>6
    <2> DEFINE u == gen + 2 * tries
               v == gen' + 2 * tries'
               m == 2 * MaxTries
    <2>2. u \in Nat /\ v \in Nat /\ m \in Nat
      <3>1. /\ \A n \in Nat : 2 * n \in Nat
            /\ \A k, n \in Nat : k + 2 * n \in Nat
        OBVIOUS
      <3> QED BY <1>5, <3>1, PromotionAssumption, Zenon
    <2>3. u + a1 + a2 <= m /\ v + g <= u + f
      BY <1>5, <1>6
    <2> HIDE DEF u, v, m
    <2>4. v + b1 + b2 <= m
      BY <1>3, <1>4, <1>6, <2>1, <2>2, <2>3
    <2> QED BY <2>4 DEF v, m
  <1>8. \A q \in Promoter : job'[q].expected \in Count
    BY DEF Others, Budget
  <1> QED BY <1>3, <1>4, <1>7, <1>8 DEF Budget, b1, b2

LEMMA GenerationBound ==
    ASSUME IInv, Budget
    PROVE  gen \in Count
  <1>1. /\ Cardinality(Ahead(1)) \in Nat /\ Cardinality(Ahead(2)) \in Nat /\ gen \in Nat /\ tries \in Nat
        /\ gen + 2 * tries + Cardinality(Ahead(1)) + Cardinality(Ahead(2)) <= 2 * MaxTries
    BY FS_CardinalityType, PromotionAssumption DEF Budget, IInv, RootInv, TypeInv
  <1> HIDE DEF Ahead
  <1> QED BY <1>1, PromotionAssumption DEF Count

LEMMA BudgetStep ==
    ASSUME IInv, Budget, [Next]_vars
    PROVE  Budget'
  <1>0. /\ job \in [Promoter -> JobsOfNat] /\ gen \in Nat /\ tries \in Nat /\ tries \in 0..MaxTries
        /\ gen \in Count /\ 0 \in Count
    BY GenerationBound, PromotionAssumption DEF IInv, RootInv, TypeInv, Budget, Count
  <1>1. CASE UNCHANGED <<job, gen, tries>>
    BY <1>1 DEF Budget, Ahead, FlipsLeft
  <1>2. ASSUME NEW p \in Promoter, Ends(p), UNCHANGED tries, gen' \in Nat, gen' <= gen + FlipsLeft(p)
        PROVE  Budget'
    <2>1. Others(p) /\ job'[p] = Idle
      BY <1>0, <1>2 DEF Ends, Others
    <2>2. job'[p].step = "idle" /\ job'[p].expected = 0
      BY <2>1 DEF Idle
    <2>3. FlipsLeft(p)' = 0
      BY <2>2 DEF FlipsLeft, Building
    <2> QED BY <1>0, <1>2, <2>1, <2>2, <2>3, FlipsAre, BudgetPaid
  <1>3. ASSUME NEW p \in Promoter, NEW t \in PromoterSteps, Goes(p, t), UNCHANGED tries, gen' \in Nat,
               gen' + FlipsLeft(p)' <= gen + FlipsLeft(p)
        PROVE  Budget'
    <2>1. Others(p) /\ job'[p].expected = job[p].expected
      BY <1>0, <1>3, Went DEF Others
    <2> QED BY <1>0, <1>3, <2>1, FlipsAre, BudgetPaid DEF Budget
  <1>4. ASSUME NEW p \in Promoter, NEW s \in Snapshot, FindPublishableRoot(p, s)
        PROVE  Budget'
    <2>1. /\ Others(p) /\ job'[p].step \in {"beginning", "reading"}
          /\ job'[p].expected = job[p].expected
      BY <1>0, <1>4 DEF FindPublishableRoot, Others, JobsOfNat
    <2>2. tries > 0 /\ tries' = tries - 1 /\ UNCHANGED gen /\ job[p].step = "idle"
      BY <1>4 DEF FindPublishableRoot, At, viewVars
    <2>3. FlipsLeft(p) = 0 /\ FlipsLeft(p)' = 2
      BY <2>1, <2>2 DEF FlipsLeft, Building
    <2>4. tries' \in 0..MaxTries /\ 2 * tries' + 2 <= 2 * tries /\ tries' \in Nat
      BY <1>0, <2>2, PromotionAssumption
    <2> QED BY <1>0, <2>1, <2>2, <2>3, <2>4, BudgetPaid DEF Budget
  <1>5. ASSUME NEW p \in Promoter, BeginRoot(p) \/ ReadView(p)
        PROVE  Budget'
    <2>1. /\ Others(p) /\ job'[p].step \in {"writing", "publishing"}
          /\ job'[p].expected \in {job[p].expected, gen}
      BY <1>0, <1>5 DEF BeginRoot, ReadView, Others, JobsOfNat
    <2>2. UNCHANGED <<gen, tries>> /\ job[p].step \in {"beginning", "reading"}
      BY <1>5 DEF BeginRoot, ReadView, At, viewVars
    <2>3. FlipsLeft(p) = 2 /\ FlipsLeft(p)' = 2
      BY <2>1, <2>2 DEF FlipsLeft, Building
    <2> QED BY <1>0, <2>1, <2>2, <2>3, BudgetPaid DEF Budget
  <1>6. ASSUME NEW p \in Promoter, WriteBatch(p) \/ CompleteRoot(p) \/ VerifyAfterFlip(p)
        PROVE  Budget'
    <2>1. UNCHANGED <<gen, tries>>
      BY <1>6 DEF WriteBatch, CompleteRoot, VerifyAfterFlip, viewVars
    <2>2. CASE Ends(p)
      BY <1>0, <1>2, <2>1, <2>2, FlipsAre
    <2>3. ASSUME NEW t \in {"renewing", "reading", "restoring"}, Goes(p, t),
                 /\ t = "restoring" => job[p].step = "verifying"
                 /\ t # "restoring" => job[p].step \in Building
          PROVE  Budget'
      <3>1. t \in PromoterSteps /\ job'[p].step = t
        BY <1>0, <2>3, Went DEF PromoterSteps
      <3>2. FlipsLeft(p)' = FlipsLeft(p)
        BY <2>3, <3>1 DEF FlipsLeft, Building
      <3> QED BY <1>0, <1>3, <2>1, <2>3, <3>1, <3>2, FlipsAre
    <2> QED BY <1>6, <2>2, <2>3 DEF WriteBatch, CompleteRoot, VerifyAfterFlip, At, Building
  <1>7. ASSUME NEW p \in Promoter, RenewRoot(p)
        PROVE  Budget'
    <2>1. UNCHANGED <<gen, tries>> /\ job[p].step = "renewing"
      BY <1>7 DEF RenewRoot, At, viewVars
    <2>2. CASE Ends(p)
      BY <1>0, <1>2, <2>1, <2>2, FlipsAre
    <2>3. CASE NextBatch(p)
      <3>1. /\ Others(p) /\ job'[p].step \in Building /\ job'[p].expected = job[p].expected
        BY <1>0, <2>3 DEF NextBatch, Goes, Others, JobsOfNat, Building
      <3>2. FlipsLeft(p) = 2 /\ FlipsLeft(p)' = 2
        BY <2>1, <3>1 DEF FlipsLeft, Building
      <3> QED BY <1>0, <2>1, <3>1, <3>2, BudgetPaid DEF Budget
    <2> QED BY <1>7, <2>2, <2>3 DEF RenewRoot
  <1>8. ASSUME NEW p \in Promoter, PublishRoot(p)
        PROVE  Budget'
    <2>1. UNCHANGED tries /\ job[p].step = "publishing"
      BY <1>8 DEF PublishRoot, At
    <2>2. CASE Ends(p) /\ UNCHANGED gen
      BY <1>0, <1>2, <2>1, <2>2, FlipsAre
    <2>3. CASE gen' = gen + 1 /\ job' = [job EXCEPT ![p].step = "verifying", ![p].before = cur]
      <3>1. Others(p) /\ job'[p].step = "verifying" /\ job'[p].expected = job[p].expected
        BY <1>0, <2>3 DEF Others, JobsOfNat
      <3>2. FlipsLeft(p) = 2 /\ FlipsLeft(p)' = 1
        BY <2>1, <3>1 DEF FlipsLeft, Building
      <3> QED BY <1>0, <2>1, <2>3, <3>1, <3>2, BudgetPaid DEF Budget
    <2> QED BY <1>8, <2>2, <2>3 DEF PublishRoot
  <1>9. ASSUME NEW p \in Promoter, RestorePrevious(p)
        PROVE  Budget'
    <2>1. UNCHANGED tries /\ job[p].step = "restoring" /\ gen' \in {gen, gen + 1}
      BY <1>9 DEF RestorePrevious, At
    <2>2. FlipsLeft(p) = 1 /\ gen' \in Nat /\ gen' <= gen + 1
      BY <1>0, <2>1 DEF FlipsLeft, Building
    <2>3. CASE Ends(p)
      BY <1>2, <2>1, <2>2, <2>3
    <2>4. CASE Goes(p, "degrading")
      <3>1. "degrading" \in PromoterSteps /\ job'[p].step = "degrading"
        BY <1>0, <2>4, Went DEF PromoterSteps
      <3>2. FlipsLeft(p)' = 0
        BY <3>1 DEF FlipsLeft, Building
      <3> QED BY <1>3, <2>1, <2>2, <2>4, <3>1, <3>2
    <2> QED BY <1>9, <2>3, <2>4 DEF RestorePrevious
  <1>10. ASSUME NEW p \in Promoter, MarkDegraded(p) \/ GiveUp(p)
         PROVE  Budget'
    <2>1. Ends(p) /\ UNCHANGED <<gen, tries>>
      BY <1>10 DEF MarkDegraded, GiveUp, viewVars
    <2> QED BY <1>0, <1>2, <2>1, FlipsAre
  <1>11. ASSUME NEW s \in Sweeper, Sweeps(s) \/ SweepStops(s)
         PROVE  UNCHANGED <<job, gen, tries>>
    BY <1>11 DEF Sweeps, SweepViewRoots, LookAtRoot, RetireRoot, PurgeBatch, SweepStops, viewVars
  <1>12. CASE Tick \/ UNCHANGED vars
    BY <1>1, <1>12 DEF Tick, vars, viewVars
  <1> QED BY <1>1, <1>4, <1>5, <1>6, <1>7, <1>8, <1>9, <1>10, <1>11, <1>12 DEF Next, Promotes

-------------------------------------------------------------------------------
(* Types.                                                                  *)

\* What a builder writes down and what a sweeper has read.
NotesInv ==
    /\ rsnap \in [Root -> Snapshot \cup {NoSnapshot}]
    /\ hint \in [Sweeper -> Seq(Root)]

LEMMA NotedStep ==
    ASSUME IInv, LeaseInv, NotesInv, [Next]_vars
    PROVE  NotesInv'
  <1>1. rsnap' \in [Root -> Snapshot \cup {NoSnapshot}]
    <2>1. ASSUME NEW p \in Promoter, BeginRoot(p)
          PROVE  rsnap' \in [Root -> Snapshot \cup {NoSnapshot}]
      <3>1. job[p].want \in Snapshot \cup {NoSnapshot}
        BY DEF IInv, RootInv, TypeInv, JobsOfNat
      <3> QED BY <2>1, <3>1 DEF BeginRoot, NotesInv
    <2> QED BY <2>1 DEF NotesInv, Next, Promotes, Sweeps, FindPublishableRoot, WriteBatch, RenewRoot,
                  CompleteRoot, ReadView, PublishRoot, VerifyAfterFlip, RestorePrevious, MarkDegraded,
                  GiveUp, SweepViewRoots, LookAtRoot, RetireRoot, PurgeBatch, SweepStops, Tick,
                  rootVars, vars
  <1>2. hint' \in [Sweeper -> Seq(Root)]
    <2>1. ASSUME NEW s \in Sweeper, SweepViewRoots(s)
          PROVE  hint' \in [Sweeper -> Seq(Root)]
      <3>1. AtMost(queue, SweepLimit) \in Seq(Root)
        <4>1. queue \in Seq(Root) /\ SweepLimit \in Nat
          BY PromotionAssumption DEF LeaseInv
        <4>2. Len(queue) \in Nat
          BY <4>1
        <4>3. (IF Len(queue) < SweepLimit THEN Len(queue) ELSE SweepLimit) \in 0..Len(queue)
          BY <4>1, <4>2
        <4> QED BY <4>1, <4>3 DEF AtMost
      <3> QED BY <2>1, <3>1 DEF SweepViewRoots, NotesInv
    <2>2. ASSUME NEW s \in Sweeper, LookAtRoot(s)
          PROVE  hint' \in [Sweeper -> Seq(Root)]
      <3>1. hint[s] # << >> => Tail(hint[s]) \in Seq(Root)
        BY DEF NotesInv
      <3> QED BY <2>2, <3>1 DEF LookAtRoot, NotesInv
    <2>3. ASSUME NEW s \in Sweeper, SweepStops(s)
          PROVE  hint' \in [Sweeper -> Seq(Root)]
      <3>1. << >> \in Seq(Root)
        OBVIOUS
      <3> QED BY <2>3, <3>1 DEF SweepStops, NotesInv
    <2> QED BY <2>1, <2>2, <2>3 DEF NotesInv, Next, Promotes, Sweeps, FindPublishableRoot, BeginRoot,
                  WriteBatch, RenewRoot, CompleteRoot, ReadView, PublishRoot, VerifyAfterFlip,
                  RestorePrevious, MarkDegraded, GiveUp, RetireRoot, PurgeBatch, Tick, sweepVars, vars
  <1> QED BY <1>1, <1>2 DEF NotesInv

LEMMA TypeInit ==
    ASSUME Init
    PROVE  LeaseInv /\ Budget /\ NotesInv
  <1>1. LeaseInv
    <2>1. << >> \in Seq(Root) /\ IsInjective(<< >>) /\ Range(<< >>) = {}
      BY DEF IsInjective, Range
    <2> QED BY <2>1, PromotionAssumption DEF Init, LeaseInv
  <1>2. \A p \in Promoter : job[p].step = "idle" /\ job[p].expected = 0
    BY DEF Init, Idle
  <1>3. Ahead(1) = {} /\ Ahead(2) = {}
    BY <1>2 DEF Ahead, FlipsLeft, Building
  <1>4. Budget
    <2>1. gen = 0 /\ tries = MaxTries /\ MaxTries \in Nat
      BY PromotionAssumption DEF Init
    <2>2. gen + 2 * tries + 0 + 0 <= 2 * MaxTries /\ tries \in 0..MaxTries /\ 0 \in Count
      BY <2>1 DEF Count
    <2> QED BY <1>2, <1>3, <2>2, FS_EmptySet DEF Budget
  <1> QED BY <1>1, <1>4 DEF Init, NotesInv

\* Type correctness of the promotion, with what it says of the code: the sweeper's
\* candidates are exactly the roots whose lease ran out, each listed once, and a view
\* has at most two generations for every promotion that was begun.
THEOREM PromotionTypeCorrect == Spec => []PTypeOK
  <1> DEFINE Inv == IInv /\ LeaseInv /\ Budget /\ NotesInv
  <1>1. Init => Inv
    BY InitInv, TypeInit
  <1>2. Inv /\ [Next]_vars => Inv'
    BY NextInv, LeaseStep, BudgetStep, NotedStep
  <1>3. Inv => PTypeOK
    <2> SUFFICES ASSUME Inv PROVE PTypeOK
      OBVIOUS
    <2>1. gen \in Count
      BY GenerationBound
    <2>2. job \in [Promoter -> Jobs]
      <3>1. job \in [Promoter -> JobsOfNat]
        BY DEF IInv, RootInv, TypeInv
      <3>2. \A p \in Promoter : job[p] \in Jobs
        BY <3>1 DEF Budget, Jobs, JobsOfNat
      <3> QED BY <3>1, <3>2
    <2> QED BY <2>1, <2>2 DEF PTypeOK, IInv, RootInv, TypeInv, LeaseInv, Budget, NotesInv
  <1> QED BY <1>1, <1>2, <1>3, PTL DEF Spec

================================================================================
