---------------------------- MODULE ViewPromotion ----------------------------
(***************************************************************************)
(* Promotion of a snapshot into a project's canonical view: a root is      *)
(* built beside the graph under a lease, one statement flips the view's    *)
(* pointer to it, a failed verification flips back, and a sweeper reclaims *)
(* what can never be published.  Sources: snapshot/view_root.py,           *)
(* canonical_view.py, promotion.py and the batched writer of               *)
(* snapshot_structure.py.                                                  *)
(*                                                                         *)
(* One view.  Every Cypher statement is one step: publish and retire both  *)
(* take the root's write lock before they read (publish_probe,             *)
(* retire_probe), so they serialise.  Between two statements of a promoter *)
(* anything may happen, its death included.  The lease is judged by the    *)
(* server's clock, so it is counted in ticks of one clock.                 *)
(***************************************************************************)
EXTENDS Integers, Sequences, FiniteSets, SequencesExt

CONSTANTS
    Promoter,    \* processes that call promote_snapshot
    Sweeper,     \* processes that call sweep_view_roots
    Snapshot,    \* snapshot ids
    NoSnapshot,
    MaxTries,    \* bound: promotions begun in all, so roots created
    Batches,     \* statements of write_snapshot_structure per root
    RootLease,   \* lease_seconds, in ticks
    SweepLimit   \* DEFAULT_SWEEP_LIMIT

ASSUME PromotionAssumption ==
    /\ MaxTries \in Nat
    /\ Batches \in Nat \ {0}
    /\ RootLease \in Nat \ {0}
    /\ SweepLimit \in Nat \ {0}

Root == 1..MaxTries
NoRoot == 0
Batch == 1..Batches
RootStates == {"ABSENT", "BUILDING", "COMPLETE", "ABANDONED"}
PromoterSteps == {"idle", "beginning", "writing", "renewing", "completing", "reading",
                  "publishing", "verifying", "restoring", "degrading"}
SweeperSteps == {"idle", "looking", "retiring", "purging"}
Count == 0..(2 * MaxTries)

VARIABLES
    rstate,     \* ViewRoot.state
    rlease,     \* ticks until lease_expires_at
    rsnap,      \* ViewRoot.snapshot_id
    nodes,      \* the write batches whose nodes carry view_root = r
    queue,      \* expired roots by coalesce(retired_at, lease_expires_at)
    cur, prev, gen, degraded,  \* the CanonicalView
    job,        \* each promoter's call of promote_snapshot
    spc, row, hint,  \* each sweeper: step, the root in hand, the candidates left
    tries,      \* promotions still to begin
    condemned   \* history: roots that failed verification after their last flip

rootVars == <<rstate, rlease, rsnap, nodes, queue>>
viewVars == <<cur, prev, gen, degraded>>
sweepVars == <<spc, row, hint>>
vars == <<rootVars, viewVars, job, tries, sweepVars, condemned>>

\* Its step, snapshot_id, root_id, next batch, expected generation and, for the
\* properties only, the current root that its flip replaced.
Jobs == [step : PromoterSteps, want : Snapshot \cup {NoSnapshot}, mine : Root \cup {NoRoot},
         at : Batch, expected : Count, before : Root \cup {NoRoot}]

Idle == [step |-> "idle", want |-> NoSnapshot, mine |-> NoRoot, at |-> 1, expected |-> 0,
         before |-> NoRoot]

PTypeOK ==
    /\ rstate \in [Root -> RootStates]
    /\ rlease \in [Root -> 0..RootLease]
    /\ rsnap \in [Root -> Snapshot \cup {NoSnapshot}]
    /\ nodes \in [Root -> SUBSET Batch]
    /\ queue \in Seq(Root) /\ IsInjective(queue)
    /\ \A r \in Root : rlease[r] = 0 /\ rstate[r] # "ABSENT" <=> r \in Range(queue)
    /\ cur \in Root \cup {NoRoot} /\ prev \in Root \cup {NoRoot}
    /\ gen \in Count /\ degraded \in BOOLEAN
    /\ job \in [Promoter -> Jobs]
    /\ spc \in [Sweeper -> SweeperSteps]
    /\ row \in [Sweeper -> Root \cup {NoRoot}]
    /\ hint \in [Sweeper -> Seq(Root)]
    /\ tries \in 0..MaxTries
    /\ condemned \subseteq Root

Init ==
    /\ rstate = [r \in Root |-> "ABSENT"]
    /\ rlease = [r \in Root |-> 0]
    /\ rsnap = [r \in Root |-> NoSnapshot]
    /\ nodes = [r \in Root |-> {}]
    /\ queue = << >>
    /\ cur = NoRoot /\ prev = NoRoot /\ gen = 0 /\ degraded = FALSE
    /\ job = [p \in Promoter |-> Idle]
    /\ spc = [s \in Sweeper |-> "idle"]
    /\ row = [s \in Sweeper |-> NoRoot]
    /\ hint = [s \in Sweeper |-> << >>]
    /\ tries = MaxTries
    /\ condemned = {}

At(p, step) == job[p].step = step
Mine(p) == job[p].mine
Goes(p, to) == job' = [job EXCEPT ![p].step = to]
Ends(p) == job' = [job EXCEPT ![p] = Idle]
Without(r) ==
    IF r \in Range(queue) THEN RemoveAt(queue, CHOOSE i \in DOMAIN queue : queue[i] = r) ELSE queue
LeaseLive(r) == rlease[r] > 0

-------------------------------------------------------------------------------
(* view_root.py: building a root; snapshot_structure.py: filling it.       *)

\* A retry adopts a COMPLETE root of the same snapshot that is still leased; of
\* several, the one completed last (any of them here).
FindPublishableRoot(p, s) ==
    LET found == {r \in Root : rsnap[r] = s /\ rstate[r] = "COMPLETE" /\ LeaseLive(r)} IN
    /\ At(p, "idle") /\ tries > 0
    /\ tries' = tries - 1
    /\ \/ \E r \in found :
            job' = [job EXCEPT ![p].step = "reading", ![p].want = s, ![p].mine = r]
       \/ found = {} /\ job' = [job EXCEPT ![p].step = "beginning", ![p].want = s]
    /\ UNCHANGED <<rootVars, viewVars, sweepVars, condemned>>

\* root_id is fresh: roots are numbered in creation order.
BeginRoot(p) ==
    /\ At(p, "beginning")
    /\ \E r \in Root :
        /\ rstate[r] = "ABSENT" /\ \A n \in Root : n < r => rstate[n] # "ABSENT"
        /\ rstate' = [rstate EXCEPT ![r] = "BUILDING"]
        /\ rlease' = [rlease EXCEPT ![r] = RootLease]
        /\ rsnap' = [rsnap EXCEPT ![r] = job[p].want]
        /\ job' = [job EXCEPT ![p].step = "writing", ![p].mine = r]
    /\ UNCHANGED <<nodes, queue, viewVars, tries, sweepVars, condemned>>

\* One UNWIND ... CREATE.  It does not look at the root, which may be retired.
WriteBatch(p) ==
    /\ At(p, "writing")
    /\ nodes' = [nodes EXCEPT ![Mine(p)] = @ \cup {job[p].at}]
    /\ Goes(p, "renewing")
    /\ UNCHANGED <<rstate, rlease, rsnap, queue, viewVars, tries, sweepVars, condemned>>

\* Mutant: one batch too many.
NextBatchLate(p) ==
    IF job[p].at > Batches THEN Goes(p, "completing")
    ELSE job' = [job EXCEPT ![p].step = "writing", ![p].at = @ + 1]

NextBatch(p) ==
    IF job[p].at = Batches THEN Goes(p, "completing")
    ELSE job' = [job EXCEPT ![p].step = "writing", ![p].at = @ + 1]

\* renew() after every batch: a root that is still BUILDING gets a new lease even
\* if the old one had lapsed; any other root ends the promotion.
RenewRoot(p) ==
    /\ At(p, "renewing")
    /\ \/ /\ rstate[Mine(p)] = "BUILDING"
          /\ rlease' = [rlease EXCEPT ![Mine(p)] = RootLease]
          /\ queue' = Without(Mine(p))
          /\ NextBatch(p)
       \/ /\ rstate[Mine(p)] # "BUILDING"
          /\ Ends(p)
          /\ UNCHANGED <<rlease, queue>>
    /\ UNCHANGED <<rstate, rsnap, nodes, viewVars, tries, sweepVars, condemned>>

CompleteRoot(p) ==
    LET mayComplete == rstate[Mine(p)] = "BUILDING" /\ LeaseLive(Mine(p)) IN
    /\ At(p, "completing")
    /\ \/ mayComplete /\ rstate' = [rstate EXCEPT ![Mine(p)] = "COMPLETE"] /\ Goes(p, "reading")
       \/ ~mayComplete /\ UNCHANGED rstate /\ Ends(p)
    /\ UNCHANGED <<rlease, rsnap, nodes, queue, viewVars, tries, sweepVars, condemned>>

-------------------------------------------------------------------------------
(* canonical_view.py and the order promote_snapshot calls it in.           *)

ReadView(p) ==
    /\ At(p, "reading")
    /\ job' = [job EXCEPT ![p].step = "publishing", ![p].expected = gen]
    /\ UNCHANGED <<rootVars, viewVars, tries, sweepVars, condemned>>

\* Mutant: a retry publishes the root that is already current.
PublishableAgain(r, g) ==
    rstate[r] = "COMPLETE" /\ LeaseLive(r) /\ gen = g /\ ~degraded

\* The WHERE clauses of publish_root.
Publishable(r, g) ==
    /\ rstate[r] = "COMPLETE" /\ LeaseLive(r)
    /\ gen = g /\ ~degraded /\ cur # r

\* A refused publish changes nothing; the reads that follow choose the error, and
\* ERR_VIEW_ALREADY_CURRENT is taken for success.
PublishRoot(p) ==
    /\ At(p, "publishing")
    /\ \/ /\ Publishable(Mine(p), job[p].expected)
          /\ cur' = Mine(p) /\ prev' = cur /\ gen' = gen + 1
          /\ condemned' = condemned \ {Mine(p)}
          /\ job' = [job EXCEPT ![p].step = "verifying", ![p].before = cur]
       \/ /\ ~Publishable(Mine(p), job[p].expected)
          /\ Ends(p)
          /\ UNCHANGED <<cur, prev, gen, condemned>>
    /\ UNCHANGED <<rootVars, degraded, tries, sweepVars>>

\* verify_after_flip passes, or was not given, or raises.
VerifyAfterFlip(p) ==
    /\ At(p, "verifying")
    /\ Ends(p) \/ Goes(p, "restoring")
    /\ UNCHANGED <<rootVars, viewVars, tries, sweepVars, condemned>>

\* Mutant: the restore flips back whatever the view has become.
RestorableAny(p) == prev # NoRoot

\* The WHERE clause of restore_previous at the generation this promoter published.
Restorable(p) == gen = job[p].expected + 1 /\ prev # NoRoot

\* Compensation: flip back.  A restore that is refused, or that raises before or
\* after it took effect, is followed by mark_degraded.
RestorePrevious(p) ==
    /\ At(p, "restoring")
    /\ \/ /\ Restorable(p)
          /\ cur' = prev /\ prev' = NoRoot /\ gen' = gen + 1
          /\ \/ Ends(p) /\ condemned' = condemned \cup {Mine(p)}
             \/ Goes(p, "degrading") /\ UNCHANGED condemned
       \/ Goes(p, "degrading") /\ UNCHANGED <<cur, prev, gen, condemned>>
    /\ UNCHANGED <<rootVars, degraded, tries, sweepVars>>

\* Mutant: only the generation that was published may be marked.
MarkDegradedAtGeneration(p) ==
    /\ At(p, "degrading")
    /\ degraded' = (degraded \/ gen = job[p].expected + 1)
    /\ condemned' = condemned \cup {Mine(p)}
    /\ Ends(p)
    /\ UNCHANGED <<rootVars, cur, prev, gen, tries, sweepVars>>

\* Whatever the generation is by now; nothing clears the mark.
MarkDegraded(p) ==
    /\ At(p, "degrading")
    /\ degraded' = TRUE
    /\ condemned' = condemned \cup {Mine(p)}
    /\ Ends(p)
    /\ UNCHANGED <<rootVars, cur, prev, gen, tries, sweepVars>>

\* The promoter dies, its write or its first verification fails, or a call raises:
\* promote_snapshot leaves everything where it is.
GiveUp(p) ==
    /\ ~At(p, "idle")
    /\ Ends(p)
    /\ UNCHANGED <<rootVars, viewVars, tries, sweepVars, condemned>>

-------------------------------------------------------------------------------
(* view_root.py: the sweeper.                                              *)

AtMost(q, n) == SubSeq(q, 1, IF Len(q) < n THEN Len(q) ELSE n)

\* The row is done with.
NextRow(s) ==
    /\ spc' = [spc EXCEPT ![s] = "looking"]
    /\ row' = [row EXCEPT ![s] = NoRoot]

\* Mutant: a root that is already retired is not looked at again.
SweepViewRootsOnce(s) ==
    LET open == SelectSeq(queue, LAMBDA r : rstate[r] # "ABANDONED") IN
    /\ spc[s] = "idle" /\ open # << >>
    /\ hint' = [hint EXCEPT ![s] = AtMost(open, SweepLimit)]
    /\ NextRow(s)
    /\ UNCHANGED <<rootVars, viewVars, job, tries, condemned>>

\* The candidate query: a hint, LIMIT rows of the oldest expired or retired roots.
SweepViewRoots(s) ==
    /\ spc[s] = "idle" /\ queue # << >>
    /\ hint' = [hint EXCEPT ![s] = AtMost(queue, SweepLimit)]
    /\ NextRow(s)
    /\ UNCHANGED <<rootVars, viewVars, job, tries, condemned>>

\* read_root() of the next row, or the end of the pass.
LookAtRoot(s) ==
    /\ spc[s] = "looking"
    /\ \/ /\ hint[s] # << >>
          /\ \E r \in Root :
              /\ r = Head(hint[s])
              /\ row' = [row EXCEPT ![s] = r]
              /\ spc' = [spc EXCEPT ![s] = IF rstate[r] = "ABANDONED" THEN "purging"
                                                                       ELSE "retiring"]
          /\ hint' = [hint EXCEPT ![s] = Tail(@)]
       \/ /\ hint[s] = << >>
          /\ spc' = [spc EXCEPT ![s] = "idle"]
          /\ UNCHANGED <<row, hint>>
    /\ UNCHANGED <<rootVars, viewVars, job, tries, condemned>>

\* Mutant: only the current root is spared.
RetirableUnlessCurrent(r) == rstate[r] # "ABANDONED" /\ ~LeaseLive(r) /\ cur # r

\* The guard of retire_root, decided under the root's lock.
Retirable(r) == rstate[r] # "ABANDONED" /\ ~LeaseLive(r) /\ r \notin {cur, prev}

RetireRoot(s) ==
    /\ spc[s] = "retiring"
    /\ \/ /\ Retirable(row[s])
          /\ rstate' = [rstate EXCEPT ![row[s]] = "ABANDONED"]
          /\ queue' = Append(Without(row[s]), row[s])
          /\ spc' = [spc EXCEPT ![s] = "purging"]
          /\ UNCHANGED row
       \/ ~Retirable(row[s]) /\ NextRow(s) /\ UNCHANGED <<rstate, queue>>
    /\ UNCHANGED <<rlease, rsnap, nodes, viewVars, job, tries, hint, condemned>>

\* One DETACH DELETE of at most a batch; the loop ends when it deletes nothing.
\* A retired root stays retired, so the check of purge_root never refuses here.
PurgeBatch(s) ==
    /\ spc[s] = "purging"
    /\ \/ /\ \E b \in nodes[row[s]] : nodes' = [nodes EXCEPT ![row[s]] = @ \ {b}]
          /\ UNCHANGED <<spc, row>>
       \/ nodes[row[s]] = {} /\ NextRow(s) /\ UNCHANGED nodes
    /\ UNCHANGED <<rstate, rlease, rsnap, queue, viewVars, job, tries, hint, condemned>>

\* The sweeper dies or a statement raises: the next pass starts over.
SweepStops(s) ==
    /\ row[s] # NoRoot \/ hint[s] # << >>
    /\ spc' = [spc EXCEPT ![s] = "idle"]
    /\ row' = [row EXCEPT ![s] = NoRoot]
    /\ hint' = [hint EXCEPT ![s] = << >>]
    /\ UNCHANGED <<rootVars, viewVars, job, tries, condemned>>

\* The server's clock: leases that run out now join the expired, in either order.
Tick ==
    /\ \E r \in Root : rlease[r] > 0
    /\ rlease' = [r \in Root |-> IF rlease[r] > 0 THEN rlease[r] - 1 ELSE 0]
    /\ \E s \in SetToSeqs({r \in Root : rlease[r] = 1}) : queue' = queue \o s
    /\ UNCHANGED <<rstate, rsnap, nodes, viewVars, job, tries, sweepVars, condemned>>

-------------------------------------------------------------------------------
Promotes(p) ==
    \/ BeginRoot(p) \/ WriteBatch(p) \/ RenewRoot(p) \/ CompleteRoot(p)
    \/ ReadView(p) \/ PublishRoot(p) \/ VerifyAfterFlip(p)
    \/ RestorePrevious(p) \/ MarkDegraded(p)

Sweeps(s) == SweepViewRoots(s) \/ LookAtRoot(s) \/ RetireRoot(s) \/ PurgeBatch(s)

Next ==
    \/ \E p \in Promoter : \/ \E s \in Snapshot : FindPublishableRoot(p, s)
                           \/ Promotes(p) \/ GiveUp(p)
    \/ \E s \in Sweeper : Sweeps(s) \/ SweepStops(s)
    \/ Tick

Spec == Init /\ [][Next]_vars

\* Time passes, a sweep that was started goes on, a next one follows it, and the
\* sweeper does not die in every pass for ever.
Fairness ==
    /\ WF_vars(Tick)
    /\ \A s \in Sweeper : WF_vars(Sweeps(s)) /\ <>[][~SweepStops(s)]_vars

LiveSpec == Spec /\ Fairness

-------------------------------------------------------------------------------
(* Properties.                                                             *)

\* "None of it may be readable as complete" (canonical_view.py): both roots a view
\* can answer from are COMPLETE and hold everything their builder wrote, whatever
\* builders, sweepers and restores race.
PointersWhole ==
    \A r \in {cur, prev} \ {NoRoot} : rstate[r] = "COMPLETE" /\ nodes[r] = Batch

\* The one generation of undo is never lost to a retry: the previous root is a
\* different one (publish_root refuses a root that is already current).
UndoIsAnother == cur # NoRoot => prev # cur

\* "A silent failure here is the one that leaves a bad root live with nothing
\* anywhere recording it" (_compensate): a root that failed its verification and
\* whose compensation returned is current only in a degraded view.
CondemnedIsMarked == cur \in condemned => degraded

\* restore_previous undoes the flip of its own promotion or nothing: it never flips
\* a view back from a generation that someone else published.
RestoresItsOwn ==
    [][\A p \in Promoter : At(p, "restoring") /\ job'[p].step # "restoring" /\ gen' > gen
            => cur = Mine(p) /\ cur' = job[p].before]_vars

\* A root that no pointer names and whose lease has run out is reclaimed: view_root.py,
\* "a root nobody can publish is eventually reclaimed".
Garbage(r) == rstate[r] # "ABSENT" /\ ~LeaseLive(r) /\ r \notin {cur, prev}

GarbageIsReclaimed == \A r \in Root : Garbage(r) ~> (nodes[r] = {} \/ ~Garbage(r))

===============================================================================
