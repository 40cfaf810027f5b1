------------------------------ MODULE EpisodeJobs ------------------------------
(***************************************************************************)
(* What enrichment promises about the stored episodes, whoever works on    *)
(* them: a job is claimed, one claim at a time, and only the claim that    *)
(* stands decides its outcome.  A finished job is reopened only if it was  *)
(* finished on the word of another job.                                    *)
(***************************************************************************)
EXTENDS Naturals

CONSTANT Job

VARIABLES
    phase,      \* none, waiting, running, done or failed
    claim,      \* number of the last claim of each job
    author,     \* the claim that decided its last outcome
    borrowed    \* done without extraction, because another job extracts the text

vars == <<phase, claim, author, borrowed>>

Init ==
    /\ phase = [j \in Job |-> "none"]
    /\ claim = [j \in Job |-> 0]
    /\ author = [j \in Job |-> 0]
    /\ borrowed = [j \in Job |-> FALSE]

Moves(j, from, to) == phase[j] \in from /\ phase'[j] \in to
KeepsClaim(j) == claim'[j] = claim[j]
KeepsAuthor(j) == author'[j] = author[j]
KeepsWord(j) == borrowed'[j] = borrowed[j]

Accept(j) ==
    Moves(j, {"none"}, {"waiting"}) /\ KeepsClaim(j) /\ KeepsAuthor(j) /\ KeepsWord(j)

Begin(j) ==
    /\ Moves(j, {"waiting", "failed"}, {"running"})
    /\ claim'[j] = claim[j] + 1
    /\ KeepsAuthor(j) /\ KeepsWord(j)

\* The attempt of the standing claim ends it.
Outcome(j) ==
    /\ Moves(j, {"running"}, {"done", "failed", "waiting"})
    /\ author'[j] = claim[j]
    /\ borrowed'[j] => phase'[j] = "done"
    /\ KeepsClaim(j)

\* The claim is taken away; its attempt has no say any more.
Revoke(j) ==
    Moves(j, {"running"}, {"waiting", "failed"}) /\ KeepsClaim(j) /\ KeepsAuthor(j) /\ KeepsWord(j)

GiveUp(j) ==
    Moves(j, {"waiting"}, {"failed"}) /\ KeepsClaim(j) /\ KeepsAuthor(j) /\ KeepsWord(j)

Reopen(j) ==
    Moves(j, {"failed"}, {"waiting"}) /\ KeepsClaim(j) /\ KeepsAuthor(j) /\ KeepsWord(j)

\* The failed job turns out to have been done.
Adopt(j) ==
    Moves(j, {"failed"}, {"done"}) /\ KeepsClaim(j) /\ KeepsAuthor(j) /\ KeepsWord(j)

\* The job it relied on failed.
Return(j) ==
    /\ Moves(j, {"done"}, {"waiting"}) /\ borrowed[j] /\ ~borrowed'[j]
    /\ KeepsClaim(j) /\ KeepsAuthor(j)

Stays(j) == phase'[j] = phase[j] /\ KeepsClaim(j) /\ KeepsAuthor(j) /\ KeepsWord(j)

\* One query may move several jobs.
Next ==
    \A j \in Job :
        \/ Accept(j) \/ Begin(j) \/ Outcome(j) \/ Revoke(j) \/ GiveUp(j) \/ Reopen(j)
        \/ Adopt(j) \/ Return(j) \/ Stays(j)

Spec == Init /\ [][Next]_vars
===============================================================================
