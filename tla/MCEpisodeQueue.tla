---------------------------- MODULE MCEpisodeQueue ----------------------------
(* Instances of the enrichment queue: two processes over one episode, and one   *)
(* process over a client episode and the projection it may rely on.             *)
EXTENDS EpisodeQueue, TLC

CONSTANTS c, j, p1, p2

OneEpisode == {c}
NoProjection == [e \in {c} |-> NoEpisode]
TwoEpisodes == {c, j}
ClientProjection == [e \in {c, j} |-> IF e = c THEN j ELSE NoEpisode]
OneProc == {p1}
TwoProcs == {p1, p2}
ProcSymmetry == Permutations(TwoProcs)
===============================================================================
