-------------------------- MODULE MCAlertEpisodes --------------------------
(* Small instances of AlertEpisodes for TLC. *)
EXTENDS AlertEpisodes, TLC

CONSTANTS w1, w2

TwoWorkers == {w1, w2}
OneWorker == {w1}
WorkerSymmetry == Permutations(TwoWorkers)
=============================================================================
