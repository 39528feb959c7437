---------------------------- MODULE MCLogParser ----------------------------
(* A small instance of LogParser for TLC. *)
EXTENDS LogParser, TLC

CONSTANTS p1, p2, p3, f1, a1, a2

SomeCommands == {<<"CWD", 550>>}
PidSymmetry == Permutations(Pids) \cup Permutations(Accounts)
=============================================================================
