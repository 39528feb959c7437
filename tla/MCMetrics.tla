----------------------------- MODULE MCMetrics -----------------------------
(* Small instances of Metrics for TLC. *)
EXTENDS Metrics, TLC

CONSTANTS w1, w2, f1, s1, c1

Transfer(status, bytes, secs, muted) ==
    [action |-> "transfer", status |-> status, muted |-> muted, bytes |-> bytes, secs |-> secs]
Other(action, status) == [action |-> action, status |-> status, muted |-> FALSE, bytes |-> 0, secs |-> 0]

(* A failed transfer of an account that may be muted, a slow transfer of a *)
(* large file, and a directory that was not found.                         *)
RowOf == (f1 :> Transfer("fail", 0, 0, TRUE)) @@ (s1 :> Transfer("success", 4, 4, FALSE))
         @@ (c1 :> Other("cwd_fail", "fail"))

Small == [mad_k |-> 4, min_samples |-> 1, fail_rate_floor |-> 12, min_login_samples |-> 1,
          login_fail_rate_floor |-> 72, min_cwd_samples |-> 1, cwd_fail_floor |-> 0,
          min_large_samples |-> 1, throughput_drop |-> 60, throughput_slow_pct |-> 5]

(* A bucket of earlier days: two transfers, one of them large and fast. *)
Earlier(fails) == [transfers |-> 2, fails |-> fails, big |-> 1, bytes |-> 4, secs |-> 1,
                   logins |-> 1, loginFails |-> 0, cwd |-> 0, rows |-> {}]
PastUsual == <<Earlier(0), Earlier(0), Earlier(2)>>
PastsUpToFour == {<<>>, PastUsual, <<Earlier(0), Earlier(1), Earlier(2)>>,
                  <<Earlier(0), Earlier(0), Earlier(2), Earlier(0)>>}

WorkerSymmetry == Permutations(Workers)
=============================================================================
