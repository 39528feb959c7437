------------------------------ MODULE MCDaemon ------------------------------
(* Small instances of Daemon for TLC. *)
EXTENDS Daemon, TLC

(* Lines 1 and 2 go to the extended log, line 3 to the transfer log. *)
LogOfThree == (1 :> "extended") @@ (2 :> "extended") @@ (3 :> "transfer")

(* One rotation, of the extended log. *)
RotateExtended == ("extended" :> 2) @@ ("transfer" :> 1)
=============================================================================
