---------------------------- MODULE MCDispatcher ----------------------------
(* Instances of Dispatcher small enough for TLC. *)
EXTENDS Dispatcher, TLC

CONSTANTS m1, m2, m3

(* How many documents the messages name. *)
Two        == m1 :> 2
TwoAndOne  == m1 :> 2 @@ m2 :> 1
TwoAndNone == m1 :> 2 @@ m2 :> 1 @@ m3 :> 0
=============================================================================
