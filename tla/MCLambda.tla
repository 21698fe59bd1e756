------------------------------ MODULE MCLambda ------------------------------
(* An instance of LambdaDispatch small enough for TLC. *)
EXTENDS LambdaDispatch, TLC

CONSTANTS m1, m2, m3

(* How many documents the messages name; the third one cannot be read. *)
TwoAndOne == m1 :> 2 @@ m2 :> 1 @@ m3 :> 1
=============================================================================
