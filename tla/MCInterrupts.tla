---------------------------- MODULE MCInterrupts ----------------------------
(***************************************************************************)
(* A node with two questions, beside one with one and one with none; and a *)
(* node with two questions alone.                                          *)
(***************************************************************************)
EXTENDS Interrupts, TLC

TwoOneNone == "a" :> 2 @@ "b" :> 1 @@ "c" :> 0
TwoAlone   == "a" :> 2
=============================================================================
