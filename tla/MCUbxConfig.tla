---------------------------- MODULE MCUbxConfig ----------------------------
(***************************************************************************)
(* Instances of UbxConfig: the driver's own address and another, receivers *)
(* before and after protocol version 27, keys of one byte and of four.     *)
(***************************************************************************)
EXTENDS UbxConfig

BothSides == {18, 27}

TwoWidths == LET short == CHOOSE x \in Keys : TRUE
             IN  [x \in Keys |-> IF x = short THEN 1 ELSE 4]

=============================================================================
