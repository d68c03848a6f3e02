------------------------------ MODULE MCCommerce ------------------------------
(* A small instance of Commerce for TLC. *)
EXTENDS Commerce, TLC

MCPrice == [monthly |-> 1, lifetime |-> 2]
MCAmountOf == [t \in Transfers |-> IF t = CHOOSE u \in Transfers : TRUE THEN 1 ELSE 2]
MCDeltas == {-1}
MCResults == {-1, 1}
Symmetry == Permutations(Staff)
=============================================================================
