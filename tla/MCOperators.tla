----------------------------- MODULE MCOperators -----------------------------
(***************************************************************************)
(* Instances of Operators for TLC.                                         *)
(***************************************************************************)
EXTENDS OperatorProperties

(* Two replicas of operator a and one of b.                                *)
ThreeNames == [p \in Processes |-> IF p = "b1" THEN "b" ELSE "a"]

(* A database and a schema in it.                                          *)
TwoKinds == [r \in Resources |-> r]
BothA == {[r \in Resources |-> "a"]}
TwoNeeds == [r \in Resources |-> {"app"}]

=============================================================================
