-------------------------- MODULE MCScalingAdapter --------------------------
(* Instances of ScalingAdapter for TLC. *)
EXTENDS ScalingAdapter

TwoSizes == {1, 2}
NoLag == {}
=============================================================================
