----------------------------- MODULE MCGroupSet -----------------------------
(* Instances of GroupSet for TLC. *)
EXTENDS GroupSet

UpToThree == 0 .. 3
Behind == {"set", "groups"}
GroupsLag == {"groups"}
=============================================================================
