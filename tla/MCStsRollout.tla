---------------------------- MODULE MCStsRollout ----------------------------
(* Instances of StsRollout for TLC. *)
EXTENDS StsRollout

Int0 == [percent |-> FALSE, value |-> 0]
Int1 == [percent |-> FALSE, value |-> 1]
Pct50 == [percent |-> TRUE, value |-> 50]

NoLag == {}
AllLag == {"sts", "pods", "revisions"}
=============================================================================
