---------------------------- MODULE ScaleTarget ----------------------------
(***************************************************************************)
(* What a scaling adapter promises to the user whose role it scales.  The  *)
(* numbers written to spec.replicas of the adapter form a log.  The size   *)
(* of the role changes only at the user's hand or to a number of that log, *)
(* never to an older one than the last that was applied.  The last number  *)
(* may be applied again, over a size the user has set meanwhile; all else  *)
(* that the user has edited is left as it is.                              *)
(***************************************************************************)
EXTENDS Integers, Sequences

CONSTANT Numbers  \* the sizes asked for

VARIABLES
  log,      \* the numbers asked for, in the order of their writes
  applied,  \* how far into the log scaling has come
  size,     \* the size of the role, 0 while the group has no such role
  edits     \* the user's edits of the group, as their number

Init ==
  /\ log = <<>>
  /\ applied = 0
  /\ size \in Numbers
  /\ edits = 0

Ask ==
  /\ \E n \in Numbers : log' = Append(log, n)
  /\ UNCHANGED <<applied, size, edits>>

Apply(i) ==
  /\ i \in DOMAIN log /\ applied <= i
  /\ size' = log[i]
  /\ applied' = i
  /\ UNCHANGED <<log, edits>>

Edit ==
  /\ size' \in Numbers \cup {0}
  /\ edits' = edits + 1
  /\ UNCHANGED <<log, applied>>

Next == Ask \/ Edit \/ \E i \in DOMAIN log : Apply(i)

Spec == Init /\ [][Next]_<<log, applied, size, edits>>
=============================================================================
