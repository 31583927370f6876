------------------------------ MODULE MCRestart ------------------------------
(* Instances of Restart for TLC. *)
EXTENDS Restart

NamesAB == <<"a", "b">>

R(kind, size, deps) ==
  [kind |-> kind, size |-> size, width |-> 1, deps |-> deps, adapter |-> FALSE]

\* Two roles, the second one after the first, and scaled to 0: what matters
\* of it is when it is there.
TwoRoles ==
  {[roles |-> [r \in {"a", "b"} |-> IF r = "a" THEN R("StatefulSet", 1, <<>>)
                                              ELSE R("Deployment", 0, <<"a">>)],
    gang |-> FALSE]}

NoLag == {}
FirstRole == {"a"}
=============================================================================
