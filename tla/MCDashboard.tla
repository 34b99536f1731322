----------------------------- MODULE MCDashboard -----------------------------
(***************************************************************************)
(* Dashboard for TLC: one option, an index in range and one out of range.  *)
(***************************************************************************)
EXTENDS Dashboard

MCLabels == <<"low">>
MCIndexes == {Num(0), Num(1)}
MCInitial == [value |-> 1, index |-> Num(0)]
MCRoots == <<"u1", "u2", "u3">>
============================================================================
