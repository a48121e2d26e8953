---------------------------- MODULE MCDashboard ----------------------------
(* Constant values for the model checking of Dashboard. *)
EXTENDS Dashboard

CONSTANTS r1, r2, r3, list, trace

ThreeRows == {r1, r2, r3}
TwoTied   == (r1 :> 1) @@ (r2 :> 2) @@ (r3 :> 2)
TwoViews  == {list, trace}
OneTrace  == {trace}
RowsOf    == (list :> ThreeRows) @@ (trace :> {r1, r3})
=============================================================================
