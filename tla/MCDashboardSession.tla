--------------------------- MODULE MCDashboardSession ---------------------------
(***************************************************************************)
(* Instances of DashboardSession for TLC.                                  *)
(***************************************************************************)
EXTENDS DashboardSession, TLC

CONSTANTS c1, c2, x, y, t, u

Symmetry == Permutations({c1, c2}) \cup Permutations({x, y})
BothMapped == [a \in {x, y} |-> t]
===============================================================================
