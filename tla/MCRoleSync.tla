----------------------------- MODULE MCRoleSync -----------------------------
(* The instance of RoleSync for TLC.  Members are numbers because LIMIT    *)
(* takes them in order.  Of the two rules one is wider, so a save may add  *)
(* members or drop some; a link that loses its channel drops all.  It      *)
(* begins with the narrow rule, which one member matches or both.          *)
EXTENDS RoleSync

CONSTANTS v1, v2

Narrow     == {v1}
NarrowOnly == {Narrow}
TwoRules   == {Narrow, {v1, v2}}

FirstMatch == {f \in [Members -> FactValues] : 2 \in Matching(f, Narrow)}
=============================================================================
