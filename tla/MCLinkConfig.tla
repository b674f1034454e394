----------------------------- MODULE MCLinkConfig -----------------------------
(***************************************************************************)
(* Instance of LinkConfig for TLC: two tabs, one channel, up to three      *)
(* saves and a link that is registered three times.                        *)
(***************************************************************************)
EXTENDS LinkConfig, TLC

CONSTANTS t1, t2, c1, none

TabSymmetry == Permutations(Tabs)
=============================================================================
