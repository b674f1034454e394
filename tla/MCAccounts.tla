----------------------------- MODULE MCAccounts -----------------------------
(* Instances of Accounts for TLC: two members and the Kick accounts they   *)
(* sign in with, interchangeable in the safety run.                        *)
EXTENDS Accounts, TLC

AccountSymmetry ==
  Permutations(Members) \cup Permutations(Kicks) \cup Permutations(Requests) \cup
  Permutations(Workers)
=============================================================================
