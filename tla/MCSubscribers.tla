---------------------------- MODULE MCSubscribers ----------------------------
(***************************************************************************)
(* Instance of Subscribers for TLC: a month's period, and up to three      *)
(* events on their way.                                                    *)
(***************************************************************************)
EXTENDS Subscribers

CONSTANT none
=============================================================================
