------------------------------ MODULE MCChannels ------------------------------
(***************************************************************************)
(* Instance of Channels for TLC: the loop and one channel_refresh job      *)
(* share a channel that is connected twice and has one or two event types. *)
(***************************************************************************)
EXTENDS Channels

CONSTANTS loop, job, admin, followed, chat
=============================================================================
