------------------------------ MODULE MCWebhook ------------------------------
(* Instances of Webhook for TLC. *)
EXTENDS Webhook

CONSTANTS e1, e2

Both(j, k) == [e \in Events |-> IF e = e1 THEN j ELSE k]

(* Two messages that contradict each other on one badge, and of which one  *)
(* raises a floor; a gift of subscriptions beside kicks; a follow beside   *)
(* kicks.                                                                  *)
Pairs == {Both("chat_moderator", "chat_subscriber"), Both("gifts", "add"),
          Both("set", "add")}
=============================================================================
