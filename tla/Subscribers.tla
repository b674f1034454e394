----------------------------- MODULE Subscribers -----------------------------
(***************************************************************************)
(* One viewer's paid subscription to one channel, day by day: what the     *)
(* subscription events and the subscriber badge (routes/webhooks.rs), the  *)
(* viewer card (services/follow_sync.rs) and the expiry sweep              *)
(* (tasks/reconcile.rs) make of is_subscriber and sub_expires_at.          *)
(*                                                                         *)
(* Days are counted from today, so expires = -1 is yesterday and every     *)
(* date moves by one when a day passes; a date older than the sweep looks  *)
(* at is not told apart.                                                   *)
(*                                                                         *)
(* Kick is external: it sells periods, tells each payment in an event with *)
(* or without its new end, and delivers events in any order, within Delay  *)
(* days.  Kick sends no event when a subscription ends.                    *)
(***************************************************************************)
EXTENDS Integers, FiniteSets

CONSTANTS
  Period,      \* days a payment buys (30)
  Delay,       \* Kick delivers an event within these many days
  MaxEvents,   \* bound: events on their way
  NoDate       \* sub_expires_at is NULL

(* reconcile.rs, webhooks.rs: '2 days', '3 days', '1 day'.  *)
Grace == 2
Keep  == 3
Near  == 1

ASSUME SubscribersAssumption ==
  /\ Delay \in 0..Grace /\ Period \in Nat /\ Period > Delay /\ MaxEvents \in Nat
  /\ NoDate \notin Int

Oldest == -(Grace + 1)
Dates  == Oldest..(Period + Keep)    \* as far as a date can matter

(* The event of a payment, or a chat message with the subscriber badge.    *)
(* until: the day the payment reaches to; left: days it may still take.    *)
Payments == [kind : {"payment"}, until : Dates \cup {NoDate},
             newest : BOOLEAN, left : 0..Delay]
Badges   == [kind : {"badge"}, left : 0..Delay]

VARIABLES
  paid,        \* Kick: days left of what was paid, 0 on the last, -1 after it
  onTheWay,    \* Kick: events sent and not yet applied
  subscriber,  \* is_subscriber
  expires,     \* sub_expires_at, or NoDate
  doubt,       \* history: paid after a gap, or the last payment's end not in the row
  proven       \* history: days since a badge or card was applied, at most Keep + 1

subVars == <<paid, onTheWay, subscriber, expires, doubt, proven>>

SubTypeOK ==
  /\ paid \in -1..Period
  /\ onTheWay \subseteq Payments \cup Badges
  /\ subscriber \in BOOLEAN /\ expires \in Dates \cup {NoDate}
  /\ doubt \in BOOLEAN /\ proven \in 0..(Keep + 1)

-----------------------------------------------------------------------------
(* Kick.  *)
Active == paid >= 0

Superseded(e) == IF e.kind = "badge" THEN e ELSE [e EXCEPT !.newest = FALSE]

(* A period is bought, renewed or given, on the last day or after a gap.   *)
Pay ==
  \E end \in {Period, NoDate} :
    /\ ~Active \/ paid = 0
    /\ Cardinality(onTheWay) < MaxEvents
    /\ paid' = Period /\ doubt' = (doubt \/ ~Active)
    /\ onTheWay' = {Superseded(e) : e \in onTheWay}
                     \cup {[kind |-> "payment", until |-> end, newest |-> TRUE, left |-> Delay]}
    /\ UNCHANGED <<subscriber, expires, proven>>

(* The subscriber writes in chat.  *)
Chat ==
  /\ Active /\ Cardinality(onTheWay) < MaxEvents
  /\ onTheWay' = onTheWay \cup {[kind |-> "badge", left |-> Delay]}
  /\ UNCHANGED <<paid, subscriber, expires, doubt, proven>>

Yesterday(d) == IF d = NoDate \/ d = Oldest THEN d ELSE d - 1

(* A day passes; Kick has delivered what it had to by then.  *)
Day ==
  /\ \A e \in onTheWay : e.left > 0
  /\ paid' = IF Active THEN paid - 1 ELSE paid
  /\ onTheWay' = {IF e.kind = "badge" THEN [e EXCEPT !.left = @ - 1]
                  ELSE [e EXCEPT !.left = @ - 1, !.until = Yesterday(@)] : e \in onTheWay}
  /\ expires' = Yesterday(expires)
  /\ proven' = IF proven > Keep THEN proven ELSE proven + 1
  /\ UNCHANGED <<subscriber, doubt>>

-----------------------------------------------------------------------------
(* The statements.  *)

(* subscription.new, subscription.renewal, and each giftee of              *)
(* subscription.gifts: COALESCE($n, sub_expires_at).                       *)
ApplyPayment(e) ==
  /\ e \in onTheWay /\ e.kind # "badge"
  /\ onTheWay' = onTheWay \ {e}
  /\ subscriber' = TRUE
  /\ expires' = IF e.until = NoDate THEN expires ELSE e.until
  /\ doubt' = (~e.newest \/ e.until = NoDate)
  /\ UNCHANGED <<paid, proven>>

(* Written only when the expiry is unset or under a day away.  *)
BadgeDate(d) == IF d = NoDate \/ d < Near THEN Keep ELSE d

(* The subscriber badge raises the flag and never clears it.  *)
ApplyBadge(e) ==
  /\ e \in onTheWay /\ e.kind = "badge"
  /\ onTheWay' = onTheWay \ {e}
  /\ subscriber' = TRUE
  /\ expires' = BadgeDate(expires)
  /\ proven' = 0
  /\ UNCHANGED <<paid, doubt>>

(* GREATEST(COALESCE(sub_expires_at, now()), now() + '3 days')  *)
CardDate(d) == IF d = NoDate \/ d < Keep THEN Keep ELSE d

(* Mutant: the card keeps whoever already is a subscriber.  *)
ApplyCardKeeps ==
  /\ subscriber' = (subscriber \/ Active)
  /\ expires' = IF subscriber \/ Active THEN CardDate(expires) ELSE expires
  /\ proven' = IF Active THEN 0 ELSE proven
  /\ UNCHANGED <<paid, onTheWay, doubt>>

(* A follow probe reads the viewer's card, which shows an active           *)
(* subscription or none.                                                   *)
ApplyCard ==
  /\ subscriber' = (subscriber \/ Active)
  /\ expires' = IF Active THEN CardDate(expires) ELSE expires
  /\ proven' = IF Active THEN 0 ELSE proven
  /\ UNCHANGED <<paid, onTheWay, doubt>>

(* Mutant: the sweep leaves no grace.  *)
LapsedAtOnce(d) == d # NoDate /\ d < 0

Lapsed(d) == d # NoDate /\ d < -Grace

(* The expiry sweep of a reconcile.  *)
Sweep ==
  /\ subscriber /\ Lapsed(expires)
  /\ subscriber' = FALSE
  /\ UNCHANGED <<paid, onTheWay, expires, doubt, proven>>

SubInit ==
  /\ paid = -1 /\ onTheWay = {} /\ subscriber = FALSE /\ expires = NoDate
  /\ doubt = FALSE /\ proven = Keep + 1

ApplyEvent == \E e \in onTheWay : ApplyPayment(e) \/ ApplyBadge(e)

SubNext ==
  \/ Pay \/ Chat \/ Day
  \/ ApplyEvent \/ ApplyCard \/ Sweep

SubSpec == SubInit /\ [][SubNext]_subVars

(* Days pass, Kick sends an event until it is answered, and the channel is  *)
(* reconciled again and again.                                             *)
SubFairSpec == SubSpec /\ WF_subVars(Day) /\ WF_subVars(ApplyEvent) /\ WF_subVars(Sweep)

-----------------------------------------------------------------------------
(* The sweep takes nothing from a viewer whose subscription is paid, when  *)
(* the payment left no gap and its event brought its end, and no older     *)
(* event came after it: the grace covers an event as late as Delay.  Nor   *)
(* does it in the Keep days after a badge or a card showed a subscription, *)
(* whatever the stored expiry was ("the expiry sweep must not take it away *)
(* in the next few days").                                                 *)
PayingKept ==
  [][subscriber /\ ~subscriber' /\ ~doubt => ~Active /\ proven > Keep]_subVars

(* A subscription that is not paid any more is taken in the end; only one  *)
(* whose end nobody ever told stays.                                       *)
LapseNoticed ==
  (subscriber /\ ~Active) ~> (~subscriber \/ Active \/ expires = NoDate)
=============================================================================
