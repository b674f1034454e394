------------------------------- MODULE Channels -------------------------------
(***************************************************************************)
(* One Kick channel's sign-in and its event subscriptions: the broadcaster *)
(* connects it (routes/oauth.rs), and the reconcile loop and the           *)
(* channel_refresh jobs (tasks/reconcile.rs) get its access token          *)
(* (services/broadcaster_token.rs), repair its event subscriptions and     *)
(* expire the subscribers who lapsed.                                      *)
(*                                                                         *)
(* A refresh token is <<grant, turn>>: the sign-in it comes from, and how  *)
(* often Kick has rotated it since.  A reconcile reads the row, and reads  *)
(* it again under an advisory lock before it asks Kick; what Kick answers  *)
(* is stored, and the lock released, at commit.  Connecting takes no lock. *)
(*                                                                         *)
(* Kick is external.  Only the current turn of a grant that stands is      *)
(* accepted; it may be rotated or not; a spent one is refused with         *)
(* invalid_grant, and Kick may revoke the whole grant for it.  Revoking a  *)
(* grant may end the event subscriptions made with it.                     *)
(*                                                                         *)
(* Slugs, live state, encryption and the guilds that use the channel are   *)
(* left out; what the facts of a subscriber become is in Webhook.          *)
(***************************************************************************)
EXTENDS Integers, FiniteSets

CONSTANTS
  Loop,         \* the reconcile loop
  Jobs,         \* workers that may run a channel_refresh
  Connects,     \* callbacks that connect the channel
  Types,        \* EVENT_TYPES
  MaxGrants,    \* bound: sign-ins, the first one included
  MaxTurns,     \* bound: rotations of a grant
  MaxFaults     \* bound: lost answers, failed calls, handlers cut off, revocations

Syncers   == {Loop} \cup Jobs
Processes == Syncers \cup Connects

ASSUME ChannelsAssumption ==
  /\ Loop \notin Jobs /\ Syncers \cap Connects = {}
  /\ IsFiniteSet(Types)
  /\ MaxGrants \in Nat \ {0} /\ MaxTurns \in Nat /\ MaxFaults \in Nat

Grants == 1..MaxGrants
Tokens == Grants \X (0..MaxTurns)

VARIABLES
  stored,     \* the refresh token in the row
  fresh,      \* token_expires_at is more than REFRESH_SKEW_SECS away
  invalid,    \* token_invalid_at is set
  rows,       \* webhook_subscriptions: event types with an active row
  lapsed,     \* a subscriber's expiry passed more than the grace ago
  at,         \* each process: where it is
  asked,      \* {the refresh token it asks Kick with} or {}
  answer,     \* {what Kick answered: a refresh token} or {}
  holds,      \* {the grant whose access token it uses} or {}
  todo,       \* event types it has yet to subscribe
  standing,   \* Kick: grants that stand
  turn,       \* Kick: the turn of each grant that it accepts
  sending,    \* Kick: event types it sends us
  issued,     \* Kick: grants given so far
  lost,       \* history: grants whose newest token never reached the row
  raced,      \* history: a verdict on another token than the stored one
  faults

row      == <<stored, fresh, invalid>>
place    == <<at, asked, answer, holds, todo>>
kick     == <<standing, turn, sending, issued>>
clues    == <<lost, raced>>
vars     == <<row, rows, lapsed, place, kick, clues, faults>>

Places == {"idle", "token", "waiting", "asking", "answered", "refused",
           "repair", "subscribing", "sweep", "exchanged"}

TypeOK ==
  /\ stored \in Tokens
  /\ fresh \in BOOLEAN /\ invalid \in BOOLEAN /\ lapsed \in BOOLEAN
  /\ rows \subseteq Types /\ sending \subseteq Types
  /\ at \in [Processes -> Places]
  /\ asked \in [Processes -> SUBSET Tokens] /\ answer \in [Processes -> SUBSET Tokens]
  /\ holds \in [Processes -> SUBSET Grants]
  /\ todo \in [Processes -> SUBSET Types]
  /\ standing \subseteq Grants /\ turn \in [Grants -> 0..MaxTurns]
  /\ issued \in 0..MaxGrants /\ lost \subseteq Grants /\ raced \in BOOLEAN

Fault == faults < MaxFaults /\ faults' = faults + 1

(* What the broadcaster, Kick and time do between our steps.  *)
Accepted(t)  == t[1] \in standing /\ t[2] = turn[t[1]]
Dead(t)      == ~Accepted(t)
GrantsIn(ts) == {t[1] : t \in ts}

-----------------------------------------------------------------------------
(* Process p is done, or gone; its transaction and its lock with it.  *)
Leave(p, place_) ==
  /\ at'     = [at EXCEPT ![p] = place_]
  /\ asked'  = [asked EXCEPT ![p] = {}]
  /\ answer' = [answer EXCEPT ![p] = {}]
  /\ UNCHANGED todo

(* Mutant: without a token the whole reconcile ends.  *)
WithoutTokenReturns(p) ==
  Leave(p, "idle") /\ holds' = [holds EXCEPT ![p] = {}]

(* No token this cycle: live state and repair are skipped, the rest runs.  *)
WithoutToken(p) ==
  Leave(p, "sweep") /\ holds' = [holds EXCEPT ![p] = {}]

WithToken(p, gs) ==
  Leave(p, "repair") /\ holds' = [holds EXCEPT ![p] = gs]

(* pg_advisory_xact_lock: held from the second read to the commit.  *)
Locked == \E p \in Syncers : at[p] \in {"asking", "answered", "refused"}

(* A reconcile begins: a cycle of the loop, or a channel_refresh job, which  *)
(* a member's visit may have queued long before.                           *)
Start(p) ==
  /\ at[p] = "idle"
  /\ at' = [at EXCEPT ![p] = "token"]
  /\ UNCHANGED <<row, rows, lapsed, asked, answer, holds, todo, kick, clues, faults>>

(* Fast path, no lock.  *)
FastPath(p) ==
  /\ at[p] = "token"
  /\ \/ invalid /\ WithoutToken(p)
     \/ ~invalid /\ fresh /\ WithToken(p, {stored[1]})
     \/ ~invalid /\ ~fresh /\ Leave(p, "waiting") /\ UNCHANGED holds
  /\ UNCHANGED <<row, rows, lapsed, kick, clues, faults>>

(* Mutant: the refresh takes no lock.  *)
MayLockAlways(p) == at[p] = "waiting"

MayLock(p) == at[p] = "waiting" /\ ~Locked

(* Slow path: the row is read again once the lock is held.  *)
ReadAgain(p) ==
  /\ MayLock(p)
  /\ \/ invalid /\ WithoutToken(p)
     \/ ~invalid /\ fresh /\ WithToken(p, {stored[1]})
     \/ /\ ~invalid /\ ~fresh
        /\ at' = [at EXCEPT ![p] = "asking"]
        /\ asked' = [asked EXCEPT ![p] = {stored}]
        /\ UNCHANGED <<answer, holds, todo>>
  /\ UNCHANGED <<row, rows, lapsed, kick, clues, faults>>

(* Kick accepts the token, and rotates it or not; then the answer reaches  *)
(* us, or is lost on the way.                                              *)
KickGrants(p) ==
  \E t \in asked[p] :
    /\ at[p] = "asking" /\ Accepted(t)
    /\ \E n \in {t[2], t[2] + 1} :
         /\ n <= MaxTurns
         /\ turn' = [turn EXCEPT ![t[1]] = n]
         /\ \/ /\ answer' = [answer EXCEPT ![p] = {<<t[1], n>>}]
               /\ at' = [at EXCEPT ![p] = "answered"]
               /\ UNCHANGED <<asked, holds, todo, lost, faults>>
            \/ /\ Fault /\ WithoutToken(p)
               /\ lost' = IF n > t[2] THEN lost \cup {t[1]} ELSE lost
    /\ UNCHANGED <<row, rows, lapsed, standing, sending, issued, raced>>

(* Kick answers invalid_grant: the token was revoked or is spent.  *)
KickRefuses(p) ==
  \E t \in asked[p] :
    /\ at[p] = "asking" /\ Dead(t)
    /\ standing' \in {standing, standing \ {t[1]}}
    /\ at' = [at EXCEPT ![p] = "refused"]
    /\ UNCHANGED <<row, rows, lapsed, asked, answer, holds, todo, turn, sending, issued,
                   clues, faults>>

(* Mutant: any refusal is taken for a revoked grant.  *)
RefreshFailsFinally(p) ==
  /\ at[p] = "asking" /\ Fault
  /\ at' = [at EXCEPT ![p] = "refused"]
  /\ UNCHANGED <<row, rows, lapsed, asked, answer, holds, todo, kick, clues>>

(* The call fails in any other way: a transient failure.  *)
RefreshFails(p) ==
  /\ at[p] = "asking" /\ Fault /\ WithoutToken(p)
  /\ UNCHANGED <<row, rows, lapsed, kick, clues>>

(* The new tokens are stored, whatever the row holds by now, and the       *)
(* transaction commits.                                                    *)
StoreTokens(p) ==
  /\ at[p] = "answered"
  /\ stored' \in answer[p] /\ fresh' = TRUE /\ UNCHANGED invalid
  /\ WithToken(p, GrantsIn(answer[p]))
  /\ UNCHANGED <<rows, lapsed, kick, clues, faults>>

(* The channel is marked as needing a new sign-in, once.  *)
MarkInvalid(p) ==
  /\ at[p] = "refused"
  /\ invalid' = TRUE
  /\ raced' = IF invalid THEN raced ELSE asked[p] # {stored}
  /\ WithoutToken(p)
  /\ UNCHANGED <<stored, fresh, rows, lapsed, kick, lost, faults>>

-----------------------------------------------------------------------------
(* Event subscriptions.  *)

(* subscribe_missing_channel_events: the types without an active row.  *)
FindMissing(p) ==
  /\ at[p] = "repair"
  /\ todo' = [todo EXCEPT ![p] = Types \ rows]
  /\ at' = [at EXCEPT ![p] = "subscribing"]
  /\ UNCHANGED <<row, rows, lapsed, asked, answer, holds, kick, clues, faults>>

(* Mutant: the row is written whether or not Kick accepted.  *)
RecordsAlways(e, ok) == rows' = rows \cup {e}

Records(e, ok) == rows' = IF ok THEN rows \cup {e} ELSE rows

(* One type is subscribed; a failure is logged and the next one tried.     *)
(* Kick refuses an access token whose grant is gone.                       *)
Subscribe(p) ==
  \E e \in todo[p] :
    /\ at[p] = "subscribing"
    /\ todo' = [todo EXCEPT ![p] = @ \ {e}]
    /\ \/ /\ holds[p] \subseteq standing
          /\ sending' = sending \cup {e}
          /\ Records(e, TRUE) /\ UNCHANGED faults
       \/ /\ holds[p] \subseteq standing /\ Fault    \* accepted, and not recorded
          /\ sending' = sending \cup {e}
          /\ UNCHANGED rows
       \/ /\ Fault                                   \* not accepted
          /\ Records(e, FALSE) /\ UNCHANGED sending
       \/ /\ ~(holds[p] \subseteq standing)
          /\ Records(e, FALSE) /\ UNCHANGED <<sending, faults>>
    /\ UNCHANGED <<row, lapsed, at, asked, answer, holds, standing, turn, issued, clues>>

Subscribed(p) ==
  /\ at[p] = "subscribing" /\ todo[p] = {}
  /\ at' = [at EXCEPT ![p] = IF p \in Syncers THEN "sweep" ELSE "idle"]
  /\ holds' = [holds EXCEPT ![p] = {}]
  /\ UNCHANGED <<row, rows, lapsed, asked, answer, todo, kick, clues, faults>>

(* Lapsed subscriptions expire, and every role of the channel is queued    *)
(* for a new evaluation; or a statement fails, and the rest waits for the  *)
(* next reconcile.                                                         *)
Sweep(p) ==
  /\ at[p] = "sweep"
  /\ at' = [at EXCEPT ![p] = "idle"]
  /\ \/ lapsed' = FALSE /\ UNCHANGED faults
     \/ Fault /\ UNCHANGED lapsed
  /\ UNCHANGED <<row, rows, asked, answer, holds, todo, kick, clues>>

-----------------------------------------------------------------------------
(* Connecting: broadcaster_callback_inner.  *)

(* Kick gives a new grant for the code.  *)
Exchange(p) ==
  /\ at[p] = "idle" /\ issued < MaxGrants
  /\ issued' = issued + 1
  /\ standing' = standing \cup {issued + 1}
  /\ holds' = [holds EXCEPT ![p] = {issued + 1}]
  /\ at' = [at EXCEPT ![p] = "exchanged"]
  /\ UNCHANGED <<row, rows, lapsed, asked, answer, todo, turn, sending, clues, faults>>

(* A scope was unticked, or Kick did not say whose channel it is: nothing  *)
(* is stored.                                                              *)
Refuse(p) ==
  /\ at[p] = "exchanged" /\ Fault
  /\ at' = [at EXCEPT ![p] = "idle"] /\ holds' = [holds EXCEPT ![p] = {}]
  /\ UNCHANGED <<row, rows, lapsed, asked, answer, todo, kick, clues>>

(* The row takes the new tokens, and loses the stamp.  *)
Connect(p) ==
  /\ at[p] = "exchanged"
  /\ stored' \in {<<g, 0>> : g \in holds[p]}
  /\ fresh' = TRUE /\ invalid' = FALSE /\ raced' = FALSE
  /\ at' = [at EXCEPT ![p] = "subscribing"]
  /\ todo' = [todo EXCEPT ![p] = Types]
  /\ UNCHANGED <<rows, lapsed, asked, answer, holds, kick, lost, faults>>

-----------------------------------------------------------------------------
(* The rest of the world.  *)

(* The access token comes within five minutes of its expiry.  *)
Age ==
  /\ fresh /\ fresh' = FALSE
  /\ UNCHANGED <<stored, invalid, rows, lapsed, place, kick, clues, faults>>

(* The streamer removes the app or changes their password; Kick may end    *)
(* some of the event subscriptions with the grant.                         *)
Revoke ==
  \E g \in standing, kept \in SUBSET sending :
    /\ Fault
    /\ standing' = standing \ {g} /\ sending' = kept
    /\ UNCHANGED <<row, rows, lapsed, place, turn, issued, clues>>

(* A subscriber's stored expiry is two days past.  *)
Lapse ==
  /\ ~lapsed /\ lapsed' = TRUE
  /\ UNCHANGED <<row, rows, place, kick, clues, faults>>

(* The process running p dies, and with it its transaction.  *)
CutOff(p) ==
  /\ at[p] # "idle" /\ Fault
  /\ lost' = lost \cup GrantsIn(answer[p] \ asked[p])
  /\ at' = [at EXCEPT ![p] = "idle"]
  /\ asked' = [asked EXCEPT ![p] = {}] /\ answer' = [answer EXCEPT ![p] = {}]
  /\ holds' = [holds EXCEPT ![p] = {}] /\ todo' = [todo EXCEPT ![p] = {}]
  /\ UNCHANGED <<row, rows, lapsed, kick, raced>>

(* The channel was connected once, and some of its event types subscribed.  *)
Init ==
  /\ stored = <<1, 0>> /\ fresh = TRUE /\ invalid = FALSE /\ lapsed = FALSE
  /\ rows \in SUBSET Types /\ sending = rows
  /\ at = [p \in Processes |-> "idle"]
  /\ asked = [p \in Processes |-> {}] /\ answer = [p \in Processes |-> {}]
  /\ holds = [p \in Processes |-> {}] /\ todo = [p \in Processes |-> {}]
  /\ standing = {1} /\ turn = [g \in Grants |-> 0] /\ issued = 1
  /\ lost = {} /\ raced = FALSE /\ faults = 0

(* One more statement of a process that has begun.  *)
Continues(p) ==
  \/ FastPath(p) \/ ReadAgain(p) \/ KickGrants(p) \/ KickRefuses(p) \/ RefreshFails(p)
  \/ StoreTokens(p) \/ MarkInvalid(p)
  \/ FindMissing(p) \/ Subscribe(p) \/ Subscribed(p) \/ Sweep(p)

Next ==
  \/ \E p \in Syncers : Start(p)
  \/ \E p \in Processes : Continues(p) \/ CutOff(p)
  \/ \E p \in Connects : Exchange(p) \/ Refuse(p) \/ Connect(p)
  \/ Age \/ Revoke \/ Lapse

Spec == Init /\ [][Next]_vars

(* The loop comes round every six hours, every statement ends, and time    *)
(* passes; nobody has to connect, visit or subscribe.                      *)
Fairness ==
  /\ WF_vars(Start(Loop)) /\ WF_vars(Age)
  /\ \A p \in Processes : WF_vars(Continues(p))
  /\ \A p \in Connects : WF_vars(Connect(p))

FairSpec == Spec /\ Fairness

-----------------------------------------------------------------------------
(* A refresh token goes to Kick at most once: the loop and the jobs never  *)
(* ask with one that Kick has rotated, unless its successor was lost on    *)
(* the way to the row; and once the channel is marked as revoked nobody    *)
(* asks at all until it is connected again ("one refresh at a time per     *)
(* channel", "a revoked sign-in is final").                                *)
SpentOnce ==
  \A p \in Syncers : at[p] = "asking" =>
    /\ ~invalid
    /\ \A t \in asked[p] : t[2] = turn[t[1]] \/ t[1] \in lost

(* A channel is marked as needing a new sign-in only when Kick will not    *)
(* accept the refresh token it has; the exception is a verdict on the old  *)
(* token that is written after the broadcaster has connected again.        *)
StampEarned ==
  invalid /\ ~raced => Dead(stored)

(* An event type without a subscription row, because subscribing or        *)
(* recording it failed, is subscribed at Kick in the end by some reconcile *)
(* ("the reconcile worker is the safety net"), unless the channel turns    *)
(* out to need a new sign-in.  Nothing is promised of a type whose row     *)
(* stayed active after Kick ended the subscription.                        *)
SubscriptionsHeal ==
  \A e \in Types :
    e \notin rows ~> (e \in rows \cap sending \/ invalid)

(* A lapsed subscriber loses the role in the end, whether or not Kick      *)
(* still accepts the channel's sign-in.                                    *)
LapsedExpire == lapsed ~> ~lapsed
=============================================================================
