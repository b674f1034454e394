------------------------------- MODULE Webhook -------------------------------
(***************************************************************************)
(* The webhook ingestor (routes/webhooks.rs): what one channel's events do *)
(* to the facts of one viewer (the actor) and of the member the viewer     *)
(* gifts subscriptions to (the giftee), beside the six-hourly recount of   *)
(* the chat window (tasks/reconcile.rs).                                   *)
(*                                                                         *)
(* A handler first logs the message id, then runs the statements of the    *)
(* event one by one, without a transaction.  A statement that fails makes  *)
(* it delete the log row and answer 500, so that Kick sends the event      *)
(* again.  A handler may also be cut off between two statements: its       *)
(* connection or the process is gone.                                      *)
(*                                                                         *)
(* Kick is external: it sends an event until a delivery is answered 200,   *)
(* several copies may be on their way at once, and none arrives after the  *)
(* log row has been collected.                                             *)
(*                                                                         *)
(* The facts are abstracted to how they are written: set (follow, new      *)
(* subscription), added to (kicks, gifted subscriptions, renewals), copied *)
(* from a snapshot (the badges) or raised to a floor (what a badge's count *)
(* proves).  A missing row reads as one of default facts, so creating it   *)
(* is part of the first statement that writes it.  Both members are linked.   *)
(* Signatures, names and the live state, which no rule reads, are left     *)
(* out.                                                                    *)
(***************************************************************************)
EXTENDS Integers, Sequences, FiniteSets, FiniteSetsExt

CONSTANTS
  Events,      \* message ids
  Mixes,       \* what the events may be, together
  Handlers,    \* requests that can be served at once
  Window,      \* days of chat that count (30)
  MaxDays,     \* bound: days that pass
  MaxFaults    \* bound: failed statements, lost answers, handlers cut off

(* What an event can be, as far as its statements differ.  *)
Chats == {"chat", "chat_moderator", "chat_subscriber"}
Kinds == {"set", "add", "gifts"} \cup Chats

ASSUME WebhookAssumption ==
  /\ IsFiniteSet(Events)
  /\ Mixes \subseteq [Events -> Kinds]
  /\ Window \in Nat \ {0}
  /\ MaxDays \in Nat /\ MaxFaults \in Nat

VARIABLES
  kind,       \* what each event is
  kick,       \* Kick's view of it: "sending", "done"
  log,        \* webhook_deliveries
  at,         \* each handler: "idle", "received", "working", "failed"
  event,      \* {the event it handles} or {}
  todo,       \* the statements it has left
  changed,    \* has it changed a fact a badge shows
  count,      \* chat_messages_30d
  bucket,     \* chat_activity_days: messages by age in days
  recount,    \* {the sum a recount has read, and not yet written} or {}
  badge,      \* is_moderator, is_vip, is_og
  raised,     \* months and gifts are at the floor the badges prove
  unsynced,   \* history: members with a fact newer than their last sync
  forgotten,  \* history: members whose sync was lost with a handler
  times,      \* history: how often the event was counted since last reopened
  applied,    \* history: events some handler has finished
  spoiled,    \* history: events acked and dropped
  days, faults

delivery == <<kick, log>>
handler  == <<at, event, todo, changed>>
chat     == <<count, bucket, recount>>
badges   == <<badge, raised>>
sync     == <<unsynced, forgotten>>
clues    == <<times, applied, spoiled>>
budgets  == <<days, faults>>
vars     == <<kind, delivery, handler, chat, badges, sync, clues, budgets>>

-----------------------------------------------------------------------------
(* Mutant: the sync is queued before the fact is written.  *)
ProgramEager(k) ==
  CASE k = "set"   -> <<"announce", "set">>
    [] k = "add"   -> <<"announce", "add">>
    [] k = "gifts" -> <<"announce", "add", "announce_giftee", "grant">>
    [] k \in Chats -> <<"count", "bucket", "badges", "floors", "announce_changes">>

(* The statements of each, in order: the arms of apply_event.  *)
Program(k) ==
  CASE k = "set"   -> <<"set", "announce">>
    [] k = "add"   -> <<"add", "announce">>
    [] k = "gifts" -> <<"add", "announce", "grant", "announce_giftee">>
    [] k \in Chats -> <<"count", "bucket", "badges", "floors", "announce_changes">>

Statements == {"set", "add", "grant", "announce", "announce_giftee",
               "count", "bucket", "badges", "floors", "announce_changes"}

Fault == faults < MaxFaults /\ faults' = faults + 1 /\ UNCHANGED days

-----------------------------------------------------------------------------
(* Delivery.  *)

(* A copy arrives, and its signature is good.  (A copy whose timestamp is   *)
(* more than ten minutes off is refused like one with a bad signature, and *)
(* counts as one that did not arrive: Kick is taken to stamp each try.)    *)
Deliver(h, e) ==
  /\ at[h] = "idle" /\ kick[e] = "sending"
  /\ at'    = [at EXCEPT ![h] = "received"]
  /\ event' = [event EXCEPT ![h] = {e}]
  /\ UNCHANGED <<kind, delivery, todo, changed, chat, badges, sync, clues, budgets>>

(* The handler is done with its request.  *)
Free(h) ==
  /\ at'      = [at EXCEPT ![h] = "idle"]
  /\ event'   = [event EXCEPT ![h] = {}]
  /\ todo'    = [todo EXCEPT ![h] = <<>>]
  /\ changed' = [changed EXCEPT ![h] = FALSE]

(* The answer 200 reaches Kick, or is lost and Kick sends the event again. *)
Ack(e) ==
  \/ kick' = [kick EXCEPT ![e] = "done"] /\ UNCHANGED budgets
  \/ Fault /\ UNCHANGED kick

(* Mutant: no check of the message id.  *)
UnseenAlways(e) == e \in Events

Unseen(e) == e \notin log

(* INSERT .. ON CONFLICT DO NOTHING: the first writer wins.  *)
Claim(h) ==
  \E e \in event[h] :
    /\ at[h] = "received" /\ Unseen(e)
    /\ log'  = log \cup {e}
    /\ at'   = [at EXCEPT ![h] = "working"]
    /\ todo' = [todo EXCEPT ![h] = Program(kind[e])]
    /\ UNCHANGED <<kind, kick, event, changed, chat, badges, sync, clues, budgets>>

(* A duplicate is acked without reprocessing.  *)
Duplicate(h) ==
  \E e \in event[h] :
    /\ at[h] = "received" /\ ~Unseen(e)
    /\ Ack(e) /\ Free(h)
    /\ UNCHANGED <<kind, log, chat, badges, sync, clues>>

(* All statements are done.  *)
Finish(h) ==
  \E e \in event[h] :
    /\ at[h] = "working" /\ todo[h] = <<>>
    /\ applied' = applied \cup {e}
    /\ Ack(e) /\ Free(h)
    /\ UNCHANGED <<kind, log, chat, badges, sync, times, spoiled>>

-----------------------------------------------------------------------------
(* The statements.  *)
Does(h, s) ==
  /\ at[h] = "working" /\ todo[h] # <<>> /\ Head(todo[h]) = s
  /\ todo' = [todo EXCEPT ![h] = Tail(todo[h])]

Counted(h) == times' = [e \in Events |-> times[e] + (IF e \in event[h] THEN 1 ELSE 0)]

(* A fact that does not depend on what it was: a follow, a subscription.  *)
Set(h) ==
  /\ Does(h, "set")
  /\ unsynced' = unsynced \cup {"actor"}
  /\ UNCHANGED <<kind, delivery, at, event, changed, chat, badges, forgotten, clues, budgets>>

(* A total the event adds to: kicks, gifted subscriptions, months.  *)
Add(h) ==
  /\ Does(h, "add") /\ Counted(h)
  /\ unsynced' = unsynced \cup {"actor"}
  /\ UNCHANGED <<kind, delivery, at, event, changed, chat, badges, forgotten,
                 applied, spoiled, budgets>>

(* The giftee gets the subscription.  *)
Grant(h) ==
  /\ Does(h, "grant")
  /\ unsynced' = unsynced \cup {"giftee"}
  /\ UNCHANGED <<kind, delivery, at, event, changed, chat, badges, forgotten, clues, budgets>>

(* One chat message: the counter ...  *)
Count(h) ==
  /\ Does(h, "count")
  /\ count' = count + 1
  /\ UNCHANGED <<kind, delivery, at, event, changed, bucket, recount, badges, sync, clues, budgets>>

(* ... and today's bucket.  *)
Bucket(h) ==
  /\ Does(h, "bucket") /\ Counted(h)
  /\ bucket' = [bucket EXCEPT ![0] = @ + 1]
  /\ UNCHANGED <<kind, delivery, at, event, changed, count, recount, badges, sync,
                 applied, spoiled, budgets>>

(* A statement on a fact that a badge shows has written the row iff new.  *)
Wrote(h, new) ==
  /\ changed'  = [changed EXCEPT ![h] = @ \/ new]
  /\ unsynced' = IF new THEN unsynced \cup {"actor"} ELSE unsynced

(* The channel badges are set and cleared from the message.  *)
Badges(h) ==
  /\ Does(h, "badges")
  /\ badge' = (\E e \in event[h] : kind[e] = "chat_moderator")
  /\ Wrote(h, badge' # badge)
  /\ UNCHANGED <<kind, delivery, at, event, chat, raised, forgotten, clues, budgets>>

(* The badges with a count only ever raise what is stored.  *)
Floors(h) ==
  /\ Does(h, "floors")
  /\ raised' = (raised \/ \E e \in event[h] : kind[e] = "chat_subscriber")
  /\ Wrote(h, raised' # raised)
  /\ UNCHANGED <<kind, delivery, at, event, chat, badge, forgotten, clues, budgets>>

(* player_sync for whoever the statement names; after a chat message only  *)
(* if a badge told something new.                                          *)
Announce(h) ==
  /\ \/ Does(h, "announce") /\ unsynced' = unsynced \ {"actor"}
     \/ Does(h, "announce_giftee") /\ unsynced' = unsynced \ {"giftee"}
     \/ /\ Does(h, "announce_changes")
        /\ unsynced' = IF changed[h] THEN unsynced \ {"actor"} ELSE unsynced
  /\ UNCHANGED <<kind, delivery, at, event, changed, chat, badges, forgotten, clues, budgets>>

-----------------------------------------------------------------------------
(* When it goes wrong.  *)

(* The members an event's handler has yet to announce or may have been     *)
(* about to.                                                               *)
Members(e) == IF kind[e] = "gifts" THEN {"actor", "giftee"} ELSE {"actor"}

(* A statement fails.  What the badges told is lost with the handler: the  *)
(* next one will find nothing new.  Without news there is nothing to       *)
(* announce, and no statement to fail.                                     *)
Fail(h) ==
  /\ at[h] = "working" /\ todo[h] # <<>> /\ Fault
  /\ Head(todo[h]) = "announce_changes" => changed[h]
  /\ at' = [at EXCEPT ![h] = "failed"]
  /\ todo' = [todo EXCEPT ![h] = <<>>]
  /\ changed' = [changed EXCEPT ![h] = FALSE]
  /\ forgotten' = IF changed[h] THEN forgotten \cup {"actor"} ELSE forgotten
  /\ UNCHANGED <<kind, delivery, event, chat, badges, unsynced, clues>>

(* Mutant: the log row stays.  *)
ReopenedNever(e) == log

Reopened(e) == log \ {e}

(* The event is lost for good.  *)
Spoil(S) ==
  /\ spoiled'   = spoiled \cup S
  /\ forgotten' = forgotten \cup UNION {Members(e) : e \in S}

(* The log row is deleted and the answer is 500.  If a copy of the event   *)
(* has been acked as a duplicate meanwhile, Kick does not send it again.   *)
Reopen(h) ==
  \E e \in event[h] :
    /\ at[h] = "failed" /\ Free(h)
    /\ log' = Reopened(e)
    /\ times' = [times EXCEPT ![e] = 0]
    /\ Spoil({e} \cap {d \in Events : kick[d] = "done"})
    /\ UNCHANGED <<kind, kick, chat, badges, unsynced, applied, budgets>>

(* The DELETE fails like the statement before it, and its error is ignored. *)
ReopenFails(h) ==
  /\ at[h] = "failed" /\ Free(h)
  /\ Spoil(event[h])
  /\ UNCHANGED <<kind, delivery, chat, badges, unsynced, times, applied, budgets>>

(* The request is dropped where it stands: Kick has hung up, or the        *)
(* process has died.  Once the id is logged, a retry is a duplicate; a     *)
(* handler that has not logged it leaves nothing behind, nor does one      *)
(* whose INSERT fails.                                                     *)
CutOff(h) ==
  /\ at[h] # "idle" /\ Fault /\ Free(h)
  /\ Spoil(IF at[h] = "received" THEN {} ELSE event[h])
  /\ UNCHANGED <<kind, delivery, chat, badges, unsynced, times, applied>>

-----------------------------------------------------------------------------
(* The reconcile worker and the days.  *)
Ages == 0..(Window - 1)
WindowSum == MapThenSumSet(LAMBDA a : bucket[a], Ages)

(* Mutant: rows with one message are taken for up to date.  *)
RecountDueAboveOne == count > 1

RecountDue == count > 0

(* The recount is one UPDATE: its snapshot is taken when it starts ...  *)
RecountStart ==
  /\ recount = {} /\ RecountDue
  /\ recount' = {WindowSum}
  /\ UNCHANGED <<kind, delivery, handler, count, bucket, badges, sync, clues, budgets>>

(* ... and the row is written some time later.  Buckets older than the     *)
(* window, which the next statement deletes, are gone with the day.        *)
RecountWrite ==
  /\ recount # {}
  /\ count' = IF RecountDue THEN CHOOSE n \in recount : TRUE ELSE count
  /\ recount' = {}
  /\ UNCHANGED <<kind, delivery, handler, bucket, badges, sync, clues, budgets>>

(* The channel_sync at the end of reconcile_channel covers all members.  *)
ChannelSync ==
  /\ unsynced # {}
  /\ unsynced' = {} /\ forgotten' = {}
  /\ UNCHANGED <<kind, delivery, handler, chat, badges, clues, budgets>>

Rolled == [a \in Ages |-> IF a = 0 THEN 0 ELSE bucket[a - 1]]

(* Midnight, UTC.  *)
Midnight ==
  /\ days < MaxDays
  /\ days' = days + 1
  /\ bucket' = Rolled
  /\ UNCHANGED <<kind, delivery, handler, count, recount, badges, sync, clues, faults>>

-----------------------------------------------------------------------------
Init ==
  /\ kind \in Mixes
  /\ kick = [e \in Events |-> "sending"]
  /\ log = {}
  /\ at = [h \in Handlers |-> "idle"]
  /\ event = [h \in Handlers |-> {}]
  /\ todo = [h \in Handlers |-> <<>>]
  /\ changed = [h \in Handlers |-> FALSE]
  /\ count = 0
  /\ bucket = [a \in Ages |-> 0]
  /\ recount = {}
  /\ badge = FALSE /\ raised = FALSE
  /\ unsynced = {} /\ forgotten = {}
  /\ times = [e \in Events |-> 0]
  /\ applied = {} /\ spoiled = {}
  /\ days = 0 /\ faults = 0

Statement(h) ==
  Set(h) \/ Add(h) \/ Grant(h) \/ Count(h) \/ Bucket(h) \/ Badges(h) \/ Floors(h) \/ Announce(h)

Serve(h) == Claim(h) \/ Duplicate(h) \/ Statement(h) \/ Finish(h) \/ Reopen(h)

Next ==
  \/ \E e \in Events, h \in Handlers : Deliver(h, e)
  \/ \E h \in Handlers : Serve(h) \/ Fail(h) \/ ReopenFails(h) \/ CutOff(h)
  \/ RecountStart \/ RecountWrite \/ ChannelSync \/ Midnight

Spec == Init /\ [][Next]_vars

(* Kick sends until it is answered, a request that was not cut off is      *)
(* served, and the recount runs every six hours.  Nothing else has to      *)
(* happen: no event, no failure, no day.                                   *)
FairSpec ==
  /\ Spec
  /\ \A e \in Events : WF_vars(\E h \in Handlers : Deliver(h, e))
  /\ \A h \in Handlers : WF_vars(Serve(h))
  /\ WF_vars(RecountStart) /\ WF_vars(RecountWrite)

-----------------------------------------------------------------------------
MaxMessages == (MaxFaults + 1) * Cardinality(Events)

(* The variables range as their columns do; the buckets never hold more    *)
(* days than count.                                                        *)
TypeOK ==
  /\ kind \in [Events -> Kinds]
  /\ kick \in [Events -> {"sending", "done"}]
  /\ log \subseteq Events
  /\ at \in [Handlers -> {"idle", "received", "working", "failed"}]
  /\ \A h \in Handlers : event[h] \subseteq Events /\ Cardinality(event[h]) <= 1
  /\ todo \in [Handlers -> Seq(Statements)]
  /\ changed \in [Handlers -> BOOLEAN]
  /\ count \in 0..MaxMessages
  /\ bucket \in [Ages -> 0..MaxMessages]
  /\ recount \subseteq 0..MaxMessages /\ Cardinality(recount) <= 1
  /\ badge \in BOOLEAN /\ raised \in BOOLEAN
  /\ unsynced \subseteq {"actor", "giftee"} /\ forgotten \subseteq {"actor", "giftee"}
  /\ times \in [Events -> Nat]
  /\ applied \subseteq Events /\ spoiled \subseteq Events
  /\ days \in 0..MaxDays /\ faults \in 0..MaxFaults

(* However many copies of an event arrive and however they overlap, it is  *)
(* counted once, or once for each time a failed handler gave it back for a *)
(* retry.                                                                  *)
CountedOnce == \A e \in Events : times[e] <= 1

AtRest ==
  /\ \A h \in Handlers : at[h] = "idle"
  /\ \A e \in Events : kick[e] # "sending"

(* When no event is being handled or on its way, every changed fact has    *)
(* been followed by a sync of its member, whichever handlers wrote and     *)
(* announced in which order, unless the announcement was lost with the     *)
(* handler that owed it.                                                   *)
Announced == AtRest => unsynced \subseteq forgotten

(* Every event Kick sends is applied to its last statement in the end,     *)
(* unless its handler was cut off or could not give it back.               *)
EveryEventApplied ==
  \A e \in Events : kick[e] = "sending" ~> e \in applied \cup spoiled

(* Whatever messages, retries and lost requests did to the counter, the    *)
(* recount brings it back to the messages of the window, if there is       *)
(* anything in it.                                                         *)
WindowRecounted == <>[](count > 0 => count = WindowSum)
=============================================================================
