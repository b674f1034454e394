------------------------------ MODULE Accounts ------------------------------
(***************************************************************************)
(* A member's Kick account: the OAuth states of both sign-in flows, the    *)
(* viewer callback that links an account (routes/oauth.rs), unlink and     *)
(* refresh on the verify page (routes/verify.rs), and what they set off:   *)
(* the follow probe, the player sync and the channel's bulk sync.          *)
(*                                                                         *)
(* One guild, one channel, one role link.  A handler is cut between its    *)
(* statements: requests, the sync worker and the probe keep what they read *)
(* (which Kick account a member has) across statements of the others.      *)
(* A relation row is keyed by the Kick account and has no foreign key to   *)
(* the link, so it can outlive it or be made without one; the day buckets  *)
(* of chat, keyed the same way, outlive it always.                         *)
(*                                                                         *)
(* The two calls of a role change, a bulk sync's list and its PUT, and the *)
(* probe's policy are modules RoleSync and FollowProbe; the statements of  *)
(* an event are module Webhook.  Here each is one step, and held is the    *)
(* mirror and RoleLogic as one: a lost reply, the user limit and a paused  *)
(* link of the bulk sync are RoleSync's.                                   *)
(***************************************************************************)
EXTENDS Naturals, FiniteSets

CONSTANTS
  Members,     \* Discord members of the guild
  Kicks,       \* Kick accounts
  States,      \* rows of kick_oauth_states that are ever issued
  Requests,    \* handlers of viewer callback or unlink that run at a time
  Workers,     \* job workers that can run a player sync
  Rules,       \* what the role link may grant to: those who follow, all who
               \* linked, or the same with no channel bound to the link
  Chatters,    \* Kick accounts that write in the channel's chat
  NoOne,       \* no member, or no Kick account
  MaxChanges,  \* bound: callbacks, unlinks, refreshes, events and lapses
  MaxFaults    \* bound: statements that fail and processes that die

ASSUME AccountsAssumption ==
  /\ NoOne \notin Members \cup Kicks
  /\ Requests \cap Workers = {} /\ Chatters \subseteq Kicks
  /\ Rules \subseteq {"follower", "linked", "linked_unbound"}
  /\ MaxChanges \in Nat /\ MaxFaults \in Nat

Actors == Requests \cup Workers
RequestPhases == {"upsert", "probe", "rows", "enqueue"}
SyncPhases    == {"evaluate", "add", "remove"}
Phases == {"idle", "find", "seed"} \cup RequestPhases \cup SyncPhases

VARIABLES
  states,      \* kick_oauth_states: whose each row is that can still be used
  uses,        \* history: sign-ins that went on with a state
  link,        \* kick_users: the Kick account of a member
  rows,        \* channel_relations of the channel: absent, all default, or
               \* known to follow
  by,          \* history: whose account it was when the follow was recorded
  buckets,     \* chat_activity_days: by which members (NoOne: by nobody's
               \* account) the account's messages of the last 30 days are
  counted,     \* and those that the row's chat_messages_30d counts
  truth,       \* Kick accounts that follow the channel, at Kick
  rule,        \* what the role link grants to
  held,        \* members that have the role
  syncDue,     \* members with a pending player_sync
  probeDue,    \* members with a pending follow_probe
  pc,          \* where each request and each worker stands
  who,         \* the member it works for
  kick,        \* the Kick account it read or was told
  probe,       \* the probe that runs: its member, and the account it read
  event,       \* the account whose follow event has been stored and whose
               \* member has not been looked up yet
  cut,         \* history: members whose change ended before its player_sync,
  missed,      \* and whose row another's unlink or probe wrote, since their
               \* last sync
  left,        \* history: accounts whose owner left, and their rows did not
  crossed,     \* history: members whose last sync began beside another one,
  refused,     \* and those whose role change was refused or failed in it
  outlived,    \* history: the buckets that were there at the last unlink
  changes, faults

oauth   == <<states, uses>>
chat    == <<buckets, counted, outlived>>
facts   == <<rows, by, chat>>
given   == <<truth, rule>>
due     == <<syncDue, probeDue>>
local   == <<pc, who, kick>>
history == <<cut, missed, left, crossed, refused>>
budgets == <<changes, faults>>
vars    == <<oauth, link, facts, given, held, due, local, probe, event,
             history, budgets>>

Idle == [who |-> NoOne, kick |-> NoOne]

-----------------------------------------------------------------------------
OwnersOf(k) == {m \in Members : link[m] = k}

(* The rule, for one member; an absent row reads as all default.           *)
Qualifies(m) ==
  /\ link[m] # NoOne
  /\ rule = "follower" => rows[link[m]] = "follows"

Goto(a, p) == pc' = [pc EXCEPT ![a] = p]
Done(a) ==
  /\ Goto(a, "idle")
  /\ who'  = [who EXCEPT ![a] = NoOne]
  /\ kick' = [kick EXCEPT ![a] = NoOne]

Change == changes < MaxChanges /\ changes' = changes + 1 /\ UNCHANGED faults
Fault  == faults < MaxFaults /\ faults' = faults + 1 /\ UNCHANGED changes

(* A fact is stored; the history remembers whose account it was then.      *)
Record(k) ==
  /\ rows' = [rows EXCEPT ![k] = "follows"]
  /\ by' = IF rows[k] = "follows" \/ OwnersOf(k) = {} THEN by
           ELSE [by EXCEPT ![k] = CHOOSE m \in OwnersOf(k) : TRUE]
  /\ UNCHANGED chat

-----------------------------------------------------------------------------
(* The viewer's OAuth states.  A new row is a new random state; it takes   *)
(* the place of one that is spent.                                         *)
IssueState(s, m) ==
  /\ states[s] = NoOne
  /\ states' = [states EXCEPT ![s] = m]
  /\ uses' = [uses EXCEPT ![s] = 0]
  /\ UNCHANGED <<link, facts, given, held, due, local, probe, event, history,
                 budgets>>

(* Ten minutes pass.                                                       *)
StateLapses(s) ==
  /\ states[s] # NoOne
  /\ states' = [states EXCEPT ![s] = NoOne]
  /\ UNCHANGED <<uses, link, facts, given, held, due, local, probe, event,
                 history, budgets>>

(* Mutant: the row is only read. *)
ConsumeKeepsRow(s) ==
  /\ states[s] # NoOne
  /\ UNCHANGED states

(* DELETE ... WHERE state = $1 AND expires_at > now() RETURNING ...        *)
Consume(s) ==
  /\ states[s] # NoOne
  /\ states' = [states EXCEPT ![s] = NoOne]

(* A callback that ends with its state spent and nothing done: cancelled   *)
(* on Kick, no code, no answer from Kick, or played to the broadcaster's   *)
(* callback, which deletes the row before it looks at the flow.            *)
CallbackRefused(s) ==
  /\ Consume(s) /\ Change
  /\ UNCHANGED <<uses, link, facts, given, held, due, local, probe, event,
                 history>>

(* The viewer's callback, up to Kick's answer which account signed in.     *)
(* Whom the link is for comes from the state.                              *)
ViewerCallback(r, s) ==
  /\ pc[r] = "idle"
  /\ Consume(s) /\ Change
  /\ uses' = [uses EXCEPT ![s] = @ + 1]
  /\ who' = [who EXCEPT ![r] = states[s]]
  /\ \E k \in Kicks : kick' = [kick EXCEPT ![r] = k]
  /\ Goto(r, "upsert")
  /\ UNCHANGED <<link, facts, given, held, due, probe, event, history>>

(* INSERT ... WHERE NOT EXISTS ... ON CONFLICT (discord_id) DO UPDATE: no  *)
(* row and the unique violation of a race both end as "taken".             *)
Taken(r) ==
  /\ pc[r] = "upsert"
  /\ OwnersOf(kick[r]) \ {who[r]} # {}
  /\ Done(r)
  /\ UNCHANGED <<oauth, link, facts, given, held, due, probe, event, history,
                 budgets>>

(* Then the member's guilds are asked for; without an answer the callback  *)
(* skips to the player sync, and the probe is left to the backfill.        *)
Upsert(r) ==
  /\ pc[r] = "upsert"
  /\ OwnersOf(kick[r]) \subseteq {who[r]}
  /\ link' = [link EXCEPT ![who[r]] = kick[r]]
  /\ left' = left \cup ({link[who[r]]} \ {NoOne, kick[r]})
  /\ \/ Goto(r, "find") /\ UNCHANGED budgets
     \/ Goto(r, "enqueue") /\ Fault
  /\ UNCHANGED <<oauth, facts, given, held, due, who, kick, probe, event, cut,
                 missed, crossed, refused>>

-----------------------------------------------------------------------------
(* ensure_baseline_relations, called by the callback and by a player sync: *)
(* it reads the member's account again, then inserts a row for it.         *)
AfterSeed(a) == IF a \in Requests THEN "probe" ELSE "evaluate"

FindAccount(a) ==
  /\ pc[a] = "find"
  /\ kick' = [kick EXCEPT ![a] = link[who[a]]]
  /\ Goto(a, IF link[who[a]] = NoOne THEN AfterSeed(a) ELSE "seed")
  /\ UNCHANGED <<oauth, link, facts, given, held, due, who, probe, event,
                 history, budgets>>

(* Mutant: no row is made for a new member. *)
SeedNoRow(a) ==
  /\ pc[a] = "seed"
  /\ Goto(a, AfterSeed(a))
  /\ UNCHANGED <<oauth, link, facts, given, held, due, who, kick, probe,
                 event, history, budgets>>

SeedRow(a) ==
  /\ pc[a] = "seed"
  /\ rows' = [rows EXCEPT ![kick[a]] = IF @ = "none" THEN "bare" ELSE @]
  /\ Goto(a, AfterSeed(a))
  /\ UNCHANGED <<oauth, link, by, chat, given, held, due, who, kick, probe,
                 event, history, budgets>>

(* Mutant: no player_sync at the end. *)
EnqueueNoSync(r) ==
  /\ pc[r] \in {"probe", "enqueue"}
  /\ probeDue' = IF pc[r] = "probe" THEN probeDue \cup {who[r]} ELSE probeDue
  /\ Done(r)
  /\ UNCHANGED <<oauth, link, facts, given, held, syncDue, probe, event,
                 history, budgets>>

(* The last statements of the callback (a probe, a channel_refresh, which  *)
(* only brings the next BulkSync forward, and a player sync) and of unlink *)
(* (the sync).                                                             *)
Enqueue(r) ==
  /\ pc[r] \in {"probe", "enqueue"}
  /\ probeDue' = IF pc[r] = "probe" THEN probeDue \cup {who[r]} ELSE probeDue
  /\ syncDue' = syncDue \cup {who[r]}
  /\ Done(r)
  /\ UNCHANGED <<oauth, link, facts, given, held, probe, event, history,
                 budgets>>

(* A statement fails, or the process dies: the handler stops where it is.  *)
RequestDies(r) ==
  /\ pc[r] # "idle"
  /\ Fault
  /\ Done(r)
  /\ cut'  = IF pc[r] = "upsert" THEN cut ELSE cut \cup {who[r]}
  /\ probeDue' \in {probeDue} \cup
       (IF pc[r] = "probe" THEN {probeDue \cup {who[r]}} ELSE {})
  /\ left' = IF pc[r] = "rows" THEN left \cup {kick[r]} ELSE left
  /\ UNCHANGED <<oauth, link, facts, given, held, syncDue, probe, event,
                 missed, crossed, refused>>

-----------------------------------------------------------------------------
(* verify_unlink: three statements and no transaction.                     *)
Unlink(r, m) ==
  /\ pc[r] = "idle"
  /\ link[m] # NoOne
  /\ Change
  /\ link' = [link EXCEPT ![m] = NoOne]
  /\ who'  = [who EXCEPT ![r] = m]
  /\ kick' = [kick EXCEPT ![r] = link[m]]
  /\ Goto(r, "rows")
  /\ UNCHANGED <<oauth, facts, given, held, due, probe, event, history>>

(* Mutant: the rows stay. *)
DeleteNoRows(r) ==
  /\ pc[r] = "rows"
  /\ Goto(r, "enqueue")
  /\ UNCHANGED <<oauth, link, facts, given, held, due, who, kick, probe,
                 event, history, budgets>>

(* DELETE FROM channel_relations WHERE kick_user_id = $1: by now the       *)
(* account may be somebody else's.  The counter goes with the row, the day *)
(* buckets of chat_activity_days stay.                                     *)
DeleteRows(r) ==
  /\ pc[r] = "rows"
  /\ rows' = [rows EXCEPT ![kick[r]] = "none"]
  /\ by'   = [by EXCEPT ![kick[r]] = NoOne]
  /\ counted'  = [counted EXCEPT ![kick[r]] = {}]
  /\ outlived' = [outlived EXCEPT ![kick[r]] = buckets[kick[r]]]
  /\ missed' = missed \cup OwnersOf(kick[r])
  /\ left' = left \ {kick[r]}
  /\ Goto(r, "enqueue")
  /\ UNCHANGED <<oauth, link, buckets, given, held, due, who, kick, probe,
                 event, cut, crossed, refused, budgets>>

(* verify_refresh queues a channel_refresh (see Enqueue), a probe unless   *)
(* one is queued or running, and a sync for a linked member; the last may  *)
(* be lost.                                                                *)
Refresh(m) ==
  /\ link[m] # NoOne
  /\ Change
  /\ probeDue' = IF probe.who = m THEN probeDue ELSE probeDue \cup {m}
  /\ syncDue' \in {syncDue, syncDue \cup {m}}
  /\ UNCHANGED <<oauth, link, facts, given, held, local, probe, event,
                 history>>

-----------------------------------------------------------------------------
(* The jobs.  Any idle worker takes one; that another is at work for the   *)
(* same member does not hold it back.                                      *)
StartSync(w) ==
  /\ pc[w] = "idle"
  /\ \E m \in syncDue :
       /\ syncDue' = syncDue \ {m}
       /\ who' = [who EXCEPT ![w] = m]
       /\ cut' = cut \ {m}
       /\ missed' = missed \ {m}
       /\ refused' = refused \ {m}
       /\ crossed' = IF \E v \in Workers : who[v] = m THEN crossed \cup {m}
                     ELSE crossed \ {m}
  /\ Goto(w, "find")
  /\ UNCHANGED <<oauth, link, facts, given, held, probeDue, kick, probe,
                 event, left, budgets>>

(* Does the member qualify, and does the mirror say they have the role?    *)
Evaluate(w) ==
  /\ pc[w] = "evaluate"
  /\ LET m == who[w] IN
     IF Qualifies(m) = (m \in held) THEN Done(w)
     ELSE Goto(w, IF Qualifies(m) THEN "add" ELSE "remove")
          /\ UNCHANGED <<who, kick>>
  /\ UNCHANGED <<oauth, link, facts, given, held, due, probe, event, history,
                 budgets>>

ApplySync(w) ==
  /\ pc[w] \in {"add", "remove"}
  /\ held' = IF pc[w] = "add" THEN held \cup {who[w]} ELSE held \ {who[w]}
  /\ Done(w)
  /\ UNCHANGED <<oauth, link, facts, given, due, probe, event, history,
                 budgets>>

(* add_user or remove_user is refused or fails: the user limit, a link     *)
(* that is disabled or paused, any other error.  It is logged, nothing     *)
(* changes, and the job is completed all the same.                         *)
SyncRefused(w) ==
  /\ pc[w] \in {"add", "remove"}
  /\ Fault
  /\ refused' = refused \cup {who[w]}
  /\ Done(w)
  /\ UNCHANGED <<oauth, link, facts, given, held, due, probe, event, cut,
                 missed, left, crossed>>

(* The job is due again: a statement before the role change fails, or the  *)
(* worker dies, wherever it was.                                           *)
SyncFails(w) ==
  /\ pc[w] # "idle"
  /\ Fault
  /\ syncDue' = syncDue \cup {who[w]}
  /\ Done(w)
  /\ UNCHANGED <<oauth, link, facts, given, held, probeDue, probe, event,
                 history>>

(* Mutant: members are added, nobody is left out. *)
BulkSyncKeeps ==
  /\ rule # "linked_unbound"
  /\ held' = held \cup {m \in Members : Qualifies(m)}
  /\ UNCHANGED <<oauth, link, facts, given, due, local, probe, event, history,
                 budgets>>

(* reconcile_channel, each six hours or as a channel_refresh job, the      *)
(* channel_sync it ends with and the config_sync that leads to: the list   *)
(* of a link that is bound to the channel is replaced.                     *)
BulkSync ==
  /\ rule # "linked_unbound"
  /\ held' = {m \in Members : Qualifies(m)}
  /\ UNCHANGED <<oauth, link, facts, given, due, local, probe, event, history,
                 budgets>>

(* A probe reads the member's account and the rows it has.                 *)
StartProbe ==
  /\ probe = Idle
  /\ \E m \in probeDue :
       /\ probeDue' = probeDue \ {m}
       /\ probe' = IF link[m] = NoOne THEN Idle
                   ELSE IF rows[link[m]] = "none" THEN Idle
                   ELSE [who |-> m, kick |-> link[m]]
  /\ UNCHANGED <<oauth, link, facts, given, held, syncDue, local, event,
                 history, budgets>>

(* Mutant: the answer is not stored. *)
ProbeForgets ==
  /\ probe # Idle
  /\ syncDue' = syncDue \cup {probe.who}
  /\ probe' = Idle
  /\ UNCHANGED <<oauth, link, facts, given, held, probeDue, local, event,
                 history, budgets>>

(* An UPDATE by channel and account, then a sync of the member the probe   *)
(* was for: by now the account may be somebody else's.                     *)
ProbeAnswers ==
  /\ probe # Idle
  /\ IF probe.kick \in truth /\ rows[probe.kick] = "bare"
       THEN /\ Record(probe.kick)
            /\ syncDue' = syncDue \cup {probe.who}
            /\ missed' = missed \cup (OwnersOf(probe.kick) \ {probe.who})
       ELSE UNCHANGED <<facts, syncDue, missed>>
  /\ probe' = Idle
  /\ UNCHANGED <<oauth, link, given, held, probeDue, local, event, cut, left,
                 crossed, refused, budgets>>

(* Kick has no usable answer; nothing but the attempt is written.          *)
ProbeUnavailable ==
  /\ probe # Idle
  /\ Fault
  /\ probe' = Idle
  /\ UNCHANGED <<oauth, link, facts, given, held, due, local, event, history>>

(* backfill_unprobed: members with a row no probe has answered for.        *)
Backfill(m) ==
  /\ link[m] # NoOne /\ m \notin probeDue /\ probe.who # m
  /\ rows[link[m]] = "bare"
  /\ link[m] \in truth     \* any other probe changes nothing
  /\ probeDue' = probeDue \cup {m}
  /\ UNCHANGED <<oauth, link, facts, given, held, syncDue, local, probe,
                 event, history, budgets>>

(* channel.followed: the row is made and set whoever the account belongs   *)
(* to, then its member is looked up.                                       *)
FollowEvent(k) ==
  /\ event = NoOne
  /\ Change
  /\ truth' = truth \cup {k}
  /\ Record(k)
  /\ event' = k
  /\ UNCHANGED <<oauth, link, rule, held, due, local, probe, history>>

EventOwner ==
  /\ event # NoOne
  /\ syncDue' = syncDue \cup OwnersOf(event)
  /\ event' = NoOne
  /\ UNCHANGED <<oauth, link, facts, given, held, probeDue, local, probe,
                 history, budgets>>

(* chat.message.sent: the row is made, its counter and the day's bucket go *)
(* up.  (Webhook cuts between the two; a badge is not modelled.)           *)
ChatMessage(k) ==
  LET writers == IF OwnersOf(k) = {} THEN {NoOne} ELSE OwnersOf(k) IN
  /\ k \in Chatters
  /\ Change
  /\ rows' = [rows EXCEPT ![k] = IF @ = "none" THEN "bare" ELSE @]
  /\ buckets' = [buckets EXCEPT ![k] = @ \cup writers]
  /\ counted' = [counted EXCEPT ![k] = @ \cup writers]
  /\ UNCHANGED <<oauth, link, by, outlived, given, held, due, local, probe,
                 event, history>>

(* Messages turn thirty days old (a change, for the sake of the bound).    *)
BucketsLapse(k) ==
  /\ Change
  /\ \E old \in (SUBSET buckets[k]) \ {{}} :
       buckets' = [buckets EXCEPT ![k] = @ \ old]
  /\ UNCHANGED <<oauth, link, rows, by, counted, outlived, given, held, due,
                 local, probe, event, history>>

(* age_chat_activity, which the reconcile worker runs in each cycle: what  *)
(* the buckets hold, for every row that counts anything.                   *)
Recount ==
  /\ counted' = [k \in Kicks |-> IF counted[k] = {} THEN {} ELSE buckets[k]]
  /\ UNCHANGED <<oauth, link, rows, by, buckets, outlived, given, held, due,
                 local, probe, event, history, budgets>>

-----------------------------------------------------------------------------
(* At the start all is settled: some members are linked, to accounts of    *)
(* their own, and have the role if they qualify; an account that chats has *)
(* the messages of its owner, or of the one it had before it was unlinked. *)
Init ==
  /\ states = [s \in States |-> NoOne]
  /\ uses = [s \in States |-> 0]
  /\ link \in [Members -> Kicks \cup {NoOne}]
  /\ \A m, n \in Members : m # n /\ link[m] # NoOne => link[m] # link[n]
  /\ truth \in SUBSET Kicks
  /\ rows \in [Kicks -> {"none", "bare", "follows"}]
  /\ \A k \in Kicks :
       /\ rows[k] = "follows" => k \in truth
       /\ rows[k] = "none" <=> OwnersOf(k) = {}
  /\ by = [k \in Kicks |-> IF rows[k] # "follows" THEN NoOne
                           ELSE CHOOSE m \in OwnersOf(k) : TRUE]
  /\ \E wrote \in Members : buckets = [k \in Kicks |->
       IF k \notin Chatters THEN {}
       ELSE IF OwnersOf(k) # {} THEN OwnersOf(k) ELSE {wrote}]
  /\ counted  = [k \in Kicks |-> buckets[k] \cap OwnersOf(k)]
  /\ outlived = [k \in Kicks |-> buckets[k] \ OwnersOf(k)]
  /\ rule \in Rules
  /\ held = {m \in Members : Qualifies(m)}
  /\ syncDue = {} /\ probeDue = {}
  /\ pc = [a \in Actors |-> "idle"]
  /\ who = [a \in Actors |-> NoOne] /\ kick = [a \in Actors |-> NoOne]
  /\ probe = Idle /\ event = NoOne
  /\ cut = {} /\ missed = {} /\ left = {} /\ crossed = {}
  /\ refused = {}
  /\ changes = 0 /\ faults = 0

RequestStep(r) ==
  \/ Taken(r) \/ Upsert(r) \/ FindAccount(r) \/ SeedRow(r)
  \/ DeleteRows(r) \/ Enqueue(r)

WorkerStep(w) ==
  \/ StartSync(w) \/ FindAccount(w) \/ SeedRow(w)
  \/ Evaluate(w) \/ ApplySync(w)

Next ==
  \/ \E s \in States :
       \/ \E m \in Members : IssueState(s, m)
       \/ StateLapses(s) \/ CallbackRefused(s)
       \/ \E r \in Requests : ViewerCallback(r, s)
  \/ \E r \in Requests :
       \/ \E m \in Members : Unlink(r, m)
       \/ RequestStep(r) \/ RequestDies(r)
  \/ \E m \in Members : Refresh(m) \/ Backfill(m)
  \/ \E w \in Workers : WorkerStep(w) \/ SyncRefused(w) \/ SyncFails(w)
  \/ BulkSync \/ StartProbe \/ ProbeAnswers \/ ProbeUnavailable
  \/ \E k \in Kicks : FollowEvent(k) \/ ChatMessage(k) \/ BucketsLapse(k)
  \/ EventOwner \/ Recount

(* A running handler goes on, idle workers take what is due, the sweep and *)
(* the reconcile worker come round; members and Kick need do nothing.      *)
Fairness ==
  /\ \A r \in Requests : WF_vars(RequestStep(r))
  /\ \A w \in Workers : WF_vars(WorkerStep(w))
  /\ \A m \in Members : WF_vars(Backfill(m))
  /\ WF_vars(BulkSync) /\ WF_vars(StartProbe) /\ WF_vars(ProbeAnswers)
  /\ WF_vars(EventOwner)

Spec == Init /\ [][Next]_vars /\ Fairness

-----------------------------------------------------------------------------
(* Types. *)
TypeOK ==
  /\ states \in [States -> Members \cup {NoOne}]
  /\ uses \in [States -> Nat]
  /\ link \in [Members -> Kicks \cup {NoOne}]
  /\ rows \in [Kicks -> {"none", "bare", "follows"}]
  /\ by \in [Kicks -> Members \cup {NoOne}]
  /\ buckets \in [Kicks -> SUBSET (Members \cup {NoOne})]
  /\ counted \in [Kicks -> SUBSET (Members \cup {NoOne})]
  /\ outlived \in [Kicks -> SUBSET (Members \cup {NoOne})]
  /\ truth \subseteq Kicks /\ rule \in Rules /\ held \subseteq Members
  /\ syncDue \subseteq Members /\ probeDue \subseteq Members
  /\ pc \in [Actors -> Phases]
  /\ who \in [Actors -> Members \cup {NoOne}]
  /\ kick \in [Actors -> Kicks \cup {NoOne}]
  /\ probe \in {Idle} \cup [who : Members, kick : Kicks]
  /\ event \in Kicks \cup {NoOne}
  /\ cut \subseteq Members /\ missed \subseteq Members /\ left \subseteq Kicks
  /\ crossed \subseteq Members /\ refused \subseteq Members
  /\ changes \in 0..MaxChanges /\ faults \in 0..MaxFaults

(* Nothing is pending or under way for a member. *)
Settled(m) ==
  /\ m \notin syncDue \cup cut \cup missed
  /\ \A a \in Actors : who[a] # m
  /\ probe.who # m /\ event = NoOne

(* A state is good for one sign-in: a callback that is sent again, two at  *)
(* once, or one that comes late goes no further (oauth.rs: consumed in one *)
(* DELETE so it can't be replayed even on race).                           *)
StateOnce ==
  \A s \in States : uses[s] <= (IF states[s] = NoOne THEN 1 ELSE 0)

(* Once everything a member set off has been handled, they have the role   *)
(* if and only if their linked account earns it: whatever links, unlinks,  *)
(* events and probes came between the statements of each other.  What is   *)
(* left open, until the member's next sync, is a handler that died before  *)
(* its last statement (cut), and an unlink or a probe begun for one member *)
(* that writes the row after the account went to another (missed); two     *)
(* syncs of one member at a time, of which the one that looked first may   *)
(* write last (crossed); and a role change that was refused or failed: it  *)
(* is not tried again before the next sync (refused).                      *)
RoleFollowsLink ==
  \A m \in Members :
    Settled(m) /\ m \notin crossed \cup refused =>
      (m \in held <=> Qualifies(m))

(* A follow does not change hands: recorded while one member had the       *)
(* account, it is not there for the next one, except during their unlink,  *)
(* and for an account its owner replaced by another without unlinking      *)
(* (left).                                                                 *)
NoInheritance ==
  \A m \in Members, k \in Kicks :
    link[m] = k /\ rows[k] = "follows" =>
      \/ by[k] \in {m, NoOne}
      \/ k \in left
      \/ \E r \in Requests : pc[r] = "rows" /\ kick[r] = k

(* Nor do messages, but for the buckets that an unlink leaves behind: a    *)
(* member's counter holds those of an owner before them only where that    *)
(* owner's buckets outlived the unlink, with the exceptions of the follow. *)
(* That exception the comment at the deletion would not have (verify.rs:   *)
(* "we must clean it explicitly or a re-link would inherit stale facts"):  *)
(* once the next owner has written, the recount brings old messages back.  *)
CountStaysOwn ==
  \A m \in Members, k \in Kicks :
    link[m] = k =>
      \/ counted[k] \subseteq {m, NoOne} \cup outlived[k]
      \/ k \in left
      \/ \E r \in Requests : pc[r] = "rows" /\ kick[r] = k

(* A linked member whose account has no pending work has a relation row:   *)
(* the users page lists them and the backfill can find them.               *)
LinkedIsListed ==
  \A m \in Members :
    Settled(m) /\ link[m] # NoOne => rows[link[m]] # "none"

(* Unlinking takes the role back in the end.  If the handler died, two     *)
(* syncs of the member crossed, or RoleLogic refused or did not get the    *)
(* removal, it is the reconcile worker that does, which does not come to a *)
(* link with no channel.                                                   *)
UnlinkStrips ==
  \A m \in Members :
    (m \in held /\ link[m] = NoOne) ~>
      \/ m \notin held \/ link[m] # NoOne
      \/ rule = "linked_unbound" /\ m \in cut \cup crossed \cup refused

(* A member who followed before they linked gets the role in the end, with *)
(* no event from Kick: the probe or the backfill finds out, and where the  *)
(* sync's add is refused the bulk sync makes up for it (as long as it does *)
(* so itself: the user limit and the pause are RoleSync's).                *)
FollowerGetsRole ==
  \A m \in Members, k \in Kicks :
    (link[m] = k /\ k \in truth /\ rows[k] # "none" /\ rule = "follower")
      ~> (m \in held \/ link[m] # k \/ rows[k] = "none")

=============================================================================
